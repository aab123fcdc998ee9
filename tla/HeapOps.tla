------------------------------ MODULE HeapOps ------------------------------
(***************************************************************************)
(* The allocator of the guest programs, c_test/mem.c: what each call does   *)
(* to the heap, as operators.  A heap is a record                           *)
(*     end    heap_end of sbrk, as an offset from HEAP_START                *)
(*     head   mem_head                                                      *)
(*     block  the headers in memory, by address                             *)
(* and an address is an offset from HEAP_START.  A header has the fields    *)
(* of struct mem_block and one that is not in memory: extent, the bytes     *)
(* set aside behind it.                                                     *)
(*                                                                          *)
(* On the target (ilp32) the structure is 16 bytes long but its flexible    *)
(* array starts at byte 13, right after the flag.  malloc returns           *)
(* block->data, and free and realloc go back by sizeof(mem_block): they     *)
(* look for the header three bytes too low.                                 *)
(***************************************************************************)
EXTENDS Integers, FiniteSetsExt

CONSTANTS
  HeapSize,   \* HEAP_END - HEAP_START: 4 MiB in the code
  Base        \* 256: the values of a byte

Word == Base * Base * Base * Base   \* the values of a size_t
HeapStart == Word \div 2            \* HEAP_START: 0x80000000 in the code

HeaderSize == 16      \* sizeof(mem_block)
DataOffset == 13      \* offsetof(mem_block, data)
Slip == HeaderSize - DataOffset

(* Thrice the heap is far from the end of the address space, so that no     *)
(* string of the program asks for a size at which an address wraps.         *)
ASSUME HeapAssumption ==
  /\ HeapSize \in Nat /\ Base \in Nat \ {0}
  /\ 3 * HeapSize + 2 * HeaderSize < Word - HeapStart

Null == -1
Failed == -2          \* (void*)-1

Header(n) == [next |-> Null, prev |-> Null, size |-> n, free |-> FALSE, extent |-> n]

HeapInit == [end |-> 0, head |-> Null, block |-> [b \in {} |-> Header(0)]]

Put(f, k, v) == [x \in DOMAIN f \cup {k} |-> IF x = k THEN v ELSE f[x]]

BlockOf(p) == p - DataOffset

(* What sbrk makes of heap_end, a word compared without a sign.  When the   *)
(* sum wraps to an address below the end of the heap, sbrk succeeds and the *)
(* heap goes backwards.                                                     *)
Sum(h, n) == HeapStart + h.end + HeaderSize + n
NoRoom(h, n) == Sum(h, n) % Word >= HeapStart + HeapSize
Backwards(h, n) == ~NoRoom(h, n) /\ Sum(h, n) >= Word

(* Faulty variants: sbrk counts the bytes without the header; malloc        *)
(* returns the block and not its data; a failure is left in mem_head.       *)
NewBlockShort(h, n) ==
  IF NoRoom(h, n)
  THEN [heap |-> h, ptr |-> Null]
  ELSE [heap |-> [end |-> h.end + n, head |-> h.head,
                  block |-> Put(h.block, h.end, Header(n))],
        ptr  |-> h.end + DataOffset]
NewBlockAtHeader(h, n) ==
  IF NoRoom(h, n)
  THEN [heap |-> h, ptr |-> Null]
  ELSE [heap |-> [end |-> h.end + HeaderSize + n, head |-> h.head,
                  block |-> Put(h.block, h.end, Header(n))],
        ptr  |-> h.end]
NewBlockIntoHead(h, n) ==
  IF NoRoom(h, n)
  THEN [heap |-> [h EXCEPT !.head = Failed], ptr |-> Null]
  ELSE [heap |-> [end |-> h.end + HeaderSize + n, head |-> h.head,
                  block |-> Put(h.block, h.end, Header(n))],
        ptr  |-> h.end + DataOffset]

(* sbrk and the new block of malloc: the header is filled in, but no        *)
(* block's next is set to it.                                               *)
NewBlock(h, n) ==
  IF NoRoom(h, n)
  THEN [heap |-> h, ptr |-> Null]
  ELSE [heap |-> [end   |-> (Sum(h, n) % Word) - HeapStart,
                  head  |-> h.head,
                  block |-> Put(h.block, h.end, Header(n))],
        ptr  |-> h.end + DataOffset]

(* The list that malloc walks.  A block enters it as head or, when a block  *)
(* is split, as next of one that is in it, always at a higher address.      *)
Linked(h) == ({h.head} \cup {h.block[b].next : b \in DOMAIN h.block}) \ {Null}
Fitting(h, n) == {b \in Linked(h) : h.block[b].free /\ h.block[b].size >= n}

(* A block that is found is cut to size when the rest can hold a header.    *)
Reuse(h, b, n) ==
  LET found == h.block[b]
      rest  == b + HeaderSize + n
      left  == found.size - n - HeaderSize
  IN [h EXCEPT !.block =
        IF found.size > n + HeaderSize
        THEN Put(Put(@, b, [found EXCEPT !.next = rest, !.size = n,
                                         !.free = FALSE, !.extent = n]),
                 rest, [next |-> found.next, prev |-> b, size |-> left,
                        free |-> TRUE, extent |-> left])
        ELSE Put(@, b, [found EXCEPT !.free = FALSE])]

FirstBlock(h, n) ==
  LET r == NewBlock(h, n)
  IN [r EXCEPT !.heap.head = IF r.ptr = Null THEN Failed ELSE h.end]

(* After a first call that failed, mem_head is -1 and the walk starts with  *)
(* a load from there; and a request that moves the heap backwards is one of *)
(* half the address space.  The callers test both before they call.         *)
Faults(h) == h.head = Failed
Overreaches(h, n) == Fitting(h, n) = {} /\ Backwards(h, n)

Malloc(h, n) ==
  IF h.head = Null
  THEN FirstBlock(h, n)
  ELSE IF Fitting(h, n) = {}
  THEN NewBlock(h, n)
  ELSE LET b == Min(Fitting(h, n))
       IN [heap |-> Reuse(h, b, n), ptr |-> b + DataOffset]

(* The flag is byte 12 of a header, and three bytes below that is byte 9:   *)
(* the second byte of the size, which becomes 1.                            *)
SetSecondByte(n) == (n % Base) + Base + Base * Base * (n \div (Base * Base))

Free(h, p) ==
  [h EXCEPT !.block = Put(@, BlockOf(p),
              [h.block[BlockOf(p)] EXCEPT !.size = SetSecondByte(@)])]

(* The size that realloc reads, three bytes below the size: the upper three *)
(* bytes of prev and, as the most significant, the lowest byte of the size. *)
UpperBytes(p) == IF p = Null THEN 0 ELSE (HeapStart + p) \div Base
SizeSeen(h, p) ==
  LET header == h.block[BlockOf(p)]
  IN UpperBytes(header.prev) + Base * Base * Base * (header.size % Base)

(* When there is no new piece, what was seen of the old one goes to NULL,   *)
(* unless that is nothing: the callers test this as well.                   *)
CopiesToNull(h, p, n) ==
  /\ 0 < SizeSeen(h, p) /\ SizeSeen(h, p) < n
  /\ Malloc(h, n).ptr = Null

Realloc(h, p, n) ==
  IF SizeSeen(h, p) >= n
  THEN [heap |-> h, ptr |-> p]
  ELSE LET r == Malloc(h, n) IN [heap |-> Free(r.heap, p), ptr |-> r.ptr]

(* A store to byte i of the piece at p stays behind the piece's own header  *)
(* and in front of the next block.                                          *)
Inside(h, p, i) == i < h.block[BlockOf(p)].extent + Slip
============================================================================
