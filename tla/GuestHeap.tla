----------------------------- MODULE GuestHeap -----------------------------
(***************************************************************************)
(* Any guest program on c_test/mem.c and c_test/string.c: it calls what it  *)
(* likes, in any order, with pointers it owns.                              *)
(*                                                                          *)
(* A store of the library that leaves its block (stray), or one that leaves *)
(* the heap (faulted), is where the model stops: what the program does next *)
(* depends on what it hits.                                                 *)
(***************************************************************************)
EXTENDS StringOps

CONSTANT Sizes        \* the sizes asked for

(* No request, alone or with a string's length, is near half the address    *)
(* space; the product that calloc forms may be.                             *)
ASSUME SizesAssumption ==
  \A n \in Sizes : n \in Nat /\ 3 * HeapSize + 2 * HeaderSize + n < Word - HeapStart

VARIABLES
  heap,
  raw,      \* pointers from malloc, calloc and realloc, with the size asked for
  strs,     \* its strings, by the pointer to their structure
  starved,  \* some call found no memory
  stray,    \* some store left its block
  faulted   \* a call used -1 or NULL, or half the address space

vars == <<heap, raw, strs, starved, stray, faulted>>

Without(f, k) == [x \in DOMAIN f \ {k} |-> f[x]]

Init ==
  /\ heap = HeapInit
  /\ raw = [p \in {} |-> 0]
  /\ strs = [s \in {} |-> [data |-> Null, length |-> 0, capacity |-> 0]]
  /\ starved = FALSE
  /\ stray = FALSE
  /\ faulted = FALSE

Running == ~stray /\ ~faulted

(* A program that allocates goes on only if malloc does not fault.          *)
Allocates == Running /\ ~Faults(heap)

Faulting ==
  /\ faulted' = TRUE
  /\ UNCHANGED <<heap, raw, strs, starved, stray>>

(* malloc walks from -1.                                                    *)
Fault == Running /\ Faults(heap) /\ Faulting

Hold(p, n) == raw' = IF p = Null THEN raw ELSE Put(raw, p, n)

Allocate ==
  /\ Allocates
  /\ \E n \in Sizes :
       LET r == Malloc(heap, n)
       IN /\ heap' = r.heap
          /\ Hold(r.ptr, n)
          /\ starved' = (starved \/ r.ptr = Null)
  /\ UNCHANGED <<strs, stray, faulted>>

(* The product has the width of a word, and memset writes what is left of   *)
(* it and no more.                                                          *)
Calloc ==
  /\ Allocates
  /\ \E n, k \in Sizes :
       LET m == (k * n) % Word
           r == Malloc(heap, m)
       IN /\ ~Overreaches(heap, m)
          /\ heap' = r.heap
          /\ Hold(r.ptr, k * n)
          /\ starved' = (starved \/ r.ptr = Null)
          /\ stray' = (r.ptr # Null /\ m > 0 /\ ~Inside(r.heap, r.ptr, m - 1))
  /\ UNCHANGED <<strs, faulted>>

(* memset runs from the heap over half the address space.                   *)
CallocFaults ==
  /\ Allocates
  /\ \E n, k \in Sizes : Overreaches(heap, (k * n) % Word)
  /\ Faulting

(* The program keeps the piece it had when it gets the same pointer back,   *)
(* and takes it to have the size it asked for; otherwise the old one is     *)
(* free even if there is no new one.                                        *)
Reallocate ==
  /\ Allocates
  /\ \E p \in DOMAIN raw, n \in Sizes :
       LET r == Realloc(heap, p, n)
       IN /\ ~CopiesToNull(heap, p, n)
          /\ heap' = r.heap
          /\ raw' = IF r.ptr = Null THEN Without(raw, p) ELSE Put(Without(raw, p), r.ptr, n)
          /\ starved' = (starved \/ r.ptr = Null)
  /\ UNCHANGED <<strs, stray, faulted>>

ReallocateFaults ==
  /\ Allocates
  /\ \E p \in DOMAIN raw, n \in Sizes : CopiesToNull(heap, p, n)
  /\ Faulting

Release ==
  /\ Running
  /\ \E p \in DOMAIN raw :
       /\ heap' = Free(heap, p)
       /\ raw' = Without(raw, p)
  /\ UNCHANGED <<strs, starved, stray, faulted>>

(* string_new, string_new_len and string_copy, which differ in the bytes.   *)
New ==
  /\ Allocates
  /\ \E n \in Sizes \cup {strs[s].length : s \in DOMAIN strs} :
       LET r == StringNewLen(heap, n)
       IN /\ heap' = r.heap
          /\ strs' = IF r.at = Null THEN strs ELSE Put(strs, r.at, r.str)
          /\ starved' = (starved \/ r.at = Null)
          /\ stray' = (r.at # Null /\ n > 0 /\ ~Inside(r.heap, r.str.data, n - 1))
  /\ UNCHANGED <<raw, faulted>>

(* A string takes what a call made of it; wanted is the capacity the call   *)
(* needed, last the last byte it stored.                                    *)
Becomes(s, r, wanted) ==
  /\ heap' = r.heap
  /\ strs' = [strs EXCEPT ![s] = r.str]
  /\ starved' = (starved \/ r.str.capacity < wanted)

Append ==
  /\ Allocates
  /\ \E s \in DOMAIN strs, n \in Sizes :
       LET r == StringAppendLen(heap, strs[s], n)
       IN /\ Becomes(s, r, IF strs[s].length + n >= strs[s].capacity
                           THEN GrownCapacity(strs[s], n) ELSE 0)
          /\ stray' = ~Inside(r.heap, r.str.data, r.str.length)
  /\ UNCHANGED <<raw, faulted>>

Grow ==
  /\ Allocates
  /\ \E s \in DOMAIN strs, n \in Sizes :
       Becomes(s, StringGrow(heap, strs[s], n), n)
  /\ UNCHANGED <<raw, stray, faulted>>

Shrink ==
  /\ Allocates
  /\ \E s \in DOMAIN strs :
       Becomes(s, StringShrink(heap, strs[s]), strs[s].length + 1)
  /\ UNCHANGED <<raw, stray, faulted>>

Dispose ==
  /\ Running
  /\ \E s \in DOMAIN strs :
       /\ heap' = FreeStr(heap, s, strs[s])
       /\ strs' = Without(strs, s)
  /\ UNCHANGED <<raw, starved, stray, faulted>>

Next ==
  \/ Allocate \/ Calloc \/ CallocFaults \/ Reallocate \/ ReallocateFaults \/ Release
  \/ New \/ Append \/ Grow \/ Shrink \/ Dispose
  \/ Fault

Spec == Init /\ [][Next]_vars

----------------------------------------------------------------------------
(* Properties                                                               *)

Buffers == {strs[s].data : s \in DOMAIN strs}
Live == DOMAIN raw \cup DOMAIN strs \cup Buffers

StringType == [data : Int, length : Nat, capacity : Nat]
HeaderType == [next : Int, prev : Int, size : Nat, free : BOOLEAN, extent : Nat]

TypeOK ==
  /\ DOMAIN heap.block \subseteq Nat
  /\ heap = [end |-> heap.end, head |-> heap.head, block |-> heap.block]
  /\ heap.end \in Nat
  /\ heap.head \in DOMAIN heap.block \cup {Null, Failed}
  /\ heap.block \in [DOMAIN heap.block -> HeaderType]
  /\ DOMAIN raw \subseteq Int /\ raw \in [DOMAIN raw -> Nat]
  /\ strs \in [DOMAIN strs -> StringType]
  /\ {BlockOf(p) : p \in Live} \subseteq DOMAIN heap.block
  /\ {starved, stray, faulted} \subseteq BOOLEAN

After(b) == b + HeaderSize + heap.block[b].extent

(* The pieces handed out, at the sizes that were asked for.                 *)
Pieces ==
  {<<p, raw[p]>> : p \in DOMAIN raw} \cup {<<s, StructSize>> : s \in DOMAIN strs}
    \cup {<<strs[s].data, strs[s].capacity>> : s \in DOMAIN strs}

(* mem.c:43-172, 223-232.  Whatever is called, with whatever fails on the   *)
(* way, no two blocks overlap and all lie below the end of the heap; and a  *)
(* piece, at the size the program asked for, lies in front of every block   *)
(* behind it - but for a piece that realloc handed back for a larger one    *)
(* because it misread its size ("block is big enough", mem.c:164), and one  *)
(* of calloc whose product wrapped.                                         *)
Apart ==
  /\ \A b \in DOMAIN heap.block : After(b) <= heap.end
  /\ \A b, c \in DOMAIN heap.block : b < c => After(b) <= c
  /\ \A piece \in Pieces :
       LET p == piece[1]
           n == piece[2]
       IN \/ /\ p \in DOMAIN raw /\ n > heap.block[BlockOf(p)].size
             /\ n <= SizeSeen(heap, p) \/ n >= Word
          \/ /\ p + n <= heap.end
             /\ \A b \in DOMAIN heap.block : b > BlockOf(p) => p + n <= b

(* mem.c:142-172, string.c:96-108.  No order of calls frees a piece twice   *)
(* or one still in use: the header of such a piece says the size it was     *)
(* made with, and no piece has two owners.                                  *)
LiveHeaderIntact ==
  /\ \A p \in Live : heap.block[BlockOf(p)].size = heap.block[BlockOf(p)].extent
  /\ DOMAIN raw \cap (DOMAIN strs \cup Buffers) = {}
  /\ DOMAIN strs \cap Buffers = {}
  /\ \A s, t \in DOMAIN strs : strs[s].data = strs[t].data => s = t

(* string.c:96-151.  The capacity a string records is what its buffer has,  *)
(* also after string_grow found no memory.                                  *)
CapacityTrue ==
  \A s \in DOMAIN strs : strs[s].capacity = heap.block[BlockOf(strs[s].data)].extent

(* string.c:123-134.  string_append_len may grow a buffer to exactly the    *)
(* new length and then stores the terminator behind it; the bytes between   *)
(* the array's offset and the structure's length are nobody's, so as long   *)
(* as no call runs out of memory no store reaches another block.            *)
StrayOnlyStarved == stray => starved

(* mem.c:75-81.  Only a program whose very first request failed makes       *)
(* malloc walk from -1.                                                     *)
FaultOnlyFromStart == Faults(heap) => DOMAIN heap.block = {} /\ starved
============================================================================
