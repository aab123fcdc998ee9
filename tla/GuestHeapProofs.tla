-------------------------- MODULE GuestHeapProofs --------------------------
(***************************************************************************)
(* Proofs about the guest's allocator and strings, for a heap and requests  *)
(* of any size and any program.                                             *)
(*                                                                          *)
(* HeapOK is what every call of mem.c keeps; Owned ties it to the pointers  *)
(* a program holds.                                                         *)
(***************************************************************************)
EXTENDS GuestHeap, NatTheorems, TLAPS

End(h, b) == b + HeaderSize + h.block[b].extent

HeapType(h) ==
  /\ DOMAIN h.block \subseteq Nat
  /\ h = [end |-> h.end, head |-> h.head, block |-> h.block]
  /\ h.end \in Nat /\ h.end <= HeapSize
  /\ h.head \in DOMAIN h.block \cup {Null, Failed}
  /\ h.block \in [DOMAIN h.block -> HeaderType]

HeapOK(h) ==
  /\ HeapType(h)
  /\ \A b \in DOMAIN h.block : End(h, b) <= h.end
  /\ \A b, c \in DOMAIN h.block : b < c => End(h, b) <= c
  /\ \A b \in DOMAIN h.block : ~h.block[b].free /\ h.block[b].next = Null
  /\ h.head \in {Null, Failed} => DOMAIN h.block = {}

(* What a successful malloc of n bytes makes of a heap.                     *)
Grew(h, n, g, p) ==
  /\ p = h.end + DataOffset
  /\ h.end \notin DOMAIN h.block
  /\ g.block = Put(h.block, h.end, Header(n))
  /\ ~Faults(g)

----------------------------------------------------------------------------
(* The heap is far from the end of the address space.                       *)
LEMMA WordFacts ==
  /\ Word \in Nat \ {0} /\ HeapStart \in Nat /\ HeapSize \in Nat
  /\ 3 * HeapSize + 32 < Word - HeapStart
<1>1. Base \in Nat \ {0} /\ HeapSize \in Nat
      /\ 3 * HeapSize + 2 * HeaderSize < Word - HeapStart
  BY HeapAssumption
<1>2. \A a, b \in Nat \ {0} : a * b \in Nat \ {0}
  OBVIOUS
<1>3. Word \in Nat \ {0}
  <2>1. Base * Base \in Nat \ {0}
    BY <1>1, <1>2
  <2>2. Base * Base * Base \in Nat \ {0}
    BY <1>1, <1>2, <2>1
  <2>3. Base * Base * Base * Base \in Nat \ {0}
    BY <1>1, <1>2, <2>2
  <2> QED BY <2>3 DEF Word
<1>4. HeapStart \in Nat
  <2>1. \A a \in Nat : a \div 2 \in Nat
    OBVIOUS
  <2> QED BY <1>3, <2>1 DEF HeapStart
<1> QED BY <1>1, <1>3, <1>4 DEF HeaderSize

(* While sbrk does not go backwards, it finds room exactly in the heap.     *)
LEMMA SbrkForward ==
  ASSUME NEW h, h.end \in Nat, h.end <= HeapSize, NEW n \in Nat,
         ~Backwards(h, n), ~NoRoom(h, n)
  PROVE  /\ (Sum(h, n) % Word) - HeapStart = h.end + HeaderSize + n
         /\ h.end + HeaderSize + n <= HeapSize
<1>2. Sum(h, n) \in Nat /\ Sum(h, n) = HeapStart + h.end + 16 + n
  BY WordFacts DEF Sum, HeaderSize
<1>1. Sum(h, n) < Word /\ ~(Sum(h, n) % Word >= HeapStart + HeapSize)
  <2>1. ~(Sum(h, n) >= Word) /\ ~(Sum(h, n) % Word >= HeapStart + HeapSize)
    BY Zenon DEF Backwards, NoRoom
  <2> QED BY <1>2, <2>1, WordFacts
<1>3. Sum(h, n) % Word = Sum(h, n)
  BY <1>1, <1>2, WordFacts, SmallRemainder
<1> QED BY <1>1, <1>2, <1>3, WordFacts DEF HeaderSize

(* A request that is far from half the address space.                       *)
Modest(n) == n \in Nat /\ HeapSize + 16 + n < Word - HeapStart

LEMMA ModestForward ==
  ASSUME NEW h, h.end \in Nat, h.end <= HeapSize, NEW n, Modest(n)
  PROVE  ~Backwards(h, n) /\ ~Overreaches(h, n)
  BY WordFacts DEF Modest, Backwards, Overreaches, Sum, HeaderSize

LEMMA SizeModest == \A n \in Sizes : Modest(n) /\ 3 * HeapSize + 32 + n < Word - HeapStart
  BY SizesAssumption, WordFacts DEF Modest, HeaderSize

LEMMA HeaderTyped == ASSUME NEW n \in Nat PROVE Header(n) \in HeaderType
  BY DEF Header, HeaderType, Null

LEMMA PutTyped ==
  ASSUME NEW f, f \in [DOMAIN f -> HeaderType], NEW k, NEW v \in HeaderType
  PROVE  /\ Put(f, k, v) \in [DOMAIN Put(f, k, v) -> HeaderType]
         /\ DOMAIN Put(f, k, v) = DOMAIN f \cup {k}
         /\ Put(f, k, v)[k] = v
         /\ \A x \in DOMAIN f : x # k => Put(f, k, v)[x] = f[x]
  BY DEF Put

(* The block that sbrk makes room for starts at the end of the heap, so it  *)
(* is behind every other.                                                   *)
LEMMA ExtendOK ==
  ASSUME NEW h, HeapOK(h), NEW n \in Nat, NEW g, NEW head,
         head \in {h.head, h.end}, head \notin {Null, Failed},
         h.end + HeaderSize + n <= HeapSize,
         g = [end |-> h.end + HeaderSize + n, head |-> head,
              block |-> Put(h.block, h.end, Header(n))]
  PROVE  HeapOK(g) /\ Grew(h, n, g, h.end + DataOffset)
<1>1. h.end \in Nat /\ DOMAIN h.block \subseteq Nat
      /\ h.block \in [DOMAIN h.block -> HeaderType]
  BY DEF HeapOK, HeapType
<1>2. \A b \in DOMAIN h.block : h.block[b].extent \in Nat /\ b \in Nat
  BY <1>1 DEF HeaderType
<1>3. h.end \notin DOMAIN h.block
  BY <1>1, <1>2 DEF HeapOK, End, HeaderSize
<1>4. /\ g.block \in [DOMAIN g.block -> HeaderType]
      /\ DOMAIN g.block = DOMAIN h.block \cup {h.end}
      /\ g.block[h.end] = Header(n)
      /\ \A x \in DOMAIN h.block : g.block[x] = h.block[x]
  <2>1. g.block = Put(h.block, h.end, Header(n))
    OBVIOUS
  <2>2. Header(n) \in HeaderType
    BY HeaderTyped
  <2>3. h.block \in [DOMAIN h.block -> HeaderType]
    BY <1>1
  <2>4. DOMAIN g.block = DOMAIN h.block \cup {h.end}
    BY <2>1 DEF Put
  <2>5. \A x \in DOMAIN g.block : g.block[x] = IF x = h.end THEN Header(n) ELSE h.block[x]
    BY <2>1, <2>4 DEF Put
  <2>6. g.block = [x \in DOMAIN g.block |-> g.block[x]]
    BY <2>1 DEF Put
  <2> QED BY <2>2, <2>3, <2>4, <2>5, <2>6, <1>3
<1>5. g.end = h.end + 16 + n /\ g.head = head
      /\ g = [end |-> g.end, head |-> g.head, block |-> g.block]
  BY DEF HeaderSize
<1>6. End(g, h.end) = g.end /\ \A b \in DOMAIN h.block : End(g, b) = End(h, b)
  <2>1. g.block[h.end].extent = n
    BY <1>4 DEF Header
  <2> QED BY <2>1, <1>4, <1>5, <1>1 DEF End, HeaderSize
<1>7. HeapType(g)
  BY <1>1, <1>4, <1>5 DEF HeapType, HeapOK, Null, Failed, HeaderSize
<1>8. \A b \in DOMAIN g.block : End(g, b) <= g.end
  BY <1>1, <1>2, <1>4, <1>5, <1>6 DEF HeapOK, End, HeaderSize
<1>9. \A b, c \in DOMAIN g.block : b < c => End(g, b) <= c
  <2> SUFFICES ASSUME NEW b \in DOMAIN g.block, NEW c \in DOMAIN g.block, b < c
               PROVE  End(g, b) <= c
    OBVIOUS
  <2>1. CASE b = h.end
    BY <2>1, <1>1, <1>2, <1>4 DEF HeapOK, End, HeaderSize
  <2>2. CASE b # h.end
    BY <2>2, <1>4, <1>6 DEF HeapOK
  <2> QED BY <2>1, <2>2
<1>10. \A b \in DOMAIN g.block : ~g.block[b].free /\ g.block[b].next = Null
  <2>1. ~g.block[h.end].free /\ g.block[h.end].next = Null
    BY <1>4 DEF Header
  <2> QED BY <2>1, <1>4 DEF HeapOK
<1>11. g.head \notin {Null, Failed}
  BY <1>5
<1>12. Grew(h, n, g, h.end + DataOffset)
  BY <1>3, <1>11 DEF Grew, Faults
<1> QED BY <1>7, <1>8, <1>9, <1>10, <1>11, <1>12 DEF HeapOK

(* mem.c:67-139.  No block is free, so the walk finds none.                 *)
LEMMA NoneFits ==
  ASSUME NEW h, HeapOK(h), ~Faults(h), NEW n
  PROVE  Fitting(h, n) = {}
<1>1. ASSUME NEW b \in Linked(h), h.block[b].free PROVE FALSE
  BY <1>1 DEF Linked, HeapOK, HeapType, Faults
<1> QED BY <1>1 DEF Fitting

LEMMA MallocOK ==
  ASSUME NEW h, HeapOK(h), ~Faults(h), NEW n \in Nat, ~Overreaches(h, n)
  PROVE  /\ HeapOK(Malloc(h, n).heap)
         /\ \/ /\ Malloc(h, n).ptr = Null
               /\ Malloc(h, n).heap.block = h.block
               /\ h.head # Null => Malloc(h, n).heap = h
            \/ Grew(h, n, Malloc(h, n).heap, Malloc(h, n).ptr)
<1>1. h.end \in Nat /\ h.end <= HeapSize
      /\ h = [end |-> h.end, head |-> h.head, block |-> h.block]
  BY DEF HeapOK, HeapType
<1>2. Fitting(h, n) = {} /\ ~Backwards(h, n)
  BY NoneFits DEF Overreaches
<1> DEFINE g(x) == [end |-> h.end + HeaderSize + n, head |-> x,
                    block |-> Put(h.block, h.end, Header(n))]
<1>3. ASSUME ~NoRoom(h, n)
      PROVE  /\ NewBlock(h, n) = [heap |-> g(h.head), ptr |-> h.end + DataOffset]
             /\ h.end + HeaderSize + n <= HeapSize
  BY <1>1, <1>2, <1>3, SbrkForward DEF NewBlock
<1>4. CASE h.head # Null
  <2>1. h.head \notin {Null, Failed}
    BY <1>4 DEF Faults
  <2>2. Malloc(h, n) = NewBlock(h, n)
    BY <1>2, <1>4 DEF Malloc
  <2>3. CASE NoRoom(h, n)
    BY <2>2, <2>3 DEF NewBlock
  <2>4. CASE ~NoRoom(h, n)
    <3>1. /\ Malloc(h, n).heap = g(h.head) /\ Malloc(h, n).ptr = h.end + DataOffset
          /\ h.end + HeaderSize + n <= HeapSize
      BY <1>3, <2>2, <2>4
    <3> QED BY <2>1, <3>1, ExtendOK
  <2> QED BY <2>3, <2>4
<1>5. CASE h.head = Null
  <2>1. Malloc(h, n) = FirstBlock(h, n)
    BY <1>5 DEF Malloc
  <2>2. CASE NoRoom(h, n)
    <3>1. Malloc(h, n) = [heap |-> [h EXCEPT !.head = Failed], ptr |-> Null]
      BY <2>1, <2>2 DEF FirstBlock, NewBlock
    <3>2. HeapOK([h EXCEPT !.head = Failed]) /\ [h EXCEPT !.head = Failed].block = h.block
      BY <1>1, <1>5 DEF HeapOK, HeapType, End
    <3>3. /\ Malloc(h, n).heap = [h EXCEPT !.head = Failed]
          /\ Malloc(h, n).ptr = Null
      BY <3>1
    <3> QED BY <3>2, <3>3, <1>5
  <2>3. CASE ~NoRoom(h, n)
    <3>1. /\ Malloc(h, n).ptr = h.end + DataOffset
          /\ Malloc(h, n).heap = g(h.end)
          /\ h.end + HeaderSize + n <= HeapSize
      BY <1>1, <1>3, <2>1, <2>3 DEF FirstBlock, Null, DataOffset
    <3>2. h.end \notin {Null, Failed}
      BY <1>1 DEF Null, Failed
    <3> QED BY <3>1, <3>2, ExtendOK
  <2> QED BY <2>2, <2>3
<1> QED BY <1>4, <1>5

(* mem.c:142-152.  The byte that free stores is one of the size of the block *)
(* it was given; no other header changes.                                   *)
LEMMA SecondByteNat == ASSUME NEW n \in Nat PROVE SetSecondByte(n) \in Nat
<1>1. Base \in Nat \ {0}
  BY HeapAssumption
<1>2. \A a, b \in Nat \ {0} : a * b \in Nat \ {0}
  OBVIOUS
<1>3. Base * Base \in Nat \ {0}
  BY <1>1, <1>2
<1>4. \A a \in Nat \ {0} : n % a \in Nat /\ n \div a \in Nat
  OBVIOUS
<1>5. n % Base \in Nat /\ n \div (Base * Base) \in Nat
  BY <1>1, <1>3, <1>4
<1>6. \A a, b \in Nat : a * b \in Nat
  OBVIOUS
<1>7. Base * Base * (n \div (Base * Base)) \in Nat
  BY <1>3, <1>5, <1>6
<1> QED BY <1>1, <1>5, <1>7 DEF SetSecondByte

LEMMA FreeOK ==
  ASSUME NEW h, HeapOK(h), NEW p, BlockOf(p) \in DOMAIN h.block
  PROVE  /\ HeapOK(Free(h, p))
         /\ DOMAIN Free(h, p).block = DOMAIN h.block
         /\ \A b \in DOMAIN h.block : Free(h, p).block[b].extent = h.block[b].extent
         /\ \A b \in DOMAIN h.block : b # BlockOf(p) => Free(h, p).block[b] = h.block[b]
         /\ Free(h, p).head = h.head
<1> DEFINE k == BlockOf(p)
           old == h.block[k]
           new == [old EXCEPT !.size = SetSecondByte(@)]
           g == Free(h, p)
<1>1. h = [end |-> h.end, head |-> h.head, block |-> h.block]
      /\ h.block \in [DOMAIN h.block -> HeaderType]
  BY DEF HeapOK, HeapType
<1>2. old \in HeaderType
  BY <1>1
<1>3. /\ new \in HeaderType
      /\ new.extent = old.extent /\ new.free = old.free /\ new.next = old.next
  BY <1>2, SecondByteNat DEF HeaderType
<1>4. g = [end |-> h.end, head |-> h.head, block |-> Put(h.block, k, new)]
  BY <1>1 DEF Free
<1>5. DOMAIN g.block = DOMAIN h.block
  BY <1>4 DEF Put
<1>6. \A b \in DOMAIN g.block : g.block[b] = IF b = k THEN new ELSE h.block[b]
  BY <1>4, <1>5 DEF Put
<1>7. g.block = [b \in DOMAIN g.block |-> g.block[b]]
  BY <1>4 DEF Put
<1>8. g.block \in [DOMAIN g.block -> HeaderType]
  BY <1>1, <1>3, <1>5, <1>6, <1>7
<1>9. \A b \in DOMAIN h.block : /\ g.block[b].extent = h.block[b].extent
                                /\ g.block[b].free = h.block[b].free
                                /\ g.block[b].next = h.block[b].next
                                /\ b # k => g.block[b] = h.block[b]
  BY <1>3, <1>5, <1>6
<1>10. g.end = h.end /\ g.head = h.head
       /\ g = [end |-> g.end, head |-> g.head, block |-> g.block]
  BY <1>4
<1>11. \A b \in DOMAIN h.block : End(g, b) = End(h, b)
  BY <1>9 DEF End
<1> HIDE DEF g, k, new, old
<1>12. HeapOK(g)
  BY <1>5, <1>8, <1>9, <1>10, <1>11 DEF HeapOK, HeapType
<1> QED BY <1>5, <1>9, <1>10, <1>12 DEF g, k
----------------------------------------------------------------------------
(* What a call does to the pointers of others                               *)

Extent(h, p) == h.block[BlockOf(p)].extent

(* The pointer p may be given back: its header is there and says the truth. *)
Intact(h, p) ==
  /\ BlockOf(p) \in DOMAIN h.block
  /\ h.block[BlockOf(p)].size = Extent(h, p)

KeepsBut(h, g, gone) ==
  \A p \in Int \ gone :
    Intact(h, p) => /\ Intact(g, p) /\ Extent(g, p) = Extent(h, p)
                    /\ SizeSeen(g, p) = SizeSeen(h, p)

(* What a program may take the piece at p to be, but for what realloc and   *)
(* calloc tell it wrongly.                                                  *)
Told(h, p, n) == n <= Extent(h, p) \/ n <= SizeSeen(h, p) \/ n >= Word

(* A pointer that a call made: nobody held it before.                       *)
Fresh(h, g, p, n) ==
  /\ p \in Int /\ p # Null
  /\ ~Intact(h, p) /\ Intact(g, p)
  /\ Extent(g, p) = n

LEMMA MallocStep ==
  ASSUME NEW h, HeapOK(h), ~Faults(h), NEW n \in Nat, ~Overreaches(h, n)
  PROVE  /\ HeapOK(Malloc(h, n).heap)
         /\ KeepsBut(h, Malloc(h, n).heap, {})
         /\ \/ Malloc(h, n).ptr = Null /\ (h.head # Null => Malloc(h, n).heap = h)
            \/ Fresh(h, Malloc(h, n).heap, Malloc(h, n).ptr, n) /\ ~Faults(Malloc(h, n).heap)
<1> DEFINE g == Malloc(h, n).heap
           q == Malloc(h, n).ptr
<1>1. HeapOK(g)
  BY MallocOK
<1>2. CASE q = Null /\ g.block = h.block /\ (h.head # Null => g = h)
  BY <1>1, <1>2 DEF KeepsBut, Intact, Extent, SizeSeen
<1>3. CASE Grew(h, n, g, q)
  <2> HIDE DEF g, q
  <2>1. h.end \in Nat
    BY DEF HeapOK, HeapType
  <2>2. q \in Int /\ q # Null /\ BlockOf(q) = h.end
    BY <1>3, <2>1 DEF Grew, DataOffset, Null, BlockOf
  <2>3. /\ DOMAIN g.block = DOMAIN h.block \cup {h.end}
        /\ \A x \in DOMAIN h.block : g.block[x] = h.block[x]
        /\ g.block[h.end] = Header(n)
    BY <1>3 DEF Grew, Put
  <2>4. KeepsBut(h, g, {})
    BY <2>3 DEF KeepsBut, Intact, Extent, SizeSeen
  <2>5. Fresh(h, g, q, n)
    <3>1. g.block[h.end].size = n /\ g.block[h.end].extent = n
      BY <2>3 DEF Header
    <3> QED BY <1>3, <2>2, <2>3, <3>1 DEF Fresh, Intact, Extent, Grew
  <2>6. ~Faults(g)
    BY <1>3 DEF Grew
  <2> QED BY <1>1, <2>4, <2>5, <2>6 DEF g, q
<1> QED BY <1>2, <1>3, MallocOK

LEMMA FreeStep ==
  ASSUME NEW h, HeapOK(h), NEW q \in Int, BlockOf(q) \in DOMAIN h.block
  PROVE  /\ HeapOK(Free(h, q))
         /\ KeepsBut(h, Free(h, q), {q})
         /\ Faults(Free(h, q)) <=> Faults(h)
<1>1. \A p \in Int \ {q} : BlockOf(p) # BlockOf(q)
  BY DEF BlockOf, DataOffset
<1> QED BY <1>1, FreeOK DEF KeepsBut, Intact, Extent, SizeSeen, Faults

(* string.c:73-88.                                                          *)
LEMMA StringNewStep ==
  ASSUME NEW h, HeapOK(h), ~Faults(h), NEW n \in Nat, Modest(n + 1)
  PROVE  LET r == StringNewLen(h, n) IN
         /\ HeapOK(r.heap)
         /\ KeepsBut(h, r.heap, {})
         /\ \/ r.at = Null
            \/ /\ ~Faults(r.heap)
               /\ Fresh(h, r.heap, r.at, StructSize)
               /\ Fresh(h, r.heap, r.str.data, n + 1)
               /\ r.at # r.str.data
               /\ r.str = [data |-> r.str.data, length |-> n, capacity |-> n + 1]
<1> DEFINE s == Malloc(h, StructSize)
           d == Malloc(s.heap, n + 1)
           r == StringNewLen(h, n)
<1>0. StructSize \in Nat /\ n + 1 \in Nat /\ Modest(StructSize)
  BY WordFacts DEF StructSize, Modest
<1>a. \A g, k : HeapOK(g) /\ Modest(k) => ~Overreaches(g, k)
  BY ModestForward DEF HeapOK, HeapType
<1>1. /\ HeapOK(s.heap) /\ KeepsBut(h, s.heap, {})
      /\ s.ptr = Null \/ (Fresh(h, s.heap, s.ptr, StructSize) /\ ~Faults(s.heap))
  BY <1>0, <1>a, MallocStep
<1>2. CASE s.ptr = Null
  <2>1. r.heap = s.heap /\ r.at = Null
    BY <1>2 DEF StringNewLen
  <2> QED BY <1>1, <2>1
<1>3. CASE s.ptr # Null
  <2>1. Fresh(h, s.heap, s.ptr, StructSize) /\ ~Faults(s.heap)
    BY <1>1, <1>3
  <2>2. /\ HeapOK(d.heap) /\ KeepsBut(s.heap, d.heap, {})
        /\ d.ptr = Null \/ (Fresh(s.heap, d.heap, d.ptr, n + 1) /\ ~Faults(d.heap))
    BY <1>0, <1>1, <1>a, <2>1, MallocStep
  <2>3. CASE d.ptr = Null
    <3>1. r.heap = Free(d.heap, s.ptr) /\ r.at = Null
      BY <1>3, <2>3 DEF StringNewLen
    <3> HIDE DEF s, d, r
    <3>2. s.ptr \in Int /\ Intact(d.heap, s.ptr) /\ ~Intact(h, s.ptr)
      BY <2>1, <2>2 DEF Fresh, KeepsBut
    <3>3. HeapOK(r.heap) /\ KeepsBut(d.heap, r.heap, {s.ptr})
      BY <3>1, <3>2, <2>2, FreeStep DEF Intact
    <3>4. KeepsBut(h, r.heap, {})
      BY <1>1, <2>2, <3>2, <3>3 DEF KeepsBut
    <3> QED BY <3>1, <3>3, <3>4 DEF r
  <2>4. CASE d.ptr # Null
    <3>1. /\ r.heap = d.heap /\ r.at = s.ptr
          /\ r.str = [data |-> d.ptr, length |-> n, capacity |-> n + 1]
      BY <1>3, <2>4 DEF StringNewLen
    <3> HIDE DEF s, d, r
    <3>2. Fresh(s.heap, d.heap, d.ptr, n + 1) /\ ~Faults(d.heap)
      BY <2>2, <2>4
    <3>3. r.str.data = d.ptr /\ r.str = [data |-> r.str.data, length |-> n, capacity |-> n + 1]
      BY <3>1
    <3>4. Fresh(h, r.heap, r.str.data, n + 1)
      BY <1>1, <3>1, <3>2, <3>3 DEF Fresh, KeepsBut
    <3>5. Fresh(h, r.heap, r.at, StructSize) /\ r.at # r.str.data
      BY <2>1, <2>2, <3>1, <3>2, <3>3 DEF Fresh, KeepsBut
    <3>6. KeepsBut(h, r.heap, {})
      BY <1>1, <2>2, <3>1 DEF KeepsBut
    <3> QED BY <2>2, <3>1, <3>2, <3>3, <3>4, <3>5, <3>6 DEF r
  <2> QED BY <2>3, <2>4
<1> QED BY <1>2, <1>3

(* string.c:96-108.                                                         *)
LEMMA StringGrowStep ==
  ASSUME NEW h, HeapOK(h), ~Faults(h), NEW s \in StringType, NEW c, Modest(c),
         s.data \in Int, Intact(h, s.data)
  PROVE  LET r == StringGrow(h, s, c) IN
         /\ HeapOK(r.heap)
         /\ ~Faults(r.heap)
         /\ \/ r.heap = h /\ r.str = s
            \/ /\ KeepsBut(h, r.heap, {s.data})
               /\ Fresh(h, r.heap, r.str.data, c)
               /\ r.str = [data |-> r.str.data, length |-> s.length, capacity |-> c]
<1> DEFINE d == Malloc(h, c)
           r == StringGrow(h, s, c)
<1>0. c \in Nat /\ ~Overreaches(h, c)
  BY ModestForward DEF Modest, HeapOK, HeapType
<1>1. CASE c <= s.capacity \/ d.ptr = Null
  <2>1. r.heap = h /\ r.str = s
    BY <1>1 DEF StringGrow, Same
  <2> QED BY <2>1
<1>2. CASE ~(c <= s.capacity \/ d.ptr = Null)
  <2>1. r = [heap |-> Free(d.heap, s.data),
             str |-> [s EXCEPT !.data = d.ptr, !.capacity = c]]
    BY <1>2 DEF StringGrow
  <2>2. HeapOK(d.heap) /\ KeepsBut(h, d.heap, {}) /\ Fresh(h, d.heap, d.ptr, c) /\ ~Faults(d.heap)
    BY <1>0, <1>2, MallocStep
  <2> HIDE DEF d, r
  <2>3. r.heap = Free(d.heap, s.data) /\ r.str.data = d.ptr
        /\ r.str = [data |-> r.str.data, length |-> s.length, capacity |-> c]
    BY <2>1 DEF StringType
  <2>4. Intact(d.heap, s.data) /\ d.ptr # s.data
    BY <2>2 DEF Fresh, KeepsBut
  <2>5. HeapOK(r.heap) /\ ~Faults(r.heap) /\ KeepsBut(d.heap, r.heap, {s.data})
    BY <2>2, <2>3, <2>4, FreeStep DEF Intact
  <2>6. KeepsBut(h, r.heap, {s.data})
    BY <2>2, <2>5 DEF KeepsBut
  <2>7. Fresh(h, r.heap, r.str.data, c)
    BY <2>2, <2>3, <2>4, <2>5 DEF Fresh, KeepsBut
  <2> QED BY <2>3, <2>5, <2>6, <2>7 DEF r
<1> QED BY <1>1, <1>2
----------------------------------------------------------------------------
(* The inductive invariant                                                  *)

Owned ==
  /\ DOMAIN raw \subseteq Int /\ DOMAIN strs \subseteq Int
  /\ raw \in [DOMAIN raw -> Nat] /\ strs \in [DOMAIN strs -> StringType]
  /\ \A p \in DOMAIN raw : Intact(heap, p) /\ Told(heap, p, raw[p])
  /\ \A s \in DOMAIN strs :
       /\ Intact(heap, s) /\ Intact(heap, strs[s].data)
       /\ Extent(heap, s) = StructSize
       /\ strs[s].capacity = Extent(heap, strs[s].data)
       /\ s \notin DOMAIN raw /\ strs[s].data \notin DOMAIN raw
       /\ \A t \in DOMAIN strs : /\ strs[t].data # s
                                 /\ strs[s].data = strs[t].data => s = t

Flags ==
  /\ starved \in BOOLEAN /\ stray \in BOOLEAN /\ faulted \in BOOLEAN
  /\ stray => starved
  /\ Faults(heap) => starved

(* Unless a store left its block, a string's length is within its buffer.   *)
Lengths == stray \/ \A s \in DOMAIN strs : strs[s].length < strs[s].capacity + Slip

GInv == HeapOK(heap) /\ Owned /\ Flags /\ Lengths

(* What the cases of the step lemmas make of the pointers held.             *)
LEMMA OwnedRaw ==
  ASSUME Owned, NEW gone \in SUBSET DOMAIN raw, strs' = strs,
         KeepsBut(heap, heap', gone),
         \/ raw' = [x \in DOMAIN raw \ gone |-> raw[x]]
         \/ \E p, m, n : /\ raw' = Put([x \in DOMAIN raw \ gone |-> raw[x]], p, n)
                        /\ Fresh(heap, heap', p, m)
                        /\ n \in Nat /\ (n <= m \/ n >= Word)
  PROVE  Owned'
<1>0. \A s \in DOMAIN strs : strs[s].data \in Int
  BY DEF Owned, StringType
<1>1. \A x \in DOMAIN raw \ gone : x \in Int /\ raw[x] \in Nat
        /\ Intact(heap', x) /\ Told(heap', x, raw[x])
  BY DEF Owned, KeepsBut, Told
<1>2. \A s \in DOMAIN strs :
        /\ Intact(heap', s) /\ Intact(heap', strs[s].data)
        /\ Extent(heap', s) = StructSize
        /\ strs[s].capacity = Extent(heap', strs[s].data)
  BY <1>0 DEF Owned, KeepsBut
<1>3. CASE raw' = [x \in DOMAIN raw \ gone |-> raw[x]]
  <2>1. DOMAIN raw' = DOMAIN raw \ gone /\ \A x \in DOMAIN raw' : raw'[x] = raw[x]
    BY <1>3
  <2>2. raw' \in [DOMAIN raw' -> Nat]
    BY <1>1, <1>3
  <2> QED BY <1>1, <1>2, <2>1, <2>2 DEF Owned
<1>4. ASSUME NEW p, NEW m, NEW n \in Nat,
             raw' = Put([x \in DOMAIN raw \ gone |-> raw[x]], p, n),
             Fresh(heap, heap', p, m), n <= m \/ n >= Word
      PROVE  Owned'
  <2>1. DOMAIN raw' = (DOMAIN raw \ gone) \cup {p}
        /\ \A x \in DOMAIN raw' : raw'[x] = IF x = p THEN n ELSE raw[x]
    BY <1>4 DEF Put
  <2>2. raw' \in [DOMAIN raw' -> Nat]
    <3>1. raw' = [x \in DOMAIN raw' |-> raw'[x]]
      BY <1>4 DEF Put
    <3> QED BY <1>1, <2>1, <3>1
  <2>3. p \in Int /\ ~Intact(heap, p) /\ Intact(heap', p) /\ Told(heap', p, n)
    BY <1>4 DEF Fresh, Told
  <2>4. \A s \in DOMAIN strs : p # s /\ p # strs[s].data
    BY <2>3 DEF Owned
  <2> QED BY <1>1, <1>2, <2>1, <2>2, <2>3, <2>4 DEF Owned
<1> QED BY <1>3, <1>4

LEMMA OwnedNew ==
  ASSUME Owned, NEW at \in Int, NEW x \in StringType, raw' = raw,
         strs' = Put(strs, at, x),
         KeepsBut(heap, heap', {}),
         Fresh(heap, heap', at, StructSize),
         Fresh(heap, heap', x.data, x.capacity), at # x.data
  PROVE  Owned'
<1>1. DOMAIN strs' = DOMAIN strs \cup {at} /\ at \notin DOMAIN strs
      /\ strs'[at] = x /\ strs' = [s \in DOMAIN strs' |-> strs'[s]]
      /\ \A s \in DOMAIN strs : strs'[s] = strs[s]
  BY DEF Put, Owned, Fresh
<1>2. strs' \in [DOMAIN strs' -> StringType]
  <2>1. \A s \in DOMAIN strs : strs[s] \in StringType
    BY DEF Owned
  <2>2. strs' \in [DOMAIN strs \cup {at} -> StringType]
    BY <2>1 DEF Put
  <2> QED BY <1>1, <2>2
<1>3. \A s \in DOMAIN strs : strs[s].data \in Int
  BY DEF Owned, StringType
<1>4. \A p \in DOMAIN raw : /\ Intact(heap', p) /\ Told(heap', p, raw[p])
                            /\ p # at /\ p # x.data
  BY DEF Owned, KeepsBut, Fresh, Told
<1>5. \A s \in DOMAIN strs :
        /\ Intact(heap', s) /\ Intact(heap', strs[s].data)
        /\ Extent(heap', s) = StructSize
        /\ strs[s].capacity = Extent(heap', strs[s].data)
        /\ s # at /\ s # x.data /\ strs[s].data # at /\ strs[s].data # x.data
  BY <1>3 DEF Owned, KeepsBut, Fresh
<1>6. /\ Intact(heap', x.data) /\ x.capacity = Extent(heap', x.data) /\ x.data \in Int
      /\ Intact(heap', at) /\ Extent(heap', at) = StructSize
  BY DEF Fresh
<1> QED BY <1>1, <1>2, <1>4, <1>5, <1>6 DEF Owned

LEMMA OwnedChanged ==
  ASSUME Owned, NEW s \in DOMAIN strs, NEW x \in StringType, raw' = raw,
         strs' = [strs EXCEPT ![s] = x],
         \/ heap' = heap /\ x.data = strs[s].data /\ x.capacity = strs[s].capacity
         \/ KeepsBut(heap, heap', {strs[s].data}) /\ Fresh(heap, heap', x.data, x.capacity)
  PROVE  Owned'
<1>1. DOMAIN strs' = DOMAIN strs /\ strs'[s] = x
      /\ \A t \in DOMAIN strs : t # s => strs'[t] = strs[t]
  BY DEF Owned
<1>2. strs' \in [DOMAIN strs' -> StringType]
  BY DEF Owned
<1>3. \A t \in DOMAIN strs : strs[t].data \in Int
  BY DEF Owned, StringType
<1>4. CASE heap' = heap /\ x.data = strs[s].data /\ x.capacity = strs[s].capacity
  BY <1>1, <1>2, <1>4 DEF Owned
<1>5. CASE KeepsBut(heap, heap', {strs[s].data}) /\ Fresh(heap, heap', x.data, x.capacity)
  <2>1. \A p \in DOMAIN raw : Intact(heap', p) /\ Told(heap', p, raw[p]) /\ p # x.data
    BY <1>5 DEF Owned, KeepsBut, Fresh, Told
  <2>2. \A t \in DOMAIN strs :
          Intact(heap', t) /\ Extent(heap', t) = StructSize /\ t # x.data
    BY <1>5 DEF Owned, KeepsBut, Fresh
  <2>3. \A t \in DOMAIN strs : t # s =>
          /\ Intact(heap', strs[t].data) /\ strs[t].data # x.data
          /\ strs[t].capacity = Extent(heap', strs[t].data)
    BY <1>3, <1>5 DEF Owned, KeepsBut, Fresh
  <2>4. Intact(heap', x.data) /\ x.capacity = Extent(heap', x.data)
    BY <1>5 DEF Fresh
  <2> QED BY <1>1, <1>2, <2>1, <2>2, <2>3, <2>4 DEF Owned
<1> QED BY <1>4, <1>5

LEMMA OwnedFewer ==
  ASSUME Owned, NEW s \in DOMAIN strs, raw' = raw, strs' = Without(strs, s),
         KeepsBut(heap, heap', {s, strs[s].data})
  PROVE  Owned'
<1>1. DOMAIN strs' = DOMAIN strs \ {s} /\ strs' = [t \in DOMAIN strs' |-> strs'[t]]
      /\ \A t \in DOMAIN strs' : strs'[t] = strs[t]
  BY DEF Without
<1>2. strs' \in [DOMAIN strs' -> StringType]
  <2>1. \A t \in DOMAIN strs : strs[t] \in StringType
    BY DEF Owned
  <2>2. strs' \in [DOMAIN strs \ {s} -> StringType]
    BY <2>1 DEF Without
  <2> QED BY <1>1, <2>2
<1>3. \A t \in DOMAIN strs : strs[t].data \in Int
  BY DEF Owned, StringType
<1>4. \A p \in DOMAIN raw : Intact(heap', p) /\ Told(heap', p, raw[p])
  BY DEF Owned, KeepsBut, Told
<1>5. \A t \in DOMAIN strs' : Intact(heap', t) /\ Intact(heap', strs[t].data)
        /\ Extent(heap', t) = StructSize
        /\ strs[t].capacity = Extent(heap', strs[t].data)
  BY <1>1, <1>3 DEF Owned, KeepsBut
<1> QED BY <1>1, <1>2, <1>4, <1>5 DEF Owned

(* A program that has strings or pointers has had a malloc that succeeded.  *)
LEMMA HeldHead ==
  ASSUME HeapOK(heap), NEW p, Intact(heap, p)
  PROVE  heap.head # Null /\ ~Faults(heap)
  BY DEF HeapOK, Intact, Faults

LEMMA NullNotHeld ==
  ASSUME HeapOK(heap), NEW p, Intact(heap, p)
  PROVE  p # Null
  BY DEF HeapOK, HeapType, Intact, BlockOf, DataOffset, Null

LEMMA InitGInv == Init => GInv
<1> SUFFICES ASSUME Init PROVE GInv
  OBVIOUS
<1>1. heap.end = 0 /\ heap.head = Null /\ DOMAIN heap.block = {}
      /\ heap = [end |-> heap.end, head |-> heap.head, block |-> heap.block]
      /\ heap.block \in [DOMAIN heap.block -> HeaderType]
  BY DEF Init, HeapInit
<1>2. HeapOK(heap)
  BY <1>1, WordFacts DEF HeapOK, HeapType
<1>3. DOMAIN strs = {} /\ strs \in [DOMAIN strs -> StringType]
  BY DEF Init
<1>4. Owned
  BY <1>3 DEF Owned, Init
<1>5. Flags
  <2>1. ~Faults(heap)
    BY <1>1 DEF Faults, Null, Failed
  <2>2. starved = FALSE /\ stray = FALSE /\ faulted = FALSE
    BY DEF Init
  <2> QED BY <2>1, <2>2 DEF Flags
<1>6. Lengths
  BY <1>3 DEF Lengths
<1> QED BY <1>2, <1>4, <1>5, <1>6 DEF GInv

(* A call that takes m bytes for n of the program's: malloc and calloc.     *)
LEMMA TakeStep ==
  ASSUME GInv, Allocates, NEW m \in Nat, NEW n \in Nat, n <= m \/ n >= Word,
         ~Overreaches(heap, m),
         heap' = Malloc(heap, m).heap, Hold(Malloc(heap, m).ptr, n),
         starved' = (starved \/ Malloc(heap, m).ptr = Null),
         strs' = strs
  PROVE  HeapOK(heap)' /\ Owned' /\ (Faults(heap)' => starved')
<1> DEFINE q == Malloc(heap, m).ptr
<1>1. ~Faults(heap) /\ HeapOK(heap) /\ Owned
  BY DEF GInv, Allocates
<1>2. /\ HeapOK(heap') /\ KeepsBut(heap, heap', {})
      /\ q = Null \/ (Fresh(heap, heap', q, m) /\ ~Faults(heap'))
  BY <1>1, MallocStep
<1>3. raw = [x \in DOMAIN raw \ {} |-> raw[x]]
  BY <1>1 DEF Owned
<1>4. starved' = (starved \/ q = Null) /\ raw' = IF q = Null THEN raw ELSE Put(raw, q, n)
  BY DEF Hold
<1> HIDE DEF q
<1>5. CASE q = Null
  <2>1. raw' = [x \in DOMAIN raw \ {} |-> raw[x]]
    BY <1>3, <1>4, <1>5
  <2>2. Owned'
    BY <1>1, <1>2, <2>1, OwnedRaw
  <2> QED BY <1>2, <1>4, <1>5, <2>2
<1>6. CASE q # Null
  <2>1. raw' = Put([x \in DOMAIN raw \ {} |-> raw[x]], q, n)
    BY <1>3, <1>4, <1>6
  <2>2. Fresh(heap, heap', q, m) /\ ~Faults(heap')
    BY <1>2, <1>6
  <2>3. Owned'
    BY <1>1, <1>2, <2>1, <2>2, OwnedRaw
  <2> QED BY <1>2, <2>2, <2>3
<1> QED BY <1>5, <1>6

LEMMA AllocateStep == ASSUME GInv, Allocate PROVE GInv'
<1>1. PICK n \in Sizes :
        /\ heap' = Malloc(heap, n).heap
        /\ Hold(Malloc(heap, n).ptr, n)
        /\ starved' = (starved \/ Malloc(heap, n).ptr = Null)
  BY DEF Allocate
<1>2. Allocates /\ strs' = strs /\ stray' = stray /\ faulted' = faulted
  BY DEF Allocate
<1>3. n \in Nat /\ ~Overreaches(heap, n)
  BY SizeModest, ModestForward DEF Modest, GInv, HeapOK, HeapType
<1>4. HeapOK(heap)' /\ Owned' /\ (Faults(heap)' => starved')
  BY <1>1, <1>2, <1>3, TakeStep
<1>5. Flags' /\ Lengths'
  BY <1>1, <1>2, <1>4 DEF GInv, Flags, Lengths
<1> QED BY <1>4, <1>5 DEF GInv

LEMMA CallocStep == ASSUME GInv, Calloc PROVE GInv'
<1>1. PICK n \in Sizes, k \in Sizes :
        LET m == (k * n) % Word
        IN /\ ~Overreaches(heap, m)
           /\ heap' = Malloc(heap, m).heap
           /\ Hold(Malloc(heap, m).ptr, k * n)
           /\ starved' = (starved \/ Malloc(heap, m).ptr = Null)
           /\ stray' = (/\ Malloc(heap, m).ptr # Null
                        /\ m > 0
                        /\ ~Inside(Malloc(heap, m).heap, Malloc(heap, m).ptr, m - 1))
  BY DEF Calloc
<1>2. Allocates /\ strs' = strs /\ faulted' = faulted
  BY DEF Calloc
<1> DEFINE a == k * n
           m == a % Word
<1>3. a \in Nat
  <2>1. n \in Nat /\ k \in Nat
    BY SizesAssumption
  <2> QED BY <2>1
<1>4. /\ ~Overreaches(heap, m)
      /\ heap' = Malloc(heap, m).heap
      /\ Hold(Malloc(heap, m).ptr, a)
      /\ starved' = (starved \/ Malloc(heap, m).ptr = Null)
      /\ stray' = (/\ Malloc(heap, m).ptr # Null
                   /\ m > 0
                   /\ ~Inside(heap', Malloc(heap, m).ptr, m - 1))
  BY <1>1
<1> HIDE DEF a
<1>5. m \in Nat /\ (a <= m \/ a >= Word)
  <2>1. m \in Nat
    BY <1>3, WordFacts
  <2>2. CASE a < Word
    BY <1>3, <2>1, <2>2, WordFacts, SmallRemainder
  <2> QED BY <1>3, <2>1, <2>2, WordFacts
<1> HIDE DEF m
<1>6. HeapOK(heap)' /\ Owned' /\ (Faults(heap)' => starved')
  BY <1>2, <1>3, <1>4, <1>5, TakeStep
<1>7. stray' = FALSE
  <2>1. CASE Malloc(heap, m).ptr = Null
    BY <1>4, <2>1
  <2>2. CASE Malloc(heap, m).ptr # Null
    <3>1. Extent(heap', Malloc(heap, m).ptr) = m
      BY <1>2, <1>4, <1>5, <2>2, MallocStep DEF GInv, Allocates, Fresh
    <3>2. Inside(heap', Malloc(heap, m).ptr, m - 1)
      BY <3>1, <1>5 DEF Inside, Extent, Slip, HeaderSize, DataOffset
    <3> QED BY <1>4, <3>2
  <2> QED BY <2>1, <2>2
<1>8. starved' \in BOOLEAN /\ faulted' \in BOOLEAN
  BY <1>2, <1>4 DEF GInv, Flags
<1>9. Lengths'
  BY <1>2 DEF GInv, Lengths, Allocates, Running
<1> QED BY <1>6, <1>7, <1>8, <1>9 DEF GInv, Flags

LEMMA ReallocateStep == ASSUME GInv, Reallocate PROVE GInv'
<1>1. PICK p \in DOMAIN raw, n \in Sizes :
        LET r == Realloc(heap, p, n)
        IN /\ heap' = r.heap
           /\ raw' = IF r.ptr = Null THEN Without(raw, p)
                     ELSE Put(Without(raw, p), r.ptr, n)
           /\ starved' = (starved \/ r.ptr = Null)
  BY DEF Reallocate
<1>2. /\ strs' = strs /\ stray' = stray /\ faulted' = faulted
      /\ ~Faults(heap) /\ ~stray
  BY DEF Reallocate, Allocates, Running
<1>3. /\ n \in Nat /\ ~Overreaches(heap, n)
      /\ p \in Int /\ Intact(heap, p) /\ HeapOK(heap) /\ Owned
  BY SizeModest, ModestForward DEF Modest, GInv, Owned, HeapOK, HeapType
<1>4. p # Null /\ heap.head # Null
  BY <1>3, NullNotHeld, HeldHead
<1>5. Lengths'
  BY <1>2 DEF GInv, Lengths
<1>6. CASE SizeSeen(heap, p) >= n
  <2>1. heap' = heap /\ raw' = Put(Without(raw, p), p, n) /\ starved' = starved
    BY <1>1, <1>4, <1>6 DEF Realloc, GInv, Flags
  <2>2. DOMAIN raw' = DOMAIN raw
        /\ \A x \in DOMAIN raw' : raw'[x] = IF x = p THEN n ELSE raw[x]
    BY <2>1 DEF Put, Without
  <2>3. raw' \in [DOMAIN raw' -> Nat]
    <3>1. raw' = [x \in DOMAIN raw' |-> raw'[x]]
      BY <2>1 DEF Put
    <3>2. \A x \in DOMAIN raw : raw[x] \in Nat
      BY <1>3 DEF Owned
    <3> QED BY <1>3, <2>2, <3>1, <3>2
  <2>4. Told(heap, p, n)
    BY <1>6 DEF Told
  <2>5. Owned'
    BY <2>1, <2>2, <2>3, <2>4, <1>2, <1>3 DEF Owned
  <2> QED BY <2>1, <2>5, <1>2, <1>5 DEF GInv, Flags
<1>7. CASE ~(SizeSeen(heap, p) >= n)
  <2> DEFINE r == Malloc(heap, n)
  <2>1. /\ heap' = Free(r.heap, p)
        /\ raw' = IF r.ptr = Null THEN Without(raw, p) ELSE Put(Without(raw, p), r.ptr, n)
        /\ starved' = (starved \/ r.ptr = Null)
    BY <1>1, <1>7 DEF Realloc
  <2>2. /\ HeapOK(r.heap) /\ KeepsBut(heap, r.heap, {})
        /\ \/ r.ptr = Null /\ r.heap = heap
           \/ Fresh(heap, r.heap, r.ptr, n) /\ ~Faults(r.heap)
    BY <1>2, <1>3, <1>4, MallocStep
  <2> HIDE DEF r
  <2>3. Intact(r.heap, p)
    BY <1>3, <2>2 DEF KeepsBut
  <2>4. HeapOK(heap') /\ KeepsBut(r.heap, heap', {p}) /\ ~Faults(heap')
    BY <1>2, <1>3, <2>1, <2>2, <2>3, FreeStep DEF Intact
  <2>5. KeepsBut(heap, heap', {p})
    BY <2>2, <2>4 DEF KeepsBut
  <2>6. Without(raw, p) = [x \in DOMAIN raw \ {p} |-> raw[x]]
    BY DEF Without
  <2>7. CASE r.ptr = Null
    <3>1. raw' = [x \in DOMAIN raw \ {p} |-> raw[x]]
      BY <2>1, <2>6, <2>7
    <3>2. Owned'
      BY <1>2, <1>3, <2>5, <3>1, OwnedRaw
    <3> QED BY <1>2, <1>5, <2>1, <2>4, <3>2 DEF GInv, Flags
  <2>8. CASE r.ptr # Null
    <3>1. Fresh(heap, r.heap, r.ptr, n) /\ r.ptr # p
      BY <1>3, <2>2, <2>8 DEF Fresh
    <3>2. Fresh(heap, heap', r.ptr, n)
      BY <3>1, <2>4 DEF Fresh, KeepsBut
    <3>3. raw' = Put([x \in DOMAIN raw \ {p} |-> raw[x]], r.ptr, n)
      BY <2>1, <2>6, <2>8
    <3>a. n \in Nat /\ n <= n /\ {p} \in SUBSET DOMAIN raw
      BY <1>3
    <3>b. \E q, m, k : /\ raw' = Put([x \in DOMAIN raw \ {p} |-> raw[x]], q, k)
                       /\ Fresh(heap, heap', q, m)
                       /\ k \in Nat /\ (k <= m \/ k >= Word)
      BY <3>2, <3>3, <3>a
    <3>4. Owned'
      BY <1>2, <1>3, <2>5, <3>a, <3>b, OwnedRaw
    <3> QED BY <1>2, <1>5, <2>1, <2>4, <3>4 DEF GInv, Flags
  <2> QED BY <2>7, <2>8
<1> QED BY <1>6, <1>7

LEMMA ReleaseStep == ASSUME GInv, Release PROVE GInv'
<1>1. PICK p \in DOMAIN raw : heap' = Free(heap, p) /\ raw' = Without(raw, p)
  BY DEF Release
<1>2. UNCHANGED <<strs, starved, stray, faulted>>
  BY DEF Release
<1>3. p \in Int /\ Intact(heap, p) /\ HeapOK(heap) /\ Owned
  BY DEF GInv, Owned
<1>4. HeapOK(heap') /\ KeepsBut(heap, heap', {p}) /\ (Faults(heap') <=> Faults(heap))
  BY <1>1, <1>3, FreeStep DEF Intact
<1>5. raw' = [x \in DOMAIN raw \ {p} |-> raw[x]]
  BY <1>1 DEF Without
<1>6. Owned'
  BY <1>2, <1>3, <1>4, <1>5, OwnedRaw
<1> QED BY <1>2, <1>4, <1>6 DEF GInv, Flags, Lengths

(* No string is so long that a request for it comes near half the address   *)
(* space.                                                                   *)
LEMMA LengthModest ==
  ASSUME GInv, ~stray, NEW s \in DOMAIN strs
  PROVE  /\ strs[s].length \in Nat /\ strs[s].capacity \in Nat
         /\ strs[s].capacity <= HeapSize /\ strs[s].length <= HeapSize + 2
         /\ Modest(strs[s].length + 1)
<1>1. /\ strs[s].length \in Nat /\ strs[s].capacity \in Nat
      /\ strs[s].length < strs[s].capacity + 3
  BY DEF GInv, Owned, StringType, Lengths, Slip, HeaderSize, DataOffset
<1> DEFINE b == BlockOf(strs[s].data)
<1>2. b \in DOMAIN heap.block /\ strs[s].capacity = heap.block[b].extent
  BY DEF GInv, Owned, Intact, Extent
<1>3. b \in Nat /\ End(heap, b) <= heap.end /\ heap.end <= HeapSize /\ heap.end \in Nat
  BY <1>2 DEF GInv, HeapOK, HeapType
<1> HIDE DEF b
<1>4. strs[s].capacity <= HeapSize
  BY <1>1, <1>2, <1>3, WordFacts DEF End, HeaderSize
<1> QED BY <1>1, <1>4, WordFacts DEF Modest

LEMMA NewStep == ASSUME GInv, New PROVE GInv'
<1> DEFINE r(n) == StringNewLen(heap, n)
<1>1. PICK n \in Sizes \cup {strs[s].length : s \in DOMAIN strs} :
        /\ heap' = r(n).heap
        /\ strs' = IF r(n).at = Null THEN strs ELSE Put(strs, r(n).at, r(n).str)
        /\ starved' = (starved \/ r(n).at = Null)
        /\ stray' = (r(n).at # Null /\ n > 0 /\ ~Inside(r(n).heap, r(n).str.data, n - 1))
  BY DEF New
<1>2. raw' = raw /\ faulted' = faulted /\ ~Faults(heap) /\ HeapOK(heap) /\ Owned
  BY DEF New, Allocates, GInv
<1>3. n \in Nat /\ Modest(n + 1)
  BY <1>2, SizeModest, LengthModest, WordFacts DEF Modest, New, Allocates, Running
<1>a. ~stray
  BY DEF New, Allocates, Running
<1>4. /\ HeapOK(heap') /\ KeepsBut(heap, heap', {})
      /\ \/ r(n).at = Null
         \/ /\ ~Faults(heap')
            /\ Fresh(heap, heap', r(n).at, StructSize)
            /\ Fresh(heap, heap', r(n).str.data, n + 1)
            /\ r(n).at # r(n).str.data
            /\ r(n).str = [data |-> r(n).str.data, length |-> n, capacity |-> n + 1]
  BY <1>1, <1>2, <1>3, StringNewStep
<1> HIDE DEF r
<1>5. CASE r(n).at = Null
  <2>1. /\ strs' = strs /\ raw' = [x \in DOMAIN raw \ {} |-> raw[x]]
        /\ stray' = FALSE /\ starved' = TRUE
    BY <1>1, <1>2, <1>5 DEF Owned
  <2>2. Owned'
    BY <1>2, <1>4, <2>1, OwnedRaw
  <2> QED BY <1>a, <1>2, <1>4, <2>1, <2>2 DEF GInv, Flags, Lengths
<1>6. CASE r(n).at # Null
  <2>1. /\ r(n).str \in StringType
        /\ r(n).str.capacity = n + 1
    BY <1>3, <1>4, <1>6 DEF StringType, Fresh
  <2>2. Owned'
    BY <1>1, <1>2, <1>4, <1>6, <2>1, OwnedNew DEF Fresh
  <2>3. Inside(heap', r(n).str.data, n - 1)
    BY <1>3, <1>4, <1>6 DEF Inside, Fresh, Extent, Slip, HeaderSize, DataOffset
  <2>4. stray' = FALSE /\ starved' = starved
    BY <1>1, <1>6, <2>3 DEF GInv, Flags
  <2>5. strs' = Put(strs, r(n).at, r(n).str) /\ r(n).str.length = n
    BY <1>1, <1>4, <1>6
  <2>6. Lengths'
    BY <1>a, <1>3, <2>1, <2>5 DEF GInv, Lengths, Put, Slip, HeaderSize, DataOffset
  <2> QED BY <1>2, <1>4, <1>6, <2>2, <2>4, <2>6 DEF GInv, Flags
<1> QED BY <1>5, <1>6

(* A string that took the outcome of string_grow, its length aside.         *)
LEMMA ChangedStep ==
  ASSUME GInv, ~Faults(heap), NEW s \in DOMAIN strs, NEW x \in StringType, raw' = raw,
         strs' = [strs EXCEPT ![s] = x],
         \/ heap' = heap /\ x.data = strs[s].data /\ x.capacity = strs[s].capacity
         \/ \E c : /\ Modest(c)
                   /\ heap' = StringGrow(heap, strs[s], c).heap
                   /\ x.data = StringGrow(heap, strs[s], c).str.data
                   /\ x.capacity = StringGrow(heap, strs[s], c).str.capacity
  PROVE  /\ HeapOK(heap)' /\ Owned' /\ ~Faults(heap)'
         /\ x.capacity = Extent(heap', x.data)
<1>1. /\ HeapOK(heap) /\ Owned /\ strs[s] \in StringType
      /\ strs[s].data \in Int /\ Intact(heap, strs[s].data)
      /\ strs[s].capacity = Extent(heap, strs[s].data)
  BY DEF GInv, Owned, StringType
<1>2. CASE heap' = heap /\ x.data = strs[s].data /\ x.capacity = strs[s].capacity
  BY <1>1, <1>2, OwnedChanged
<1>3. ASSUME NEW c, Modest(c),
             heap' = StringGrow(heap, strs[s], c).heap,
             x.data = StringGrow(heap, strs[s], c).str.data,
             x.capacity = StringGrow(heap, strs[s], c).str.capacity
      PROVE  /\ HeapOK(heap)' /\ Owned' /\ ~Faults(heap)'
             /\ x.capacity = Extent(heap', x.data)
  <2> DEFINE r == StringGrow(heap, strs[s], c)
  <2>1. /\ HeapOK(r.heap) /\ ~Faults(r.heap)
        /\ \/ r.heap = heap /\ r.str = strs[s]
           \/ /\ KeepsBut(heap, r.heap, {strs[s].data})
              /\ Fresh(heap, r.heap, r.str.data, c)
              /\ r.str = [data |-> r.str.data, length |-> strs[s].length, capacity |-> c]
    BY <1>1, <1>3, StringGrowStep
  <2> HIDE DEF r
  <2>2. heap' = r.heap /\ x.data = r.str.data /\ x.capacity = r.str.capacity
    BY <1>3 DEF r
  <2>3. CASE r.heap = heap /\ r.str = strs[s]
    BY <1>1, <2>1, <2>2, <2>3, OwnedChanged
  <2>4. CASE /\ KeepsBut(heap, r.heap, {strs[s].data})
             /\ Fresh(heap, r.heap, r.str.data, c)
             /\ r.str = [data |-> r.str.data, length |-> strs[s].length, capacity |-> c]
    <3>1. x.capacity = c
      BY <2>2, <2>4
    <3>2. KeepsBut(heap, heap', {strs[s].data}) /\ Fresh(heap, heap', x.data, x.capacity)
      BY <2>2, <2>4, <3>1
    <3>3. Owned'
      BY <1>1, <3>2, OwnedChanged
    <3> QED BY <2>1, <2>2, <3>2, <3>3 DEF Fresh
  <2> QED BY <2>1, <2>3, <2>4
<1> QED BY <1>2, <1>3

LEMMA StringGrowType ==
  ASSUME NEW h, HeapOK(h), ~Faults(h), NEW s \in StringType, NEW c, Modest(c),
         s.data \in Int, Intact(h, s.data)
  PROVE  /\ StringGrow(h, s, c).str \in StringType
         /\ StringGrow(h, s, c).str.length = s.length
         /\ s.capacity <= StringGrow(h, s, c).str.capacity
<1> DEFINE r == StringGrow(h, s, c)
<1>0. c \in Nat /\ s.capacity \in Nat
  BY DEF Modest, StringType
<1>1. \/ r.str = s
      \/ /\ Fresh(h, r.heap, r.str.data, c)
         /\ r.str = [data |-> r.str.data, length |-> s.length, capacity |-> c]
  <2>1. LET g == StringGrow(h, s, c)
        IN \/ g.heap = h /\ g.str = s
           \/ /\ KeepsBut(h, g.heap, {s.data})
              /\ Fresh(h, g.heap, g.str.data, c)
              /\ g.str = [data |-> g.str.data, length |-> s.length, capacity |-> c]
    BY StringGrowStep
  <2> QED BY <2>1
<1>a. r.str = s \/ s.capacity < c
  BY <1>0 DEF StringGrow, Same
<1> HIDE DEF r
<1>2. r.str \in StringType /\ r.str.length = s.length /\ s.capacity <= r.str.capacity
  BY <1>0, <1>1, <1>a DEF StringType, Fresh
<1> QED BY <1>2 DEF r

(* A string that grew is as long as it was.                                 *)
LEMMA GrownStep ==
  ASSUME GInv, ~stray, ~Faults(heap), NEW s \in DOMAIN strs, NEW c, Modest(c),
         Becomes(s, StringGrow(heap, strs[s], c), c),
         raw' = raw, stray' = stray, faulted' = faulted
  PROVE  GInv'
<1> DEFINE x == StringGrow(heap, strs[s], c).str
<1>1. /\ x \in StringType /\ x.length = strs[s].length
      /\ strs[s].capacity <= x.capacity
  BY StringGrowType DEF GInv, Owned, StringType
<1>2. /\ strs' = [strs EXCEPT ![s] = x] /\ heap' = StringGrow(heap, strs[s], c).heap
      /\ starved' = (starved \/ x.capacity < c)
  BY DEF Becomes
<1>3. HeapOK(heap)' /\ Owned' /\ ~Faults(heap)'
  BY <1>1, <1>2, ChangedStep
<1> HIDE DEF x
<1>4. x.length < x.capacity + Slip
  <2>1. /\ strs[s].length \in Nat /\ strs[s].capacity \in Nat /\ x.capacity \in Nat
        /\ strs[s].length < strs[s].capacity + 3
    BY <1>1 DEF GInv, Owned, Lengths, StringType, Slip, HeaderSize, DataOffset
  <2> QED BY <1>1, <2>1 DEF Slip, HeaderSize, DataOffset
<1>5. Lengths'
  BY <1>2, <1>4 DEF GInv, Owned, Lengths
<1> QED BY <1>2, <1>3, <1>5 DEF GInv, Flags

LEMMA GrowStep == ASSUME GInv, Grow PROVE GInv'
<1>1. PICK s \in DOMAIN strs, n \in Sizes : Becomes(s, StringGrow(heap, strs[s], n), n)
  BY DEF Grow
<1>2. /\ raw' = raw /\ stray' = stray /\ faulted' = faulted
      /\ ~Faults(heap) /\ ~stray
  BY DEF Grow, Allocates, Running
<1> QED BY <1>1, <1>2, SizeModest, GrownStep

LEMMA ShrinkStep == ASSUME GInv, Shrink PROVE GInv'
<1>1. PICK s \in DOMAIN strs :
        Becomes(s, StringGrow(heap, strs[s], strs[s].length + 1), strs[s].length + 1)
  BY DEF Shrink, StringShrink
<1>2. /\ raw' = raw /\ stray' = stray /\ faulted' = faulted
      /\ ~Faults(heap) /\ ~stray
  BY DEF Shrink, Allocates, Running
<1>3. Modest(strs[s].length + 1)
  BY <1>2, LengthModest
<1> QED BY <1>1, <1>2, <1>3, GrownStep

LEMMA AppendStep == ASSUME GInv, Append PROVE GInv'
<1>1. PICK s \in DOMAIN strs, n \in Sizes :
        /\ Becomes(s, StringAppendLen(heap, strs[s], n),
                   IF strs[s].length + n >= strs[s].capacity
                   THEN GrownCapacity(strs[s], n) ELSE 0)
        /\ stray' = ~Inside(StringAppendLen(heap, strs[s], n).heap,
                            StringAppendLen(heap, strs[s], n).str.data,
                            StringAppendLen(heap, strs[s], n).str.length)
  BY DEF Append
<1>2. raw' = raw /\ faulted' = faulted /\ ~Faults(heap) /\ ~stray
  BY DEF Append, Allocates, Running
<1>3. n \in Nat /\ strs[s] \in StringType /\ strs[s].data \in Int /\ Intact(heap, strs[s].data)
      /\ strs[s].length \in Nat /\ strs[s].capacity \in Nat
  BY SizesAssumption DEF GInv, Owned, StringType
<1> DEFINE c == GrownCapacity(strs[s], n)
           m == MakeRoom(heap, strs[s], n)
           x == [m.str EXCEPT !.length = @ + n]
<1>4. c \in Nat /\ strs[s].length + n <= c
  BY <1>3 DEF GrownCapacity, Larger
<1>a. Modest(c)
  <2>1. 3 * HeapSize + 32 + n < Word - HeapStart
    BY SizeModest
  <2>2. strs[s].capacity <= HeapSize /\ strs[s].length <= HeapSize + 2
    BY <1>2, LengthModest
  <2>3. c = 2 * strs[s].capacity \/ c = strs[s].length + n
    BY DEF GrownCapacity, Larger
  <2> HIDE DEF c
  <2> QED BY <1>3, <1>4, <2>1, <2>2, <2>3, WordFacts DEF Modest
<1> HIDE DEF c
<1>5. \/ m.heap = heap /\ m.str = strs[s] /\ ~(strs[s].length + n >= strs[s].capacity)
      \/ m = StringGrow(heap, strs[s], c) /\ strs[s].length + n >= strs[s].capacity
  BY DEF MakeRoom, Same, c
<1>6. m.str \in StringType /\ m.str.length = strs[s].length
  BY <1>2, <1>3, <1>a, <1>5, StringGrowType DEF GInv
<1>7. /\ x \in StringType /\ x.data = m.str.data /\ x.capacity = m.str.capacity
      /\ x.length = strs[s].length + n
  BY <1>3, <1>6 DEF StringType
<1>8. /\ heap' = m.heap /\ strs' = [strs EXCEPT ![s] = x]
      /\ starved' = (starved \/ x.capacity < IF strs[s].length + n >= strs[s].capacity
                                             THEN c ELSE 0)
      /\ stray' = ~Inside(heap', x.data, x.length)
  <2>1. StringAppendLen(heap, strs[s], n) = [m EXCEPT !.str.length = @ + n]
    BY DEF StringAppendLen
  <2>2. m = [heap |-> m.heap, str |-> m.str]
    BY DEF MakeRoom, Same, StringGrow
  <2> HIDE DEF m
  <2>3. StringAppendLen(heap, strs[s], n).heap = m.heap
        /\ StringAppendLen(heap, strs[s], n).str = x
    BY <2>1, <2>2
  <2> HIDE DEF x
  <2> QED BY <1>1, <2>3 DEF Becomes, c
<1> HIDE DEF m, x
<1>b. \/ heap' = heap /\ x.data = strs[s].data /\ x.capacity = strs[s].capacity
      \/ \E k : /\ Modest(k)
                /\ heap' = StringGrow(heap, strs[s], k).heap
                /\ x.data = StringGrow(heap, strs[s], k).str.data
                /\ x.capacity = StringGrow(heap, strs[s], k).str.capacity
  BY <1>a, <1>5, <1>7, <1>8
<1>9. /\ HeapOK(heap)' /\ Owned' /\ ~Faults(heap)'
      /\ x.capacity = Extent(heap', x.data)
  BY <1>2, <1>b, <1>7, <1>8, ChangedStep
<1>10. x.capacity \in Nat
  BY <1>7 DEF StringType
<1>11. CASE strs[s].length + n < x.capacity + Slip
  <2>1. Inside(heap', x.data, x.length)
    BY <1>7, <1>9, <1>11 DEF Inside, Extent
  <2>2. stray' = FALSE
    BY <1>8, <2>1
  <2>3. starved' \in BOOLEAN
    BY <1>8 DEF GInv, Flags
  <2>4. Lengths'
    BY <1>2, <1>7, <1>8, <1>11 DEF GInv, Owned, Lengths
  <2> QED BY <1>2, <1>9, <2>2, <2>3, <2>4 DEF GInv, Flags
<1>12. CASE ~(strs[s].length + n < x.capacity + Slip)
  <2>1. strs[s].length + n >= strs[s].capacity
    BY <1>3, <1>5, <1>7, <1>12 DEF Slip, HeaderSize, DataOffset
  <2>2. x.capacity < c
    BY <1>3, <1>4, <1>10, <1>12 DEF Slip, HeaderSize, DataOffset
  <2>3. starved' = TRUE
    BY <1>8, <2>1, <2>2
  <2>4. stray' = TRUE
    BY <1>7, <1>8, <1>9, <1>12 DEF Inside, Extent
  <2> QED BY <1>2, <1>9, <2>3, <2>4 DEF GInv, Flags, Lengths
<1> QED BY <1>11, <1>12

LEMMA DisposeStep == ASSUME GInv, Dispose PROVE GInv'
<1>1. PICK s \in DOMAIN strs : heap' = FreeStr(heap, s, strs[s]) /\ strs' = Without(strs, s)
  BY DEF Dispose
<1>2. UNCHANGED <<raw, starved, stray, faulted>>
  BY DEF Dispose
<1> DEFINE d == strs[s].data
           h == Free(heap, d)
<1>3. /\ HeapOK(heap) /\ Owned /\ s \in Int /\ d \in Int /\ s # d
      /\ Intact(heap, s) /\ Intact(heap, d)
  BY DEF GInv, Owned, StringType
<1> HIDE DEF d
<1>4. HeapOK(h) /\ KeepsBut(heap, h, {d}) /\ (Faults(h) <=> Faults(heap))
  BY <1>3, FreeStep DEF Intact
<1> HIDE DEF h
<1>5. Intact(h, s)
  BY <1>3, <1>4 DEF KeepsBut
<1>6. heap' = Free(h, s)
  BY <1>1 DEF FreeStr, h, d
<1>7. HeapOK(heap') /\ KeepsBut(h, heap', {s}) /\ (Faults(heap') <=> Faults(h))
  BY <1>3, <1>4, <1>5, <1>6, FreeStep DEF Intact
<1>8. KeepsBut(heap, heap', {s, d})
  BY <1>4, <1>7 DEF KeepsBut
<1>9. Owned'
  BY <1>1, <1>2, <1>3, <1>8, OwnedFewer DEF d
<1>10. Lengths'
  BY <1>1, <1>2 DEF GInv, Lengths, Without
<1> QED BY <1>2, <1>4, <1>7, <1>9, <1>10 DEF GInv, Flags

LEMMA FaultStep == ASSUME GInv, Faulting PROVE GInv'
<1>1. heap' = heap /\ raw' = raw /\ strs' = strs /\ starved' = starved /\ stray' = stray
      /\ faulted' = TRUE
  BY DEF Faulting
<1> QED BY <1>1 DEF GInv, Owned, Flags, Lengths

----------------------------------------------------------------------------
(* mem.c:43-172, string.c:73-163.  GInv, which ties the blocks to the       *)
(* pointers a program holds, is inductive for every program.                *)
THEOREM GuestInductive == Spec => []GInv
<1>1. Init => GInv
  BY InitGInv
<1>2. GInv /\ [Next]_vars => GInv'
  <2> SUFFICES ASSUME GInv, [Next]_vars PROVE GInv'
    OBVIOUS
  <2>1. CASE Allocate
    BY <2>1, AllocateStep
  <2>2. CASE Calloc
    BY <2>2, CallocStep
  <2>3. CASE Reallocate
    BY <2>3, ReallocateStep
  <2>4. CASE Release
    BY <2>4, ReleaseStep
  <2>5. CASE New
    BY <2>5, NewStep
  <2>6. CASE Append
    BY <2>6, AppendStep
  <2>7. CASE Grow
    BY <2>7, GrowStep
  <2>8. CASE Shrink
    BY <2>8, ShrinkStep
  <2>9. CASE Dispose
    BY <2>9, DisposeStep
  <2>10. CASE Fault \/ CallocFaults \/ ReallocateFaults
    BY <2>10, FaultStep DEF Fault, CallocFaults, ReallocateFaults
  <2>11. CASE UNCHANGED vars
    BY <2>11 DEF vars, GInv, Owned, Flags, Lengths
  <2> QED BY <2>1, <2>2, <2>3, <2>4, <2>5, <2>6, <2>7, <2>8, <2>9, <2>10, <2>11 DEF Next
<1> QED BY <1>1, <1>2, PTL DEF Spec

(* mem.c:43-172, 223-232.  Whatever a program calls and whatever fails on   *)
(* the way, no block overlaps another, and every piece, at the size that    *)
(* was asked for, ends in front of the blocks behind it; but for those that *)
(* realloc misread and those whose product wrapped in calloc.               *)
THEOREM PiecesApart == Spec => []Apart
<1>1. GInv => Apart
  <2> SUFFICES ASSUME GInv PROVE Apart
    OBVIOUS
  <2>1. /\ \A b \in DOMAIN heap.block : After(b) <= heap.end
        /\ \A b, c \in DOMAIN heap.block : b < c => After(b) <= c
    BY DEF GInv, HeapOK, After, End
  <2>2. ASSUME NEW p \in Int, Intact(heap, p), NEW n \in Nat, n <= Extent(heap, p)
        PROVE  /\ p + n <= heap.end
               /\ \A b \in DOMAIN heap.block : b > BlockOf(p) => p + n <= b
    <3> DEFINE k == BlockOf(p)
    <3>1. k \in DOMAIN heap.block /\ DOMAIN heap.block \subseteq Nat /\ k \in Nat
      BY <2>2 DEF Intact, GInv, HeapOK, HeapType
    <3>2. heap.block[k].extent \in Nat /\ n <= heap.block[k].extent /\ heap.end \in Nat
      BY <2>2, <3>1 DEF Extent, GInv, HeapOK, HeapType, HeaderType
    <3>3. k = p - 13 /\ After(k) = k + 16 + heap.block[k].extent
      BY DEF BlockOf, DataOffset, After, HeaderSize
    <3> HIDE DEF k
    <3>5. p + n <= After(k) /\ p + n \in Int /\ After(k) \in Int
      BY <2>2, <3>1, <3>2, <3>3
    <3>6. p + n <= heap.end
      BY <2>1, <3>1, <3>2, <3>5
    <3>7. ASSUME NEW b \in DOMAIN heap.block, b > k PROVE p + n <= b
      BY <2>1, <3>1, <3>5, <3>7
    <3> QED BY <3>6, <3>7 DEF k
  <2> DEFINE Short(p, n) == /\ p \in DOMAIN raw /\ n > heap.block[BlockOf(p)].size
                            /\ n <= SizeSeen(heap, p) \/ n >= Word
             Fits(p, n) == /\ p + n <= heap.end
                           /\ \A b \in DOMAIN heap.block : b > BlockOf(p) => p + n <= b
  <2>3. ASSUME NEW s \in DOMAIN strs
        PROVE  Fits(s, StructSize) /\ Fits(strs[s].data, strs[s].capacity)
    <3>1. /\ Intact(heap, s) /\ Intact(heap, strs[s].data)
          /\ s \in Int /\ strs[s].data \in Int
          /\ StructSize \in Nat /\ StructSize <= Extent(heap, s)
          /\ strs[s].capacity \in Nat
          /\ strs[s].capacity <= Extent(heap, strs[s].data)
      BY DEF GInv, Owned, StringType, StructSize
    <3> QED BY <2>2, <3>1
  <2>4. ASSUME NEW p \in DOMAIN raw
        PROVE  Short(p, raw[p]) \/ Fits(p, raw[p])
    <3>1. /\ p \in Int /\ raw[p] \in Nat /\ Intact(heap, p) /\ Told(heap, p, raw[p])
          /\ Extent(heap, p) \in Nat
      BY DEF GInv, Owned, Intact, Extent, HeapOK, HeapType, HeaderType
    <3>2. CASE raw[p] <= Extent(heap, p)
      BY <2>2, <3>1, <3>2
    <3>3. CASE ~(raw[p] <= Extent(heap, p))
      <4>1. raw[p] > heap.block[BlockOf(p)].size
        BY <3>1, <3>3 DEF Intact
      <4> QED BY <3>1, <3>3, <4>1 DEF Told
    <3> QED BY <3>2, <3>3
  <2>5. ASSUME NEW piece \in Pieces PROVE Short(piece[1], piece[2]) \/ Fits(piece[1], piece[2])
    <3> HIDE DEF Short, Fits
    <3> QED BY <2>3, <2>4 DEF Pieces
  <2> QED BY <2>1, <2>5 DEF Apart
<1> QED BY <1>1, GuestInductive, PTL

(* mem.c:142-172, string.c:96-108.  No piece in use was freed, and no piece *)
(* has two owners.                                                          *)
THEOREM HeadersIntact == Spec => []LiveHeaderIntact
<1>1. GInv => LiveHeaderIntact
  <2> SUFFICES ASSUME GInv PROVE LiveHeaderIntact
    OBVIOUS
  <2>1. \A p \in Live : Intact(heap, p)
    BY DEF GInv, Owned, Live, Buffers
  <2> QED BY <2>1 DEF GInv, Owned, LiveHeaderIntact, Buffers, Intact, Extent
<1> QED BY <1>1, GuestInductive, PTL

(* string.c:96-151.  The capacity a string records is its buffer's.         *)
THEOREM CapacityKept == Spec => []CapacityTrue
<1>1. GInv => CapacityTrue
  BY DEF GInv, Owned, CapacityTrue, Extent
<1> QED BY <1>1, GuestInductive, PTL

(* string.c:123-151, mem.c:223-232.  Until a call runs out of memory, no    *)
(* store of the library leaves its block, the terminator that               *)
(* string_append_len puts behind its buffer included.                       *)
THEOREM StoresInside == Spec => []StrayOnlyStarved
<1>1. GInv => StrayOnlyStarved
  BY DEF GInv, Flags, StrayOnlyStarved
<1> QED BY <1>1, GuestInductive, PTL

(* mem.c:75-81.  malloc walks from -1 only in a program whose very first    *)
(* request failed.                                                          *)
THEOREM FaultsFromStart == Spec => []FaultOnlyFromStart
<1>1. GInv => FaultOnlyFromStart
  BY DEF GInv, Flags, HeapOK, Faults, FaultOnlyFromStart
<1> QED BY <1>1, GuestInductive, PTL

(* The state keeps its types.                                               *)
THEOREM GuestTypeCorrect == Spec => []TypeOK
<1>1. GInv => TypeOK
  <2> SUFFICES ASSUME GInv PROVE TypeOK
    OBVIOUS
  <2>1. {BlockOf(p) : p \in Live} \subseteq DOMAIN heap.block
    BY DEF GInv, Owned, Live, Buffers, Intact
  <2>2. {starved, stray, faulted} \subseteq BOOLEAN
    BY DEF GInv, Flags
  <2> QED BY <2>1, <2>2 DEF GInv, HeapOK, HeapType, Owned, TypeOK
<1> QED BY <1>1, GuestInductive, PTL
============================================================================
