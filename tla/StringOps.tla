----------------------------- MODULE StringOps -----------------------------
(***************************************************************************)
(* The growable string of c_test/string.c over the allocator.  A string is  *)
(* a record of its structure's fields, itself allocated; what a call does   *)
(* to it and to the heap is a record with both.  The bytes of the buffer    *)
(* are left to the modules that use this one.                               *)
(***************************************************************************)
EXTENDS HeapOps

StructSize == 12      \* sizeof(string)

StringNewLen(h, n) ==
  LET s == Malloc(h, StructSize)
      d == Malloc(s.heap, n + 1)
  IN IF s.ptr = Null
     THEN [heap |-> s.heap, at |-> Null]
     ELSE IF d.ptr = Null
     THEN [heap |-> Free(d.heap, s.ptr), at |-> Null]
     ELSE [heap |-> d.heap, at |-> s.ptr,
           str  |-> [data |-> d.ptr, length |-> n, capacity |-> n + 1]]

Same(h, s) == [heap |-> h, str |-> s]

(* Faulty variants: the new buffer is freed instead of the old one;         *)
(* the capacity is set before the new buffer is known.                      *)
StringGrowFreesNew(h, s, capacity) ==
  LET d == Malloc(h, capacity)
  IN IF capacity <= s.capacity \/ d.ptr = Null
     THEN Same(h, s)
     ELSE [heap |-> Free(d.heap, d.ptr),
           str  |-> [s EXCEPT !.data = d.ptr, !.capacity = capacity]]
StringGrowUnchecked(h, s, capacity) ==
  LET d == Malloc(h, capacity)
  IN IF capacity <= s.capacity
     THEN Same(h, s)
     ELSE IF d.ptr = Null
     THEN Same(h, [s EXCEPT !.capacity = capacity])
     ELSE [heap |-> Free(d.heap, s.data),
           str  |-> [s EXCEPT !.data = d.ptr, !.capacity = capacity]]

(* When there is no memory the string keeps its buffer and nobody is told.  *)
StringGrow(h, s, capacity) ==
  LET d == Malloc(h, capacity)
  IN IF capacity <= s.capacity \/ d.ptr = Null
     THEN Same(h, s)
     ELSE [heap |-> Free(d.heap, s.data),
           str  |-> [s EXCEPT !.data = d.ptr, !.capacity = capacity]]

StringShrink(h, s) == StringGrow(h, s, s.length + 1)

Larger(a, b) == IF a < b THEN b ELSE a

(* Faulty variant: twice the capacity is taken to be enough.                *)
DoubleOnly(s, n) == 2 * s.capacity

GrownCapacity(s, n) == Larger(2 * s.capacity, s.length + n)

MakeRoom(h, s, n) ==
  IF s.length + n >= s.capacity THEN StringGrow(h, s, GrownCapacity(s, n))
                                ELSE Same(h, s)

(* The last byte stored is the terminator, at the new length.               *)
StringAppendLen(h, s, n) ==
  LET r == MakeRoom(h, s, n)
  IN [r EXCEPT !.str.length = @ + n]

StringAppendChar(h, s) == StringAppendLen(h, s, 1)

FreeStr(h, at, s) == Free(Free(h, s.data), at)
============================================================================
