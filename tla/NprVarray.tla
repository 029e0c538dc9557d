----------------------------- MODULE NprVarray -----------------------------
(***************************************************************************)
(* Growable arrays (npr/varray.c, npr/varray.h).  An array is its fields;  *)
(* elem_size is one.  `at' is where the storage is after the operation,    *)
(* in a pool for the _pool and _P variants.                                *)
(***************************************************************************)
EXTENDS CHeap

varray_init(n, at) == [nelem |-> 0, size |-> n, cells |-> Storage(n), at |-> at]

(* Mutant: the new storage is not filled from the old.                     *)
BugReallocCells(cells, n) == Storage(n)

Kept(cells, n) == Resized(cells, n)

varray_realloc(a, at) ==
  [nelem |-> a.nelem, size |-> 2 * a.size, cells |-> Kept(a.cells, 2 * a.size), at |-> at]

Full(a) == a.nelem >= a.size

(* VA_NEWELEM and VA_PUSH.                                                 *)
VA_NEWELEM(a, at) ==
  LET b == IF Full(a) THEN varray_realloc(a, at) ELSE a
  IN  [b EXCEPT !.nelem = @ + 1]

VA_PUSH(a, e, at) ==
  LET b == VA_NEWELEM(a, at)
  IN  [b EXCEPT !.cells = Written(@, b.nelem, <<e>>)]

VA_POP(a) == [a EXCEPT !.nelem = @ - 1]

ResizeGrows(a, n) == n > a.size

varray_resize(a, n, at) ==
  IF ResizeGrows(a, n)
  THEN [nelem |-> n, size |-> 2 * n, cells |-> Kept(a.cells, 2 * n), at |-> at]
  ELSE [a EXCEPT !.nelem = n]

VaElements(a) == [i \in 1 .. a.nelem |-> a.cells[i]]
=============================================================================
