------------------------------- MODULE CHeap -------------------------------
(***************************************************************************)
(* malloc, realloc and free as the npr containers use them.  A freed       *)
(* address may be handed out again at once.  Storage is a function from    *)
(* the indices that exist to their values; a write behind the end makes    *)
(* the domain larger than the block, which is how an overrun shows.        *)
(***************************************************************************)
EXTENDS Integers, Sequences

CONSTANTS
  Addr,    \* addresses malloc may return
  Null,    \* the null pointer
  InPool,  \* storage taken from a memory pool, which is never freed
  Junk     \* what new storage holds

ASSUME HeapAssumption == Null \notin Addr /\ InPool \notin Addr /\ Null # InPool

VARIABLE live  \* addresses malloc'ed and not freed

Fresh == Addr \ live

(* Where realloc may put the block at; NULL is a block of no bytes.        *)
Moved(at) == IF at = InPool THEN {InPool} ELSE Fresh \cup ({at} \ {Null})

(* live after block old became block new.                                  *)
Reallocated(old, new) == ((live \ {old}) \cup {new}) \cap Addr

(* f, with v at x.                                                         *)
With(f, x, v) == [y \in DOMAIN f \cup {x} |-> IF y = x THEN v ELSE f[y]]

Storage(n) == [i \in 1 .. n |-> Junk]
Resized(cells, n) == [i \in 1 .. n |-> IF i \in DOMAIN cells THEN cells[i] ELSE Junk]

(* s written from index i on.                                              *)
Written(cells, i, s) ==
  [j \in DOMAIN cells \cup (i .. i + Len(s) - 1) |->
     IF j \in i .. i + Len(s) - 1 THEN s[j - i + 1] ELSE cells[j]]
=============================================================================
