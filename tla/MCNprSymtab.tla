----------------------------- MODULE MCNprSymtab -----------------------------
(* NprSymtab for TLC: tables of three bins that grow at the third entry to *)
(* eleven.  All symbols collide before that, a and c also after it, so     *)
(* growth finds a chain of two, and splits it or keeps it together.        *)
EXTENDS NprSymtab

CONSTANTS a, b, c

MCSym == {a, b, c}
MChashcode == (a :> 0) @@ (b :> 3) @@ (c :> 33)
Tables == Permutations(Tab)
MCprimes == <<3, 5, 11>>
=============================================================================
