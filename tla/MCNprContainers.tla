-------------------------- MODULE MCNprContainers --------------------------
EXTENDS NprContainers

(* Two of the three names share a bucket. *)
MCNames == {"x", "y", "z"}
MCHash == [s \in MCNames |-> CASE s = "x" -> 0 [] s = "y" -> 1 [] s = "z" -> 2]
Symmetry == Permutations(Addr)
=============================================================================
