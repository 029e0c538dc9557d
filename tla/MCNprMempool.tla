---------------------------- MODULE MCNprMempool ----------------------------
(* NprMempool for TLC: integers of six bits, malloc aligned to 2.          *)
EXTENDS NprMempool

MCSize == {1, 5, 6}
MCBase == {0, 2}
MCHint == {8, 16}
MCShift == {0, 2}
=============================================================================
