------------------------------ MODULE MCNprHeap ------------------------------
(* NprHeap for TLC: pages of 16 words, of which 4 are the header.          *)
EXTENDS NprHeap
=============================================================================
