----------------------------- MODULE MCAgEmitter -----------------------------
(* Instances of AgEmitter for TLC: blocks of two words, so that chains grow *)
(* within a few instructions, and spans short enough to be left.            *)
EXTENDS AgEmitter

(* One immediate on each side of every limit of mov and mvn (MovSpan = 2). *)
MCImm == {-3, -2, 1, 2}
NoImm == {}

(* Registers 2 and 3: or-ing a stray bit changes the first.                *)
MCReg == {2, 3}
=============================================================================
