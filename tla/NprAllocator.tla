---------------------------- MODULE NprAllocator ----------------------------
(***************************************************************************)
(* What a pool allocator promises: every region it gives lies inside one   *)
(* of the blocks it owns and apart from every region given before, until   *)
(* the pool is cleared or destroyed, and no block is lost meanwhile.       *)
(***************************************************************************)
EXTENDS Integers

CONSTANT Size  \* sizes a client asks for

VARIABLES
  blocks,  \* block id -> size, the memory the pool owns
  given,   \* regions handed out and not taken back
  alive    \* initialised and not destroyed

vars == <<blocks, given, alive>>

Region(b, o, n) == [block |-> b, off |-> o, len |-> n]

Inside(r, bs) ==
  r.block \in DOMAIN bs /\ 0 <= r.off /\ r.off + r.len <= bs[r.block]

Apart(r, s) ==
  r.block # s.block \/ r.off + r.len <= s.off \/ s.off + s.len <= r.off

KeepsBlocks ==
  \A b \in DOMAIN blocks : b \in DOMAIN blocks' /\ blocks'[b] = blocks[b]

-----------------------------------------------------------------------------
Init == given = {} /\ alive = TRUE

(* The pool gets more memory.                                              *)
Grow ==
  /\ alive
  /\ KeepsBlocks
  /\ UNCHANGED <<given, alive>>

Give(n) ==
  /\ alive
  /\ KeepsBlocks
  /\ \E r \in given' :
       /\ r.len = n /\ Inside(r, blocks')
       /\ \A s \in given : Apart(r, s)
       /\ given' = given \cup {r}
  /\ UNCHANGED alive

(* All regions are taken back at once; the pool may shrink.                *)
Clear ==
  /\ alive
  /\ given' = {}
  /\ UNCHANGED alive

Destroy ==
  /\ alive
  /\ alive' = FALSE
  /\ given' = {}
  /\ DOMAIN blocks' = {}

Create ==
  /\ ~alive
  /\ alive' = TRUE
  /\ UNCHANGED given

Next == Grow \/ (\E n \in Size : Give(n)) \/ Clear \/ Destroy \/ Create

Spec == Init /\ [][Next]_vars
=============================================================================
