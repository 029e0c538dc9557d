------------------------------ MODULE AgProgram ------------------------------
(***************************************************************************)
(* What libag promises its client, with no buffers, displacements or       *)
(* fix-ups in sight: the client appends instructions, branches to labels   *)
(* and immediate loads, places labels, and finally seals the program; each *)
(* instruction of the sealed program then has the effect that was asked    *)
(* for.  AgEmitter is shown to implement this specification.               *)
(*                                                                         *)
(* The promise has limits, taken from the instruction set and the code:    *)
(* a branch must be in reach and its label placed, a literal must be in    *)
(* reach of the load, and the literals must fit one constant block         *)
(* (PoolSize).  Outside them the effect of the instruction is unspecified. *)
(***************************************************************************)
EXTENDS Integers, Sequences

CONSTANTS
  Insn,         \* plain instructions, opaque
  Reg,          \* registers an immediate is loaded into
  Imm,          \* immediates
  Label,        \* label identifiers
  BranchReach,  \* a branch reaches -BranchReach .. BranchReach-1 words from PC
  LdrSpan,      \* a literal load reaches 0 .. LdrSpan-1 bytes from PC
  PoolSize      \* how many literals one program may use

VARIABLES
  prog,     \* what was asked for, in order
  lits,     \* literals used so far
  bind,     \* where each label handed to the client was last placed
  stage,    \* "open", "sealed" or "closed"
  meaning   \* effect of each instruction once sealed

vars == <<prog, lits, bind, stage, meaning>>

-----------------------------------------------------------------------------
None == -1

(* A position: a segment and an offset in words from its start.            *)
At(seg, off) == [seg |-> seg, off |-> off]
Unbound == At("none", 0)

(* The requests.  A branch to a label already placed in the code is bound  *)
(* to that place at once (val); any other is bound when the program is     *)
(* sealed.  A load either has a literal slot or needs none.                *)
Request(op, reg, val, lab, slot) ==
  [op |-> op, reg |-> reg, val |-> val, lab |-> lab, slot |-> slot]

Plain(x)          == Request("insn", 0, x, 0, None)
BranchTo(l, dest) == Request("branch", 0, dest, l, None)
Load(rd, v, slot) == Request("load", rd, v, 0, slot)

Effect(op, reg, val) == [op |-> op, reg |-> reg, val |-> val]

(* Distance in words from the PC an instruction reads (two words ahead of  *)
(* the instruction) to word p of the program; i counts from 1.             *)
Distance(i, p) == p - (i - 1) - 2

Address(p) == IF p.seg = "data" THEN Len(prog) + p.off ELSE p.off

Target(r) == IF r.val # None THEN r.val ELSE Address(bind[r.lab])

BranchEncodable(i) ==
  /\ prog[i].val # None \/ bind[prog[i].lab] # Unbound
  /\ Distance(i, Target(prog[i])) \in -BranchReach .. BranchReach - 1

LoadEncodable(i) ==
  \/ prog[i].slot = None
  \/ 4 * Distance(i, Len(prog) + prog[i].slot) \in 0 .. LdrSpan - 1

Encodable(i) ==
  /\ prog[i].op = "branch" => BranchEncodable(i)
  /\ prog[i].op = "load" => LoadEncodable(i)

Meaning(i) ==
  Effect(prog[i].op, prog[i].reg,
         IF prog[i].op = "branch" THEN Target(prog[i]) ELSE prog[i].val)

-----------------------------------------------------------------------------
Init ==
  /\ prog = <<>>
  /\ lits = 0
  /\ bind = [l \in {} |-> Unbound]
  /\ stage = "open"
  /\ meaning = <<>>

Here(seg) == At(seg, IF seg = "code" THEN Len(prog) ELSE lits)

AddInsn(x) ==
  /\ stage = "open"
  /\ prog' = Append(prog, Plain(x))
  /\ UNCHANGED <<lits, bind, stage, meaning>>

AddBranch(l) ==
  /\ stage = "open"
  /\ l \in DOMAIN bind
  /\ prog' = Append(prog, BranchTo(l, IF bind[l].seg = "code"
                                      THEN bind[l].off ELSE None))
  /\ UNCHANGED <<lits, bind, stage, meaning>>

AddLoad(rd, v) ==
  /\ stage = "open"
  /\ \/ /\ prog' = Append(prog, Load(rd, v, None))
        /\ UNCHANGED lits
     \/ /\ prog' = Append(prog, Load(rd, v, lits))
        /\ lits' = lits + 1
  /\ UNCHANGED <<bind, stage, meaning>>

NewLabel(l, p) ==
  /\ stage = "open"
  /\ l \notin DOMAIN bind
  /\ p \in {Unbound, Here("code"), Here("data")}
  /\ bind' = [m \in DOMAIN bind \cup {l} |-> IF m = l THEN p ELSE bind[m]]
  /\ UNCHANGED <<prog, lits, stage, meaning>>

PlaceLabel(l, seg) ==
  /\ stage = "open"
  /\ l \in DOMAIN bind
  /\ bind' = [bind EXCEPT ![l] = Here(seg)]
  /\ UNCHANGED <<prog, lits, stage, meaning>>

(* Sealing gives every encodable request its effect.                       *)
Seal ==
  /\ stage = "open"
  /\ stage' = "sealed"
  /\ DOMAIN meaning' = 1 .. Len(prog)
  /\ lits <= PoolSize =>
       \A i \in 1 .. Len(prog) : Encodable(i) => meaning'[i] = Meaning(i)
  /\ UNCHANGED <<prog, lits, bind>>

(* Closing forgets the program; the client may then start another.         *)
Close ==
  /\ stage \in {"open", "sealed"}
  /\ stage' = "closed"
  /\ prog' = <<>>
  /\ lits' = 0
  /\ bind' = [l \in {} |-> Unbound]
  /\ meaning' = <<>>

Reopen ==
  /\ stage = "closed"
  /\ stage' = "open"
  /\ UNCHANGED <<prog, lits, bind, meaning>>

Next ==
  \/ \E x \in Insn : AddInsn(x)
  \/ \E l \in Label : AddBranch(l)
  \/ \E rd \in Reg, v \in Imm : AddLoad(rd, v)
  \/ \E l \in Label : \E p \in {Unbound, Here("code"), Here("data")} : NewLabel(l, p)
  \/ \E l \in Label, seg \in {"code", "data"} : PlaceLabel(l, seg)
  \/ Seal
  \/ Close
  \/ Reopen

Spec == Init /\ [][Next]_vars
=============================================================================
