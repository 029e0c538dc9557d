------------------------------ MODULE AgEmitter ------------------------------
(***************************************************************************)
(* The code emitter of libag (ag/ag_gen.c): instructions are appended to a *)
(* chain of fixed-size code blocks, literals to a constant block, branches *)
(* to labels not yet placed and literal loads leave a LabelRef, and        *)
(* ag_alloc_code lays the blocks out in one image and fixes up every       *)
(* reference.  One action per entry point of ag_gen.h; the fix-up loop of  *)
(* ag_alloc_code takes one step per reference.                             *)
(*                                                                         *)
(* A word is abstracted to what the properties tell apart: which           *)
(* instruction it is, the register it writes and the value of its          *)
(* immediate field, at the field's width.  Condition codes and the link    *)
(* bit are carried through unchanged by the code and left out.  Label ids  *)
(* count from 1 here and from 0 in the code.  malloc and mmap succeed, as  *)
(* the code supposes.                                                      *)
(***************************************************************************)
EXTENDS Integers, Sequences, FiniteSets

CONSTANTS
  CODEBUFFER_SIZE, \* words in a block (512)
  BranchReach,     \* half the range of the 24-bit branch field (2^23)
  LdrSpan,         \* range of the ldr offset field (2^12)
  MovSpan,         \* range of the mov/mvn immediate (256)
  Slack,           \* words malloc leaves behind the buffer of a block
  Garbage,         \* what an uninitialised Label.offset may hold
  Insn, Reg, Imm,  \* what the client emits
  MaxCode,         \* bound: instructions per program
  MaxLabels        \* bound: labels the client allocates per program

ASSUME EmitterAssumption ==
  /\ CODEBUFFER_SIZE \in Nat \ {0}
  /\ BranchReach \in Nat \ {0}
  /\ LdrSpan \in Nat \ {0} /\ LdrSpan % 4 = 0
  /\ MovSpan \in Nat \ {0}
  /\ Slack \in Nat
  /\ Garbage \subseteq Nat /\ Garbage # {}
  /\ Reg \subseteq Nat
  /\ Imm \subseteq Int
  /\ MaxCode \in Nat /\ MaxLabels \in Nat

VARIABLES
  code_last,   \* chain of code blocks, oldest first; <<>> is NULL
  const_last,  \* chain of constant blocks
  cur,         \* e->cur, instructions emitted
  data_cur,    \* e->data_cur, literals emitted
  labels,      \* e->labels
  label_refs,  \* e->label_refs
  image,       \* e->code: word address -> word; <<>> is NULL
  code_words,  \* byte_count_code / 4 while ag_alloc_code runs and after
  ri,          \* next reference the fix-up loop resolves
  pc,          \* "emit", "resolve" (in ag_alloc_code), "sealed", "fini"
  live,        \* CodeBufferBlocks malloc'ed and not freed
  prog         \* history: the client's requests

vars == <<code_last, const_last, cur, data_cur, labels, label_refs, image,
          code_words, ri, pc, live, prog>>

-----------------------------------------------------------------------------
(* Words.                                                                  *)

Word(op, reg, val) == [op |-> op, reg |-> reg, val |-> val]
ZeroWord == Word("zero", 0, 0)       \* a fresh page reads as zero
Mangled  == Word("mangled", 0, 0)    \* a word hit by a fix-up not its own

BranchField(d) == d % (2 * BranchReach)             \* d & 0x00ffffff
SignExtend(f)  == IF f < BranchReach THEN f ELSE f - 2 * BranchReach
OrOne(r)       == IF r % 2 = 0 THEN r + 1 ELSE r

InsnWord(x)     == Word("insn", 0, x)
BranchWord(d)   == Word("b", 0, BranchField(d))
LdrWord(rd)     == Word("ldr", rd, 0)
DataWord(v)     == Word("data", 0, v)
MovWord(rd, v)  == IF v >= 0 THEN Word("mov", rd, v) ELSE Word("mvn", rd, -v - 1)

(* Mutant: the PC is taken to be at the instruction.                       *)
BugPatchAtPC(w, d) ==
  IF w.op = "b" THEN [w EXCEPT !.val = BranchField(d)] ELSE Mangled

(* The fix-up of a branch replaces its 24-bit field.                       *)
PatchBranch(w, d) ==
  IF w.op = "b" THEN [w EXCEPT !.val = BranchField(d - 2)] ELSE Mangled

(* Mutant: the offset of a load in words, as that of a branch.             *)
BugPatchUnscaled(w, d) ==
  LET f == (d - 2) % (2 * LdrSpan)
  IN  IF w.op = "ldr"
      THEN [w EXCEPT !.val = f % LdrSpan,
                     !.reg = IF f >= LdrSpan THEN OrOne(@) ELSE @]
      ELSE Mangled

(* The fix-up of a load clears 12 bits but ors in 13 (0x1fff): the top one *)
(* lands in the lowest bit of the register number.                         *)
PatchLdr(w, d) ==
  LET f == (4 * (d - 2)) % (2 * LdrSpan)
  IN  IF w.op = "ldr"
      THEN [w EXCEPT !.val = f % LdrSpan,
                     !.reg = IF f >= LdrSpan THEN OrOne(@) ELSE @]
      ELSE Mangled

-----------------------------------------------------------------------------
(* Block chains.                                                           *)

Full(chain) == Len(chain[Len(chain)]) = CODEBUFFER_SIZE

(* Mutant: b->chain is not linked.                                         *)
BugUnlinked(chain) == <<<<>>>>

alloc_1block(chain) == Append(chain, <<>>)

Room(chain)  == IF Full(chain) THEN alloc_1block(chain) ELSE chain
Grown(chain) == IF Full(chain) THEN 1 ELSE 0

(* Mutant: only the newest block is freed.                                 *)
BugFreeHead(chain) == IF chain = <<>> THEN 0 ELSE 1

(* How many blocks are freed.                                              *)
free_chain(chain) == Len(chain)

Put(chain, w) == [chain EXCEPT ![Len(chain)] = Append(@, w)]

emit4(w) ==
  /\ code_last' = Put(Room(code_last), w)
  /\ cur' = cur + 1

(* The new block of a full constant block goes to the chain of the code    *)
(* (c is that chain after the load was emitted), and the word is written   *)
(* behind the buffer of the constant block.                                *)
GrowConst(c) == IF Full(const_last) THEN alloc_1block(c) ELSE c

emit4_data(w) ==
  /\ const_last' = Put(const_last, w)
  /\ data_cur' = data_cur + 1

(* Block j's cell k.  b->cur of a block is its length here.                *)
Cells(chain) ==
  {c \in (1 .. Len(chain)) \X (1 .. CODEBUFFER_SIZE + Slack) :
     c[2] <= Len(chain[c[1]])}

(* Mutant: counts the newest block only.                                   *)
BugCountHead(chain) == Len(chain[Len(chain)])

block_list_count(chain) == Cardinality(Cells(chain))

(* Mutant: blocks laid out newest first, as they are chained.              *)
BugNewestFirst(chain, base, p) ==
  {c \in Cells(chain) :
     base + (Len(chain) - c[1]) * CODEBUFFER_SIZE + c[2] - 1 = p}

(* emit_code_block copies cell <<j, k>> to word k - 1 of the j-th block of *)
(* the image, which starts at base.                                        *)
Copied(chain, base, p) ==
  {c \in Cells(chain) : base + (c[1] - 1) * CODEBUFFER_SIZE + c[2] - 1 = p}

Fetch(chain, base, p) ==
  LET c == CHOOSE c \in Copied(chain, base, p) : TRUE IN chain[c[1]][c[2]]

(* The constants are copied last, right behind the words counted in the    *)
(* code blocks.                                                            *)
Layout(n, p) ==
  IF Copied(const_last, n, p) # {} THEN Fetch(const_last, n, p)
  ELSE IF Copied(code_last, 0, p) # {} THEN Fetch(code_last, 0, p)
  ELSE ZeroWord

-----------------------------------------------------------------------------
(* Labels.                                                                 *)

Label == 1 .. MaxLabels + CODEBUFFER_SIZE + Slack
LabelStates == {"EMITTED", "NOT_EMITTED", "EMITTED_DATA"}
LabelRec(state, offset) == [state |-> state, offset |-> offset]
(* Mutant: inst_offset read after the instruction was emitted.             *)
BugRefLate(type, inst_offset, label_id) ==
  [type |-> type, inst_offset |-> inst_offset + 1, label_id |-> label_id]

LabelRef(type, inst_offset, label_id) ==
  [type |-> type, inst_offset |-> inst_offset, label_id |-> label_id]

(* The labels the client knows: movldr_imm keeps its own to itself.        *)
Private == {label_refs[i].label_id : i \in {j \in 1 .. Len(label_refs) :
                                              label_refs[j].type = "LDR"}}
ClientLabels == (1 .. Len(labels)) \ Private

(* Mutant: data labels not moved behind the code.                          *)
BugDataPos(l) == labels[l].offset

(* A label in the constants is behind all code words.                      *)
LabelPos(l) ==
  IF labels[l].state = "EMITTED_DATA" THEN labels[l].offset + code_words
  ELSE labels[l].offset

-----------------------------------------------------------------------------
(* What the program in the image does, instruction by instruction: the     *)
(* processor reads PC two words ahead of the instruction.                  *)

Effect(op, reg, val) == [op |-> op, reg |-> reg, val |-> val]

LoadedFrom(w, a) ==
  IF a \in DOMAIN image THEN Effect("load", w.reg, image[a].val)
  ELSE Effect("fault", 0, 0)

Decode(i) ==
  LET w == image[i - 1]
  IN  CASE w.op = "insn" -> Effect("insn", 0, w.val)
        [] w.op = "b"    -> Effect("branch", 0, i + 1 + SignExtend(w.val))
        [] w.op = "mov"  -> Effect("load", w.reg, w.val)
        [] w.op = "mvn"  -> Effect("load", w.reg, -w.val - 1)
        [] w.op = "ldr"  -> LoadedFrom(w, i + 1 + w.val \div 4)
        [] OTHER         -> Effect("other", 0, 0)

(* The abstract program this emitter implements.                           *)
BoundTo(lab) ==
  [seg |-> CASE lab.state = "EMITTED"      -> "code"
             [] lab.state = "EMITTED_DATA" -> "data"
             [] OTHER                      -> "none",
   off |-> IF lab.state = "NOT_EMITTED" THEN 0 ELSE lab.offset]

P == INSTANCE AgProgram WITH
       lits    <- IF pc = "fini" THEN 0 ELSE data_cur,
       bind    <- [l \in ClientLabels |-> BoundTo(labels[l])],
       stage   <- CASE pc \in {"emit", "resolve"} -> "open"
                    [] pc = "sealed"              -> "sealed"
                    [] OTHER                      -> "closed",
       meaning <- IF pc = "sealed" THEN [i \in 1 .. Len(prog) |-> Decode(i)]
                  ELSE <<>>,
       PoolSize <- CODEBUFFER_SIZE

-----------------------------------------------------------------------------
(* ag_emitter_init.                                                        *)
Init ==
  /\ code_last = <<<<>>>>
  /\ const_last = <<<<>>>>
  /\ cur = 0
  /\ data_cur = 0
  /\ labels = <<>>
  /\ label_refs = <<>>
  /\ image = <<>>
  /\ code_words = 0
  /\ ri = 1
  /\ pc = "emit"
  /\ live = 2
  /\ prog = <<>>

(* Once sealed the code chain is NULL: the client no longer emits.         *)
CanEmit == pc = "emit" /\ cur < MaxCode

(* Every one-word instruction: ag_emit_add, _ldr, _push, _vadd, _bx ...    *)
(* The _imm forms emit nothing when the immediate exceeds 8 bits: no step. *)
EmitInsn(x) ==
  /\ CanEmit
  /\ emit4(InsnWord(x))
  /\ live' = live + Grown(code_last)
  /\ prog' = Append(prog, P!Plain(x))
  /\ UNCHANGED <<const_last, data_cur, labels, label_refs, image, code_words,
                 ri, pc>>

(* ag_emit_branch, _b, _bl: resolved at once if the label is behind us.    *)
EmitBranch(l) ==
  /\ CanEmit
  /\ l \in ClientLabels
  /\ IF labels[l].state = "EMITTED"
     THEN /\ emit4(BranchWord(labels[l].offset - cur - 2))
          /\ UNCHANGED label_refs
          /\ prog' = Append(prog, P!BranchTo(l, labels[l].offset))
     ELSE /\ label_refs' = Append(label_refs, LabelRef("BRANCH", cur, l))
          /\ emit4(BranchWord(0))
          /\ prog' = Append(prog, P!BranchTo(l, P!None))
  /\ live' = live + Grown(code_last)
  /\ UNCHANGED <<const_last, data_cur, labels, image, code_words, ri, pc>>

(* ag_emit_movldr_imm with an immediate mov or mvn can encode.             *)
MovImm(rd, v) ==
  /\ CanEmit
  /\ v \in -MovSpan .. MovSpan - 1
  /\ emit4(MovWord(rd, v))
  /\ live' = live + Grown(code_last)
  /\ prog' = Append(prog, P!Load(rd, v, P!None))
  /\ UNCHANGED <<const_last, data_cur, labels, label_refs, image, code_words,
                 ri, pc>>

(* ag_emit_movldr_imm with any other: a label on the next literal, a       *)
(* reference to it, the load and the literal.  A literal behind the slack  *)
(* of the constant block is undefined behaviour and not modelled.          *)
LdrImm(rd, v) ==
  /\ CanEmit
  /\ v \notin -MovSpan .. MovSpan - 1
  /\ data_cur < CODEBUFFER_SIZE + Slack
  /\ labels' = Append(labels, LabelRec("EMITTED_DATA", data_cur))
  /\ label_refs' = Append(label_refs, LabelRef("LDR", cur, Len(labels) + 1))
  /\ LET loaded == Put(Room(code_last), LdrWord(rd))
     IN  code_last' = GrowConst(loaded)
  /\ cur' = cur + 1
  /\ emit4_data(DataWord(v))
  /\ live' = live + Grown(code_last)
                 + Grown(const_last)
  /\ prog' = Append(prog, P!Load(rd, v, data_cur))
  /\ UNCHANGED <<image, code_words, ri, pc>>

(* ag_alloc_label leaves the offset uninitialised.                         *)
AllocLabel ==
  /\ pc = "emit"
  /\ Cardinality(ClientLabels) < MaxLabels
  /\ \E g \in Garbage : labels' = Append(labels, LabelRec("NOT_EMITTED", g))
  /\ UNCHANGED <<code_last, const_last, cur, data_cur, label_refs, image,
                 code_words, ri, pc, live, prog>>

(* Mutant: the label keeps the offset it had.                              *)
BugStaleOffset(l) ==
  /\ pc = "emit"
  /\ l \in ClientLabels
  /\ labels' = [labels EXCEPT ![l].state = "EMITTED"]
  /\ UNCHANGED <<code_last, const_last, cur, data_cur, label_refs, image,
                 code_words, ri, pc, live, prog>>

(* ag_emit_label and ag_emit_data_label, of any label, placed or not.      *)
EmitLabel(l) ==
  /\ pc = "emit"
  /\ l \in ClientLabels
  /\ labels' = [labels EXCEPT ![l] = LabelRec("EMITTED", cur)]
  /\ UNCHANGED <<code_last, const_last, cur, data_cur, label_refs, image,
                 code_words, ri, pc, live, prog>>

EmitDataLabel(l) ==
  /\ pc = "emit"
  /\ l \in ClientLabels
  /\ labels' = [labels EXCEPT ![l] = LabelRec("EMITTED_DATA", data_cur)]
  /\ UNCHANGED <<code_last, const_last, cur, data_cur, label_refs, image,
                 code_words, ri, pc, live, prog>>

(* ag_emit_new_label, ag_emit_new_data_label: allocated and placed.        *)
EmitNewLabel ==
  /\ pc = "emit"
  /\ Cardinality(ClientLabels) < MaxLabels
  /\ labels' \in {Append(labels, LabelRec("EMITTED", cur)),
                  Append(labels, LabelRec("EMITTED_DATA", data_cur))}
  /\ UNCHANGED <<code_last, const_last, cur, data_cur, label_refs, image,
                 code_words, ri, pc, live, prog>>

(* ag_alloc_code up to its loop.  An empty program is left alone, and so   *)
(* is a second call, which finds both chains NULL: no step.                *)
AllocCode ==
  LET n == block_list_count(code_last)
      m == block_list_count(const_last)
  IN  /\ pc = "emit"
      /\ n + m > 0
      /\ image' = [p \in 0 .. n + m - 1 |-> Layout(n, p)]
      /\ code_words' = n
      /\ live' = live - free_chain(code_last) - free_chain(const_last)
      /\ code_last' = <<>>
      /\ const_last' = <<>>
      /\ ri' = 1
      /\ pc' = IF label_refs = <<>> THEN "sealed" ELSE "resolve"
      /\ UNCHANGED <<cur, data_cur, labels, label_refs, prog>>

(* One round of the loop of ag_alloc_code.                                 *)
ResolveRef ==
  LET lr == label_refs[ri]
      d  == LabelPos(lr.label_id) - lr.inst_offset
  IN  /\ pc = "resolve"
      /\ image' = [image EXCEPT ![lr.inst_offset] =
                     IF lr.type = "BRANCH" THEN PatchBranch(@, d)
                     ELSE PatchLdr(@, d)]
      /\ ri' = ri + 1
      /\ pc' = IF ri = Len(label_refs) THEN "sealed" ELSE "resolve"
      /\ UNCHANGED <<code_last, const_last, cur, data_cur, labels, label_refs,
                     code_words, live, prog>>

(* ag_emitter_fini, sealed or not.  The counters keep their values.        *)
Fini ==
  /\ pc \in {"emit", "sealed"}
  /\ image' = <<>>
  /\ live' = live - free_chain(code_last) - free_chain(const_last)
  /\ code_last' = <<>>
  /\ const_last' = <<>>
  /\ labels' = <<>>
  /\ label_refs' = <<>>
  /\ pc' = "fini"
  /\ prog' = <<>>
  /\ UNCHANGED <<cur, data_cur, code_words, ri>>

(* ag_emitter_init of the same struct.                                     *)
Reinit ==
  /\ pc = "fini"
  /\ code_last' = <<<<>>>>
  /\ const_last' = <<<<>>>>
  /\ cur' = 0
  /\ data_cur' = 0
  /\ live' = live + 2
  /\ pc' = "emit"
  /\ code_words' = 0
  /\ ri' = 1
  /\ UNCHANGED <<labels, label_refs, image, prog>>

Next ==
  \/ \E x \in Insn : EmitInsn(x)
  \/ \E l \in Label : EmitBranch(l)
  \/ \E rd \in Reg, v \in Imm : MovImm(rd, v) \/ LdrImm(rd, v)
  \/ AllocLabel
  \/ \E l \in Label : EmitLabel(l) \/ EmitDataLabel(l)
  \/ EmitNewLabel
  \/ AllocCode
  \/ ResolveRef
  \/ Fini
  \/ Reinit

Spec == Init /\ [][Next]_vars

-----------------------------------------------------------------------------
(* Properties.                                                             *)

Words == [op : {"insn", "b", "mov", "mvn", "ldr", "data", "zero", "mangled"},
          reg : Nat, val : Insn \cup Int]

Requests == [op : {"insn", "branch", "load"}, reg : Nat, val : Insn \cup Int,
             lab : Nat, slot : Int]

Labels == [state : LabelStates, offset : Nat]

LabelRefs ==
  [type : {"BRANCH", "LDR"}, inst_offset : Nat, label_id : Nat \ {0}]

(* The state is well-formed: references name labels that exist and         *)
(* instructions that were emitted, the history has one request per word.   *)
ChainsTyped == code_last \in Seq(Seq(Words)) /\ const_last \in Seq(Seq(Words))

CountersTyped ==
  /\ cur \in Nat /\ data_cur \in Nat /\ code_words \in Nat
  /\ ri \in Nat \ {0} /\ live \in Nat
  /\ pc \in {"emit", "resolve", "sealed", "fini"}

RefsTyped ==
  /\ labels \in Seq(Labels)
  /\ label_refs \in Seq(LabelRefs)
  /\ \A i \in 1 .. Len(label_refs) : /\ label_refs[i].inst_offset < cur
                                    /\ label_refs[i].label_id <= Len(labels)

ImageTyped == \A p \in DOMAIN image : image[p] \in Words

HistoryTyped == prog \in Seq(Requests) /\ (pc # "fini" => Len(prog) = cur)

TypeOK == ChainsTyped /\ CountersTyped /\ RefsTyped /\ ImageTyped /\ HistoryTyped

(* While no literal went past the constant block (512 of them).            *)
PoolFits == data_cur <= CODEBUFFER_SIZE

(* The word emitted for the i-th request, before any fix-up.               *)
FirstWord(i) ==
  LET r == prog[i]
  IN  CASE r.op = "insn"   -> InsnWord(r.val)
        [] r.op = "branch" -> BranchWord(IF r.val = P!None THEN 0
                                         ELSE r.val - (i - 1) - 2)
        [] OTHER           -> IF r.slot = P!None THEN MovWord(r.reg, r.val)
                              ELSE LdrWord(r.reg)

(* The words counted in the blocks are the words emitted, even when a      *)
(* block was chained to the wrong list: ag_alloc_code sizes the mapping    *)
(* and places the constants by the count, labels by the counters.          *)
CountersMatchBlocks ==
  /\ pc = "emit" => /\ block_list_count(code_last) = cur
                    /\ block_list_count(const_last) = data_cur
  /\ pc \in {"resolve", "sealed"} =>
       /\ code_words = cur
       /\ DOMAIN image = 0 .. cur + data_cur - 1

(* Word i of the program is in block i / 512 at place i % 512 and every    *)
(* block but the last is full: what emit_code_block, which places block d  *)
(* at d * 512, silently relies on.                                         *)
StreamInBlocks ==
  pc = "emit" /\ PoolFits =>
    /\ cur = (Len(code_last) - 1) * CODEBUFFER_SIZE
               + Len(code_last[Len(code_last)])
    /\ \A j \in 1 .. Len(code_last) :
         /\ j < Len(code_last) => Len(code_last[j]) = CODEBUFFER_SIZE
         /\ \A k \in 1 .. Len(code_last[j]) :
              code_last[j][k] = FirstWord((j - 1) * CODEBUFFER_SIZE + k)

(* Every reference waits at an instruction that needs it, every such       *)
(* instruction has exactly one, in program order; the label of a load is   *)
(* bound to the slot of its literal and nothing can move it.               *)
NeedsRef(i) ==
  \/ prog[i].op = "branch" /\ prog[i].val = P!None
  \/ prog[i].op = "load" /\ prog[i].slot # P!None

RefsSound ==
  pc # "fini" =>
    /\ \A i, j \in 1 .. Len(label_refs) :
         i < j => label_refs[i].inst_offset < label_refs[j].inst_offset
    /\ \A i \in 1 .. Len(prog) :
         NeedsRef(i) <=>
           \E k \in 1 .. Len(label_refs) : label_refs[k].inst_offset = i - 1
    /\ \A k \in 1 .. Len(label_refs) :
         LET r == prog[label_refs[k].inst_offset + 1]
             l == label_refs[k].label_id
         IN  IF label_refs[k].type = "LDR"
             THEN r.op = "load" /\ labels[l] = LabelRec("EMITTED_DATA", r.slot)
             ELSE r.op = "branch" /\ r.lab = l

(* In the finished image every branch whose label was placed and is in     *)
(* reach goes there, forward or backward, wherever the blocks end.         *)
BranchLands ==
  pc = "sealed" /\ PoolFits =>
    \A i \in 1 .. Len(prog) :
      prog[i].op = "branch" /\ P!Encodable(i) => Decode(i) = P!Meaning(i)

(* In the finished image every "ldr rd, =imm" whose literal is in reach    *)
(* puts imm into rd and no other register.                                 *)
LiteralLoads ==
  pc = "sealed" /\ PoolFits =>
    \A i \in 1 .. Len(prog) :
      prog[i].op = "load" /\ P!Encodable(i) => Decode(i) = P!Meaning(i)

(* The instructions that need no fix-up come out of it as they went in.    *)
PlainUntouched ==
  pc = "sealed" /\ PoolFits =>
    \A i \in 1 .. Len(prog) :
      prog[i].op = "insn" => Decode(i) = P!Meaning(i)

(* Each block is freed exactly once, by ag_alloc_code or by ag_emitter_fini. *)
NoLeak ==
  /\ pc = "emit" => live = Len(code_last) + Len(const_last)
  /\ pc # "emit" => live = 0

(* The emitter implements AgProgram.                                       *)
RefinesProgram == P!Spec

-----------------------------------------------------------------------------
(* What the source says and the code does not do.                          *)

(* ag_gen.c:30, of Label.offset: "from top of code".  At the offset of a   *)
(* label placed in the code the image has the instruction emitted after    *)
(* it.  False once a second constant block was needed.                     *)
LabelFromTopOfCode ==
  pc \in {"resolve", "sealed"} =>
    \A l \in ClientLabels :
      LET p == labels[l].offset
      IN  labels[l].state = "EMITTED" /\ p < cur /\ prog[p + 1].op = "insn"
            => image[p] = FirstWord(p + 1)

(* ag_gen.h:177 "ldr rd, =imm": the immediate is loaded, with no condition *)
(* on where the instruction stands.  False of a load that is the last      *)
(* instruction: its literal lies before the PC it reads.                   *)
LdrIsPseudoLdr ==
  pc = "sealed" /\ PoolFits =>
    \A i \in 1 .. Len(prog) :
      prog[i].op = "load" => Decode(i) = P!Meaning(i)
=============================================================================
