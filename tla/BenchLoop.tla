----------------------------- MODULE BenchLoop -----------------------------
(***************************************************************************)
(* The benchmark driver (main.cpp): for every row of its table it has libag*)
(* generate a loop around the measured instructions, calls it twice and    *)
(* divides the cycles of the second call by the instructions it should     *)
(* have run.  The generated words are run by ArmCore.                      *)
(***************************************************************************)
EXTENDS ArmCore, SequencesExt

CONSTANTS
  NUM_LOOP,  \* rounds of the loop (131072)
  MinInsn,   \* first value of num_insn (16)
  MaxInsn,   \* last value of num_insn (256)
  MovLimit   \* largest immediate a mov takes (255)

ASSUME BenchAssumption ==
  /\ NUM_LOOP \in Nat \ {0} /\ MovLimit \in 0 .. 255
  /\ MinInsn \in Nat /\ MinInsn % 8 = 0 /\ MinInsn > 0
  /\ MaxInsn \in Nat

VARIABLES
  num_insn,
  call,      \* the call of lt under way, an index of Calls
  phase,     \* in lt: "init", "ready" to exec, "running"; or "over"
  execs,     \* calls of exec made
  rounds,    \* history: rounds of the loop completed in this exec
  measured   \* history: measured words run in this exec

driver == <<num_insn, call, phase, execs, rounds, measured>>
vars == <<core, driver>>

-----------------------------------------------------------------------------
(* The rows: the operations a row is named after, how it is run, and what  *)
(* its function emits for a destination and a source register.             *)
AL == AG_COND_AL
ZEROMEM_PTR_REG == 11

add_reg(s, rd, rn, rm, shift) == data_process_reg(AL, AG_ADD, s, rd, rn, rm, shift)
orr_reg(rd, rn, rm) == data_process_reg(AL, AG_ORR, 0, rd, rn, rm, 0)
add_imm(rd, rn, imm) == data_process_imm(AL, AG_ADD, 0, rd, rn, imm)
ldr_reg(rt, rm, shift) ==
  ldrstr_reg(AG_LDR_REG, AL, rt, ZEROMEM_PTR_REG, rm, shift, TRUE, AG_OFFSET_ADDR)
ldmia(reg_bits) == ldstm(AL, 0, 1, 0, 0, 1, ZEROMEM_PTR_REG, reg_bits)
str_imm(opc, rt, imm) == ldrstr_imm(opc, AL, rt, ZEROMEM_PTR_REG, imm, {})
lanes_32(vd, opc) == vldst1(vd, ZEROMEM_PTR_REG, 15, 0, opc, 2)

Row(ops, how, code) == [ops |-> ops, how |-> how, code |-> code]
D == 0 .. 10  \* destinations
S == 0 .. 8  \* sources

Vector3(name, opc, q) ==
  Row({name}, "all", [d \in D, s \in S |-> <<vr3(opc, q, 0, d, s, s)>>])
LaneRow(name, opc) ==
  Row({name}, "throughput", [d \in D, s \in S |-> <<lanes_32(d, opc)>>])
Convert(opc, q) ==
  Row({"vcvt"}, "throughput",
      [d \in D, s \in S |-> <<vcvt(opc, q, d * (1 + q), s * (1 + q))>>])

rows == <<
  Row({"add"}, "all", [d \in D, s \in S |-> <<add_reg(0, d, s, s, 0)>>]),
  Row({"add"}, "all", [d \in D, s \in S |-> <<add_reg(1, d, s, s, 0)>>]),
  Row({"add"}, "all", [d \in D, s \in S |-> <<add_reg(1, d, s, s, AG_LSL_AM(4))>>]),
  Row({"add"}, "all", [d \in D, s \in S |-> add_imm(d, s, 100)]),
  Row({"add"}, "all", [d \in D, s \in S |-> <<add_reg(0, d, s, AG_PC, AG_LSL_AM(4))>>]),
  Row({"add"}, "latency", [d \in D, s \in S |-> add_imm(AG_PC, AG_PC, 0)]),
  Row({"orr"}, "all", [d \in D, s \in S |-> <<orr_reg(d, s, s)>>]),
  Row({"eor"}, "all", [d \in D, s \in S |-> <<orr_reg(d, s, s)>>]),
  Row({"mul"}, "all", [d \in D, s \in S |-> <<mul(AL, 0, d, s, s)>>]),
  Row({"mla"}, "all", [d \in D, s \in S |-> <<mla(AL, 0, d, s, s, s)>>]),
  Row({"ldr"}, "all", [d \in D, s \in S |-> <<ldr_reg(d, s, 0)>>]),
  Row({"ldr"}, "all", [d \in D, s \in S |-> <<ldr_reg(d, s, AG_LSL_AM(4))>>]),
  Row({"ldm"}, "throughput", [d \in D, s \in S |-> <<ldmia({0})>>]),
  Row({"ldm"}, "throughput", [d \in D, s \in S |-> <<ldmia(0 .. 3)>>]),
  Row({"ldm"}, "throughput", [d \in D, s \in S |-> <<ldmia(0 .. 7)>>]),
  Row({"ldrex"}, "throughput", [d \in D, s \in S |-> <<ldrex(AL, 0, ZEROMEM_PTR_REG)>>]),
  Row({"strex"}, "throughput", [d \in D, s \in S |-> <<strex(AL, 0, 1, ZEROMEM_PTR_REG)>>]),
  Row({"ldrex", "strex"}, "throughput",
      [d \in D, s \in S |->
         <<ldrex(AL, 0, ZEROMEM_PTR_REG), strex(AL, 1, 0, ZEROMEM_PTR_REG)>>]),
  Row({"str"}, "throughput", [d \in D, s \in S |-> <<str_imm(AG_STR_IMM, d, 0)>>]),
  Row({"str", "ldr"}, "latency",
      [d \in D, s \in S |-> <<str_imm(AG_STR_IMM, d, 0), ldr_reg(d, d, 0)>>]),
  Row({"strb", "ldr"}, "latency",
      [d \in D, s \in S |-> <<str_imm(AG_STRB_IMM, d, 1), ldr_reg(d, d, 0)>>]),
  Vector3("vadd", FOR_EACH_VR3.vadd, 0), Vector3("vadd", FOR_EACH_VR3.vadd, 1),
  Vector3("vmul", FOR_EACH_VR3.vmul, 0), Vector3("vmul", FOR_EACH_VR3.vmul, 1),
  Vector3("vmul", FOR_EACH_VR3.vmul, 0), Vector3("vmul", FOR_EACH_VR3.vmul, 1),
  Vector3("vmla", FOR_EACH_VR3.vmla, 0), Vector3("vmla", FOR_EACH_VR3.vmla, 1),
  LaneRow("vld", AG_VLD(1)), LaneRow("vld", AG_VLD(2)), LaneRow("vld", AG_VLD(4)),
  LaneRow("vst", AG_VST(1)), LaneRow("vst", AG_VST(2)), LaneRow("vst", AG_VST(4)),
  Convert(VCVT_F32_S32, 0), Convert(VCVT_F32_S32, 1),
  Convert(VCVT_S32_F32, 0), Convert(VCVT_S32_F32, 1) >>

(* run, run_latency and run_throughput: what lt is told to print and to do.*)
Modes(how) ==
  CASE how = "all" -> << <<"latency", "latency">>, <<"throughput", "throughput">>,
                         <<"rename", "rename">> >>
    [] how = "latency" -> << <<"latency", "latency">> >>
    [] how = "throughput" -> << <<"throughput", "rename">>, <<"rename", "rename">> >>

(* The calls of lt one pass over the table makes.                          *)
Calls ==
  FlattenSeq([r \in 1 .. Len(rows) |->
    [i \in 1 .. Len(Modes(rows[r].how)) |->
       [row |-> r, on |-> Modes(rows[r].how)[i][1], o |-> Modes(rows[r].how)[i][2]]]])

-----------------------------------------------------------------------------
(* gen.  An item is a word and the literals it adds.                       *)
Item(w) == [word |-> w, lits |-> <<>>]
Items(ws) == [i \in 1 .. Len(ws) |-> Item(ws[i])]

movldr_imm(rd, imm) ==
  IF imm > MovLimit \/ imm < -MovLimit - 1
  THEN <<[word |-> ldrstr_imm(AG_LDR_IMM, AL, rd, AG_PC, 0, {}), lits |-> <<imm>>]>>
  ELSE IF imm >= 0
  THEN Items(data_process_imm(AL, AG_MOV, 0, rd, 0, imm))
  ELSE Items(data_process_imm(AL, AG_MVN, 0, rd, 0, -imm - 1))

(* Mutant: r4 is left out of the mask.                                     *)
BugSaved == 5 .. 11

Saved == 4 .. 11  \* 0b111111110000

ZeroOperands == FlattenSeq([i \in 1 .. 10 |-> movldr_imm(i - 1, 0)])
ZeroVectors == [i \in 1 .. 16 |-> Item(vdup(AL, VDUP32, 1, (i - 1) * 2, 0))]

(* Mutant: the vectors are made from r0 before r0 is zero.                 *)
BugCleared == ZeroVectors \o ZeroOperands

Cleared == ZeroOperands \o ZeroVectors

Prologue ==
  Items(<<push(AL, Saved)>>)
    \o movldr_imm(10, NUM_LOOP)
    \o movldr_imm(ZEROMEM_PTR_REG, ZeroMem)
    \o Cleared

(* Mutant: the label is placed before the counter is loaded.               *)
BugLoopHead == 1

loop_head == Len(Prologue)

(* Mutants: renaming goes through the registers from r4 on; one            *)
(* instruction too few is measured.                                        *)
BugRename(o, n) ==
  [i \in 1 .. n |-> IF o = "rename" THEN <<4 + ((i - 1) % 7), 4 + ((i - 1) % 5)>> ELSE <<0, 0>>]
BugCount(o, n) == [i \in 1 .. n - 1 |-> <<0, 0>>]

(* The registers f is called with.                                         *)
Operands(o, n) ==
  CASE o = "latency"    -> [i \in 1 .. n |-> <<0, 0>>]
    [] o = "throughput" -> [i \in 1 .. 8 * (n \div 8) |-> <<0, 1 + ((i - 1) % 8)>>]
    [] o = "rename"     -> [i \in 1 .. 8 * (n \div 8) |-> <<(i - 1) % 8, (i - 1) % 8>>]

Body(r, o, n) ==
  LET regs_of == Operands(o, n)
  IN  FlattenSeq([i \in 1 .. Len(regs_of) |-> rows[r].code[regs_of[i]]])

Epilogue(cur) ==
  data_process_imm(AL, AG_SUB, 1, 10, 10, 1)
    \o <<branch(AG_COND_NE, 0, loop_head - (cur + 1) - 2),
         pop(AL, Saved), bx(AL, AG_LR)>>

gen(r, o, n) ==
  LET emitted == Prologue \o Items(Body(r, o, n))
  IN  emitted \o Items(Epilogue(Len(emitted)))

(* ag_alloc_code: the literals behind the code, and the distance to each   *)
(* in the word that loads it.                                              *)
Layout(items) ==
  LET n == Len(items)
      Slot(i) == Cardinality({j \in 1 .. i - 1 : items[j].lits # <<>>})
  IN  [code |-> [i \in 1 .. n |->
                   IF items[i].lits = <<>> THEN items[i].word
                   ELSE items[i].word \cup Bits(4 * (n + Slot(i) - (i - 1) - 2))],
       pool |-> FlattenSeq([i \in 1 .. n |-> items[i].lits])]

-----------------------------------------------------------------------------
current == Calls[call]
Function == rows[current.row].code
BodyEnd == Len(image.code) - 4      \* the index of the sub
InBody == pc \in loop_head .. BodyEnd - 1

(* What the caller has in its registers.                                   *)
CallerReg(r) ==
  CASE r = AG_SP -> StackTop [] r = AG_LR -> ReturnAddress [] OTHER -> 1000 + r

NoImage == [code |-> <<>>, pool |-> <<>>]

Init ==
  /\ num_insn = MinInsn
  /\ call = 1
  /\ phase = "init"
  /\ execs = 0 /\ rounds = 0 /\ measured = 0
  /\ image = NoImage
  /\ pc = Idle
  /\ regs = [r \in 0 .. 14 |-> CallerReg(r)]
  /\ zero = FALSE
  /\ mem = [a \in {} |-> 0]
  /\ dirty = 0 .. 31

(* lt up to ag_alloc_code.                                                 *)
LtGen ==
  /\ phase = "init"
  /\ \E items \in {gen(current.row, current.o, num_insn)} : image' = Layout(items)
  /\ phase' = "ready"
  /\ execs' = 0
  /\ UNCHANGED <<num_insn, call, rounds, measured, pc, regs, zero, mem, dirty>>

(* exec(): the caller's registers are its own each time.                   *)
LtExec ==
  /\ phase = "ready"
  /\ execs < 2
  /\ execs' = execs + 1
  /\ phase' = "running"
  /\ pc' = 0
  /\ regs' = [r \in 0 .. 14 |-> CallerReg(r)]
  /\ zero' = FALSE
  /\ dirty' = 0 .. 31
  /\ rounds' = 0 /\ measured' = 0
  /\ UNCHANGED <<num_insn, call, image, mem>>

(* The histories stop where no correct exec gets to.                       *)
MaxRounds == NUM_LOOP + 1
MaxMeasured == 2 * MaxInsn * MaxRounds
Capped(n, max) == IF n < max THEN n + 1 ELSE n

Running ==
  /\ phase = "running"
  /\ Step
  /\ phase' = IF pc' = Idle THEN "ready" ELSE "running"
  /\ rounds' = IF pc = BodyEnd + 1 THEN Capped(rounds, MaxRounds) ELSE rounds
  /\ measured' = IF InBody THEN Capped(measured, MaxMeasured) ELSE measured
  /\ UNCHANGED <<num_insn, call, execs>>

(* ag_emitter_fini, and on to the next row, mode or num_insn.              *)
LtFini ==
  /\ phase = "ready"
  /\ execs = 2
  /\ image' = NoImage
  /\ rounds' = 0 /\ measured' = 0 /\ execs' = 0
  /\ IF call < Len(Calls)
     THEN call' = call + 1 /\ phase' = "init" /\ UNCHANGED num_insn
     ELSE /\ call' = 1
          /\ num_insn' = num_insn * 2
          /\ phase' = IF num_insn * 2 <= MaxInsn THEN "init" ELSE "over"
  /\ UNCHANGED <<pc, regs, zero, mem, dirty>>

Over ==
  /\ phase = "over"
  /\ UNCHANGED vars

Next ==
  \/ LtGen
  \/ LtExec
  \/ Running
  \/ LtFini
  \/ Over

(* One thread runs driver and generated code, and the system keeps running *)
(* it; nothing it does waits for anything.                                 *)
Spec == Init /\ [][Next]_vars /\ WF_vars(Next)

-----------------------------------------------------------------------------
(* While the loop runs, whatever the row and mode emit, r10 counts the     *)
(* rounds left and r11 points to zero_mem: the measured instructions leave *)
(* both alone (main.cpp:83-85).                                            *)
LoopKept ==
  phase = "running" /\ pc \in loop_head .. BodyEnd =>
    /\ regs[10] = NUM_LOOP - rounds
    /\ rounds < NUM_LOOP
    /\ regs[ZEROMEM_PTR_REG] = ZeroMem

(* zero_mem stays zero through all rows, although six kinds of them store  *)
(* to it: that is what keeps the loads whose address depends on a loaded   *)
(* value inside it, in this row and in later ones.                         *)
ZeroMemZero == \A a \in DOMAIN mem : InZero(a) => mem[a] = 0

(* When exec returns, the core registers the procedure call standard gives *)
(* the caller hold what they held, and the stack pointer is back.          *)
CalleeSaved == (4 .. 11) \cup {AG_SP}

CallerKept ==
  phase = "ready" /\ execs > 0 =>
    \A r \in CalleeSaved : regs[r] = CallerReg(r)

(* The number the cycles are divided by is the number of times the code of *)
(* f ran, in every row and mode; but an add to pc jumps over the next one, *)
(* so of these only half run.                                              *)
WritesPC == \E i \in 1 .. Len(Function[0, 0]) : Function[0, 0][i] \in ToSet(add_imm(AG_PC, AG_PC, 0))

CountDivided ==
  phase = "ready" /\ execs > 0 =>
    measured * (IF WritesPC THEN 2 ELSE 1)
      = num_insn * NUM_LOOP * Len(Function[0, 0])

(* Every generated loop ends, every row is measured, and main is over.     *)
Ends == <>(phase = "over")

(* The operation a row is printed under is the one that was measured.      *)
MeasuresWhatItPrints ==
  phase = "running" /\ InBody => OpOf(word) \in rows[current.row].ops
=============================================================================
