---------------------------- MODULE AgEmitterImage ----------------------------
(***************************************************************************)
(* Proofs about the image ag_alloc_code makes, for every size of the       *)
(* blocks and the fields: what it holds before, between and after the      *)
(* rounds of the fix-up loop, and so what each of its instructions does.   *)
(***************************************************************************)
EXTENDS AgEmitterProofs

USE Sizes

(* The fields of a request, with n literals emitted.                       *)
ReqShaped(r, n) ==
  /\ r.op = "insn" => r.reg = 0
  /\ r.op = "branch" => r.reg = 0 /\ r.val \in Int
  /\ r.op = "load" => r.val \in Int /\ r.slot \in -1 .. n - 1

RequestsShaped == \A i \in 1 .. Len(prog) : ReqShaped(prog[i], data_cur)

IsLiteral(i) == prog[i].op = "load" /\ prog[i].slot # P!None

(* While emitting, every literal is in its slot of the constant block.     *)
LiteralsInPool ==
  pc = "emit" =>
    \A i \in 1 .. Len(prog) :
      IsLiteral(i) => const_last[1][prog[i].slot + 1] = DataWord(prog[i].val)

(* The client cannot branch to the label of a literal.                     *)
BranchRefsClient ==
  \A k \in 1 .. Len(label_refs) :
    label_refs[k].type = "BRANCH" => label_refs[k].label_id \notin Private

(* Round k of the loop writes Fixed(k) at Off(k).                          *)
Off(k) == label_refs[k].inst_offset

Fixed(k) ==
  LET d == LabelPos(label_refs[k].label_id) - Off(k)
  IN  IF label_refs[k].type = "BRANCH" THEN PatchBranch(FirstWord(Off(k) + 1), d)
      ELSE PatchLdr(FirstWord(Off(k) + 1), d)

InImage == pc \in {"resolve", "sealed"}

(* Before round ri, the words of the references done are fixed and all     *)
(* other words of the program are as they were emitted.                    *)
WordsLeft ==
  InImage /\ PoolFits =>
    \A i \in 1 .. Len(prog) :
      (\A k \in 1 .. Len(label_refs) : k < ri => Off(k) # i - 1)
        => image[i - 1] = FirstWord(i)

WordsFixed ==
  InImage /\ PoolFits =>
    \A k \in 1 .. Len(label_refs) : k < ri => image[Off(k)] = Fixed(k)

(* The literals follow the code and no fix-up touches them.                *)
LiteralsLaid ==
  InImage =>
    \A i \in 1 .. Len(prog) :
      IsLiteral(i) => image[cur + prog[i].slot] = DataWord(prog[i].val)

AllResolved == pc = "sealed" => ri = Len(label_refs) + 1

(* All that is known of a state, each part proved in its turn.             *)
EmitterInv == TypeInv /\ CountersMatchBlocks /\ StreamInBlocks /\ RefsSound

(* The emitter's invariant survives every step.                            *)
LEMMA EmitterStep == EmitterInv /\ [Next]_vars => EmitterInv'
  BY TypeStep, CountersStep, StreamStep, RefsStep DEF EmitterInv

-----------------------------------------------------------------------------
(* Arithmetic of the fields, for any width.                                *)

(* Wrapping at m leaves a number below m alone.                             *)
LEMMA ModSmall == \A m \in Nat \ {0} : \A a \in 0 .. m - 1 : a % m = a
  OBVIOUS

(* Wrapping at m adds m to a negative number no further than m below zero.  *)
LEMMA ModNegative == \A m \in Nat \ {0} : \A a \in -m .. -1 : a % m = a + m
  OBVIOUS

(* A number is its quotient times the divisor plus its remainder.           *)
LEMMA DivMod ==
  \A b \in Nat \ {0}, p \in Nat :
    /\ p = (b * (p \div b)) + (p % b)
    /\ (p % b) \in 0 .. b - 1
    /\ (p \div b) \in Nat
  OBVIOUS

(* Each word is in one block, at one place of it.                          *)
LEMMA QuotRem ==
  \A b \in Nat \ {0}, p \in Nat :
    \E j \in Nat \ {0}, k \in 1 .. b : (j - 1) * b + (k - 1) = p
<1> TAKE b \in Nat \ {0}, p \in Nat
<1>1. PICK q \in Nat, r \in 0 .. b - 1 : p = (b * q) + r
  BY DivMod
<1>2. (q + 1 - 1) * b = b * q
  BY <1>1
<1>3. ((q + 1) - 1) * b + ((r + 1) - 1) = p
  BY <1>1, <1>2
<1>4. q + 1 \in Nat \ {0} /\ r + 1 \in 1 .. b
  BY <1>1
<1> QED
  BY <1>3, <1>4

(* A word before the end of block n at place m is in the blocks up to there. *)
LEMMA QuotRemOrder ==
  ASSUME NEW b \in Nat \ {0}, NEW n \in Nat \ {0}, NEW m \in 0 .. b,
         NEW j \in Nat \ {0}, NEW k \in 1 .. b,
         (j - 1) * b + (k - 1) < (n - 1) * b + m
  PROVE  j < n \/ (j = n /\ k <= m)
<1>1. CASE j = n
  <2>1. PICK x \in Nat : x = (n - 1) * b
    OBVIOUS
  <2> QED
    BY <1>1, <2>1
<1>2. CASE j > n
  <2>1. PICK e \in Nat : j = n + e + 1
    <3>1. j - n - 1 \in Nat
      BY <1>2
    <3> QED
      BY <3>1
  <2>2. (j - 1) * b = (n - 1) * b + e * b + b
    BY <2>1
  <2>3. PICK x \in Nat, y \in Nat : x = (n - 1) * b /\ y = e * b
    OBVIOUS
  <2> QED
    BY <1>2, <2>2, <2>3
<1> QED
  BY <1>1, <1>2

(* The PC an instruction reads is two words ahead of it.                    *)
LEMMA PcRelative ==
  \A i, t, d \in Int : d = t - (i - 1) => d - 2 = t - (i - 1) - 2 /\ i + 1 + (d - 2) = t
  OBVIOUS

(* The branch field holds every displacement in reach.                     *)
LEMMA BranchFieldExact ==
  \A d \in -BranchReach .. BranchReach - 1 : SignExtend(BranchField(d)) = d
<1> SUFFICES ASSUME NEW d \in -BranchReach .. BranchReach - 1
             PROVE  SignExtend(BranchField(d)) = d
  OBVIOUS
<1>1. BranchReach \in Nat \ {0} /\ 2 * BranchReach \in Nat \ {0} /\ d \in Int
  BY EmitterAssumption
<1>2. CASE d >= 0
  <2>1. d % (2 * BranchReach) = d
    BY <1>1, <1>2, ModSmall
  <2> QED
    BY <1>1, <1>2, <2>1 DEF SignExtend, BranchField
<1>3. CASE d < 0
  <2>1. d % (2 * BranchReach) = d + 2 * BranchReach
    BY <1>1, <1>3, ModNegative
  <2> QED
    BY <1>1, <1>3, <2>1 DEF SignExtend, BranchField
<1> QED
  BY <1>1, <1>2, <1>3

(* The load field holds every distance in reach, and the register is kept. *)
LEMMA LdrFieldExact ==
  ASSUME NEW rd, NEW d \in Int, 4 * (d - 2) \in 0 .. LdrSpan - 1
  PROVE  /\ PatchLdr(LdrWord(rd), d) = Word("ldr", rd, 4 * (d - 2))
         /\ (4 * (d - 2)) \div 4 = d - 2
<1> DEFINE f == 4 * (d - 2)
<1>1. LdrSpan \in Nat \ {0} /\ 2 * LdrSpan \in Nat \ {0} /\ f \in 0 .. LdrSpan - 1
  BY EmitterAssumption
<1>2. f \div 4 = d - 2
  OBVIOUS
<1> HIDE DEF f
<1>3. f % (2 * LdrSpan) = f /\ f % LdrSpan = f /\ ~(f >= LdrSpan)
  BY <1>1, ModSmall
<1>4. PatchLdr(LdrWord(rd), d) = [LdrWord(rd) EXCEPT !.val = f, !.reg = rd]
  BY <1>3 DEF PatchLdr, LdrWord, Word, f
<1>5. PatchLdr(LdrWord(rd), d) = Word("ldr", rd, f)
  BY <1>4 DEF LdrWord, Word
<1> QED
  BY <1>2, <1>5 DEF f

-----------------------------------------------------------------------------
(* The layout.                                                             *)

(* The word of a code address is the word emitted with that number.        *)
LEMMA CodeAt ==
  ASSUME EmitterInv, pc = "emit", PoolFits, NEW p \in 0 .. cur - 1
  PROVE  Layout(cur, p) = FirstWord(p + 1)
<1>0. PICK n, B : n = Len(code_last) /\ B = CODEBUFFER_SIZE
  OBVIOUS
<1>1. /\ cur \in Nat /\ n \in Nat \ {0} /\ B \in Nat \ {0} /\ p \in Nat
      /\ \A h \in 1 .. n : Len(code_last[h]) \in Nat /\ Len(code_last[h]) <= B
      /\ Len(const_last) = 1
  <2>1. /\ code_last \in Seq(Seq(Words)) /\ cur \in Nat /\ Len(code_last) >= 1
        /\ \A h \in 1 .. n : Len(code_last[h]) <= B
        /\ Len(const_last) = 1
    BY <1>0 DEF EmitterInv, TypeInv, TypeOK, ChainsTyped, CountersTyped, Shape
  <2> QED
    BY <1>0, <2>1
<1>2. /\ cur = (n - 1) * B + Len(code_last[n])
      /\ \A h \in 1 .. n : h < n => Len(code_last[h]) = B
      /\ \A h \in 1 .. n : \A i \in 1 .. Len(code_last[h]) :
           code_last[h][i] = FirstWord((h - 1) * B + i)
  BY <1>0 DEF EmitterInv, StreamInBlocks
<1>3. Copied(const_last, cur, p) = {}
  <2> SUFFICES ASSUME NEW c \in Cells(const_last)
               PROVE  cur + (c[1] - 1) * CODEBUFFER_SIZE + c[2] - 1 # p
    BY DEF Copied
  <2>1. c[1] - 1 = 0 /\ c[2] \in Nat \ {0}
    BY <1>1 DEF Cells
  <2>2. (c[1] - 1) * CODEBUFFER_SIZE = 0
    BY <2>1
  <2>3. cur + 0 + c[2] - 1 # p
    BY <1>1, <2>1
  <2> QED
    BY <2>2, <2>3
<1>4. PICK j \in Nat \ {0}, k \in 1 .. B : (j - 1) * B + (k - 1) = p
  BY <1>1, QuotRem
<1>5. j < n \/ (j = n /\ k <= Len(code_last[n]))
  <2>1. Len(code_last[n]) \in 0 .. B
    BY <1>1
  <2>2. (j - 1) * B + (k - 1) < (n - 1) * B + Len(code_last[n])
    <3>1. p < cur
      BY <1>1
    <3>2. cur = (n - 1) * B + Len(code_last[n])
      BY <1>2
    <3> QED
      BY <1>4, <3>1, <3>2
  <2> QED
    BY <1>1, <2>1, <2>2, QuotRemOrder
<1>6. j \in 1 .. n /\ k \in 1 .. Len(code_last[j]) /\ k \in 1 .. B + Slack
  BY <1>1, <1>2, <1>5
<1>7. <<j, k>> \in Copied(code_last, 0, p)
  <2>1. <<j, k>> \in Cells(code_last)
    BY <1>0, <1>6 DEF Cells
  <2>2. 0 + (j - 1) * B + k - 1 = p
    <3>1. PICK x \in Nat : x = (j - 1) * B
      BY <1>1, PredTimes
    <3> QED
      BY <1>4, <3>1
  <2> QED
    BY <1>0, <2>1, <2>2 DEF Copied
<1>8. PICK c : c = CHOOSE d \in Copied(code_last, 0, p) : TRUE
  OBVIOUS
<1>9. c \in Copied(code_last, 0, p)
  BY <1>7, <1>8
<1>10. /\ c[1] \in 1 .. n /\ c[2] \in 1 .. Len(code_last[c[1]])
       /\ 0 + (c[1] - 1) * B + c[2] - 1 = p
  BY <1>0, <1>9 DEF Copied, Cells
<1>11. Layout(cur, p) = code_last[c[1]][c[2]]
  BY <1>3, <1>7, <1>8 DEF Layout, Fetch
<1>12. (c[1] - 1) * B + c[2] = p + 1
  <2>1. c[1] \in Nat \ {0} /\ c[2] \in Nat
    BY <1>1, <1>10
  <2>2. PICK x \in Nat : x = (c[1] - 1) * B
    BY <1>1, <2>1, PredTimes
  <2>3. 0 + x + c[2] - 1 = p
    BY <1>10, <2>2
  <2>4. x + c[2] = p + 1
    BY <1>1, <2>1, <2>3
  <2> QED
    BY <2>2, <2>4
<1> QED
  BY <1>2, <1>10, <1>11, <1>12

(* The word of a literal's address is the literal.                         *)
LEMMA LiteralAt ==
  ASSUME EmitterInv, pc = "emit", NEW s \in 0 .. data_cur - 1
  PROVE  Layout(cur, cur + s) = const_last[1][s + 1]
<1> DEFINE B == CODEBUFFER_SIZE
<1>1. /\ cur \in Nat /\ Len(const_last) = 1 /\ Len(const_last[1]) = data_cur
      /\ data_cur <= B + Slack /\ data_cur \in Nat /\ B \in Nat
  BY DEF EmitterInv, TypeInv, TypeOK, CountersTyped, Shape
<1>2. <<1, s + 1>> \in Copied(const_last, cur, cur + s)
  <2>1. <<1, s + 1>> \in Cells(const_last)
    BY <1>1 DEF Cells
  <2> QED
    BY <1>1, <2>1 DEF Copied
<1> DEFINE c == CHOOSE d \in Copied(const_last, cur, cur + s) : TRUE
<1>3. c \in Copied(const_last, cur, cur + s)
  BY <1>2
<1>4. c[1] = 1 /\ c[2] = s + 1
  BY <1>1, <1>3 DEF Copied, Cells
<1> QED
  BY <1>2, <1>4 DEF Layout, Fetch

-----------------------------------------------------------------------------
(* The requests, the literals and the references while the client emits.   *)

(* What any of the emitters does to the history: one well-shaped request.  *)
LEMMA RequestMade ==
  ASSUME TypeInv,
         \/ \E x \in Insn : EmitInsn(x)
         \/ \E l \in Label : EmitBranch(l)
         \/ \E rd \in Reg, v \in Imm : MovImm(rd, v) \/ LdrImm(rd, v)
  PROVE  \E r : /\ prog' = Append(prog, r)
                /\ data_cur' \in {data_cur, data_cur + 1}
                /\ ReqShaped(r, data_cur')
<1>0. data_cur \in Nat
  BY DEF TypeInv, TypeOK, CountersTyped
<1> USE DEF ReqShaped, P!Request, P!None
<1>1. ASSUME NEW x \in Insn, EmitInsn(x)
      PROVE  /\ prog' = Append(prog, P!Plain(x)) /\ data_cur' = data_cur
             /\ ReqShaped(P!Plain(x), data_cur')
  BY <1>1 DEF EmitInsn, P!Plain
<1>2. ASSUME NEW l \in Label, EmitBranch(l)
      PROVE  \E v \in Int : /\ prog' = Append(prog, P!BranchTo(l, v))
                            /\ data_cur' = data_cur
                            /\ ReqShaped(P!BranchTo(l, v), data_cur')
  <2>1. labels[l].offset \in Nat
    BY <1>2, RefFields DEF EmitBranch, ClientLabels, TypeInv, TypeOK
  <2>2. PICK v \in Int : prog' = Append(prog, P!BranchTo(l, v))
    BY <1>2, <2>1 DEF EmitBranch
  <2> QED
    BY <1>2, <2>2 DEF EmitBranch, P!BranchTo
<1>3. ASSUME NEW rd \in Reg, NEW v \in Imm, MovImm(rd, v)
      PROVE  /\ prog' = Append(prog, P!Load(rd, v, P!None)) /\ data_cur' = data_cur
             /\ ReqShaped(P!Load(rd, v, P!None), data_cur')
  BY <1>0, <1>3, EmitterAssumption DEF MovImm, P!Load
<1>4. ASSUME NEW rd \in Reg, NEW v \in Imm, LdrImm(rd, v)
      PROVE  /\ prog' = Append(prog, P!Load(rd, v, data_cur))
             /\ data_cur' = data_cur + 1
             /\ ReqShaped(P!Load(rd, v, data_cur), data_cur')
  BY <1>0, <1>4, EmitterAssumption DEF LdrImm, emit4_data, P!Load
<1> QED
  BY <1>1, <1>2, <1>3, <1>4

(* Every request is well-shaped, its literal one of those emitted.         *)
LEMMA ShapedStep ==
  TypeInv /\ RequestsShaped /\ [Next]_vars => RequestsShaped'
<1> SUFFICES ASSUME TypeInv, RequestsShaped, [Next]_vars PROVE RequestsShaped'
  OBVIOUS
<1>0. prog \in Seq(Requests) /\ data_cur \in Nat
  BY DEF TypeInv, TypeOK, HistoryTyped, CountersTyped
<1>1. CASE \/ \E x \in Insn : EmitInsn(x)
           \/ \E l \in Label : EmitBranch(l)
           \/ \E rd \in Reg, v \in Imm : MovImm(rd, v) \/ LdrImm(rd, v)
  <2>1. PICK r : /\ prog' = Append(prog, r)
                 /\ data_cur' \in {data_cur, data_cur + 1}
                 /\ ReqShaped(r, data_cur')
    BY <1>1, RequestMade
  <2>2. ASSUME NEW i \in 1 .. Len(prog) PROVE ReqShaped(prog[i], data_cur')
    <3>1. ReqShaped(prog[i], data_cur)
      BY DEF RequestsShaped
    <3> QED
      BY <1>0, <2>1, <3>1 DEF ReqShaped
  <2>3. \A i \in 1 .. Len(prog') :
           \/ i \in 1 .. Len(prog) /\ prog'[i] = prog[i]
           \/ prog'[i] = r
    BY <1>0, <2>1
  <2> QED
    BY <2>1, <2>2, <2>3 DEF RequestsShaped
<1>2. CASE UNCHANGED <<prog, data_cur>>
  BY <1>2 DEF RequestsShaped
<1>3. CASE prog' = <<>>
  BY <1>3 DEF RequestsShaped
<1>4. ASSUME Reinit PROVE prog' = <<>>
  BY <1>4 DEF Reinit, TypeInv, Shape
<1> QED
  BY <1>1, <1>2, <1>3, <1>4
  DEF Next, vars, AllocLabel, EmitLabel, EmitDataLabel, EmitNewLabel, AllocCode,
      ResolveRef, Fini

(* The constant block keeps every literal where its request says.          *)
LEMMA PoolStep ==
  TypeInv /\ RequestsShaped /\ LiteralsInPool /\ [Next]_vars => LiteralsInPool'
<1> SUFFICES ASSUME TypeInv, RequestsShaped, LiteralsInPool, [Next]_vars, pc' = "emit"
             PROVE  \A i \in 1 .. Len(prog') :
                      IsLiteral(i)' =>
                        const_last'[1][prog'[i].slot + 1] = DataWord(prog'[i].val)
  BY DEF LiteralsInPool
<1>0. prog \in Seq(Requests) /\ data_cur \in Nat
  BY DEF TypeInv, TypeOK, HistoryTyped, CountersTyped
<1>1. ASSUME NEW i \in 1 .. Len(prog), pc = "emit", IsLiteral(i)
      PROVE  /\ const_last[1][prog[i].slot + 1] = DataWord(prog[i].val)
             /\ prog[i].slot \in 0 .. data_cur - 1
  <2>1. const_last[1][prog[i].slot + 1] = DataWord(prog[i].val)
    BY <1>1 DEF LiteralsInPool
  <2>2. ReqShaped(prog[i], data_cur)
    BY DEF RequestsShaped
  <2> QED
    BY <1>0, <1>1, <2>1, <2>2 DEF ReqShaped, IsLiteral, P!None
<1>2. ASSUME NEW r, prog' = Append(prog, r), pc = "emit", const_last' = const_last,
             ~(r.op = "load" /\ r.slot # P!None)
      PROVE  \A i \in 1 .. Len(prog') :
               IsLiteral(i)' =>
                 const_last'[1][prog'[i].slot + 1] = DataWord(prog'[i].val)
  <2>1. \A i \in 1 .. Len(prog') :
           \/ i \in 1 .. Len(prog) /\ prog'[i] = prog[i]
           \/ prog'[i] = r
    BY <1>0, <1>2
  <2> QED
    BY <1>1, <1>2, <2>1 DEF IsLiteral
<1>3. ASSUME NEW x \in Insn, EmitInsn(x)
      PROVE  \E r : /\ prog' = Append(prog, r) /\ pc = "emit" /\ const_last' = const_last
                    /\ ~(r.op = "load" /\ r.slot # P!None)
  BY <1>3 DEF EmitInsn, CanEmit, P!Plain, P!Request
<1>4. ASSUME NEW l \in Label, EmitBranch(l)
      PROVE  \E r : /\ prog' = Append(prog, r) /\ pc = "emit" /\ const_last' = const_last
                    /\ ~(r.op = "load" /\ r.slot # P!None)
  BY <1>4 DEF EmitBranch, CanEmit, P!BranchTo, P!Request
<1>5. ASSUME NEW rd \in Reg, NEW v \in Imm, MovImm(rd, v)
      PROVE  \E r : /\ prog' = Append(prog, r) /\ pc = "emit" /\ const_last' = const_last
                    /\ ~(r.op = "load" /\ r.slot # P!None)
  BY <1>5 DEF MovImm, CanEmit, P!Load, P!Request
<1>6. ASSUME NEW rd \in Reg, NEW v \in Imm, LdrImm(rd, v),
             NEW i \in 1 .. Len(prog'), IsLiteral(i)'
      PROVE  const_last'[1][prog'[i].slot + 1] = DataWord(prog'[i].val)
  <2>1. /\ pc = "emit" /\ prog' = Append(prog, P!Load(rd, v, data_cur))
        /\ const_last' = Put(const_last, DataWord(v))
    BY <1>6 DEF LdrImm, CanEmit, emit4_data
  <2>2. /\ const_last \in Seq(Seq(Words)) /\ Len(const_last) = 1
        /\ Len(const_last[1]) = data_cur /\ DataWord(v) \in Words
    BY <2>1, WordTypes DEF TypeInv, TypeOK, ChainsTyped, Shape
  <2>3. const_last'[1] = Append(const_last[1], DataWord(v)) /\ const_last[1] \in Seq(Words)
    <3>1. Put(const_last, DataWord(v))[1] = Append(const_last[1], DataWord(v))
      BY <2>2, PutInOnlyBlock
    <3>2. const_last'[1] = Append(const_last[1], DataWord(v))
      BY <2>1, <3>1
    <3>3. const_last[1] \in Seq(Words)
      <4>1. const_last \in Seq(Seq(Words)) /\ 1 \in 1 .. Len(const_last)
        BY <2>2
      <4> QED
        BY <4>1
    <3> QED
      BY <3>2, <3>3
  <2>4. CASE i = Len(prog) + 1
    <3>1. prog'[i] = P!Load(rd, v, data_cur)
      BY <1>0, <2>1, <2>4
    <3>2. prog'[i].slot = data_cur /\ prog'[i].val = v
      BY <3>1 DEF P!Load, P!Request
    <3>3. Append(const_last[1], DataWord(v))[data_cur + 1] = DataWord(v)
      BY <2>2, <2>3
    <3> QED
      BY <2>3, <3>2, <3>3
  <2>5. CASE i \in 1 .. Len(prog)
    <3>1. prog'[i] = prog[i]
      BY <1>0, <2>1, <2>5
    <3>2. IsLiteral(i)
      BY <1>6, <3>1 DEF IsLiteral
    <3>3. /\ const_last[1][prog[i].slot + 1] = DataWord(prog[i].val)
          /\ prog[i].slot + 1 \in 1 .. Len(const_last[1])
      BY <1>0, <1>1, <2>1, <2>2, <2>5, <3>2
    <3>4. const_last'[1][prog[i].slot + 1] = const_last[1][prog[i].slot + 1]
      BY <2>2, <2>3, <3>3, AppendKeeps
    <3> QED
      BY <3>1, <3>3, <3>4
  <2>6. i = Len(prog) + 1 \/ i \in 1 .. Len(prog)
    BY <1>0, <2>1
  <2> QED
    BY <2>4, <2>5, <2>6
<1>7. CASE UNCHANGED <<prog, const_last, pc>>
  BY <1>1, <1>7 DEF IsLiteral
<1>8. CASE AllocCode \/ ResolveRef \/ Fini
  BY <1>8 DEF AllocCode, ResolveRef, Fini
<1>9. CASE Reinit
  BY <1>9 DEF Reinit, TypeInv, Shape
<1>10. ASSUME AllocLabel \/ EmitNewLabel \/ (\E l \in Label : EmitLabel(l) \/ EmitDataLabel(l))
              \/ UNCHANGED vars
       PROVE  UNCHANGED <<prog, const_last, pc>>
  BY <1>10 DEF AllocLabel, EmitNewLabel, EmitLabel, EmitDataLabel, vars
<1> QED
  BY <1>2, <1>3, <1>4, <1>5, <1>6, <1>7, <1>8, <1>9, <1>10 DEF Next

(* The labels of the client are its own.                                   *)
LEMMA ClientKept ==
  ASSUME TypeInv, [Next]_vars, BranchRefsClient
  PROVE  BranchRefsClient'
<1>0. /\ label_refs \in Seq(LabelRefs)
      /\ \A k \in 1 .. Len(label_refs) : label_refs[k].label_id \in 1 .. Len(labels)
  BY RefFields DEF TypeInv, TypeOK, RefsTyped
<1>1. ASSUME NEW l \in Label, EmitBranch(l), label_refs' # label_refs
      PROVE  BranchRefsClient'
  <2>1. label_refs' = Append(label_refs, LabelRef("BRANCH", cur, l)) /\ l \notin Private
    BY <1>1 DEF EmitBranch, ClientLabels
  <2>2. \A k \in 1 .. Len(label_refs') :
          \/ k \in 1 .. Len(label_refs) /\ label_refs'[k] = label_refs[k]
          \/ label_refs'[k] = LabelRef("BRANCH", cur, l)
    BY <1>0, <2>1
  <2>3. Private' \subseteq Private
    BY <2>2 DEF Private, LabelRef
  <2> QED
    BY <2>1, <2>2, <2>3 DEF BranchRefsClient, LabelRef
<1>2. ASSUME NEW rd \in Reg, NEW v \in Imm, LdrImm(rd, v) PROVE BranchRefsClient'
  <2> DEFINE new == LabelRef("LDR", cur, Len(labels) + 1)
  <2>1. label_refs' = Append(label_refs, new)
    BY <1>2 DEF LdrImm
  <2>2. \A k \in 1 .. Len(label_refs') :
          \/ k \in 1 .. Len(label_refs) /\ label_refs'[k] = label_refs[k]
          \/ label_refs'[k] = new
    BY <1>0, <2>1
  <2>3. new.type = "LDR" /\ new.label_id = Len(labels) + 1
    BY DEF LabelRef
  <2> HIDE DEF new
  <2>4. Private' \subseteq Private \cup {Len(labels) + 1}
    BY <2>2, <2>3 DEF Private
  <2>5. \A k \in 1 .. Len(label_refs) : label_refs[k].label_id # Len(labels) + 1
    BY <1>0 DEF TypeInv, TypeOK, RefsTyped
  <2> QED
    BY <2>2, <2>3, <2>4, <2>5 DEF BranchRefsClient
<1>3. CASE label_refs' = label_refs
  BY <1>3 DEF BranchRefsClient, Private
<1>4. CASE label_refs' = <<>>
  BY <1>4 DEF BranchRefsClient
<1> QED
  BY <1>1, <1>2, <1>3, <1>4
  DEF Next, vars, EmitInsn, MovImm, AllocLabel, EmitLabel, EmitDataLabel,
      EmitNewLabel, AllocCode, ResolveRef, Fini, Reinit

-----------------------------------------------------------------------------
(* The image, from ag_alloc_code to the last round of its loop.            *)

Laid == WordsLeft /\ WordsFixed /\ LiteralsLaid /\ AllResolved

(* ag_alloc_code copies the program as it was emitted.                     *)
LEMMA LaidOut ==
  ASSUME EmitterInv, RequestsShaped, LiteralsInPool, AllocCode
  PROVE  Laid'
<1>0. /\ pc = "emit" /\ cur \in Nat /\ data_cur \in Nat /\ Len(prog) = cur
      /\ prog \in Seq(Requests) /\ label_refs \in Seq(LabelRefs)
      /\ UNCHANGED <<prog, cur, data_cur, labels, label_refs>>
      /\ ri' = 1
  BY DEF EmitterInv, TypeInv, TypeOK, CountersTyped, HistoryTyped, RefsTyped, AllocCode
<1>1. image' = [p \in 0 .. cur + data_cur - 1 |-> Layout(cur, p)]
  BY <1>0 DEF AllocCode, EmitterInv, CountersMatchBlocks
<1>2. WordsLeft'
  <2> SUFFICES ASSUME PoolFits', NEW i \in 1 .. Len(prog)
               PROVE  image'[i - 1] = FirstWord(i)'
    BY <1>0 DEF WordsLeft
  <2>1. PoolFits
    BY <1>0 DEF PoolFits
  <2>2. i - 1 \in 0 .. cur - 1 /\ i - 1 \in 0 .. cur + data_cur - 1 /\ (i - 1) + 1 = i
    BY <1>0
  <2>3. Layout(cur, i - 1) = FirstWord(i)
    BY <1>0, <2>1, <2>2, CodeAt
  <2>4. FirstWord(i)' = FirstWord(i)
    BY <1>0 DEF FirstWord
  <2> QED
    BY <1>1, <2>2, <2>3, <2>4
<1>3. WordsFixed'
  BY <1>0 DEF WordsFixed
<1>4. LiteralsLaid'
  <2> SUFFICES ASSUME NEW i \in 1 .. Len(prog), IsLiteral(i)
               PROVE  image'[cur + prog[i].slot] = DataWord(prog[i].val)
    BY <1>0 DEF LiteralsLaid, IsLiteral
  <2>1. prog[i].slot \in 0 .. data_cur - 1
    BY <1>0 DEF RequestsShaped, ReqShaped, IsLiteral, P!None
  <2>2. cur + prog[i].slot \in 0 .. cur + data_cur - 1
    BY <1>0, <2>1
  <2>3. Layout(cur, cur + prog[i].slot) = const_last[1][prog[i].slot + 1]
    BY <1>0, <2>1, LiteralAt
  <2>4. const_last[1][prog[i].slot + 1] = DataWord(prog[i].val)
    BY <1>0 DEF LiteralsInPool
  <2> QED
    BY <1>1, <2>2, <2>3, <2>4
<1>5. AllResolved'
  BY <1>0 DEF AllResolved, AllocCode
<1> QED
  BY <1>2, <1>3, <1>4, <1>5 DEF Laid

(* One round fixes one word: no reference fixed before is at its offset,   *)
(* none of those to come, and no literal.                                  *)
LEMMA LaidResolve ==
  ASSUME EmitterInv, RequestsShaped, Laid, ResolveRef
  PROVE  Laid'
<1> DEFINE n == Len(label_refs)
<1>0. /\ pc = "resolve" /\ InImage /\ n \in Nat /\ ri \in 1 .. n
      /\ cur \in Nat /\ data_cur \in Nat /\ Len(prog) = cur
      /\ UNCHANGED <<prog, cur, data_cur, labels, label_refs, code_words>>
      /\ ri' = ri + 1
      /\ DOMAIN image = 0 .. cur + data_cur - 1
  BY DEF EmitterInv, TypeInv, TypeOK, CountersTyped, HistoryTyped, RefsTyped, Shape,
         ResolveRef, CountersMatchBlocks, InImage
<1>1. /\ \A k \in 1 .. n : Off(k) \in 0 .. cur - 1
      /\ \A k \in 1 .. n : k < ri => Off(k) < Off(ri)
  <2>1. \A k \in 1 .. n : Off(k) \in Nat /\ Off(k) < cur
    BY RefFields DEF EmitterInv, TypeInv, TypeOK, RefsTyped, Off
  <2>2. \A k \in 1 .. n : k < ri => Off(k) < Off(ri)
    BY <1>0 DEF EmitterInv, RefsSound, Off
  <2> QED
    BY <1>0, <2>1, <2>2
<1>2. /\ \A p \in DOMAIN image : p # Off(ri) => image'[p] = image[p]
      /\ image'[Off(ri)] =
           LET d == LabelPos(label_refs[ri].label_id) - Off(ri)
           IN  IF label_refs[ri].type = "BRANCH" THEN PatchBranch(image[Off(ri)], d)
               ELSE PatchLdr(image[Off(ri)], d)
  <2>1. Off(ri) \in DOMAIN image
    BY <1>0, <1>1
  <2> QED
    BY <2>1 DEF ResolveRef, Off
<1>3. /\ \A i : FirstWord(i)' = FirstWord(i)
      /\ \A k : Off(k)' = Off(k) /\ Fixed(k)' = Fixed(k)
  BY <1>0 DEF FirstWord, Off, Fixed, LabelPos
<1>4. PoolFits' => PoolFits
  BY <1>0 DEF PoolFits
<1> HIDE DEF n
<1>5. WordsLeft'
  <2> SUFFICES ASSUME PoolFits, NEW i \in 1 .. Len(prog),
                      \A k \in 1 .. n : k < ri + 1 => Off(k) # i - 1
               PROVE  image'[i - 1] = FirstWord(i)
    BY <1>0, <1>3, <1>4 DEF WordsLeft, n
  <2>1. \A k \in 1 .. n : k < ri => Off(k) # i - 1
    BY <1>0
  <2>2. image[i - 1] = FirstWord(i)
    BY <1>0, <2>1 DEF Laid, WordsLeft, n
  <2>3. Off(ri) # i - 1 /\ i - 1 \in DOMAIN image
    BY <1>0
  <2> QED
    BY <1>2, <2>2, <2>3
<1>6. WordsFixed'
  <2> SUFFICES ASSUME PoolFits, NEW k \in 1 .. n, k < ri + 1
               PROVE  image'[Off(k)] = Fixed(k)
    BY <1>0, <1>3, <1>4 DEF WordsFixed, n
  <2>1. CASE k = ri
    <3>1. image[Off(ri)] = FirstWord(Off(ri) + 1)
      <4>1. Off(ri) + 1 \in 1 .. Len(prog) /\ (Off(ri) + 1) - 1 = Off(ri)
        BY <1>0, <1>1
      <4>2. \A j \in 1 .. n : j < ri => Off(j) # Off(ri)
        BY <1>0, <1>1
      <4> QED
        BY <1>0, <4>1, <4>2 DEF Laid, WordsLeft, n
    <3> QED
      BY <1>2, <2>1, <3>1 DEF Fixed
  <2>2. CASE k < ri
    <3>1. image[Off(k)] = Fixed(k)
      BY <1>0, <2>2 DEF Laid, WordsFixed, n
    <3>2. Off(k) # Off(ri) /\ Off(k) \in DOMAIN image
      BY <1>0, <1>1, <2>2
    <3> QED
      BY <1>2, <3>1, <3>2
  <2> QED
    BY <1>0, <2>1, <2>2
<1>7. LiteralsLaid'
  <2> SUFFICES ASSUME NEW i \in 1 .. Len(prog), IsLiteral(i)
               PROVE  image'[cur + prog[i].slot] = DataWord(prog[i].val)
    BY <1>0 DEF LiteralsLaid, IsLiteral
  <2>1. prog[i].slot \in 0 .. data_cur - 1
    BY <1>0 DEF RequestsShaped, ReqShaped, IsLiteral, P!None
  <2>2. cur + prog[i].slot \in DOMAIN image /\ cur + prog[i].slot # Off(ri)
    BY <1>0, <1>1, <2>1
  <2>3. image[cur + prog[i].slot] = DataWord(prog[i].val)
    BY <1>0 DEF Laid, LiteralsLaid
  <2> QED
    BY <1>2, <2>2, <2>3
<1>8. AllResolved'
  BY <1>0 DEF AllResolved, ResolveRef, n
<1> QED
  BY <1>5, <1>6, <1>7, <1>8 DEF Laid

(* Nothing else touches the image before it is unmapped.                   *)
LEMMA LaidStep ==
  EmitterInv /\ RequestsShaped /\ LiteralsInPool /\ Laid /\ [Next]_vars => Laid'
<1> SUFFICES ASSUME EmitterInv, RequestsShaped, LiteralsInPool, Laid, [Next]_vars
             PROVE  Laid'
  OBVIOUS
<1>1. CASE AllocCode
  BY <1>1, LaidOut
<1>2. CASE ResolveRef
  BY <1>2, LaidResolve
<1>3. CASE pc' \in {"emit", "fini"}
  BY <1>3 DEF Laid, WordsLeft, WordsFixed, LiteralsLaid, AllResolved, InImage
<1>4. CASE UNCHANGED vars
  BY <1>4 DEF vars, Laid, WordsLeft, WordsFixed, LiteralsLaid, AllResolved, InImage,
              PoolFits, Off, Fixed, FirstWord, LabelPos, IsLiteral
<1> QED
  BY <1>1, <1>2, <1>3, <1>4
  DEF Next, EmitInsn, EmitBranch, MovImm, LdrImm, CanEmit, AllocLabel, EmitLabel,
      EmitDataLabel, EmitNewLabel, Fini, Reinit

-----------------------------------------------------------------------------
(* What the instructions of the finished image do.                         *)

ImageProved == EmitterInv /\ RequestsShaped /\ LiteralsInPool /\ BranchRefsClient /\ Laid

(* The invariant of the image holds before any block has been laid out.     *)
LEMMA ImageInit == Init => ImageProved
<1> SUFFICES ASSUME Init PROVE ImageProved
  OBVIOUS
<1>1. EmitterInv
  BY TypeInit, CountersInit, StreamInit, RefsInit DEF EmitterInv
<1>2. RequestsShaped /\ LiteralsInPool /\ BranchRefsClient /\ Laid
  BY DEF Init, RequestsShaped, LiteralsInPool, BranchRefsClient, Laid, WordsLeft,
         WordsFixed, LiteralsLaid, AllResolved, InImage
<1> QED
  BY <1>1, <1>2 DEF ImageProved

(* The invariant of the image survives every step.                          *)
LEMMA ImageStep == ImageProved /\ [Next]_vars => ImageProved'
<1> SUFFICES ASSUME ImageProved, [Next]_vars PROVE ImageProved'
  OBVIOUS
<1>1. EmitterInv /\ TypeInv /\ RequestsShaped /\ LiteralsInPool /\ BranchRefsClient /\ Laid
  BY DEF ImageProved, EmitterInv
<1> QED
  BY <1>1, EmitterStep, ShapedStep, PoolStep, ClientKept, LaidStep DEF ImageProved

(* The facts about the finished image, without the phases.                 *)
LEMMA Finished ==
  ASSUME ImageProved, pc = "sealed", PoolFits
  PROVE  /\ Len(prog) = cur /\ cur \in Nat /\ data_cur \in Nat /\ code_words = cur
         /\ DOMAIN image = 0 .. cur + data_cur - 1
         /\ \A i \in 1 .. Len(prog) : ~NeedsRef(i) => image[i - 1] = FirstWord(i)
         /\ \A i \in 1 .. Len(prog) : NeedsRef(i) =>
              \E k \in 1 .. Len(label_refs) :
                /\ Off(k) = i - 1 /\ image[i - 1] = Fixed(k) /\ Matches(k)
                /\ label_refs[k].type \in {"BRANCH", "LDR"}
         /\ LiteralsLaid
<1>0. /\ Len(prog) = cur /\ cur \in Nat /\ data_cur \in Nat /\ code_words = cur
      /\ DOMAIN image = 0 .. cur + data_cur - 1
      /\ InImage /\ ri = Len(label_refs) + 1 /\ Len(label_refs) \in Nat
  BY DEF ImageProved, EmitterInv, TypeInv, TypeOK, CountersTyped, HistoryTyped, RefsTyped,
         CountersMatchBlocks, Laid, AllResolved, InImage
<1>1. /\ \A i \in 1 .. Len(prog) :
           NeedsRef(i) <=> \E k \in 1 .. Len(label_refs) : Off(k) = i - 1
      /\ \A k \in 1 .. Len(label_refs) : Matches(k)
  BY RefsParts DEF ImageProved, EmitterInv, RefsComplete, RefsMatch, Off
<1>2. \A k \in 1 .. Len(label_refs) :
        /\ image[Off(k)] = Fixed(k)
        /\ label_refs[k].type \in {"BRANCH", "LDR"}
  <2>1. \A k \in 1 .. Len(label_refs) : k < ri
    BY <1>0
  <2>2. \A r \in LabelRefs : r.type \in {"BRANCH", "LDR"}
    BY DEF LabelRefs
  <2>3. \A k \in 1 .. Len(label_refs) : label_refs[k] \in LabelRefs
    BY RefFields DEF ImageProved, EmitterInv, TypeInv, TypeOK
  <2> QED
    BY <1>0, <2>1, <2>2, <2>3 DEF ImageProved, Laid, WordsFixed
<1>3. \A i \in 1 .. Len(prog) : ~NeedsRef(i) => image[i - 1] = FirstWord(i)
  BY <1>0, <1>1 DEF ImageProved, Laid, WordsLeft
<1>4. \A i \in 1 .. Len(prog) : NeedsRef(i) =>
        \E k \in 1 .. Len(label_refs) :
          /\ Off(k) = i - 1 /\ image[i - 1] = Fixed(k) /\ Matches(k)
          /\ label_refs[k].type \in {"BRANCH", "LDR"}
  BY <1>1, <1>2
<1> QED
  BY <1>0, <1>3, <1>4 DEF ImageProved, Laid

(* A plain instruction of the finished image is the one asked for.         *)
LEMMA PlainDecoded ==
  ASSUME ImageProved, pc = "sealed", PoolFits,
         NEW i \in 1 .. Len(prog), prog[i].op = "insn"
  PROVE  Decode(i) = P!Meaning(i)
<1>1. image[i - 1] = InsnWord(prog[i].val)
  <2>1. ~NeedsRef(i)
    BY DEF NeedsRef
  <2> QED
    BY <2>1, Finished DEF FirstWord
<1>2. prog[i].reg = 0
  BY DEF ImageProved, RequestsShaped, ReqShaped
<1>3. Decode(i) = Effect("insn", 0, prog[i].val)
  BY <1>1 DEF Decode, InsnWord, Word
<1> QED
  BY <1>2, <1>3 DEF P!Meaning, P!Effect, Effect

(* A branch of the finished image goes where it was asked to.              *)
LEMMA BranchDecoded ==
  ASSUME ImageProved, pc = "sealed", PoolFits,
         NEW i \in 1 .. Len(prog), prog[i].op = "branch", P!Encodable(i)
  PROVE  Decode(i) = P!Meaning(i)
<1>0. /\ Len(prog) = cur /\ cur \in Nat /\ code_words = cur /\ i \in Int
      /\ prog[i].reg = 0 /\ prog[i].val \in Int
  BY Finished DEF ImageProved, RequestsShaped, ReqShaped
<1>1. PICK t \in Int : /\ image[i - 1] = BranchWord(t - (i - 1) - 2)
                       /\ t = P!Target(prog[i])
  <2>1. CASE prog[i].val # P!None
    <3>1. ~NeedsRef(i)
      BY <2>1 DEF NeedsRef
    <3>2. image[i - 1] = BranchWord(prog[i].val - (i - 1) - 2)
      BY <2>1, <3>1, Finished DEF FirstWord
    <3> QED
      BY <1>0, <2>1, <3>2 DEF P!Target
  <2>2. CASE prog[i].val = P!None
    <3>1. NeedsRef(i)
      BY <2>2 DEF NeedsRef
    <3>2. PICK k \in 1 .. Len(label_refs) :
            /\ Off(k) = i - 1 /\ image[i - 1] = Fixed(k) /\ Matches(k)
            /\ label_refs[k].type \in {"BRANCH", "LDR"}
      BY <3>1, Finished
    <3>3. PICK l : l = label_refs[k].label_id
      OBVIOUS
    <3>4. label_refs[k].type = "BRANCH" /\ prog[i].lab = l
      <4>1. prog[label_refs[k].inst_offset + 1].op = "branch"
        BY <1>0, <3>2 DEF Off
      <4> QED
        BY <1>0, <3>2, <3>3, <4>1 DEF Matches, Off
    <3>5. l \in ClientLabels /\ labels[l] \in Labels /\ labels[l].offset \in Nat
      <4>1. l \in 1 .. Len(labels) /\ labels[l] \in Labels /\ labels[l].offset \in Nat
        BY <3>3, RefFields DEF ImageProved, EmitterInv, TypeInv, TypeOK
      <4> QED
        BY <3>3, <3>4, <4>1 DEF ImageProved, BranchRefsClient, ClientLabels
    <3>6. BoundTo(labels[l]) # P!Unbound
      BY <2>2, <3>4, <3>5 DEF P!Encodable, P!BranchEncodable
    <3>7. labels[l].state \in {"EMITTED", "EMITTED_DATA"}
      <4>1. labels[l].state \in LabelStates
        BY <3>5 DEF Labels
      <4>2. labels[l].state # "NOT_EMITTED"
        BY <3>6 DEF BoundTo, P!Unbound, P!At
      <4> QED
        BY <4>1, <4>2 DEF LabelStates
    <3>8. P!Target(prog[i]) = LabelPos(l)
      <4>1. P!Target(prog[i]) = P!Address(BoundTo(labels[l]))
        BY <2>2, <3>4, <3>5 DEF P!Target
      <4>2. P!Address(BoundTo(labels[l])) = LabelPos(l)
        BY <1>0, <3>5, <3>7 DEF P!Address, BoundTo, LabelPos
      <4> QED
        BY <4>1, <4>2
    <3>9. LabelPos(l) \in Int
      BY <1>0, <3>5 DEF LabelPos
    <3>10. image[i - 1] = BranchWord(LabelPos(l) - (i - 1) - 2)
      <4>1. FirstWord(i) = BranchWord(0)
        BY <2>2 DEF FirstWord
      <4>2. Fixed(k) = PatchBranch(FirstWord(i), LabelPos(l) - (i - 1))
        BY <1>0, <3>2, <3>3, <3>4 DEF Fixed
      <4>3. \A d : PatchBranch(BranchWord(0), d) = BranchWord(d - 2)
        BY DEF PatchBranch, BranchWord, Word
      <4> QED
        BY <3>2, <4>1, <4>2, <4>3
    <3> QED
      BY <3>8, <3>9, <3>10
  <2> QED
    BY <2>1, <2>2
<1>2. t - (i - 1) - 2 \in -BranchReach .. BranchReach - 1
  BY <1>1 DEF P!Encodable, P!BranchEncodable, P!Distance
<1>3. Decode(i) = Effect("branch", 0, i + 1 + SignExtend(BranchField(t - (i - 1) - 2)))
  BY <1>1 DEF Decode, BranchWord, Word
<1>4. Decode(i) = Effect("branch", 0, t)
  <2>1. SignExtend(BranchField(t - (i - 1) - 2)) = t - (i - 1) - 2
    BY <1>2, BranchFieldExact
  <2>2. i + 1 + (t - (i - 1) - 2) = t
    BY <1>0, <1>1
  <2> QED
    BY <1>3, <2>1, <2>2
<1> QED
  BY <1>0, <1>1, <1>4 DEF P!Meaning, P!Effect, Effect

(* A load of the finished image puts the immediate into the register.      *)
LEMMA LoadDecoded ==
  ASSUME ImageProved, pc = "sealed", PoolFits,
         NEW i \in 1 .. Len(prog), prog[i].op = "load", P!Encodable(i)
  PROVE  Decode(i) = P!Meaning(i)
<1> PICK rd, v, s : rd = prog[i].reg /\ v = prog[i].val /\ s = prog[i].slot
  OBVIOUS
<1>0. /\ Len(prog) = cur /\ cur \in Nat /\ data_cur \in Nat /\ code_words = cur
      /\ i \in 1 .. cur /\ v \in Int /\ s \in -1 .. data_cur - 1
      /\ DOMAIN image = 0 .. cur + data_cur - 1
  BY Finished DEF ImageProved, RequestsShaped, ReqShaped
<1>1. P!Meaning(i) = Effect("load", rd, v)
  BY DEF P!Meaning, P!Effect, Effect
<1>2. CASE s = P!None
  <2>1. ~NeedsRef(i)
    BY <1>2 DEF NeedsRef
  <2>2. image[i - 1] = MovWord(rd, v)
    BY <1>2, <2>1, Finished DEF FirstWord
  <2>3. CASE v >= 0
    <3>1. image[i - 1] = Word("mov", rd, v)
      BY <2>2, <2>3 DEF MovWord
    <3>2. Decode(i) = Effect("load", rd, v)
      BY <3>1 DEF Decode, Word
    <3> QED
      BY <1>1, <3>2
  <2>4. CASE ~(v >= 0)
    <3>1. image[i - 1] = Word("mvn", rd, -v - 1)
      BY <2>2, <2>4 DEF MovWord
    <3>2. Decode(i) = Effect("load", rd, -(-v - 1) - 1)
      BY <3>1 DEF Decode, Word
    <3>3. -(-v - 1) - 1 = v
      BY <1>0
    <3> QED
      BY <1>1, <3>2, <3>3
  <2> QED
    BY <2>3, <2>4
<1>3. CASE s # P!None
  <2>1. NeedsRef(i) /\ IsLiteral(i) /\ s \in 0 .. data_cur - 1
    BY <1>0, <1>3 DEF NeedsRef, IsLiteral, P!None
  <2>2. PICK k \in 1 .. Len(label_refs) :
          /\ Off(k) = i - 1 /\ image[i - 1] = Fixed(k) /\ Matches(k)
          /\ label_refs[k].type \in {"BRANCH", "LDR"}
    BY <2>1, Finished
  <2>3. PICK l : l = label_refs[k].label_id
    OBVIOUS
  <2>4. label_refs[k].type = "LDR" /\ labels[l] = LabelRec("EMITTED_DATA", s)
    <3>1. prog[label_refs[k].inst_offset + 1] = prog[i]
      BY <1>0, <2>2 DEF Off
    <3> QED
      BY <2>2, <2>3, <3>1 DEF Matches
  <2>5. LabelPos(l) = cur + s
    BY <1>0, <2>1, <2>4 DEF LabelPos, LabelRec
  <2>6. PICK t \in Int, d \in Int : t = cur + s /\ d = t - (i - 1)
    BY <1>0, <2>1
  <2>7. image[i - 1] = PatchLdr(LdrWord(rd), d)
    <3>1. FirstWord(i) = LdrWord(rd)
      BY <1>3 DEF FirstWord
    <3>2. Fixed(k) = PatchLdr(FirstWord(i), LabelPos(l) - (i - 1))
      BY <1>0, <2>2, <2>3, <2>4 DEF Fixed
    <3> QED
      BY <2>2, <2>5, <2>6, <3>1, <3>2
  <2>8. 4 * (d - 2) \in 0 .. LdrSpan - 1
    <3>1. 4 * P!Distance(i, cur + s) \in 0 .. LdrSpan - 1
      BY <1>0, <1>3 DEF P!Encodable, P!LoadEncodable
    <3>2. P!Distance(i, cur + s) = d - 2
      BY <1>0, <2>6, PcRelative DEF P!Distance
    <3> QED
      BY <3>1, <3>2
  <2>9. /\ image[i - 1] = Word("ldr", rd, 4 * (d - 2))
        /\ (4 * (d - 2)) \div 4 = d - 2
    BY <2>7, <2>8, LdrFieldExact
  <2>10. Decode(i) = LoadedFrom(image[i - 1], i + 1 + (d - 2))
    BY <2>9 DEF Decode, Word
  <2>11. i + 1 + (d - 2) = t
    <3>1. i \in Int /\ d = t - (i - 1)
      BY <1>0, <2>6
    <3> QED
      BY <3>1, PcRelative
  <2>12. t \in DOMAIN image /\ image[t] = DataWord(v)
    <3>1. image[cur + prog[i].slot] = DataWord(prog[i].val)
      BY <2>1, Finished DEF LiteralsLaid, InImage
    <3>2. t \in 0 .. cur + data_cur - 1
      BY SMTT(30), <1>0, <2>1, <2>6
    <3> QED
      BY <1>0, <2>6, <3>1, <3>2
  <2>13. Decode(i) = Effect("load", rd, v)
    BY SMTT(30), <2>9, <2>10, <2>11, <2>12 DEF LoadedFrom, DataWord, Word
  <2> QED
    BY <1>1, <2>13
<1> QED
  BY <1>2, <1>3

(* So the three properties of the finished image hold.                     *)
LEMMA ImageMeans == ImageProved => PlainUntouched /\ BranchLands /\ LiteralLoads
  BY PlainDecoded, BranchDecoded, LoadDecoded DEF PlainUntouched, BranchLands, LiteralLoads

(* For every program, of any length and over any number of code blocks,    *)
(* and whatever was fixed up around it, a plain instruction comes out of   *)
(* ag_alloc_code as it was emitted.                                        *)
THEOREM PlainCorrect == Spec => []PlainUntouched
  BY ImageInit, ImageStep, ImageMeans, PTL DEF Spec

(* Every branch goes to the place its label has when the program is sealed *)
(* (or had when it was emitted, if that was already in the code), forward  *)
(* or backward, in code or constants, if the 24-bit field reaches it.      *)
THEOREM BranchesCorrect == Spec => []BranchLands
  BY ImageInit, ImageStep, ImageMeans, PTL DEF Spec

(* Every "ldr rd, =imm" leaves imm in rd, whether it became a mov, a mvn   *)
(* or a load of a literal its 12-bit field reaches.                        *)
THEOREM LoadsCorrect == Spec => []LiteralLoads
  BY ImageInit, ImageStep, ImageMeans, PTL DEF Spec
=============================================================================
