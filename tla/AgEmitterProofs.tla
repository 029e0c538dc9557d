--------------------------- MODULE AgEmitterProofs ---------------------------
(***************************************************************************)
(* Proofs about AgEmitter, for every size of the blocks, the fields and    *)
(* the program.  First the shape of the emitter's state, then that its     *)
(* counters agree with its blocks, then that the blocks hold the program,  *)
(* and last what references it leaves to the fix-up.                       *)
(***************************************************************************)
EXTENDS AgEmitter, FiniteSetTheorems, TLAPS

(* How the chains look in each phase.  While the client emits there is one *)
(* constant block and its length is data_cur, even past CODEBUFFER_SIZE,   *)
(* and no code block is over-full; afterwards both chains are NULL.        *)
Shape ==
  /\ pc = "emit" =>
       /\ Len(code_last) >= 1
       /\ \A j \in 1 .. Len(code_last) : Len(code_last[j]) <= CODEBUFFER_SIZE
       /\ Len(const_last) = 1
       /\ Len(const_last[1]) = data_cur
       /\ data_cur <= CODEBUFFER_SIZE + Slack
  /\ pc # "emit" => code_last = <<>> /\ const_last = <<>>
  /\ pc = "fini" => label_refs = <<>> /\ image = <<>> /\ prog = <<>>
  /\ pc = "resolve" => ri <= Len(label_refs)

(* The sizes, as numbers.                                                  *)
LEMMA Sizes ==
  CODEBUFFER_SIZE \in Nat /\ CODEBUFFER_SIZE > 0 /\ Slack \in Nat
  BY EmitterAssumption

USE Sizes

(* Appending a word to a chain, with a new block if the last is full, keeps *)
(* the blocks within CODEBUFFER_SIZE.                                      *)
LEMMA AppendBlock ==
  ASSUME NEW chain \in Seq(Seq(Words)), Len(chain) >= 1, NEW w \in Words,
         \A j \in 1 .. Len(chain) : Len(chain[j]) <= CODEBUFFER_SIZE,
         NEW c, c = Put(Room(chain), w)
  PROVE  /\ c \in Seq(Seq(Words))
         /\ Len(c) = Len(chain) + Grown(chain)
         /\ Len(c) >= 1
         /\ \A j \in 1 .. Len(c) : Len(c[j]) <= CODEBUFFER_SIZE
         /\ Grown(chain) \in {0, 1}
<1> DEFINE r == Room(chain)
<1>1. /\ r \in Seq(Seq(Words)) /\ Len(r) = Len(chain) + Grown(chain)
      /\ \A j \in 1 .. Len(r) : Len(r[j]) <= CODEBUFFER_SIZE
      /\ Len(r[Len(r)]) < CODEBUFFER_SIZE
      /\ Grown(chain) \in {0, 1}
  <2>1. CASE Full(chain)
    BY <2>1 DEF Room, Grown, Full, alloc_1block
  <2>2. CASE ~Full(chain)
    BY <2>2 DEF Room, Grown, Full
  <2>3. QED BY <2>1, <2>2
<1>2. QED BY <1>1 DEF Put

(* The inductive invariant.  NoLeak is in it because its preservation needs *)
(* the lengths Shape fixes, and live \in Nat of TypeOK needs NoLeak.       *)
TypeInv == TypeOK /\ Shape /\ NoLeak

(* A chain grows by a number of blocks.                                    *)
LEMMA GrownType == \A chain : Grown(chain) \in Nat
  BY DEF Grown

(* The constant block takes every literal, full or not.                    *)
LEMMA PutInOnlyBlock ==
  ASSUME NEW chain \in Seq(Seq(Words)), Len(chain) = 1, NEW w \in Words
  PROVE  /\ Put(chain, w) \in Seq(Seq(Words))
         /\ Len(Put(chain, w)) = 1
         /\ Put(chain, w)[1] = Append(chain[1], w)
         /\ Len(Put(chain, w)[1]) = Len(chain[1]) + 1
<1>1. 1 \in 1 .. Len(chain) /\ chain[1] \in Seq(Words)
  OBVIOUS
<1>2. Append(chain[1], w) \in Seq(Words) /\ Len(Append(chain[1], w)) = Len(chain[1]) + 1
  BY <1>1
<1>3. Put(chain, w) = [chain EXCEPT ![1] = Append(chain[1], w)]
  BY DEF Put
<1> QED
  BY <1>1, <1>2, <1>3

(* What RefsTyped says of the fields of references and labels.             *)
LEMMA RefFields ==
  ASSUME RefsTyped
  PROVE  /\ Len(label_refs) \in Nat /\ Len(labels) \in Nat
         /\ \A i \in 1 .. Len(label_refs) :
              /\ label_refs[i] \in LabelRefs
              /\ label_refs[i].inst_offset \in Nat
              /\ label_refs[i].label_id \in 1 .. Len(labels)
         /\ \A l \in 1 .. Len(labels) :
              labels[l] \in Labels /\ labels[l].offset \in Nat
<1>1. \A r \in LabelRefs : r.inst_offset \in Nat /\ r.label_id \in Nat \ {0}
  BY DEF LabelRefs
<1>2. \A l \in Labels : l.offset \in Nat
  BY DEF Labels
<1>3. \A i \in 1 .. Len(label_refs) : label_refs[i] \in LabelRefs
  BY DEF RefsTyped
<1>4. \A l \in 1 .. Len(labels) : labels[l] \in Labels
  BY DEF RefsTyped
<1> QED
  BY <1>1, <1>2, <1>3, <1>4 DEF RefsTyped

(* More labels and more code keep every reference in range.                *)
LEMMA RefsKept ==
  ASSUME RefsTyped, label_refs' = label_refs, labels' \in Seq(Labels),
         Len(labels') >= Len(labels), cur \in Nat, cur' \in {cur, cur + 1}
  PROVE  RefsTyped'
  BY RefFields DEF RefsTyped

(* A new reference to an existing label, at the instruction being emitted. *)
LEMMA RefsGrow ==
  ASSUME RefsTyped, NEW r \in LabelRefs, label_refs' = Append(label_refs, r),
         labels' \in Seq(Labels), Len(labels') >= Len(labels),
         cur \in Nat, cur' = cur + 1,
         r.inst_offset = cur, r.label_id <= Len(labels')
  PROVE  RefsTyped'
<1>1. /\ label_refs' \in Seq(LabelRefs)
      /\ Len(label_refs') = Len(label_refs) + 1
      /\ Len(label_refs) \in Nat
      /\ label_refs'[Len(label_refs) + 1] = r
      /\ \A i \in 1 .. Len(label_refs) : label_refs'[i] = label_refs[i]
  BY DEF RefsTyped
<1>2. ASSUME NEW i \in 1 .. Len(label_refs')
      PROVE  /\ label_refs'[i].inst_offset < cur'
             /\ label_refs'[i].label_id <= Len(labels')
  <2>1. CASE i = Len(label_refs) + 1
    BY <1>1, <2>1
  <2>2. CASE i \in 1 .. Len(label_refs)
    <3>1. label_refs[i].inst_offset < cur /\ label_refs[i].label_id <= Len(labels)
      BY <2>2 DEF RefsTyped
    <3> QED
      BY <1>1, <2>2, <3>1, RefFields
  <2> QED
    BY <1>1, <2>1, <2>2
<1> QED
  BY <1>1, <1>2 DEF RefsTyped

(* ag_emitter_init establishes the inductive invariant.                    *)
LEMMA TypeInit == Init => TypeInv
<1> SUFFICES ASSUME Init PROVE TypeInv
  OBVIOUS
<1> USE DEF Init
<1>1. ChainsTyped
  BY DEF ChainsTyped
<1>2. CountersTyped /\ RefsTyped /\ ImageTyped /\ HistoryTyped
  BY DEF CountersTyped, RefsTyped, ImageTyped, HistoryTyped
<1>3. Shape /\ NoLeak
  BY DEF Shape, NoLeak
<1> QED
  BY <1>1, <1>2, <1>3 DEF TypeInv, TypeOK

(* What emitting one code word does to the chains and the counters.        *)
LEMMA EmitOne ==
  ASSUME TypeInv, CanEmit, NEW w \in Words, emit4(w),
         UNCHANGED <<const_last, data_cur, code_words, ri, pc>>,
         live' = live + Grown(code_last)
  PROVE  ChainsTyped' /\ CountersTyped' /\ Shape' /\ NoLeak' /\ cur' = cur + 1
<1> USE DEF TypeInv, TypeOK
<1>1. /\ code_last \in Seq(Seq(Words)) /\ Len(code_last) >= 1
      /\ \A j \in 1 .. Len(code_last) : Len(code_last[j]) <= CODEBUFFER_SIZE
      /\ const_last \in Seq(Seq(Words))
  BY DEF ChainsTyped, Shape, CanEmit
<1>2. /\ code_last' \in Seq(Seq(Words))
      /\ Len(code_last') = Len(code_last) + Grown(code_last)
      /\ Len(code_last') >= 1
      /\ \A j \in 1 .. Len(code_last') : Len(code_last'[j]) <= CODEBUFFER_SIZE
      /\ Grown(code_last) \in {0, 1}
  BY <1>1, AppendBlock DEF emit4
<1>3. /\ const_last' = const_last /\ data_cur' = data_cur
      /\ pc = "emit" /\ pc' = "emit"
  BY DEF CanEmit
<1>4. Shape'
  BY <1>2, <1>3 DEF Shape
<1>5. live' = Len(code_last') + Len(const_last')
  <2>1. live = Len(code_last) + Len(const_last)
    BY <1>3 DEF NoLeak
  <2>2. Len(code_last) \in Nat /\ Len(const_last) \in Nat /\ Grown(code_last) \in Nat
    BY <1>1, <1>2
  <2> QED
    BY <1>2, <1>3, <2>1, <2>2
<1>6. NoLeak' /\ live' \in Nat
  BY SMTT(30), <1>1, <1>2, <1>3, <1>5 DEF NoLeak
<1> QED
  BY <1>1, <1>2, <1>3, <1>4, <1>6 DEF ChainsTyped, CountersTyped, emit4

(* Every word the emitters build is a word.                                *)
LEMMA WordTypes ==
  /\ \A x \in Insn : InsnWord(x) \in Words
  /\ \A d \in Int : BranchField(d) \in Nat /\ BranchWord(d) \in Words
  /\ \A r \in Reg : LdrWord(r) \in Words
  /\ \A v \in Imm : DataWord(v) \in Words
  /\ \A r \in Reg, v \in Imm : MovWord(r, v) \in Words
  /\ ZeroWord \in Words /\ Mangled \in Words
<1>1. \A d \in Int : BranchField(d) \in Nat
  BY EmitterAssumption DEF BranchField
<1> QED
  BY <1>1, EmitterAssumption DEF InsnWord, BranchWord, LdrWord, DataWord, MovWord, ZeroWord,
              Mangled, Word, Words

(* A fix-up leaves a word, whatever the distance.                          *)
LEMMA PatchTypes ==
  ASSUME NEW w \in Words, NEW d \in Int
  PROVE  PatchBranch(w, d) \in Words /\ PatchLdr(w, d) \in Words
<1>1. BranchField(d - 2) \in Int
  BY WordTypes
<1>2. (4 * (d - 2)) % (2 * LdrSpan) \in Nat
  BY EmitterAssumption
<1>3. OrOne(w.reg) \in Nat
  BY DEF OrOne, Words
<1>4. \A f \in Nat : f % LdrSpan \in Nat
  BY EmitterAssumption
<1>5. PatchBranch(w, d) \in Words
  BY <1>1, WordTypes DEF PatchBranch, Words
<1>6. PatchLdr(w, d) \in Words
  <2> DEFINE f == (4 * (d - 2)) % (2 * LdrSpan)
  <2>1. f % LdrSpan \in Int
    BY <1>2, <1>4
  <2>2. \A v \in Int, r \in Nat : [w EXCEPT !.val = v, !.reg = r] \in Words
    BY DEF Words
  <2>3. (IF f >= LdrSpan THEN OrOne(w.reg) ELSE w.reg) \in Nat
    BY <1>3 DEF Words
  <2>4. CASE w.op = "ldr"
    <3> HIDE DEF f
    <3>1. PatchLdr(w, d) =
            [w EXCEPT !.val = f % LdrSpan,
                      !.reg = IF f >= LdrSpan THEN OrOne(w.reg) ELSE w.reg]
      BY <2>4 DEF PatchLdr, Words, f
    <3> QED
      BY <2>1, <2>2, <2>3, <3>1
  <2>5. CASE w.op # "ldr"
    BY <2>5, WordTypes DEF PatchLdr
  <2> QED
    BY <2>4, <2>5
<1> QED
  BY <1>5, <1>6

(* A word copied from a chain is a word.                                   *)
LEMMA FetchType ==
  ASSUME NEW chain \in Seq(Seq(Words)), NEW base, NEW p,
         Copied(chain, base, p) # {}
  PROVE  Fetch(chain, base, p) \in Words
<1> DEFINE c == CHOOSE c \in Copied(chain, base, p) : TRUE
<1>1. c \in Cells(chain)
  BY DEF Copied
<1>2. c[1] \in 1 .. Len(chain) /\ c[2] \in 1 .. Len(chain[c[1]])
  BY <1>1 DEF Cells
<1> QED
  BY <1>2 DEF Fetch

(* Every address of the image gets a word.                                 *)
LEMMA LayoutType ==
  ASSUME TypeOK, NEW n, NEW p
  PROVE  Layout(n, p) \in Words
  BY FetchType, WordTypes DEF Layout, TypeOK, ChainsTyped

(* A chain has finitely many cells, so their count is a number.            *)
LEMMA CellsFinite ==
  ASSUME NEW chain \in Seq(Seq(Words))
  PROVE  IsFiniteSet(Cells(chain)) /\ block_list_count(chain) \in Nat
<1> DEFINE S == (1 .. Len(chain)) \X (1 .. CODEBUFFER_SIZE + Slack)
<1>1. IsFiniteSet(S)
  <2>1. Len(chain) \in Int /\ CODEBUFFER_SIZE + Slack \in Int
    OBVIOUS
  <2>2. IsFiniteSet(1 .. Len(chain)) /\ IsFiniteSet(1 .. CODEBUFFER_SIZE + Slack)
    BY <2>1, FS_Interval
  <2> QED
    BY <2>2, FS_Product
<1>2. IsFiniteSet(Cells(chain))
  BY <1>1, FS_Subset DEF Cells
<1> QED
  BY <1>2, FS_CardinalityType DEF block_list_count

(* Every entry point, and every round of the fix-up loop, preserves the    *)
(* inductive invariant.                                                    *)
LEMMA TypeStep == TypeInv /\ [Next]_vars => TypeInv'
<1> SUFFICES ASSUME TypeInv, [Next]_vars PROVE TypeInv'
  OBVIOUS
<1> USE DEF TypeInv, TypeOK
<1>1. ASSUME NEW x \in Insn, EmitInsn(x) PROVE TypeInv'
  <2> USE <1>1 DEF EmitInsn
  <2>1. ChainsTyped' /\ CountersTyped' /\ Shape' /\ NoLeak' /\ cur' = cur + 1
    BY WordTypes, EmitOne
  <2>2. P!Plain(x) \in Requests
    BY DEF Requests, P!Plain, P!Request, P!None
  <2>3. HistoryTyped'
    BY <2>1, <2>2 DEF HistoryTyped, CanEmit, CountersTyped
  <2>4. RefsTyped' /\ ImageTyped'
    BY <2>1, RefsKept DEF ImageTyped, CountersTyped, RefsTyped
  <2> QED
    BY <2>1, <2>3, <2>4
<1>2. ASSUME NEW l \in Label, EmitBranch(l) PROVE TypeInv'
  <2> USE <1>2 DEF EmitBranch
  <2>1. l \in 1 .. Len(labels) /\ labels[l].offset \in Nat
    BY RefFields DEF ClientLabels
  <2>2. PICK d \in Int : emit4(BranchWord(d))
    BY <2>1 DEF CountersTyped
  <2>3. ChainsTyped' /\ CountersTyped' /\ Shape' /\ NoLeak' /\ cur' = cur + 1
    BY <2>2, WordTypes, EmitOne
  <2>4. \A v \in Int : P!BranchTo(l, v) \in Requests
    BY <2>1 DEF Requests, P!BranchTo, P!Request, P!None, RefsTyped
  <2>5. PICK v \in Int : prog' = Append(prog, P!BranchTo(l, v))
    BY <2>1 DEF P!None
  <2>6. HistoryTyped'
    BY <2>3, <2>4, <2>5 DEF HistoryTyped, CanEmit, CountersTyped
  <2>7. LabelRef("BRANCH", cur, l) \in LabelRefs
    BY <2>1 DEF LabelRef, LabelRefs, CountersTyped
  <2>8. CASE label_refs' = label_refs
    <3>1. RefsTyped'
      BY <2>3, <2>8, RefsKept DEF RefsTyped, CountersTyped
    <3> QED
      BY <2>3, <2>6, <3>1 DEF ImageTyped
  <2>9. CASE label_refs' = Append(label_refs, LabelRef("BRANCH", cur, l))
    <3>1. LabelRef("BRANCH", cur, l).inst_offset = cur
          /\ LabelRef("BRANCH", cur, l).label_id = l
      BY DEF LabelRef
    <3>2. RefsTyped'
      BY SMTT(30), <2>1, <2>3, <2>7, <2>9, <3>1, RefsGrow DEF RefsTyped, CountersTyped
    <3> QED
      BY <2>3, <2>6, <3>2 DEF ImageTyped
  <2> QED
    BY <2>8, <2>9
<1>3. ASSUME NEW rd \in Reg, NEW v \in Imm, MovImm(rd, v) PROVE TypeInv'
  <2> USE <1>3 DEF MovImm
  <2>1. ChainsTyped' /\ CountersTyped' /\ Shape' /\ NoLeak' /\ cur' = cur + 1
    BY WordTypes, EmitOne
  <2>2. P!Load(rd, v, P!None) \in Requests
    BY EmitterAssumption DEF Requests, P!Load, P!Request, P!None
  <2>3. HistoryTyped'
    BY <2>1, <2>2 DEF HistoryTyped, CanEmit, CountersTyped
  <2>4. RefsTyped' /\ ImageTyped'
    BY <2>1, RefsKept DEF ImageTyped, CountersTyped, RefsTyped
  <2> QED
    BY <2>1, <2>3, <2>4
<1>4. ASSUME NEW rd \in Reg, NEW v \in Imm, LdrImm(rd, v) PROVE TypeInv'
  <2> USE <1>4 DEF LdrImm
  <2>0. pc = "emit" /\ pc' = "emit"
    BY DEF CanEmit
  <2>1. PICK loaded : /\ loaded = Put(Room(code_last), LdrWord(rd))
                      /\ code_last' = GrowConst(loaded)
    OBVIOUS
  <2>2. /\ loaded \in Seq(Seq(Words)) /\ Len(loaded) = Len(code_last) + Grown(code_last)
        /\ Len(loaded) >= 1
        /\ \A j \in 1 .. Len(loaded) : Len(loaded[j]) <= CODEBUFFER_SIZE
        /\ Grown(code_last) \in {0, 1}
    <3>1. LdrWord(rd) \in Words
      BY WordTypes
    <3>2. /\ code_last \in Seq(Seq(Words)) /\ Len(code_last) >= 1
          /\ \A j \in 1 .. Len(code_last) : Len(code_last[j]) <= CODEBUFFER_SIZE
      BY <2>0 DEF ChainsTyped, Shape
    <3> QED
      BY <2>1, <3>1, <3>2, AppendBlock
  <2>3. /\ code_last' \in Seq(Seq(Words))
        /\ Len(code_last') = Len(loaded) + Grown(const_last)
        /\ Len(code_last') >= 1
        /\ \A j \in 1 .. Len(code_last') : Len(code_last'[j]) <= CODEBUFFER_SIZE
        /\ Grown(const_last) \in {0, 1}
    <3>1. CASE Full(const_last)
      BY SMTT(30), <2>1, <2>2, <3>1 DEF GrowConst, Grown, alloc_1block
    <3>2. CASE ~Full(const_last)
      BY <2>1, <2>2, <3>2 DEF GrowConst, Grown
    <3> QED
      BY <3>1, <3>2
  <2>4. /\ const_last' \in Seq(Seq(Words)) /\ Len(const_last') = 1
        /\ Len(const_last'[1]) = data_cur' /\ data_cur' = data_cur + 1
    <3>1. DataWord(v) \in Words
      BY WordTypes
    <3>2. /\ const_last \in Seq(Seq(Words)) /\ Len(const_last) = 1
          /\ Len(const_last[1]) = data_cur
      BY <2>0 DEF ChainsTyped, Shape
    <3>3. const_last' = Put(const_last, DataWord(v)) /\ data_cur' = data_cur + 1
      BY DEF emit4_data
    <3> QED
      BY <3>1, <3>2, <3>3, PutInOnlyBlock
  <2>5. Shape'
    BY <2>0, <2>3, <2>4 DEF Shape, CountersTyped
  <2>6. live' = Len(code_last') + Len(const_last')
    <3>1. live = Len(code_last) + 1
      BY <2>0 DEF NoLeak, Shape
    <3>2. Len(code_last) \in Nat /\ Len(loaded) \in Nat /\ Len(code_last') \in Nat
      BY <2>2, <2>3 DEF ChainsTyped
    <3>3. live' = live + Grown(code_last) + Grown(const_last)
      OBVIOUS
    <3>4. Grown(code_last) \in Nat /\ Grown(const_last) \in Nat
      BY GrownType
    <3> HIDE <1>4
    <3>5. Len(code_last') = Len(code_last) + Grown(code_last) + Grown(const_last)
      BY <2>2, <2>3, <3>2, <3>4
    <3> QED
      BY SMTT(30), <2>4, <3>1, <3>2, <3>3, <3>4, <3>5
  <2>7. NoLeak' /\ CountersTyped' /\ ChainsTyped' /\ cur' = cur + 1
    BY SMTT(30), <2>0, <2>3, <2>4, <2>6 DEF NoLeak, CountersTyped, ChainsTyped
  <2>8. P!Load(rd, v, data_cur) \in Requests
    BY EmitterAssumption DEF Requests, P!Load, P!Request, CountersTyped
  <2>9. HistoryTyped'
    BY <2>0, <2>7, <2>8 DEF HistoryTyped, CountersTyped
  <2>10. RefsTyped'
    <3>1. LabelRec("EMITTED_DATA", data_cur) \in Labels
      BY DEF LabelRec, LabelStates, Labels, CountersTyped
    <3>2. labels' \in Seq(Labels) /\ Len(labels') = Len(labels) + 1
          /\ Len(labels) \in Nat
      BY <3>1 DEF RefsTyped
    <3>3. LabelRef("LDR", cur, Len(labels) + 1) \in LabelRefs
      BY <3>2 DEF LabelRef, LabelRefs, CountersTyped
    <3>4. LabelRef("LDR", cur, Len(labels) + 1).inst_offset = cur
          /\ LabelRef("LDR", cur, Len(labels) + 1).label_id = Len(labels) + 1
      BY DEF LabelRef
    <3> QED
      BY <2>7, <3>2, <3>3, <3>4, RefsGrow DEF CountersTyped
  <2> QED
    BY <2>5, <2>7, <2>9, <2>10 DEF ImageTyped
<1>5. ASSUME AllocLabel \/ EmitNewLabel PROVE TypeInv'
  <2>1. PICK lab \in Labels : labels' = Append(labels, lab)
    BY <1>5, EmitterAssumption
    DEF AllocLabel, EmitNewLabel, LabelRec, LabelStates, Labels, CountersTyped
  <2>2. UNCHANGED <<code_last, const_last, cur, data_cur, label_refs, image,
                    code_words, ri, pc, live, prog>>
    BY <1>5 DEF AllocLabel, EmitNewLabel
  <2>3. RefsTyped'
    <3>1. labels' \in Seq(Labels) /\ Len(labels') = Len(labels) + 1
      BY <2>1 DEF RefsTyped
    <3> QED
      BY <2>2, <3>1, RefsKept, RefFields DEF CountersTyped
  <2> QED
    BY <2>2, <2>3 DEF ChainsTyped, CountersTyped, ImageTyped, HistoryTyped,
                      Shape, NoLeak
<1>6. ASSUME NEW l \in Label, EmitLabel(l) \/ EmitDataLabel(l) PROVE TypeInv'
  <2>0. l \in 1 .. Len(labels)
    BY <1>6 DEF EmitLabel, EmitDataLabel, ClientLabels
  <2>1. PICK lab \in Labels : labels' = [labels EXCEPT ![l] = lab]
    BY <1>6 DEF EmitLabel, EmitDataLabel, LabelRec, LabelStates, Labels,
                CountersTyped
  <2>2. UNCHANGED <<code_last, const_last, cur, data_cur, label_refs, image,
                    code_words, ri, pc, live, prog>>
    BY <1>6 DEF EmitLabel, EmitDataLabel
  <2>3. labels' \in Seq(Labels) /\ Len(labels') = Len(labels)
    BY <2>1, <2>0 DEF RefsTyped
  <2>4. RefsTyped'
    BY <2>2, <2>3, RefsKept, RefFields DEF CountersTyped
  <2> QED
    BY <2>2, <2>4 DEF ChainsTyped, CountersTyped, ImageTyped, HistoryTyped,
                      Shape, NoLeak
<1>7. ASSUME AllocCode PROVE TypeInv'
  <2> USE <1>7 DEF AllocCode
  <2>1. block_list_count(code_last) \in Nat /\ block_list_count(const_last) \in Nat
    BY CellsFinite DEF ChainsTyped
  <2>2. ImageTyped'
    BY LayoutType DEF ImageTyped
  <2>3. live' = 0
    BY DEF NoLeak, free_chain, ChainsTyped
  <2>4. ChainsTyped' /\ CountersTyped'
    BY <2>1, <2>3 DEF ChainsTyped, CountersTyped
  <2>5. RefsTyped' /\ HistoryTyped'
    BY DEF RefsTyped, HistoryTyped
  <2>6. Shape' /\ NoLeak'
    BY <2>3 DEF Shape, NoLeak
  <2> QED
    BY <2>2, <2>4, <2>5, <2>6
<1>8. ASSUME ResolveRef PROVE TypeInv'
  <2> USE <1>8 DEF ResolveRef
  <2>1. ri \in 1 .. Len(label_refs)
    BY RefFields DEF Shape, CountersTyped
  <2>2. LabelPos(label_refs[ri].label_id) - label_refs[ri].inst_offset \in Int
    BY SMTT(30), <2>1, RefFields DEF LabelPos, CountersTyped
  <2>3. ImageTyped'
    BY <2>2, PatchTypes DEF ImageTyped
  <2>4. ChainsTyped' /\ CountersTyped' /\ RefsTyped' /\ HistoryTyped'
    BY DEF ChainsTyped, CountersTyped, RefsTyped, HistoryTyped
  <2>5. Shape' /\ NoLeak'
    BY <2>1 DEF Shape, NoLeak, CountersTyped, RefsTyped
  <2> QED
    BY <2>3, <2>4, <2>5
<1>9. ASSUME Fini PROVE TypeInv'
  <2> USE <1>9 DEF Fini
  <2>1. live' = 0
    BY DEF NoLeak, free_chain, ChainsTyped, Shape
  <2>2. ChainsTyped' /\ CountersTyped'
    BY <2>1 DEF ChainsTyped, CountersTyped
  <2>3. RefsTyped' /\ ImageTyped' /\ HistoryTyped'
    BY DEF RefsTyped, ImageTyped, HistoryTyped
  <2>4. Shape' /\ NoLeak'
    BY <2>1 DEF Shape, NoLeak
  <2> QED
    BY <2>2, <2>3, <2>4
<1>10. ASSUME Reinit PROVE TypeInv'
  <2> USE <1>10 DEF Reinit
  <2>1. live' = 2
    BY DEF NoLeak
  <2>2. ChainsTyped' /\ CountersTyped'
    BY <2>1 DEF ChainsTyped, CountersTyped
  <2>3. RefsTyped' /\ ImageTyped' /\ HistoryTyped'
    BY DEF RefsTyped, ImageTyped, HistoryTyped, Shape
  <2>4. Shape' /\ NoLeak'
    BY <2>1 DEF Shape, NoLeak
  <2> QED
    BY <2>2, <2>3, <2>4
<1>11. CASE UNCHANGED vars
  BY <1>11 DEF vars, ChainsTyped, CountersTyped, RefsTyped, ImageTyped,
               HistoryTyped, Shape, NoLeak
<1> QED
  BY <1>1, <1>2, <1>3, <1>4, <1>5, <1>6, <1>7, <1>8, <1>9, <1>10, <1>11 DEF Next

(* Every reachable state is well-formed (TypeOK).                          *)
THEOREM TypeCorrect == Spec => []TypeOK
<1>1. TypeInv => TypeOK
  BY DEF TypeInv
<1> QED
  BY <1>1, TypeInit, TypeStep, PTL DEF Spec

(* Every block malloc'ed is in a chain, and none once ag_alloc_code or     *)
(* ag_emitter_fini freed the chains: no leak and no double free.           *)
THEOREM BlocksFreedOnce == Spec => []NoLeak
<1>1. TypeInv => NoLeak
  BY DEF TypeInv
<1> QED
  BY <1>1, TypeInit, TypeStep, PTL DEF Spec

(***************************************************************************)
(* The counters: every word written occupies one new cell.                 *)
(***************************************************************************)

(* A new block has no cell yet.                                            *)
LEMMA CellsOfNewBlock ==
  ASSUME NEW chain \in Seq(Seq(Words))
  PROVE  Cells(alloc_1block(chain)) = Cells(chain)
<1> DEFINE c == alloc_1block(chain)
<1>1. /\ Len(c) = Len(chain) + 1 /\ Len(chain) \in Nat
      /\ c[Len(chain) + 1] = <<>>
      /\ \A j \in 1 .. Len(chain) : c[j] = chain[j]
  BY DEF alloc_1block
<1>2. ASSUME NEW j \in 1 .. Len(chain) + 1, NEW k \in 1 .. CODEBUFFER_SIZE + Slack
      PROVE  k <= Len(c[j]) <=> (j \in 1 .. Len(chain) /\ k <= Len(chain[j]))
  BY <1>1
<1> HIDE DEF c
<1> QED
  BY <1>1, <1>2 DEF Cells, c

(* A word written to the last block is one more cell.                      *)
LEMMA CellsOfPut ==
  ASSUME NEW chain \in Seq(Seq(Words)), Len(chain) >= 1, NEW w \in Words,
         Len(chain[Len(chain)]) < CODEBUFFER_SIZE + Slack
  PROVE  block_list_count(Put(chain, w)) = block_list_count(chain) + 1
<1> DEFINE n == Len(chain)
           m == Len(chain[Len(chain)]) + 1
           c == Put(chain, w)
<1>1. n \in 1 .. Len(chain) /\ m \in 1 .. CODEBUFFER_SIZE + Slack
  OBVIOUS
<1>2. Len(c) = n /\ Len(c[n]) = m /\ \A j \in 1 .. n : j # n => c[j] = chain[j]
  BY DEF Put
<1>3. \A j \in 1 .. n : Len(chain[j]) \in Nat
  OBVIOUS
<1> HIDE DEF c
<1>4. ASSUME NEW j \in 1 .. n, NEW k \in 1 .. CODEBUFFER_SIZE + Slack
      PROVE  k <= Len(c[j]) <=> k <= Len(chain[j]) \/ (j = n /\ k = m)
  BY <1>1, <1>2, <1>3
<1>5. Cells(c) = Cells(chain) \cup {<<n, m>>}
  BY <1>1, <1>2, <1>4 DEF Cells
<1>6. <<n, m>> \notin Cells(chain)
  BY <1>1, <1>3 DEF Cells
<1> QED
  BY <1>5, <1>6, CellsFinite, FS_AddElement DEF block_list_count, c

(* So it is if a new block was needed.                                     *)
LEMMA CountPut ==
  ASSUME NEW chain \in Seq(Seq(Words)), Len(chain) >= 1, NEW w \in Words,
         \A j \in 1 .. Len(chain) : Len(chain[j]) <= CODEBUFFER_SIZE
  PROVE  block_list_count(Put(Room(chain), w)) = block_list_count(chain) + 1
<1>1. CASE Full(chain)
  <2> DEFINE r == alloc_1block(chain)
  <2>1. /\ r \in Seq(Seq(Words)) /\ Len(r) >= 1
        /\ Len(r[Len(r)]) < CODEBUFFER_SIZE + Slack
    BY DEF alloc_1block
  <2>2. block_list_count(r) = block_list_count(chain)
    BY CellsOfNewBlock DEF block_list_count
  <2> HIDE DEF r
  <2>3. block_list_count(Put(r, w)) = block_list_count(r) + 1
    BY <2>1, CellsOfPut
  <2> QED
    BY <1>1, <2>2, <2>3 DEF Room, r
<1>2. CASE ~Full(chain)
  <2>1. Len(chain[Len(chain)]) < CODEBUFFER_SIZE + Slack
    BY <1>2 DEF Full
  <2> QED
    BY <1>2, <2>1, CellsOfPut DEF Room
<1> QED
  BY <1>1, <1>2

(* The chain ag_emitter_init makes counts nothing.                         *)
LEMMA CountEmpty == block_list_count(<<<<>>>>) = 0
<1>1. Cells(<<<<>>>>) = {}
  BY DEF Cells
<1> QED
  BY <1>1, FS_EmptySet DEF block_list_count

(* emit4 adds one to the count of the code chain.                          *)
LEMMA CountEmit ==
  ASSUME TypeInv, CanEmit, NEW w \in Words
  PROVE  block_list_count(Put(Room(code_last), w)) = block_list_count(code_last) + 1
  BY CountPut DEF TypeInv, TypeOK, ChainsTyped, Shape, CanEmit

(* The counters agree at first.                                            *)
LEMMA CountersInit == Init => CountersMatchBlocks
  BY CountEmpty DEF Init, CountersMatchBlocks

(* No step makes the counters and the blocks disagree.                     *)
LEMMA CountersStep ==
  TypeInv /\ CountersMatchBlocks /\ [Next]_vars => CountersMatchBlocks'
<1> SUFFICES ASSUME TypeInv, CountersMatchBlocks, [Next]_vars
             PROVE  CountersMatchBlocks'
  OBVIOUS
<1>0. cur \in Nat /\ data_cur \in Nat
  BY DEF TypeInv, TypeOK, CountersTyped
<1>1. ASSUME NEW x \in Insn, EmitInsn(x) PROVE CountersMatchBlocks'
  BY <1>1, CountEmit, WordTypes DEF EmitInsn, emit4, CountersMatchBlocks, CanEmit
<1>2. ASSUME NEW l \in Label, EmitBranch(l) PROVE CountersMatchBlocks'
  <2>1. labels[l].offset \in Nat
    BY <1>2, RefFields DEF EmitBranch, ClientLabels, TypeInv, TypeOK
  <2>2. PICK d \in Int : emit4(BranchWord(d))
    BY <1>0, <1>2, <2>1 DEF EmitBranch
  <2> QED
    BY <1>2, <2>2, CountEmit, WordTypes
    DEF EmitBranch, emit4, CountersMatchBlocks, CanEmit
<1>3. ASSUME NEW rd \in Reg, NEW v \in Imm, MovImm(rd, v)
      PROVE  CountersMatchBlocks'
  BY <1>3, CountEmit, WordTypes DEF MovImm, emit4, CountersMatchBlocks, CanEmit
<1>4. ASSUME NEW rd \in Reg, NEW v \in Imm, LdrImm(rd, v)
      PROVE  CountersMatchBlocks'
  <2> DEFINE loaded == Put(Room(code_last), LdrWord(rd))
  <2>1. pc = "emit" /\ pc' = "emit" /\ cur' = cur + 1 /\ data_cur' = data_cur + 1
    BY <1>4 DEF LdrImm, CanEmit, emit4_data
  <2>2. code_last' = GrowConst(loaded) /\ const_last' = Put(const_last, DataWord(v))
    BY <1>4 DEF LdrImm, emit4_data
  <2>3. loaded \in Seq(Seq(Words)) /\ block_list_count(loaded) = cur + 1
    <3>1. LdrWord(rd) \in Words /\ CanEmit
      BY <1>4, WordTypes DEF LdrImm
    <3>2. loaded \in Seq(Seq(Words))
      BY <2>1, <3>1, AppendBlock DEF TypeInv, TypeOK, ChainsTyped, Shape
    <3> QED
      BY <2>1, <3>1, <3>2, CountEmit DEF CountersMatchBlocks
  <2>4. block_list_count(code_last') = cur'
    BY <2>1, <2>2, <2>3, CellsOfNewBlock DEF GrowConst, block_list_count
  <2>5. block_list_count(const_last') = data_cur'
    <3>1. /\ const_last \in Seq(Seq(Words)) /\ Len(const_last) = 1
          /\ Len(const_last[1]) = data_cur
      BY <2>1 DEF TypeInv, TypeOK, ChainsTyped, Shape
    <3>2. data_cur < CODEBUFFER_SIZE + Slack
      BY <1>4 DEF LdrImm
    <3>3. block_list_count(Put(const_last, DataWord(v)))
            = block_list_count(const_last) + 1
      <4>1. Len(const_last) >= 1 /\ Len(const_last[Len(const_last)]) < CODEBUFFER_SIZE + Slack
        BY <3>1, <3>2
      <4>2. DataWord(v) \in Words
        BY WordTypes
      <4> QED
        BY <3>1, <4>1, <4>2, CellsOfPut
    <3> QED
      BY <2>1, <2>2, <3>3 DEF CountersMatchBlocks
  <2> QED
    BY <2>1, <2>4, <2>5 DEF CountersMatchBlocks
<1>5. ASSUME AllocLabel \/ EmitNewLabel PROVE CountersMatchBlocks'
  BY <1>5 DEF AllocLabel, EmitNewLabel, CountersMatchBlocks
<1>6. ASSUME NEW l \in Label, EmitLabel(l) \/ EmitDataLabel(l)
      PROVE  CountersMatchBlocks'
  BY <1>6 DEF EmitLabel, EmitDataLabel, CountersMatchBlocks
<1>7. ASSUME AllocCode PROVE CountersMatchBlocks'
  BY <1>7 DEF AllocCode, CountersMatchBlocks
<1>8. ASSUME ResolveRef PROVE CountersMatchBlocks'
  BY <1>8 DEF ResolveRef, CountersMatchBlocks
<1>9. ASSUME Fini PROVE CountersMatchBlocks'
  BY <1>9 DEF Fini, CountersMatchBlocks
<1>10. ASSUME Reinit PROVE CountersMatchBlocks'
  BY <1>10, CountEmpty DEF Reinit, CountersMatchBlocks
<1>11. CASE UNCHANGED vars
  BY <1>11 DEF vars, CountersMatchBlocks
<1> QED
  BY <1>1, <1>2, <1>3, <1>4, <1>5, <1>6, <1>7, <1>8, <1>9, <1>10, <1>11 DEF Next

(* What ag_alloc_code counts in the blocks is what the emitter counted     *)
(* while emitting, for any program, also one that overflowed the constant  *)
(* block: the size of the image and the place of the constants.            *)
THEOREM CountersCorrect == Spec => []CountersMatchBlocks
  BY TypeInit, TypeStep, CountersInit, CountersStep, PTL DEF Spec

(***************************************************************************)
(* The code blocks hold the program, in order and without a gap.           *)
(***************************************************************************)

(* StreamInBlocks of a chain of code blocks.                *)
Stream(chain) ==
  /\ cur = (Len(chain) - 1) * CODEBUFFER_SIZE + Len(chain[Len(chain)])
  /\ \A j \in 1 .. Len(chain) :
       /\ j < Len(chain) => Len(chain[j]) = CODEBUFFER_SIZE
       /\ \A k \in 1 .. Len(chain[j]) :
            chain[j][k] = FirstWord((j - 1) * CODEBUFFER_SIZE + k)

(* A word's number in the stream, from its block and its place in it, is   *)
(* within the words before the end of block n at place m.                  *)
LEMMA CellNumber ==
  ASSUME NEW n \in Nat \ {0}, NEW m \in Nat,
         NEW j \in 1 .. n, NEW k \in Nat \ {0},
         j < n => k <= CODEBUFFER_SIZE, j = n => k <= m
  PROVE  (j - 1) * CODEBUFFER_SIZE + k \in
           1 .. (n - 1) * CODEBUFFER_SIZE + m
<1>1. (j - 1) * CODEBUFFER_SIZE \in Nat /\ (n - 1) * CODEBUFFER_SIZE \in Nat
  OBVIOUS
<1>2. CASE j = n
  BY <1>1, <1>2
<1>3. CASE j < n
  <2>1. n - 1 = (j - 1) + (n - j) /\ n - j \in Nat \ {0}
    BY <1>3
  <2>2. (n - j) * CODEBUFFER_SIZE >= CODEBUFFER_SIZE
    BY <2>1
  <2>3. (n - 1) * CODEBUFFER_SIZE = (j - 1) * CODEBUFFER_SIZE + (n - j) * CODEBUFFER_SIZE
    BY <2>1
  <2> QED
    BY <1>1, <1>3, <2>2, <2>3
<1> QED
  BY <1>2, <1>3

(* Requests already made keep their words.                                 *)
LEMMA FirstWordKept ==
  ASSUME prog \in Seq(Requests), NEW r, prog' = Append(prog, r),
         NEW i \in 1 .. Len(prog)
  PROVE  FirstWord(i)' = FirstWord(i)
<1>1. prog'[i] = prog[i]
  OBVIOUS
<1> QED
  BY <1>1 DEF FirstWord

(* The product below is a number (a step of its own: it is not linear).    *)
LEMMA PredTimes == \A a \in Nat \ {0}, b \in Nat : (a - 1) * b \in Nat
  OBVIOUS

(* Appending moves no word.                                                *)
LEMMA AppendKeeps ==
  ASSUME NEW s \in Seq(Words), NEW w \in Words, NEW k \in 1 .. Len(s)
  PROVE  Append(s, w)[k] = s[k]
  OBVIOUS

(* Emitting the word of the new request keeps the stream in the blocks,    *)
(* with or without a new block.                                            *)
LEMMA StreamEmit ==
  ASSUME TypeInv, pc = "emit", Stream(code_last),
         NEW w \in Words, NEW r, prog' = Append(prog, r), cur' = cur + 1,
         NEW i, i = cur + 1, FirstWord(i)' = w, NEW c, c = Put(Room(code_last), w)
  PROVE  Stream(c)'
<1> DEFINE n == Len(code_last)
           m == Len(code_last[n])
           B == CODEBUFFER_SIZE
<1>1. /\ code_last \in Seq(Seq(Words)) /\ n \in Nat \ {0}
      /\ code_last[n] \in Seq(Words) /\ m \in Nat /\ cur \in Nat
      /\ \A j \in 1 .. n : Len(code_last[j]) \in Nat
      /\ prog \in Seq(Requests) /\ Len(prog) = cur
  BY DEF TypeInv, TypeOK, ChainsTyped, Shape, CountersTyped, HistoryTyped
<1>2. cur = (n - 1) * B + m
  BY DEF Stream
<1>0. (n - 1) * B \in Nat /\ B \in Nat
  BY <1>1, PredTimes
<1>3. ASSUME NEW j \in 1 .. n, NEW k \in 1 .. Len(code_last[j])
      PROVE  code_last[j][k] = FirstWord((j - 1) * B + k)'
  <2>1. j < n => k <= B
    BY <1>1 DEF Stream
  <2>2. k \in Nat \ {0} /\ (j = n => k <= m)
    BY <1>1
  <2>3. (j - 1) * B + k \in 1 .. Len(prog)
    BY <1>1, <1>2, <2>1, <2>2, CellNumber
  <2>4. FirstWord((j - 1) * B + k)' = FirstWord((j - 1) * B + k)
    BY <1>1, <2>3, FirstWordKept
  <2>5. code_last[j][k] = FirstWord((j - 1) * B + k)
    BY DEF Stream
  <2> QED
    BY <2>4, <2>5
<1>4. CASE Full(code_last)
  <2>1. /\ Len(c) = n + 1 /\ c[n + 1] = <<w>>
        /\ \A j \in 1 .. n : c[j] = code_last[j]
    <3> DEFINE d == alloc_1block(code_last)
    <3>1. /\ d \in Seq(Seq(Words)) /\ Len(d) = n + 1 /\ d[n + 1] = <<>>
          /\ \A j \in 1 .. n : d[j] = code_last[j]
      BY <1>1 DEF alloc_1block
    <3>2. c = Put(d, w)
      BY <1>4 DEF Room
    <3> HIDE DEF d
    <3>3. c = [d EXCEPT ![n + 1] = Append(d[n + 1], w)]
      BY <3>1, <3>2 DEF Put
    <3>4. Append(d[n + 1], w) = <<w>>
      BY <3>1
    <3> QED
      <4>1. n + 1 \in 1 .. Len(d) /\ Len(c) = Len(d)
        BY <1>1, <3>1, <3>3
      <4>2. c[n + 1] = <<w>>
        BY <3>1, <3>3, <3>4, <4>1
      <4>3. \A j \in 1 .. n : c[j] = d[j]
        BY <1>1, <3>1, <3>3
      <4> QED
        BY <3>1, <4>1, <4>2, <4>3
  <2>2. m = B
    BY <1>4 DEF Full
  <2>3. cur = n * B
    BY <1>1, <1>2, <2>2
  <2>4. cur' = (Len(c) - 1) * B + Len(c[Len(c)])
    BY <1>1, <2>1, <2>3
  <2>5. \A j \in 1 .. Len(c) : j < Len(c) => Len(c[j]) = B
    <3>1. \A j \in 1 .. n : Len(code_last[j]) = B
      BY SMTT(30), <1>1, <2>2 DEF Stream
    <3>2. ASSUME NEW j \in 1 .. Len(c), j < Len(c) PROVE Len(c[j]) = B
      <4>1. j \in 1 .. n
        BY <1>1, <2>1, <3>2
      <4>2. c[j] = code_last[j]
        BY <2>1, <4>1
      <4> QED
        BY <3>1, <4>1, <4>2
    <3> QED
      BY <3>2
  <2>6. ASSUME NEW j \in 1 .. Len(c), NEW k \in 1 .. Len(c[j])
        PROVE  c[j][k] = FirstWord((j - 1) * B + k)'
    <3>1. CASE j \in 1 .. n
      BY <1>3, <2>1, <3>1
    <3>2. CASE j = n + 1
      <4>1. k = 1 /\ c[j][k] = w
        <5>1. c[j] = <<w>>
          BY <2>1, <3>2
        <5> QED
          BY <5>1
      <4>2. (j - 1) * B + k = i
        BY <1>1, <2>3, <3>2, <4>1
      <4> QED
        BY <4>1, <4>2
    <3> QED
      BY <1>1, <2>1, <3>1, <3>2
  <2> QED
    BY <2>4, <2>5, <2>6 DEF Stream
<1>5. CASE ~Full(code_last)
  <2>1. c = [code_last EXCEPT ![n] = Append(code_last[n], w)]
    BY <1>5 DEF Put, Room
  <2>2. /\ Len(c) = n /\ c[n] = Append(code_last[n], w) /\ Len(c[n]) = m + 1
        /\ \A j \in 1 .. n : j # n => c[j] = code_last[j]
    BY <1>1, <2>1
  <2>3. cur' = (Len(c) - 1) * B + Len(c[Len(c)])
    <3>1. Len(c[Len(c)]) = m + 1 /\ Len(c) - 1 = n - 1
      BY <2>2
    <3> HIDE DEF n, m, B
    <3> QED
      <4>1. (Len(c) - 1) * B = (n - 1) * B
        BY <3>1
      <4>2. (n - 1) * B + (m + 1) = (n - 1) * B + m + 1
        BY <1>0, <1>1
      <4> QED
        BY <1>2, <3>1, <4>1, <4>2
  <2>4. \A j \in 1 .. Len(c) : j < Len(c) => Len(c[j]) = B
    BY <1>1, <2>2 DEF Stream
  <2>5. ASSUME NEW j \in 1 .. Len(c), NEW k \in 1 .. Len(c[j])
        PROVE  c[j][k] = FirstWord((j - 1) * B + k)'
    <3>1. CASE j # n \/ k # m + 1
      <4>1. k \in 1 .. Len(code_last[j]) /\ c[j][k] = code_last[j][k]
        <5>1. CASE j = n
          <6>1. k \in 1 .. m + 1 /\ k # m + 1
            BY <2>2, <3>1, <5>1
          <6> QED
            <7>1. Append(code_last[n], w)[k] = code_last[n][k] /\ k \in 1 .. m
              <8>1. m \in Nat /\ k \in 1 .. m
                <9> HIDE DEF n, m, B
                <9> QED
                  BY <1>1, <6>1
              <8> QED
                BY <1>1, <8>1, AppendKeeps
            <7> QED
              BY <2>2, <5>1, <7>1
        <5>2. CASE j # n
          <6>1. c[j] = code_last[j]
            BY <2>2, <5>2
          <6> QED
            BY <6>1
        <5> QED
          BY <5>1, <5>2
      <4> QED
        BY <1>3, <2>2, <4>1
    <3>2. CASE j = n /\ k = m + 1
      <4>1. c[j][k] = w
        BY <1>1, <2>2, <3>2
      <4>2. (j - 1) * B + k = i
        <5> HIDE DEF n, m, B
        <5> QED
          BY <1>0, <1>1, <1>2, <3>2
      <4> QED
        BY <4>1, <4>2
    <3> QED
      BY <3>1, <3>2
  <2> QED
    BY <2>3, <2>4, <2>5 DEF Stream
<1> QED
  BY <1>4, <1>5

(* The word first emitted for a request just made is the one emitted.      *)
LEMMA FirstWordNew ==
  ASSUME prog \in Seq(Requests), NEW r, prog' = Append(prog, r),
         NEW i, i = Len(prog) + 1
  PROVE  /\ \A x : r = P!Plain(x) => FirstWord(i)' = InsnWord(x)
         /\ \A l : r = P!BranchTo(l, P!None) => FirstWord(i)' = BranchWord(0)
         /\ \A l : \A v \in Nat :
              r = P!BranchTo(l, v) => FirstWord(i)' = BranchWord(v - (i - 1) - 2)
         /\ \A rd, v : r = P!Load(rd, v, P!None) => FirstWord(i)' = MovWord(rd, v)
         /\ \A rd, v : \A s \in Nat :
              r = P!Load(rd, v, s) => FirstWord(i)' = LdrWord(rd)
<1>1. prog'[i] = r
  OBVIOUS
<1> USE <1>1 DEF FirstWord, P!Request, P!None
<1>2. ASSUME NEW x, r = P!Plain(x) PROVE FirstWord(i)' = InsnWord(x)
  BY <1>2 DEF P!Plain
<1>3. ASSUME NEW l, NEW v, r = P!BranchTo(l, v)
      PROVE  FirstWord(i)' = BranchWord(IF v = -1 THEN 0 ELSE v - (i - 1) - 2)
  BY <1>3 DEF P!BranchTo
<1>4. ASSUME NEW rd, NEW v, NEW s, r = P!Load(rd, v, s)
      PROVE  FirstWord(i)' = IF s = -1 THEN MovWord(rd, v) ELSE LdrWord(rd)
  BY <1>4 DEF P!Load
<1>5. ASSUME NEW l, NEW v \in Nat, r = P!BranchTo(l, v)
      PROVE  FirstWord(i)' = BranchWord(v - (i - 1) - 2)
  <2>1. v # -1
    BY SMT
  <2> QED
    BY <1>3, <1>5, <2>1
<1>6. ASSUME NEW rd, NEW v, NEW s \in Nat, r = P!Load(rd, v, s)
      PROVE  FirstWord(i)' = LdrWord(rd)
  <2>1. s # -1
    BY SMT
  <2> QED
    BY <1>4, <1>6, <2>1
<1>7. \A l : r = P!BranchTo(l, P!None) => FirstWord(i)' = BranchWord(0)
  BY <1>3
<1>8. \A rd, v : r = P!Load(rd, v, P!None) => FirstWord(i)' = MovWord(rd, v)
  BY <1>4
<1> QED
  BY <1>2, <1>5, <1>6, <1>7, <1>8

(* Every step keeps the stream in the blocks.                              *)
LEMMA StreamStep ==
  TypeInv /\ StreamInBlocks /\ [Next]_vars => StreamInBlocks'
<1> SUFFICES ASSUME TypeInv, StreamInBlocks, [Next]_vars, pc' = "emit", PoolFits'
             PROVE  Stream(code_last)'
  BY DEF StreamInBlocks, Stream
<1>0. /\ cur \in Nat /\ data_cur \in Nat /\ prog \in Seq(Requests)
      /\ pc = "emit" => Len(prog) = cur
  BY DEF TypeInv, TypeOK, CountersTyped, HistoryTyped
<1>1. pc = "emit" /\ PoolFits => Stream(code_last)
  BY DEF StreamInBlocks, Stream
<1>2. ASSUME NEW x \in Insn, EmitInsn(x) PROVE Stream(code_last)'
  <2>1. pc = "emit" /\ PoolFits /\ cur' = cur + 1
    BY <1>2 DEF EmitInsn, CanEmit, PoolFits, emit4
  <2>2. PICK i : i = cur + 1
    OBVIOUS
  <2>3. FirstWord(i)' = InsnWord(x)
    BY <1>0, <1>2, <2>1, <2>2, FirstWordNew DEF EmitInsn
  <2>4. PICK c : c = Put(Room(code_last), InsnWord(x)) /\ code_last' = c
    BY <1>2 DEF EmitInsn, emit4
  <2>5. Stream(c)'
    BY <1>1, <1>2, <2>1, <2>2, <2>3, <2>4, WordTypes, StreamEmit DEF EmitInsn
  <2> QED
    BY <2>4, <2>5 DEF Stream
<1>3. ASSUME NEW l \in Label, EmitBranch(l) PROVE Stream(code_last)'
  <2>1. pc = "emit" /\ PoolFits /\ cur' = cur + 1
    BY <1>3 DEF EmitBranch, CanEmit, PoolFits, emit4
  <2>2. PICK i : i = cur + 1
    OBVIOUS
  <2>3. labels[l].offset \in Nat
    BY <1>3, RefFields DEF EmitBranch, ClientLabels, TypeInv, TypeOK
  <2>4. PICK d \in Int : emit4(BranchWord(d)) /\ FirstWord(i)' = BranchWord(d)
    <3>1. CASE labels[l].state = "EMITTED"
      <4>1. emit4(BranchWord(labels[l].offset - cur - 2))
        BY <1>3, <3>1 DEF EmitBranch
      <4>2. FirstWord(i)' = BranchWord(labels[l].offset - (i - 1) - 2)
        <5>1. prog' = Append(prog, P!BranchTo(l, labels[l].offset))
          BY <1>3, <3>1 DEF EmitBranch
        <5> QED
          BY <1>0, <2>1, <2>2, <2>3, <5>1, FirstWordNew
      <4>3. labels[l].offset - (i - 1) - 2 = labels[l].offset - cur - 2
        BY <1>0, <2>2, <2>3
      <4> QED
        BY <1>0, <2>3, <4>1, <4>2, <4>3
    <3>2. CASE labels[l].state # "EMITTED"
      <4>1. emit4(BranchWord(0))
        BY <1>3, <3>2 DEF EmitBranch
      <4>2. FirstWord(i)' = BranchWord(0)
        BY <1>0, <1>3, <2>1, <2>2, <3>2, FirstWordNew DEF EmitBranch
      <4> QED
        BY <4>1, <4>2
    <3> QED
      BY <3>1, <3>2
  <2>5. PICK c : c = Put(Room(code_last), BranchWord(d)) /\ code_last' = c
    BY <2>4 DEF emit4
  <2>6. PICK r : prog' = Append(prog, r)
    BY <1>3 DEF EmitBranch
  <2>7. Stream(c)'
    BY <1>1, <2>1, <2>2, <2>4, <2>5, <2>6, WordTypes, StreamEmit
  <2> QED
    BY <2>5, <2>7 DEF Stream
<1>4. ASSUME NEW rd \in Reg, NEW v \in Imm, MovImm(rd, v)
      PROVE  Stream(code_last)'
  <2>1. pc = "emit" /\ PoolFits /\ cur' = cur + 1
    BY <1>4 DEF MovImm, CanEmit, PoolFits, emit4
  <2>2. PICK i : i = cur + 1
    OBVIOUS
  <2>3. FirstWord(i)' = MovWord(rd, v)
    BY <1>0, <1>4, <2>1, <2>2, FirstWordNew DEF MovImm
  <2>4. PICK c : c = Put(Room(code_last), MovWord(rd, v)) /\ code_last' = c
    BY <1>4 DEF MovImm, emit4
  <2>5. Stream(c)'
    BY <1>1, <1>4, <2>1, <2>2, <2>3, <2>4, WordTypes, StreamEmit DEF MovImm
  <2> QED
    BY <2>4, <2>5 DEF Stream
<1>5. ASSUME NEW rd \in Reg, NEW v \in Imm, LdrImm(rd, v)
      PROVE  Stream(code_last)'
  <2>1. pc = "emit" /\ cur' = cur + 1 /\ data_cur' = data_cur + 1
    BY <1>5 DEF LdrImm, CanEmit, emit4_data
  <2>2. PoolFits /\ ~Full(const_last)
    <3>1. data_cur + 1 <= CODEBUFFER_SIZE
      BY <2>1 DEF PoolFits
    <3>2. Len(const_last) = 1 /\ Len(const_last[1]) = data_cur
      BY <2>1 DEF TypeInv, Shape
    <3> QED
      BY <1>0, <3>1, <3>2 DEF PoolFits, Full
  <2>3. PICK i : i = cur + 1
    OBVIOUS
  <2>4. FirstWord(i)' = LdrWord(rd)
    <3>1. prog' = Append(prog, P!Load(rd, v, data_cur))
      BY <1>5 DEF LdrImm
    <3> QED
      BY <1>0, <2>1, <2>3, <3>1, FirstWordNew
  <2>5. PICK c : c = Put(Room(code_last), LdrWord(rd)) /\ code_last' = c
    BY <1>5, <2>2 DEF LdrImm, GrowConst
  <2>6. Stream(c)'
    BY <1>1, <1>5, <2>1, <2>2, <2>3, <2>4, <2>5, WordTypes, StreamEmit DEF LdrImm
  <2> QED
    BY <2>5, <2>6 DEF Stream
<1>6. CASE UNCHANGED <<code_last, cur, data_cur, prog, pc>>
  BY <1>1, <1>6 DEF Stream, PoolFits, FirstWord
<1>7. ASSUME AllocLabel \/ EmitNewLabel PROVE Stream(code_last)'
  BY <1>6, <1>7 DEF AllocLabel, EmitNewLabel
<1>8. ASSUME NEW l \in Label, EmitLabel(l) \/ EmitDataLabel(l)
      PROVE  Stream(code_last)'
  BY <1>6, <1>8 DEF EmitLabel, EmitDataLabel
<1>9. ASSUME AllocCode \/ ResolveRef \/ Fini PROVE Stream(code_last)'
  BY <1>9 DEF AllocCode, ResolveRef, Fini
<1>10. ASSUME Reinit PROVE Stream(code_last)'
  BY <1>10 DEF Reinit, Stream
<1>11. CASE UNCHANGED vars
  BY <1>6, <1>11 DEF vars
<1> QED
  BY <1>2, <1>3, <1>4, <1>5, <1>7, <1>8, <1>9, <1>10, <1>11 DEF Next

(* An empty block holds the empty stream.                                  *)
LEMMA StreamInit == Init => StreamInBlocks
  BY DEF Init, StreamInBlocks

(* While the literals fit the constant block, word i of the program is     *)
(* word i % 512 of code block i / 512 and every block but the last is      *)
(* full, for any block size: so emit_code_block, which places block d at   *)
(* word d * 512, puts every instruction where e->cur counted it.           *)
THEOREM StreamCorrect == Spec => []StreamInBlocks
  BY TypeInit, TypeStep, StreamInit, StreamStep, PTL DEF Spec

-----------------------------------------------------------------------------
(* The references the emitter leaves behind: each waits at the instruction *)
(* that needs it, and the label of a literal stays on its literal.         *)
(* RefsSound is inductive once the state is well-formed: the client cannot *)
(* name the label of a load (ClientLabels), and no reference is ahead of   *)
(* e->cur (RefsTyped).                                                     *)

(* RefsSound in three parts, over the history and the references.          *)
RefsOrdered ==
  \A i, j \in 1 .. Len(label_refs) :
    i < j => label_refs[i].inst_offset < label_refs[j].inst_offset

RefsComplete ==
  \A i \in 1 .. Len(prog) :
    NeedsRef(i) <=>
      \E k \in 1 .. Len(label_refs) : label_refs[k].inst_offset = i - 1

Matches(k) ==
  LET r == prog[label_refs[k].inst_offset + 1]
      l == label_refs[k].label_id
  IN  IF label_refs[k].type = "LDR"
      THEN r.op = "load" /\ labels[l] = LabelRec("EMITTED_DATA", r.slot)
      ELSE r.op = "branch" /\ r.lab = l

RefsMatch == \A k \in 1 .. Len(label_refs) : Matches(k)

(* RefsSound follows from three facts: the references are in the order of   *)
(* their requests, none is missing, and each matches its request.          *)
LEMMA RefsParts ==
  RefsSound <=> (pc # "fini" => RefsOrdered /\ RefsComplete /\ RefsMatch)
  BY DEF RefsSound, RefsOrdered, RefsComplete, RefsMatch, Matches

(* An instruction that needs no reference leaves the three parts alone.    *)
LEMMA RefsPlain ==
  ASSUME TypeInv, pc # "fini", RefsOrdered, RefsComplete, RefsMatch,
         NEW r, prog' = Append(prog, r), UNCHANGED <<label_refs, labels>>,
         ~(r.op = "branch" /\ r.val = P!None), ~(r.op = "load" /\ r.slot # P!None)
  PROVE  RefsOrdered' /\ RefsComplete' /\ RefsMatch'
<1>0. PICK n : n = Len(prog)
  OBVIOUS
<1>1. /\ prog \in Seq(Requests) /\ n = cur /\ n \in Nat
      /\ Len(prog') = n + 1 /\ prog'[n + 1] = r
      /\ \A i \in 1 .. n : prog'[i] = prog[i]
  BY <1>0 DEF TypeInv, TypeOK, HistoryTyped
<1>2. \A k \in 1 .. Len(label_refs) :
        label_refs[k].inst_offset \in Nat /\ label_refs[k].inst_offset < n
  BY <1>1, RefFields DEF TypeInv, TypeOK, RefsTyped
<1>3. RefsOrdered'
  BY DEF RefsOrdered
<1>4. \A i \in 1 .. n : NeedsRef(i)' <=> NeedsRef(i)
  BY <1>1 DEF NeedsRef
<1>5. ~NeedsRef(n + 1)'
  BY <1>1 DEF NeedsRef
<1>6. RefsComplete'
  <2>1. ASSUME NEW i \in 1 .. n + 1
        PROVE  NeedsRef(i)' <=>
                 \E k \in 1 .. Len(label_refs) : label_refs[k].inst_offset = i - 1
    <3>1. CASE i = n + 1
      BY <1>1, <1>2, <1>5, <3>1
    <3>2. CASE i \in 1 .. n
      BY <1>0, <1>4, <3>2 DEF RefsComplete
    <3> QED
      BY <1>1, <3>1, <3>2
  <2> QED
    BY <1>1, <2>1 DEF RefsComplete
<1>7. RefsMatch'
  <2> SUFFICES ASSUME NEW k \in 1 .. Len(label_refs) PROVE Matches(k)'
    BY DEF RefsMatch
  <2>1. label_refs[k].inst_offset + 1 \in 1 .. n
    BY <1>1, <1>2
  <2> QED
    BY <1>1, <2>1 DEF RefsMatch, Matches
<1> QED
  BY <1>3, <1>6, <1>7

(* An instruction that needs one gets it, on a label that matches it.      *)
LEMMA RefsAdd ==
  ASSUME TypeInv, pc # "fini", RefsOrdered, RefsComplete, RefsMatch,
         NEW r, prog' = Append(prog, r),
         \/ r.op = "branch" /\ r.val = P!None
         \/ r.op = "load" /\ r.slot # P!None,
         NEW ref, label_refs' = Append(label_refs, ref), ref.inst_offset = cur,
         \A l \in 1 .. Len(labels) : labels'[l] = labels[l],
         IF ref.type = "LDR"
         THEN r.op = "load" /\ labels'[ref.label_id] = LabelRec("EMITTED_DATA", r.slot)
         ELSE r.op = "branch" /\ r.lab = ref.label_id
  PROVE  RefsOrdered' /\ RefsComplete' /\ RefsMatch'
<1>0. PICK n : n = Len(prog)
  OBVIOUS
<1> DEFINE m == Len(label_refs)
<1>1. /\ prog \in Seq(Requests) /\ n = cur /\ n \in Nat
      /\ Len(prog') = n + 1 /\ prog'[n + 1] = r
      /\ \A i \in 1 .. n : prog'[i] = prog[i]
  BY <1>0 DEF TypeInv, TypeOK, HistoryTyped
<1>2. /\ label_refs \in Seq(LabelRefs) /\ m \in Nat
      /\ Len(label_refs') = m + 1 /\ label_refs'[m + 1] = ref
      /\ \A k \in 1 .. m : label_refs'[k] = label_refs[k]
  BY DEF TypeInv, TypeOK, RefsTyped
<1>3. \A k \in 1 .. m : /\ label_refs[k].inst_offset \in Nat
                        /\ label_refs[k].inst_offset < n
                        /\ label_refs[k].label_id \in 1 .. Len(labels)
  BY <1>1, RefFields DEF TypeInv, TypeOK, RefsTyped
<1> HIDE DEF m
<1>4. RefsOrdered'
  <2> SUFFICES ASSUME NEW i \in 1 .. m + 1, NEW j \in 1 .. m + 1, i < j
               PROVE  label_refs'[i].inst_offset < label_refs'[j].inst_offset
    BY <1>2 DEF RefsOrdered
  <2>1. i \in 1 .. m
    BY <1>2
  <2>2. CASE j = m + 1
    BY <1>1, <1>2, <1>3, <2>1, <2>2
  <2>3. CASE j \in 1 .. m
    BY <1>2, <2>1, <2>3 DEF RefsOrdered, m
  <2> QED
    BY <1>2, <2>2, <2>3
<1>5. RefsComplete'
  <2> SUFFICES ASSUME NEW i \in 1 .. n + 1
               PROVE  NeedsRef(i)' <=>
                        \E k \in 1 .. m + 1 : label_refs'[k].inst_offset = i - 1
    BY <1>1, <1>2 DEF RefsComplete
  <2>1. CASE i = n + 1
    <3>1. NeedsRef(i)'
      BY <1>1, <2>1 DEF NeedsRef
    <3>2. label_refs'[m + 1].inst_offset = i - 1 /\ m + 1 \in 1 .. m + 1
      BY <1>1, <1>2, <2>1
    <3> QED
      BY <3>1, <3>2
  <2>2. CASE i \in 1 .. n
    <3>1. NeedsRef(i)' <=> NeedsRef(i)
      BY <1>1, <2>2 DEF NeedsRef
    <3>2. label_refs'[m + 1].inst_offset # i - 1
      BY <1>1, <1>2, <2>2
    <3>3. NeedsRef(i) <=> \E k \in 1 .. m : label_refs[k].inst_offset = i - 1
      BY <1>0, <2>2 DEF RefsComplete, m
    <3>4. (\E k \in 1 .. m + 1 : label_refs'[k].inst_offset = i - 1)
            <=> \E k \in 1 .. m : label_refs[k].inst_offset = i - 1
      BY <1>2, <3>2
    <3> QED
      BY <3>1, <3>3, <3>4
  <2>3. i = n + 1 \/ i \in 1 .. n
    BY <1>1
  <2> QED
    BY <2>1, <2>2, <2>3
<1>6. RefsMatch'
  <2> SUFFICES ASSUME NEW k \in 1 .. m + 1 PROVE Matches(k)'
    BY <1>2 DEF RefsMatch
  <2>1. CASE k = m + 1
    <3>1. label_refs'[k] = ref /\ prog'[ref.inst_offset + 1] = r
      BY <1>1, <1>2, <2>1
    <3> QED
      BY <3>1 DEF Matches
  <2>2. CASE k \in 1 .. m
    <3>1. /\ label_refs'[k] = label_refs[k]
          /\ label_refs[k].inst_offset + 1 \in 1 .. n
          /\ labels'[label_refs[k].label_id] = labels[label_refs[k].label_id]
      BY <1>1, <1>2, <1>3, <2>2
    <3>2. prog'[label_refs[k].inst_offset + 1] = prog[label_refs[k].inst_offset + 1]
      BY <1>1, <3>1
    <3>3. Matches(k)
      BY <2>2 DEF RefsMatch, m
    <3> QED
      BY <3>1, <3>2, <3>3 DEF Matches
  <2> QED
    BY <1>2, <2>1, <2>2
<1> QED
  BY <1>4, <1>5, <1>6

(* Placing a label of the client, or making one, moves no literal's label. *)
LEMMA RefsUnmoved ==
  ASSUME TypeInv, pc # "fini", RefsOrdered, RefsComplete, RefsMatch,
         UNCHANGED <<prog, label_refs>>,
         \A l \in (1 .. Len(labels)) \cap Private : labels'[l] = labels[l]
  PROVE  RefsOrdered' /\ RefsComplete' /\ RefsMatch'
<1>1. RefsOrdered' /\ RefsComplete'
  BY DEF RefsOrdered, RefsComplete, NeedsRef
<1>2. RefsMatch'
  <2> SUFFICES ASSUME NEW k \in 1 .. Len(label_refs) PROVE Matches(k)'
    BY DEF RefsMatch
  <2>1. Matches(k)
    BY DEF RefsMatch
  <2>2. CASE label_refs[k].type = "LDR"
    <3>1. label_refs[k].label_id \in (1 .. Len(labels)) \cap Private
      BY <2>2, RefFields DEF Private, TypeInv, TypeOK
    <3> QED
      BY <2>1, <3>1 DEF Matches
  <2>3. CASE label_refs[k].type # "LDR"
    BY <2>1, <2>3 DEF Matches
  <2> QED
    BY <2>2, <2>3
<1> QED
  BY <1>1, <1>2

(* Every step keeps the references sound.                                  *)
LEMMA RefsStep == TypeInv /\ RefsSound /\ [Next]_vars => RefsSound'
<1> SUFFICES ASSUME TypeInv, RefsSound, [Next]_vars PROVE RefsSound'
  OBVIOUS
<1> DEFINE Goal == RefsOrdered /\ RefsComplete /\ RefsMatch
<1> HIDE DEF Goal
<1>0. Goal' => RefsSound'
  BY DEF RefsSound, RefsOrdered, RefsComplete, RefsMatch, Matches, Goal
<1>1. pc # "fini" => RefsOrdered /\ RefsComplete /\ RefsMatch
  BY RefsParts
<1>2. ASSUME NEW x \in Insn, EmitInsn(x) PROVE Goal'
  <2>1. pc # "fini" /\ prog' = Append(prog, P!Plain(x)) /\ UNCHANGED <<label_refs, labels>>
    BY <1>2 DEF EmitInsn, CanEmit
  <2>2. P!Plain(x).op = "insn"
    BY DEF P!Plain, P!Request
  <2> QED
    BY <1>1, <2>1, <2>2, RefsPlain DEF Goal
<1>3. ASSUME NEW l \in Label, EmitBranch(l) PROVE Goal'
  <2>1. pc # "fini" /\ labels' = labels
    BY <1>3 DEF EmitBranch, CanEmit
  <2>2. CASE labels[l].state = "EMITTED"
    <3>1. prog' = Append(prog, P!BranchTo(l, labels[l].offset)) /\ label_refs' = label_refs
      BY <1>3, <2>2 DEF EmitBranch
    <3>2. labels[l].offset \in Nat
      BY <1>3, RefFields DEF EmitBranch, ClientLabels, TypeInv, TypeOK
    <3>3. /\ P!BranchTo(l, labels[l].offset).op = "branch"
          /\ P!BranchTo(l, labels[l].offset).val # P!None
      BY <3>2 DEF P!BranchTo, P!Request, P!None
    <3> QED
      BY <1>1, <2>1, <3>1, <3>3, RefsPlain DEF Goal
  <2>3. CASE labels[l].state # "EMITTED"
    <3>1. /\ prog' = Append(prog, P!BranchTo(l, P!None))
          /\ label_refs' = Append(label_refs, LabelRef("BRANCH", cur, l))
      BY <1>3, <2>3 DEF EmitBranch
    <3>2. /\ P!BranchTo(l, P!None).op = "branch" /\ P!BranchTo(l, P!None).val = P!None
          /\ P!BranchTo(l, P!None).lab = l
      BY DEF P!BranchTo, P!Request
    <3>3. /\ LabelRef("BRANCH", cur, l).type = "BRANCH"
          /\ LabelRef("BRANCH", cur, l).inst_offset = cur
          /\ LabelRef("BRANCH", cur, l).label_id = l
      BY DEF LabelRef
    <3> QED
      BY <1>1, <2>1, <3>1, <3>2, <3>3, RefsAdd DEF Goal
  <2> QED
    BY <2>2, <2>3
<1>4. ASSUME NEW rd \in Reg, NEW v \in Imm, MovImm(rd, v) PROVE Goal'
  <2>1. /\ pc # "fini" /\ prog' = Append(prog, P!Load(rd, v, P!None))
        /\ UNCHANGED <<label_refs, labels>>
    BY <1>4 DEF MovImm, CanEmit
  <2>2. P!Load(rd, v, P!None).op = "load" /\ P!Load(rd, v, P!None).slot = P!None
    BY DEF P!Load, P!Request
  <2> QED
    BY <1>1, <2>1, <2>2, RefsPlain DEF Goal
<1>5. ASSUME NEW rd \in Reg, NEW v \in Imm, LdrImm(rd, v) PROVE Goal'
  <2> DEFINE lr == LabelRef("LDR", cur, Len(labels) + 1)
             req == P!Load(rd, v, data_cur)
  <2>1. /\ pc # "fini" /\ prog' = Append(prog, req)
        /\ label_refs' = Append(label_refs, lr)
        /\ labels' = Append(labels, LabelRec("EMITTED_DATA", data_cur))
    BY <1>5 DEF LdrImm, CanEmit
  <2>2. req.op = "load" /\ req.slot = data_cur /\ req.slot # P!None
    BY DEF P!Load, P!Request, P!None, TypeInv, TypeOK, CountersTyped
  <2>3. lr.type = "LDR" /\ lr.inst_offset = cur /\ lr.label_id = Len(labels) + 1
    BY DEF LabelRef
  <2>4. /\ \A l \in 1 .. Len(labels) : labels'[l] = labels[l]
        /\ labels'[Len(labels) + 1] = LabelRec("EMITTED_DATA", data_cur)
    BY <2>1 DEF TypeInv, TypeOK, RefsTyped
  <2> HIDE DEF lr, req
  <2> QED
    BY <1>1, <2>1, <2>2, <2>3, <2>4, RefsAdd DEF Goal
<1>6. ASSUME AllocLabel \/ EmitNewLabel PROVE Goal'
  <2>1. pc # "fini" /\ UNCHANGED <<prog, label_refs>> /\ \E lab : labels' = Append(labels, lab)
    BY <1>6 DEF AllocLabel, EmitNewLabel
  <2>2. \A l \in 1 .. Len(labels) : labels'[l] = labels[l]
    BY <2>1 DEF TypeInv, TypeOK, RefsTyped
  <2> QED
    BY <1>1, <2>1, <2>2, RefsUnmoved DEF Goal
<1>7. ASSUME NEW l \in Label, EmitLabel(l) \/ EmitDataLabel(l) PROVE Goal'
  <2>1. /\ pc # "fini" /\ UNCHANGED <<prog, label_refs>>
        /\ l \notin Private /\ \E lab : labels' = [labels EXCEPT ![l] = lab]
    BY <1>7 DEF EmitLabel, EmitDataLabel, ClientLabels
  <2>2. \A m \in (1 .. Len(labels)) \cap Private : labels'[m] = labels[m]
    BY <2>1 DEF TypeInv, TypeOK, RefsTyped
  <2> QED
    BY <1>1, <2>1, <2>2, RefsUnmoved DEF Goal
<1>8. ASSUME AllocCode \/ ResolveRef PROVE Goal'
  <2>1. pc # "fini" /\ UNCHANGED <<prog, label_refs, labels>>
    BY <1>8 DEF AllocCode, ResolveRef
  <2> QED
    BY <1>1, <2>1, RefsUnmoved DEF Goal
<1>9. ASSUME Fini PROVE RefsSound'
  BY <1>9 DEF Fini, RefsSound
<1>10. ASSUME Reinit PROVE Goal'
  BY <1>10 DEF Reinit, RefsOrdered, RefsComplete, RefsMatch, TypeInv, Shape, Goal
<1>11. CASE UNCHANGED vars
  BY <1>11 DEF vars, RefsSound, NeedsRef
<1> QED
  BY <1>0, <1>2, <1>3, <1>4, <1>5, <1>6, <1>7, <1>8, <1>9, <1>10, <1>11 DEF Next

(* With no program there is no reference.                                  *)
LEMMA RefsInit == Init => RefsSound
  BY DEF Init, RefsSound

(* In every program, whatever order labels are placed, placed again and    *)
(* branched to, each branch to a label not yet in the code and each literal *)
(* load has exactly one LabelRef, no other instruction has any, and the    *)
(* label of a load is still bound to its own literal.                      *)
THEOREM RefsCorrect == Spec => []RefsSound
  BY TypeInit, TypeStep, RefsInit, RefsStep, PTL DEF Spec
=============================================================================
