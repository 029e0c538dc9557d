-------------------------- MODULE AgEmitterRefinement --------------------------
(***************************************************************************)
(* AgEmitter implements AgProgram: every step of the emitter is a step of  *)
(* the abstract program under the mapping of P in AgEmitter, or changes    *)
(* nothing of it.  ag_alloc_code is one step there: the one that makes the *)
(* image, if there is no reference, or else the last round of its loop.    *)
(***************************************************************************)
EXTENDS AgEmitterImage

USE Sizes

(* The client keeps to itself no more labels than it has literals: so      *)
(* AgProgram's Label is large enough for the labels of the emitter.        *)
PrivateFew == IsFiniteSet(Private) /\ Cardinality(Private) <= data_cur

(* A label the client was given is one of the labels the emitter made.      *)
LEMMA PrivateRange ==
  ASSUME TypeInv
  PROVE  Private \subseteq 1 .. Len(labels)
  BY RefFields DEF TypeInv, TypeOK, Private

(* One new private label per literal.                                      *)
LEMMA PrivateGrows ==
  ASSUME TypeInv, NEW rd \in Reg, NEW v \in Imm, LdrImm(rd, v)
  PROVE  Private' = Private \cup {Len(labels) + 1}
<1> DEFINE new == LabelRef("LDR", cur, Len(labels) + 1)
<1>1. label_refs' = Append(label_refs, new) /\ label_refs \in Seq(LabelRefs)
  BY DEF LdrImm, TypeInv, TypeOK, RefsTyped
<1>2. new.type = "LDR" /\ new.label_id = Len(labels) + 1
  BY DEF LabelRef
<1> HIDE DEF new
<1>3. /\ Len(label_refs') = Len(label_refs) + 1 /\ Len(label_refs) \in Nat
      /\ label_refs'[Len(label_refs) + 1] = new
      /\ \A k \in 1 .. Len(label_refs) : label_refs'[k] = label_refs[k]
  BY <1>1
<1>4. \A k \in 1 .. Len(label_refs') : k \in 1 .. Len(label_refs) \/ k = Len(label_refs) + 1
  BY <1>3
<1>5. /\ Len(label_refs) + 1 \in 1 .. Len(label_refs')
      /\ \A k \in 1 .. Len(label_refs) : k \in 1 .. Len(label_refs')
  BY <1>3
<1>6. Private' = {label_refs'[k].label_id : k \in {j \in 1 .. Len(label_refs') :
                                                    label_refs'[j].type = "LDR"}}
  BY DEF Private
<1> QED
  BY <1>2, <1>3, <1>4, <1>5, <1>6 DEF Private

(* A reference of a branch leaves the private labels alone.                *)
LEMMA PrivateKept ==
  ASSUME TypeInv,
         \/ label_refs' = label_refs
         \/ \E ref : ref.type # "LDR" /\ label_refs' = Append(label_refs, ref)
  PROVE  Private' = Private
<1>1. CASE label_refs' = label_refs
  BY <1>1 DEF Private
<1>2. ASSUME NEW ref, ref.type # "LDR", label_refs' = Append(label_refs, ref)
      PROVE  Private' = Private
  <2>1. /\ Len(label_refs') = Len(label_refs) + 1 /\ Len(label_refs) \in Nat
        /\ label_refs'[Len(label_refs) + 1] = ref
        /\ \A k \in 1 .. Len(label_refs) : label_refs'[k] = label_refs[k]
    BY <1>2 DEF TypeInv, TypeOK, RefsTyped
  <2>2. \A k \in 1 .. Len(label_refs') : k \in 1 .. Len(label_refs) \/ k = Len(label_refs) + 1
    BY <2>1
  <2>3. \A k \in 1 .. Len(label_refs) : k \in 1 .. Len(label_refs')
    BY <2>1
  <2>4. Private' = {label_refs'[k].label_id : k \in {j \in 1 .. Len(label_refs') :
                                                      label_refs'[j].type = "LDR"}}
    BY DEF Private
  <2> QED
    BY <1>2, <2>1, <2>2, <2>3, <2>4 DEF Private
<1> QED
  BY <1>1, <1>2

(* The bound on private labels survives every step.                         *)
LEMMA PrivateFewStep == TypeInv /\ PrivateFew /\ [Next]_vars => PrivateFew'
<1> SUFFICES ASSUME TypeInv, PrivateFew, [Next]_vars PROVE PrivateFew'
  OBVIOUS
<1>0. data_cur \in Nat /\ Cardinality(Private) \in Nat
  BY FS_CardinalityType DEF TypeInv, TypeOK, CountersTyped, PrivateFew
<1>1. ASSUME NEW rd \in Reg, NEW v \in Imm, LdrImm(rd, v) PROVE PrivateFew'
  <2>1. Private' = Private \cup {Len(labels) + 1} /\ data_cur' = data_cur + 1
    BY <1>1, PrivateGrows DEF LdrImm, emit4_data
  <2>2. /\ IsFiniteSet(Private \cup {Len(labels) + 1})
        /\ Cardinality(Private \cup {Len(labels) + 1}) <= Cardinality(Private) + 1
    <3>1. IsFiniteSet(Private)
      BY DEF PrivateFew
    <3>2. PICK S, x : S = Private /\ x = Len(labels) + 1
      OBVIOUS
    <3>3. /\ IsFiniteSet(S \cup {x})
          /\ Cardinality(S \cup {x}) \in {Cardinality(S), Cardinality(S) + 1}
      BY <3>1, <3>2, FS_AddElement
    <3> QED
      BY <1>0, <3>2, <3>3
  <2>3. Cardinality(Private \cup {Len(labels) + 1}) \in Nat
    BY <2>2, FS_CardinalityType
  <2> QED
    BY <1>0, <2>1, <2>2, <2>3 DEF PrivateFew
<1>2. ASSUME NEW l \in Label, EmitBranch(l) PROVE PrivateFew'
  <2>1. LabelRef("BRANCH", cur, l).type # "LDR"
    BY DEF LabelRef
  <2>2. /\ data_cur' = data_cur
        /\ \/ label_refs' = label_refs
           \/ label_refs' = Append(label_refs, LabelRef("BRANCH", cur, l))
    BY <1>2 DEF EmitBranch
  <2> QED
    BY <2>1, <2>2, PrivateKept DEF PrivateFew
<1>3. CASE UNCHANGED <<label_refs, data_cur>>
  BY <1>3, PrivateKept DEF PrivateFew
<1>4. CASE label_refs' = <<>> /\ data_cur' \in Nat
  <2>1. Private' = {}
    BY <1>4 DEF Private
  <2> QED
    BY <1>4, <2>1, FS_EmptySet DEF PrivateFew
<1>5. ASSUME Reinit PROVE label_refs' = <<>> /\ data_cur' \in Nat
  BY <1>5 DEF Reinit, TypeInv, Shape
<1>6. ASSUME Fini PROVE label_refs' = <<>> /\ data_cur' \in Nat
  BY <1>0, <1>6 DEF Fini
<1> QED
  BY <1>1, <1>2, <1>3, <1>4, <1>5, <1>6
  DEF Next, vars, EmitInsn, MovImm, AllocLabel, EmitLabel, EmitDataLabel,
      EmitNewLabel, AllocCode, ResolveRef

(* The next label the client asks for has a name in AgProgram.             *)
LEMMA NextLabel ==
  ASSUME TypeInv, PrivateFew, pc = "emit", Cardinality(ClientLabels) < MaxLabels
  PROVE  Len(labels) + 1 \in Label /\ Len(labels) + 1 \notin ClientLabels
<1> DEFINE n == Len(labels)
<1>1. n \in Nat /\ data_cur \in Nat /\ data_cur <= CODEBUFFER_SIZE + Slack /\ MaxLabels \in Nat
  BY EmitterAssumption DEF TypeInv, TypeOK, RefsTyped, CountersTyped, Shape
<1>2. 1 .. n = ClientLabels \cup Private /\ ClientLabels \subseteq 1 .. n
  BY PrivateRange DEF ClientLabels
<1> HIDE DEF n
<1>3. IsFiniteSet(1 .. n) /\ Cardinality(1 .. n) = n
  BY <1>1, FS_Interval
<1>4. IsFiniteSet(ClientLabels) /\ IsFiniteSet(Private)
  BY <1>2, <1>3, FS_Subset DEF PrivateFew
<1>5. n <= Cardinality(ClientLabels) + Cardinality(Private)
  <2>1. Cardinality(ClientLabels \cup Private) =
          Cardinality(ClientLabels) + Cardinality(Private)
            - Cardinality(ClientLabels \cap Private)
    BY <1>4, FS_Union
  <2>2. ClientLabels \cap Private = {}
    BY DEF ClientLabels
  <2>3. Cardinality(ClientLabels \cap Private) = 0
    BY <2>2, FS_EmptySet
  <2>4. Cardinality(ClientLabels) \in Nat /\ Cardinality(Private) \in Nat
    BY <1>4, FS_CardinalityType
  <2>5. n = Cardinality(ClientLabels \cup Private)
    BY <1>2, <1>3
  <2> QED
    BY <2>1, <2>3, <2>4, <2>5
<1>6. n + 1 \in Label
  <2>1. Cardinality(ClientLabels) \in Nat /\ Cardinality(Private) \in Nat
    BY <1>4, FS_CardinalityType
  <2> QED
    BY <1>1, <1>5, <2>1 DEF Label, PrivateFew
<1>7. n + 1 \notin ClientLabels
  BY <1>1, <1>2
<1> QED
  BY <1>6, <1>7 DEF n

-----------------------------------------------------------------------------
(* The steps.                                                              *)

(* An instruction is appended, and the labels stay as they were.           *)
LEMMA SimulateEmit ==
  ASSUME TypeInv, PrivateFew
  PROVE  /\ \A x \in Insn : EmitInsn(x) => P!AddInsn(x)
         /\ \A l \in Label : EmitBranch(l) => P!AddBranch(l)
         /\ \A rd \in Reg, v \in Imm :
              MovImm(rd, v) \/ LdrImm(rd, v) => P!AddLoad(rd, v)
<1>1. ASSUME NEW x \in Insn, EmitInsn(x) PROVE P!AddInsn(x)
  <2>1. ClientLabels' = ClientLabels
    BY <1>1, PrivateKept DEF EmitInsn, ClientLabels
  <2> QED
    BY <1>1, <2>1 DEF EmitInsn, CanEmit, P!AddInsn
<1>2. ASSUME NEW l \in Label, EmitBranch(l) PROVE P!AddBranch(l)
  <2>1. LabelRef("BRANCH", cur, l).type # "LDR"
    BY DEF LabelRef
  <2>2. \/ label_refs' = label_refs
        \/ label_refs' = Append(label_refs, LabelRef("BRANCH", cur, l))
    BY <1>2 DEF EmitBranch
  <2>3. ClientLabels' = ClientLabels /\ labels' = labels
    BY <1>2, <2>1, <2>2, PrivateKept DEF EmitBranch, ClientLabels
  <2>4. /\ l \in ClientLabels /\ pc = "emit" /\ pc' = "emit" /\ data_cur' = data_cur
        /\ labels[l].state \in LabelStates
    <3>1. l \in ClientLabels /\ pc = "emit" /\ pc' = "emit" /\ data_cur' = data_cur
      BY <1>2 DEF EmitBranch, CanEmit
    <3>2. labels[l] \in Labels
      BY <3>1, RefFields DEF ClientLabels, TypeInv, TypeOK
    <3> QED
      BY <3>1, <3>2 DEF Labels
  <2>5. prog' = Append(prog, P!BranchTo(l, IF BoundTo(labels[l]).seg = "code"
                                          THEN BoundTo(labels[l]).off ELSE P!None))
    <3>1. CASE labels[l].state = "EMITTED"
      BY <1>2, <3>1 DEF EmitBranch, BoundTo
    <3>2. CASE labels[l].state # "EMITTED"
      <4>1. BoundTo(labels[l]).seg # "code"
        BY <2>4, <3>2 DEF BoundTo, LabelStates
      <4> QED
        BY <1>2, <3>2, <4>1 DEF EmitBranch
    <3> QED
      BY <3>1, <3>2
  <2> QED
    BY <2>3, <2>4, <2>5 DEF P!AddBranch
<1>3. ASSUME NEW rd \in Reg, NEW v \in Imm, MovImm(rd, v) PROVE P!AddLoad(rd, v)
  <2>1. ClientLabels' = ClientLabels
    BY <1>3, PrivateKept DEF MovImm, ClientLabels
  <2> QED
    BY <1>3, <2>1 DEF MovImm, CanEmit, P!AddLoad
<1>4. ASSUME NEW rd \in Reg, NEW v \in Imm, LdrImm(rd, v) PROVE P!AddLoad(rd, v)
  <2>1. /\ pc = "emit" /\ pc' = "emit" /\ data_cur' = data_cur + 1
        /\ prog' = Append(prog, P!Load(rd, v, data_cur))
        /\ labels' = Append(labels, LabelRec("EMITTED_DATA", data_cur))
    BY <1>4 DEF LdrImm, CanEmit, emit4_data
  <2>2. /\ Len(labels') = Len(labels) + 1 /\ Len(labels) \in Nat
        /\ \A l \in 1 .. Len(labels) : labels'[l] = labels[l]
    BY <2>1 DEF TypeInv, TypeOK, RefsTyped
  <2>3. 1 .. Len(labels') = (1 .. Len(labels)) \cup {Len(labels) + 1}
    BY <2>2
  <2>4. ClientLabels' = ClientLabels
    <3>1. Private' = Private \cup {Len(labels) + 1}
      BY <1>4, PrivateGrows
    <3>2. Len(labels) + 1 \notin 1 .. Len(labels)
      BY <2>2
    <3> QED
      BY <2>3, <3>1, <3>2 DEF ClientLabels
  <2>5. \A l \in ClientLabels : labels'[l] = labels[l]
    BY <2>2 DEF ClientLabels
  <2> QED
    BY <2>1, <2>4, <2>5 DEF P!AddLoad
<1> QED
  BY <1>1, <1>2, <1>3, <1>4

(* A label is made or placed, and every other stays where it was.          *)
LEMMA SimulateLabels ==
  ASSUME TypeInv, PrivateFew
  PROVE  /\ AllocLabel \/ EmitNewLabel =>
              \E l \in Label : \E p \in {P!Unbound, P!Here("code"), P!Here("data")} :
                P!NewLabel(l, p)
         /\ \A l \in Label : EmitLabel(l) => P!PlaceLabel(l, "code")
         /\ \A l \in Label : EmitDataLabel(l) => P!PlaceLabel(l, "data")
<1>0. /\ labels \in Seq(Labels) /\ Len(labels) \in Nat
      /\ pc = "emit" => Len(prog) = cur
  BY DEF TypeInv, TypeOK, RefsTyped, HistoryTyped
<1>1. ASSUME AllocLabel \/ EmitNewLabel
      PROVE  \E l \in Label : \E p \in {P!Unbound, P!Here("code"), P!Here("data")} :
               P!NewLabel(l, p)
  <2>1. PICK lab : /\ labels' = Append(labels, lab)
                   /\ BoundTo(lab) \in {P!Unbound, P!Here("code"), P!Here("data")}
    <3>1. pc = "emit" /\ Len(prog) = cur
      BY <1>0, <1>1 DEF AllocLabel, EmitNewLabel
    <3>2. \A g : BoundTo(LabelRec("NOT_EMITTED", g)) = P!Unbound
      BY DEF BoundTo, LabelRec, P!Unbound, P!At
    <3>3. /\ BoundTo(LabelRec("EMITTED", cur)) = P!Here("code")
          /\ BoundTo(LabelRec("EMITTED_DATA", data_cur)) = P!Here("data")
      BY <3>1 DEF BoundTo, LabelRec, P!Here, P!At
    <3>4. \E lab \in {LabelRec("EMITTED", cur), LabelRec("EMITTED_DATA", data_cur)}
                       \cup {LabelRec("NOT_EMITTED", g) : g \in Garbage} :
            labels' = Append(labels, lab)
      BY <1>1 DEF AllocLabel, EmitNewLabel
    <3> QED
      BY <3>2, <3>3, <3>4
  <2>2. /\ pc = "emit" /\ pc' = "emit" /\ Cardinality(ClientLabels) < MaxLabels
        /\ UNCHANGED <<data_cur, prog, label_refs>>
    BY <1>1 DEF AllocLabel, EmitNewLabel
  <2>3. PICK l : l = Len(labels) + 1
    OBVIOUS
  <2>4. l \in Label /\ l \notin ClientLabels
    BY <2>2, <2>3, NextLabel
  <2>5. /\ Len(labels') = l /\ labels'[l] = lab
        /\ \A m \in 1 .. Len(labels) : labels'[m] = labels[m]
        /\ 1 .. l = (1 .. Len(labels)) \cup {l} /\ l \notin 1 .. Len(labels)
    BY <1>0, <2>1, <2>3
  <2>6. ClientLabels' = ClientLabels \cup {l}
    <3>1. Private' = Private
      BY <2>2, PrivateKept
    <3>2. l \notin Private
      BY <2>5, PrivateRange
    <3> QED
      BY <2>5, <3>1, <3>2 DEF ClientLabels
  <2>7. \A m \in ClientLabels : labels'[m] = labels[m] /\ m # l
    BY <2>4, <2>5 DEF ClientLabels
  <2>8. P!NewLabel(l, BoundTo(lab))
    <3>1. [m \in ClientLabels |-> BoundTo(labels[m])]' =
            [m \in ClientLabels \cup {l} |-> IF m = l THEN BoundTo(lab)
               ELSE [n \in ClientLabels |-> BoundTo(labels[n])][m]]
      BY <2>5, <2>6, <2>7
    <3> QED
      BY <2>1, <2>2, <2>4, <3>1 DEF P!NewLabel
  <2> QED
    BY <2>1, <2>4, <2>8
<1>2. ASSUME NEW l \in Label, NEW seg \in {"code", "data"}, NEW off,
             NEW state, BoundTo(LabelRec(state, off)) = P!Here(seg),
             pc = "emit", pc' = "emit", l \in ClientLabels,
             labels' = [labels EXCEPT ![l] = LabelRec(state, off)],
             UNCHANGED <<data_cur, prog, label_refs>>
      PROVE  P!PlaceLabel(l, seg)
  <2>1. ClientLabels' = ClientLabels
    BY <1>0, <1>2, PrivateKept DEF ClientLabels
  <2>2. \A m \in ClientLabels : labels'[m] = IF m = l THEN LabelRec(state, off)
                                             ELSE labels[m]
    BY <1>0, <1>2 DEF ClientLabels
  <2>3. [m \in ClientLabels |-> BoundTo(labels[m])]' =
          [[m \in ClientLabels |-> BoundTo(labels[m])] EXCEPT ![l] = P!Here(seg)]
    <3>1. PICK h : h = P!Here(seg)
      OBVIOUS
    <3>2. \A m \in ClientLabels :
            BoundTo(labels'[m]) = IF m = l THEN h ELSE BoundTo(labels[m])
      BY <1>2, <2>2, <3>1
    <3>3. [m \in ClientLabels |-> BoundTo(labels[m])]' =
            [m \in ClientLabels |-> IF m = l THEN h ELSE BoundTo(labels[m])]
      BY <2>1, <3>2
    <3> QED
      BY <3>1, <3>3
  <2> QED
    BY <1>2, <2>3 DEF P!PlaceLabel
<1>3. ASSUME NEW l \in Label, EmitLabel(l) PROVE P!PlaceLabel(l, "code")
  <2>1. BoundTo(LabelRec("EMITTED", cur)) = P!Here("code")
    BY <1>0, <1>3 DEF EmitLabel, BoundTo, LabelRec, P!Here, P!At
  <2> QED
    BY <1>2, <1>3, <2>1 DEF EmitLabel
<1>4. ASSUME NEW l \in Label, EmitDataLabel(l) PROVE P!PlaceLabel(l, "data")
  <2>1. BoundTo(LabelRec("EMITTED_DATA", data_cur)) = P!Here("data")
    BY <1>4 DEF EmitDataLabel, BoundTo, LabelRec, P!Here, P!At
  <2> QED
    BY <1>2, <1>4, <2>1 DEF EmitDataLabel
<1> QED
  BY <1>1, <1>3, <1>4

(* What is known of the image, after a step.                               *)
LEMMA ImageMeansThen == ImageProved' => (PlainUntouched /\ BranchLands /\ LiteralLoads)'
  BY ImageMeans, PTL

(* The last step of ag_alloc_code seals the program.                       *)
LEMMA SimulateSeal ==
  ASSUME TypeInv, ImageProved', pc \in {"emit", "resolve"}, pc' = "sealed",
         UNCHANGED <<prog, data_cur, labels, label_refs>>
  PROVE  P!Seal
<1>1. ClientLabels' = ClientLabels
  BY PrivateKept DEF ClientLabels
<1>2. \A i : /\ P!Encodable(i)' <=> P!Encodable(i)
             /\ P!Meaning(i)' = P!Meaning(i)
  BY <1>1 DEF P!Encodable, P!BranchEncodable, P!LoadEncodable, P!Distance, P!Target,
              P!Address, P!Meaning
<1>3. ASSUME data_cur <= CODEBUFFER_SIZE, NEW i \in 1 .. Len(prog), P!Encodable(i)
      PROVE  Decode(i)' = P!Meaning(i)
  <2>1. PoolFits' /\ i \in 1 .. Len(prog') /\ P!Encodable(i)'
    BY <1>2, <1>3 DEF PoolFits
  <2>2. prog'[i].op \in {"insn", "branch", "load"}
    <3>1. prog'[i] \in Requests
      BY DEF TypeInv, TypeOK, HistoryTyped
    <3> QED
      BY <3>1 DEF Requests
  <2>3. Decode(i)' = P!Meaning(i)'
    BY <2>1, <2>2, ImageMeansThen DEF PlainUntouched, BranchLands, LiteralLoads
  <2> QED
    BY <1>2, <2>3
<1> QED
  BY <1>1, <1>3 DEF P!Seal

(* Every step of the emitter is a step of the abstract program or none.    *)
LEMMA Simulates ==
  TypeInv /\ PrivateFew /\ ImageProved' /\ [Next]_vars => [P!Next]_P!vars
<1> SUFFICES ASSUME TypeInv, PrivateFew, ImageProved', [Next]_vars
             PROVE  P!Next \/ UNCHANGED P!vars
  OBVIOUS
<1>1. CASE \/ \E x \in Insn : EmitInsn(x)
           \/ \E l \in Label : EmitBranch(l)
           \/ \E rd \in Reg, v \in Imm : MovImm(rd, v) \/ LdrImm(rd, v)
  BY <1>1, SimulateEmit DEF P!Next
<1>2. CASE \/ AllocLabel
           \/ \E l \in Label : EmitLabel(l) \/ EmitDataLabel(l)
           \/ EmitNewLabel
  BY <1>2, SimulateLabels DEF P!Next
<1>3. CASE AllocCode \/ ResolveRef
  <2>1. /\ pc \in {"emit", "resolve"} /\ pc' \in {"resolve", "sealed"}
        /\ UNCHANGED <<prog, data_cur, labels, label_refs>>
    BY <1>3 DEF AllocCode, ResolveRef
  <2>2. CASE pc' = "sealed"
    BY <2>1, <2>2, SimulateSeal DEF P!Next
  <2>3. CASE pc' = "resolve"
    <3>1. ClientLabels' = ClientLabels
      BY <2>1, PrivateKept DEF ClientLabels
    <3> QED
      BY <2>1, <2>3, <3>1 DEF P!vars
  <2> QED
    BY <2>1, <2>2, <2>3
<1>4. CASE Fini
  <2>1. /\ pc \in {"emit", "sealed"} /\ pc' = "fini" /\ prog' = <<>>
        /\ labels' = <<>>
    BY <1>4 DEF Fini
  <2>2. ClientLabels' = {}
    BY <2>1 DEF ClientLabels
  <2>3. [l \in ClientLabels |-> BoundTo(labels[l])]' = [l \in {} |-> P!Unbound]
    BY <2>2
  <2> QED
    BY <2>1, <2>3 DEF P!Next, P!Close
<1>5. CASE Reinit
  <2>1. /\ pc = "fini" /\ pc' = "emit" /\ data_cur' = 0
        /\ UNCHANGED <<prog, labels, label_refs>>
    BY <1>5 DEF Reinit
  <2>2. ClientLabels' = ClientLabels
    BY <2>1, PrivateKept DEF ClientLabels
  <2> QED
    BY <2>1, <2>2 DEF P!Next, P!Reopen
<1>6. CASE UNCHANGED vars
  <2>1. UNCHANGED <<pc, prog, data_cur, labels, label_refs, image>>
    BY <1>6 DEF vars
  <2>2. ClientLabels' = ClientLabels
    BY <2>1, PrivateKept DEF ClientLabels
  <2>3. \A i : Decode(i)' = Decode(i)
    BY <2>1 DEF Decode, LoadedFrom
  <2> QED
    BY <2>1, <2>2, <2>3 DEF P!vars
<1> QED
  BY <1>1, <1>2, <1>3, <1>4, <1>5, <1>6 DEF Next

(* A new emitter is an empty program.                                      *)
LEMMA SimulatesInit == Init => P!Init /\ PrivateFew
<1> SUFFICES ASSUME Init PROVE P!Init /\ PrivateFew
  OBVIOUS
<1>1. Private = {} /\ ClientLabels = {}
  BY DEF Init, Private, ClientLabels
<1>2. PrivateFew
  BY <1>1, FS_EmptySet DEF Init, PrivateFew
<1>3. [l \in ClientLabels |-> BoundTo(labels[l])] = [l \in {} |-> P!Unbound]
  BY <1>1
<1> QED
  BY <1>2, <1>3 DEF Init, P!Init

(* The emitter keeps every promise AgProgram makes, for every size of the  *)
(* blocks, the fields and the program: each encodable request of a sealed  *)
(* program has the effect asked for, a label is where it was last placed,  *)
(* closing forgets the program and only it.                                *)
THEOREM Refinement == Spec => RefinesProgram
<1>1. ImageProved => TypeInv
  BY DEF ImageProved, EmitterInv
<1>2. Spec => [](ImageProved /\ PrivateFew)
  BY <1>1, ImageInit, ImageStep, SimulatesInit, PrivateFewStep, PTL DEF Spec
<1>3. Spec => P!Spec
  BY <1>1, <1>2, SimulatesInit, Simulates, PTL DEF Spec, P!Spec
<1> QED
  BY <1>3 DEF RefinesProgram
=============================================================================
