-------------------------- MODULE NprChunkAllocProofs --------------------------
(***************************************************************************)
(* What the proofs about the users of the chunk allocator share: facts on  *)
(* sequences, and what taking and releasing an element does, for any size  *)
(* of the chunks.                                                          *)
(***************************************************************************)
EXTENDS NprChunkAlloc, TLAPS, WellFoundedInduction, FiniteSetTheorems

(* A set of numbers has a least one: induction, for a set.                 *)
LEMMA LeastOf == \A T \in SUBSET Nat : T # {} => \E x \in T : \A y \in T : x <= y
<1> SUFFICES ASSUME NEW T \in SUBSET Nat, T # {}
             PROVE  \E x \in T : \A y \in T : x <= y
  OBVIOUS
<1>1. PICK R : R = OpToRel(<, Nat)
  OBVIOUS
<1>2. R = {ss \in Nat \X Nat : ss[1] < ss[2]}
  BY <1>1 DEF OpToRel
<1>3. IsWellFoundedOn(R, Nat)
  BY <1>1, NatLessThanWellFounded, Zenon
<1>4. PICK x \in T : \A y \in T : <<y, x>> \notin R
  BY WFMin, <1>3, Zenon
<1>5. \A y \in T : ~(y < x)
  BY <1>2, <1>4
<1> QED
  BY <1>4, <1>5

-----------------------------------------------------------------------------
(* Sequences: concatenated, flattened, reversed.                           *)

(* FlattenSeq is the last of the sequences that append bin after bin.      *)
LEMMA FlattenSteps ==
  ASSUME NEW S, NEW bins \in Seq(Seq(S)), bins # <<>>
  PROVE  \E g \in [1 .. Len(bins) -> Seq(S)] :
           /\ g[1] = bins[1]
           /\ \A i \in 2 .. Len(bins) : g[i] = g[i - 1] \o bins[i]
           /\ FlattenSeq(bins) = g[Len(bins)]
<1>0. PICK n \in Nat \ {0} : n = Len(bins)
  OBVIOUS
<1>1. \A i \in 1 .. n : bins[i] \in Seq(S)
  BY <1>0
<1> DEFINE Upto(m) == \E g \in [1 .. m -> Seq(S)] :
                        /\ g[1] = bins[1]
                        /\ \A i \in 2 .. m : g[i] = g[i - 1] \o bins[i]
<1>2. Upto(1)
  <2>1. PICK g : g = [i \in 1 .. 1 |-> bins[1]]
    OBVIOUS
  <2>2. g \in [1 .. 1 -> Seq(S)] /\ g[1] = bins[1]
    BY <1>0, <1>1, <2>1
  <2>3. \A i \in 2 .. 1 : g[i] = g[i - 1] \o bins[i]
    OBVIOUS
  <2> QED
    BY <2>2, <2>3
<1>3. ASSUME NEW m \in 1 .. n - 1, Upto(m) PROVE Upto(m + 1)
  <2>1. PICK g \in [1 .. m -> Seq(S)] :
          g[1] = bins[1] /\ \A i \in 2 .. m : g[i] = g[i - 1] \o bins[i]
    BY <1>3
  <2>2. PICK h : h = [i \in 1 .. m + 1 |-> IF i = m + 1 THEN g[m] \o bins[m + 1] ELSE g[i]]
    OBVIOUS
  <2>3. g[m] \in Seq(S) /\ bins[m + 1] \in Seq(S) /\ g[m] \o bins[m + 1] \in Seq(S)
    BY <1>0, <1>1
  <2>4. h \in [1 .. m + 1 -> Seq(S)]
    BY <2>2, <2>3
  <2>5. h[1] = bins[1]
    BY <1>0, <2>1, <2>2
  <2>6. ASSUME NEW i \in 2 .. m + 1 PROVE h[i] = h[i - 1] \o bins[i]
    <3>1. i - 1 \in 1 .. m /\ h[i - 1] = g[i - 1]
      BY <1>0, <2>2
    <3>2. i = m + 1 => h[i] = g[i - 1] \o bins[i]
      BY SMTT(30), <1>0, <2>2
    <3>3. i # m + 1 => i \in 2 .. m /\ h[i] = g[i]
      BY <1>0, <2>2
    <3> QED
      BY <2>1, <3>1, <3>2, <3>3
  <2> QED
    BY <2>4, <2>5, <2>6
<1> HIDE DEF Upto
<1>4. Upto(n)
  <2>1. PICK T : T = {m \in 1 .. n : ~Upto(m)}
    OBVIOUS
  <2> SUFFICES ASSUME T # {} PROVE FALSE
    BY <1>0, <2>1
  <2>2. PICK m \in T : \A j \in T : m <= j
    <3>1. T \in SUBSET Nat
      BY <1>0, <2>1
    <3> QED
      BY <3>1, LeastOf, Zenon
  <2>3. m # 1
    BY <1>2, <2>1
  <2>4. m - 1 \in 1 .. n - 1 /\ m - 1 \notin T /\ (m - 1) + 1 = m
    BY <1>0, <2>1, <2>2, <2>3
  <2>5. Upto(m - 1)
    BY <1>0, <2>1, <2>4
  <2> QED
    BY <1>3, <2>1, <2>4, <2>5
<1>5. PICK g \in [1 .. n -> Seq(S)] :
        g[1] = bins[1] /\ \A i \in 2 .. n : g[i] = g[i - 1] \o bins[i]
  BY <1>4 DEF Upto
<1> DEFINE Flat(h) == h = [i \in 1 .. Len(bins) |->
                            IF i = 1 THEN bins[i] ELSE h[i - 1] \o bins[i]]
<1>6. Flat(g)
  <2>1. ASSUME NEW i \in 1 .. n
        PROVE  g[i] = IF i = 1 THEN bins[i] ELSE g[i - 1] \o bins[i]
    <3>1. i = 1 \/ i \in 2 .. n
      BY <1>0
    <3> QED
      BY <1>5, <3>1
  <2>2. g = [i \in 1 .. n |-> g[i]]
    BY <1>5
  <2>3. g = [i \in 1 .. n |-> IF i = 1 THEN bins[i] ELSE g[i - 1] \o bins[i]]
    BY <2>1, <2>2
  <2> QED
    BY <1>0, <2>3
<1>7. FlattenSeq(bins) = (CHOOSE h : Flat(h))[Len(bins)]
  BY <1>0 DEF FlattenSeq
<1>8. PICK h : h = CHOOSE x : Flat(x)
  OBVIOUS
<1>9. Flat(h)
  <2> HIDE DEF Flat
  <2> QED
    BY <1>6, <1>8, Zenon
<1>10. h = g
  <2>1. \A i \in 1 .. n : h[i] = IF i = 1 THEN bins[i] ELSE h[i - 1] \o bins[i]
    BY <1>0, <1>9
  <2>2. PICK T : T = {i \in 1 .. n : h[i] # g[i]}
    OBVIOUS
  <2>3. ASSUME T # {} PROVE FALSE
    <3>1. PICK m \in T : \A j \in T : m <= j
      <4>1. T \in SUBSET Nat
        BY <1>0, <2>2
      <4> QED
        BY <2>3, <4>1, LeastOf, Zenon
    <3>2. m # 1
      BY <1>0, <1>5, <2>1, <2>2
    <3>3. m - 1 \in 1 .. n /\ m - 1 \notin T /\ m \in 2 .. n
      BY <1>0, <2>2, <3>1, <3>2
    <3>4. h[m - 1] = g[m - 1]
      BY <2>2, <3>3
    <3> QED
      BY <1>5, <2>1, <2>2, <3>2, <3>3, <3>4
  <2>4. DOMAIN h = 1 .. n /\ h = [i \in 1 .. n |-> h[i]]
    BY <1>0, <1>9
  <2> QED
    BY <2>2, <2>3, <2>4
<1> QED
  BY <1>0, <1>5, <1>7, <1>8, <1>10

(* Concatenation: its elements, and when they are different.               *)
LEMMA ConcatFact ==
  ASSUME NEW S, NEW s \in Seq(S), NEW t \in Seq(S)
  PROVE  /\ s \o t \in Seq(S)
         /\ ToSet(s \o t) = ToSet(s) \cup ToSet(t)
         /\ IsInjective(s) /\ IsInjective(t) /\ ToSet(s) \cap ToSet(t) = {}
              => IsInjective(s \o t)
<1>1. PICK m \in Nat, n \in Nat : m = Len(s) /\ n = Len(t)
  OBVIOUS
<1>2. PICK u : u = s \o t
  OBVIOUS
<1>3. /\ u \in Seq(S) /\ Len(u) = m + n
      /\ DOMAIN s = 1 .. m /\ DOMAIN t = 1 .. n /\ DOMAIN u = 1 .. m + n
  BY <1>1, <1>2
<1>4. /\ \A i \in 1 .. m : i \in 1 .. m + n /\ u[i] = s[i]
      /\ \A i \in 1 .. n : m + i \in 1 .. m + n /\ u[m + i] = t[i]
  BY <1>1, <1>2
<1>5. ASSUME NEW i \in 1 .. m + n
      PROVE  i \in 1 .. m \/ \E k \in 1 .. n : i = m + k
  <2>1. CASE i > m
    <3>1. i - m \in 1 .. n /\ i = m + (i - m)
      BY <1>1, <2>1
    <3> QED
      BY <3>1
  <2>2. CASE ~(i > m)
    BY <1>1, <2>2
  <2> QED
    BY <2>1, <2>2
<1>6. ToSet(u) = ToSet(s) \cup ToSet(t)
  <2>1. ASSUME NEW x \in ToSet(u) PROVE x \in ToSet(s) \cup ToSet(t)
    <3>1. PICK i \in 1 .. m + n : x = u[i]
      BY <1>3 DEF ToSet
    <3> QED
      BY <1>3, <1>4, <1>5, <3>1 DEF ToSet
  <2>2. ASSUME NEW x \in ToSet(s) \cup ToSet(t) PROVE x \in ToSet(u)
    BY <1>3, <1>4 DEF ToSet
  <2> QED
    BY <2>1, <2>2
<1>7. ASSUME IsInjective(s), IsInjective(t), ToSet(s) \cap ToSet(t) = {}
      PROVE  IsInjective(u)
  <2>1. /\ \A a, b \in 1 .. m : s[a] = s[b] => a = b
        /\ \A a, b \in 1 .. n : t[a] = t[b] => a = b
        /\ \A a \in 1 .. m, b \in 1 .. n : s[a] # t[b]
    <3>1. \A a, b \in 1 .. m : s[a] = s[b] => a = b
      BY <1>3, <1>7 DEF IsInjective
    <3>2. \A a, b \in 1 .. n : t[a] = t[b] => a = b
      BY <1>3, <1>7 DEF IsInjective
    <3>3. ASSUME NEW a \in 1 .. m, NEW b \in 1 .. n PROVE s[a] # t[b]
      <4>1. s[a] \in ToSet(s) /\ t[b] \in ToSet(t)
        BY <1>3 DEF ToSet
      <4> QED
        BY <1>7, <4>1
    <3> QED
      BY <3>1, <3>2, <3>3
  <2>2. ASSUME NEW a \in 1 .. m + n, NEW b \in 1 .. m + n, u[a] = u[b]
        PROVE  a = b
    <3>1. CASE a \in 1 .. m
      <4>1. CASE b \in 1 .. m
        BY <1>4, <2>1, <2>2, <3>1, <4>1
      <4>2. ASSUME NEW k \in 1 .. n, b = m + k PROVE FALSE
        BY ZenonT(60), <1>4, <2>1, <2>2, <3>1, <4>2
      <4> QED
        BY <1>5, <4>1, <4>2
    <3>2. ASSUME NEW j \in 1 .. n, a = m + j PROVE a = b
      <4>0. u[a] = t[j]
        BY <1>4, <3>2
      <4>1. b \notin 1 .. m
        BY <1>4, <2>1, <2>2, <4>0
      <4>2. ASSUME NEW k \in 1 .. n, b = m + k PROVE a = b
        <5>1. u[b] = t[k]
          BY <1>4, <4>2
        <5>2. j = k
          BY <2>1, <2>2, <4>0, <5>1
        <5> QED
          BY <3>2, <4>2, <5>2
      <4> QED
        BY <1>5, <4>1, <4>2
    <3> QED
      BY <1>5, <3>1, <3>2
  <2> QED
    BY <1>3, <2>2 DEF IsInjective
<1> QED
  BY <1>2, <1>3, <1>6, <1>7

(* FlattenSeq has the elements of all bins; once each if the bins have     *)
(* theirs once each and share none.                                        *)
LEMMA FlattenFact ==
  ASSUME NEW S, NEW bins \in Seq(Seq(S)), bins # <<>>
  PROVE  /\ FlattenSeq(bins) \in Seq(S)
         /\ \A e : e \in ToSet(FlattenSeq(bins)) <=>
                     \E j \in 1 .. Len(bins) : e \in ToSet(bins[j])
         /\ /\ \A j \in 1 .. Len(bins) : IsInjective(bins[j])
            /\ \A j, k \in 1 .. Len(bins) :
                 j # k => ToSet(bins[j]) \cap ToSet(bins[k]) = {}
            => IsInjective(FlattenSeq(bins))
<1>0. PICK n \in Nat \ {0} : n = Len(bins)
  OBVIOUS
<1>1. \A i \in 1 .. n : bins[i] \in Seq(S)
  BY <1>0
<1>2. PICK g \in [1 .. n -> Seq(S)] :
        /\ g[1] = bins[1]
        /\ \A i \in 2 .. n : g[i] = g[i - 1] \o bins[i]
        /\ FlattenSeq(bins) = g[n]
  BY <1>0, FlattenSteps
<1> DEFINE Apart == /\ \A j \in 1 .. n : IsInjective(bins[j])
                    /\ \A j, k \in 1 .. n :
                         j # k => ToSet(bins[j]) \cap ToSet(bins[k]) = {}
           Holds(i) == /\ \A e : e \in ToSet(g[i]) <=>
                                   \E j \in 1 .. i : e \in ToSet(bins[j])
                       /\ Apart => IsInjective(g[i])
<1>3. Holds(1)
  <2>1. \A j : j \in 1 .. 1 <=> j = 1
    OBVIOUS
  <2>2. 1 \in 1 .. n
    BY <1>0
  <2> QED
    BY <1>2, <2>1, <2>2
<1>4. ASSUME NEW i \in 2 .. n, Holds(i - 1) PROVE Holds(i)
  <2>1. /\ i \in 1 .. n /\ i - 1 \in 1 .. n
        /\ \A j : j \in 1 .. i <=> j \in 1 .. i - 1 \/ j = i
        /\ \A j \in 1 .. i - 1 : j \in 1 .. n /\ j # i
    BY <1>0
  <2>2. PICK s \in Seq(S), t \in Seq(S) : s = g[i - 1] /\ t = bins[i] /\ g[i] = s \o t
    BY <1>1, <1>2, <2>1
  <2>3. ToSet(g[i]) = ToSet(s) \cup ToSet(t)
    BY <2>2, ConcatFact
  <2>4. \A e : e \in ToSet(g[i]) <=> \E j \in 1 .. i : e \in ToSet(bins[j])
    BY <1>4, <2>1, <2>2, <2>3
  <2>5. ASSUME Apart PROVE IsInjective(g[i])
    <3>1. IsInjective(s) /\ IsInjective(t)
      BY <1>4, <2>1, <2>2, <2>5
    <3>2. ToSet(s) \cap ToSet(t) = {}
      <4>1. ASSUME NEW e \in ToSet(s), e \in ToSet(t) PROVE FALSE
        <5>1. PICK j \in 1 .. i - 1 : e \in ToSet(bins[j])
          BY <1>4, <2>2
        <5>2. ToSet(bins[j]) \cap ToSet(bins[i]) = {}
          BY <2>1, <2>5
        <5> QED
          BY <2>2, <4>1, <5>1, <5>2
      <4> QED
        BY <4>1
    <3> QED
      BY <2>2, <3>1, <3>2, ConcatFact
  <2> QED
    BY <2>4, <2>5
<1> HIDE DEF Holds
<1>5. Holds(n)
  <2>1. PICK T : T = {m \in 1 .. n : ~Holds(m)}
    OBVIOUS
  <2> SUFFICES ASSUME T # {} PROVE FALSE
    BY <1>0, <2>1
  <2>2. PICK m \in T : \A j \in T : m <= j
    <3>1. T \in SUBSET Nat
      BY <1>0, <2>1
    <3> QED
      BY <3>1, LeastOf, Zenon
  <2>3. m # 1
    BY <1>3, <2>1
  <2>4. m \in 2 .. n /\ m - 1 \in 1 .. n /\ m - 1 \notin T
    BY <1>0, <2>1, <2>2, <2>3
  <2>5. Holds(m - 1)
    BY <2>1, <2>4
  <2> QED
    BY <1>4, <2>1, <2>4, <2>5
<1>6. g[n] \in Seq(S)
  BY <1>0, <1>2
<1> QED
  BY <1>0, <1>2, <1>5, <1>6 DEF Holds

(* Appending is concatenating.                                             *)
LEMMA AppendConcat ==
  ASSUME NEW S, NEW s \in Seq(S), NEW e \in S
  PROVE  Append(s, e) = s \o <<e>> /\ <<e>> \in Seq(S)
  OBVIOUS

(* A sequence without its first element.                                   *)
LEMMA TailFact ==
  ASSUME NEW S, NEW s \in Seq(S), s # <<>>
  PROVE  /\ Tail(s) \in Seq(S)
         /\ Len(Tail(s)) = Len(s) - 1
         /\ Len(s) \in Nat \ {0}
         /\ \A i \in 1 .. Len(s) - 1 : Tail(s)[i] = s[i + 1]
  OBVIOUS

(* A sequence of one.                                                      *)
LEMMA OneFact ==
  ASSUME NEW e
  PROVE  ToSet(<<e>>) = {e} /\ IsInjective(<<e>>)
  BY DEF ToSet, IsInjective

(* A sequence without repetition is as long as its set of elements.        *)
LEMMA LenCardinality ==
  ASSUME NEW S, NEW s \in Seq(S), IsInjective(s)
  PROVE  IsFiniteSet(ToSet(s)) /\ Cardinality(ToSet(s)) = Len(s)
<1>1. PICK n \in Nat : n = Len(s)
  OBVIOUS
<1>2. DOMAIN s = 1 .. n /\ s = [i \in 1 .. n |-> s[i]]
  BY <1>1
<1>3. IsFiniteSet(1 .. n) /\ Cardinality(1 .. n) = n
  <2>1. 1 \in Int /\ n \in Int
    OBVIOUS
  <2>2. IsFiniteSet(1 .. n) /\ Cardinality(1 .. n) = IF 1 > n THEN 0 ELSE n - 1 + 1
    BY <2>1, FS_Interval
  <2> QED
    BY <2>2
<1>4. PICK D : D = 1 .. n
  OBVIOUS
<1>5. s \in Bijection(D, ToSet(s))
  <2>1. s \in [D -> ToSet(s)]
    BY <1>2, <1>4 DEF ToSet
  <2>2. \A a, b \in D : s[a] = s[b] => a = b
    BY <1>2, <1>4 DEF IsInjective
  <2>3. \A x \in ToSet(s) : \E a \in D : s[a] = x
    BY <1>2, <1>4 DEF ToSet
  <2> QED
    BY <2>1, <2>2, <2>3 DEF Bijection, Injection, Surjection, IsInjective
<1>6. ExistsBijection(D, ToSet(s))
  BY <1>5 DEF ExistsBijection
<1>7. IsFiniteSet(D) /\ Cardinality(D) = n
  BY <1>3, <1>4
<1>8. IsFiniteSet(ToSet(s)) /\ Cardinality(ToSet(s)) = Cardinality(D)
  BY <1>6, <1>7, FS_Bijection
<1> QED
  BY <1>1, <1>7, <1>8

(* Reversing keeps the elements.                                           *)
LEMMA ReverseFact ==
  ASSUME NEW S, NEW s \in Seq(S)
  PROVE  /\ Reverse(s) \in Seq(S)
         /\ ToSet(Reverse(s)) = ToSet(s)
         /\ IsInjective(s) => IsInjective(Reverse(s))
<1>1. PICK n \in Nat : n = Len(s)
  OBVIOUS
<1>2. PICK r : r = Reverse(s)
  OBVIOUS
<1>3. r = [i \in 1 .. n |-> s[(n - i) + 1]]
  BY <1>1, <1>2 DEF Reverse
<1>4. \A i \in 1 .. n : (n - i) + 1 \in 1 .. n
  OBVIOUS
<1>5. r \in Seq(S) /\ DOMAIN r = 1 .. n /\ DOMAIN s = 1 .. n
  BY <1>1, <1>3, <1>4
<1>6. ToSet(r) = ToSet(s)
  <2>1. ASSUME NEW x \in ToSet(r) PROVE x \in ToSet(s)
    <3>1. PICK i \in 1 .. n : x = r[i]
      BY <1>5 DEF ToSet
    <3>2. x = s[(n - i) + 1]
      BY <1>3, <3>1
    <3> QED
      BY <1>4, <1>5, <3>2 DEF ToSet
  <2>2. ASSUME NEW x \in ToSet(s) PROVE x \in ToSet(r)
    <3>1. PICK i \in 1 .. n : x = s[i]
      BY <1>5 DEF ToSet
    <3>2. PICK k \in 1 .. n : k = (n - i) + 1
      BY <1>4
    <3>3. (n - k) + 1 = i
      BY <3>2
    <3>4. x = r[k]
      BY <1>3, <3>1, <3>3
    <3> QED
      BY <1>5, <3>4 DEF ToSet
  <2> QED
    BY <2>1, <2>2
<1>7. ASSUME IsInjective(s) PROVE IsInjective(r)
  <2>1. ASSUME NEW a \in 1 .. n, NEW b \in 1 .. n, r[a] = r[b] PROVE a = b
    <3>1. s[(n - a) + 1] = s[(n - b) + 1]
      BY <1>3, <2>1
    <3>2. (n - a) + 1 = (n - b) + 1
      BY <1>4, <1>5, <1>7, <3>1 DEF IsInjective
    <3> QED
      BY <3>2
  <2> QED
    BY <1>5, <2>1 DEF IsInjective
<1> QED
  BY <1>2, <1>5, <1>6, <1>7

-----------------------------------------------------------------------------
(* The chunk allocator: an element taken was in nobody's hands, elements   *)
(* released are free again, none is lost.                                  *)

AllocTyped == chunks \in Nat /\ top \in Seq(Elements)

(* Taking: e is new to the used elements U.                                *)
LEMMA TakeFact ==
  ASSUME NEW U, AllocTyped, Accounted(U), Take, NEW e, e = Taken
  PROVE  AllocTyped' /\ Accounted(U \cup {e})' /\ e \notin U
<1>0. PICK c \in Nat, m \in Nat \ {0} : c = chunks /\ m = chunk_count
  BY ChunkAssumption DEF AllocTyped
<1>1. PICK E : E = Elements
  OBVIOUS
<1>2. E = (1 .. c) \X (1 .. m) /\ top \in Seq(E)
  BY <1>0, <1>1 DEF Elements, AllocTyped
<1>3. IsInjective(top) /\ ToSet(top) \cap U = {} /\ ToSet(top) \cup U = E
  BY <1>1 DEF Accounted
<1>4. CASE top # <<>>
  <2>0. PICK w \in Seq(E) : w = top
    BY <1>2
  <2>1. PICK t \in Seq(E) : t = Tail(w)
    BY <1>4, <2>0, TailFact
  <2>2. PICK n \in Nat : n = Len(t)
    OBVIOUS
  <2>3. /\ DOMAIN top = 1 .. n + 1 /\ DOMAIN t = 1 .. n /\ top[1] = e
        /\ \A i \in 1 .. n : t[i] = top[i + 1]
    <3>1. /\ n = Len(w) - 1 /\ Len(w) \in Nat \ {0}
          /\ \A i \in 1 .. Len(w) - 1 : t[i] = w[i + 1]
      BY <1>4, <2>0, <2>1, <2>2, TailFact
    <3>2. e = Head(w)
      BY <1>4, <2>0 DEF Taken
    <3>3. Head(w) = w[1]
      BY <1>4, <2>0
    <3>4. Len(w) = n + 1 /\ DOMAIN w = 1 .. Len(w) /\ DOMAIN t = 1 .. n
      <4>1. Len(w) = n + 1
        BY <3>1
      <4>2. DOMAIN w = 1 .. Len(w)
        OBVIOUS
      <4>3. DOMAIN t = 1 .. n
        BY <2>2
      <4> QED
        BY <4>1, <4>2, <4>3
    <3> QED
      BY <2>0, <3>1, <3>2, <3>3, <3>4
  <2>4. IsInjective(t)
    <3>1. ASSUME NEW a \in 1 .. n, NEW b \in 1 .. n, t[a] = t[b] PROVE a = b
      <4>1. a + 1 \in 1 .. n + 1 /\ b + 1 \in 1 .. n + 1 /\ top[a + 1] = top[b + 1]
        BY <2>2, <2>3, <3>1
      <4>2. a + 1 = b + 1
        BY <1>3, <2>3, <4>1 DEF IsInjective
      <4> QED
        BY <4>2
    <3> QED
      BY <2>3, <3>1 DEF IsInjective
  <2>5. e \notin ToSet(t)
    <3>1. ASSUME NEW a \in 1 .. n, t[a] = e PROVE FALSE
      <4>1. a + 1 \in 1 .. n + 1 /\ 1 \in 1 .. n + 1 /\ top[a + 1] = top[1]
        BY <2>2, <2>3, <3>1
      <4>2. a + 1 = 1
        BY <1>3, <2>3, <4>1 DEF IsInjective
      <4> QED
        BY <4>2
    <3> QED
      BY <2>3, <3>1 DEF ToSet
  <2>6. ToSet(top) = ToSet(t) \cup {e}
    <3>1. \A i \in 1 .. n + 1 : i = 1 \/ (i - 1 \in 1 .. n /\ (i - 1) + 1 = i)
      BY <2>2
    <3>2. \A i \in 1 .. n : i + 1 \in 1 .. n + 1
      BY <2>2
    <3>3. 1 \in 1 .. n + 1
      BY <2>2
    <3>4. ASSUME NEW x \in ToSet(top) PROVE x \in ToSet(t) \cup {e}
      <4>1. PICK i \in 1 .. n + 1 : x = top[i]
        BY <2>3 DEF ToSet
      <4>2. CASE i = 1
        BY <2>3, <4>1, <4>2
      <4>3. CASE i # 1
        <5>1. PICK k \in 1 .. n : k = i - 1 /\ k + 1 = i
          BY <3>1, <4>3
        <5>2. x = t[k]
          BY <2>3, <4>1, <5>1
        <5> QED
          BY <2>3, <5>2 DEF ToSet
      <4> QED
        BY <4>2, <4>3
    <3>5. ASSUME NEW x \in ToSet(t) PROVE x \in ToSet(top)
      <4>1. PICK i \in 1 .. n : x = t[i]
        BY <2>3 DEF ToSet
      <4> QED
        BY <2>3, <3>2, <4>1 DEF ToSet
    <3>6. e \in ToSet(top)
      BY <2>3, <3>3 DEF ToSet
    <3> QED
      BY <3>4, <3>5, <3>6
  <2>7. top' = t /\ chunks' = c /\ Elements' = E
    BY <1>0, <1>1, <1>4, <2>0, <2>1 DEF Take, Elements
  <2> QED
    BY <1>0, <1>3, <2>1, <2>4, <2>5, <2>6, <2>7 DEF AllocTyped, Accounted
<1>5. CASE top = <<>>
  <2>1. ToSet(top) = {}
    BY <1>5 DEF ToSet
  <2>2. U = E
    BY <1>3, <2>1
  <2>3. e = <<c + 1, 1>>
    BY <1>0, <1>5 DEF Taken
  <2>4. PICK F : F = (1 .. c + 1) \X (1 .. m)
    OBVIOUS
  <2>5. PICK k : k = alloc_chunk(chunks + 1)
    OBVIOUS
  <2>6. k = [i \in 1 .. m |-> <<c + 1, i>>]
    BY <1>0, <2>5 DEF alloc_chunk
  <2>7. \A i \in 1 .. m : <<c + 1, i>> \in F
    BY <1>0, <2>4
  <2>8. k \in Seq(F) /\ Len(k) = m /\ k # <<>>
    <3>1. k \in [1 .. m -> F]
      BY <2>6, <2>7
    <3>2. k \in Seq(F) /\ DOMAIN k = 1 .. m
      BY <1>0, <3>1
    <3> QED
      BY <1>0, <3>2
  <2>9. PICK t \in Seq(F) : t = Tail(k)
    BY <2>8, TailFact
  <2>10. /\ DOMAIN t = 1 .. m - 1
         /\ \A i \in 1 .. m - 1 : t[i] = <<c + 1, i + 1>>
    <3>1. Len(t) = m - 1 /\ \A i \in 1 .. m - 1 : t[i] = k[i + 1]
      BY <2>8, <2>9, TailFact
    <3>2. \A i \in 1 .. m - 1 : i + 1 \in 1 .. m
      BY <1>0
    <3> QED
      BY <2>6, <2>9, <3>1, <3>2
  <2>11. IsInjective(t)
    BY <2>10 DEF IsInjective
  <2>12. ASSUME NEW x
         PROVE  x \in ToSet(t) <=> \E i \in 2 .. m : x = <<c + 1, i>>
    <3>1. \A i \in 2 .. m : i - 1 \in 1 .. m - 1 /\ (i - 1) + 1 = i
      BY <1>0
    <3>2. \A i \in 1 .. m - 1 : i + 1 \in 2 .. m
      BY <1>0
    <3>3. ASSUME x \in ToSet(t) PROVE \E i \in 2 .. m : x = <<c + 1, i>>
      <4>1. PICK i \in 1 .. m - 1 : x = t[i]
        BY <2>10, <3>3 DEF ToSet
      <4> QED
        BY <2>10, <3>2, <4>1
    <3>4. ASSUME NEW i \in 2 .. m, x = <<c + 1, i>> PROVE x \in ToSet(t)
      <4>1. PICK k1 \in 1 .. m - 1 : k1 + 1 = i
        BY <3>1
      <4>2. t[k1] = x
        BY <2>10, <3>4, <4>1
      <4> QED
        BY <2>10, <4>2 DEF ToSet
    <3> QED
      BY <3>3, <3>4
  <2>13. F = E \cup {<<c + 1, i>> : i \in 1 .. m}
    <3>1. \A i : i \in 1 .. c + 1 <=> i \in 1 .. c \/ i = c + 1
      BY <1>0
    <3> QED
      BY <1>2, <2>4, <3>1
  <2>14. \A i : i \in 1 .. m <=> i = 1 \/ i \in 2 .. m
    BY <1>0
  <2>15. ToSet(t) \cup (U \cup {e}) = F
    BY <2>2, <2>3, <2>12, <2>13, <2>14
  <2>16. c + 1 \notin 1 .. c
    BY <1>0
  <2>17. e \notin U
    BY <1>2, <2>2, <2>3, <2>16
  <2>18. ToSet(t) \cap (U \cup {e}) = {}
    <3>1. ASSUME NEW i \in 2 .. m PROVE <<c + 1, i>> \notin E /\ <<c + 1, i>> # <<c + 1, 1>>
      BY <1>2, <2>16
    <3> QED
      BY <2>2, <2>3, <2>12, <3>1
  <2>19. top' = t /\ chunks' = c + 1 /\ Elements' = F
    BY <1>0, <1>5, <2>4, <2>5, <2>9 DEF Take, Elements
  <2> QED
    BY <1>0, <2>9, <2>11, <2>15, <2>17, <2>18, <2>19 DEF AllocTyped, Accounted
<1> QED
  BY <1>4, <1>5

(* Releasing: the elements of s are no longer used.                        *)
LEMMA ReleaseFact ==
  ASSUME NEW U, NEW s \in Seq(U), IsInjective(s), AllocTyped, Accounted(U),
         Release(s)
  PROVE  AllocTyped' /\ Accounted(U \ ToSet(s))'
<1>1. PICK E : E = Elements
  OBVIOUS
<1>2. /\ IsInjective(top) /\ ToSet(top) \cap U = {} /\ ToSet(top) \cup U = E
      /\ top \in Seq(E) /\ chunks \in Nat
  BY <1>1 DEF Accounted, AllocTyped
<1>3. s \in Seq(E)
  BY <1>2
<1>4. PICK r \in Seq(E) : r = Reverse(s) /\ ToSet(r) = ToSet(s) /\ IsInjective(r)
  BY <1>3, ReverseFact
<1>5. ToSet(s) \subseteq U
  BY DEF ToSet
<1>6. PICK t : t = r \o top
  OBVIOUS
<1>7. t \in Seq(E) /\ ToSet(t) = ToSet(s) \cup ToSet(top) /\ IsInjective(t)
  BY <1>2, <1>4, <1>5, <1>6, ConcatFact
<1>8. top' = t /\ chunks' = chunks /\ Elements' = E
  BY <1>1, <1>4, <1>6 DEF Release, Elements
<1> QED
  BY <1>2, <1>5, <1>7, <1>8 DEF AllocTyped, Accounted

(* A first chunk's elements are all free.                                  *)
LEMMA FirstChunk ==
  ASSUME NEW t, t = alloc_chunk(1), NEW E, E = (1 .. 1) \X (1 .. chunk_count)
  PROVE  t \in Seq(E) /\ IsInjective(t) /\ ToSet(t) = E
<1>1. PICK m \in Nat \ {0} : m = chunk_count
  BY ChunkAssumption
<1>2. t = [i \in 1 .. m |-> <<1, i>>]
  BY <1>1 DEF alloc_chunk
<1>3. t \in [1 .. m -> E]
  BY <1>1, <1>2
<1>4. t \in Seq(E) /\ DOMAIN t = 1 .. m
  BY <1>1, <1>3
<1>5. IsInjective(t)
  BY <1>2, <1>4 DEF IsInjective
<1>6. ToSet(t) = E
  <2>1. \A x \in E : \E i \in 1 .. m : x = <<1, i>>
    BY <1>1
  <2>2. ToSet(t) = {<<1, i>> : i \in 1 .. m}
    BY <1>2, <1>4 DEF ToSet
  <2>3. \A i \in 1 .. m : <<1, i>> \in E
    BY <1>1
  <2> QED
    BY <2>1, <2>2, <2>3
<1> QED
  BY <1>4, <1>5, <1>6
=============================================================================
