-------------------------- MODULE NprContainersProofs --------------------------
(***************************************************************************)
(* Proofs about NprContainers, for any addresses, values, names, sizes and *)
(* bounds.                                                                 *)
(***************************************************************************)
EXTENDS NprContainers, NprChunkAllocProofs, SequenceTheorems

-----------------------------------------------------------------------------
(* Sequences.                                                              *)

(* SetToSeq lists a finite set, each element once.                         *)
LEMMA SetToSeqFact ==
  ASSUME NEW S, IsFiniteSet(S)
  PROVE  /\ IsInjective(SetToSeq(S)) /\ ToSet(SetToSeq(S)) = S
         /\ SetToSeq(S) \in Seq(S)
<1>1. PICK n \in Nat : ExistsBijection(1 .. n, S)
  BY FS_NatBijection
<1>2. Cardinality(S) = n
  BY <1>1, FS_CountingElements
<1>3. PICK g : g \in [1 .. n -> S] /\ IsInjective(g)
  BY <1>1 DEF ExistsBijection, Bijection, Injection
<1>4. PICK f : f = SetToSeq(S)
  OBVIOUS
<1>5. f \in [1 .. n -> S] /\ IsInjective(f)
  BY <1>2, <1>3, <1>4, Zenon DEF SetToSeq
<1>6. Cardinality(1 .. n) = n /\ IsFiniteSet(1 .. n)
  BY FS_Interval
<1>7. f \in Injection(1 .. n, S)
  BY <1>5 DEF Injection
<1>8. IsFiniteSet(1 .. n) /\ Cardinality(1 .. n) = Cardinality(S)
  BY <1>2, <1>6
<1>9. f \in Surjection(1 .. n, S)
  BY <1>7, <1>8, FS_Injection
<1>10. ToSet(f) = S
  BY <1>5, <1>9 DEF Surjection, ToSet
<1>11. f \in Seq(S)
  BY <1>5
<1> QED
  BY <1>4, <1>5, <1>10, <1>11

(* A walk of FOR_EACH along es, whose links are in order, visits es.       *)
LEMMA FollowFact ==
  ASSUME NEW S, NEW es \in Seq(S), NEW link, NEW first, NEW end,
         end \notin ToSet(es),
         first = IF Len(es) = 0 THEN end ELSE es[1],
         \A i \in 1 .. Len(es) : link[es[i]] = IF i = Len(es) THEN end ELSE es[i + 1]
  PROVE  Follow(link, first, end, Len(es)) = es
<1>0. PICK n \in Nat : n = Len(es)
  OBVIOUS
<1>1. DOMAIN es = 1 .. n /\ \A i \in 1 .. n : es[i] # end
  BY <1>0 DEF ToSet
<1> DEFINE Next1(f, i) == IF i = 0 THEN first
                          ELSE IF f[i - 1] = end THEN end ELSE link[f[i - 1]]
           Is(f) == f = [i \in 0 .. n |-> Next1(f, i)]
           v == CHOOSE f : Is(f)
<1>2. PICK w : w = [i \in 0 .. n |-> IF i = n THEN end ELSE es[i + 1]]
  OBVIOUS
<1>3. Is(w)
  <2>1. ASSUME NEW i \in 0 .. n PROVE w[i] = Next1(w, i)
    <3>1. CASE i = 0
      BY <1>0, <1>2, <3>1
    <3>2. CASE i # 0
      <4>1. PICK k \in 1 .. n : k = i /\ i - 1 \in 0 .. n /\ i - 1 # n /\ (i - 1) + 1 = k
        BY <3>2
      <4>2. w[i - 1] = es[k]
        BY <1>2, <4>1
      <4>3. link[es[k]] = w[k]
        BY <1>0, <1>2, <4>1
      <4> QED
        BY <1>1, <3>2, <4>1, <4>2, <4>3
    <3> QED
      BY <3>1, <3>2
  <2> QED
    BY <1>2, <2>1
<1>4. Is(v)
  <2> HIDE DEF Is
  <2> QED
    BY <1>3, Zenon
<1> HIDE DEF v
<1>5. \A i \in 0 .. n : v[i] = w[i]
  <2>1. v[0] = w[0]
    <3>1. v[0] = Next1(v, 0) /\ w[0] = Next1(w, 0)
      BY <1>3, <1>4
    <3> QED
      BY <3>1
  <2>2. \A i \in 0 .. n - 1 : v[i] = w[i] => v[i + 1] = w[i + 1]
    <3>1. ASSUME NEW i \in 0 .. n - 1, v[i] = w[i] PROVE v[i + 1] = w[i + 1]
      <4>1. i + 1 \in 0 .. n /\ i + 1 # 0 /\ (i + 1) - 1 = i
        OBVIOUS
      <4>2. v[i + 1] = Next1(v, i + 1) /\ w[i + 1] = Next1(w, i + 1)
        BY <1>3, <1>4, <4>1
      <4> QED
        BY <3>1, <4>1, <4>2
    <3> QED
      BY <3>1
  <2> DEFINE T == {i \in 0 .. n : v[i] # w[i]}
  <2>3. PICK U : U = T
    OBVIOUS
  <2>4. U \in SUBSET Nat
    BY <2>3
  <2>5. U = {}
    <3> SUFFICES ASSUME U # {} PROVE FALSE
      OBVIOUS
    <3>1. PICK x \in U : \A y \in U : x <= y
      BY <2>4, LeastOf, Zenon
    <3>2. x \in 0 .. n /\ v[x] # w[x]
      BY <2>3
    <3>3. x # 0
      BY <2>1, <3>2
    <3>4. x - 1 \in 0 .. n - 1 /\ x - 1 \notin U /\ (x - 1) + 1 = x
      BY <3>1, <3>2, <3>3
    <3>5. v[x - 1] = w[x - 1]
      BY <2>3, <3>4
    <3> QED
      BY <2>2, <3>2, <3>4, <3>5
  <2> QED
    BY <2>3, <2>5
<1> DEFINE over == {i \in 0 .. n : v[i] = end}
<1>6. over = {n}
  <2>1. n \in 0 .. n /\ v[n] = end
    BY <1>2, <1>5
  <2>2. ASSUME NEW i \in 0 .. n, i # n PROVE v[i] # end
    <3>1. i + 1 \in 1 .. n /\ w[i] = es[i + 1]
      BY <1>2, <2>2
    <3> QED
      BY <1>1, <1>5, <3>1
  <2> QED
    BY <2>1, <2>2
<1>7. Min(over) = n
  BY <1>6 DEF Min
<1>8. Follow(link, first, end, n) =
        [i \in 1 .. (IF over = {} THEN n ELSE Min(over)) |-> v[i - 1]]
  BY DEF Follow, v
<1>9. Follow(link, first, end, n) = [i \in 1 .. n |-> v[i - 1]]
  BY <1>6, <1>7, <1>8
<1>10. ASSUME NEW i \in 1 .. n PROVE v[i - 1] = es[i]
  <2>1. i - 1 \in 0 .. n /\ i - 1 # n /\ (i - 1) + 1 = i
    OBVIOUS
  <2> QED
    BY <1>2, <1>5, <2>1
<1>11. es = [i \in 1 .. n |-> es[i]]
  BY <1>1
<1>12. Follow(link, first, end, n) = es
  BY <1>9, <1>10, <1>11
<1> QED
  BY <1>0, <1>12

(* A sequence of one element.                                              *)
LEMMA SingleFact ==
  ASSUME NEW S, NEW e \in S
  PROVE  <<e>> \in Seq(S) /\ Len(<<e>>) = 1 /\ <<e>>[1] = e
  OBVIOUS

(* A sequence with one more element.                                       *)
LEMMA AppendFact ==
  ASSUME NEW S, NEW s \in Seq(S), NEW e \in S
  PROVE  LET t == Append(s, e)
         IN  /\ t \in Seq(S) /\ Len(t) = Len(s) + 1
             /\ DOMAIN t = 1 .. Len(s) + 1 /\ t = [i \in DOMAIN t |-> t[i]]
             /\ t[Len(s) + 1] = e /\ \A i \in 1 .. Len(s) : t[i] = s[i]
<1>1. PICK t \in Seq(S) : t = Append(s, e)
  BY AppendProperties, Zenon
<1>2. Len(t) = Len(s) + 1 /\ t[Len(s) + 1] = e /\ \A i \in 1 .. Len(s) : t[i] = s[i]
  BY <1>1, AppendProperties
<1>3. DOMAIN t = 1 .. Len(t) /\ t = [i \in DOMAIN t |-> t[i]]
  OBVIOUS
<1> QED
  BY <1>1, <1>2, <1>3

-----------------------------------------------------------------------------
(* Storage.                                                                *)

(* realloc keeps what fits.                                                *)
LEMMA ResizedFact ==
  ASSUME NEW V, Junk \in V, NEW m \in Nat, NEW n \in Nat,
         NEW cells \in [1 .. m -> V]
  PROVE  /\ Resized(cells, n) \in [1 .. n -> V]
         /\ \A i \in 1 .. n : i <= m => Resized(cells, n)[i] = cells[i]
  BY DEF Resized

(* A write that ends within the storage writes there, and there only.      *)
LEMMA WrittenFact ==
  ASSUME NEW V, NEW m \in Nat, NEW cells \in [1 .. m -> V],
         NEW k \in Nat \ {0}, NEW s \in Seq(V), k + Len(s) <= m + 1
  PROVE  /\ Written(cells, k, s) \in [1 .. m -> V]
         /\ \A j \in 1 .. m : j < k => Written(cells, k, s)[j] = cells[j]
         /\ \A i \in 1 .. Len(s) : Written(cells, k, s)[k + i - 1] = s[i]
<1>1. PICK n \in Nat : n = Len(s)
  OBVIOUS
<1>2. PICK w : w = Written(cells, k, s)
  OBVIOUS
<1>3. 1 .. m \cup (k .. k + n - 1) = 1 .. m
  BY <1>1
<1>4. w = [j \in 1 .. m |-> IF j \in k .. k + n - 1 THEN s[j - k + 1] ELSE cells[j]]
  BY <1>1, <1>2, <1>3 DEF Written
<1>5. \A j \in 1 .. m : j \in k .. k + n - 1 => j - k + 1 \in 1 .. n
  OBVIOUS
<1>6. \A i \in 1 .. n : s[i] \in V
  BY <1>1
<1>7. w \in [1 .. m -> V]
  BY <1>4, <1>5, <1>6
<1>8. \A j \in 1 .. m : j < k => w[j] = cells[j]
  BY <1>4
<1>9. ASSUME NEW i \in 1 .. n PROVE w[k + i - 1] = s[i]
  <2>1. k + i - 1 \in 1 .. m /\ k + i - 1 \in k .. k + n - 1
        /\ (k + i - 1) - k + 1 = i
    BY <1>1
  <2> QED
    BY <1>4, <2>1
<1> QED
  BY <1>1, <1>2, <1>7, <1>8, <1>9

-----------------------------------------------------------------------------
(* Arrays.                                                                 *)

(* An array of elements of V, some of them maybe never written.            *)
Array(a, V) ==
  /\ a = [nelem |-> a.nelem, size |-> a.size, cells |-> a.cells, at |-> a.at]
  /\ a.nelem \in Nat /\ a.size \in Nat /\ a.nelem <= a.size
  /\ a.cells \in [1 .. a.size -> V]

(* What an array holds.                                                    *)
LEMMA ElementsFact ==
  ASSUME NEW V, NEW a, Array(a, V)
  PROVE  /\ VaElements(a) \in Seq(V)
         /\ Len(VaElements(a)) = a.nelem
         /\ DOMAIN VaElements(a) = 1 .. a.nelem
         /\ \A i \in 1 .. a.nelem : VaElements(a)[i] = a.cells[i]
<1>0. PICK n \in Nat, m \in Nat : n = a.nelem /\ m = a.size /\ n <= m
  BY DEF Array
<1>1. PICK f \in [1 .. m -> V] : n = a.nelem /\ m = a.size /\ f = a.cells /\ n <= m
  BY <1>0 DEF Array
<1>2. PICK g : g = VaElements(a)
  OBVIOUS
<1>3. g = [i \in 1 .. n |-> f[i]]
  BY <1>1, <1>2 DEF VaElements
<1>4. g \in [1 .. n -> V]
  BY <1>1, <1>3
<1>5. g \in Seq(V) /\ Len(g) = n
  BY <1>4
<1> QED
  BY <1>1, <1>2, <1>3, <1>5

(* A new array holds nothing.                                              *)
LEMMA NewArray ==
  ASSUME NEW V, Junk \in V, NEW n \in Nat, NEW at, NEW a, a = varray_init(n, at)
  PROVE  /\ Array(a, V) /\ a.nelem = 0 /\ a.size = n /\ a.at = at
         /\ VaElements(a) = <<>>
<1>1. /\ a = [nelem |-> 0, size |-> n, cells |-> Storage(n), at |-> at]
  BY DEF varray_init
<1>2. Storage(n) \in [1 .. n -> V]
  BY DEF Storage
<1>3. Array(a, V) /\ a.nelem = 0 /\ a.size = n /\ a.at = at
  BY <1>1, <1>2 DEF Array
<1>4. VaElements(a) = <<>>
  BY <1>3 DEF VaElements
<1> QED
  BY <1>3, <1>4

(* A push adds at the end and keeps the rest, grown or not.                *)
LEMMA PushFact ==
  ASSUME NEW V, Junk \in V, NEW a, Array(a, V), a.size > 0, NEW e \in V, NEW at,
         NEW b, b = VA_PUSH(a, e, at)
  PROVE  /\ Array(b, V) /\ b.nelem = a.nelem + 1
         /\ b.at = IF Full(a) THEN at ELSE a.at
         /\ VaElements(b) = Append(VaElements(a), e)
<1>0. PICK n \in Nat, m \in Nat : n = a.nelem /\ m = a.size /\ n <= m
  BY DEF Array
<1>1. PICK f \in [1 .. m -> V] : n = a.nelem /\ m = a.size /\ f = a.cells /\ n <= m
  BY <1>0 DEF Array
<1>2a. PICK k \in Nat : k = IF Full(a) THEN 2 * m ELSE m
  OBVIOUS
<1>2. PICK g, p : /\ g = (IF Full(a) THEN Resized(f, 2 * m) ELSE f)
                  /\ p = (IF Full(a) THEN at ELSE a.at)
                  /\ k = (IF Full(a) THEN 2 * m ELSE m)
  BY <1>2a
<1>3. VA_NEWELEM(a, at) = [nelem |-> n + 1, size |-> k, cells |-> g, at |-> p]
  <2>1. a = [nelem |-> n, size |-> m, cells |-> f, at |-> a.at]
    BY <1>1 DEF Array
  <2>2. CASE Full(a)
    <3>1. varray_realloc(a, at) = [nelem |-> n, size |-> k, cells |-> g, at |-> p]
      BY <1>1, <1>2, <2>2 DEF varray_realloc, Kept
    <3>2. VA_NEWELEM(a, at) = [varray_realloc(a, at) EXCEPT !.nelem = @ + 1]
      BY <2>2 DEF VA_NEWELEM
    <3> QED
      BY <3>1, <3>2
  <2>3. CASE ~Full(a)
    BY <1>2, <2>1, <2>3 DEF VA_NEWELEM
  <2> QED
    BY <2>2, <2>3
<1>4. n + 1 <= k
  BY <1>1, <1>2 DEF Full
<1>5. g \in [1 .. k -> V] /\ \A i \in 1 .. n : g[i] = f[i]
  <2>1. \A i \in 1 .. n : i \in 1 .. 2 * m /\ i <= m
    BY <1>1
  <2>2. 2 * m \in Nat
    OBVIOUS
  <2>3. /\ Resized(f, 2 * m) \in [1 .. 2 * m -> V]
        /\ \A i \in 1 .. 2 * m : i <= m => Resized(f, 2 * m)[i] = f[i]
    BY <2>2, ResizedFact
  <2> QED
    BY <1>2, <2>1, <2>3
<1>6. PICK u \in Seq(V) : u = <<e>> /\ Len(u) = 1 /\ u[1] = e
  BY SingleFact, Zenon
<1>7. PICK w : w = Written(g, n + 1, u)
  OBVIOUS
<1>8. w \in [1 .. k -> V] /\ (\A i \in 1 .. n : w[i] = f[i]) /\ w[n + 1] = e
  <2>1. n + 1 \in Nat \ {0} /\ (n + 1) + 1 <= k + 1 /\ 1 \in 1 .. 1
        /\ ((n + 1) + 1) - 1 = n + 1 /\ (n + 1) + Len(u) <= k + 1
    BY <1>4, <1>6
  <2>2. /\ w \in [1 .. k -> V]
        /\ \A j \in 1 .. k : j < n + 1 => w[j] = g[j]
        /\ \A i \in 1 .. 1 : w[((n + 1) + i) - 1] = u[i]
    <3>1. PICK q \in Nat \ {0} : q = n + 1 /\ q + Len(u) <= k + 1
      BY <2>1
    <3>2. PICK h \in [1 .. k -> V] : h = g
      BY <1>5
    <3>3. /\ Written(h, q, u) \in [1 .. k -> V]
          /\ \A j \in 1 .. k : j < q => Written(h, q, u)[j] = h[j]
          /\ \A i \in 1 .. Len(u) : Written(h, q, u)[q + i - 1] = u[i]
      BY SMTT(30), <3>1, WrittenFact
    <3> QED
      BY <1>6, <1>7, <3>1, <3>2, <3>3
  <2>3. w[n + 1] = e
    BY <1>6, <2>1, <2>2
  <2>4. \A i \in 1 .. n : i \in 1 .. k /\ i < n + 1
    BY <1>4
  <2> QED
    BY <1>5, <2>2, <2>3, <2>4
<1>9. b = [nelem |-> n + 1, size |-> k, cells |-> w, at |-> p]
  BY <1>3, <1>6, <1>7 DEF VA_PUSH
<1>10. Array(b, V) /\ b.nelem = n + 1 /\ b.at = p /\ b.cells = w
  BY <1>4, <1>8, <1>9 DEF Array
<1>11. VaElements(b) = Append(VaElements(a), e)
  <2>1. PICK s \in Seq(V) : s = VaElements(a)
    BY ElementsFact
  <2>2. Len(s) = n /\ \A i \in 1 .. n : s[i] = f[i]
    BY <1>1, <2>1, ElementsFact
  <2>3. VaElements(b) = [i \in 1 .. n + 1 |-> w[i]]
    BY <1>10 DEF VaElements
  <2>4. Append(s, e) = [i \in 1 .. n + 1 |-> IF i = n + 1 THEN e ELSE s[i]]
    <3>1. PICK t : t = Append(s, e)
      OBVIOUS
    <3>2. /\ DOMAIN t = 1 .. n + 1 /\ t = [i \in DOMAIN t |-> t[i]]
          /\ t[n + 1] = e /\ \A i \in 1 .. n : t[i] = s[i]
      BY <2>2, <3>1, AppendFact
    <3>3. t = [i \in 1 .. n + 1 |-> t[i]]
      BY <3>2
    <3>4. \A i \in 1 .. n + 1 : i # n + 1 => i \in 1 .. n
      OBVIOUS
    <3>5. \A i \in 1 .. n + 1 : t[i] = IF i = n + 1 THEN e ELSE s[i]
      BY <3>2, <3>4, Zenon
    <3> QED
      BY <3>1, <3>3, <3>5
  <2>5. \A i \in 1 .. n + 1 : w[i] = IF i = n + 1 THEN e ELSE s[i]
    BY <1>8, <2>2
  <2> QED
    BY <2>1, <2>3, <2>4, <2>5
<1> QED
  BY <1>1, <1>2, <1>10, <1>11

(* A pop takes the last element.                                           *)
LEMMA PopFact ==
  ASSUME NEW V, NEW a, Array(a, V), a.nelem > 0, NEW b, b = VA_POP(a)
  PROVE  Array(b, V) /\ b.at = a.at /\ VaElements(b) = Front(VaElements(a))
<1>1. PICK n \in Nat : n = a.nelem - 1 /\ n + 1 = a.nelem
  BY DEF Array
<1>2. b = [nelem |-> n, size |-> a.size, cells |-> a.cells, at |-> a.at]
  BY <1>1 DEF Array, VA_POP
<1>3. Array(b, V) /\ b.at = a.at /\ b.nelem = n /\ b.cells = a.cells
  BY <1>1, <1>2 DEF Array
<1>4. PICK s \in Seq(V) : s = VaElements(a)
  BY ElementsFact
<1>5. Len(s) = n + 1 /\ \A i \in 1 .. n + 1 : s[i] = a.cells[i] /\ s[i] \in V
  BY <1>1, <1>4, ElementsFact
<1>6. PICK t : t = SubSeq(s, 1, n)
  OBVIOUS
<1>7. t \in Seq(V) /\ Len(t) = n /\ \A i \in 1 .. n : t[i] = s[i]
  <2>1. 1 \in Int /\ n \in Int /\ \A i \in 1 .. n : s[i] \in V
    BY <1>5
  <2>2. /\ t \in Seq(V) /\ Len(t) = IF 1 <= n THEN n - 1 + 1 ELSE 0
        /\ \A i \in 1 .. n - 1 + 1 : t[i] = s[1 + i - 1]
    BY <1>6, <2>1, SubSeqProperties
  <2> QED
    BY <2>2
<1>8. Front(s) = t
  BY <1>5, <1>6 DEF Front
<1>9. VaElements(b) = [i \in 1 .. n |-> s[i]]
  BY <1>3, <1>5 DEF VaElements
<1>10. t = [i \in 1 .. n |-> t[i]]
  BY <1>7
<1> QED
  BY <1>3, <1>4, <1>7, <1>8, <1>9, <1>10

(* A new length keeps the elements below it.                               *)
LEMMA ResizeFact ==
  ASSUME NEW V, Junk \in V, NEW a, Array(a, V), NEW n \in Nat, NEW at,
         NEW b, b = varray_resize(a, n, at)
  PROVE  /\ Array(b, V) /\ b.at = IF ResizeGrows(a, n) THEN at ELSE a.at
         /\ VaElements(b) =
              [i \in 1 .. n |-> IF i <= Len(VaElements(a)) THEN VaElements(a)[i]
                                ELSE b.cells[i]]
<1>0. PICK l \in Nat, m \in Nat : l = a.nelem /\ m = a.size /\ l <= m
  BY DEF Array
<1>1. PICK f \in [1 .. m -> V] : l = a.nelem /\ m = a.size /\ f = a.cells /\ l <= m
  BY <1>0 DEF Array
<1>2a. PICK k \in Nat : k = IF n > m THEN 2 * n ELSE m
  OBVIOUS
<1>2. PICK g, p : /\ g = (IF n > m THEN Resized(f, 2 * n) ELSE f)
                  /\ p = (IF n > m THEN at ELSE a.at)
                  /\ k = (IF n > m THEN 2 * n ELSE m)
  BY <1>2a
<1>3. b = [nelem |-> n, size |-> k, cells |-> g, at |-> p]
  BY <1>1, <1>2 DEF varray_resize, ResizeGrows, Kept, Array
<1>4. g \in [1 .. k -> V] /\ \A i \in 1 .. n : i <= l => g[i] = f[i]
  <2>1. 2 * n \in Nat /\ \A i \in 1 .. n : i \in 1 .. 2 * n
    OBVIOUS
  <2>2. /\ Resized(f, 2 * n) \in [1 .. 2 * n -> V]
        /\ \A i \in 1 .. 2 * n : i <= m => Resized(f, 2 * n)[i] = f[i]
    BY <2>1, ResizedFact
  <2> QED
    BY <1>1, <1>2, <2>1, <2>2
<1>5. Array(b, V) /\ b.at = p /\ b.nelem = n /\ b.cells = g
  BY <1>2, <1>3, <1>4 DEF Array
<1>6. PICK s : s = VaElements(a)
  OBVIOUS
<1>7. Len(s) = l /\ \A i \in 1 .. l : s[i] = f[i]
  BY <1>1, <1>6, ElementsFact
<1>8. \A i \in 1 .. n : b.cells[i] = IF i <= Len(s) THEN s[i] ELSE b.cells[i]
  BY <1>4, <1>5, <1>7
<1>9. VaElements(b) = [i \in 1 .. n |-> IF i <= Len(s) THEN s[i] ELSE b.cells[i]]
  BY <1>5, <1>8 DEF VaElements
<1> QED
  BY <1>1, <1>2, <1>5, <1>6, <1>9 DEF ResizeGrows

-----------------------------------------------------------------------------
(* The string buffer.                                                      *)

Chars == Values \cup {Junk, NUL}

(* The record of a buffer.                                                 *)
Buf(l, n, f, p) == [buflen |-> l, cur |-> n, buf |-> f, at |-> p]

(* A buffer that holds the text t.                                         *)
Buffer(b, t) ==
  /\ b = Buf(b.buflen, b.cur, b.buf, b.at)
  /\ b.buflen \in Nat /\ b.cur \in Nat /\ b.cur <= b.buflen
  /\ b.buf \in [1 .. b.buflen -> Chars]
  /\ t \in Seq(Values) /\ Len(t) = b.cur
  /\ \A i \in 1 .. b.cur : b.buf[i] = t[i]

(* What the fields of such a record are.                                   *)
LEMMA BufFields ==
  ASSUME NEW l, NEW n, NEW f, NEW p
  PROVE  /\ Buf(l, n, f, p).buflen = l /\ Buf(l, n, f, p).cur = n
         /\ Buf(l, n, f, p).buf = f /\ Buf(l, n, f, p).at = p
  BY DEF Buf

(* The text of a buffer is what it holds.                                  *)
LEMMA TextFact ==
  ASSUME NEW b, NEW t, Buffer(b, t)
  PROVE  Text(b) = t
<1>1. PICK n \in Nat : n = b.cur
  BY DEF Buffer
<1>2. PICK s \in Seq(Values) : s = t
  BY DEF Buffer
<1>3. Len(s) = n /\ \A i \in 1 .. n : b.buf[i] = s[i]
  BY <1>1, <1>2 DEF Buffer
<1>4. s = [i \in 1 .. n |-> s[i]]
  BY <1>3
<1> QED
  BY <1>1, <1>2, <1>3, <1>4 DEF Text

(* Storage with s behind the text t holds both.                            *)
LEMMA ExtendFact ==
  ASSUME NEW l \in Nat, NEW n \in Nat, NEW f \in [1 .. l -> Chars], NEW p,
         NEW t \in Seq(Values), Len(t) = n,
         NEW s \in Seq(Values), n + Len(s) <= l,
         \A i \in 1 .. n : f[i] = t[i],
         \A i \in 1 .. Len(s) : f[n + i] = s[i]
  PROVE  Buffer(Buf(l, n + Len(s), f, p), t \o s)
<1>1. PICK m \in Nat : m = Len(s)
  OBVIOUS
<1>2. PICK u \in Seq(Values) : u = t \o s
  BY ConcatProperties, Zenon
<1>3. /\ Len(u) = n + m /\ (\A i \in 1 .. n : u[i] = t[i])
      /\ \A i \in 1 .. m : u[n + i] = s[i]
  <2>1. Len(u) = Len(t) + Len(s)
    BY <1>2, ConcatProperties
  <2>2. \A i \in 1 .. Len(t) : u[i] = t[i]
    BY <1>2
  <2>3. \A i \in 1 .. Len(s) : u[Len(t) + i] = s[i]
    BY <1>2
  <2> QED
    BY <1>1, <2>1, <2>2, <2>3
<1>4. ASSUME NEW i \in 1 .. n + m PROVE f[i] = u[i]
  <2>1. CASE i <= n
    BY <1>3, <2>1
  <2>2. CASE i > n
    <3>1. PICK k \in 1 .. m : k = i - n /\ n + k = i
      BY <2>2
    <3>2. f[n + k] = s[k] /\ u[n + k] = s[k]
      BY <1>1, <1>3
    <3> QED
      BY <3>1, <3>2
  <2> QED
    BY <2>1, <2>2
<1>5. PICK b : b = Buf(l, n + m, f, p)
  OBVIOUS
<1>6. b.buflen = l /\ b.cur = n + m /\ b.buf = f /\ b.at = p
  BY <1>5, BufFields
<1>7. n + m \in Nat /\ n + m <= l
  BY <1>1
<1>8. Buffer(b, u)
  BY <1>3, <1>4, <1>5, <1>6, <1>7 DEF Buffer
<1> QED
  BY <1>1, <1>2, <1>5, <1>8

(* Room is made for k more, and the text kept.                             *)
LEMMA ReserveFact ==
  ASSUME NEW b, NEW t, Buffer(b, t), NEW k \in Nat, NEW at, NEW r, r = reserve(b, k, at)
  PROVE  /\ Buffer(r, t) /\ r.cur = b.cur /\ r.cur + k <= r.buflen
         /\ r.at = IF Grows(b, k) THEN at ELSE b.at
<1>1. PICK l \in Nat, n \in Nat : l = b.buflen /\ n = b.cur /\ n <= l
  BY DEF Buffer
<1>2. PICK f \in [1 .. l -> Chars] : f = b.buf
  BY <1>1 DEF Buffer
<1>3. CASE ~Grows(b, k)
  <2>1. r = b
    BY <1>3 DEF reserve
  <2> QED
    BY <1>1, <1>3, <2>1 DEF Grows
<1>4. CASE Grows(b, k)
  <2>1. PICK m \in Nat : m = 2 * (l + k)
    OBVIOUS
  <2>2. l <= m /\ n <= m /\ n + k <= m
    BY <1>1, <2>1
  <2>3. PICK g : g = Resized(f, m)
    OBVIOUS
  <2>4. g \in [1 .. m -> Chars] /\ \A i \in 1 .. m : i <= l => g[i] = f[i]
    <3>1. Junk \in Chars
      BY DEF Chars
    <3> QED
      BY <2>3, <3>1, ResizedFact
  <2>5. r = Buf(m, n, g, at)
    BY <1>1, <1>2, <1>4, <2>1, <2>3 DEF reserve, Buf
  <2>6. r.buflen = m /\ r.cur = n /\ r.buf = g /\ r.at = at
    BY <2>5, BufFields
  <2>7. \A i \in 1 .. n : g[i] = t[i]
    <3>1. \A i \in 1 .. n : i \in 1 .. m /\ i <= l
      BY <1>1, <2>2
    <3>2. \A i \in 1 .. n : f[i] = t[i]
      BY <1>1, <1>2 DEF Buffer
    <3> QED
      BY <2>4, <3>1, <3>2
  <2>8. t \in Seq(Values) /\ Len(t) = n
    BY <1>1 DEF Buffer
  <2>9. Buffer(r, t)
    BY <2>2, <2>4, <2>5, <2>6, <2>7, <2>8 DEF Buffer
  <2> QED
    BY <1>1, <1>4, <2>2, <2>6, <2>9
<1> QED
  BY <1>3, <1>4

(* A write behind the text keeps it.                                       *)
LEMMA BehindFact ==
  ASSUME NEW b, NEW t, Buffer(b, t), NEW s \in Seq(Chars),
         b.cur + Len(s) <= b.buflen,
         NEW w, w = Written(b.buf, b.cur + 1, s)
  PROVE  /\ w \in [1 .. b.buflen -> Chars]
         /\ \A i \in 1 .. b.cur : w[i] = t[i]
         /\ \A i \in 1 .. Len(s) : w[b.cur + i] = s[i]
<1>1. PICK l \in Nat, n \in Nat : l = b.buflen /\ n = b.cur /\ n <= l
  BY DEF Buffer
<1>2. PICK f \in [1 .. l -> Chars] : f = b.buf
  BY <1>1 DEF Buffer
<1>3. PICK k \in Nat \ {0} : k = n + 1
  OBVIOUS
<1>4. k + Len(s) <= l + 1
  BY <1>1, <1>3
<1>5. /\ Written(f, k, s) \in [1 .. l -> Chars]
      /\ \A j \in 1 .. l : j < k => Written(f, k, s)[j] = f[j]
      /\ \A i \in 1 .. Len(s) : Written(f, k, s)[k + i - 1] = s[i]
  BY <1>4, WrittenFact
<1>6. w = Written(f, k, s)
  BY <1>1, <1>2, <1>3
<1>7. \A i \in 1 .. n : i \in 1 .. l /\ i < k
  BY <1>1, <1>3
<1>8. \A i \in 1 .. n : f[i] = t[i]
  BY <1>1, <1>2 DEF Buffer
<1>9. \A i \in 1 .. Len(s) : k + i - 1 = n + i
  BY <1>3
<1>10. \A i \in 1 .. n : w[i] = t[i]
  BY <1>5, <1>6, <1>7, <1>8
<1>11. \A i \in 1 .. Len(s) : w[n + i] = s[i]
  BY <1>5, <1>6, <1>9
<1> QED
  BY <1>1, <1>5, <1>6, <1>10, <1>11

(* The text s put behind the text t.                                       *)
LEMMA PutFact ==
  ASSUME NEW b, NEW t, Buffer(b, t), NEW s \in Seq(Values),
         b.cur + Len(s) <= b.buflen, NEW p, p = Put(b, s)
  PROVE  Buffer(p, t \o s) /\ p.at = b.at
<1>1. PICK l \in Nat, n \in Nat : l = b.buflen /\ n = b.cur /\ n <= l
  BY DEF Buffer
<1>2. PICK u \in Seq(Values) : u = t /\ Len(u) = n
  BY <1>1 DEF Buffer
<1>3. PICK w : w = Written(b.buf, n + 1, s)
  OBVIOUS
<1>4. s \in Seq(Chars)
  BY DEF Chars
<1>5. PICK g \in [1 .. l -> Chars] : g = w
  BY <1>1, <1>3, <1>4, BehindFact
<1>6. (\A i \in 1 .. n : g[i] = u[i]) /\ (\A i \in 1 .. Len(s) : g[n + i] = s[i])
  BY SMTT(30), <1>1, <1>2, <1>3, <1>4, <1>5, BehindFact
<1>7. n + Len(s) <= l
  BY <1>1
<1>8. Buffer(Buf(l, n + Len(s), g, b.at), u \o s)
  BY <1>2, <1>6, <1>7, ExtendFact
<1>9. p = Buf(l, n + Len(s), g, b.at)
  BY <1>1, <1>3, <1>5 DEF Put, Buf
<1>10. p.at = b.at
  BY <1>9, BufFields
<1> QED
  BY <1>2, <1>8, <1>9, <1>10

(* puts: room first, then the text.                                        *)
LEMMA PutsFact ==
  ASSUME NEW b, NEW t, Buffer(b, t), NEW s \in Seq(Values), NEW at,
         NEW p, p = strbuf_puts(b, s, at)
  PROVE  Buffer(p, t \o s) /\ p.at = IF Grows(b, Len(s)) THEN at ELSE b.at
<1>1. PICK r : r = reserve(b, Len(s), at)
  OBVIOUS
<1>2. Len(s) \in Nat
  OBVIOUS
<1>3. Buffer(r, t) /\ r.cur + Len(s) <= r.buflen
      /\ r.at = IF Grows(b, Len(s)) THEN at ELSE b.at
  BY <1>1, <1>2, ReserveFact
<1>4. p = Put(r, s)
  BY <1>1 DEF strbuf_puts
<1>5. Buffer(p, t \o s) /\ p.at = r.at
  BY <1>3, <1>4, PutFact
<1> QED
  BY <1>3, <1>5

(* c_str: the terminator needs room too, and is not part of the text.      *)
LEMMA CStrFact ==
  ASSUME NEW b, NEW t, Buffer(b, t), NEW at, NEW p, p = strbuf_c_str(b, at)
  PROVE  Buffer(p, t) /\ p.at = IF Grows(b, 1) THEN at ELSE b.at
<1>1. PICK r : r = reserve(b, 1, at)
  OBVIOUS
<1>2. Buffer(r, t) /\ r.cur + 1 <= r.buflen /\ r.at = IF Grows(b, 1) THEN at ELSE b.at
  BY <1>1, ReserveFact
<1>3. PICK z \in Seq(Chars) : z = <<NUL>> /\ Len(z) = 1
  <2>1. NUL \in Chars
    BY DEF Chars
  <2> QED
    BY <2>1, SingleFact, Zenon
<1>4. PICK w : w = Written(r.buf, r.cur + 1, z)
  OBVIOUS
<1>5. w \in [1 .. r.buflen -> Chars] /\ \A i \in 1 .. r.cur : w[i] = t[i]
  BY <1>2, <1>3, <1>4, BehindFact
<1>6. p = Buf(r.buflen, r.cur, w, r.at)
  BY <1>1, <1>2, <1>3, <1>4 DEF strbuf_c_str, Buffer, Buf
<1>7. p.buflen = r.buflen /\ p.cur = r.cur /\ p.buf = w /\ p.at = r.at
  BY <1>6, BufFields
<1>8. Buffer(p, t)
  BY <1>2, <1>5, <1>6, <1>7 DEF Buffer
<1> QED
  BY <1>2, <1>7, <1>8

(* vsnprintf into the n bytes left writes what fits, and terminates it.    *)
LEMMA SnprintfFact ==
  ASSUME NEW b, NEW t, Buffer(b, t), NEW s \in Seq(Values),
         NEW n \in Nat, b.cur + n <= b.buflen, NEW p, p = vsnprintf(b, n, s)
  PROVE  /\ Buffer(p, t) /\ p.buflen = b.buflen /\ p.cur = b.cur /\ p.at = b.at
         /\ Len(s) < n => \A i \in 1 .. Len(s) : p.buf[b.cur + i] = s[i]
<1>1. CASE n = 0
  BY <1>1 DEF vsnprintf
<1>2. CASE n # 0
  <2>1. PICK e \in Seq(Values) :
          /\ e = (IF Len(s) < n THEN s ELSE SubSeq(s, 1, n - 1)) /\ Len(e) < n
    <3>1. CASE Len(s) < n
      BY <3>1
    <3>2. CASE ~(Len(s) < n)
      <4>1. PICK m \in Nat : m = n - 1
        BY <1>2
      <4>2. \A i \in 1 .. m : s[i] \in Values
        BY <3>2, <4>1
      <4>3. PICK q : q = SubSeq(s, 1, m)
        OBVIOUS
      <4>4. q \in Seq(Values) /\ Len(q) = IF 1 <= m THEN m - 1 + 1 ELSE 0
        BY <4>2, <4>3, SubSeqProperties
      <4>5. Len(q) < n
        BY <1>2, <4>1, <4>4
      <4> QED
        BY <3>2, <4>1, <4>3, <4>4, <4>5
    <3> QED
      BY <3>1, <3>2
  <2>2. PICK z \in Seq(Chars) : z = Append(e, NUL)
    <3>1. e \in Seq(Chars) /\ NUL \in Chars
      BY DEF Chars
    <3> QED
      BY <3>1, AppendProperties, Zenon
  <2>3. Len(z) = Len(e) + 1 /\ \A i \in 1 .. Len(e) : z[i] = e[i]
    <3>1. e \in Seq(Chars) /\ NUL \in Chars
      BY DEF Chars
    <3>2. PICK f \in Seq(Chars) : f = e
      BY <3>1
    <3> QED
      BY <2>2, <3>1, <3>2, AppendFact
  <2>4. PICK l \in Nat, c0 \in Nat : l = b.buflen /\ c0 = b.cur
    BY DEF Buffer
  <2>5. c0 + Len(z) <= l
    BY <2>1, <2>3, <2>4
  <2>6. PICK w : w = Written(b.buf, c0 + 1, z)
    OBVIOUS
  <2>7. /\ w \in [1 .. l -> Chars]
        /\ \A i \in 1 .. c0 : w[i] = t[i]
        /\ \A i \in 1 .. Len(z) : w[c0 + i] = z[i]
    BY SMTT(30), <2>4, <2>5, <2>6, BehindFact
  <2>8. p = Buf(l, c0, w, b.at)
    <3>1. p = [b EXCEPT !.buf = w]
      BY <1>2, <2>1, <2>2, <2>4, <2>6 DEF vsnprintf
    <3> QED
      BY <2>4, <3>1 DEF Buffer, Buf
  <2>9. p.buflen = l /\ p.cur = c0 /\ p.buf = w /\ p.at = b.at
    BY <2>8, BufFields
  <2>10. Buffer(p, t)
    BY <2>4, <2>7, <2>8, <2>9 DEF Buffer
  <2>11. Len(s) < n => \A i \in 1 .. Len(s) : w[c0 + i] = s[i]
    <3> SUFFICES ASSUME Len(s) < n, NEW i \in 1 .. Len(s) PROVE w[c0 + i] = s[i]
      OBVIOUS
    <3>1. e = s /\ i \in 1 .. Len(e) /\ i \in 1 .. Len(z)
      BY <2>1, <2>3
    <3> QED
      BY <2>3, <2>7, <3>1
  <2> QED
    BY <2>4, <2>9, <2>10, <2>11
<1> QED
  BY <1>1, <1>2

(* printf: what does not fit at first is written again with room for it.   *)
LEMMA PrintFact ==
  ASSUME NEW b, NEW t, Buffer(b, t), NEW s \in Seq(Values), NEW at,
         NEW p, p = strbuf_vprintf(b, s, at)
  PROVE  Buffer(p, t \o s) /\ p.at = IF PrintGrows(b, s) THEN at ELSE b.at
<1>1. PICK m \in Nat, n \in Nat : m = Len(s) /\ n = Remaining(b)
  BY DEF Buffer, Remaining
<1>2. PICK once : once = vsnprintf(b, n, s)
  OBVIOUS
<1>3. b.cur + n <= b.buflen /\ b.cur \in Nat /\ b.buflen \in Nat
  BY <1>1 DEF Buffer, Remaining
<1>4. /\ Buffer(once, t) /\ once.buflen = b.buflen /\ once.cur = b.cur /\ once.at = b.at
      /\ m < n => \A i \in 1 .. m : once.buf[b.cur + i] = s[i]
  BY <1>1, <1>2, <1>3, SnprintfFact
<1>5. ASSUME NEW x, Buffer(x, t), x.cur + m <= x.buflen,
             \A i \in 1 .. m : x.buf[x.cur + i] = s[i], p = [x EXCEPT !.cur = @ + m]
      PROVE  Buffer(p, t \o s) /\ p.at = x.at
  <2>1. PICK l \in Nat, k \in Nat : l = x.buflen /\ k = x.cur
    BY <1>5 DEF Buffer
  <2>2. PICK f \in [1 .. l -> Chars] : f = x.buf
    BY <1>5, <2>1 DEF Buffer
  <2>3. PICK u \in Seq(Values) : u = t
    BY <1>5 DEF Buffer
  <2>4. Len(u) = k /\ \A i \in 1 .. k : f[i] = u[i]
    BY <1>5, <2>1, <2>2, <2>3 DEF Buffer
  <2>5. Buffer(Buf(l, k + m, f, x.at), u \o s)
    <3>1. k + Len(s) <= l /\ \A i \in 1 .. Len(s) : f[k + i] = s[i]
      BY <1>1, <1>5, <2>1, <2>2
    <3>2. Buffer(Buf(l, k + Len(s), f, x.at), u \o s)
      BY <2>4, <3>1, ExtendFact
    <3> QED
      BY <1>1, <3>2
  <2>6. p = Buf(l, k + m, f, x.at)
    BY <1>5, <2>1, <2>2 DEF Buffer, Buf
  <2>7. p.at = x.at
    BY <2>6, BufFields
  <2> QED
    BY <2>3, <2>5, <2>6, <2>7
<1>6. CASE m < n
  <2>1. p = [once EXCEPT !.cur = @ + m]
    BY <1>1, <1>2, <1>6 DEF strbuf_vprintf
  <2>2. once.cur + m <= once.buflen
    BY <1>3, <1>4, <1>6
  <2>3. Buffer(p, t \o s) /\ p.at = once.at
    BY <1>4, <1>5, <1>6, <2>1, <2>2
  <2>4. ~PrintGrows(b, s)
    BY <1>1, <1>6 DEF PrintGrows
  <2> QED
    BY <1>4, <2>3, <2>4
<1>7. CASE ~(m < n)
  <2>1. PICK r : r = reserve(once, m + 1, at)
    OBVIOUS
  <2>2. Buffer(r, t) /\ r.cur = once.cur /\ r.cur + (m + 1) <= r.buflen
        /\ r.at = IF Grows(once, m + 1) THEN at ELSE once.at
    BY <1>4, <2>1, ReserveFact
  <2>3. PICK q : q = vsnprintf(r, m + 1, s)
    OBVIOUS
  <2>4. /\ Buffer(q, t) /\ q.buflen = r.buflen /\ q.cur = r.cur /\ q.at = r.at
        /\ \A i \in 1 .. m : q.buf[r.cur + i] = s[i]
    <3>1. PICK k \in Nat : k = m + 1 /\ m < k
      OBVIOUS
    <3>2. /\ Buffer(q, t) /\ q.buflen = r.buflen /\ q.cur = r.cur /\ q.at = r.at
          /\ Len(s) < k => \A i \in 1 .. Len(s) : q.buf[r.cur + i] = s[i]
      BY <2>2, <2>3, <3>1, SnprintfFact
    <3> QED
      BY <1>1, <3>1, <3>2
  <2>5. p = [q EXCEPT !.cur = @ + m]
    BY <1>1, <1>2, <1>7, <2>1, <2>3 DEF strbuf_vprintf
  <2>6. q.cur + m <= q.buflen
    <3>1. r.cur \in Nat /\ r.buflen \in Nat
      BY <2>2 DEF Buffer
    <3> QED
      BY <2>2, <2>4, <3>1
  <2>7. Buffer(p, t \o s) /\ p.at = q.at
    BY <1>5, <2>4, <2>5, <2>6
  <2>8. Grows(once, m + 1) = PrintGrows(b, s)
    BY <1>1, <1>4, <1>7 DEF PrintGrows, Grows
  <2> QED
    BY <1>4, <2>2, <2>4, <2>7, <2>8
<1> QED
  BY <1>6, <1>7

(* A new buffer holds no text.                                             *)
LEMMA NewBuffer == Buffer(strbuf_init, <<>>) /\ strbuf_init.at = Null
<1>1. strbuf_init = Buf(0, 0, <<>>, Null)
  BY DEF strbuf_init, Buf
<1>2. <<>> \in [1 .. 0 -> Chars] /\ <<>> \in Seq(Values) /\ Len(<<>>) = 0
  OBVIOUS
<1>3. PICK b : b = strbuf_init
  OBVIOUS
<1>4. b.buflen = 0 /\ b.cur = 0 /\ b.buf = <<>> /\ b.at = Null
  BY <1>1, <1>3, BufFields
<1>5. PICK f \in [1 .. 0 -> Chars] : f = <<>>
  BY <1>2
<1>6. Buffer(b, <<>>)
  <2>1. b = Buf(b.buflen, b.cur, b.buf, b.at)
    BY <1>1, <1>3, <1>4
  <2>2. b.buf \in [1 .. b.buflen -> Chars]
    BY <1>4, <1>5
  <2>3. \A i \in 1 .. b.cur : b.buf[i] = <<>>[i]
    <3>1. 1 .. b.cur = {}
      BY <1>4
    <3> QED
      BY <3>1
  <2>4. b.buflen \in Nat /\ b.cur \in Nat /\ b.cur <= b.buflen /\ Len(<<>>) = b.cur
    BY <1>2, <1>4
  <2> QED
    BY <1>2, <2>1, <2>2, <2>3, <2>4 DEF Buffer
<1> QED
  BY <1>3, <1>4, <1>6

(* A sequence with one more element in front.                              *)
LEMMA PrependFact ==
  ASSUME NEW S, NEW s \in Seq(S), NEW e \in S
  PROVE  LET t == <<e>> \o s
         IN  /\ t \in Seq(S) /\ Len(t) = Len(s) + 1
             /\ t[1] = e /\ \A i \in 1 .. Len(s) : t[i + 1] = s[i]
             /\ ToSet(t) = ToSet(s) \cup {e}
             /\ IsInjective(s) /\ e \notin ToSet(s) => IsInjective(t)
<1>1. PICK u \in Seq(S) : u = <<e>> /\ Len(u) = 1 /\ u[1] = e
  BY SingleFact, Zenon
<1>2. PICK t \in Seq(S) : t = u \o s
  BY ConcatProperties, Zenon
<1>3. Len(t) = Len(s) + 1 /\ t[1] = e /\ \A i \in 1 .. Len(s) : t[i + 1] = s[i]
  <2>1. Len(t) = Len(u) + Len(s)
    BY <1>2, ConcatProperties
  <2>2. \A i \in 1 .. Len(u) : t[i] = u[i]
    BY <1>2
  <2>3. \A i \in 1 .. Len(s) : t[Len(u) + i] = s[i]
    BY <1>2
  <2> QED
    BY <1>1, <2>1, <2>2, <2>3
<1>4. ToSet(u) = {e} /\ IsInjective(u)
  BY <1>1, OneFact
<1>5. ToSet(t) = ToSet(u) \cup ToSet(s)
      /\ (IsInjective(u) /\ IsInjective(s) /\ ToSet(u) \cap ToSet(s) = {} => IsInjective(t))
  BY <1>2, ConcatFact
<1> QED
  BY <1>1, <1>2, <1>3, <1>4, <1>5

(* The elements of a sequence with one more at the end.                    *)
LEMMA AppendSet ==
  ASSUME NEW S, NEW s \in Seq(S), NEW e \in S
  PROVE  /\ ToSet(Append(s, e)) = ToSet(s) \cup {e}
         /\ IsInjective(s) /\ e \notin ToSet(s) => IsInjective(Append(s, e))
<1>1. PICK u \in Seq(S) : u = <<e>>
  BY SingleFact, Zenon
<1>2. Append(s, e) = s \o u
  BY <1>1, AppendConcat
<1>3. ToSet(u) = {e} /\ IsInjective(u)
  BY <1>1, OneFact
<1>4. ToSet(s \o u) = ToSet(s) \cup ToSet(u)
      /\ (IsInjective(s) /\ IsInjective(u) /\ ToSet(s) \cap ToSet(u) = {} => IsInjective(s \o u))
  BY ConcatFact
<1> QED
  BY <1>2, <1>3, <1>4

-----------------------------------------------------------------------------
(* The singly linked list.                                                 *)

(* l links the elements es, which carry the values vs, in this order.      *)
ListOf(l, es, vs) ==
  /\ l = [head |-> l.head, tail_chain |-> l.tail_chain, elem |-> l.elem]
  /\ es \in Seq(Addr) /\ vs \in Seq(Addr) /\ Len(vs) = Len(es) /\ IsInjective(es)
  /\ l.head = IF Len(es) = 0 THEN Null ELSE es[1]
  /\ l.tail_chain = IF Len(es) = 0 THEN HeadLink ELSE es[Len(es)]
  /\ DOMAIN l.elem = ToSet(es)
  /\ \A i \in 1 .. Len(es) :
       l.elem[es[i]] = Elem(IF i = Len(es) THEN Null ELSE es[i + 1], vs[i])

(* A new list links nothing.                                               *)
LEMMA NewList == ListOf(singly_list_init, <<>>, <<>>)
<1>1. PICK l : l = singly_list_init
  OBVIOUS
<1>2. /\ l = [head |-> l.head, tail_chain |-> l.tail_chain, elem |-> l.elem]
      /\ l.head = Null /\ l.tail_chain = HeadLink /\ DOMAIN l.elem = {}
  BY <1>1 DEF singly_list_init
<1>3a. <<>> \in Seq(Addr) /\ Len(<<>>) = 0
  OBVIOUS
<1>3. PICK z \in Seq(Addr) : z = <<>> /\ Len(z) = 0
  BY <1>3a, Zenon
<1>4. ToSet(z) = {} /\ IsInjective(z)
  BY <1>3 DEF ToSet, IsInjective
<1>5. \A i \in 1 .. Len(z) : FALSE
  BY <1>3
<1>6. ListOf(l, z, z)
  BY <1>2, <1>3, <1>4, <1>5 DEF ListOf
<1> QED
  BY <1>1, <1>3, <1>6

(* A walk visits the elements in order, and meets the values in order.     *)
LEMMA ListVisited ==
  ASSUME NEW l, NEW es, NEW vs, ListOf(l, es, vs)
  PROVE  /\ Visited(l) = es
         /\ [i \in DOMAIN es |-> l.elem[es[i]].value] = vs
<1>1. PICK s \in Seq(Addr), v \in Seq(Addr) : s = es /\ v = vs
  BY DEF ListOf
<1>2. PICK n \in Nat : n = Len(s) /\ n = Len(v)
  BY <1>1 DEF ListOf
<1>3. IsInjective(s) /\ DOMAIN l.elem = ToSet(s)
  BY <1>1 DEF ListOf
<1>4. Cardinality(DOMAIN l.elem) = Len(s)
  BY <1>3, LenCardinality
<1>5. PICK link : link = [e \in DOMAIN l.elem |-> l.elem[e].chain]
  OBVIOUS
<1>6. \A i \in 1 .. n : l.elem[s[i]] = Elem(IF i = n THEN Null ELSE s[i + 1], v[i])
  BY <1>1, <1>2 DEF ListOf
<1>7a. DOMAIN s = 1 .. n
  <2>1. DOMAIN s = 1 .. Len(s)
    OBVIOUS
  <2> QED
    BY <1>2, <2>1
<1>7. \A i \in 1 .. n : s[i] \in ToSet(s)
  BY <1>7a DEF ToSet
<1>8. \A i \in 1 .. Len(s) : link[s[i]] = IF i = Len(s) THEN Null ELSE s[i + 1]
  <2> SUFFICES ASSUME NEW i \in 1 .. n
               PROVE  link[s[i]] = IF i = n THEN Null ELSE s[i + 1]
    BY <1>2
  <2>1. l.elem[s[i]] = Elem(IF i = n THEN Null ELSE s[i + 1], v[i])
    BY <1>6
  <2>2. link[s[i]] = l.elem[s[i]].chain
    BY <1>3, <1>5, <1>7
  <2> QED
    BY <2>1, <2>2 DEF Elem
<1>9. Null \notin ToSet(s)
  BY HeapAssumption DEF ToSet
<1>10. l.head = IF Len(s) = 0 THEN Null ELSE s[1]
  BY <1>1 DEF ListOf
<1>11. PICK f : f = l.head
  OBVIOUS
<1>12. f = IF Len(s) = 0 THEN Null ELSE s[1]
  BY <1>10, <1>11
<1>13. Follow(link, f, Null, Len(s)) = s
  BY <1>8, <1>9, <1>12, FollowFact
<1>14. Visited(l) = s
  BY <1>4, <1>5, <1>11, <1>13 DEF Visited
<1>15. ASSUME NEW i \in 1 .. n PROVE l.elem[s[i]].value = v[i]
  <2>1. l.elem[s[i]] = Elem(IF i = n THEN Null ELSE s[i + 1], v[i])
    BY <1>6
  <2> QED
    BY <2>1 DEF Elem
<1>16a. DOMAIN v = 1 .. n /\ v = [i \in DOMAIN v |-> v[i]]
  BY <1>2
<1>16. v = [i \in 1 .. n |-> v[i]] /\ DOMAIN s = 1 .. n
  BY <1>7a, <1>16a
<1>17. [i \in DOMAIN s |-> l.elem[s[i]].value] = v
  BY <1>15, <1>16
<1> QED
  BY <1>1, <1>14, <1>17

(* push_head puts its value in front.                                      *)
LEMMA PushHeadFact ==
  ASSUME NEW l, NEW es, NEW vs, ListOf(l, es, vs),
         NEW e \in Addr, e \notin ToSet(es), NEW p \in Addr,
         NEW r, r = push_head(l, e, p)
  PROVE  ListOf(r, <<e>> \o es, <<p>> \o vs)
<1>1. PICK s \in Seq(Addr), v \in Seq(Addr) : s = es /\ v = vs
  BY DEF ListOf
<1>2. PICK n \in Nat : n = Len(s)
  OBVIOUS
<1>3. /\ Len(v) = n /\ IsInjective(s) /\ DOMAIN l.elem = ToSet(s)
      /\ l.head = (IF n = 0 THEN Null ELSE s[1])
      /\ l.tail_chain = (IF n = 0 THEN HeadLink ELSE s[n])
      /\ \A i \in 1 .. n : l.elem[s[i]] = Elem(IF i = n THEN Null ELSE s[i + 1], v[i])
  BY <1>1, <1>2 DEF ListOf
<1>4. PICK t \in Seq(Addr) : t = <<e>> \o s
  BY PrependFact
<1>5. /\ Len(t) = n + 1 /\ t[1] = e /\ ToSet(t) = ToSet(s) \cup {e} /\ IsInjective(t)
      /\ \A i \in 1 .. n : t[i + 1] = s[i]
  BY <1>1, <1>2, <1>3, <1>4, PrependFact
<1>6. PICK w \in Seq(Addr) : w = <<p>> \o v
  BY PrependFact
<1>7. Len(w) = n + 1 /\ w[1] = p /\ \A i \in 1 .. n : w[i + 1] = v[i]
  BY <1>3, <1>6, PrependFact
<1>8. PICK g : g = With(l.elem, e, Elem(l.head, p))
  OBVIOUS
<1>9. /\ DOMAIN g = ToSet(s) \cup {e} /\ g[e] = Elem(l.head, p)
      /\ \A x \in ToSet(s) : g[x] = l.elem[x]
  BY <1>1, <1>3, <1>8 DEF With
<1>10. DOMAIN s = 1 .. n
  BY <1>2
<1>11. \A i \in 1 .. n : s[i] \in ToSet(s) /\ s[i] \in Addr
  BY <1>10 DEF ToSet
<1>12. ASSUME NEW i \in 1 .. n + 1
       PROVE  g[t[i]] = Elem(IF i = n + 1 THEN Null ELSE t[i + 1], w[i])
  <2>1. CASE i = 1
    <3>1. CASE n = 0
      BY <1>3, <1>5, <1>7, <1>9, <2>1, <3>1
    <3>2. CASE n # 0
      <4>1. 1 \in 1 .. n /\ 1 + 1 = i + 1 /\ i # n + 1
        BY <2>1, <3>2
      <4>2. t[i + 1] = s[1]
        BY <1>5, <4>1
      <4> QED
        BY <1>3, <1>5, <1>7, <1>9, <2>1, <3>2, <4>1, <4>2
    <3> QED
      BY <3>1, <3>2
  <2>2. CASE i # 1
    <3>1. PICK k \in 1 .. n : k + 1 = i /\ (k = n <=> i = n + 1)
      <4>1. i - 1 \in 1 .. n /\ (i - 1) + 1 = i /\ (i - 1 = n <=> i = n + 1)
        BY <2>2
      <4> QED
        BY <4>1
    <3>2. t[i] = s[k] /\ w[i] = v[k]
      BY <1>5, <1>7, <3>1
    <3>3. g[t[i]] = Elem(IF k = n THEN Null ELSE s[k + 1], v[k])
      BY <1>3, <1>9, <1>11, <3>2
    <3>4. k # n => t[i + 1] = s[k + 1]
      <4>1. ASSUME k # n PROVE t[i + 1] = s[k + 1]
        <5>1. k + 1 \in 1 .. n
          BY <4>1
        <5> QED
          BY <1>5, <3>1, <5>1
      <4> QED
        BY <4>1
    <3> QED
      BY <3>1, <3>2, <3>3, <3>4
  <2> QED
    BY <2>1, <2>2
<1>13. r = [head |-> e, tail_chain |-> TailAfterHead(l, e), elem |-> g]
  BY <1>8 DEF push_head
<1>14. r.head = e /\ r.tail_chain = TailAfterHead(l, e) /\ r.elem = g
  BY <1>13
<1>15. TailAfterHead(l, e) = t[n + 1]
  <2>1. CASE n = 0
    BY <1>3, <1>5, <2>1 DEF TailAfterHead
  <2>2. CASE n # 0
    <3>1. 1 \in 1 .. n /\ n \in 1 .. n
      BY <2>2
    <3>2. l.head # Null
      BY <1>3, <1>11, <2>2, <3>1, HeapAssumption
    <3>3. t[n + 1] = s[n]
      BY <1>5, <3>1
    <3> QED
      BY <1>3, <2>2, <3>2, <3>3 DEF TailAfterHead
  <2> QED
    BY <2>1, <2>2
<1>16. /\ Len(w) = Len(t) /\ Len(t) # 0 /\ r.head = t[1] /\ r.tail_chain = t[Len(t)]
       /\ DOMAIN r.elem = ToSet(t)
       /\ r = [head |-> r.head, tail_chain |-> r.tail_chain, elem |-> r.elem]
  BY <1>5, <1>7, <1>9, <1>13, <1>14, <1>15
<1>17. \A i \in 1 .. Len(t) : r.elem[t[i]] = Elem(IF i = Len(t) THEN Null ELSE t[i + 1], w[i])
  BY <1>5, <1>12, <1>14
<1>18. ListOf(r, t, w)
  BY <1>5, <1>16, <1>17 DEF ListOf
<1> QED
  BY <1>1, <1>4, <1>6, <1>18

(* push_tail hangs its value on the tail link.                             *)
LEMMA PushTailFact ==
  ASSUME NEW l, NEW es, NEW vs, ListOf(l, es, vs),
         NEW e \in Addr, e \notin ToSet(es), NEW p \in Addr,
         NEW r, r = push_tail(l, e, p)
  PROVE  ListOf(r, Append(es, e), Append(vs, p))
<1>1. PICK s \in Seq(Addr), v \in Seq(Addr) : s = es /\ v = vs
  BY DEF ListOf
<1>2. PICK n \in Nat : n = Len(s)
  OBVIOUS
<1>3. /\ Len(v) = n /\ IsInjective(s) /\ DOMAIN l.elem = ToSet(s)
      /\ l.head = (IF n = 0 THEN Null ELSE s[1])
      /\ l.tail_chain = (IF n = 0 THEN HeadLink ELSE s[n])
      /\ \A i \in 1 .. n : l.elem[s[i]] = Elem(IF i = n THEN Null ELSE s[i + 1], v[i])
  BY <1>1, <1>2 DEF ListOf
<1>4. PICK t \in Seq(Addr) : t = Append(s, e)
  BY AppendFact
<1>5. /\ Len(t) = n + 1 /\ t[n + 1] = e
      /\ \A i \in 1 .. n : t[i] = s[i]
  BY <1>2, <1>4, AppendFact
<1>6. ToSet(t) = ToSet(s) \cup {e} /\ IsInjective(t)
  BY <1>1, <1>3, <1>4, AppendSet
<1>7. PICK w \in Seq(Addr) : w = Append(v, p)
  BY AppendFact
<1>8. Len(w) = n + 1 /\ w[n + 1] = p /\ \A i \in 1 .. n : w[i] = v[i]
  BY <1>3, <1>7, AppendFact
<1>9. PICK g : g = With(l.elem, e, Elem(Null, p))
  OBVIOUS
<1>10. /\ DOMAIN g = ToSet(s) \cup {e} /\ g[e] = Elem(Null, p)
       /\ \A x \in ToSet(s) : g[x] = l.elem[x]
       /\ g = [x \in DOMAIN g |-> g[x]]
  BY <1>1, <1>3, <1>9 DEF With
<1>11. DOMAIN s = 1 .. n
  BY <1>2
<1>12. \A i \in 1 .. n : s[i] \in ToSet(s) /\ s[i] \in Addr
  BY <1>11 DEF ToSet
<1>13. ASSUME n = 0 PROVE ListOf(r, t, w)
  <2>1. l.tail_chain = HeadLink
    BY <1>3, <1>13
  <2>2. r = [head |-> e, tail_chain |-> e, elem |-> g]
    BY <1>9, <2>1 DEF push_tail
  <2>3. r.head = e /\ r.tail_chain = e /\ r.elem = g
    BY <2>2
  <2>4. r = [head |-> r.head, tail_chain |-> r.tail_chain, elem |-> r.elem]
    BY <2>2, <2>3
  <2>5. Len(t) = 1 /\ t[1] = e /\ Len(w) = 1 /\ w[1] = p
    BY <1>5, <1>8, <1>13
  <2>6. \A i \in 1 .. 1 : g[t[i]] = Elem(IF i = 1 THEN Null ELSE t[i + 1], w[i])
    BY <1>10, <2>5
  <2>7. DOMAIN r.elem = ToSet(t)
    BY <1>6, <1>10, <2>3
  <2> QED
    BY <1>6, <2>3, <2>4, <2>5, <2>6, <2>7 DEF ListOf
<1>14. ASSUME n # 0 PROVE ListOf(r, t, w)
  <2>1. 1 \in 1 .. n /\ n \in 1 .. n /\ n + 1 # n
    BY <1>14
  <2>2. PICK z \in Addr : z = s[n] /\ z \in ToSet(s)
    BY <1>12, <2>1
  <2>3. l.tail_chain = z /\ z # HeadLink /\ z # e
    BY <1>1, <1>3, <1>14, <2>2, ListAssumption
  <2>4. PICK h : h = [g EXCEPT ![z].chain = e]
    OBVIOUS
  <2>5. /\ DOMAIN h = DOMAIN g /\ h[z] = [g[z] EXCEPT !.chain = e]
        /\ \A x \in DOMAIN g : x # z => h[x] = g[x]
    BY <1>10, <2>2, <2>4
  <2>6. r = [head |-> l.head, tail_chain |-> e, elem |-> h]
    BY <1>9, <2>3, <2>4 DEF push_tail
  <2>7. r.head = l.head /\ r.tail_chain = e /\ r.elem = h
    BY <2>6
  <2>8. r = [head |-> r.head, tail_chain |-> r.tail_chain, elem |-> r.elem]
    BY <2>6, <2>7
  <2>9. h[z] = Elem(e, v[n])
    <3>1. g[z] = Elem(Null, v[n])
      BY <1>3, <1>10, <2>1, <2>2
    <3> QED
      BY <2>5, <3>1 DEF Elem
  <2>10. ASSUME NEW i \in 1 .. n + 1
         PROVE  h[t[i]] = Elem(IF i = n + 1 THEN Null ELSE t[i + 1], w[i])
    <3>1. CASE i = n + 1
      <4>1. t[i] = e /\ w[i] = p
        BY <1>5, <1>8, <3>1
      <4>2. h[e] = g[e]
        BY <1>10, <2>3, <2>5
      <4> QED
        BY <1>10, <3>1, <4>1, <4>2
    <3>2. CASE i = n
      <4>1. t[i] = z /\ w[i] = v[n] /\ t[i + 1] = e /\ i # n + 1
        BY <1>5, <1>8, <2>1, <2>2, <3>2
      <4> QED
        BY <2>9, <4>1
    <3>3. CASE i # n /\ i # n + 1
      <4>1. i \in 1 .. n /\ i + 1 \in 1 .. n
        BY <3>3
      <4>2. t[i] = s[i] /\ t[i + 1] = s[i + 1] /\ w[i] = v[i]
        BY <1>5, <1>8, <4>1
      <4>3. s[i] # z
        BY <1>3, <1>11, <2>1, <2>2, <3>3, <4>1 DEF IsInjective
      <4>4. h[s[i]] = g[s[i]] /\ g[s[i]] = l.elem[s[i]]
        BY <1>10, <1>12, <2>5, <4>1, <4>3
      <4>5. l.elem[s[i]] = Elem(s[i + 1], v[i])
        BY <1>3, <3>3, <4>1
      <4> QED
        BY <3>3, <4>2, <4>4, <4>5
    <3> QED
      BY <3>1, <3>2, <3>3
  <2>11. /\ Len(w) = Len(t) /\ Len(t) # 0 /\ r.tail_chain = t[Len(t)]
         /\ DOMAIN r.elem = ToSet(t) /\ r.head = t[1]
    <3>1. t[1] = s[1]
      BY <1>5, <2>1
    <3>2. l.head = s[1]
      BY <1>3, <1>14
    <3>3. DOMAIN r.elem = ToSet(t)
      BY <1>6, <1>10, <2>5, <2>7
    <3>4. Len(w) = Len(t) /\ Len(t) # 0 /\ t[Len(t)] = e
      BY <1>5, <1>8
    <3> QED
      BY <2>7, <3>1, <3>2, <3>3, <3>4
  <2>12. \A i \in 1 .. Len(t) : r.elem[t[i]] = Elem(IF i = Len(t) THEN Null ELSE t[i + 1], w[i])
    BY <1>5, <2>7, <2>10
  <2> QED
    BY <1>6, <2>8, <2>11, <2>12 DEF ListOf
<1> QED
  BY <1>1, <1>4, <1>7, <1>13, <1>14

-----------------------------------------------------------------------------
(* The doubly linked list.                                                 *)

Pairs == Nat \X Nat

(* The i-th link of a list of the elements es, sentinels included.         *)
Pos(es, i) == IF i = 0 THEN Head0 ELSE IF i = Len(es) + 1 THEN Tail0 ELSE es[i]

(* l links the elements es in this order, in both directions.              *)
DlistOf(l, es) ==
  /\ l = [next |-> l.next, prev |-> l.prev]
  /\ es \in Seq(Pairs) /\ IsInjective(es)
  /\ DOMAIN l.next = ToSet(es) \cup {Head0}
  /\ DOMAIN l.prev = ToSet(es) \cup {Tail0}
  /\ \A i \in 0 .. Len(es) : /\ l.next[Pos(es, i)] = Pos(es, i + 1)
                             /\ l.prev[Pos(es, i + 1)] = Pos(es, i)

(* No link is in two positions.                                            *)
LEMMA PosFact ==
  ASSUME NEW es \in Seq(Pairs), IsInjective(es)
  PROVE  /\ \A i, j \in 0 .. Len(es) + 1 : Pos(es, i) = Pos(es, j) => i = j
         /\ \A i \in 1 .. Len(es) : Pos(es, i) = es[i] /\ Pos(es, i) \in ToSet(es)
         /\ Pos(es, 0) = Head0 /\ Pos(es, Len(es) + 1) = Tail0
         /\ Head0 \notin ToSet(es) /\ Tail0 \notin ToSet(es)
<1>1. PICK n \in Nat : n = Len(es)
  OBVIOUS
<1>2. DOMAIN es = 1 .. n
  BY <1>1
<1>3. \A i \in 1 .. n : es[i] \in ToSet(es) /\ es[i] \in Pairs
  BY <1>2 DEF ToSet
<1>4. Head0 \notin Pairs /\ Tail0 \notin Pairs /\ Head0 # Tail0
  BY ListAssumption DEF Pairs
<1>5. ToSet(es) \subseteq Pairs
  BY <1>2, <1>3 DEF ToSet
<1>6. Pos(es, 0) = Head0 /\ Pos(es, n + 1) = Tail0
  BY <1>1 DEF Pos
<1>7. \A i \in 1 .. n : Pos(es, i) = es[i]
  BY <1>1 DEF Pos
<1>8. \A i \in 0 .. n + 1 : i = 0 \/ i = n + 1 \/ i \in 1 .. n
  OBVIOUS
<1>9. ASSUME NEW i \in 0 .. n + 1, NEW j \in 0 .. n + 1, Pos(es, i) = Pos(es, j)
      PROVE  i = j
  <2>1. CASE i \in 1 .. n /\ j \in 1 .. n
    BY <1>2, <1>7, <1>9, <2>1 DEF IsInjective
  <2>2. CASE ~(i \in 1 .. n /\ j \in 1 .. n)
    BY <1>3, <1>4, <1>6, <1>7, <1>8, <1>9, <2>2
  <2> QED
    BY <2>1, <2>2
<1>10. Head0 \notin ToSet(es) /\ Tail0 \notin ToSet(es)
  BY <1>4, <1>5
<1> QED
  BY <1>1, <1>3, <1>6, <1>7, <1>9, <1>10

(* A new list links nothing but its sentinels.                             *)
LEMMA NewDlist == DlistOf(dlist_init, <<>>)
<1>1. PICK l : l = dlist_init
  OBVIOUS
<1>2a. <<>> \in Seq(Pairs) /\ Len(<<>>) = 0
  OBVIOUS
<1>2. PICK z \in Seq(Pairs) : z = <<>> /\ Len(z) = 0
  BY <1>2a, Zenon
<1>3. l = [next |-> [e \in {Head0} |-> Tail0], prev |-> [e \in {Tail0} |-> Head0]]
  BY <1>1 DEF dlist_init
<1>4. l.next = [e \in {Head0} |-> Tail0] /\ l.prev = [e \in {Tail0} |-> Head0]
  BY <1>3
<1>5. l = [next |-> l.next, prev |-> l.prev]
  BY <1>3, <1>4
<1>6. ToSet(z) = {} /\ IsInjective(z)
  BY <1>2 DEF ToSet, IsInjective
<1>7. ASSUME NEW i \in 0 .. Len(z)
      PROVE  l.next[Pos(z, i)] = Pos(z, i + 1) /\ l.prev[Pos(z, i + 1)] = Pos(z, i)
  <2>1. i = 0
    BY <1>2
  <2> QED
    BY <1>2, <1>4, <2>1 DEF Pos
<1>8. DlistOf(l, z)
  BY <1>4, <1>5, <1>6, <1>7 DEF DlistOf
<1> QED
  BY <1>1, <1>2, <1>8

(* A walk visits the elements in order.                                    *)
LEMMA DlistVisited ==
  ASSUME NEW l, NEW es, DlistOf(l, es)
  PROVE  /\ DVisited(l) = es /\ DElems(l) = ToSet(es)
         /\ \A e \in DOMAIN l.next : l.prev[l.next[e]] = e
<1>1. PICK s \in Seq(Pairs) : s = es
  BY DEF DlistOf
<1>2. PICK n \in Nat : n = Len(s)
  OBVIOUS
<1>3. IsInjective(s) /\ DOMAIN l.next = ToSet(s) \cup {Head0}
  BY <1>1 DEF DlistOf
<1>4. /\ \A i, j \in 0 .. n + 1 : Pos(s, i) = Pos(s, j) => i = j
      /\ \A i \in 1 .. n : Pos(s, i) = s[i] /\ Pos(s, i) \in ToSet(s)
      /\ Pos(s, 0) = Head0 /\ Pos(s, n + 1) = Tail0
      /\ Head0 \notin ToSet(s) /\ Tail0 \notin ToSet(s)
  BY <1>2, <1>3, PosFact
<1>5. \A i \in 0 .. n : l.next[Pos(s, i)] = Pos(s, i + 1) /\ l.prev[Pos(s, i + 1)] = Pos(s, i)
  BY <1>1, <1>2 DEF DlistOf
<1>6. DElems(l) = ToSet(s)
  BY <1>3, <1>4 DEF DElems
<1>7. Cardinality(ToSet(s)) = Len(s)
  BY <1>3, LenCardinality
<1>8. PICK link, f : link = l.next /\ f = l.next[Head0]
  OBVIOUS
<1>9. f = IF Len(s) = 0 THEN Tail0 ELSE s[1]
  <2>1. f = Pos(s, 1)
    <3>1. 0 \in 0 .. n /\ 0 + 1 = 1
      OBVIOUS
    <3> QED
      BY <1>4, <1>5, <1>8, <3>1
  <2>2. CASE n = 0
    BY <1>2, <1>4, <2>1, <2>2
  <2>3. CASE n # 0
    <3>1. 1 \in 1 .. n
      BY <2>3
    <3> QED
      BY <1>2, <1>4, <2>1, <2>3, <3>1
  <2> QED
    BY <2>2, <2>3
<1>10. \A i \in 1 .. Len(s) : link[s[i]] = IF i = Len(s) THEN Tail0 ELSE s[i + 1]
  <2> SUFFICES ASSUME NEW i \in 1 .. n
               PROVE  link[s[i]] = IF i = n THEN Tail0 ELSE s[i + 1]
    BY <1>2
  <2>1. link[s[i]] = Pos(s, i + 1)
    BY <1>4, <1>5, <1>8
  <2>2. CASE i = n
    BY <1>4, <2>1, <2>2
  <2>3. CASE i # n
    <3>1. i + 1 \in 1 .. n
      BY <2>3
    <3> QED
      BY <1>4, <2>1, <2>3, <3>1
  <2> QED
    BY <2>2, <2>3
<1>11. Follow(link, f, Tail0, Len(s)) = s
  BY <1>4, <1>9, <1>10, FollowFact
<1>12. DVisited(l) = s
  BY <1>6, <1>7, <1>8, <1>11 DEF DVisited
<1>13. ASSUME NEW e \in DOMAIN l.next PROVE l.prev[l.next[e]] = e
  <2>1. PICK i \in 0 .. n : e = Pos(s, i)
    <3>1. CASE e = Head0
      <4>1. 0 \in 0 .. n
        OBVIOUS
      <4> QED
        BY <1>4, <3>1, <4>1
    <3>2. CASE e # Head0
      <4>1. DOMAIN s = 1 .. n
        BY <1>2
      <4>2. PICK i \in 1 .. n : e = s[i]
        BY <1>3, <1>13, <3>2, <4>1 DEF ToSet
      <4> QED
        BY <1>4, <4>2
    <3> QED
      BY <3>1, <3>2
  <2> QED
    BY <1>5, <2>1
<1> QED
  BY <1>1, <1>6, <1>12, <1>13

(* push_back links e before the tail.                                      *)
LEMMA PushBackFact ==
  ASSUME NEW l, NEW es, DlistOf(l, es), NEW e \in Pairs, e \notin ToSet(es),
         NEW r, r = dlist_push_back(l, e)
  PROVE  DlistOf(r, Append(es, e))
<1>1. PICK s \in Seq(Pairs) : s = es
  BY DEF DlistOf
<1>2. PICK n \in Nat : n = Len(s)
  OBVIOUS
<1>3. IsInjective(s) /\ DOMAIN l.next = ToSet(s) \cup {Head0} /\ DOMAIN l.prev = ToSet(s) \cup {Tail0}
  BY <1>1 DEF DlistOf
<1>4. /\ \A i, j \in 0 .. n + 1 : Pos(s, i) = Pos(s, j) => i = j
      /\ \A i \in 1 .. n : Pos(s, i) = s[i] /\ Pos(s, i) \in ToSet(s)
      /\ Pos(s, 0) = Head0 /\ Pos(s, n + 1) = Tail0
      /\ Head0 \notin ToSet(s) /\ Tail0 \notin ToSet(s)
  BY <1>2, <1>3, PosFact
<1>5. \A i \in 0 .. n : l.next[Pos(s, i)] = Pos(s, i + 1) /\ l.prev[Pos(s, i + 1)] = Pos(s, i)
  BY <1>1, <1>2 DEF DlistOf
<1>6. PICK t \in Seq(Pairs) : t = Append(s, e)
  BY AppendFact
<1>7. Len(t) = n + 1 /\ t[n + 1] = e /\ \A i \in 1 .. n : t[i] = s[i]
  BY <1>2, <1>6, AppendFact
<1>8. ToSet(t) = ToSet(s) \cup {e} /\ IsInjective(t)
  BY <1>1, <1>3, <1>6, AppendSet
<1>9. /\ \A i \in 0 .. n : Pos(t, i) = Pos(s, i)
      /\ Pos(t, n + 1) = e /\ Pos(t, n + 2) = Tail0
  BY <1>2, <1>7 DEF Pos
<1>10. e # Head0 /\ e # Tail0
  BY ListAssumption DEF Pairs
<1>11. \A i \in 0 .. n + 1 : Pos(s, i) # e
  <2>1. \A i \in 0 .. n + 1 : i = 0 \/ i = n + 1 \/ i \in 1 .. n
    OBVIOUS
  <2> QED
    BY <1>1, <1>4, <1>10, <2>1
<1>12. PICK p : p = Pos(s, n)
  OBVIOUS
<1>13. l.prev[Tail0] = p /\ p \in DOMAIN l.next
  <2>1. n \in 0 .. n
    OBVIOUS
  <2>2. CASE n = 0
    BY <1>3, <1>4, <1>5, <1>12, <2>1, <2>2
  <2>3. CASE n # 0
    <3>1. n \in 1 .. n
      BY <2>3
    <3> QED
      BY <1>3, <1>4, <1>5, <1>12, <2>1, <3>1
  <2> QED
    BY <2>2, <2>3
<1>14. PICK f, g : /\ f = With(With(l.next, e, Tail0), p, e)
                   /\ g = With(With(l.prev, e, p), Tail0, e)
  OBVIOUS
<1>15. r = [next |-> f, prev |-> g]
  BY <1>13, <1>14 DEF dlist_push_back
<1>16. r.next = f /\ r.prev = g /\ r = [next |-> r.next, prev |-> r.prev]
  BY <1>15
<1>17. /\ DOMAIN f = ToSet(t) \cup {Head0} /\ f[p] = e /\ (e # p => f[e] = Tail0)
       /\ \A x \in DOMAIN l.next : x # e /\ x # p => f[x] = l.next[x]
  BY <1>3, <1>8, <1>13, <1>14 DEF With
<1>18. /\ DOMAIN g = ToSet(t) \cup {Tail0} /\ g[Tail0] = e /\ (e # Tail0 => g[e] = p)
       /\ \A x \in DOMAIN l.prev : x # e /\ x # Tail0 => g[x] = l.prev[x]
  BY <1>3, <1>8, <1>14 DEF With
<1>19. e # p
  <2>1. n \in 0 .. n + 1
    OBVIOUS
  <2> QED
    BY <1>11, <1>12, <2>1
<1>20. ASSUME NEW i \in 0 .. n + 1
       PROVE  f[Pos(t, i)] = Pos(t, i + 1) /\ g[Pos(t, i + 1)] = Pos(t, i)
  <2>1. CASE i = n + 1
    <3>1. Pos(t, i) = e /\ Pos(t, i + 1) = Tail0
      <4>1. i + 1 = n + 2
        BY <2>1
      <4> QED
        BY <1>9, <2>1, <4>1
    <3> QED
      BY <1>17, <1>18, <1>19, <3>1
  <2>2. CASE i = n
    <3>1. Pos(t, i) = p /\ Pos(t, i + 1) = e
      BY <1>9, <1>12, <2>2
    <3> QED
      BY <1>10, <1>17, <1>18, <3>1
  <2>3. CASE i # n /\ i # n + 1
    <3>1. i \in 0 .. n /\ i + 1 \in 0 .. n /\ i + 1 \in 1 .. n /\ i \in 0 .. n + 1 /\ n \in 0 .. n + 1
      BY <2>3
    <3>2. Pos(t, i) = Pos(s, i) /\ Pos(t, i + 1) = Pos(s, i + 1)
      BY <1>9, <3>1
    <3>3. Pos(s, i) # e /\ Pos(s, i) # p /\ Pos(s, i + 1) # e
      BY <1>4, <1>11, <1>12, <2>3, <3>1
    <3>4. Pos(s, i + 1) \in DOMAIN l.prev /\ Pos(s, i + 1) # Tail0
      BY <1>3, <1>4, <3>1
    <3>5. Pos(s, i) \in DOMAIN l.next
      <4>1. i = 0 \/ i \in 1 .. n
        BY <3>1
      <4> QED
        BY <1>3, <1>4, <4>1
    <3> QED
      BY <1>5, <1>17, <1>18, <3>1, <3>2, <3>3, <3>4, <3>5
  <2> QED
    BY <2>1, <2>2, <2>3
<1>21. \A i \in 0 .. Len(t) : r.next[Pos(t, i)] = Pos(t, i + 1) /\ r.prev[Pos(t, i + 1)] = Pos(t, i)
  BY <1>7, <1>16, <1>20
<1>22. DlistOf(r, t)
  BY <1>8, <1>16, <1>17, <1>18, <1>21 DEF DlistOf
<1> QED
  BY <1>1, <1>6, <1>22

(* A sequence without its k-th element.                                    *)
LEMMA RemoveFact ==
  ASSUME NEW S, NEW s \in Seq(S), NEW k \in 1 .. Len(s), IsInjective(s)
  PROVE  LET u == RemoveAt(s, k)
         IN  /\ u \in Seq(S) /\ Len(u) = Len(s) - 1 /\ IsInjective(u)
             /\ ToSet(u) = ToSet(s) \ {s[k]}
             /\ \A i \in 1 .. Len(s) - 1 : u[i] = IF i < k THEN s[i] ELSE s[i + 1]
<1>1. PICK n \in Nat : n = Len(s)
  OBVIOUS
<1>2. DOMAIN s = 1 .. n /\ \A i \in 1 .. n : s[i] \in S
  <2>1. DOMAIN s = 1 .. Len(s) /\ \A i \in 1 .. Len(s) : s[i] \in S
    OBVIOUS
  <2> QED
    BY <1>1, <2>1
<1>3. PICK a : a = SubSeq(s, 1, k - 1)
  OBVIOUS
<1>4. PICK b : b = SubSeq(s, k + 1, n)
  OBVIOUS
<1>5. a \in Seq(S) /\ Len(a) = k - 1 /\ \A i \in 1 .. k - 1 : a[i] = s[i]
  <2>1. 1 \in Int /\ k - 1 \in Int /\ \A i \in 1 .. k - 1 : s[i] \in S
    BY <1>1, <1>2
  <2>2. /\ a \in Seq(S) /\ Len(a) = IF 1 <= k - 1 THEN (k - 1) - 1 + 1 ELSE 0
        /\ \A i \in 1 .. (k - 1) - 1 + 1 : a[i] = s[1 + i - 1]
    BY <1>3, <2>1, SubSeqProperties
  <2> QED
    BY <1>1, <2>2
<1>6. b \in Seq(S) /\ Len(b) = n - k /\ \A i \in 1 .. n - k : b[i] = s[k + i]
  <2>1. k + 1 \in Int /\ n \in Int /\ \A i \in k + 1 .. n : s[i] \in S
    BY <1>1, <1>2
  <2>2. /\ b \in Seq(S) /\ Len(b) = IF k + 1 <= n THEN n - (k + 1) + 1 ELSE 0
        /\ \A i \in 1 .. n - (k + 1) + 1 : b[i] = s[(k + 1) + i - 1]
    BY <1>4, <2>1, SubSeqProperties
  <2>3. \A i \in 1 .. n - k : i \in 1 .. n - (k + 1) + 1 /\ (k + 1) + i - 1 = k + i
    BY <1>1
  <2>4. Len(b) = n - k
    BY <1>1, <2>2
  <2> QED
    BY <2>2, <2>3, <2>4
<1>7. PICK v \in Seq(S), w \in Seq(S) : v = a /\ w = b
  BY <1>5, <1>6
<1>8. PICK u \in Seq(S) : u = v \o w
  BY ConcatProperties, Zenon
<1>9. Len(u) = n - 1 /\ \A i \in 1 .. n - 1 : u[i] = IF i < k THEN s[i] ELSE s[i + 1]
  <2>1. Len(u) = Len(v) + Len(w)
    BY <1>8, ConcatProperties
  <2>2. \A i \in 1 .. Len(v) : u[i] = v[i]
    BY <1>8
  <2>3. \A i \in 1 .. Len(w) : u[Len(v) + i] = w[i]
    BY <1>8
  <2>4. Len(v) = k - 1 /\ Len(w) = n - k
    BY <1>5, <1>6, <1>7
  <2>5. Len(u) = n - 1
    BY <1>1, <2>1, <2>4
  <2>6. ASSUME NEW i \in 1 .. n - 1 PROVE u[i] = IF i < k THEN s[i] ELSE s[i + 1]
    <3>1. CASE i < k
      <4>1. i \in 1 .. k - 1
        BY <3>1
      <4> QED
        BY <1>5, <1>7, <2>2, <2>4, <3>1, <4>1
    <3>2. CASE ~(i < k)
      <4>1. PICK j \in 1 .. n - k : j = i - (k - 1) /\ (k - 1) + j = i /\ k + j = i + 1
        BY <1>1, <3>2
      <4>2. u[(k - 1) + j] = w[j]
        BY <2>3, <2>4
      <4> QED
        BY <1>6, <1>7, <3>2, <4>1, <4>2
    <3> QED
      BY <3>1, <3>2
  <2> QED
    BY <2>5, <2>6
<1>10. u = RemoveAt(s, k)
  BY <1>1, <1>3, <1>4, <1>7, <1>8 DEF RemoveAt
<1>11. DOMAIN u = 1 .. n - 1
  <2>1. DOMAIN u = 1 .. Len(u)
    OBVIOUS
  <2> QED
    BY <1>9, <2>1
<1>12. PICK at : at = [i \in 1 .. n - 1 |-> IF i < k THEN i ELSE i + 1]
  OBVIOUS
<1>12a. \A i \in 1 .. n - 1 : at[i] \in 1 .. n
  BY <1>1, <1>12
<1>13. /\ \A i \in 1 .. n - 1 : u[i] = s[at[i]] /\ at[i] # k
       /\ \A i, j \in 1 .. n - 1 : at[i] = at[j] => i = j
       /\ \A m \in 1 .. n : m # k => \E i \in 1 .. n - 1 : at[i] = m
  <2>1. ASSUME NEW m \in 1 .. n, m # k PROVE \E i \in 1 .. n - 1 : at[i] = m
    <3>1. CASE m < k
      <4>1. m \in 1 .. n - 1 /\ at[m] = m
        BY <1>1, <1>12, <3>1
      <4> QED
        BY <4>1
    <3>2. CASE m > k
      <4>1. m - 1 \in 1 .. n - 1 /\ at[m - 1] = m
        BY <1>1, <1>12, <3>2
      <4> QED
        BY <4>1
    <3> QED
      BY <2>1, <3>1, <3>2
  <2>2. \A i \in 1 .. n - 1 : u[i] = s[at[i]] /\ at[i] # k
    BY <1>9, <1>12
  <2>3. \A i, j \in 1 .. n - 1 : at[i] = at[j] => i = j
    BY <1>12
  <2> QED
    BY <2>1, <2>2, <2>3
<1>14. \A i \in 1 .. n, j \in 1 .. n : s[i] = s[j] => i = j
  BY <1>2 DEF IsInjective
<1>15. IsInjective(u)
  <2>1. ASSUME NEW i \in 1 .. n - 1, NEW j \in 1 .. n - 1, u[i] = u[j] PROVE i = j
    <3>1. at[i] \in 1 .. n /\ at[j] \in 1 .. n /\ s[at[i]] = s[at[j]]
      BY <1>12a, <1>13, <2>1
    <3>2. at[i] = at[j]
      BY <1>14, <3>1
    <3> QED
      BY <1>13, <3>2
  <2> QED
    BY <1>11, <2>1 DEF IsInjective
<1>16. ToSet(u) = ToSet(s) \ {s[k]}
  <2>1. ASSUME NEW x \in ToSet(u) PROVE x \in ToSet(s) \ {s[k]}
    <3>1. PICK i \in 1 .. n - 1 : x = u[i]
      BY <1>11 DEF ToSet
    <3>2. at[i] \in 1 .. n /\ k \in 1 .. n /\ x = s[at[i]] /\ x # s[k]
      <4>1. at[i] \in 1 .. n /\ k \in 1 .. n
        BY <1>1, <1>12a, <3>1
      <4>2. x = s[at[i]] /\ at[i] # k
        BY <1>13, <3>1
      <4>3. s[at[i]] # s[k]
        BY <1>14, <4>1, <4>2
      <4> QED
        BY <4>1, <4>2, <4>3
    <3> QED
      BY <1>2, <3>2 DEF ToSet
  <2>2. ASSUME NEW x \in ToSet(s) \ {s[k]} PROVE x \in ToSet(u)
    <3>1. PICK m \in 1 .. n : x = s[m] /\ m # k
      BY <1>2 DEF ToSet
    <3>2. PICK i \in 1 .. n - 1 : at[i] = m
      BY <1>13, <3>1
    <3>3. x = u[i]
      BY <1>13, <3>1, <3>2
    <3> QED
      BY <1>11, <3>3 DEF ToSet
  <2> QED
    BY <2>1, <2>2
<1> QED
  BY <1>1, <1>9, <1>10, <1>15, <1>16

(* remove links the neighbours of e to one another.                        *)
LEMMA UnlinkFact ==
  ASSUME NEW l, NEW es, DlistOf(l, es), NEW k \in 1 .. Len(es), NEW e, e = es[k],
         NEW r, r = dlist_remove(l, e)
  PROVE  DlistOf(r, RemoveAt(es, k))
<1>1. PICK s \in Seq(Pairs) : s = es
  BY DEF DlistOf
<1>2. PICK n \in Nat : n = Len(s)
  OBVIOUS
<1>3. IsInjective(s) /\ DOMAIN l.next = ToSet(s) \cup {Head0} /\ DOMAIN l.prev = ToSet(s) \cup {Tail0}
  BY <1>1 DEF DlistOf
<1>4. /\ \A i, j \in 0 .. n + 1 : Pos(s, i) = Pos(s, j) => i = j
      /\ \A i \in 1 .. n : Pos(s, i) = s[i] /\ Pos(s, i) \in ToSet(s)
      /\ Pos(s, 0) = Head0 /\ Pos(s, n + 1) = Tail0
      /\ Head0 \notin ToSet(s) /\ Tail0 \notin ToSet(s)
  BY <1>2, <1>3, PosFact
<1>5. \A i \in 0 .. n : l.next[Pos(s, i)] = Pos(s, i + 1) /\ l.prev[Pos(s, i + 1)] = Pos(s, i)
  BY <1>1, <1>2 DEF DlistOf
<1>6. k \in 1 .. n /\ k \in 1 .. Len(s)
  BY <1>1, <1>2
<1>7. PICK t \in Seq(Pairs) : t = RemoveAt(s, k)
  BY <1>3, <1>6, RemoveFact
<1>8. /\ Len(t) = n - 1 /\ IsInjective(t) /\ ToSet(t) = ToSet(s) \ {e}
      /\ \A i \in 1 .. n - 1 : t[i] = IF i < k THEN s[i] ELSE s[i + 1]
  BY <1>1, <1>2, <1>3, <1>6, <1>7, RemoveFact
<1>9. \A i \in 0 .. n : Pos(t, i) = IF i < k THEN Pos(s, i) ELSE Pos(s, i + 1)
  <2> SUFFICES ASSUME NEW i \in 0 .. n
               PROVE  Pos(t, i) = IF i < k THEN Pos(s, i) ELSE Pos(s, i + 1)
    OBVIOUS
  <2>0. (n - 1) + 1 = n
    OBVIOUS
  <2>1. CASE i = 0
    BY <1>6, <2>1 DEF Pos
  <2>2. CASE i = n
    BY <1>2, <1>6, <1>8, <2>0, <2>2 DEF Pos
  <2>3. CASE i # 0 /\ i # n
    <3>1. i \in 1 .. n - 1 /\ i \in 1 .. n /\ i + 1 \in 1 .. n
      BY <2>3
    <3>2. Pos(t, i) = t[i]
      BY <1>8, <2>0, <2>3 DEF Pos
    <3> QED
      BY <1>4, <1>8, <3>1, <3>2
  <2> QED
    BY <2>1, <2>2, <2>3
<1>10. PICK p, q : p = Pos(s, k - 1) /\ q = Pos(s, k + 1)
  OBVIOUS
<1>11. e = Pos(s, k)
  BY <1>1, <1>4, <1>6
<1>12. l.prev[e] = p /\ l.next[e] = q
  <2>1. k - 1 \in 0 .. n /\ (k - 1) + 1 = k /\ k \in 0 .. n
    BY <1>6
  <2> QED
    BY <1>5, <1>10, <1>11, <2>1
<1>13. p \in DOMAIN l.next /\ q \in DOMAIN l.prev
  <2>1. k - 1 = 0 \/ k - 1 \in 1 .. n
    BY <1>6
  <2>2. k + 1 = n + 1 \/ k + 1 \in 1 .. n
    BY <1>6
  <2> QED
    BY <1>3, <1>4, <1>10, <2>1, <2>2
<1>14. PICK f, g : f = Without(With(l.next, p, q), e) /\ g = Without(With(l.prev, q, p), e)
  OBVIOUS
<1>15. r = [next |-> f, prev |-> g]
  BY <1>12, <1>14 DEF dlist_remove
<1>16. r.next = f /\ r.prev = g /\ r = [next |-> r.next, prev |-> r.prev]
  BY <1>15
<1>17. e # Head0 /\ e # Tail0
  BY <1>4, <1>6, <1>11
<1>18. /\ DOMAIN f = ToSet(t) \cup {Head0}
       /\ \A x \in DOMAIN l.next : x # e => f[x] = IF x = p THEN q ELSE l.next[x]
  <2>1. PICK h : h = With(l.next, p, q)
    OBVIOUS
  <2>2. DOMAIN h = DOMAIN l.next /\ \A x \in DOMAIN l.next : h[x] = IF x = p THEN q ELSE l.next[x]
    BY <1>13, <2>1 DEF With
  <2>3. f = [x \in DOMAIN h \ {e} |-> h[x]]
    BY <1>14, <2>1 DEF Without, Restrict
  <2> QED
    BY <1>3, <1>8, <1>17, <2>2, <2>3
<1>19. /\ DOMAIN g = ToSet(t) \cup {Tail0}
       /\ \A x \in DOMAIN l.prev : x # e => g[x] = IF x = q THEN p ELSE l.prev[x]
  <2>1. PICK h : h = With(l.prev, q, p)
    OBVIOUS
  <2>2. DOMAIN h = DOMAIN l.prev /\ \A x \in DOMAIN l.prev : h[x] = IF x = q THEN p ELSE l.prev[x]
    BY <1>13, <2>1 DEF With
  <2>3. g = [x \in DOMAIN h \ {e} |-> h[x]]
    BY <1>14, <2>1 DEF Without, Restrict
  <2> QED
    BY <1>3, <1>8, <1>17, <2>2, <2>3
<1>20. /\ \A i \in 0 .. n : Pos(s, i) \in DOMAIN l.next
       /\ \A i \in 1 .. n + 1 : Pos(s, i) \in DOMAIN l.prev
  <2>1. /\ \A i \in 0 .. n : i = 0 \/ i \in 1 .. n
        /\ \A i \in 1 .. n + 1 : i = n + 1 \/ i \in 1 .. n
    OBVIOUS
  <2> QED
    BY <1>3, <1>4, <2>1
<1>21. ASSUME NEW i \in 0 .. n - 1
       PROVE  f[Pos(t, i)] = Pos(t, i + 1) /\ g[Pos(t, i + 1)] = Pos(t, i)
  <2>1. CASE i < k - 1
    <3>1. /\ i \in 0 .. n /\ i + 1 \in 0 .. n /\ i + 1 \in 1 .. n + 1 /\ i < k /\ i + 1 < k
          /\ i # k /\ i # k - 1 /\ i + 1 # k /\ i + 1 # k + 1
          /\ i \in 0 .. n + 1 /\ i + 1 \in 0 .. n + 1 /\ k \in 0 .. n + 1
          /\ k - 1 \in 0 .. n + 1 /\ k + 1 \in 0 .. n + 1
      BY <1>6, <2>1
    <3>2. Pos(t, i) = Pos(s, i) /\ Pos(t, i + 1) = Pos(s, i + 1)
      BY <1>9, <3>1
    <3>3. Pos(s, i) # e /\ Pos(s, i) # p /\ Pos(s, i + 1) # e /\ Pos(s, i + 1) # q
      BY <1>4, <1>10, <1>11, <3>1
    <3> QED
      BY <1>5, <1>18, <1>19, <1>20, <3>1, <3>2, <3>3
  <2>2. CASE i = k - 1
    <3>1. /\ i \in 0 .. n /\ i + 1 = k /\ k \in 0 .. n /\ i < k /\ k + 1 \in 1 .. n + 1
          /\ i # k /\ k + 1 # k /\ i \in 0 .. n + 1 /\ k \in 0 .. n + 1 /\ k + 1 \in 0 .. n + 1
      BY <1>6, <2>2
    <3>2. Pos(t, i) = p /\ Pos(t, i + 1) = q
      BY <1>9, <1>10, <2>2, <3>1
    <3>3. p # e /\ q # e
      BY <1>4, <1>10, <1>11, <2>2, <3>1
    <3> QED
      BY <1>13, <1>18, <1>19, <3>2, <3>3
  <2>3. CASE i > k - 1
    <3>1. /\ i \in 0 .. n /\ i + 1 \in 0 .. n /\ ~(i < k) /\ ~(i + 1 < k)
          /\ i + 1 # k /\ i + 1 # k - 1 /\ (i + 1) + 1 # k /\ (i + 1) + 1 # k + 1
          /\ (i + 1) + 1 \in 0 .. n + 1 /\ (i + 1) + 1 \in 1 .. n + 1
          /\ i + 1 \in 0 .. n + 1 /\ k \in 0 .. n + 1
          /\ k - 1 \in 0 .. n + 1 /\ k + 1 \in 0 .. n + 1
      BY <1>6, <2>3
    <3>2. Pos(t, i) = Pos(s, i + 1) /\ Pos(t, i + 1) = Pos(s, (i + 1) + 1)
      BY <1>9, <3>1
    <3>3. Pos(s, i + 1) # e /\ Pos(s, i + 1) # p /\ Pos(s, (i + 1) + 1) # e /\ Pos(s, (i + 1) + 1) # q
      BY <1>4, <1>10, <1>11, <3>1
    <3> QED
      BY <1>5, <1>18, <1>19, <1>20, <3>1, <3>2, <3>3
  <2> QED
    BY <1>6, <2>1, <2>2, <2>3
<1>22. \A i \in 0 .. Len(t) : r.next[Pos(t, i)] = Pos(t, i + 1) /\ r.prev[Pos(t, i + 1)] = Pos(t, i)
  BY <1>8, <1>16, <1>21
<1>23. DlistOf(r, t)
  BY <1>8, <1>16, <1>18, <1>19, <1>22 DEF DlistOf
<1> QED
  BY <1>1, <1>7, <1>23

-----------------------------------------------------------------------------
(* The symbol table.                                                       *)

Buckets == 0 .. num_backets - 1

(* t holds each of the names, given to the symbol it maps to, in the       *)
(* bucket of its hash and nowhere else, once.                              *)
TableOf(t, names) ==
  /\ t = [at |-> t.at, backets |-> t.backets, symstr |-> t.symstr]
  /\ t.at \in Addr /\ t.at \notin DOMAIN t.symstr
  /\ DOMAIN t.symstr \subseteq Addr /\ IsFiniteSet(DOMAIN t.symstr)
  /\ t.backets \in [Buckets -> Seq(Addr)]
  /\ \A h \in Buckets : IsInjective(t.backets[h])
  /\ \A h \in Buckets : \A sym :
       sym \in ToSet(t.backets[h]) <=>
         sym \in DOMAIN t.symstr /\ hash[t.symstr[sym]] % num_backets = h
  /\ DOMAIN names \subseteq Names
  /\ \A s \in DOMAIN names : names[s] \in DOMAIN t.symstr /\ t.symstr[names[s]] = s
  /\ \A sym \in DOMAIN t.symstr : t.symstr[sym] \in DOMAIN names /\ names[t.symstr[sym]] = sym

(* A name's bucket is one of the table's.                                  *)
LEMMA HashFact ==
  ASSUME NEW s \in Names
  PROVE  hash[s] % num_backets \in Buckets
<1>1. PICK h \in Nat, m \in Nat \ {0} : h = hash[s] /\ m = num_backets
  BY ContainersAssumption, SymbolAssumption
<1>2. h % m \in 0 .. m - 1
  OBVIOUS
<1> QED
  BY <1>1, <1>2 DEF Buckets

(* A new table holds no name.                                              *)
LEMMA NewTable ==
  ASSUME NEW p \in Addr, NEW t, t = EmptyTable(p)
  PROVE  TableOf(t, [s \in {} |-> Null]) /\ t.at = p /\ DOMAIN t.symstr = {}
<1>1. t = [at |-> p, backets |-> [h \in Buckets |-> <<>>], symstr |-> [sym \in {} |-> Null]]
  BY DEF EmptyTable, Buckets
<1>2. /\ t.at = p /\ t.backets = [h \in Buckets |-> <<>>] /\ DOMAIN t.symstr = {}
      /\ t = [at |-> t.at, backets |-> t.backets, symstr |-> t.symstr]
  BY <1>1
<1>3. <<>> \in Seq(Addr) /\ ToSet(<<>>) = {} /\ IsInjective(<<>>)
  BY DEF ToSet, IsInjective
<1>4. t.backets \in [Buckets -> Seq(Addr)]
  BY <1>2, <1>3
<1>5. \A h \in Buckets : t.backets[h] = <<>>
  BY <1>2
<1>6. PICK names : names = [s \in {} |-> Null]
  OBVIOUS
<1>7. DOMAIN names = {} /\ IsFiniteSet({})
  BY <1>6, FS_EmptySet
<1>8. \A h \in Buckets : IsInjective(t.backets[h]) /\ ToSet(t.backets[h]) = {}
  BY <1>3, <1>5
<1>9. TableOf(t, names)
  BY <1>2, <1>4, <1>7, <1>8 DEF TableOf
<1> QED
  BY <1>2, <1>6, <1>9

(* The symbols a name matches.                                             *)
LEMMA MatchFact ==
  ASSUME NEW t, NEW names, TableOf(t, names), NEW s \in Names
  PROVE  Matches(t, s) = IF s \in DOMAIN names THEN {names[s]} ELSE {}
<1>1. PICK h \in Buckets : h = hash[s] % num_backets
  BY HashFact
<1>2. \A sym : sym \in ToSet(t.backets[h]) <=>
                 sym \in DOMAIN t.symstr /\ hash[t.symstr[sym]] % num_backets = h
  BY DEF TableOf
<1>3. Matches(t, s) = {sym \in ToSet(t.backets[h]) : t.symstr[sym] = s}
  BY <1>1 DEF Matches, Chain
<1>4. Matches(t, s) = {sym \in DOMAIN t.symstr : t.symstr[sym] = s}
  BY <1>1, <1>2, <1>3
<1>5. /\ \A x \in DOMAIN names : names[x] \in DOMAIN t.symstr /\ t.symstr[names[x]] = x
      /\ \A sym \in DOMAIN t.symstr : t.symstr[sym] \in DOMAIN names /\ names[t.symstr[sym]] = sym
  BY DEF TableOf
<1> QED
  BY <1>4, <1>5

(* A new symbol comes into the bucket of its name.                         *)
LEMMA CreatedFact ==
  ASSUME NEW t, NEW names, TableOf(t, names), NEW s \in Names, s \notin DOMAIN names,
         NEW sym \in Addr, sym # t.at, sym \notin DOMAIN t.symstr,
         NEW r, r = Created(t, s, sym)
  PROVE  /\ TableOf(r, With(names, s, sym)) /\ r.at = t.at
         /\ DOMAIN r.symstr = DOMAIN t.symstr \cup {sym}
<1>1. PICK h \in Buckets : h = hash[s] % num_backets
  BY HashFact
<1>2. /\ t.at \in Addr /\ t.at \notin DOMAIN t.symstr
      /\ DOMAIN t.symstr \subseteq Addr /\ IsFiniteSet(DOMAIN t.symstr)
      /\ \A k \in Buckets : \A x :
           x \in ToSet(t.backets[k]) <=>
             x \in DOMAIN t.symstr /\ hash[t.symstr[x]] % num_backets = k
      /\ DOMAIN names \subseteq Names
      /\ \A x \in DOMAIN names : names[x] \in DOMAIN t.symstr /\ t.symstr[names[x]] = x
      /\ \A x \in DOMAIN t.symstr : t.symstr[x] \in DOMAIN names /\ names[t.symstr[x]] = x
      /\ \A k \in Buckets : IsInjective(t.backets[k])
  BY DEF TableOf
<1>3. PICK b \in [Buckets -> Seq(Addr)] : b = t.backets
  BY DEF TableOf
<1>4. PICK u \in Seq(Addr) : u = b[h]
  OBVIOUS
<1>5. PICK v \in Seq(Addr) : v = <<sym>> \o u
  BY PrependFact
<1>6. sym \notin ToSet(u) /\ IsInjective(u)
  BY <1>2, <1>3, <1>4
<1>7. ToSet(v) = ToSet(u) \cup {sym} /\ IsInjective(v)
  BY <1>5, <1>6, PrependFact
<1>8. PICK b2 \in [Buckets -> Seq(Addr)] : b2 = [b EXCEPT ![h] = v]
  OBVIOUS
<1>9. PICK f, g : f = With(t.symstr, sym, s) /\ g = With(names, s, sym)
  OBVIOUS
<1>10. r = [at |-> t.at, backets |-> b2, symstr |-> f]
  <2>1. b2 = [t.backets EXCEPT ![hash[s] % num_backets] = <<sym>> \o @]
    BY <1>1, <1>3, <1>4, <1>5, <1>8
  <2> QED
    BY <1>9, <2>1 DEF Created
<1>11. /\ r.at = t.at /\ r.backets = b2 /\ r.symstr = f
       /\ r = [at |-> r.at, backets |-> r.backets, symstr |-> r.symstr]
  BY <1>10
<1>12. /\ DOMAIN f = DOMAIN t.symstr \cup {sym} /\ f[sym] = s
       /\ \A x \in DOMAIN t.symstr : f[x] = t.symstr[x]
  BY <1>9 DEF With
<1>13. /\ DOMAIN g = DOMAIN names \cup {s} /\ g[s] = sym
       /\ \A x \in DOMAIN names : g[x] = names[x]
  BY <1>9 DEF With
<1>14. \A k \in Buckets : b2[k] = IF k = h THEN v ELSE b[k]
  BY <1>8
<1>15. ASSUME NEW k \in Buckets, NEW x
       PROVE  x \in ToSet(b2[k]) <=> x \in DOMAIN f /\ hash[f[x]] % num_backets = k
  <2>0. x \in ToSet(t.backets[k]) <=> x \in DOMAIN t.symstr /\ hash[t.symstr[x]] % num_backets = k
    BY <1>2
  <2>1. CASE x = sym
    <3>1. f[x] = s /\ x \in DOMAIN f /\ x \notin ToSet(b[k])
      BY <1>3, <1>12, <2>0, <2>1
    <3> QED
      BY <1>1, <1>7, <1>14, <2>1, <3>1
  <2>2. CASE x # sym
    <3>1. x \in ToSet(b2[k]) <=> x \in ToSet(b[k])
      BY <1>4, <1>7, <1>14, <2>2
    <3>2. x \in DOMAIN f <=> x \in DOMAIN t.symstr
      BY <1>12, <2>2
    <3> QED
      BY <1>3, <1>12, <2>0, <3>1, <3>2
  <2> QED
    BY <2>1, <2>2
<1>16. \A k \in Buckets : IsInjective(b2[k])
  BY <1>2, <1>3, <1>7, <1>14
<1>17. IsFiniteSet(DOMAIN f)
  <2>1. PICK D : D = DOMAIN t.symstr
    OBVIOUS
  <2>2. IsFiniteSet(D)
    BY <1>2, <2>1
  <2>3. IsFiniteSet(D \cup {sym})
    BY <2>2, FS_AddElement
  <2> QED
    BY <1>12, <2>1, <2>3
<1>18. \A x \in DOMAIN g : g[x] \in DOMAIN f /\ f[g[x]] = x
  BY <1>2, <1>12, <1>13
<1>19. \A x \in DOMAIN f : f[x] \in DOMAIN g /\ g[f[x]] = x
  BY <1>2, <1>12, <1>13
<1>20. TableOf(r, g)
  BY <1>2, <1>11, <1>12, <1>13, <1>15, <1>16, <1>17, <1>18, <1>19 DEF TableOf
<1> QED
  BY <1>9, <1>11, <1>12, <1>20

(* finish frees the table and its symbols.                                 *)
LEMMA TableBlocksFact ==
  ASSUME NEW t, NEW names, TableOf(t, names)
  PROVE  ToSet(TableBlocks(t)) = DOMAIN t.symstr \cup {t.at}
<1>1. PICK n \in Nat \ {0} : n = num_backets
  BY SymbolAssumption
<1>2. PICK b \in [Buckets -> Seq(Addr)] : b = t.backets
  BY DEF TableOf
<1>3. PICK bins : bins = [i \in 1 .. n |-> b[i - 1]]
  OBVIOUS
<1>4. \A i \in 1 .. n : i - 1 \in Buckets
  BY <1>1 DEF Buckets
<1>5. bins \in [1 .. n -> Seq(Addr)]
  BY <1>3, <1>4
<1>6. bins \in Seq(Seq(Addr)) /\ Len(bins) = n
  BY <1>5
<1>7. PICK u \in Seq(Seq(Addr)) : u = bins /\ u # <<>> /\ Len(u) = n
  BY <1>6
<1>8. FlattenSeq(u) \in Seq(Addr)
      /\ \A e : e \in ToSet(FlattenSeq(u)) <=> \E j \in 1 .. Len(u) : e \in ToSet(u[j])
  BY <1>7, FlattenFact
<1>9. PICK w \in Seq(Addr) : w = FlattenSeq(u)
  BY <1>8
<1>10. t.at \in Addr
  BY DEF TableOf
<1>11. PICK z \in Seq(Addr) : z = <<t.at>> /\ ToSet(z) = {t.at}
  <2>1. <<t.at>> \in Seq(Addr)
    BY <1>10
  <2> QED
    BY <2>1, OneFact
<1>12. TableBlocks(t) = w \o z
  BY <1>1, <1>2, <1>3, <1>7, <1>9, <1>11 DEF TableBlocks
<1>13. ToSet(w \o z) = ToSet(w) \cup ToSet(z)
  BY ConcatFact
<1>14. \A k \in Buckets : \A x :
         x \in ToSet(b[k]) <=> x \in DOMAIN t.symstr /\ hash[t.symstr[x]] % num_backets = k
  BY <1>2 DEF TableOf
<1>15. ToSet(w) = DOMAIN t.symstr
  <2>1. ASSUME NEW x \in ToSet(w) PROVE x \in DOMAIN t.symstr
    <3>1. PICK j \in 1 .. n : x \in ToSet(bins[j])
      BY <1>7, <1>8, <1>9, <2>1
    <3>2. x \in ToSet(b[j - 1])
      BY <1>3, <3>1
    <3> QED
      BY <1>4, <1>14, <3>2
  <2>2. ASSUME NEW x \in DOMAIN t.symstr PROVE x \in ToSet(w)
    <3>1. t.symstr[x] \in Names
      BY DEF TableOf
    <3>2. PICK k \in Buckets : k = hash[t.symstr[x]] % num_backets
      BY <3>1, HashFact
    <3>3. x \in ToSet(b[k])
      BY <1>14, <3>2
    <3>4. k + 1 \in 1 .. n /\ (k + 1) - 1 = k
      BY <1>1 DEF Buckets
    <3>5. bins[k + 1] = b[k]
      BY <1>3, <3>4
    <3> QED
      BY <1>7, <1>8, <1>9, <3>3, <3>4, <3>5
  <2> QED
    BY <2>1, <2>2
<1> QED
  BY <1>11, <1>12, <1>13, <1>15

-----------------------------------------------------------------------------
(* The invariant: the open container is one that holds what was asked of   *)
(* it, and its blocks and the client's are the live ones, and not shared.  *)

(* f and d are the blocks registered with a free chain.                    *)
ChainOf(fc, f, d) ==
  /\ fc = [frees |-> fc.frees, dtors |-> fc.dtors]
  /\ Array(fc.frees, Addr \cup {Junk}) /\ VaElements(fc.frees) = f
  /\ Array(fc.dtors, Addr \cup {Junk}) /\ VaElements(fc.dtors) = d
  /\ fc.frees.at \in Addr /\ fc.dtors.at \in Addr /\ fc.frees.at # fc.dtors.at
  /\ f \in Seq(Addr) /\ d \in Seq(Addr) /\ IsInjective(f) /\ IsInjective(d)
  /\ ToSet(f) \cap ToSet(d) = {}
  /\ {fc.frees.at, fc.dtors.at} \cap (ToSet(f) \cup ToSet(d)) = {}

Kinds == {"none", "array", "strbuf", "chain", "list", "dlist", "symbols"}

(* x is a container of kind k that holds t in the blocks B.                *)
Holds(k, x, t, B) ==
  /\ k \in Kinds
  /\ k = "none" => B = {}
  /\ k = "array" =>
       /\ Array(x, Values \cup {Junk}) /\ VaElements(x) = t
       /\ x.at \in Addr \cup {InPool} /\ B = {x.at} \cap Addr
  /\ k = "strbuf" => Buffer(x, t) /\ x.at \in Addr \cup {Null} /\ B = {x.at} \cap Addr
  /\ k = "chain" =>
       \E f, d : /\ ChainOf(x, f, d)
                 /\ B = {x.frees.at, x.dtors.at} \cup ToSet(f) \cup ToSet(d)
  /\ k = "list" =>
       \E es : /\ ListOf(x, es, t) /\ IsInjective(t)
               /\ ToSet(es) \cap ToSet(t) = {} /\ B = ToSet(es) \cup ToSet(t)
  /\ k = "dlist" => DlistOf(x, t) /\ B = {}
  /\ k = "symbols" => TableOf(x, t) /\ B = {x.at} \cup DOMAIN x.symstr

(* h are the client's blocks and l the live ones.                          *)
Sound(k, x, t, h, l) ==
  \E B : /\ Holds(k, x, t, B)
         /\ B \subseteq Addr /\ h \subseteq Addr
         /\ B \cap h = {} /\ l = h \cup B

(* The chunk allocator's elements in use.                                  *)
Used(k, t) == IF k = "dlist" THEN ToSet(t) ELSE {}

IInv ==
  /\ Sound(kind, c, asked, hand, live)
  /\ AllocTyped /\ Accounted(Used(kind, asked))

(* An operation without chunks leaves the allocator as it was.             *)
LEMMA Quiet ==
  ASSUME IInv, UNCHANGED chunk_vars,
         Used(kind, asked)' = Used(kind, asked)
  PROVE  AllocTyped' /\ Accounted(Used(kind, asked))'
<1>1. PICK U : U = Used(kind, asked)
  OBVIOUS
<1>2. AllocTyped /\ Accounted(U)
  BY <1>1 DEF IInv
<1>3. AllocTyped'
  BY <1>2 DEF AllocTyped, chunk_vars, Elements
<1>4. Accounted(U)'
  BY <1>2 DEF Accounted, chunk_vars, Elements
<1> QED
  BY <1>1, <1>3, <1>4 DEF Accounted

(* Where a block may be after an operation that may move it: it takes the  *)
(* place of none of the other live blocks K.                               *)
LEMMA MoveFact ==
  ASSUME NEW K \in SUBSET Addr, NEW old \in Addr \cup {InPool, Null}, old \notin K,
         live = K \cup ({old} \cap Addr),
         NEW grows, NEW at \in Places(grows, old), NEW l, l = Reallocated(old, at)
  PROVE  /\ at \notin K /\ l = K \cup ({at} \cap Addr)
         /\ at \in Addr \cup {old}
         /\ old \in Addr => at \in Addr
<1>1. Null \notin Addr /\ InPool \notin Addr /\ Null # InPool
  BY HeapAssumption
<1>2. /\ at \in Addr \ live \/ at = old
      /\ old \in Addr => at \in Addr
  BY <1>1 DEF Places, Moved, Fresh
<1>3. l = ((live \ {old}) \cup {at}) \cap Addr
  BY DEF Reallocated
<1>4. at \notin K
  BY <1>2
<1>5. l = K \cup ({at} \cap Addr)
  BY <1>2, <1>3
<1> QED
  BY <1>2, <1>4, <1>5

-----------------------------------------------------------------------------
(* The steps of the client with its own blocks keep the invariant.         *)

(* A block malloc'ed is the client's.                                      *)
LEMMA ClientMallocStep == IInv /\ ClientMalloc => IInv'
<1> SUFFICES ASSUME IInv, ClientMalloc PROVE IInv'
  OBVIOUS
<1>1. PICK B : /\ Holds(kind, c, asked, B) /\ B \subseteq Addr /\ hand \subseteq Addr
               /\ B \cap hand = {} /\ live = hand \cup B
  BY DEF IInv, Sound
<1>2. PICK p \in Fresh : hand' = hand \cup {p} /\ live' = live \cup {p}
  BY DEF ClientMalloc
<1>3. UNCHANGED <<chunk_vars, kind, c, asked>>
  BY DEF ClientMalloc
<1>4. Sound(kind, c, asked, hand, live)'
  BY <1>1, <1>2, <1>3 DEF Sound, Fresh
<1>5. Used(kind, asked)' = Used(kind, asked)
  BY <1>3 DEF Used
<1> QED
  BY <1>3, <1>4, <1>5, Quiet DEF IInv

(* A block freed is no one's.                                              *)
LEMMA ClientFreeStep == IInv /\ ClientFree => IInv'
<1> SUFFICES ASSUME IInv, ClientFree PROVE IInv'
  OBVIOUS
<1>1. PICK B : /\ Holds(kind, c, asked, B) /\ B \subseteq Addr /\ hand \subseteq Addr
               /\ B \cap hand = {} /\ live = hand \cup B
  BY DEF IInv, Sound
<1>2. PICK p \in hand : hand' = hand \ {p} /\ live' = live \ {p}
  BY DEF ClientFree
<1>3. UNCHANGED <<chunk_vars, kind, c, asked>>
  BY DEF ClientFree
<1>4. Sound(kind, c, asked, hand, live)'
  BY <1>1, <1>2, <1>3 DEF Sound
<1>5. Used(kind, asked)' = Used(kind, asked)
  BY <1>3 DEF Used
<1> QED
  BY <1>3, <1>4, <1>5, Quiet DEF IInv

-----------------------------------------------------------------------------
(* The steps of an array keep the invariant.                               *)

(* What is known of an array.                                              *)
LEMMA ArrayHeld ==
  ASSUME IInv, kind = "array"
  PROVE  /\ Array(c, Values \cup {Junk}) /\ VaElements(c) = asked
         /\ c.at \in Addr \cup {InPool}
         /\ hand \subseteq Addr /\ c.at \notin hand /\ live = hand \cup ({c.at} \cap Addr)
  BY DEF IInv, Sound, Holds

(* An array in one block, or in a pool, is sound.                          *)
LEMMA ArraySound ==
  ASSUME NEW x, NEW t, NEW h, NEW l,
         Array(x, Values \cup {Junk}), VaElements(x) = t, x.at \in Addr \cup {InPool},
         h \subseteq Addr, x.at \notin h, l = h \cup ({x.at} \cap Addr)
  PROVE  Sound("array", x, t, h, l)
  BY DEF Sound, Holds, Kinds

(* Nothing open is sound when the client has all blocks.                   *)
LEMMA NoneSound ==
  ASSUME NEW x, NEW t, NEW h, NEW l, h \subseteq Addr, l = h
  PROVE  Sound("none", x, t, h, l)
<1>1. Holds("none", x, t, {})
  BY DEF Holds, Kinds
<1> QED
  BY <1>1 DEF Sound

(* When nothing is open the client has all blocks.                         *)
LEMMA NoneHeld ==
  ASSUME IInv, kind = "none"
  PROVE  live = hand /\ hand \subseteq Addr
  BY DEF IInv, Sound, Holds

(* What closes a container must leave the client's blocks only.            *)
LEMMA ClosedStep ==
  ASSUME IInv, kind # "dlist", UNCHANGED chunk_vars, Closed,
         hand' \subseteq Addr, live' = hand'
  PROVE  IInv'
<1>1. PICK h, x, t : h = hand' /\ x = c' /\ t = asked'
  OBVIOUS
<1>2. kind' = "none"
  BY DEF Closed, Becomes
<1>3. Sound("none", x, t, h, h)
  BY <1>1, NoneSound
<1>4. Sound(kind, c, asked, hand, live)'
  BY <1>1, <1>2, <1>3
<1>5. Used(kind, asked)' = Used(kind, asked)
  BY <1>2 DEF Used
<1> QED
  BY <1>4, <1>5, Quiet DEF IInv

(* An array may be made in a new block or in a pool.                       *)
LEMMA ArrayInitStep == IInv /\ ArrayInit => IInv'
<1> SUFFICES ASSUME IInv, ArrayInit PROVE IInv'
  OBVIOUS
<1>1. kind = "none" /\ UNCHANGED <<chunk_vars, hand>>
  BY DEF ArrayInit
<1>2. PICK n \in 0 .. MaxSize, at \in Fresh \cup {InPool} :
        Becomes("array", varray_init(n, at), <<>>) /\ Moves(Null, at)
  BY DEF ArrayInit
<1>3. live = hand /\ hand \subseteq Addr
  BY <1>1, NoneHeld
<1>4. live' = hand \cup ({at} \cap Addr)
  BY <1>2, <1>3, HeapAssumption DEF Moves, Reallocated
<1>5. at \in Addr \cup {InPool} /\ at \notin hand
  BY <1>3, HeapAssumption DEF Fresh
<1>6. PICK a : a = varray_init(n, at)
  OBVIOUS
<1>7. Array(a, Values \cup {Junk}) /\ a.at = at /\ VaElements(a) = <<>>
  <2>1. n \in Nat /\ Junk \in Values \cup {Junk}
    OBVIOUS
  <2> QED
    BY <1>6, <2>1, NewArray
<1>8. Sound("array", a, <<>>, hand, live')
  BY <1>3, <1>4, <1>5, <1>7, ArraySound
<1>9. kind' = "array" /\ c' = a /\ asked' = <<>> /\ hand' = hand
  BY <1>1, <1>2, <1>6 DEF Becomes
<1>10. Used(kind, asked)' = Used(kind, asked)
  BY <1>1, <1>9 DEF Used
<1> QED
  BY <1>1, <1>8, <1>9, <1>10, Quiet DEF IInv

(* A push may move the array's block.                                      *)
LEMMA ArrayPushStep == IInv /\ ArrayPush => IInv'
<1> SUFFICES ASSUME IInv, ArrayPush PROVE IInv'
  OBVIOUS
<1>1. kind = "array" /\ CanPush(c) /\ UNCHANGED <<chunk_vars, hand>>
  BY DEF ArrayPush
<1>2. PICK e \in Values, at \in Places(Full(c), c.at) :
        Becomes("array", VA_PUSH(c, e, at), Append(asked, e)) /\ Moves(c.at, at)
  BY DEF ArrayPush
<1>3. /\ Array(c, Values \cup {Junk}) /\ VaElements(c) = asked
      /\ c.at \in Addr \cup {InPool}
      /\ hand \subseteq Addr /\ c.at \notin hand /\ live = hand \cup ({c.at} \cap Addr)
  BY <1>1, ArrayHeld
<1>4. PICK a : a = VA_PUSH(c, e, at)
  OBVIOUS
<1>5. /\ Array(a, Values \cup {Junk}) /\ a.at = (IF Full(c) THEN at ELSE c.at)
      /\ VaElements(a) = Append(VaElements(c), e)
  <2>1. c.size > 0 /\ e \in Values \cup {Junk} /\ Junk \in Values \cup {Junk}
    BY <1>1 DEF CanPush
  <2> QED
    BY <1>3, <1>4, <2>1, PushFact
<1>6. a.at = at
  BY <1>5 DEF Places
<1>7. at \notin hand /\ live' = hand \cup ({at} \cap Addr) /\ at \in Addr \cup {InPool}
  <2>1. PICK old, l : old \in Addr \cup {InPool, Null} /\ old = c.at /\ l = live'
    BY <1>3
  <2>2. l = Reallocated(old, at) /\ at \in Places(Full(c), old)
    BY <1>2, <2>1 DEF Moves
  <2>3. at \notin hand /\ l = hand \cup ({at} \cap Addr) /\ at \in Addr \cup {old}
    BY <1>3, <2>1, <2>2, MoveFact
  <2> QED
    BY <1>3, <2>1, <2>3
<1>8. Sound("array", a, Append(asked, e), hand, live')
  BY <1>3, <1>5, <1>6, <1>7, ArraySound
<1>9. kind' = "array" /\ c' = a /\ asked' = Append(asked, e) /\ hand' = hand
  BY <1>1, <1>2, <1>4 DEF Becomes
<1>10. Used(kind, asked)' = Used(kind, asked)
  BY <1>1, <1>9 DEF Used
<1> QED
  BY <1>1, <1>8, <1>9, <1>10, Quiet DEF IInv

(* A pop leaves it.                                                        *)
LEMMA ArrayPopStep == IInv /\ ArrayPop => IInv'
<1> SUFFICES ASSUME IInv, ArrayPop PROVE IInv'
  OBVIOUS
<1>1. /\ kind = "array" /\ c.nelem > 0 /\ UNCHANGED <<live, chunk_vars, hand>>
      /\ Becomes("array", VA_POP(c), Front(asked))
  BY DEF ArrayPop
<1>2. /\ Array(c, Values \cup {Junk}) /\ VaElements(c) = asked
      /\ c.at \in Addr \cup {InPool}
      /\ hand \subseteq Addr /\ c.at \notin hand /\ live = hand \cup ({c.at} \cap Addr)
  BY <1>1, ArrayHeld
<1>3. PICK a : a = VA_POP(c)
  OBVIOUS
<1>4. Array(a, Values \cup {Junk}) /\ a.at = c.at /\ VaElements(a) = Front(VaElements(c))
  BY <1>1, <1>2, <1>3, PopFact
<1>5. Sound("array", a, Front(asked), hand, live)
  BY <1>2, <1>4, ArraySound
<1>6. kind' = "array" /\ c' = a /\ asked' = Front(asked) /\ hand' = hand /\ live' = live
  BY <1>1, <1>3 DEF Becomes
<1>7. Used(kind, asked)' = Used(kind, asked)
  BY <1>1, <1>6 DEF Used
<1> QED
  BY <1>1, <1>5, <1>6, <1>7, Quiet DEF IInv

(* A new length may move it.                                               *)
LEMMA ArrayResizeStep == IInv /\ ArrayResize => IInv'
<1> SUFFICES ASSUME IInv, ArrayResize PROVE IInv'
  OBVIOUS
<1>1. kind = "array" /\ UNCHANGED <<chunk_vars, hand>>
  BY DEF ArrayResize
<1>2. PICK n \in 0 .. MaxSize : \E at \in Places(ResizeGrows(c, n), c.at) :
        /\ Becomes("array", varray_resize(c, n, at),
                   [i \in 1 .. n |-> IF i <= Len(asked) THEN asked[i]
                                     ELSE varray_resize(c, n, at).cells[i]])
        /\ Moves(c.at, at)
  BY DEF ArrayResize
<1>3. PICK at \in Places(ResizeGrows(c, n), c.at) :
        /\ Becomes("array", varray_resize(c, n, at),
                   [i \in 1 .. n |-> IF i <= Len(asked) THEN asked[i]
                                     ELSE varray_resize(c, n, at).cells[i]])
        /\ Moves(c.at, at)
  BY <1>2
<1>4. /\ Array(c, Values \cup {Junk}) /\ VaElements(c) = asked
      /\ c.at \in Addr \cup {InPool}
      /\ hand \subseteq Addr /\ c.at \notin hand /\ live = hand \cup ({c.at} \cap Addr)
  BY <1>1, ArrayHeld
<1>5. PICK a : a = varray_resize(c, n, at)
  OBVIOUS
<1>6. PICK t : t = [i \in 1 .. n |-> IF i <= Len(asked) THEN asked[i] ELSE a.cells[i]]
  OBVIOUS
<1>7. /\ Array(a, Values \cup {Junk})
      /\ a.at = (IF ResizeGrows(c, n) THEN at ELSE c.at) /\ VaElements(a) = t
  <2>1. n \in Nat /\ Junk \in Values \cup {Junk}
    OBVIOUS
  <2>2. /\ Array(a, Values \cup {Junk})
        /\ a.at = IF ResizeGrows(c, n) THEN at ELSE c.at
        /\ VaElements(a) =
             [i \in 1 .. n |-> IF i <= Len(VaElements(c)) THEN VaElements(c)[i] ELSE a.cells[i]]
    BY <1>4, <1>5, <2>1, ResizeFact
  <2> QED
    BY <1>4, <1>6, <2>2
<1>8. a.at = at
  BY <1>7 DEF Places
<1>9. at \notin hand /\ live' = hand \cup ({at} \cap Addr) /\ at \in Addr \cup {InPool}
  <2>1. PICK old, l : old \in Addr \cup {InPool, Null} /\ old = c.at /\ l = live'
    BY <1>4
  <2>2. l = Reallocated(old, at) /\ at \in Places(ResizeGrows(c, n), old)
    BY <1>3, <2>1 DEF Moves
  <2>3. at \notin hand /\ l = hand \cup ({at} \cap Addr) /\ at \in Addr \cup {old}
    BY <1>4, <2>1, <2>2, MoveFact
  <2> QED
    BY <1>4, <2>1, <2>3
<1>10. Sound("array", a, t, hand, live')
  BY <1>4, <1>7, <1>8, <1>9, ArraySound
<1>11. kind' = "array" /\ c' = a /\ asked' = t /\ hand' = hand
  BY <1>1, <1>3, <1>5, <1>6 DEF Becomes
<1>12. Used(kind, asked)' = Used(kind, asked)
  BY <1>1, <1>11 DEF Used
<1> QED
  BY <1>1, <1>10, <1>11, <1>12, Quiet DEF IInv

(* A copy is a block of the client's, and may close the array.             *)
LEMMA ArrayCopyStep == IInv /\ ArrayCopy => IInv'
<1> SUFFICES ASSUME IInv, ArrayCopy PROVE IInv'
  OBVIOUS
<1>1. kind = "array" /\ UNCHANGED chunk_vars
  BY DEF ArrayCopy
<1>2. PICK p \in Fresh :
        /\ hand' = hand \cup {p}
        /\ \/ live' = live \cup {p} /\ UNCHANGED <<kind, c, asked>>
           \/ c.at \in Addr /\ live' = (live \cup {p}) \ {c.at} /\ Closed
  BY DEF ArrayCopy
<1>3. /\ Array(c, Values \cup {Junk}) /\ VaElements(c) = asked
      /\ c.at \in Addr \cup {InPool}
      /\ hand \subseteq Addr /\ c.at \notin hand /\ live = hand \cup ({c.at} \cap Addr)
  BY <1>1, ArrayHeld
<1>4. p \in Addr /\ p \notin live
  BY DEF Fresh
<1>5. CASE live' = live \cup {p} /\ UNCHANGED <<kind, c, asked>>
  <2>1. p # c.at
    BY <1>3, <1>4
  <2>2. PICK h, l : h = hand \cup {p} /\ l = live \cup {p}
    OBVIOUS
  <2>3. Sound("array", c, asked, h, l)
    BY <1>3, <1>4, <2>1, <2>2, ArraySound
  <2>4. Sound(kind, c, asked, hand, live)'
    BY <1>1, <1>2, <1>5, <2>2, <2>3
  <2>5. Used(kind, asked)' = Used(kind, asked)
    BY <1>5 DEF Used
  <2> QED
    BY <1>1, <2>4, <2>5, Quiet DEF IInv
<1>6. CASE c.at \in Addr /\ live' = (live \cup {p}) \ {c.at} /\ Closed
  <2>1. PICK h, x, t : h = hand \cup {p} /\ x = c' /\ t = asked'
    OBVIOUS
  <2>2. live' = h /\ h \subseteq Addr /\ hand' = h /\ kind' = "none"
    BY <1>2, <1>3, <1>4, <1>6, <2>1 DEF Closed, Becomes
  <2>3. Sound("none", x, t, h, h)
    BY <2>2, NoneSound
  <2>4. Sound(kind, c, asked, hand, live)'
    BY <2>1, <2>2, <2>3
  <2>5. Used(kind, asked)' = Used(kind, asked)
    BY <1>1, <2>2 DEF Used
  <2> QED
    BY <1>1, <2>4, <2>5, Quiet DEF IInv
<1> QED
  BY <1>2, <1>5, <1>6

(* Discarding frees the block, if it is not the pool's.                    *)
LEMMA ArrayDiscardStep == IInv /\ ArrayDiscard => IInv'
<1> SUFFICES ASSUME IInv, ArrayDiscard PROVE IInv'
  OBVIOUS
<1>1. kind = "array" /\ UNCHANGED <<chunk_vars, hand>> /\ Frees(<<c.at>>) /\ Closed
  BY DEF ArrayDiscard
<1>2. hand \subseteq Addr /\ c.at \notin hand /\ live = hand \cup ({c.at} \cap Addr)
  BY <1>1, ArrayHeld
<1>3. live' = hand /\ kind' = "none" /\ hand' = hand
  BY <1>1, <1>2, OneFact DEF Frees, Closed, Becomes
<1> QED
  BY <1>1, <1>2, <1>3, ClosedStep

-----------------------------------------------------------------------------
(* The steps of a string buffer keep the invariant.                        *)

(* What is known of a buffer.                                              *)
LEMMA BufferHeld ==
  ASSUME IInv, kind = "strbuf"
  PROVE  /\ Buffer(c, asked) /\ c.at \in Addr \cup {Null}
         /\ hand \subseteq Addr /\ c.at \notin hand /\ live = hand \cup ({c.at} \cap Addr)
<1>1. Null \notin Addr
  BY HeapAssumption
<1> QED
  BY <1>1 DEF IInv, Sound, Holds

(* A buffer in one block, or in none, is sound.                            *)
LEMMA BufferSound ==
  ASSUME NEW x, NEW t, NEW h, NEW l,
         Buffer(x, t), x.at \in Addr \cup {Null},
         h \subseteq Addr, x.at \notin h, l = h \cup ({x.at} \cap Addr)
  PROVE  Sound("strbuf", x, t, h, l)
  BY DEF Sound, Holds, Kinds

(* A step that may move the buffer's block.                                *)
LEMMA BufferMoved ==
  ASSUME IInv, kind = "strbuf", UNCHANGED <<chunk_vars, hand>>,
         NEW grows, NEW at \in Places(grows, c.at), NEW b, NEW t, Buffer(b, t),
         b.at = IF grows THEN at ELSE c.at,
         Becomes("strbuf", b, t), Moves(c.at, at)
  PROVE  IInv'
<1>1. /\ Buffer(c, asked) /\ c.at \in Addr \cup {Null}
      /\ hand \subseteq Addr /\ c.at \notin hand /\ live = hand \cup ({c.at} \cap Addr)
  BY BufferHeld
<1>2. b.at = at
  BY DEF Places
<1>3. at \notin hand /\ live' = hand \cup ({at} \cap Addr) /\ at \in Addr \cup {Null}
  <2>1. PICK old, l : old \in Addr \cup {InPool, Null} /\ old = c.at /\ l = live'
    BY <1>1
  <2>2. l = Reallocated(old, at) /\ at \in Places(grows, old)
    BY <2>1 DEF Moves
  <2>3. at \notin hand /\ l = hand \cup ({at} \cap Addr) /\ at \in Addr \cup {old}
    BY <1>1, <2>1, <2>2, MoveFact
  <2> QED
    BY <1>1, <2>1, <2>3
<1>4. Sound("strbuf", b, t, hand, live')
  BY <1>1, <1>2, <1>3, BufferSound
<1>5. kind' = "strbuf" /\ c' = b /\ asked' = t /\ hand' = hand
  BY DEF Becomes
<1>6. Used(kind, asked)' = Used(kind, asked)
  BY <1>5 DEF Used
<1> QED
  BY <1>4, <1>5, <1>6, Quiet DEF IInv

(* A new buffer has no block.                                              *)
LEMMA StrbufInitStep == IInv /\ StrbufInit => IInv'
<1> SUFFICES ASSUME IInv, StrbufInit PROVE IInv'
  OBVIOUS
<1>1. /\ kind = "none" /\ UNCHANGED <<live, chunk_vars, hand>>
      /\ Becomes("strbuf", strbuf_init, <<>>)
  BY DEF StrbufInit
<1>2. live = hand /\ hand \subseteq Addr
  BY <1>1, NoneHeld
<1>3. PICK b : b = strbuf_init
  OBVIOUS
<1>4. Buffer(b, <<>>) /\ b.at = Null
  BY <1>3, NewBuffer
<1>5. Null \notin hand /\ live = hand \cup ({Null} \cap Addr)
  BY <1>2, HeapAssumption
<1>6. Sound("strbuf", b, <<>>, hand, live)
  BY <1>2, <1>4, <1>5, BufferSound
<1>7. kind' = "strbuf" /\ c' = b /\ asked' = <<>> /\ hand' = hand /\ live' = live
  BY <1>1, <1>3 DEF Becomes
<1>8. Used(kind, asked)' = Used(kind, asked)
  BY <1>1, <1>7 DEF Used
<1> QED
  BY <1>1, <1>6, <1>7, <1>8, Quiet DEF IInv

(* The texts are sequences of characters.                                  *)
LEMMA TextsFact == \A s \in Texts : s \in Seq(Values)
<1>1. ASSUME NEW s \in Texts PROVE s \in Seq(Values)
  <2>1. PICK n \in 0 .. 2 : s \in [1 .. n -> Values]
    BY DEF Texts
  <2> QED
    BY <2>1
<1> QED
  BY <1>1

(* puts, putc and putsn.                                                   *)
LEMMA StrbufPutsStep == IInv /\ StrbufPuts => IInv'
<1> SUFFICES ASSUME IInv, StrbufPuts PROVE IInv'
  OBVIOUS
<1>1. kind = "strbuf" /\ UNCHANGED <<chunk_vars, hand>>
  BY DEF StrbufPuts
<1>2. PICK s \in Seq(Values) : \E at \in Places(Grows(c, Len(s)), c.at) :
        Becomes("strbuf", strbuf_puts(c, s, at), asked \o s) /\ Moves(c.at, at)
  BY TextsFact DEF StrbufPuts
<1>3. PICK at \in Places(Grows(c, Len(s)), c.at) :
        Becomes("strbuf", strbuf_puts(c, s, at), asked \o s) /\ Moves(c.at, at)
  BY <1>2
<1>4. PICK b, t : b = strbuf_puts(c, s, at) /\ t = asked \o s
  OBVIOUS
<1>5. Buffer(c, asked)
  BY <1>1, BufferHeld
<1>6. Buffer(b, t) /\ b.at = IF Grows(c, Len(s)) THEN at ELSE c.at
  BY <1>4, <1>5, PutsFact
<1> QED
  BY <1>1, <1>3, <1>4, <1>6, BufferMoved

(* printf and vprintf.                                                     *)
LEMMA StrbufPrintfStep == IInv /\ StrbufPrintf => IInv'
<1> SUFFICES ASSUME IInv, StrbufPrintf PROVE IInv'
  OBVIOUS
<1>1. kind = "strbuf" /\ UNCHANGED <<chunk_vars, hand>>
  BY DEF StrbufPrintf
<1>2. PICK s \in Seq(Values) : \E at \in Places(PrintGrows(c, s), c.at) :
        Becomes("strbuf", strbuf_vprintf(c, s, at), asked \o s) /\ Moves(c.at, at)
  BY TextsFact DEF StrbufPrintf
<1>3. PICK at \in Places(PrintGrows(c, s), c.at) :
        Becomes("strbuf", strbuf_vprintf(c, s, at), asked \o s) /\ Moves(c.at, at)
  BY <1>2
<1>4. PICK b, t : b = strbuf_vprintf(c, s, at) /\ t = asked \o s
  OBVIOUS
<1>5. Buffer(c, asked)
  BY <1>1, BufferHeld
<1>6. Buffer(b, t) /\ b.at = IF PrintGrows(c, s) THEN at ELSE c.at
  BY <1>4, <1>5, PrintFact
<1> QED
  BY <1>1, <1>3, <1>4, <1>6, BufferMoved

(* c_str.                                                                  *)
LEMMA StrbufCStrStep == IInv /\ StrbufCStr => IInv'
<1> SUFFICES ASSUME IInv, StrbufCStr PROVE IInv'
  OBVIOUS
<1>1. kind = "strbuf" /\ UNCHANGED <<chunk_vars, hand>>
  BY DEF StrbufCStr
<1>2. PICK at \in Places(Grows(c, 1), c.at) :
        Becomes("strbuf", strbuf_c_str(c, at), asked) /\ Moves(c.at, at)
  BY DEF StrbufCStr
<1>3. PICK b, t : b = strbuf_c_str(c, at) /\ t = asked
  OBVIOUS
<1>4. Buffer(c, asked)
  BY <1>1, BufferHeld
<1>5. Buffer(b, t) /\ b.at = IF Grows(c, 1) THEN at ELSE c.at
  BY <1>3, <1>4, CStrFact
<1> QED
  BY <1>1, <1>2, <1>3, <1>5, BufferMoved

(* strdup gives the client a block of its own.                             *)
LEMMA StrbufStrdupStep == IInv /\ StrbufStrdup => IInv'
<1> SUFFICES ASSUME IInv, StrbufStrdup PROVE IInv'
  OBVIOUS
<1>1. PICK B : /\ Holds(kind, c, asked, B) /\ B \subseteq Addr /\ hand \subseteq Addr
               /\ B \cap hand = {} /\ live = hand \cup B
  BY DEF IInv, Sound
<1>2. PICK p \in Fresh : hand' = hand \cup {p} /\ live' = live \cup {p}
  BY DEF StrbufStrdup
<1>3. UNCHANGED <<chunk_vars, kind, c, asked>>
  BY DEF StrbufStrdup
<1>4. Sound(kind, c, asked, hand, live)'
  BY <1>1, <1>2, <1>3 DEF Sound, Fresh
<1>5. Used(kind, asked)' = Used(kind, asked)
  BY <1>3 DEF Used
<1> QED
  BY <1>3, <1>4, <1>5, Quiet DEF IInv

(* fini frees the block, if there is one.                                  *)
LEMMA StrbufFiniStep == IInv /\ StrbufFini => IInv'
<1> SUFFICES ASSUME IInv, StrbufFini PROVE IInv'
  OBVIOUS
<1>1. kind = "strbuf" /\ UNCHANGED <<chunk_vars, hand>> /\ Frees(<<c.at>>) /\ Closed
  BY DEF StrbufFini
<1>2. hand \subseteq Addr /\ c.at \notin hand /\ live = hand \cup ({c.at} \cap Addr)
  BY <1>1, BufferHeld
<1>3. live' = hand /\ kind' = "none" /\ hand' = hand
  BY <1>1, <1>2, OneFact DEF Frees, Closed, Becomes
<1> QED
  BY <1>1, <1>2, <1>3, ClosedStep

-----------------------------------------------------------------------------
(* The steps of a free chain keep the invariant.                           *)

ChainHolds(fc, f, d) == {fc.frees.at, fc.dtors.at} \cup ToSet(f) \cup ToSet(d)

(* What is known of a free chain.                                          *)
LEMMA ChainHeld ==
  ASSUME IInv, kind = "chain"
  PROVE  \E f, d : /\ ChainOf(c, f, d) /\ hand \subseteq Addr
                   /\ ChainHolds(c, f, d) \subseteq Addr
                   /\ ChainHolds(c, f, d) \cap hand = {}
                   /\ live = hand \cup ChainHolds(c, f, d)
<1>1. PICK B : /\ Holds(kind, c, asked, B) /\ B \subseteq Addr /\ hand \subseteq Addr
               /\ B \cap hand = {} /\ live = hand \cup B
  BY DEF IInv, Sound
<1>2. PICK f, d : ChainOf(c, f, d) /\ B = {c.frees.at, c.dtors.at} \cup ToSet(f) \cup ToSet(d)
  BY <1>1 DEF Holds
<1>3. B = ChainHolds(c, f, d)
  BY <1>2 DEF ChainHolds
<1> QED
  BY <1>1, <1>2, <1>3

(* A free chain apart from the client's blocks is sound.                   *)
LEMMA ChainSound ==
  ASSUME NEW x, NEW f, NEW d, ChainOf(x, f, d), NEW t, NEW h, NEW l,
         h \subseteq Addr, ChainHolds(x, f, d) \cap h = {},
         l = h \cup ChainHolds(x, f, d)
  PROVE  Sound("chain", x, t, h, l)
<1>1. PICK B : B = {x.frees.at, x.dtors.at} \cup ToSet(f) \cup ToSet(d)
  OBVIOUS
<1>2. B = ChainHolds(x, f, d)
  BY <1>1 DEF ChainHolds
<1>3. Holds("chain", x, t, B)
  BY <1>1 DEF Holds, Kinds
<1>4. ToSet(f) \subseteq Addr /\ ToSet(d) \subseteq Addr /\ x.frees.at \in Addr /\ x.dtors.at \in Addr
  BY DEF ChainOf, ToSet
<1>5. B \subseteq Addr
  BY <1>1, <1>4
<1> QED
  BY <1>2, <1>3, <1>5 DEF Sound

(* A block pushed to the pointers to free.                                 *)
LEMMA FreesFact ==
  ASSUME NEW fc, NEW f, NEW d, ChainOf(fc, f, d), fc.frees.size > 0,
         NEW p \in Addr, p \notin ToSet(f) \cup ToSet(d) \cup {fc.dtors.at},
         NEW at \in Addr, at \notin ToSet(f) \cup ToSet(d) \cup {fc.dtors.at, p},
         Full(fc.frees) \/ at = fc.frees.at,
         NEW a, a = VA_PUSH(fc.frees, p, at), NEW r, r = [frees |-> a, dtors |-> fc.dtors]
  PROVE  /\ ChainOf(r, Append(f, p), d)
         /\ r.frees.at = at /\ r.dtors.at = fc.dtors.at
         /\ ToSet(Append(f, p)) = ToSet(f) \cup {p}
<1>2. /\ fc = [frees |-> fc.frees, dtors |-> fc.dtors]
      /\ Array(fc.frees, Addr \cup {Junk}) /\ VaElements(fc.frees) = f
      /\ Array(fc.dtors, Addr \cup {Junk}) /\ VaElements(fc.dtors) = d
      /\ fc.frees.at \in Addr /\ fc.dtors.at \in Addr /\ fc.frees.at # fc.dtors.at
      /\ f \in Seq(Addr) /\ d \in Seq(Addr) /\ IsInjective(f) /\ IsInjective(d)
      /\ ToSet(f) \cap ToSet(d) = {}
      /\ {fc.frees.at, fc.dtors.at} \cap (ToSet(f) \cup ToSet(d)) = {}
  BY DEF ChainOf
<1>3. /\ Array(a, Addr \cup {Junk})
      /\ a.at = (IF Full(fc.frees) THEN at ELSE fc.frees.at)
      /\ VaElements(a) = Append(VaElements(fc.frees), p)
  <2>1. PICK V, q : V = Addr \cup {Junk} /\ q = fc.frees
    OBVIOUS
  <2>2. Junk \in V /\ p \in V
    BY <2>1
  <2>3. Array(q, V) /\ q.size > 0 /\ a = VA_PUSH(q, p, at)
    BY <1>2, <2>1
  <2>4. /\ Array(a, V) /\ a.at = (IF Full(q) THEN at ELSE q.at)
        /\ VaElements(a) = Append(VaElements(q), p)
    BY <2>2, <2>3, PushFact
  <2> QED
    BY <2>1, <2>4
<1>4. PICK s \in Seq(Addr) : s = f
  BY <1>2
<1>5. PICK g \in Seq(Addr) : g = Append(s, p)
  BY AppendFact
<1>6. ToSet(g) = ToSet(s) \cup {p} /\ IsInjective(g)
  BY <1>2, <1>4, <1>5, AppendSet
<1>7. r = [frees |-> a, dtors |-> fc.dtors]
  OBVIOUS
<1>8. r.frees = a /\ r.dtors = fc.dtors /\ r = [frees |-> r.frees, dtors |-> r.dtors]
  <2>1. PICK b : b = fc.dtors
    OBVIOUS
  <2>2. r = [frees |-> a, dtors |-> b]
    BY <1>7, <2>1
  <2>3. r.frees = a /\ r.dtors = b
    BY <2>2
  <2> QED
    BY <2>1, <2>2, <2>3
<1>9. a.at = at
  BY <1>3
<1>10. ToSet(g) \cap ToSet(d) = {} /\ {at, fc.dtors.at} \cap (ToSet(g) \cup ToSet(d)) = {}
  BY <1>2, <1>4, <1>6
<1>11. at # fc.dtors.at
  OBVIOUS
<1>12. VaElements(a) = g
  BY <1>2, <1>3, <1>4, <1>5
<1>13. ChainOf(r, g, d)
  BY <1>2, <1>3, <1>6, <1>8, <1>9, <1>10, <1>11, <1>12 DEF ChainOf
<1> QED
  BY <1>4, <1>5, <1>6, <1>8, <1>9, <1>13

(* A block pushed to those to destruct.                                    *)
LEMMA DtorsFact ==
  ASSUME NEW fc, NEW f, NEW d, ChainOf(fc, f, d), fc.dtors.size > 0,
         NEW p \in Addr, p \notin ToSet(f) \cup ToSet(d) \cup {fc.frees.at},
         NEW at \in Addr, at \notin ToSet(f) \cup ToSet(d) \cup {fc.frees.at, p},
         Full(fc.dtors) \/ at = fc.dtors.at,
         NEW a, a = VA_PUSH(fc.dtors, p, at), NEW r, r = [frees |-> fc.frees, dtors |-> a]
  PROVE  /\ ChainOf(r, f, Append(d, p))
         /\ r.dtors.at = at /\ r.frees.at = fc.frees.at
         /\ ToSet(Append(d, p)) = ToSet(d) \cup {p}
<1>2. /\ fc = [frees |-> fc.frees, dtors |-> fc.dtors]
      /\ Array(fc.frees, Addr \cup {Junk}) /\ VaElements(fc.frees) = f
      /\ Array(fc.dtors, Addr \cup {Junk}) /\ VaElements(fc.dtors) = d
      /\ fc.frees.at \in Addr /\ fc.dtors.at \in Addr /\ fc.frees.at # fc.dtors.at
      /\ f \in Seq(Addr) /\ d \in Seq(Addr) /\ IsInjective(f) /\ IsInjective(d)
      /\ ToSet(f) \cap ToSet(d) = {}
      /\ {fc.frees.at, fc.dtors.at} \cap (ToSet(f) \cup ToSet(d)) = {}
  BY DEF ChainOf
<1>3. /\ Array(a, Addr \cup {Junk})
      /\ a.at = (IF Full(fc.dtors) THEN at ELSE fc.dtors.at)
      /\ VaElements(a) = Append(VaElements(fc.dtors), p)
  <2>1. PICK V, q : V = Addr \cup {Junk} /\ q = fc.dtors
    OBVIOUS
  <2>2. Junk \in V /\ p \in V
    BY <2>1
  <2>3. Array(q, V) /\ q.size > 0 /\ a = VA_PUSH(q, p, at)
    BY <1>2, <2>1
  <2>4. /\ Array(a, V) /\ a.at = (IF Full(q) THEN at ELSE q.at)
        /\ VaElements(a) = Append(VaElements(q), p)
    BY <2>2, <2>3, PushFact
  <2> QED
    BY <2>1, <2>4
<1>4. PICK s \in Seq(Addr) : s = d
  BY <1>2
<1>5. PICK g \in Seq(Addr) : g = Append(s, p)
  BY AppendFact
<1>6. ToSet(g) = ToSet(s) \cup {p} /\ IsInjective(g)
  BY <1>2, <1>4, <1>5, AppendSet
<1>7. r = [frees |-> fc.frees, dtors |-> a]
  OBVIOUS
<1>8. r.dtors = a /\ r.frees = fc.frees /\ r = [frees |-> r.frees, dtors |-> r.dtors]
  <2>1. PICK b : b = fc.frees
    OBVIOUS
  <2>2. r = [frees |-> b, dtors |-> a]
    BY <1>7, <2>1
  <2>3. r.frees = b /\ r.dtors = a
    BY <2>2
  <2> QED
    BY <2>1, <2>2, <2>3
<1>9. a.at = at
  BY <1>3
<1>10. ToSet(f) \cap ToSet(g) = {} /\ {fc.frees.at, at} \cap (ToSet(f) \cup ToSet(g)) = {}
  BY <1>2, <1>4, <1>6
<1>11. at # fc.frees.at
  OBVIOUS
<1>12. VaElements(a) = g
  BY <1>2, <1>3, <1>4, <1>5
<1>13. ChainOf(r, f, g)
  BY <1>2, <1>3, <1>6, <1>8, <1>9, <1>10, <1>11, <1>12 DEF ChainOf
<1> QED
  BY <1>4, <1>5, <1>6, <1>8, <1>9, <1>13

(* A new chain has the blocks of its two arrays.                           *)
LEMMA ChainInitStep == IInv /\ ChainInit => IInv'
<1> SUFFICES ASSUME IInv, ChainInit PROVE IInv'
  OBVIOUS
<1>1. kind = "none" /\ UNCHANGED <<chunk_vars, hand>>
  BY DEF ChainInit
<1>2. PICK p \in Fresh, q \in Fresh :
        /\ p # q
        /\ Becomes("chain", [frees |-> varray_init(ChainSize, p), dtors |-> varray_init(ChainSize, q)], <<>>)
        /\ live' = live \cup {p, q}
  BY DEF ChainInit
<1>3. live = hand /\ hand \subseteq Addr
  BY <1>1, NoneHeld
<1>4. PICK a, b : a = varray_init(ChainSize, p) /\ b = varray_init(ChainSize, q)
  OBVIOUS
<1>5. /\ Array(a, Addr \cup {Junk}) /\ a.at = p /\ VaElements(a) = <<>>
      /\ Array(b, Addr \cup {Junk}) /\ b.at = q /\ VaElements(b) = <<>>
  <2>1. ChainSize \in Nat /\ Junk \in Addr \cup {Junk}
    BY ContainersAssumption
  <2> QED
    BY <1>4, <2>1, NewArray
<1>6. PICK x : x = [frees |-> a, dtors |-> b]
  OBVIOUS
<1>7. x.frees = a /\ x.dtors = b /\ x = [frees |-> x.frees, dtors |-> x.dtors]
  BY <1>6
<1>8. <<>> \in Seq(Addr) /\ IsInjective(<<>>) /\ ToSet(<<>>) = {}
  BY DEF IsInjective, ToSet
<1>9. p \in Addr /\ q \in Addr /\ p \notin hand /\ q \notin hand
  BY <1>3 DEF Fresh
<1>10. ChainOf(x, <<>>, <<>>)
  BY <1>2, <1>5, <1>7, <1>8, <1>9 DEF ChainOf
<1>11. ChainHolds(x, <<>>, <<>>) = {p, q}
  BY <1>5, <1>7, <1>8 DEF ChainHolds
<1>12. PICK l : l = live' /\ l = hand \cup ChainHolds(x, <<>>, <<>>)
  BY <1>2, <1>3, <1>11
<1>13. Sound("chain", x, <<>>, hand, l)
  BY <1>3, <1>9, <1>10, <1>11, <1>12, ChainSound
<1>14. kind' = "chain" /\ c' = x /\ asked' = <<>> /\ hand' = hand
  BY <1>1, <1>2, <1>4, <1>6 DEF Becomes
<1>15. Used(kind, asked)' = Used(kind, asked)
  BY <1>1, <1>14 DEF Used
<1> QED
  BY <1>1, <1>12, <1>13, <1>14, <1>15, Quiet DEF IInv

(* A block of the client's is handed over to the pointers to free.         *)
LEMMA ChainAppendStep == IInv /\ ChainAppend => IInv'
<1> SUFFICES ASSUME IInv, ChainAppend PROVE IInv'
  OBVIOUS
<1>1. kind = "chain" /\ CanPush(c.frees) /\ UNCHANGED chunk_vars
  BY DEF ChainAppend
<1>2. PICK p \in hand, at \in Places(Full(c.frees), c.frees.at) :
        /\ hand' = hand \ {p}
        /\ Becomes("chain", [c EXCEPT !.frees = VA_PUSH(@, p, at)], asked)
        /\ Moves(c.frees.at, at)
  BY DEF ChainAppend
<1>3. PICK f, d : /\ ChainOf(c, f, d) /\ hand \subseteq Addr
                  /\ ChainHolds(c, f, d) \subseteq Addr
                  /\ ChainHolds(c, f, d) \cap hand = {}
                  /\ live = hand \cup ChainHolds(c, f, d)
  BY <1>1, ChainHeld
<1>4. PICK K \in SUBSET Addr : K = hand \cup ({c.dtors.at} \cup ToSet(f) \cup ToSet(d))
  BY <1>3 DEF ChainHolds
<1>5. PICK old, l : old \in Addr /\ old = c.frees.at /\ l = live'
  BY <1>3 DEF ChainOf
<1>6. old \notin K /\ live = K \cup ({old} \cap Addr)
  BY <1>3, <1>4, <1>5 DEF ChainHolds, ChainOf
<1>7. l = Reallocated(old, at) /\ at \in Places(Full(c.frees), old)
  BY <1>2, <1>5 DEF Moves
<1>8. at \notin K /\ l = K \cup ({at} \cap Addr) /\ at \in Addr
  <2>1. old \in Addr
    BY <1>5
  <2> QED
    BY <1>6, <1>7, <2>1, MoveFact
<1>9. Full(c.frees) \/ at = c.frees.at
  BY <1>2 DEF Places
<1>10. p \in Addr /\ p \notin ToSet(f) \cup ToSet(d) \cup {c.dtors.at}
  BY <1>3 DEF ChainHolds
<1>11. at \notin ToSet(f) \cup ToSet(d) \cup {c.dtors.at, p}
  BY <1>2, <1>4, <1>8
<1>12. PICK r, g : r = [c EXCEPT !.frees = VA_PUSH(@, p, at)] /\ g = Append(f, p)
  OBVIOUS
<1>13. c.frees.size > 0
  BY <1>1 DEF CanPush
<1>14. /\ ChainOf(r, g, d) /\ r.frees.at = at /\ r.dtors.at = c.dtors.at
       /\ ToSet(g) = ToSet(f) \cup {p}
  <2>1. PICK x, a : x = c /\ a = VA_PUSH(c.frees, p, at)
    OBVIOUS
  <2>2. /\ ChainOf(x, f, d) /\ x.frees.size > 0 /\ p \in Addr /\ at \in Addr
        /\ p \notin ToSet(f) \cup ToSet(d) \cup {x.dtors.at}
        /\ at \notin ToSet(f) \cup ToSet(d) \cup {x.dtors.at, p}
        /\ Full(x.frees) \/ at = x.frees.at
        /\ a = VA_PUSH(x.frees, p, at) /\ r = [frees |-> a, dtors |-> x.dtors]
    BY <1>3, <1>8, <1>9, <1>10, <1>11, <1>12, <1>13, <2>1 DEF ChainOf
  <2>3. /\ ChainOf(r, Append(f, p), d)
        /\ r.frees.at = at /\ r.dtors.at = x.dtors.at
        /\ ToSet(Append(f, p)) = ToSet(f) \cup {p}
    BY <2>2, FreesFact
  <2> QED
    BY <1>12, <2>1, <2>3
<1>15. PICK h : h = hand \ {p}
  OBVIOUS
<1>16. h \subseteq Addr /\ ChainHolds(r, g, d) \cap h = {} /\ l = h \cup ChainHolds(r, g, d)
  BY <1>2, <1>3, <1>4, <1>8, <1>14, <1>15 DEF ChainHolds
<1>17. Sound("chain", r, asked, h, l)
  BY <1>14, <1>16, ChainSound
<1>18. kind' = "chain" /\ c' = r /\ asked' = asked /\ hand' = h
  BY <1>2, <1>12, <1>15 DEF Becomes
<1>19. Used(kind, asked)' = Used(kind, asked)
  BY <1>1, <1>18 DEF Used
<1> QED
  BY <1>1, <1>5, <1>17, <1>18, <1>19, Quiet DEF IInv

(* A block is malloc'ed and handed over at once.                           *)
LEMMA ChainAppendMallocStep == IInv /\ ChainAppendMalloc => IInv'
<1> SUFFICES ASSUME IInv, ChainAppendMalloc PROVE IInv'
  OBVIOUS
<1>1. kind = "chain" /\ CanPush(c.frees) /\ UNCHANGED <<chunk_vars, hand>>
  BY DEF ChainAppendMalloc
<1>2a. PICK p \in Fresh : \E at \in Places(Full(c.frees), c.frees.at) \ {p} :
        /\ Becomes("chain", [c EXCEPT !.frees = VA_PUSH(@, p, at)], asked)
        /\ live' = Reallocated(c.frees.at, at) \cup {p}
  BY DEF ChainAppendMalloc
<1>2. PICK at \in Places(Full(c.frees), c.frees.at) \ {p} :
        /\ Becomes("chain", [c EXCEPT !.frees = VA_PUSH(@, p, at)], asked)
        /\ live' = Reallocated(c.frees.at, at) \cup {p}
  BY <1>2a
<1>3. PICK f, d : /\ ChainOf(c, f, d) /\ hand \subseteq Addr
                  /\ ChainHolds(c, f, d) \subseteq Addr
                  /\ ChainHolds(c, f, d) \cap hand = {}
                  /\ live = hand \cup ChainHolds(c, f, d)
  BY <1>1, ChainHeld
<1>4. PICK K \in SUBSET Addr : K = hand \cup ({c.dtors.at} \cup ToSet(f) \cup ToSet(d))
  BY <1>3 DEF ChainHolds
<1>5. PICK old, l :
        old \in Addr /\ old = c.frees.at /\ l = Reallocated(c.frees.at, at)
  BY <1>3 DEF ChainOf
<1>6. old \notin K /\ live = K \cup ({old} \cap Addr)
  BY <1>3, <1>4, <1>5 DEF ChainHolds, ChainOf
<1>7. l = Reallocated(old, at) /\ at \in Places(Full(c.frees), old)
  BY <1>2, <1>5
<1>8. at \notin K /\ l = K \cup ({at} \cap Addr) /\ at \in Addr
  <2>1. old \in Addr
    BY <1>5
  <2> QED
    BY <1>6, <1>7, <2>1, MoveFact
<1>9. Full(c.frees) \/ at = c.frees.at
  BY <1>2 DEF Places
<1>10. p \in Addr /\ p \notin live
  BY DEF Fresh
<1>11. /\ p \notin ToSet(f) \cup ToSet(d) \cup {c.dtors.at}
       /\ at \notin ToSet(f) \cup ToSet(d) \cup {c.dtors.at, p}
  BY <1>2, <1>3, <1>4, <1>8, <1>10 DEF ChainHolds
<1>12. PICK r, g : r = [c EXCEPT !.frees = VA_PUSH(@, p, at)] /\ g = Append(f, p)
  OBVIOUS
<1>13. c.frees.size > 0
  BY <1>1 DEF CanPush
<1>14. /\ ChainOf(r, g, d) /\ r.frees.at = at /\ r.dtors.at = c.dtors.at
       /\ ToSet(g) = ToSet(f) \cup {p}
  <2>1. PICK x, a : x = c /\ a = VA_PUSH(c.frees, p, at)
    OBVIOUS
  <2>2. /\ ChainOf(x, f, d) /\ x.frees.size > 0 /\ p \in Addr /\ at \in Addr
        /\ p \notin ToSet(f) \cup ToSet(d) \cup {x.dtors.at}
        /\ at \notin ToSet(f) \cup ToSet(d) \cup {x.dtors.at, p}
        /\ Full(x.frees) \/ at = x.frees.at
        /\ a = VA_PUSH(x.frees, p, at) /\ r = [frees |-> a, dtors |-> x.dtors]
    BY <1>3, <1>8, <1>9, <1>10, <1>11, <1>12, <1>13, <2>1 DEF ChainOf
  <2>3. /\ ChainOf(r, Append(f, p), d)
        /\ r.frees.at = at /\ r.dtors.at = x.dtors.at
        /\ ToSet(Append(f, p)) = ToSet(f) \cup {p}
    BY <2>2, FreesFact
  <2> QED
    BY <1>12, <2>1, <2>3
<1>15. PICK l2 : l2 = l \cup {p}
  OBVIOUS
<1>16. ChainHolds(r, g, d) \cap hand = {} /\ l2 = hand \cup ChainHolds(r, g, d)
  BY <1>3, <1>4, <1>8, <1>10, <1>14, <1>15 DEF ChainHolds
<1>17. Sound("chain", r, asked, hand, l2)
  BY <1>3, <1>14, <1>16, ChainSound
<1>18. kind' = "chain" /\ c' = r /\ asked' = asked /\ hand' = hand /\ live' = l2
  BY <1>1, <1>2, <1>5, <1>12, <1>15 DEF Becomes
<1>19. Used(kind, asked)' = Used(kind, asked)
  BY <1>1, <1>18 DEF Used
<1> QED
  BY <1>1, <1>17, <1>18, <1>19, Quiet DEF IInv

(* A block is handed over to a destructor.                                 *)
LEMMA ChainAppendDtorStep == IInv /\ ChainAppendDtor => IInv'
<1> SUFFICES ASSUME IInv, ChainAppendDtor PROVE IInv'
  OBVIOUS
<1>1. kind = "chain" /\ CanPush(c.dtors) /\ UNCHANGED chunk_vars
  BY DEF ChainAppendDtor
<1>2. PICK p \in hand, at \in Places(Full(c.dtors), c.dtors.at) :
        /\ hand' = hand \ {p}
        /\ Becomes("chain", [c EXCEPT !.dtors = VA_PUSH(@, p, at)], asked)
        /\ Moves(c.dtors.at, at)
  BY DEF ChainAppendDtor
<1>3. PICK f, d : /\ ChainOf(c, f, d) /\ hand \subseteq Addr
                  /\ ChainHolds(c, f, d) \subseteq Addr
                  /\ ChainHolds(c, f, d) \cap hand = {}
                  /\ live = hand \cup ChainHolds(c, f, d)
  BY <1>1, ChainHeld
<1>4. PICK K \in SUBSET Addr : K = hand \cup ({c.frees.at} \cup ToSet(f) \cup ToSet(d))
  BY <1>3 DEF ChainHolds
<1>5. PICK old, l : old \in Addr /\ old = c.dtors.at /\ l = live'
  BY <1>3 DEF ChainOf
<1>6. old \notin K /\ live = K \cup ({old} \cap Addr)
  BY <1>3, <1>4, <1>5 DEF ChainHolds, ChainOf
<1>7. l = Reallocated(old, at) /\ at \in Places(Full(c.dtors), old)
  BY <1>2, <1>5 DEF Moves
<1>8. at \notin K /\ l = K \cup ({at} \cap Addr) /\ at \in Addr
  <2>1. old \in Addr
    BY <1>5
  <2> QED
    BY <1>6, <1>7, <2>1, MoveFact
<1>9. Full(c.dtors) \/ at = c.dtors.at
  BY <1>2 DEF Places
<1>10. p \in Addr /\ p \notin ToSet(f) \cup ToSet(d) \cup {c.frees.at}
  BY <1>3 DEF ChainHolds
<1>11. at \notin ToSet(f) \cup ToSet(d) \cup {c.frees.at, p}
  BY <1>2, <1>4, <1>8
<1>12. PICK r, g : r = [c EXCEPT !.dtors = VA_PUSH(@, p, at)] /\ g = Append(d, p)
  OBVIOUS
<1>13. c.dtors.size > 0
  BY <1>1 DEF CanPush
<1>14. /\ ChainOf(r, f, g) /\ r.dtors.at = at /\ r.frees.at = c.frees.at
       /\ ToSet(g) = ToSet(d) \cup {p}
  <2>1. PICK x, a : x = c /\ a = VA_PUSH(c.dtors, p, at)
    OBVIOUS
  <2>2. /\ ChainOf(x, f, d) /\ x.dtors.size > 0 /\ p \in Addr /\ at \in Addr
        /\ p \notin ToSet(f) \cup ToSet(d) \cup {x.frees.at}
        /\ at \notin ToSet(f) \cup ToSet(d) \cup {x.frees.at, p}
        /\ Full(x.dtors) \/ at = x.dtors.at
        /\ a = VA_PUSH(x.dtors, p, at) /\ r = [frees |-> x.frees, dtors |-> a]
    BY <1>3, <1>8, <1>9, <1>10, <1>11, <1>12, <1>13, <2>1 DEF ChainOf
  <2>3. /\ ChainOf(r, f, Append(d, p))
        /\ r.dtors.at = at /\ r.frees.at = x.frees.at
        /\ ToSet(Append(d, p)) = ToSet(d) \cup {p}
    BY <2>2, DtorsFact
  <2> QED
    BY <1>12, <2>1, <2>3
<1>15. PICK h : h = hand \ {p}
  OBVIOUS
<1>16. h \subseteq Addr /\ ChainHolds(r, f, g) \cap h = {} /\ l = h \cup ChainHolds(r, f, g)
  BY <1>2, <1>3, <1>4, <1>8, <1>14, <1>15 DEF ChainHolds
<1>17. Sound("chain", r, asked, h, l)
  BY <1>14, <1>16, ChainSound
<1>18. kind' = "chain" /\ c' = r /\ asked' = asked /\ hand' = h
  BY <1>2, <1>12, <1>15 DEF Becomes
<1>19. Used(kind, asked)' = Used(kind, asked)
  BY <1>1, <1>18 DEF Used
<1> QED
  BY <1>1, <1>5, <1>17, <1>18, <1>19, Quiet DEF IInv

(* free_all frees the blocks registered and both arrays.                   *)
LEMMA ChainFreeAllStep == IInv /\ ChainFreeAll => IInv'
<1> SUFFICES ASSUME IInv, ChainFreeAll PROVE IInv'
  OBVIOUS
<1>1. kind = "chain" /\ UNCHANGED <<chunk_vars, hand>> /\ Frees(ChainBlocks(c)) /\ Closed
  BY DEF ChainFreeAll
<1>2. PICK f, d : /\ ChainOf(c, f, d) /\ hand \subseteq Addr
                  /\ ChainHolds(c, f, d) \subseteq Addr
                  /\ ChainHolds(c, f, d) \cap hand = {}
                  /\ live = hand \cup ChainHolds(c, f, d)
  BY <1>1, ChainHeld
<1>3. PICK s \in Seq(Addr), t \in Seq(Addr) : s = VaElements(c.frees) /\ t = VaElements(c.dtors)
                                              /\ s = f /\ t = d
  BY <1>2 DEF ChainOf
<1>4. PICK p \in Addr, q \in Addr : p = c.frees.at /\ q = c.dtors.at
  BY <1>2 DEF ChainOf
<1>5. PICK u \in Seq(Addr), v \in Seq(Addr) : u = <<p>> /\ v = <<q>>
  BY SingleFact, Zenon
<1>6. ToSet(u) = {p} /\ ToSet(v) = {q}
  BY <1>5, OneFact
<1>7. PICK w \in Seq(Addr) : w = s \o u /\ ToSet(w) = ToSet(s) \cup ToSet(u)
  BY ConcatFact
<1>8. PICK x \in Seq(Addr) : x = w \o t /\ ToSet(x) = ToSet(w) \cup ToSet(t)
  BY ZenonT(60), ConcatFact
<1>9. PICK y \in Seq(Addr) : y = x \o v /\ ToSet(y) = ToSet(x) \cup ToSet(v)
  BY ZenonT(60), ConcatFact
<1>10. ChainBlocks(c) = y
  BY <1>3, <1>4, <1>5, <1>7, <1>8, <1>9, Zenon DEF ChainBlocks
<1>11. ToSet(ChainBlocks(c)) = ChainHolds(c, f, d)
  BY <1>3, <1>4, <1>6, <1>7, <1>8, <1>9, <1>10 DEF ChainHolds
<1>12. live' = hand /\ kind' = "none" /\ hand' = hand
  BY <1>1, <1>2, <1>11 DEF Frees, Closed, Becomes
<1> QED
  BY <1>1, <1>2, <1>12, ClosedStep

(* The blocks registered with a free chain.                                *)
LEMMA RegisteredFact ==
  ASSUME NEW fc, NEW f, NEW d, ChainOf(fc, f, d)
  PROVE  /\ Registered(fc) \in Seq(Addr) /\ IsInjective(Registered(fc))
         /\ ToSet(Registered(fc)) = ToSet(f) \cup ToSet(d)
<1>1. PICK s \in Seq(Addr), t \in Seq(Addr) : s = f /\ t = d
  BY DEF ChainOf
<1>2. IsInjective(s) /\ IsInjective(t) /\ ToSet(s) \cap ToSet(t) = {}
  BY <1>1 DEF ChainOf
<1>3. Registered(fc) = s \o t
  BY <1>1, Zenon DEF Registered, ChainOf
<1>4. /\ s \o t \in Seq(Addr) /\ ToSet(s \o t) = ToSet(s) \cup ToSet(t)
      /\ IsInjective(s \o t)
  BY <1>2, ConcatFact
<1> QED
  BY <1>1, <1>3, <1>4

(* A sequence of two.                                                      *)
LEMMA PairFact ==
  ASSUME NEW S, NEW a \in S, NEW b \in S
  PROVE  /\ <<a, b>> \in Seq(S) /\ ToSet(<<a, b>>) = {a, b}
         /\ a # b => IsInjective(<<a, b>>)
<1>1. PICK u : u = <<a, b>>
  OBVIOUS
<1>2. u \in Seq(S) /\ DOMAIN u = 1 .. 2 /\ u[1] = a /\ u[2] = b
  BY <1>1
<1>3. \A i : i \in 1 .. 2 <=> i = 1 \/ i = 2
  OBVIOUS
<1>4. ToSet(u) = {a, b}
  BY <1>2, <1>3 DEF ToSet
<1>5. a # b => IsInjective(u)
  BY <1>2, <1>3 DEF IsInjective
<1> QED
  BY <1>1, <1>2, <1>4, <1>5

(* close frees the arrays and gives the blocks back.                       *)
LEMMA ChainCloseStep == IInv /\ ChainClose => IInv'
<1> SUFFICES ASSUME IInv, ChainClose PROVE IInv'
  OBVIOUS
<1>1. /\ kind = "chain" /\ UNCHANGED chunk_vars /\ Frees(<<c.frees.at, c.dtors.at>>) /\ Closed
      /\ hand' = hand \cup ToSet(Registered(c))
  BY DEF ChainClose
<1>2. PICK f, d : /\ ChainOf(c, f, d) /\ hand \subseteq Addr
                  /\ ChainHolds(c, f, d) \subseteq Addr
                  /\ ChainHolds(c, f, d) \cap hand = {}
                  /\ live = hand \cup ChainHolds(c, f, d)
  BY <1>1, ChainHeld
<1>3. ToSet(Registered(c)) = ToSet(f) \cup ToSet(d)
  BY <1>2, RegisteredFact
<1>4. ToSet(<<c.frees.at, c.dtors.at>>) = {c.frees.at, c.dtors.at}
  <2>1. PICK p \in Addr, q \in Addr : p = c.frees.at /\ q = c.dtors.at
    BY <1>2 DEF ChainOf
  <2> QED
    BY <2>1, PairFact
<1>5. {c.frees.at, c.dtors.at} \cap (ToSet(f) \cup ToSet(d)) = {}
  BY <1>2 DEF ChainOf
<1>6. PICK h : h = hand \cup ToSet(f) \cup ToSet(d)
  OBVIOUS
<1>7. live' = h /\ h \subseteq Addr
  BY <1>1, <1>2, <1>4, <1>5, <1>6 DEF Frees, ChainHolds
<1>8. kind' = "none" /\ hand' = h
  BY <1>1, <1>3, <1>6 DEF Closed, Becomes
<1> QED
  BY <1>1, <1>7, <1>8, ClosedStep

-----------------------------------------------------------------------------
(* The steps of a singly linked list keep the invariant.                   *)

(* What is known of a list.                                                *)
LEMMA ListHeld ==
  ASSUME IInv, kind = "list"
  PROVE  /\ hand \subseteq Addr
         /\ \E es \in Seq(Addr) :
              /\ ListOf(c, es, asked) /\ IsInjective(es) /\ asked \in Seq(Addr)
              /\ IsInjective(asked) /\ ToSet(es) \cap ToSet(asked) = {}
              /\ ToSet(es) \cup ToSet(asked) \subseteq Addr
              /\ (ToSet(es) \cup ToSet(asked)) \cap hand = {}
              /\ live = hand \cup (ToSet(es) \cup ToSet(asked))
<1>1. PICK B : /\ Holds(kind, c, asked, B) /\ B \subseteq Addr /\ hand \subseteq Addr
               /\ B \cap hand = {} /\ live = hand \cup B
  BY DEF IInv, Sound
<1>2. PICK es : /\ ListOf(c, es, asked) /\ IsInjective(asked)
                /\ ToSet(es) \cap ToSet(asked) = {} /\ B = ToSet(es) \cup ToSet(asked)
  BY <1>1 DEF Holds
<1>3. es \in Seq(Addr) /\ IsInjective(es) /\ asked \in Seq(Addr)
  BY <1>2 DEF ListOf
<1> QED
  BY <1>1, <1>2, <1>3

(* A list apart from the client's blocks is sound.                         *)
LEMMA ListSound ==
  ASSUME NEW x, NEW es, NEW t, ListOf(x, es, t), IsInjective(t),
         ToSet(es) \cap ToSet(t) = {},
         ToSet(es) \cup ToSet(t) \subseteq Addr,
         NEW h, NEW l, h \subseteq Addr,
         (ToSet(es) \cup ToSet(t)) \cap h = {}, l = h \cup (ToSet(es) \cup ToSet(t))
  PROVE  Sound("list", x, t, h, l)
<1>1. PICK B : B = ToSet(es) \cup ToSet(t)
  OBVIOUS
<1>2. Holds("list", x, t, B)
  BY <1>1 DEF Holds, Kinds
<1> QED
  BY <1>1, <1>2 DEF Sound

(* A new list has no elements.                                             *)
LEMMA ListInitStep == IInv /\ ListInit => IInv'
<1> SUFFICES ASSUME IInv, ListInit PROVE IInv'
  OBVIOUS
<1>1. /\ kind = "none" /\ UNCHANGED <<live, chunk_vars, hand>>
      /\ Becomes("list", singly_list_init, <<>>)
  BY DEF ListInit
<1>2. live = hand /\ hand \subseteq Addr
  BY <1>1, NoneHeld
<1>3. PICK l, z : l = singly_list_init /\ z = <<>>
  OBVIOUS
<1>4. ListOf(l, z, z)
  BY <1>3, NewList
<1>5. ToSet(z) = {} /\ IsInjective(z)
  BY <1>3 DEF ToSet, IsInjective
<1>6. Sound("list", l, z, hand, live)
  BY <1>2, <1>4, <1>5, ListSound
<1>7. kind' = "list" /\ c' = l /\ asked' = z /\ hand' = hand /\ live' = live
  BY <1>1, <1>3 DEF Becomes
<1>8. Used(kind, asked)' = Used(kind, asked)
  BY <1>1, <1>7 DEF Used
<1> QED
  BY <1>1, <1>6, <1>7, <1>8, Quiet DEF IInv

(* A push, at either end, takes a value from the client.                   *)
LEMMA ListPushStep == IInv /\ ListPush => IInv'
<1> SUFFICES ASSUME IInv, ListPush PROVE IInv'
  OBVIOUS
<1>1. kind = "list" /\ UNCHANGED chunk_vars
  BY DEF ListPush
<1>2. PICK p \in hand, e \in Fresh :
        /\ \/ Becomes("list", push_head(c, e, p), <<p>> \o asked)
           \/ Becomes("list", push_tail(c, e, p), Append(asked, p))
        /\ live' = live \cup {e}
        /\ hand' = hand \ {p}
  BY DEF ListPush
<1>3. hand \subseteq Addr
  BY <1>1, ListHeld
<1>4. PICK es \in Seq(Addr) :
        /\ ListOf(c, es, asked) /\ IsInjective(es) /\ asked \in Seq(Addr)
        /\ IsInjective(asked) /\ ToSet(es) \cap ToSet(asked) = {}
        /\ ToSet(es) \cup ToSet(asked) \subseteq Addr
        /\ (ToSet(es) \cup ToSet(asked)) \cap hand = {}
        /\ live = hand \cup (ToSet(es) \cup ToSet(asked))
  BY <1>1, ListHeld
<1>5. PICK vs \in Seq(Addr) : vs = asked
  BY <1>4
<1>5a. PICK l : l = c
  OBVIOUS
<1>6. /\ ListOf(l, es, vs) /\ IsInjective(es) /\ IsInjective(vs) /\ ToSet(es) \cap ToSet(vs) = {}
      /\ ToSet(es) \cup ToSet(vs) \subseteq Addr /\ (ToSet(es) \cup ToSet(vs)) \cap hand = {}
      /\ live = hand \cup (ToSet(es) \cup ToSet(vs))
  BY <1>4, <1>5, <1>5a
<1>7. p \in Addr /\ e \in Addr /\ e \notin live
  BY <1>3 DEF Fresh
<1>8. p \notin ToSet(vs) /\ p \notin ToSet(es) /\ e \notin ToSet(vs) /\ e \notin ToSet(es)
      /\ e # p /\ e \notin hand
  BY <1>6, <1>7
<1>9. PICK h, lv : h = hand \ {p} /\ lv = live \cup {e}
  OBVIOUS
<1>10. ASSUME NEW r, NEW ft, NEW wt, ListOf(r, ft, wt), IsInjective(wt),
              ToSet(ft) = ToSet(es) \cup {e}, ToSet(wt) = ToSet(vs) \cup {p},
              Becomes("list", r, wt)
       PROVE  IInv'
  <2>1. /\ ToSet(ft) \cap ToSet(wt) = {} /\ ToSet(ft) \cup ToSet(wt) \subseteq Addr
        /\ (ToSet(ft) \cup ToSet(wt)) \cap h = {} /\ lv = h \cup (ToSet(ft) \cup ToSet(wt))
        /\ h \subseteq Addr
    BY <1>3, <1>6, <1>7, <1>8, <1>9, <1>10
  <2>2. Sound("list", r, wt, h, lv)
    BY <1>10, <2>1, ListSound
  <2>3. kind' = "list" /\ c' = r /\ asked' = wt /\ hand' = h /\ live' = lv
    BY <1>2, <1>9, <1>10 DEF Becomes
  <2>4. Used(kind, asked)' = Used(kind, asked)
    BY <1>1, <2>3 DEF Used
  <2> QED
    BY <1>1, <2>2, <2>3, <2>4, Quiet DEF IInv
<1>11. CASE Becomes("list", push_head(c, e, p), <<p>> \o asked)
  <2>1. PICK r : r = push_head(l, e, p)
    OBVIOUS
  <2>2. PICK ft \in Seq(Addr), wt \in Seq(Addr) : ft = <<e>> \o es /\ wt = <<p>> \o vs
    BY <1>7, PrependFact
  <2>3. ListOf(r, ft, wt)
    BY <1>6, <1>7, <1>8, <2>1, <2>2, PushHeadFact
  <2>4. ToSet(ft) = ToSet(es) \cup {e}
    BY <1>7, <2>2, PrependFact
  <2>5. ToSet(wt) = ToSet(vs) \cup {p} /\ IsInjective(wt)
    <3>1. ToSet(<<p>> \o vs) = ToSet(vs) \cup {p}
          /\ (IsInjective(vs) /\ p \notin ToSet(vs) => IsInjective(<<p>> \o vs))
      BY <1>7, PrependFact
    <3> QED
      BY <1>6, <1>8, <2>2, <3>1
  <2>6. Becomes("list", r, wt)
    BY <1>5, <1>5a, <1>11, <2>1, <2>2
  <2> QED
    BY <1>10, <2>3, <2>4, <2>5, <2>6
<1>12. CASE Becomes("list", push_tail(c, e, p), Append(asked, p))
  <2>1. PICK r : r = push_tail(l, e, p)
    OBVIOUS
  <2>2. PICK ft \in Seq(Addr), wt \in Seq(Addr) : ft = Append(es, e) /\ wt = Append(vs, p)
    BY <1>7, AppendFact
  <2>3. ListOf(r, ft, wt)
    BY <1>6, <1>7, <1>8, <2>1, <2>2, PushTailFact
  <2>4. ToSet(ft) = ToSet(es) \cup {e}
    BY <1>7, <2>2, AppendSet
  <2>5. ToSet(wt) = ToSet(vs) \cup {p} /\ IsInjective(wt)
    BY <1>6, <1>7, <1>8, <2>2, AppendSet
  <2>6. Becomes("list", r, wt)
    BY <1>5, <1>5a, <1>12, <2>1, <2>2
  <2> QED
    BY <1>10, <2>3, <2>4, <2>5, <2>6
<1> QED
  BY <1>2, <1>11, <1>12

(* fini frees the elements, and frees or gives back the values.            *)
LEMMA ListFiniStep == IInv /\ ListFini => IInv'
<1> SUFFICES ASSUME IInv, ListFini PROVE IInv'
  OBVIOUS
<1>1. kind = "list" /\ UNCHANGED chunk_vars /\ Closed
  BY DEF ListFini
<1>2. hand \subseteq Addr
  BY <1>1, ListHeld
<1>3. PICK es \in Seq(Addr) :
        /\ ListOf(c, es, asked) /\ IsInjective(es) /\ asked \in Seq(Addr)
        /\ IsInjective(asked) /\ ToSet(es) \cap ToSet(asked) = {}
        /\ ToSet(es) \cup ToSet(asked) \subseteq Addr
        /\ (ToSet(es) \cup ToSet(asked)) \cap hand = {}
        /\ live = hand \cup (ToSet(es) \cup ToSet(asked))
  BY <1>1, ListHeld
<1>4. PICK vs \in Seq(Addr) : vs = asked
  BY <1>3
<1>5. Visited(c) = es /\ [i \in DOMAIN es |-> c.elem[es[i]].value] = vs
  BY <1>3, <1>4, ListVisited
<1>6. \/ Frees(vs \o es) /\ UNCHANGED hand
      \/ Frees(es) /\ hand' = hand \cup ToSet(vs)
  BY <1>5 DEF ListFini
<1>7. PICK h : h = hand'
  OBVIOUS
<1>8. live' = h /\ h \subseteq Addr
  <2>1. ToSet(vs \o es) = ToSet(vs) \cup ToSet(es)
    BY ConcatFact
  <2>2. CASE Frees(vs \o es) /\ UNCHANGED hand
    BY <1>2, <1>3, <1>4, <1>7, <2>1, <2>2 DEF Frees
  <2>3. CASE Frees(es) /\ hand' = hand \cup ToSet(vs)
    BY <1>2, <1>3, <1>4, <1>7, <2>3 DEF Frees
  <2> QED
    BY <1>6, <2>2, <2>3
<1> QED
  BY <1>1, <1>7, <1>8, ClosedStep

-----------------------------------------------------------------------------
(* The steps of a doubly linked list keep the invariant.                   *)

(* What is known of a doubly linked list.                                  *)
LEMMA DlistHeld ==
  ASSUME IInv, kind = "dlist"
  PROVE  /\ DlistOf(c, asked) /\ live = hand /\ hand \subseteq Addr
         /\ asked \in Seq(Pairs) /\ IsInjective(asked)
         /\ AllocTyped /\ Accounted(ToSet(asked))
  BY DEF IInv, Sound, Holds, DlistOf, Used

(* A doubly linked list has no blocks of its own.                          *)
LEMMA DlistSound ==
  ASSUME NEW x, NEW t, DlistOf(x, t), NEW h, h \subseteq Addr
  PROVE  Sound("dlist", x, t, h, h)
<1>1. Holds("dlist", x, t, {})
  BY DEF Holds, Kinds
<1> QED
  BY <1>1 DEF Sound

(* A new list has one chunk, all of it free.                               *)
LEMMA DlistInitStep == IInv /\ DlistInit => IInv'
<1> SUFFICES ASSUME IInv, DlistInit PROVE IInv'
  OBVIOUS
<1>1. kind = "none" /\ UNCHANGED <<live, hand>> /\ OneChunk /\ Becomes("dlist", dlist_init, <<>>)
  BY DEF DlistInit
<1>2. live = hand /\ hand \subseteq Addr
  BY <1>1, NoneHeld
<1>3. PICK l, z : l = dlist_init /\ z = <<>>
  OBVIOUS
<1>4. DlistOf(l, z) /\ ToSet(z) = {}
  BY <1>3, NewDlist DEF ToSet
<1>5. Sound("dlist", l, z, hand, hand)
  BY <1>2, <1>4, DlistSound
<1>6. kind' = "dlist" /\ c' = l /\ asked' = z /\ hand' = hand /\ live' = hand
  BY <1>1, <1>2, <1>3 DEF Becomes
<1>7. PICK t, E : t = alloc_chunk(1) /\ E = (1 .. 1) \X (1 .. chunk_count)
  OBVIOUS
<1>8. t \in Seq(E) /\ IsInjective(t) /\ ToSet(t) = E
  BY <1>7, FirstChunk
<1>9. top' = t /\ chunks' = 1 /\ Elements' = E
  BY <1>1, <1>7 DEF OneChunk, Elements
<1>10. AllocTyped'
  BY <1>8, <1>9 DEF AllocTyped
<1>11. Used(kind, asked)' = {}
  BY <1>4, <1>6 DEF Used
<1>12. Accounted(Used(kind, asked))'
  BY <1>8, <1>9, <1>11 DEF Accounted
<1> QED
  BY <1>5, <1>6, <1>10, <1>12 DEF IInv

(* A push takes an element from the allocator.                             *)
LEMMA DlistPushStep == IInv /\ DlistPush => IInv'
<1> SUFFICES ASSUME IInv, DlistPush PROVE IInv'
  OBVIOUS
<1>1. /\ kind = "dlist" /\ UNCHANGED <<live, hand>> /\ Take
      /\ Becomes("dlist", dlist_push_back(c, Taken), Append(asked, Taken))
  BY DEF DlistPush
<1>2. /\ DlistOf(c, asked) /\ live = hand /\ hand \subseteq Addr
      /\ asked \in Seq(Pairs) /\ IsInjective(asked)
      /\ AllocTyped /\ Accounted(ToSet(asked))
  BY <1>1, DlistHeld
<1>3. PICK s \in Seq(Pairs) : s = asked
  BY <1>2
<1>3a. PICK e, U : e = Taken /\ U = ToSet(asked)
  OBVIOUS
<1>4. AllocTyped' /\ Accounted(U \cup {e})' /\ e \notin U
  <2>1. AllocTyped /\ Accounted(U) /\ Take /\ e = Taken
    BY <1>1, <1>2, <1>3, <1>3a
  <2> QED
    BY <2>1, TakeFact
<1>5. e \in Pairs
  <2>1. PICK k \in Nat, m \in Nat \ {0} : k = chunks' /\ m = chunk_count
    BY <1>4, ChunkAssumption DEF AllocTyped
  <2>2. e \in (1 .. k) \X (1 .. m)
    BY <1>4, <2>1 DEF Accounted, Elements
  <2> QED
    BY <2>2 DEF Pairs
<1>6. PICK r, l : r = dlist_push_back(c, e) /\ l = c
  OBVIOUS
<1>7. DlistOf(l, s) /\ e \notin ToSet(s) /\ r = dlist_push_back(l, e)
  BY <1>2, <1>3, <1>3a, <1>4, <1>6
<1>8. DlistOf(r, Append(s, e))
  BY <1>5, <1>7, PushBackFact
<1>9. PICK t : t = Append(s, e)
  OBVIOUS
<1>10. ToSet(t) = U \cup {e}
  BY <1>3, <1>3a, <1>5, <1>9, AppendSet
<1>11. Sound("dlist", r, t, hand, hand)
  BY <1>2, <1>8, <1>9, DlistSound
<1>12. kind' = "dlist" /\ c' = r /\ asked' = t /\ hand' = hand /\ live' = hand
  BY <1>1, <1>2, <1>3, <1>3a, <1>6, <1>9 DEF Becomes
<1>13. Used(kind, asked)' = U \cup {e}
  BY <1>10, <1>12 DEF Used
<1>14. Accounted(Used(kind, asked))'
  BY <1>4, <1>13 DEF Accounted
<1> QED
  BY <1>4, <1>11, <1>12, <1>14 DEF IInv

(* A removal gives it back.                                                *)
LEMMA DlistRemoveStep == IInv /\ DlistRemove => IInv'
<1> SUFFICES ASSUME IInv, DlistRemove PROVE IInv'
  OBVIOUS
<1>1. kind = "dlist" /\ UNCHANGED <<live, hand>>
  BY DEF DlistRemove
<1>2. PICK e \in DElems(c) : Becomes("dlist", dlist_remove(c, e), Gone(e)) /\ Release(<<e>>)
  BY DEF DlistRemove
<1>3. /\ DlistOf(c, asked) /\ live = hand /\ hand \subseteq Addr
      /\ asked \in Seq(Pairs) /\ IsInjective(asked)
      /\ AllocTyped /\ Accounted(ToSet(asked))
  BY <1>1, DlistHeld
<1>4. PICK s \in Seq(Pairs) : s = asked
  BY <1>3
<1>4a. PICK U : U = ToSet(asked)
  OBVIOUS
<1>5. e \in U
  BY <1>2, <1>3, <1>4, <1>4a, DlistVisited
<1>6. PICK n \in Nat : n = Len(s)
  OBVIOUS
<1>7. DOMAIN s = 1 .. n
  BY <1>6
<1>8. PICK k : k = CHOOSE i \in DOMAIN asked : asked[i] = e
  OBVIOUS
<1>9. k \in 1 .. n /\ s[k] = e
  <2>1. \E i \in DOMAIN s : s[i] = e
    BY <1>4, <1>4a, <1>5 DEF ToSet
  <2> QED
    BY <1>4, <1>4a, <1>7, <1>8, <2>1
<1>10. PICK t : t = RemoveAt(s, k)
  OBVIOUS
<1>11. Gone(e) = t
  BY <1>4, <1>4a, <1>8, <1>10 DEF Gone
<1>12. PICK r, l : r = dlist_remove(c, e) /\ l = c
  OBVIOUS
<1>13. DlistOf(l, s) /\ k \in 1 .. Len(s) /\ e = s[k] /\ r = dlist_remove(l, e)
  BY <1>3, <1>4, <1>4a, <1>6, <1>9, <1>12
<1>14. DlistOf(r, t)
  BY <1>10, <1>13, UnlinkFact
<1>15. ToSet(t) = U \ {e}
  <2>1. k \in 1 .. Len(s) /\ IsInjective(s)
    BY <1>3, <1>4, <1>4a, <1>13
  <2>2. ToSet(t) = ToSet(s) \ {s[k]}
    BY <1>10, <2>1, RemoveFact
  <2> QED
    BY <1>4, <1>4a, <1>9, <2>2
<1>16. AllocTyped' /\ Accounted(U \ {e})'
  <2>1. PICK o \in Seq(U) : o = <<e>> /\ ToSet(o) = {e} /\ IsInjective(o)
    <3>1. <<e>> \in Seq(U) /\ ToSet(<<e>>) = {e} /\ IsInjective(<<e>>)
      BY <1>5, SingleFact, OneFact
    <3> QED
      BY <3>1
  <2>2. AllocTyped /\ Accounted(U) /\ Release(o)
    BY <1>2, <1>3, <1>4, <1>4a, <2>1
  <2>3. AllocTyped' /\ Accounted(U \ ToSet(o))'
    BY <2>1, <2>2, ReleaseFact
  <2> QED
    BY <2>1, <2>3
<1>17. Sound("dlist", r, t, hand, hand)
  BY <1>3, <1>14, DlistSound
<1>18. kind' = "dlist" /\ c' = r /\ asked' = t /\ hand' = hand /\ live' = hand
  BY <1>1, <1>2, <1>3, <1>11, <1>12 DEF Becomes
<1>19. Used(kind, asked)' = U \ {e}
  BY <1>15, <1>18 DEF Used
<1>20. Accounted(Used(kind, asked))'
  BY <1>16, <1>19 DEF Accounted
<1> QED
  BY <1>16, <1>17, <1>18, <1>20 DEF IInv

(* fini frees the chunks.                                                  *)
LEMMA DlistFiniStep == IInv /\ DlistFini => IInv'
<1> SUFFICES ASSUME IInv, DlistFini PROVE IInv'
  OBVIOUS
<1>1. kind = "dlist" /\ NoChunk /\ Closed /\ UNCHANGED <<live, hand>>
  BY DEF DlistFini
<1>2. live = hand /\ hand \subseteq Addr
  BY <1>1, DlistHeld
<1>3. kind' = "none" /\ hand' = hand /\ live' = hand
  BY <1>1, <1>2 DEF Closed, Becomes
<1>4. PICK x1, t1 : x1 = c' /\ t1 = asked'
  OBVIOUS
<1>5. Sound("none", x1, t1, hand, hand)
  BY <1>2, NoneSound
<1>6. top' = <<>> /\ chunks' = 0
  BY <1>1 DEF NoChunk
<1>7. AllocTyped'
  BY <1>6 DEF AllocTyped
<1>8. Accounted(Used(kind, asked))'
  <2>1. Elements' = {}
    BY <1>6, ChunkAssumption DEF Elements
  <2>2. Used(kind, asked)' = {}
    BY <1>3 DEF Used
  <2>3. IsInjective(<<>>) /\ ToSet(<<>>) = {}
    BY DEF IsInjective, ToSet
  <2> QED
    BY <1>6, <2>1, <2>2, <2>3 DEF Accounted
<1> QED
  BY <1>3, <1>4, <1>5, <1>7, <1>8 DEF IInv

-----------------------------------------------------------------------------
(* The steps of the symbol table keep the invariant.                       *)

(* What is known of the symbol table.                                      *)
LEMMA SymbolsHeld ==
  ASSUME IInv, kind = "symbols"
  PROVE  /\ TableOf(c, asked) /\ hand \subseteq Addr
         /\ ({c.at} \cup DOMAIN c.symstr) \subseteq Addr
         /\ ({c.at} \cup DOMAIN c.symstr) \cap hand = {}
         /\ live = hand \cup ({c.at} \cup DOMAIN c.symstr)
  BY DEF IInv, Sound, Holds

(* A table apart from the client's blocks is sound.                        *)
LEMMA SymbolsSound ==
  ASSUME NEW x, NEW t, TableOf(x, t), NEW B, B = {x.at} \cup DOMAIN x.symstr,
         NEW h, NEW l, h \subseteq Addr, B \subseteq Addr, B \cap h = {}, l = h \cup B
  PROVE  Sound("symbols", x, t, h, l)
<1>1. Holds("symbols", x, t, B)
  BY DEF Holds, Kinds
<1> QED
  BY <1>1 DEF Sound

(* A new table is one block.                                               *)
LEMMA SymbolInitStep == IInv /\ SymbolInit => IInv'
<1> SUFFICES ASSUME IInv, SymbolInit PROVE IInv'
  OBVIOUS
<1>1. kind = "none" /\ UNCHANGED <<chunk_vars, hand>>
  BY DEF SymbolInit
<1>2. PICK p \in Fresh : /\ Becomes("symbols", EmptyTable(p), [s \in {} |-> Null])
                         /\ live' = live \cup {p}
  BY DEF SymbolInit
<1>3. live = hand /\ hand \subseteq Addr
  BY <1>1, NoneHeld
<1>4. p \in Addr /\ p \notin live
  BY DEF Fresh
<1>5. PICK t, names : t = EmptyTable(p) /\ names = [s \in {} |-> Null]
  OBVIOUS
<1>6. TableOf(t, names) /\ t.at = p /\ DOMAIN t.symstr = {}
  BY <1>4, <1>5, NewTable
<1>7. PICK B, l : B = {p} /\ l = live \cup {p}
  OBVIOUS
<1>8. /\ B = {t.at} \cup DOMAIN t.symstr /\ B \subseteq Addr /\ B \cap hand = {}
      /\ l = hand \cup B
  BY <1>3, <1>4, <1>6, <1>7
<1>9. Sound("symbols", t, names, hand, l)
  BY <1>3, <1>6, <1>8, SymbolsSound
<1>10. kind' = "symbols" /\ c' = t /\ asked' = names /\ hand' = hand /\ live' = l
  BY <1>1, <1>2, <1>5, <1>7 DEF Becomes
<1>11. Used(kind, asked)' = Used(kind, asked)
  BY <1>1, <1>10 DEF Used
<1> QED
  BY <1>1, <1>9, <1>10, <1>11, Quiet DEF IInv

(* A name that has no symbol gets a new one.                               *)
LEMMA InternStep == IInv /\ Intern => IInv'
<1> SUFFICES ASSUME IInv, Intern PROVE IInv'
  OBVIOUS
<1>1. kind = "symbols" /\ UNCHANGED <<chunk_vars, hand>>
  BY DEF Intern
<1>2. PICK s \in Names :
        \/ Matches(c, s) # {} /\ UNCHANGED <<live, kind, c, asked>>
        \/ /\ Matches(c, s) = {}
           /\ \E sym \in Fresh :
                /\ Becomes("symbols", Created(c, s, sym), With(asked, s, sym))
                /\ live' = live \cup {sym}
  BY DEF Intern
<1>3. /\ TableOf(c, asked) /\ hand \subseteq Addr
      /\ ({c.at} \cup DOMAIN c.symstr) \subseteq Addr
      /\ ({c.at} \cup DOMAIN c.symstr) \cap hand = {}
      /\ live = hand \cup ({c.at} \cup DOMAIN c.symstr)
  BY <1>1, SymbolsHeld
<1>4. CASE Matches(c, s) # {} /\ UNCHANGED <<live, kind, c, asked>>
  <2>1. Used(kind, asked)' = Used(kind, asked)
    BY <1>4 DEF Used
  <2>2. Sound(kind, c, asked, hand, live)' 
    BY <1>1, <1>4 DEF IInv
  <2> QED
    BY <1>1, <2>1, <2>2, Quiet DEF IInv
<1>5. ASSUME Matches(c, s) = {},
             NEW sym \in Fresh,
             Becomes("symbols", Created(c, s, sym), With(asked, s, sym)),
             live' = live \cup {sym}
      PROVE  IInv'
  <2>1. s \notin DOMAIN asked
    BY <1>3, <1>5, MatchFact
  <2>2. sym \in Addr /\ sym \notin live
    BY DEF Fresh
  <2>3. PICK t, names : t = c /\ names = asked
    OBVIOUS
  <2>4. PICK r, g : r = Created(t, s, sym) /\ g = With(names, s, sym)
    OBVIOUS
  <2>5. TableOf(t, names) /\ s \notin DOMAIN names /\ sym # t.at /\ sym \notin DOMAIN t.symstr
    BY <1>3, <2>1, <2>2, <2>3
  <2>6. TableOf(r, g) /\ r.at = t.at /\ DOMAIN r.symstr = DOMAIN t.symstr \cup {sym}
    BY <2>2, <2>4, <2>5, CreatedFact
  <2>7. PICK B, l : B = {r.at} \cup DOMAIN r.symstr /\ l = live \cup {sym}
    OBVIOUS
  <2>8. B \subseteq Addr /\ B \cap hand = {} /\ l = hand \cup B
    BY <1>3, <2>2, <2>3, <2>6, <2>7
  <2>9. Sound("symbols", r, g, hand, l)
    BY <1>3, <2>6, <2>7, <2>8, SymbolsSound
  <2>10. kind' = "symbols" /\ c' = r /\ asked' = g /\ hand' = hand /\ live' = l
    BY <1>1, <1>5, <2>3, <2>4, <2>7 DEF Becomes
  <2>11. Used(kind, asked)' = Used(kind, asked)
    BY <1>1, <2>10 DEF Used
  <2> QED
    BY <1>1, <2>9, <2>10, <2>11, Quiet DEF IInv
<1> QED
  BY <1>2, <1>4, <1>5

(* finish frees every symbol and the table.                                *)
LEMMA SymbolFinishStep == IInv /\ SymbolFinish => IInv'
<1> SUFFICES ASSUME IInv, SymbolFinish PROVE IInv'
  OBVIOUS
<1>1. kind = "symbols" /\ UNCHANGED <<chunk_vars, hand>> /\ Frees(TableBlocks(c)) /\ Closed
  BY DEF SymbolFinish
<1>2. /\ TableOf(c, asked) /\ hand \subseteq Addr
      /\ ({c.at} \cup DOMAIN c.symstr) \cap hand = {}
      /\ live = hand \cup ({c.at} \cup DOMAIN c.symstr)
  BY <1>1, SymbolsHeld
<1>3. ToSet(TableBlocks(c)) = DOMAIN c.symstr \cup {c.at}
  BY <1>2, TableBlocksFact
<1>4. live' = hand /\ kind' = "none" /\ hand' = hand
  BY <1>1, <1>2, <1>3 DEF Frees, Closed, Becomes
<1> QED
  BY <1>1, <1>2, <1>4, ClosedStep

-----------------------------------------------------------------------------
(* The invariant holds throughout.                                         *)

(* It holds at first.                                                      *)
LEMMA IInvInit == Init => IInv
<1> SUFFICES ASSUME Init PROVE IInv
  OBVIOUS
<1>1. /\ live = {} /\ hand = {} /\ top = <<>> /\ chunks = 0 /\ kind = "none"
  BY DEF Init
<1>2. Sound(kind, c, asked, hand, live)
  BY <1>1, NoneSound
<1>3. Elements = {}
  BY <1>1, ChunkAssumption DEF Elements
<1>4. Used(kind, asked) = {} /\ IsInjective(<<>>) /\ ToSet(<<>>) = {}
  BY <1>1 DEF Used, IsInjective, ToSet
<1>5. AllocTyped /\ Accounted(Used(kind, asked))
  BY <1>1, <1>3, <1>4 DEF AllocTyped, Accounted
<1> QED
  BY <1>2, <1>5 DEF IInv

(* Every step keeps it.                                                    *)
LEMMA IInvNext == IInv /\ [Next]_vars => IInv'
<1> SUFFICES ASSUME IInv, [Next]_vars PROVE IInv'
  OBVIOUS
<1>1. CASE UNCHANGED vars
  BY <1>1 DEF vars, IInv, AllocTyped, Accounted, Elements
<1>2. CASE Next
  BY <1>2, ClientMallocStep, ClientFreeStep,
     ArrayInitStep, ArrayPushStep, ArrayPopStep, ArrayResizeStep, ArrayCopyStep, ArrayDiscardStep,
     StrbufInitStep, StrbufPutsStep, StrbufPrintfStep, StrbufCStrStep, StrbufStrdupStep,
     StrbufFiniStep, ChainInitStep, ChainAppendStep, ChainAppendMallocStep,
     ChainAppendDtorStep, ChainFreeAllStep, ChainCloseStep,
     ListInitStep, ListPushStep, ListFiniStep,
     DlistInitStep, DlistPushStep, DlistRemoveStep, DlistFiniStep,
     SymbolInitStep, InternStep, SymbolFinishStep, Zenon DEF Next
<1> QED
  BY <1>1, <1>2

(* So it holds in every state.                                             *)
LEMMA IInvAlways == Spec => []IInv
  BY IInvInit, IInvNext, PTL DEF Spec

-----------------------------------------------------------------------------
(* What the invariant implies.                                             *)

(* The blocks of the container are those it has to free.                   *)
LEMMA OwnedHolds == IInv => Owned
<1> SUFFICES ASSUME IInv PROVE Owned
  OBVIOUS
<1>1. PICK b : b = ContainerBlocks
  OBVIOUS
<1>2. PICK B : /\ Holds(kind, c, asked, B) /\ B \subseteq Addr /\ hand \subseteq Addr
               /\ B \cap hand = {} /\ live = hand \cup B
  BY DEF IInv, Sound
<1>3. kind \in Kinds
  BY <1>2 DEF Holds
<1>4. IsInjective(<<>>) /\ ToSet(<<>>) = {}
  BY DEF IsInjective, ToSet
<1>5. IsInjective(b) /\ ToSet(b) = B
  <2>1. CASE kind = "none"
    <3>1. b = <<>>
      BY <1>1, <2>1 DEF ContainerBlocks
    <3>2. B = {}
      BY <1>2, <2>1 DEF Holds
    <3> QED
      BY <1>4, <3>1, <3>2
  <2>2. CASE kind = "array"
    <3>1. b = IF c.at = InPool THEN <<>> ELSE <<c.at>>
      BY <1>1, <2>2 DEF ContainerBlocks
    <3>2. B = {c.at} \cap Addr /\ c.at \in Addr \cup {InPool}
      BY <1>2, <2>2 DEF Holds
    <3> QED
      BY <1>4, <3>1, <3>2, OneFact, HeapAssumption
  <2>3. CASE kind = "strbuf"
    <3>1. b = IF c.at = Null THEN <<>> ELSE <<c.at>>
      BY <1>1, <2>3 DEF ContainerBlocks
    <3>2. B = {c.at} \cap Addr /\ c.at \in Addr \cup {Null}
      BY <1>2, <2>3 DEF Holds
    <3> QED
      BY <1>4, <3>1, <3>2, OneFact, HeapAssumption
  <2>4. CASE kind = "chain"
    <3>1. b = <<c.frees.at, c.dtors.at>> \o Registered(c)
      BY <1>1, <2>4 DEF ContainerBlocks
    <3>2. PICK f, d : /\ ChainOf(c, f, d)
                      /\ B = {c.frees.at, c.dtors.at} \cup ToSet(f) \cup ToSet(d)
      BY <1>2, <2>4 DEF Holds
    <3>3. PICK p \in Addr, q \in Addr : p = c.frees.at /\ q = c.dtors.at /\ p # q
      BY <3>2 DEF ChainOf
    <3>4a. <<p, q>> \in Seq(Addr) /\ ToSet(<<p, q>>) = {p, q} /\ IsInjective(<<p, q>>)
      BY <3>3, PairFact
    <3>4. PICK u \in Seq(Addr) : u = <<p, q>> /\ ToSet(u) = {p, q} /\ IsInjective(u)
      BY <3>4a, Zenon
    <3>5. PICK w \in Seq(Addr) :
            w = Registered(c) /\ IsInjective(w) /\ ToSet(w) = ToSet(f) \cup ToSet(d)
      BY <3>2, RegisteredFact
    <3>6. ToSet(u) \cap ToSet(w) = {}
      BY <3>2, <3>3, <3>4, <3>5 DEF ChainOf
    <3>7. ToSet(u \o w) = ToSet(u) \cup ToSet(w) /\ IsInjective(u \o w)
      <4>1. IsInjective(u) /\ IsInjective(w)
        BY <3>4, <3>5
      <4> QED
        BY <3>6, <4>1, ConcatFact
    <3> QED
      BY <3>1, <3>2, <3>3, <3>4, <3>5, <3>7
  <2>5. CASE kind = "list"
    <3>1. b = SetToSeq(DOMAIN c.elem) \o asked
      BY <1>1, <2>5 DEF ContainerBlocks
    <3>2. PICK es : /\ ListOf(c, es, asked) /\ IsInjective(asked)
                    /\ ToSet(es) \cap ToSet(asked) = {} /\ B = ToSet(es) \cup ToSet(asked)
      BY <1>2, <2>5 DEF Holds
    <3>3. PICK s \in Seq(Addr), v \in Seq(Addr) : s = es /\ v = asked
      BY <3>2 DEF ListOf
    <3>4. DOMAIN c.elem = ToSet(s) /\ IsInjective(s)
      BY <3>2, <3>3 DEF ListOf
    <3>5. IsFiniteSet(ToSet(s))
      BY <3>4, LenCardinality
    <3>6. PICK D, w : D = ToSet(s) /\ w = SetToSeq(D)
      OBVIOUS
    <3>7. IsInjective(w) /\ ToSet(w) = D /\ w \in Seq(D)
      BY <3>5, <3>6, SetToSeqFact
    <3>8. D \subseteq Addr
      BY <3>6 DEF ToSet
    <3>9. PICK z \in Seq(Addr) : z = w
      BY <3>7, <3>8
    <3>10. ToSet(z) \cap ToSet(v) = {} /\ IsInjective(z) /\ IsInjective(v)
      BY <3>2, <3>3, <3>6, <3>7, <3>9
    <3>11. ToSet(z \o v) = ToSet(z) \cup ToSet(v) /\ IsInjective(z \o v)
      BY <3>10, ConcatFact
    <3> QED
      BY <3>1, <3>2, <3>3, <3>4, <3>6, <3>7, <3>9, <3>11
  <2>6. CASE kind = "dlist"
    <3>1. b = <<>>
      BY <1>1, <2>6 DEF ContainerBlocks
    <3>2. B = {}
      BY <1>2, <2>6 DEF Holds
    <3> QED
      BY <1>4, <3>1, <3>2
  <2>7. CASE kind = "symbols"
    <3>1. b = <<c.at>> \o SetToSeq(DOMAIN c.symstr)
      BY <1>1, <2>7 DEF ContainerBlocks
    <3>2. TableOf(c, asked) /\ B = {c.at} \cup DOMAIN c.symstr
      BY <1>2, <2>7 DEF Holds
    <3>3. PICK D, w : D = DOMAIN c.symstr /\ w = SetToSeq(D)
      OBVIOUS
    <3>4. IsFiniteSet(D) /\ D \subseteq Addr /\ c.at \in Addr /\ c.at \notin D
      BY <3>2, <3>3 DEF TableOf
    <3>5. IsInjective(w) /\ ToSet(w) = D /\ w \in Seq(D)
      BY <3>3, <3>4, SetToSeqFact
    <3>6. PICK z \in Seq(Addr), p \in Addr : z = w /\ p = c.at
      BY <3>4, <3>5
    <3>7. /\ ToSet(<<p>> \o z) = ToSet(z) \cup {p}
          /\ IsInjective(z) /\ p \notin ToSet(z) => IsInjective(<<p>> \o z)
      BY PrependFact
    <3> QED
      BY <3>1, <3>2, <3>3, <3>4, <3>5, <3>6, <3>7
  <2> QED
    BY <1>3, <2>1, <2>2, <2>3, <2>4, <2>5, <2>6, <2>7 DEF Kinds
<1>6. Accounted(IF kind = "dlist" THEN DElems(c) ELSE {})
  <2>1. Accounted(Used(kind, asked))
    BY DEF IInv
  <2>2. CASE kind = "dlist"
    <3>1. DElems(c) = ToSet(asked)
      BY <2>2, DlistHeld, DlistVisited
    <3> QED
      BY <2>1, <2>2, <3>1 DEF Used
  <2>3. CASE kind # "dlist"
    BY <2>1, <2>3 DEF Used
  <2> QED
    BY <2>2, <2>3
<1> QED
  BY <1>1, <1>2, <1>5, <1>6 DEF Owned

(* Storage is as long as its size, and in use up to its length.            *)
LEMMA CapacityHolds == IInv => WithinCapacity
<1> SUFFICES ASSUME IInv PROVE WithinCapacity
  OBVIOUS
<1>1. PICK B : Holds(kind, c, asked, B)
  BY DEF IInv, Sound
<1>2. ASSUME NEW a \in Arrays PROVE a.nelem <= a.size /\ DOMAIN a.cells = 1 .. a.size
  <2>1. \E V : Array(a, V)
    <3>1. CASE kind = "array"
      <4>1. a = c
        BY <1>2, <3>1 DEF Arrays
      <4>2. Array(c, Values \cup {Junk})
        BY <1>1, <3>1 DEF Holds
      <4> QED
        BY <4>1, <4>2
    <3>2. CASE kind = "chain"
      <4>1. a = c.frees \/ a = c.dtors
        BY <1>2, <3>2 DEF Arrays
      <4>2. Array(c.frees, Addr \cup {Junk}) /\ Array(c.dtors, Addr \cup {Junk})
        BY <1>1, <3>2 DEF Holds, ChainOf
      <4> QED
        BY <4>1, <4>2
    <3>3. CASE kind # "array" /\ kind # "chain"
      BY <1>2, <3>3 DEF Arrays
    <3> QED
      BY <3>1, <3>2, <3>3
  <2> QED
    BY <2>1 DEF Array
<1>3. kind = "strbuf" => c.cur <= c.buflen /\ DOMAIN c.buf = 1 .. c.buflen
  BY <1>1 DEF Holds, Buffer
<1> QED
  BY <1>2, <1>3 DEF WithinCapacity

(* What was asked of a container is in it.                                 *)
LEMMA ContentsHold == IInv => ContentsAsAsked
<1> SUFFICES ASSUME IInv PROVE ContentsAsAsked
  OBVIOUS
<1>1. CASE kind = "array"
  BY <1>1, ArrayHeld DEF ContentsAsAsked
<1>2. CASE kind = "strbuf"
  BY <1>2, BufferHeld, TextFact DEF ContentsAsAsked
<1>3. CASE kind = "list"
  <2>1. PICK es : ListOf(c, es, asked)
    BY <1>3, ListHeld
  <2>2. [i \in DOMAIN Visited(c) |-> c.elem[Visited(c)[i]].value] = asked
    BY <2>1, ListVisited
  <2> QED
    BY <1>3, <2>2 DEF ContentsAsAsked
<1>4. CASE kind = "dlist"
  BY <1>4, DlistHeld, DlistVisited DEF ContentsAsAsked
<1>5. CASE kind \notin {"array", "strbuf", "list", "dlist"}
  BY <1>5 DEF ContentsAsAsked
<1> QED
  BY <1>1, <1>2, <1>3, <1>4, <1>5

(* A walk along either list meets each of its elements.                    *)
LEMMA LinkedHolds == IInv => Linked
<1> SUFFICES ASSUME IInv PROVE Linked
  OBVIOUS
<1>1. CASE kind = "list"
  <2>1. PICK es \in Seq(Addr) : ListOf(c, es, asked)
    BY <1>1, ListHeld
  <2>2. Visited(c) = es
    BY <2>1, ListVisited
  <2>3. /\ c.head = (IF Len(es) = 0 THEN Null ELSE es[1])
        /\ c.tail_chain = (IF Len(es) = 0 THEN HeadLink ELSE es[Len(es)])
        /\ DOMAIN c.elem = ToSet(es)
    BY <2>1 DEF ListOf
  <2>4. Last(es) = es[Len(es)]
    BY DEF Last
  <2>5. c.head = Null <=> Len(es) = 0
    <3>1. ASSUME Len(es) # 0 PROVE es[1] # Null
      <4>1. 1 \in 1 .. Len(es)
        BY <3>1
      <4>2. es[1] \in Addr
        BY <4>1
      <4> QED
        BY <4>2, HeapAssumption
    <3> QED
      BY <2>3, <3>1
  <2>6. c.tail_chain = (IF c.head = Null THEN HeadLink ELSE Last(Visited(c)))
    BY <2>2, <2>3, <2>4, <2>5
  <2> QED
    BY <1>1, <2>2, <2>3, <2>6 DEF Linked
<1>2. CASE kind = "dlist"
  BY <1>2, DlistHeld, DlistVisited DEF Linked
<1>3. CASE kind # "list" /\ kind # "dlist"
  BY <1>3 DEF Linked
<1> QED
  BY <1>1, <1>2, <1>3

(* A name matches the symbol it was given.                                 *)
LEMMA SymbolHolds == IInv => SameSymbol
<1> SUFFICES ASSUME IInv, kind = "symbols", NEW s \in Names
             PROVE  Matches(c, s) = IF s \in DOMAIN asked THEN {asked[s]} ELSE {}
  BY DEF SameSymbol
<1>1. TableOf(c, asked)
  BY SymbolsHeld
<1> QED
  BY <1>1, MatchFact

-----------------------------------------------------------------------------
(* Whatever is done with the containers, each block malloc'ed and not      *)
(* freed belongs to the client or to one place of the open container; the  *)
(* elements of a doubly linked list and the free list share its chunks.    *)
THEOREM OwnedCorrect == Spec => []Owned
  BY IInvAlways, OwnedHolds, PTL

(* Nothing is written behind the end of an array or a string buffer,       *)
(* terminators included, whatever the sizes and the texts.                 *)
THEOREM CapacityCorrect == Spec => []WithinCapacity
  BY IInvAlways, CapacityHolds, PTL

(* Arrays, texts and lists hold what the client put into them, in order.   *)
THEOREM ContentsCorrect == Spec => []ContentsAsAsked
  BY IInvAlways, ContentsHold, PTL

(* The links of both kinds of list agree with one another.                 *)
THEOREM LinksCorrect == Spec => []Linked
  BY IInvAlways, LinkedHolds, PTL

(* A name once interned is found as the symbol it was given first, for any *)
(* hash function and any number of buckets.                                *)
THEOREM SymbolCorrect == Spec => []SameSymbol
  BY IInvAlways, SymbolHolds, PTL
=============================================================================
