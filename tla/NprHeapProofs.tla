---------------------------- MODULE NprHeapProofs ----------------------------
(***************************************************************************)
(* Proofs about NprHeap with a disciplined client, for any page size,      *)
(* address space, request sizes and bounds.                                *)
(***************************************************************************)
EXTENDS NprHeap, TLAPS, WellFoundedInduction, FiniteSetTheorems

(* A set of numbers has a least one: induction, for a set.                 *)
LEMMA LeastOf == \A T \in SUBSET Nat : T # {} => \E x \in T : \A y \in T : x <= y
<1> SUFFICES ASSUME NEW T \in SUBSET Nat, T # {}
             PROVE  \E x \in T : \A y \in T : x <= y
  OBVIOUS
<1>1. PICK R : R = OpToRel(<, Nat)
  OBVIOUS
<1>2. R = {ss \in Nat \X Nat : ss[1] < ss[2]}
  BY <1>1 DEF OpToRel
<1>3. IsWellFoundedOn(R, Nat)
  BY <1>1, NatLessThanWellFounded, Zenon
<1>4. PICK x \in T : \A y \in T : <<y, x>> \notin R
  BY WFMin, <1>3, Zenon
<1>5. \A y \in T : ~(y < x)
  BY <1>2, <1>4
<1> QED
  BY <1>4, <1>5

-----------------------------------------------------------------------------
(* Division, and the bits of a tag.                                        *)

(* The number is the quotient times the divisor and a remainder.           *)
LEMMA DivMod ==
  ASSUME NEW b \in Nat \ {0}, NEW x \in Nat
  PROVE  /\ x \div b \in Nat /\ x % b \in Nat /\ x % b < b
         /\ x = (b * (x \div b)) + (x % b)
  OBVIOUS

(* Only one quotient and one remainder do that.                            *)
LEMMA DivModUnique ==
  ASSUME NEW b \in Nat \ {0}, NEW q \in Nat, NEW r \in Nat, r < b
  PROVE  (b * q + r) \div b = q /\ (b * q + r) % b = r
  OBVIOUS

(* Multiplication keeps the order.                                         *)
LEMMA MulMono ==
  ASSUME NEW b \in Nat, NEW x \in Nat, NEW y \in Nat, x <= y
  PROVE  b * x <= b * y /\ b * x \in Nat /\ b * y \in Nat
  OBVIOUS

(* A word the code uses as a tag, in any form, and the bit it tests.       *)
LEMMA TagBits ==
  ASSUME NEW s \in Nat, NEW B \in Nat, s < B, B = THIS_ALLOCATED_BIT
  PROVE  /\ SizeOf(s + B) = s /\ SizeOf(s + 2 * B) = s /\ SizeOf(s + 3 * B) = s
         /\ ~ThisBit(s) /\ ThisBit(s + B) /\ ~ThisBit(s + 2 * B) /\ ThisBit(s + 3 * B)
         /\ ~NextBit(s) /\ ~NextBit(s + B) /\ NextBit(s + 2 * B) /\ NextBit(s + 3 * B)
<1>1. B \in Nat \ {0} /\ 2 * B \in Nat \ {0} /\ s < 2 * B /\ s + B < 2 * B
  OBVIOUS
<1>2. /\ (B * 0 + s) \div B = 0
      /\ (B * 1 + s) \div B = 1 /\ (B * 1 + s) % B = s
      /\ (B * 2 + s) \div B = 2 /\ (B * 2 + s) % B = s
      /\ (B * 3 + s) \div B = 3 /\ (B * 3 + s) % B = s
  BY <1>1, DivModUnique
<1>3. /\ ((2 * B) * 0 + s) \div (2 * B) = 0
      /\ ((2 * B) * 0 + (s + B)) \div (2 * B) = 0
      /\ ((2 * B) * 1 + s) \div (2 * B) = 1
      /\ ((2 * B) * 1 + (s + B)) \div (2 * B) = 1
  BY <1>1, DivModUnique
<1>4. /\ B * 0 + s = s /\ B * 1 + s = s + B /\ B * 2 + s = s + 2 * B
      /\ B * 3 + s = s + 3 * B
      /\ (2 * B) * 0 + s = s /\ (2 * B) * 0 + (s + B) = s + B
      /\ (2 * B) * 1 + s = s + 2 * B /\ (2 * B) * 1 + (s + B) = s + 3 * B
  BY <1>1
<1>5. 0 % 2 = 0 /\ 1 % 2 = 1 /\ 2 % 2 = 0 /\ 3 % 2 = 1
  OBVIOUS
<1> QED
  BY <1>2, <1>3, <1>4, <1>5 DEF SizeOf, ThisBit, NextBit, NEXT_ALLOCATED_BIT

(* A word is one of these four.                                            *)
LEMMA WordForms ==
  ASSUME NEW w \in Words, NEW B \in Nat \ {0}, B = THIS_ALLOCATED_BIT
  PROVE  \E s \in Nat : s < B /\ (w = s \/ w = s + B \/ w = s + 2 * B \/ w = s + 3 * B)
<1>1. w \in 0 .. 4 * B - 1
  BY DEF Words, NEXT_ALLOCATED_BIT
<1>2. CASE w < B
  BY <1>1, <1>2
<1>3. CASE w >= B /\ w < 2 * B
  <2>1. w - B \in Nat /\ w - B < B /\ w = (w - B) + B
    BY <1>1, <1>3
  <2> QED
    BY <2>1
<1>4. CASE w >= 2 * B /\ w < 3 * B
  <2>1. w - 2 * B \in Nat /\ w - 2 * B < B /\ w = (w - 2 * B) + 2 * B
    BY <1>1, <1>4
  <2> QED
    BY <2>1
<1>5. CASE w >= 3 * B
  <2>1. w - 3 * B \in Nat /\ w - 3 * B < B /\ w = (w - 3 * B) + 3 * B
    BY <1>1, <1>5
  <2> QED
    BY <2>1
<1> QED
  BY <1>1, <1>2, <1>3, <1>4, <1>5

(* Setting or clearing the bit for the chunk behind leaves the other bit.  *)
LEMMA NextChanged ==
  ASSUME NEW w \in Words
  PROVE  /\ SetNext(w) \in Words /\ (ThisBit(SetNext(w)) <=> ThisBit(w))
         /\ ClearNext(w) \in Words /\ (ThisBit(ClearNext(w)) <=> ThisBit(w))
         /\ NextBit(w) => SetNext(w) = w
<1>1. PICK B \in Nat \ {0} : B = THIS_ALLOCATED_BIT
  <2>1. THIS_ALLOCATED_BIT \in Nat /\ THIS_ALLOCATED_BIT > 0
    <3>1. PICK q \in Nat, t \in Nat : q = page_size * (MaxPage + 1) /\ t = THIS_ALLOCATED_BIT
      BY HeapAssumption
    <3>2. q < t
      BY <3>1, HeapAssumption
    <3> QED
      BY <3>1, <3>2
  <2> QED
    BY <2>1
<1>2. PICK s \in Nat : s < B /\ (w = s \/ w = s + B \/ w = s + 2 * B \/ w = s + 3 * B)
  BY <1>1, WordForms
<1>3. /\ ~ThisBit(s) /\ ThisBit(s + B) /\ ~ThisBit(s + 2 * B) /\ ThisBit(s + 3 * B)
      /\ ~NextBit(s) /\ ~NextBit(s + B) /\ NextBit(s + 2 * B) /\ NextBit(s + 3 * B)
  BY <1>1, <1>2, TagBits
<1>4. /\ NextBit(w) => SetNext(w) = w /\ ClearNext(w) = w - 2 * B
      /\ ~NextBit(w) => SetNext(w) = w + 2 * B /\ ClearNext(w) = w
  BY <1>1 DEF SetNext, ClearNext, NEXT_ALLOCATED_BIT
<1>5. Words = 0 .. 4 * B - 1
  BY <1>1 DEF Words, NEXT_ALLOCATED_BIT
<1>6. CASE w = s \/ w = s + 2 * B
  <2>1. SetNext(w) = s + 2 * B /\ ClearNext(w) = s
    BY <1>2, <1>3, <1>4, <1>6
  <2> QED
    BY <1>2, <1>3, <1>4, <1>5, <1>6, <2>1
<1>7. CASE w = s + B \/ w = s + 3 * B
  <2>1. SetNext(w) = s + 3 * B /\ ClearNext(w) = s + B
    BY <1>2, <1>3, <1>4, <1>7
  <2> QED
    BY <1>2, <1>3, <1>4, <1>5, <1>7, <2>1
<1> QED
  BY <1>2, <1>6, <1>7

(* The words of the address space.                                         *)
LEMMA CellsFact ==
  \E N \in Nat : /\ N = page_size * (MaxPage + 1)
                 /\ Cells = 0 .. N - 1 /\ N < THIS_ALLOCATED_BIT
<1>1. PICK N \in Nat : N = page_size * (MaxPage + 1)
  BY HeapAssumption
<1>2. N < THIS_ALLOCATED_BIT
  BY <1>1, HeapAssumption
<1> QED
  BY <1>1, <1>2 DEF Cells

(* Addresses are words, so are the links.                                  *)
LEMMA LinksAreWords ==
  ASSUME NEW c \in Nat, c + 1 \in Cells
  PROVE  c \in Words /\ c \in Cells
<1>1. PICK N \in Nat : Cells = 0 .. N - 1 /\ N < THIS_ALLOCATED_BIT
  BY CellsFact
<1>2. PICK B \in Nat : B = THIS_ALLOCATED_BIT
  BY HeapAssumption
<1> QED
  BY <1>1, <1>2 DEF Words, NEXT_ALLOCATED_BIT

-----------------------------------------------------------------------------
(* The free list: w lists its links from head to tail, in memory m.        *)

(* The links of a list with n chunks, the sentinels first and last.        *)
Apart(w, n) ==
  /\ n \in Nat /\ w \in [0 .. n + 1 -> Nat]
  /\ w[0] = free_head /\ w[n + 1] = free_tail
  /\ \A i \in 0 .. n + 1 : w[i] + 1 \in Cells /\ w[i] + 2 \in Cells
  /\ \A i, j \in 0 .. n + 1 : i # j => w[i] + 2 < w[j] \/ w[j] + 2 < w[i]

Walk(m, w, n) ==
  /\ Apart(w, n)
  /\ \A i \in 0 .. n : m[next(w[i])] = w[i + 1] /\ m[prev(w[i + 1])] = w[i]

(* The list without its k-th chunk, and with f at its end.                 *)
Cut(w, n, k) == [i \in 0 .. n |-> IF i < k THEN w[i] ELSE w[i + 1]]
Put(w, n, f) == [i \in 0 .. n + 2 |->
                   IF i <= n THEN w[i] ELSE IF i = n + 1 THEN f ELSE free_tail]

(* Memory that may differ in the words of the set C only.                  *)
SameBut(m, o, C) == \A c \in Cells \ C : o[c] = m[c]

(* Two functions that agree on C.                                          *)
Same(m, o, C) == \A c \in C : o[c] = m[c]

(* Memory with the same words, but in the sentinels and the links of L.    *)
SameButLinks(m, o, L) ==
  \A c \in Cells : o[c] # m[c] => c <= 6 \/ \E a \in L : c = a + 1 \/ c = a + 2

(* No two links share a word.                                              *)
LEMMA ApartFact ==
  ASSUME NEW n \in Nat, NEW w, Apart(w, n), NEW i \in 0 .. n + 1, NEW j \in 0 .. n + 1
  PROVE  /\ w[i] \in Nat /\ w[j] \in Nat /\ w[i] + 1 # w[j] + 2
         /\ i # j => w[i] # w[j] /\ w[i] + 1 # w[j] + 1 /\ w[i] + 2 # w[j] + 2
<1>1. PICK a \in Nat, b \in Nat : a = w[i] /\ b = w[j]
  BY DEF Apart
<1>2. i # j => a + 2 < b \/ b + 2 < a
  BY <1>1 DEF Apart
<1> QED
  BY <1>1, <1>2

(* del_free takes the k-th chunk out, writing two links.                   *)
LEMMA DelFact ==
  ASSUME NEW m \in [Cells -> Words], NEW n \in Nat, NEW w \in [0 .. n + 1 -> Nat],
         Walk(m, w, n), NEW k \in 1 .. n, NEW o, o = del_free(m, w[k])
  PROVE  /\ Walk(o, Cut(w, n, k), n - 1)
         /\ SameBut(m, o, {next(w[k - 1]), prev(w[k + 1])})
         /\ o \in [Cells -> Words]
<1>1. w[0] = 1 /\ w[n + 1] = 4 /\ Apart(w, n)
  BY DEF Walk, Apart, free_head, free_tail
<1>c. \A i \in 0 .. n + 1 : w[i] \in Nat /\ w[i] + 1 \in Cells /\ w[i] + 2 \in Cells
  BY DEF Walk, Apart
<1>s. \A i, j \in 0 .. n + 1 : i # j => w[i] + 2 < w[j] \/ w[j] + 2 < w[i]
  BY DEF Walk, Apart
<1>l. \A i \in 0 .. n : m[w[i] + 1] = w[i + 1] /\ m[w[i + 1] + 2] = w[i]
  BY DEF Walk, next, prev
<1>2. /\ k - 1 \in 0 .. n /\ k - 1 \in 0 .. n + 1 /\ k \in 0 .. n /\ k \in 0 .. n + 1
      /\ k + 1 \in 0 .. n + 1 /\ (k - 1) + 1 = k
  OBVIOUS
<1>3. PICK a \in Nat, f \in Nat, b \in Nat : a = w[k - 1] /\ f = w[k] /\ b = w[k + 1]
  BY <1>2
<1>4. m[f + 2] = a /\ m[f + 1] = b
  BY <1>l, <1>2, <1>3
<1>5. /\ a + 1 \in Cells /\ f + 1 \in Cells /\ f + 2 \in Cells /\ b + 2 \in Cells
      /\ a + 1 # f + 1 /\ a + 1 # b + 2 /\ a + 1 # f + 2
  <2>1. k - 1 # k
    OBVIOUS
  <2>2. a + 1 # f + 1
    BY SMTT(30), <1>1, <1>2, <1>3, <2>1, ApartFact
  <2>3. a + 1 # b + 2
    BY SMTT(30), <1>1, <1>2, <1>3, ApartFact
  <2>4. a + 1 # f + 2
    BY ZenonT(60), <1>1, <1>2, <1>3, ApartFact
  <2> QED
    BY <1>c, <1>2, <1>3, <2>2, <2>3, <2>4
<1>6. PICK m1 : m1 = [m EXCEPT ![a + 1] = b]
  OBVIOUS
<1>7. /\ DOMAIN m = Cells /\ DOMAIN m1 = Cells
      /\ \A c \in Cells : m1[c] = IF c = a + 1 THEN b ELSE m[c]
  BY <1>5, <1>6
<1>8. m1[f + 1] = b /\ m1[f + 2] = a
  BY <1>4, <1>5, <1>7
<1>9. o = [m1 EXCEPT ![b + 2] = a]
  BY <1>3, <1>4, <1>6, <1>8 DEF del_free, next, prev
<1>10. /\ DOMAIN o = Cells
       /\ \A c \in Cells : o[c] = IF c = b + 2 THEN a ELSE IF c = a + 1 THEN b ELSE m[c]
  BY <1>7, <1>9
<1>11. SameBut(m, o, {next(w[k - 1]), prev(w[k + 1])})
  BY <1>3, <1>10 DEF SameBut, next, prev
<1>12. PICK p \in Nat : p = n - 1
  OBVIOUS
<1>13. PICK v : v = Cut(w, n, k)
  OBVIOUS
<1>14. v \in [0 .. p + 1 -> Nat] /\ p + 1 = n
       /\ \A i \in 0 .. n : v[i] = IF i < k THEN w[i] ELSE w[i + 1]
  BY <1>12, <1>13 DEF Cut
<1>15. \A i \in 0 .. n : \E h \in 0 .. n + 1 :
         v[i] = w[h] /\ h = IF i < k THEN i ELSE i + 1
  <2> SUFFICES ASSUME NEW i \in 0 .. n
               PROVE  \E h \in 0 .. n + 1 : v[i] = w[h] /\ h = IF i < k THEN i ELSE i + 1
    OBVIOUS
  <2>1. v[i] = IF i < k THEN w[i] ELSE w[i + 1]
    BY <1>14
  <2>2. i \in 0 .. n + 1 /\ i + 1 \in 0 .. n + 1
    OBVIOUS
  <2> QED
    BY <2>1, <2>2
<1>16. Apart(v, p)
  <2>1. v[0] = 1 /\ v[p + 1] = 4
    BY <1>1, <1>12, <1>14
  <2>2. ASSUME NEW i \in 0 .. p + 1
        PROVE  v[i] + 1 \in Cells /\ v[i] + 2 \in Cells
    <3>1. PICK h \in 0 .. n + 1 : v[i] = w[h]
      BY <1>12, <1>15
    <3> QED
      BY <1>c, <3>1
  <2>3. ASSUME NEW i \in 0 .. p + 1, NEW j \in 0 .. p + 1, i # j
        PROVE  v[i] + 2 < v[j] \/ v[j] + 2 < v[i]
    <3>1. PICK h \in 0 .. n + 1 : v[i] = w[h] /\ h = IF i < k THEN i ELSE i + 1
      BY <1>12, <1>15
    <3>2. PICK l \in 0 .. n + 1 : v[j] = w[l] /\ l = IF j < k THEN j ELSE j + 1
      BY <1>12, <1>15
    <3>3. h # l
      BY <2>3, <3>1, <3>2
    <3> QED
      BY <1>s, <3>1, <3>2, <3>3
  <2> QED
    BY <1>14, <2>1, <2>2, <2>3 DEF Apart, free_head, free_tail
<1>17. ASSUME NEW i \in 0 .. p
       PROVE  o[v[i] + 1] = v[i + 1] /\ o[v[i + 1] + 2] = v[i]
  <2>1. CASE i = k - 1
    <3>1. v[i] = a /\ v[i + 1] = b
      BY <1>3, <1>12, <1>14, <2>1
    <3> QED
      BY <1>5, <1>10, <3>1
  <2>2. CASE i # k - 1
    <3>1. PICK h \in 0 .. n : h = IF i < k THEN i ELSE i + 1
      BY <1>12
    <3>2. /\ h # k - 1 /\ h + 1 # k + 1 /\ (i < k => i + 1 < k)
          /\ h \in 0 .. n + 1 /\ h + 1 \in 0 .. n + 1 /\ i \in 0 .. n /\ i + 1 \in 0 .. n
      BY <1>12, <2>2, <3>1
    <3>3. v[i] = w[h] /\ v[i + 1] = w[h + 1]
      <4>1. CASE i < k
        BY <1>14, <3>1, <3>2, <4>1
      <4>2. CASE ~(i < k)
        <5>1. ~(i + 1 < k) /\ h = i + 1 /\ h + 1 = (i + 1) + 1
          BY <3>1, <4>2
        <5> QED
          BY <1>14, <3>2, <4>2, <5>1
      <4> QED
        BY <4>1, <4>2
    <3>4. w[h] + 1 # a + 1 /\ w[h + 1] + 2 # b + 2
      BY ZenonT(60), <1>1, <1>2, <1>3, <3>2, ApartFact
    <3>5. w[h] + 1 # b + 2 /\ w[h + 1] + 2 # a + 1
      BY ZenonT(60), <1>1, <1>2, <1>3, <3>2, ApartFact
    <3>6. o[w[h] + 1] = m[w[h] + 1] /\ o[w[h + 1] + 2] = m[w[h + 1] + 2]
      BY <1>c, <1>10, <3>2, <3>4, <3>5
    <3> QED
      BY <1>l, <3>1, <3>3, <3>6
  <2> QED
    BY <2>1, <2>2
<1>18. Walk(o, v, p)
  BY <1>16, <1>17 DEF Walk, next, prev
<1>19. o \in [Cells -> Words]
  <2>1. a \in Words /\ b \in Words
    BY <1>c, <1>2, <1>3, LinksAreWords
  <2>2. m1 \in [Cells -> Words]
    BY <1>6, <2>1
  <2> QED
    BY <1>9, <2>1, <2>2
<1> QED
  BY <1>11, <1>12, <1>13, <1>18, <1>19

(* add_free puts a chunk at the end, writing four links.                   *)
LEMMA AddFact ==
  ASSUME NEW m \in [Cells -> Words], NEW n \in Nat, NEW w \in [0 .. n + 1 -> Nat],
         Walk(m, w, n), NEW f \in Nat, f + 1 \in Cells, f + 2 \in Cells,
         \A i \in 0 .. n + 1 : w[i] + 2 < f \/ f + 2 < w[i],
         NEW o, o = add_free(m, f)
  PROVE  /\ Walk(o, Put(w, n, f), n + 1)
         /\ SameBut(m, o, {next(w[n]), next(f), prev(f), prev(free_tail)})
         /\ o \in [Cells -> Words]
<1>1. w[0] = 1 /\ w[n + 1] = 4 /\ Apart(w, n)
  BY DEF Walk, Apart, free_head, free_tail
<1>c. \A i \in 0 .. n + 1 : w[i] \in Nat /\ w[i] + 1 \in Cells /\ w[i] + 2 \in Cells
  BY DEF Walk, Apart
<1>s. \A i, j \in 0 .. n + 1 : i # j => w[i] + 2 < w[j] \/ w[j] + 2 < w[i]
  BY DEF Walk, Apart
<1>l. \A i \in 0 .. n : m[w[i] + 1] = w[i + 1] /\ m[w[i + 1] + 2] = w[i]
  BY DEF Walk, next, prev
<1>2. PICK a \in Nat : a = w[n]
  OBVIOUS
<1>3. n \in 0 .. n /\ n \in 0 .. n + 1 /\ n + 1 \in 0 .. n + 1
  OBVIOUS
<1>4. m[6] = a /\ 6 \in Cells /\ a + 1 \in Cells /\ a + 2 \in Cells
  <2>1. m[4 + 2] = a /\ 4 + 2 \in Cells
    BY <1>1, <1>2, <1>3, <1>c, <1>l
  <2> QED
    BY <1>2, <1>3, <1>c, <2>1
<1>0. /\ a + 2 < f \/ f + 2 < a
      /\ 4 + 2 < f \/ f + 2 < 4
      /\ a + 2 < 4 \/ 4 + 2 < a
  BY SMTT(30), <1>1, <1>2, <1>3, <1>s
<1>5. /\ a + 1 # f + 1 /\ a + 1 # f + 2 /\ a + 1 # 6
      /\ f + 1 # 6 /\ f + 2 # 6
  BY SMTT(30), <1>2, <1>0
<1>6. PICK m1 : m1 = [m EXCEPT ![a + 1] = f]
  OBVIOUS
<1>7. /\ DOMAIN m = Cells /\ DOMAIN m1 = Cells
      /\ \A c \in Cells : m1[c] = IF c = a + 1 THEN f ELSE m[c]
  BY <1>4, <1>6
<1>8. m1[6] = a
  BY <1>4, <1>5, <1>7
<1>9. PICK m2 : m2 = [m1 EXCEPT ![f + 2] = a, ![f + 1] = 4]
  OBVIOUS
<1>10. /\ DOMAIN m2 = Cells
       /\ \A c \in Cells : m2[c] = IF c = f + 1 THEN 4 ELSE IF c = f + 2 THEN a ELSE m1[c]
  BY <1>7, <1>9
<1>11. o = [m2 EXCEPT ![6] = f]
  <2>1. next(a) = a + 1 /\ next(f) = f + 1 /\ prev(f) = f + 2 /\ prev(free_tail) = 6
        /\ free_tail = 4
    BY DEF next, prev, free_tail
  <2> QED
    BY <1>4, <1>6, <1>8, <1>9, <2>1 DEF add_free
<1>12. /\ DOMAIN o = Cells
       /\ \A c \in Cells : o[c] = IF c = 6 THEN f ELSE IF c = f + 1 THEN 4
                                  ELSE IF c = f + 2 THEN a ELSE IF c = a + 1 THEN f
                                  ELSE m[c]
  BY <1>5, <1>7, <1>10, <1>11
<1>13. SameBut(m, o, {next(w[n]), next(f), prev(f), prev(free_tail)})
  BY <1>2, <1>12 DEF SameBut, next, prev, free_tail
<1>14. PICK p \in Nat : p = n + 1
  OBVIOUS
<1>15. PICK v : v = Put(w, n, f)
  OBVIOUS
<1>16. v \in [0 .. p + 1 -> Nat] /\ v[p] = f /\ v[p + 1] = 4
       /\ \A i \in 0 .. n : v[i] = w[i]
  BY <1>14, <1>15 DEF Put, free_tail
<1>17. \A i \in 0 .. p + 1 : i \in 0 .. n \/ i = p \/ i = p + 1
  BY <1>14
<1>18. Apart(v, p)
  <2>1. v[0] = 1 /\ v[p + 1] = 4
    BY <1>1, <1>16
  <2>2. ASSUME NEW i \in 0 .. p + 1
        PROVE  v[i] + 1 \in Cells /\ v[i] + 2 \in Cells
    <3>1. w[n + 1] = 4 /\ 4 + 1 \in Cells /\ 4 + 2 \in Cells
      BY <1>1, <1>3, <1>c
    <3>2. \A h \in 0 .. n : w[h] + 1 \in Cells /\ w[h] + 2 \in Cells
      BY SMTT(30), <1>c
    <3> QED
      BY <1>16, <1>17, <3>1, <3>2
  <2>3. ASSUME NEW i \in 0 .. p + 1, NEW j \in 0 .. p + 1, i # j
        PROVE  v[i] + 2 < v[j] \/ v[j] + 2 < v[i]
    <3>1. 4 + 2 < f \/ f + 2 < 4
      BY <1>0
    <3>2. ASSUME NEW h \in 0 .. n
          PROVE  /\ w[h] \in Nat /\ (w[h] + 2 < f \/ f + 2 < w[h])
                 /\ (w[h] + 2 < 4 \/ 4 + 2 < w[h])
      <4>1. h \in 0 .. n + 1 /\ h # n + 1
        OBVIOUS
      <4> QED
        BY <1>1, <1>3, <1>c, <1>s, <4>1
    <3>3. \A h, l \in 0 .. n : h # l => w[h] + 2 < w[l] \/ w[l] + 2 < w[h]
      BY <1>s
    <3>4. CASE i \in 0 .. n /\ j \in 0 .. n
      BY <1>16, <2>3, <3>3, <3>4
    <3>5. CASE i \in 0 .. n /\ j \notin 0 .. n
      BY <1>16, <1>17, <3>2, <3>5
    <3>6. CASE i \notin 0 .. n /\ j \in 0 .. n
      BY <1>16, <1>17, <3>2, <3>6
    <3>7. CASE i \notin 0 .. n /\ j \notin 0 .. n
      BY <1>16, <1>17, <2>3, <3>1, <3>7
    <3> QED
      BY <3>4, <3>5, <3>6, <3>7
  <2> QED
    BY <1>16, <2>1, <2>2, <2>3 DEF Apart, free_head, free_tail
<1>19. ASSUME NEW i \in 0 .. p
       PROVE  o[v[i] + 1] = v[i + 1] /\ o[v[i + 1] + 2] = v[i]
  <2>1. CASE i = p
    BY SMTT(30), <1>5, <1>12, <1>16, <2>1, <1>4
  <2>2. CASE i = n
    <3>1. v[i] = a /\ v[i + 1] = f
      BY <1>2, <1>3, <1>14, <1>16, <2>2
    <3>2. a + 1 # 6 /\ f + 2 # f + 1 /\ f + 2 # 6
      BY <1>5
    <3> QED
      BY <1>4, <1>5, <1>12, <3>1, <3>2
  <2>3. CASE i \in 0 .. n - 1
    <3>1. /\ v[i] = w[i] /\ v[i + 1] = w[i + 1] /\ i \in 0 .. n
          /\ i \in 0 .. n + 1 /\ i + 1 \in 0 .. n + 1 /\ i # n /\ i + 1 # n + 1
      BY <1>16, <2>3
    <3>2. w[i] + 1 # a + 1 /\ w[i + 1] + 2 # a + 1
      BY <1>1, <1>2, <1>3, <3>1, ApartFact
    <3>3. w[i] + 1 # 4 + 2 /\ w[i + 1] + 2 # 4 + 2
      BY ZenonT(60), <1>1, <1>3, <3>1, ApartFact
    <3>4. PICK x \in Nat, y \in Nat : x = w[i] /\ y = w[i + 1]
      BY <1>c, <3>1
    <3>5. (x + 2 < f \/ f + 2 < x) /\ (y + 2 < f \/ f + 2 < y)
      BY <3>1, <3>4
    <3>6. /\ x + 1 # f + 1 /\ x + 1 # f + 2 /\ y + 2 # f + 1 /\ y + 2 # f + 2
      BY <3>5
    <3>7. /\ x + 1 # 6 /\ y + 2 # 6 /\ x + 1 # a + 1 /\ y + 2 # a + 1
      BY <3>2, <3>3, <3>4
    <3>8. x + 1 \in Cells /\ y + 2 \in Cells
      BY <1>c, <3>1, <3>4
    <3>9. o[x + 1] = m[x + 1] /\ o[y + 2] = m[y + 2]
      BY <1>12, <3>6, <3>7, <3>8
    <3> QED
      BY <1>l, <3>1, <3>4, <3>9
  <2> QED
    BY <1>14, <2>1, <2>2, <2>3
<1>20. Walk(o, v, p)
  BY <1>18, <1>19 DEF Walk, next, prev
<1>21. o \in [Cells -> Words]
  <2>1. a \in Words /\ f \in Words /\ 4 \in Words
    <3>1. 4 + 1 \in Cells
      BY <1>1, <1>3, <1>c
    <3> QED
      BY <1>2, <1>4, <3>1, LinksAreWords
  <2>2. m1 \in [Cells -> Words]
    BY <1>6, <2>1
  <2>3. m2 \in [Cells -> Words]
    BY <1>9, <2>1, <2>2
  <2> QED
    BY <1>11, <2>1, <2>3
<1> QED
  BY <1>13, <1>14, <1>15, <1>20, <1>21

(* The chunks of a list.                                                   *)
ListOf(w, n) == {w[i] : i \in 1 .. n}

(* Without the k-th chunk, the others are left.                            *)
LEMMA CutSet ==
  ASSUME NEW n \in Nat, NEW w, Apart(w, n), NEW k \in 1 .. n
  PROVE  ListOf(Cut(w, n, k), n - 1) = ListOf(w, n) \ {w[k]}
<1>1. PICK v : v = Cut(w, n, k)
  OBVIOUS
<1>2. \A i \in 0 .. n : v[i] = IF i < k THEN w[i] ELSE w[i + 1]
  BY <1>1 DEF Cut
<1>3. ASSUME NEW x \in ListOf(v, n - 1) PROVE x \in ListOf(w, n) \ {w[k]}
  <2>1. PICK i \in 1 .. n - 1 : x = v[i]
    BY <1>3 DEF ListOf
  <2>2. PICK h \in 1 .. n : h = IF i < k THEN i ELSE i + 1
    OBVIOUS
  <2>3. x = w[h] /\ h # k
    BY <1>2, <2>1, <2>2
  <2>4. h \in 0 .. n + 1 /\ k \in 0 .. n + 1
    OBVIOUS
  <2>5. w[h] # w[k]
    BY <2>3, <2>4, ApartFact
  <2> QED
    BY <2>2, <2>3, <2>5 DEF ListOf
<1>4. ASSUME NEW x \in ListOf(w, n), x # w[k] PROVE x \in ListOf(v, n - 1)
  <2>1. PICK i \in 1 .. n : x = w[i]
    BY <1>4 DEF ListOf
  <2>2. i # k
    BY <1>4, <2>1
  <2>3. PICK h \in 1 .. n - 1 : h = IF i < k THEN i ELSE i - 1
    BY <2>2
  <2>4. v[h] = w[i]
    <3>1. CASE i < k
      BY <1>2, <2>3, <3>1
    <3>2. CASE ~(i < k)
      <4>1. ~(h < k) /\ h + 1 = i /\ h \in 0 .. n
        BY <2>2, <2>3, <3>2
      <4> QED
        BY <1>2, <4>1
    <3> QED
      BY <3>1, <3>2
  <2> QED
    BY <2>1, <2>3, <2>4 DEF ListOf
<1> QED
  BY <1>1, <1>3, <1>4

(* With one more at the end, there is one more.                            *)
LEMMA PutSet ==
  ASSUME NEW n \in Nat, NEW w, NEW f
  PROVE  ListOf(Put(w, n, f), n + 1) = ListOf(w, n) \cup {f}
<1>1. PICK v : v = Put(w, n, f)
  OBVIOUS
<1>2. (\A i \in 1 .. n : v[i] = w[i]) /\ v[n + 1] = f
  BY <1>1 DEF Put
<1>3. 1 .. n + 1 = (1 .. n) \cup {n + 1}
  OBVIOUS
<1> QED
  BY <1>1, <1>2, <1>3 DEF ListOf

(* The walk of the code along a list that is not too long finds w.         *)
LEMMA NodesFact ==
  ASSUME NEW m, NEW n \in Nat, NEW w, Walk(m, w, n), n <= MaxFree
  PROVE  \A k \in 0 .. MaxFree : Nodes(m)[k] = IF k <= n THEN w[k + 1] ELSE free_tail
<1>0. MaxFree \in Nat
  BY HeapAssumption
<1>1. PICK d \in Nat : d = MaxFree
  BY <1>0
<1> DEFINE Step1(f, k) == IF k = 0 THEN m[next(free_head)] ELSE Follow(m, f[k - 1])
           Is(f) == f = [k \in 0 .. d |-> Step1(f, k)]
           v == CHOOSE f : Is(f)
<1>2. PICK u : u = [k \in 0 .. d |-> IF k <= n THEN w[k + 1] ELSE free_tail]
  OBVIOUS
<1>3. Apart(w, n) /\ w[0] = free_head /\ w[n + 1] = free_tail
  BY DEF Walk, Apart
<1>4. ASSUME NEW i \in 0 .. n
      PROVE  m[next(w[i])] = w[i + 1] /\ (i # 0 => Follow(m, w[i]) = w[i + 1])
  <2>1. m[next(w[i])] = w[i + 1]
    BY DEF Walk
  <2>2. i \in 0 .. n + 1 /\ n + 1 \in 0 .. n + 1 /\ i # n + 1
    OBVIOUS
  <2>3. w[i] # free_tail
    BY <1>3, <2>2, ApartFact
  <2>4. prev(w[i]) \in Cells
    BY <1>3, <2>2 DEF Apart, prev
  <2> QED
    BY <2>1, <2>3, <2>4 DEF Follow
<1>5. Follow(m, free_tail) = free_tail
  BY DEF Follow
<1>6. Is(u)
  <2>1. ASSUME NEW k \in 0 .. d PROVE u[k] = Step1(u, k)
    <3>1. CASE k = 0
      BY <1>2, <1>3, <1>4, <3>1
    <3>2. CASE k # 0
      <4>1. k - 1 \in 0 .. d /\ (k - 1) + 1 = k
        BY <3>2
      <4>2. CASE k <= n
        <5>1. u[k - 1] = w[k] /\ u[k] = w[k + 1] /\ k \in 0 .. n
          BY <1>2, <4>1, <4>2
        <5> QED
          BY <1>4, <3>2, <5>1
      <4>3. CASE ~(k <= n)
        <5>1. u[k] = free_tail
          BY <1>2, <4>3
        <5>2. u[k - 1] = free_tail
          BY <1>2, <1>3, <4>1, <4>3
        <5> QED
          BY <1>5, <3>2, <5>1, <5>2
      <4> QED
        BY <4>2, <4>3
    <3> QED
      BY <3>1, <3>2
  <2> QED
    BY <1>2, <2>1
<1>7. Is(v)
  BY <1>6
<1>8. DOMAIN v = 0 .. d /\ DOMAIN u = 0 .. d
  BY <1>2, <1>7
<1>9. \A k \in 0 .. d : v[k] = Step1(v, k) /\ u[k] = Step1(u, k)
  BY <1>6, <1>7
<1>10. PICK T : T = {k \in 0 .. d : v[k] # u[k]}
  OBVIOUS
<1>11. T = {}
  <2> SUFFICES ASSUME T # {} PROVE FALSE
    OBVIOUS
  <2>1. T \in SUBSET Nat
    BY <1>10
  <2>2. PICK x \in T : \A y \in T : x <= y
    BY <2>1, LeastOf, Zenon
  <2>3. x \in 0 .. d /\ v[x] # u[x]
    BY <1>10
  <2>4. x # 0
    BY <1>9, <2>3
  <2>5. x - 1 \in 0 .. d /\ x - 1 \notin T
    BY <2>2, <2>3, <2>4
  <2>6. v[x - 1] = u[x - 1]
    BY <1>10, <2>5
  <2> QED
    BY <1>9, <2>3, <2>4, <2>6
<1>12. \A k \in 0 .. d : v[k] = u[k]
  BY <1>10, <1>11
<1>13. Nodes(m) = v
  BY <1>1 DEF Nodes, v
<1> QED
  BY <1>1, <1>2, <1>12, <1>13

(* So what the code takes for the free chunks are those of the list.       *)
LEMMA FreeChunksFact ==
  ASSUME NEW m, NEW n \in Nat, NEW w, Walk(m, w, n), n <= MaxFree
  PROVE  FreeChunksOf(m) = ListOf(w, n)
<1>1. PICK d \in Nat : d = MaxFree /\ n <= d
  BY HeapAssumption
<1>2. \A k \in 0 .. d : Nodes(m)[k] = IF k <= n THEN w[k + 1] ELSE free_tail
  BY <1>1, NodesFact
<1>3. Apart(w, n) /\ w[n + 1] = free_tail
  BY DEF Walk, Apart
<1>4. ASSUME NEW x \in FreeChunksOf(m) PROVE x \in ListOf(w, n)
  <2>1. PICK k \in 0 .. d : x = Nodes(m)[k] /\ x # free_tail
    BY <1>1, <1>4 DEF FreeChunksOf
  <2>2. k + 1 \in 1 .. n /\ x = w[k + 1]
    BY <1>2, <1>3, <2>1
  <2> QED
    BY <2>2 DEF ListOf
<1>5. ASSUME NEW x \in ListOf(w, n) PROVE x \in FreeChunksOf(m)
  <2>1. PICK i \in 1 .. n : x = w[i]
    BY <1>5 DEF ListOf
  <2>2. i - 1 \in 0 .. d /\ (i - 1) + 1 = i /\ i - 1 <= n
    BY <1>1
  <2>3. x = Nodes(m)[i - 1]
    BY <1>2, <2>1, <2>2
  <2>4. i \in 0 .. n + 1 /\ n + 1 \in 0 .. n + 1 /\ i # n + 1
    OBVIOUS
  <2>5. x # free_tail
    BY <1>3, <2>1, <2>4, ApartFact
  <2> QED
    BY <1>1, <2>2, <2>3, <2>5 DEF FreeChunksOf
<1> QED
  BY <1>4, <1>5

-----------------------------------------------------------------------------
(* Mappings: where their chunks may lie.                                   *)

MappingType == [first : 1 .. MaxPage, count : 1 .. MaxPage, large : BOOLEAN]

(* A mapping begins behind page 0 with its header and ends with a page.    *)
LEMMA MappingBounds ==
  ASSUME NEW g \in MappingType, PagesOf(g) \subseteq 1 .. MaxPage
  PROVE  /\ StartOf(g) \in Nat /\ EndOf(g) \in Nat
         /\ 6 < StartOf(g) /\ StartOf(g) < EndOf(g) /\ EndOf(g) - 1 \in Cells
         /\ PageFirst(StartOf(g)) /\ PageLast(EndOf(g))
         /\ StartOf(g) \div page_size = g.first
<1>1. PICK N \in Nat : N = page_size * (MaxPage + 1) /\ Cells = 0 .. N - 1
  BY CellsFact
<1>2. PICK b \in Nat \ {0} : b = page_size /\ b > 6
  BY HeapAssumption
<1>3. PICK H \in Nat : H = SIZEOF_PAGE_HEADER /\ H < b
  BY <1>2, HeapAssumption
<1>4. PICK M \in Nat : M = MaxPage
  BY HeapAssumption
<1>5. PICK p \in 1 .. M, k \in 1 .. M : p = g.first /\ k = g.count
  BY <1>4 DEF MappingType
<1>6. p + k - 1 \in 1 .. M
  BY <1>4, <1>5 DEF PagesOf
<1>7. StartOf(g) = b * p + H /\ EndOf(g) = b * (p + k)
  BY <1>2, <1>3, <1>5 DEF StartOf, EndOf
<1>8. b * 1 <= b * p /\ b * (p + 1) <= b * (p + k) /\ b * (p + k) <= b * (M + 1)
  <2>1. 1 <= p /\ p + 1 <= p + k /\ p + k <= M + 1
    BY <1>6
  <2> QED
    BY <1>6, <2>1, MulMono
<1>9. b * (p + 1) = b * p + b /\ b * 1 = b
  OBVIOUS
<1>10. b * p \in Nat /\ b * (p + k) \in Nat /\ b * (M + 1) = N
  BY <1>1, <1>2, <1>4
<1>11. (b * p + H) % b = H /\ (b * p + H) \div b = p
  BY <1>3, DivModUnique
<1>12. (b * (p + k) + 0) % b = 0 /\ b * (p + k) + 0 = b * (p + k)
  BY DivModUnique
<1>13. PICK x \in Nat, y \in Nat : x = b * p /\ y = b * (p + k)
  BY <1>10
<1>14. b <= x /\ x + b <= y /\ y <= N
  BY <1>8, <1>9, <1>10, <1>13
<1>15. StartOf(g) = x + H /\ EndOf(g) = y
  BY <1>7, <1>13
<1>16. /\ StartOf(g) \in Nat /\ EndOf(g) \in Nat
       /\ 6 < StartOf(g) /\ StartOf(g) < EndOf(g) /\ EndOf(g) - 1 \in Cells
  BY <1>1, <1>2, <1>3, <1>14, <1>15
<1>17. PageFirst(StartOf(g)) /\ PageLast(EndOf(g))
  BY <1>2, <1>3, <1>7, <1>11, <1>12 DEF PageFirst, PageLast
<1> QED
  BY <1>2, <1>5, <1>7, <1>11, <1>16, <1>17

(* Between two mappings there is a page header.                            *)
LEMMA MappingsApart ==
  ASSUME NEW g \in MappingType, NEW h \in MappingType, PagesOf(g) \cap PagesOf(h) = {}
  PROVE  EndOf(g) < StartOf(h) \/ EndOf(h) < StartOf(g)
<1>1. PICK b \in Nat \ {0} : b = page_size
  BY HeapAssumption
<1>2. PICK H \in Nat \ {0} : H = SIZEOF_PAGE_HEADER
  BY HeapAssumption
<1>3. PICK M \in Nat : M = MaxPage
  BY HeapAssumption
<1>4. PICK p \in 1 .. M, k \in 1 .. M : p = g.first /\ k = g.count
  BY <1>3 DEF MappingType
<1>5. PICK q \in 1 .. M, l \in 1 .. M : q = h.first /\ l = h.count
  BY <1>3 DEF MappingType
<1>6. p \notin q .. q + l - 1 /\ q \notin p .. p + k - 1
  <2>1. p \in PagesOf(g) /\ q \in PagesOf(h)
    BY <1>4, <1>5 DEF PagesOf
  <2>2. p \notin PagesOf(h) /\ q \notin PagesOf(g)
    BY <2>1
  <2> QED
    BY <1>4, <1>5, <2>2 DEF PagesOf
<1>7. p + k <= q \/ q + l <= p
  BY <1>6
<1>8. /\ StartOf(g) = b * p + H /\ EndOf(g) = b * (p + k)
      /\ StartOf(h) = b * q + H /\ EndOf(h) = b * (q + l)
  BY <1>1, <1>2, <1>4, <1>5 DEF StartOf, EndOf
<1>9. PICK x \in Nat, y \in Nat, s \in Nat, t \in Nat :
        x = b * p /\ y = b * (p + k) /\ s = b * q /\ t = b * (q + l)
  OBVIOUS
<1>10. y <= s \/ t <= x
  BY <1>7, <1>9, MulMono
<1> QED
  BY <1>8, <1>9, <1>10

(* A word of a mapping is on one of its pages.                             *)
LEMMA PageOfWord ==
  ASSUME NEW g \in MappingType, NEW c \in Nat, StartOf(g) <= c, c < EndOf(g)
  PROVE  c \div page_size \in PagesOf(g)
<1>1. PICK b \in Nat \ {0} : b = page_size
  BY HeapAssumption
<1>2. PICK H \in Nat \ {0} : H = SIZEOF_PAGE_HEADER
  BY HeapAssumption
<1>3. PICK M \in Nat : M = MaxPage
  BY HeapAssumption
<1>4. PICK p \in 1 .. M, k \in 1 .. M : p = g.first /\ k = g.count
  BY <1>3 DEF MappingType
<1>5. StartOf(g) = b * p + H /\ EndOf(g) = b * (p + k)
  BY <1>1, <1>2, <1>4 DEF StartOf, EndOf
<1>6. PICK q \in Nat, r \in Nat : q = c \div b /\ r = c % b /\ r < b /\ c = b * q + r
  BY DivMod
<1>7. q >= p
  <2> SUFFICES ASSUME q < p PROVE FALSE
    OBVIOUS
  <2>1. b * (q + 1) <= b * p
    BY MulMono
  <2>2. b * (q + 1) = b * q + b
    OBVIOUS
  <2>3. PICK x \in Nat, y \in Nat : x = b * p /\ y = b * q
    OBVIOUS
  <2> QED
    BY <1>5, <1>6, <2>1, <2>2, <2>3
<1>8. q < p + k
  <2> SUFFICES ASSUME q >= p + k PROVE FALSE
    OBVIOUS
  <2>1. b * (p + k) <= b * q
    BY MulMono
  <2>2. PICK x \in Nat, y \in Nat : x = b * (p + k) /\ y = b * q
    OBVIOUS
  <2> QED
    BY <1>5, <1>6, <2>1, <2>2
<1> QED
  BY <1>1, <1>4, <1>6, <1>7, <1>8 DEF PagesOf

-----------------------------------------------------------------------------
(* Chunks: A is the set of their addresses, z[a] the size of the one at a, *)
(* G the mappings that are cut into chunks.                                *)

Ranges(G) ==
  /\ \A g \in G : /\ StartOf(g) \in Nat /\ EndOf(g) \in Nat
                  /\ 6 < StartOf(g) /\ page_size < StartOf(g) /\ StartOf(g) < EndOf(g)
                  /\ EndOf(g) - 1 \in Cells /\ PageLast(EndOf(g))
                  /\ PageFirst(StartOf(g))
  /\ \A g, h \in G : g # h => EndOf(g) < StartOf(h) \/ EndOf(h) < StartOf(g)

(* Every word of G is in one chunk, and every chunk in one mapping.        *)
Tiles(A, z, G) ==
  /\ A \subseteq Nat /\ z \in [Nat -> Nat]
  /\ \A a \in A : /\ z[a] >= MinChunk
                  /\ \E g \in G : StartOf(g) <= a /\ a + z[a] <= EndOf(g)
  /\ \A a, b \in A : a < b => a + z[a] <= b
  /\ \A g \in G : \A c \in Nat : StartOf(g) <= c /\ c < EndOf(g) =>
       \E a \in A : a <= c /\ c < a + z[a]

(* The words of a chunk are behind the sentinels and in the memory.        *)
LEMMA TileWords ==
  ASSUME NEW A, NEW z, NEW G, Ranges(G), Tiles(A, z, G), NEW a \in A
  PROVE  /\ a \in Nat /\ z[a] \in Nat /\ 4 <= z[a] /\ 6 < a
         /\ a + z[a] < THIS_ALLOCATED_BIT /\ z[a] < THIS_ALLOCATED_BIT
         /\ \A c \in Nat : c < a + z[a] => c \in Cells
<1>1. PICK N \in Nat : Cells = 0 .. N - 1 /\ N < THIS_ALLOCATED_BIT
  BY CellsFact
<1>2. PICK B \in Nat : B = THIS_ALLOCATED_BIT
  BY HeapAssumption
<1>3. a \in Nat /\ z[a] \in Nat /\ 4 <= z[a]
  BY DEF Tiles, MinChunk
<1>4. PICK g \in G : StartOf(g) <= a /\ a + z[a] <= EndOf(g)
  BY DEF Tiles
<1>5. PICK s \in Nat, e \in Nat : s = StartOf(g) /\ e = EndOf(g) /\ 6 < s /\ e - 1 \in 0 .. N - 1
  BY <1>1 DEF Ranges
<1> QED
  BY <1>1, <1>2, <1>3, <1>4, <1>5

(* Two chunks share no word.                                               *)
LEMMA TilesApart ==
  ASSUME NEW A, NEW z, NEW G, Tiles(A, z, G), NEW a \in A, NEW b \in A,
         NEW x \in Nat, a <= x, x < a + z[a], b <= x, x < b + z[b]
  PROVE  a = b
<1>1. a \in Nat /\ z[a] \in Nat /\ b \in Nat /\ z[b] \in Nat
  BY DEF Tiles
<1>2. /\ a < b => a + z[a] <= b
      /\ b < a => b + z[b] <= a
  BY DEF Tiles
<1> QED
  BY <1>1, <1>2

(* Behind a chunk that does not end a page there is another one.           *)
LEMMA TileBehind ==
  ASSUME NEW A, NEW z, NEW G, Ranges(G), Tiles(A, z, G), NEW a \in A,
         \A g \in G : a + z[a] # EndOf(g)
  PROVE  a + z[a] \in A
<1>1. PICK g \in G : StartOf(g) <= a /\ a + z[a] <= EndOf(g)
  BY DEF Tiles
<1>2. PICK x \in Nat, s \in Nat : x = a /\ s = z[a] /\ 4 <= s
  BY TileWords
<1>3. PICK i \in Nat, e \in Nat : i = StartOf(g) /\ e = EndOf(g)
  BY DEF Ranges
<1>4. i <= x + s /\ x + s < e
  BY <1>1, <1>2, <1>3
<1>5. PICK b \in A : b <= x + s /\ x + s < b + z[b]
  BY <1>2, <1>3, <1>4 DEF Tiles
<1>6. b \in Nat /\ z[b] \in Nat
  BY DEF Tiles
<1>7. /\ a < b => a + z[a] <= b
      /\ b < a => b + z[b] <= a
  BY DEF Tiles
<1> QED
  BY <1>2, <1>5, <1>6, <1>7

(* Before a chunk that does not begin a mapping there is another one.      *)
LEMMA TileBefore ==
  ASSUME NEW A, NEW z, NEW G, Ranges(G), Tiles(A, z, G), NEW a \in A,
         \A g \in G : a # StartOf(g)
  PROVE  \E t \in A : t + z[t] = a
<1>1. PICK g \in G : StartOf(g) <= a /\ a + z[a] <= EndOf(g)
  BY DEF Tiles
<1>2. PICK x \in Nat, s \in Nat : x = a /\ s = z[a] /\ 4 <= s /\ 6 < x
  BY TileWords
<1>3. PICK i \in Nat, e \in Nat : i = StartOf(g) /\ e = EndOf(g)
  BY DEF Ranges
<1>4. x - 1 \in Nat /\ i <= x - 1 /\ x - 1 < e
  BY <1>1, <1>2, <1>3
<1>5. PICK b \in A : b <= x - 1 /\ x - 1 < b + z[b]
  BY <1>3, <1>4 DEF Tiles
<1>6. b \in Nat /\ z[b] \in Nat
  BY DEF Tiles
<1>7. b < a => b + z[b] <= a
  BY DEF Tiles
<1> QED
  BY <1>2, <1>5, <1>6, <1>7

(* Before one that does, there is none.                                    *)
LEMMA TileFirst ==
  ASSUME NEW A, NEW z, NEW G, Ranges(G), Tiles(A, z, G), NEW t \in A, NEW g \in G
  PROVE  t + z[t] # StartOf(g)
<1>1. PICK h \in G : StartOf(h) <= t /\ t + z[t] <= EndOf(h)
  BY DEF Tiles
<1>2. PICK x \in Nat, s \in Nat : x = t /\ s = z[t] /\ 4 <= s
  BY TileWords
<1>3. PICK i \in Nat, e \in Nat : i = StartOf(g) /\ e = EndOf(g)
  BY DEF Ranges
<1>4. PICK k \in Nat, f \in Nat : k = StartOf(h) /\ f = EndOf(h)
  BY DEF Ranges
<1>5. g # h => e < k \/ f < i
  BY <1>3, <1>4 DEF Ranges
<1>6. i < e
  BY <1>3 DEF Ranges
<1> QED
  BY <1>1, <1>2, <1>3, <1>4, <1>5, <1>6

(* A chunk cut in two.                                                     *)
LEMMA TilesSplit ==
  ASSUME NEW A, NEW z, NEW G, Ranges(G), Tiles(A, z, G), NEW a \in A,
         NEW s \in Nat, 4 <= s, s + 4 <= z[a],
         NEW y, y = [z EXCEPT ![a] = s, ![a + s] = z[a] - s]
  PROVE  Tiles(A \cup {a + s}, y, G) /\ a + s \notin A
<1>1. PICK x \in Nat, l \in Nat : x = a /\ l = z[a] /\ s + 4 <= l
  BY DEF Tiles
<1>2. z \in [Nat -> Nat] /\ A \subseteq Nat /\ x + s \in Nat /\ x # x + s /\ l - s \in Nat
  BY <1>1 DEF Tiles
<1>3. /\ y \in [Nat -> Nat] /\ y[x] = s /\ y[x + s] = l - s
      /\ \A c \in Nat : c # x /\ c # x + s => y[c] = z[c]
  BY <1>1, <1>2
<1>t. \A b, c \in A : b < c => b + z[b] <= c
  BY DEF Tiles
<1>4. \A b \in A : (b < x => b + z[b] <= x) /\ (x < b => x + l <= b)
  BY <1>1, <1>t
<1>5. x + s \notin A
  BY <1>1, <1>2, <1>4
<1>6. \A b \in A : b # x => y[b] = z[b] /\ b \in Nat /\ z[b] \in Nat
  BY <1>2, <1>3, <1>5
<1>7. ASSUME NEW b \in A \cup {x + s}
      PROVE  y[b] >= 4 /\ \E g \in G : StartOf(g) <= b /\ b + y[b] <= EndOf(g)
  <2>1. CASE b = x \/ b = x + s
    <3>1. PICK g \in G : StartOf(g) <= a /\ a + z[a] <= EndOf(g)
      BY DEF Tiles
    <3>2. PICK i \in Nat, e \in Nat : i = StartOf(g) /\ e = EndOf(g)
      BY DEF Ranges
    <3>3. i <= b /\ b + y[b] <= e /\ y[b] >= 4
      BY <1>1, <1>3, <2>1, <3>1, <3>2
    <3> QED
      BY <3>2, <3>3
  <2>2. CASE b \in A /\ b # x
    BY <1>6, <2>2 DEF Tiles, MinChunk
  <2> QED
    BY <2>1, <2>2
<1>8. ASSUME NEW b \in A \cup {x + s}, NEW c \in A \cup {x + s}, b < c
      PROVE  b + y[b] <= c
  <2>1. CASE b \in A /\ b # x /\ c \in A /\ c # x
    BY <1>6, <1>8, <1>t, <2>1
  <2>2. CASE b \in A /\ b # x /\ (c = x \/ c = x + s)
    <3>1. b \in Nat /\ y[b] = z[b] /\ z[b] \in Nat
      BY <1>6, <2>2
    <3>2. b < x => b + z[b] <= x
      BY <1>4, <2>2
    <3>3. x < b => x + l <= b
      BY <1>4, <2>2
    <3> QED
      BY <1>1, <1>8, <2>2, <3>1, <3>2, <3>3
  <2>3. CASE (b = x \/ b = x + s) /\ c \in A /\ c # x
    <3>1. c \in Nat /\ (x < c => x + l <= c)
      BY <1>4, <1>6, <2>3
    <3> QED
      BY <1>1, <1>3, <1>8, <2>3, <3>1
  <2>4. CASE (b = x \/ b = x + s) /\ (c = x \/ c = x + s)
    BY <1>3, <1>8, <2>4
  <2> QED
    BY <2>1, <2>2, <2>3, <2>4
<1>9. ASSUME NEW g \in G, NEW c \in Nat, StartOf(g) <= c, c < EndOf(g)
      PROVE  \E b \in A \cup {x + s} : b <= c /\ c < b + y[b]
  <2>1. PICK b \in A : b <= c /\ c < b + z[b]
    BY <1>9 DEF Tiles
  <2>2. CASE b # x
    BY <1>6, <2>1, <2>2
  <2>3. CASE b = x
    BY <1>1, <1>3, <2>1, <2>3
  <2> QED
    BY <2>2, <2>3
<1>10. Tiles(A \cup {x + s}, y, G)
  BY <1>2, <1>3, <1>7, <1>8, <1>9 DEF Tiles, MinChunk
<1> QED
  BY <1>1, <1>5, <1>10

(* Two neighbours joined.                                                  *)
LEMMA TilesMerge ==
  ASSUME NEW A, NEW z, NEW G, Ranges(G), Tiles(A, z, G), NEW a \in A, NEW b \in A,
         b = a + z[a], \A g \in G : b # StartOf(g),
         NEW y, y = [z EXCEPT ![a] = z[a] + z[b]]
  PROVE  Tiles(A \ {b}, y, G)
<1>1. PICK x \in Nat, l \in Nat, k \in Nat : x = a /\ l = z[a] /\ k = z[b] /\ 4 <= l /\ 4 <= k
  BY DEF Tiles, MinChunk
<1>2. z \in [Nat -> Nat] /\ A \subseteq Nat
  BY DEF Tiles
<1>3. y \in [Nat -> Nat] /\ y[x] = l + k /\ \A c \in Nat : c # x => y[c] = z[c]
  BY <1>1, <1>2
<1>4. b = x + l
  BY <1>1
<1>t. \A c, d \in A : c < d => c + z[c] <= d
  BY DEF Tiles
<1>5. \A c \in A : (c < x => c + z[c] <= x) /\ (x + l < c => x + l + k <= c)
  BY <1>1, <1>4, <1>t
<1>5a. \A c \in A : x < c => x + l <= c
  BY <1>1, <1>t
<1>6. \A c \in A : c # x => y[c] = z[c] /\ c \in Nat /\ z[c] \in Nat
  BY <1>2, <1>3
<1>7. ASSUME NEW c \in A \ {b}
      PROVE  y[c] >= 4 /\ \E g \in G : StartOf(g) <= c /\ c + y[c] <= EndOf(g)
  <2>1. CASE c = x
    <3>1. PICK g \in G : StartOf(g) <= b /\ b + z[b] <= EndOf(g)
      BY DEF Tiles
    <3>2. PICK h \in G : StartOf(h) <= a /\ a + z[a] <= EndOf(h)
      BY DEF Tiles
    <3>3. PICK i \in Nat, e \in Nat : i = StartOf(g) /\ e = EndOf(g)
      BY DEF Ranges
    <3>4. PICK j \in Nat, f \in Nat : j = StartOf(h) /\ f = EndOf(h)
      BY DEF Ranges
    <3>5. g # h => e < j \/ f < i
      BY <3>3, <3>4 DEF Ranges
    <3>6. i # b
      BY <3>3
    <3>7. i <= x /\ x + l + k <= e
      BY <1>1, <1>4, <3>1, <3>2, <3>3, <3>4, <3>5, <3>6
    <3> QED
      BY <1>1, <1>3, <2>1, <3>3, <3>7
  <2>2. CASE c # x
    BY <1>6, <2>2 DEF Tiles, MinChunk
  <2> QED
    BY <2>1, <2>2
<1>8. ASSUME NEW c \in A \ {b}, NEW d \in A \ {b}, c < d
      PROVE  c + y[c] <= d
  <2>0. d \in Nat /\ c \in Nat
    BY <1>2
  <2>1. CASE c # x
    BY <1>6, <1>8, <1>t, <2>1
  <2>2. CASE c = x
    <3>1. x + l <= d /\ d # x + l
      BY <1>4, <1>5a, <1>8, <2>2
    <3>2. x + l + k <= d
      BY <1>5, <2>0, <3>1
    <3> QED
      BY <1>3, <2>0, <2>2, <3>2
  <2> QED
    BY <2>1, <2>2
<1>9. ASSUME NEW g \in G, NEW c \in Nat, StartOf(g) <= c, c < EndOf(g)
      PROVE  \E d \in A \ {b} : d <= c /\ c < d + y[d]
  <2>1. PICK d \in A : d <= c /\ c < d + z[d]
    BY <1>9 DEF Tiles
  <2>2. CASE d # x /\ d # b
    BY <1>6, <2>1, <2>2
  <2>3. CASE d = x \/ d = b
    <3>1. x <= c /\ c < x + y[x] /\ x # b
      BY <1>1, <1>3, <1>4, <2>1, <2>3
    <3> QED
      BY <1>1, <3>1
  <2> QED
    BY <2>2, <2>3
<1> QED
  BY <1>2, <1>3, <1>7, <1>8, <1>9 DEF Tiles, MinChunk

(* A new mapping is one chunk.                                             *)
LEMMA TilesNew ==
  ASSUME NEW A, NEW z, NEW G, NEW g, g \notin G, Ranges(G \cup {g}), Tiles(A, z, G),
         NEW l \in Nat, 4 <= l, StartOf(g) + l = EndOf(g),
         NEW y, y = [z EXCEPT ![StartOf(g)] = l]
  PROVE  /\ Tiles(A \cup {StartOf(g)}, y, G \cup {g})
         /\ StartOf(g) \notin A
         /\ \A a \in A : a + z[a] # StartOf(g)
<1>1. PICK i \in Nat, e \in Nat : i = StartOf(g) /\ e = EndOf(g) /\ i + l = e
  BY DEF Ranges
<1>2. z \in [Nat -> Nat] /\ A \subseteq Nat
  BY DEF Tiles
<1>3. y \in [Nat -> Nat] /\ y[i] = l /\ \A c \in Nat : c # i => y[c] = z[c]
  BY <1>1, <1>2
<1>4. ASSUME NEW a \in A PROVE a + z[a] < i \/ e < a
  <2>1. PICK h \in G : StartOf(h) <= a /\ a + z[a] <= EndOf(h)
    BY DEF Tiles
  <2>2. PICK j \in Nat, f \in Nat : j = StartOf(h) /\ f = EndOf(h)
    BY DEF Ranges
  <2>3. h # g
    OBVIOUS
  <2>4. f < i \/ e < j
    BY <1>1, <2>2, <2>3 DEF Ranges
  <2>5. PICK x \in Nat, s \in Nat : x = a /\ s = z[a]
    BY <1>2
  <2> QED
    BY <1>1, <2>1, <2>2, <2>4, <2>5
<1>5. \A a \in A : a \in Nat /\ z[a] \in Nat /\ a # i /\ y[a] = z[a]
  <2> SUFFICES ASSUME NEW a \in A
               PROVE  a \in Nat /\ z[a] \in Nat /\ a # i /\ y[a] = z[a]
    OBVIOUS
  <2>1. a \in Nat /\ z[a] \in Nat
    BY <1>2
  <2>2. a # i
    BY <1>1, <1>4, <2>1
  <2> QED
    BY <1>3, <2>1, <2>2
<1>6. ASSUME NEW a \in A \cup {i}
      PROVE  y[a] >= 4 /\ \E h \in G \cup {g} : StartOf(h) <= a /\ a + y[a] <= EndOf(h)
  <2>1. CASE a = i
    BY <1>1, <1>3, <2>1
  <2>2. CASE a \in A
    BY <1>5, <2>2 DEF Tiles, MinChunk
  <2> QED
    BY <2>1, <2>2
<1>7. ASSUME NEW a \in A \cup {i}, NEW b \in A \cup {i}, a < b
      PROVE  a + y[a] <= b
  <2>1. CASE a \in A /\ b \in A
    BY <1>5, <1>7, <2>1 DEF Tiles
  <2>2. CASE a \in A /\ b = i
    <3>1. a + z[a] < i \/ e < a
      BY <1>4, <2>2
    <3>2. a \in Nat /\ z[a] \in Nat /\ y[a] = z[a]
      BY <1>5, <2>2
    <3> QED
      BY <1>1, <1>7, <2>2, <3>1, <3>2
  <2>3. CASE a = i /\ b \in A
    <3>1. b + z[b] < i \/ e < b
      BY <1>4, <2>3
    <3>2. b \in Nat /\ z[b] \in Nat
      BY <1>5, <2>3
    <3> QED
      BY <1>1, <1>3, <1>7, <2>3, <3>1, <3>2
  <2>4. CASE a = i /\ b = i
    BY <1>1, <1>7, <2>4
  <2> QED
    BY <2>1, <2>2, <2>3, <2>4
<1>8. ASSUME NEW h \in G \cup {g}, NEW c \in Nat, StartOf(h) <= c, c < EndOf(h)
      PROVE  \E a \in A \cup {i} : a <= c /\ c < a + y[a]
  <2>1. CASE h \in G
    <3>1. PICK a \in A : a <= c /\ c < a + z[a]
      BY <1>8, <2>1 DEF Tiles
    <3> QED
      BY <1>5, <3>1
  <2>2. CASE h = g
    BY <1>1, <1>3, <1>8, <2>2
  <2> QED
    BY <2>1, <2>2
<1>9. Tiles(A \cup {i}, y, G \cup {g})
  BY <1>1, <1>2, <1>3, <1>6, <1>7, <1>8 DEF Tiles, MinChunk
<1>10. \A a \in A : a + z[a] # i
  <2> SUFFICES ASSUME NEW a \in A PROVE a + z[a] # i
    OBVIOUS
  <2>1. a + z[a] < i \/ e < a
    BY <1>4
  <2>2. a \in Nat /\ z[a] \in Nat
    BY <1>5
  <2> QED
    BY <1>1, <2>1, <2>2
<1> QED
  BY <1>1, <1>5, <1>9, <1>10

-----------------------------------------------------------------------------
(* The tags.  U is the set of chunks that count as in use, V and F those   *)
(* whose tags are right for a chunk in use and for a free one; a chunk in  *)
(* the hands of alloc or free is in neither.                               *)

UsedOK(m, z, U, G, a) ==
  /\ m[a + z[a] - 1] \in {z[a] + THIS_ALLOCATED_BIT, z[a] + 3 * THIS_ALLOCATED_BIT}
  /\ ~PageLast(a + z[a]) =>
       (m[a + z[a] - 1] = z[a] + 3 * THIS_ALLOCATED_BIT <=> a + z[a] \in U)
  /\ PageFirst(a) => \E g \in G : a = StartOf(g)

FreeOK(m, z, U, G, a) ==
  /\ m[a] = z[a]
  /\ ~PageLast(a + z[a]) =>
       m[a + z[a] - 1] = z[a] + 2 * THIS_ALLOCATED_BIT /\ a + z[a] \in U
  /\ \/ m[a + z[a] - 1] = z[a] + 2 * THIS_ALLOCATED_BIT
     \/ ThisBit(m[a + z[a] - 1])
     \/ \E g \in G : a + z[a] = EndOf(g)

(* Words of chunks in V, but no tag, or words outside all chunks: what the *)
(* client may hold.                                                        *)
Private(K, A, z, V) ==
  \A c \in K : /\ c \in Cells /\ 6 < c
               /\ \A a \in A : a <= c /\ c < a + z[a] => a \in V /\ c < a + z[a] - 1

Chunks(m, A, z, U, V, F, w, n, G, K) ==
  /\ m \in [Cells -> Words]
  /\ Ranges(G) /\ Tiles(A, z, G)
  /\ U \subseteq A /\ V \subseteq A
  /\ n \in Nat /\ Walk(m, w, n)
  /\ F \subseteq ListOf(w, n) /\ ListOf(w, n) \subseteq A /\ V \cap ListOf(w, n) = {}
  /\ \A a \in V : UsedOK(m, z, U, G, a)
  /\ \A a \in F : FreeOK(m, z, U, G, a)
  /\ Private(K, A, z, V)

(* Chunk f is not in use, and not on the list.                             *)
InHand(m, A, z, U, V, F, w, n, G, K, f) ==
  Chunks(m, A, z, U, V, F, w, n, G, K) /\ f \in A /\ f \notin V /\ f \notin ListOf(w, n)

(* The sizes when chunk a is cut behind s words, and when b joins it.      *)
Halved(z, a, s) == [z EXCEPT ![a] = s, ![a + s] = z[a] - s]
Joined(z, a, b) == [z EXCEPT ![a] = z[a] + z[b]]

(* The links of the list are in the sentinels and in the chunks on it.     *)
LEMMA LinkWords ==
  ASSUME NEW n \in Nat, NEW w, Apart(w, n), NEW i \in 0 .. n + 1
  PROVE  /\ w[i] \in Nat
         /\ (w[i] + 1 <= 6 /\ w[i] + 2 <= 6) \/ w[i] \in ListOf(w, n)
<1>1. w[i] \in Nat /\ w[0] = 1 /\ w[n + 1] = 4
  BY DEF Apart, free_head, free_tail
<1>2. i = 0 \/ i = n + 1 \/ i \in 1 .. n
  OBVIOUS
<1> QED
  BY <1>1, <1>2 DEF ListOf

(* Memory that differs in words of chunks in hand, and in links of the     *)
(* list, has the same tags.                                                *)
LEMMA Frame ==
  ASSUME NEW m, NEW A, NEW z, NEW U, NEW V, NEW F, NEW w, NEW n, NEW G, NEW K,
         Chunks(m, A, z, U, V, F, w, n, G, K), NEW o,
         \A c \in Cells : o[c] # m[c] =>
           \/ c <= 6
           \/ \E a \in A \ (V \cup F), i \in Nat : i < z[a] /\ c = a + i
           \/ \E a \in F : c = a + 1 \/ c = a + 2
  PROVE  /\ \A a \in V : UsedOK(o, z, U, G, a)
         /\ \A a \in F : FreeOK(o, z, U, G, a)
         /\ \A c \in K : o[c] = m[c]
<1>0. Ranges(G) /\ Tiles(A, z, G) /\ V \subseteq A /\ F \subseteq A /\ V \cap F = {}
  BY DEF Chunks
<1>1. ASSUME NEW a \in V \cup F, NEW c \in Nat, a <= c, c < a + z[a],
             a \in V \/ (c # a + 1 /\ c # a + 2)
      PROVE  o[c] = m[c]
  <2>1. a \in A /\ 6 < a /\ a \in Nat /\ c \in Cells
    BY <1>0, <1>1, TileWords
  <2> SUFFICES ASSUME o[c] # m[c] PROVE FALSE
    OBVIOUS
  <2>2. ~(c <= 6)
    BY <1>1, <2>1
  <2>3. ASSUME NEW b \in A \ (V \cup F), NEW i \in Nat, i < z[b], c = b + i
        PROVE  FALSE
    <3>1. b \in Nat /\ z[b] \in Nat
      BY <1>0, TileWords
    <3>2. b <= c /\ c < b + z[b]
      BY <2>3, <3>1
    <3> QED
      BY <1>0, <1>1, <2>1, <3>2, TilesApart
  <2>4. ASSUME NEW b \in F, c = b + 1 \/ c = b + 2 PROVE FALSE
    <3>1. b \in Nat /\ z[b] \in Nat /\ 4 <= z[b] /\ b \in A
      BY <1>0, TileWords
    <3>2. b <= c /\ c < b + z[b]
      BY <2>4, <3>1
    <3>3. a = b
      BY <1>0, <1>1, <2>1, <3>1, <3>2, TilesApart
    <3> QED
      BY <1>0, <1>1, <2>4, <3>3
  <2> QED
    BY <2>1, <2>2, <2>3, <2>4
<1>2. ASSUME NEW a \in V \cup F
      PROVE  /\ o[a + z[a] - 1] = m[a + z[a] - 1]
             /\ a \in F => o[a] = m[a]
  <2>1. PICK x \in Nat, s \in Nat : x = a /\ s = z[a] /\ 4 <= s
    BY <1>0, TileWords
  <2>2. PICK t \in Nat : t = x + s - 1
    BY <2>1
  <2>3. x <= t /\ t < x + s /\ t # x + 1 /\ t # x + 2
    BY <2>1, <2>2
  <2>4. x <= x /\ x < x + s /\ x # x + 1 /\ x # x + 2
    BY <2>1
  <2>5. o[t] = m[t]
    BY <1>1, <2>1, <2>3
  <2>6. o[x] = m[x]
    BY <1>1, <2>1, <2>4
  <2> QED
    BY <2>1, <2>2, <2>5, <2>6
<1>3. ASSUME NEW a \in V PROVE UsedOK(o, z, U, G, a)
  <2>1. UsedOK(m, z, U, G, a)
    BY DEF Chunks
  <2> QED
    BY <1>2, <2>1 DEF UsedOK
<1>4. ASSUME NEW a \in F PROVE FreeOK(o, z, U, G, a)
  <2>1. FreeOK(m, z, U, G, a)
    BY DEF Chunks
  <2> QED
    BY <1>2, <2>1 DEF FreeOK
<1>5. ASSUME NEW c \in K PROVE o[c] = m[c]
  <2> SUFFICES ASSUME o[c] # m[c] PROVE FALSE
    OBVIOUS
  <2>0. c \in Cells /\ 6 < c /\ c \in Nat /\ \A a \in A : a <= c /\ c < a + z[a] => a \in V
    BY CellsFact DEF Chunks, Private
  <2>1. ~(c <= 6)
    BY <2>0
  <2>2. ASSUME NEW b \in A \ (V \cup F), NEW i \in Nat, i < z[b], c = b + i
        PROVE  FALSE
    <3>1. b \in Nat /\ z[b] \in Nat
      BY <1>0, TileWords
    <3>2. b <= c /\ c < b + z[b]
      BY <2>2, <3>1
    <3> QED
      BY <2>0, <3>2
  <2>3. ASSUME NEW b \in F, c = b + 1 \/ c = b + 2 PROVE FALSE
    <3>1. b \in Nat /\ z[b] \in Nat /\ 4 <= z[b] /\ b \in A
      BY <1>0, TileWords
    <3>2. b <= c /\ c < b + z[b]
      BY <2>3, <3>1
    <3> QED
      BY <1>0, <2>0, <3>1, <3>2
  <2> QED
    BY <2>0, <2>1, <2>2, <2>3
<1> QED
  BY <1>3, <1>4, <1>5

(* A word of a chunk that is not a link of L is kept.                      *)
LEMMA NotALink ==
  ASSUME NEW A, NEW z, NEW G, Ranges(G), Tiles(A, z, G), NEW L, L \subseteq A,
         NEW m, NEW o, SameButLinks(m, o, L), NEW a \in A, NEW c \in Nat,
         a <= c, c < a + z[a], a \in L => c # a + 1 /\ c # a + 2
  PROVE  o[c] = m[c]
<1> SUFFICES ASSUME o[c] # m[c] PROVE FALSE
  OBVIOUS
<1>1. c \in Cells /\ 6 < c
  BY TileWords
<1>2. PICK b \in L : c = b + 1 \/ c = b + 2
  BY <1>1 DEF SameButLinks
<1>3. b \in A /\ b \in Nat /\ z[b] \in Nat /\ 4 <= z[b]
  BY TileWords
<1>4. b <= c /\ c < b + z[b]
  BY <1>2, <1>3
<1>5. a = b
  BY <1>3, <1>4, TilesApart
<1> QED
  BY <1>2, <1>5

(* Memory o is m with the k-th chunk taken off the list.                   *)
Grabbed(m, o, A, z, U, V, F, w, n, G, K, k) ==
  /\ Chunks(o, A, z, U, V, F \ {w[k]}, Cut(w, n, k), n - 1, G, K)
  /\ ListOf(Cut(w, n, k), n - 1) = ListOf(w, n) \ {w[k]}
  /\ Same(m, o, K)
  /\ o[w[k]] = m[w[k]]
  /\ SameButLinks(m, o, ListOf(w, n))

(* del_free does that: alloc to the chunk found, free to the one behind.   *)
LEMMA Grab ==
  ASSUME NEW m, NEW A, NEW z, NEW U, NEW V, NEW F, NEW w, NEW n, NEW G, NEW K,
         Chunks(m, A, z, U, V, F, w, n, G, K), NEW k \in 1 .. n,
         NEW o, o = del_free(m, w[k])
  PROVE  Grabbed(m, o, A, z, U, V, F, w, n, G, K, k)
<1>1. /\ m \in [Cells -> Words] /\ n \in Nat /\ Walk(m, w, n) /\ Apart(w, n)
      /\ w \in [0 .. n + 1 -> Nat] /\ Ranges(G) /\ Tiles(A, z, G)
      /\ ListOf(w, n) \subseteq A /\ F \subseteq ListOf(w, n) /\ V \subseteq A
      /\ V \cap ListOf(w, n) = {}
  BY DEF Chunks, Walk, Apart
<1>0. PICK v : v = Cut(w, n, k)
  OBVIOUS
<1>2. PICK p \in Nat : v = Cut(w, n, k) /\ p = n - 1
  BY <1>0, <1>1
<1>3. /\ Walk(o, v, p) /\ o \in [Cells -> Words]
      /\ SameBut(m, o, {next(w[k - 1]), prev(w[k + 1])})
  BY <1>1, <1>2, DelFact
<1>4. k - 1 \in 0 .. n + 1 /\ k + 1 \in 0 .. n + 1 /\ k \in 0 .. n + 1 /\ k - 1 # k /\ k + 1 # k
  BY <1>1
<1>5. PICK a \in Nat, f \in Nat, b \in Nat : a = w[k - 1] /\ f = w[k] /\ b = w[k + 1]
  BY <1>1, <1>4
<1>6. ListOf(v, p) = ListOf(w, n) \ {f} /\ f \in ListOf(w, n)
  <2>1. f \in ListOf(w, n)
    BY <1>5 DEF ListOf
  <2> QED
    BY SMTT(30), <1>1, <1>2, <1>5, <2>1, CutSet
<1>7. /\ (a + 1 <= 6) \/ a \in ListOf(v, p)
      /\ (b + 2 <= 6) \/ b \in ListOf(v, p)
      /\ f # a + 1 /\ f # b + 2
  <2>1. a # f /\ b # f
    BY <1>1, <1>4, <1>5, ApartFact
  <2>2. (a + 1 <= 6) \/ a \in ListOf(w, n)
    BY <1>1, <1>4, <1>5, LinkWords
  <2>3. (b + 2 <= 6) \/ b \in ListOf(w, n)
    BY <1>1, <1>4, <1>5, LinkWords
  <2>4. /\ a + 2 < f \/ f + 2 < a
        /\ b + 2 < f \/ f + 2 < b
    BY <1>1, <1>4, <1>5 DEF Apart
  <2> QED
    BY <1>6, <2>1, <2>2, <2>3, <2>4
<1>8. \A c \in Cells : o[c] # m[c] => c = a + 1 \/ c = b + 2
  BY <1>3, <1>5 DEF SameBut, next, prev
<1>9. Chunks(m, A, z, U, V, F \ {f}, w, n, G, K)
  BY DEF Chunks
<1>10. ASSUME NEW c \in Cells, o[c] # m[c]
       PROVE  \/ c <= 6
              \/ \E e \in A \ (V \cup (F \ {f})), i \in Nat : i < z[e] /\ c = e + i
              \/ \E e \in F \ {f} : c = e + 1 \/ c = e + 2
  <2>1. \A e \in A : e \in Nat /\ z[e] \in Nat /\ 4 <= z[e]
    BY <1>1, TileWords
  <2>2. ASSUME NEW e \in ListOf(v, p), NEW i \in {1, 2}, c = e + i
        PROVE  \/ \E d \in A \ (V \cup (F \ {f})), j \in Nat : j < z[d] /\ c = d + j
               \/ \E d \in F \ {f} : c = d + 1 \/ c = d + 2
    <3>1. e \in A /\ e \notin V /\ i \in Nat /\ i < z[e]
      BY <1>1, <1>6, <2>1
    <3>2. CASE e \in F \ {f}
      BY <2>2, <3>2
    <3>3. CASE e \notin F \ {f}
      BY <2>2, <3>1, <3>3
    <3> QED
      BY <3>2, <3>3
  <2>3. CASE c = a + 1
    BY <1>7, <2>2, <2>3
  <2>4. CASE c = b + 2
    BY <1>7, <2>2, <2>4
  <2> QED
    BY <1>8, <1>10, <2>3, <2>4
<1>11. /\ \A e \in V : UsedOK(o, z, U, G, e)
       /\ \A e \in F \ {f} : FreeOK(o, z, U, G, e)
       /\ \A c \in K : o[c] = m[c]
  BY <1>9, <1>10, Frame
<1>13. Chunks(o, A, z, U, V, F \ {f}, v, p, G, K)
  BY <1>1, <1>2, <1>3, <1>6, <1>9, <1>11 DEF Chunks
<1>14. o[f] = m[f]
  <2>1. f \in Cells
    BY <1>1, <1>6, TileWords
  <2> QED
    BY <1>7, <1>8, <2>1
<1>15. SameButLinks(m, o, ListOf(w, n))
  BY <1>6, <1>7, <1>8 DEF SameButLinks
<1> QED
  BY <1>2, <1>5, <1>6, <1>11, <1>13, <1>14, <1>15 DEF Same, Grabbed

(* Memory o is m with chunk f at the end of the list.                      *)
Returned(m, o, A, z, U, V, F, w, n, G, K, f) ==
  /\ Chunks(o, A, z, U, V, F \cup {f}, Put(w, n, f), n + 1, G, K)
  /\ ListOf(Put(w, n, f), n + 1) = ListOf(w, n) \cup {f}
  /\ Same(m, o, K)
  /\ SameButLinks(m, o, ListOf(w, n) \cup {f})

(* add_free does that with a chunk in hand that is tagged as a free one.   *)
LEMMA Return ==
  ASSUME NEW m, NEW A, NEW z, NEW U, NEW V, NEW F, NEW w, NEW n, NEW G, NEW K, NEW f,
         InHand(m, A, z, U, V, F, w, n, G, K, f), FreeOK(m, z, U, G, f),
         NEW o, o = add_free(m, f)
  PROVE  Returned(m, o, A, z, U, V, F, w, n, G, K, f)
<1>0. /\ Chunks(m, A, z, U, V, F, w, n, G, K)
      /\ f \in A /\ f \notin V /\ f \notin ListOf(w, n)
  BY DEF InHand
<1>1. /\ m \in [Cells -> Words] /\ n \in Nat /\ Walk(m, w, n) /\ Apart(w, n)
      /\ w \in [0 .. n + 1 -> Nat] /\ Ranges(G) /\ Tiles(A, z, G)
      /\ ListOf(w, n) \subseteq A /\ F \subseteq ListOf(w, n) /\ V \subseteq A
      /\ V \cap ListOf(w, n) = {}
  BY <1>0 DEF Chunks, Walk, Apart
<1>a. \A e \in A : e \in Nat /\ z[e] \in Nat /\ 4 <= z[e] /\ 6 < e
  BY <1>0, <1>1, TileWords
<1>b. f \in Nat /\ f + 1 \in Cells /\ f + 2 \in Cells /\ f \in Cells
  <2>1. f \in Nat /\ f + 1 < f + z[f] /\ f + 2 < f + z[f] /\ f < f + z[f]
    BY <1>0, <1>a
  <2> QED
    BY <1>0, <1>1, <2>1, TileWords
<1>c. ASSUME NEW a \in A, NEW b \in A, a # b
      PROVE  a + z[a] <= b \/ b + z[b] <= a
  BY <1>0, <1>a, <1>c, <1>1 DEF Tiles
<1>d. ASSUME NEW a \in A, a # f PROVE a + 2 < f \/ f + 2 < a
  BY <1>0, <1>a, <1>c, <1>d
<1>2. ASSUME NEW i \in 0 .. n + 1 PROVE w[i] + 2 < f \/ f + 2 < w[i]
  <2>1. w[i] \in Nat /\ ((w[i] + 2 <= 6) \/ w[i] \in ListOf(w, n))
    BY <1>1, LinkWords
  <2>2. CASE w[i] + 2 <= 6
    BY <1>0, <1>a, <2>1, <2>2
  <2>3. CASE w[i] \in ListOf(w, n)
    BY <1>0, <1>1, <1>d, <2>3
  <2> QED
    BY <2>1, <2>2, <2>3
<1>3. PICK v : v = Put(w, n, f)
  OBVIOUS
<1>4. PICK p \in Nat : p = n + 1
  BY <1>1
<1>5. /\ Walk(o, v, p) /\ o \in [Cells -> Words]
      /\ SameBut(m, o, {next(w[n]), next(f), prev(f), prev(free_tail)})
  BY <1>0, <1>1, <1>2, <1>3, <1>4, <1>b, AddFact
<1>6. n \in 0 .. n + 1
  BY <1>1
<1>7. PICK a \in Nat : a = w[n] /\ ((a + 1 <= 6) \/ a \in ListOf(w, n))
  BY <1>1, <1>6, LinkWords
<1>8. ListOf(v, p) = ListOf(w, n) \cup {f}
  BY <1>1, <1>3, <1>4, PutSet
<1>9. \A c \in Cells : o[c] # m[c] => c = a + 1 \/ c = f + 1 \/ c = f + 2 \/ c = 6
  BY <1>5, <1>7 DEF SameBut, next, prev, free_tail
<1>10. ASSUME NEW c \in Cells, o[c] # m[c]
       PROVE  \/ c <= 6
              \/ \E e \in A \ (V \cup F), i \in Nat : i < z[e] /\ c = e + i
              \/ \E e \in F : c = e + 1 \/ c = e + 2
  <2>1. CASE c = a + 1
    <3>1. CASE a \in F
      BY <2>1, <3>1
    <3>2. CASE a \in ListOf(w, n) /\ a \notin F
      <4>1. a \in A \ (V \cup F) /\ 1 < z[a]
        BY <1>1, <1>a, <3>2
      <4> QED
        BY <2>1, <4>1
    <3> QED
      BY <1>7, <2>1, <3>1, <3>2
  <2>2. CASE c = f + 1 \/ c = f + 2
    <3>1. f \in A \ (V \cup F) /\ 1 < z[f] /\ 2 < z[f]
      BY <1>0, <1>1, <1>a
    <3> QED
      BY <2>2, <3>1
  <2> QED
    BY <1>9, <1>10, <2>1, <2>2
<1>11. /\ \A e \in V : UsedOK(o, z, U, G, e)
       /\ \A e \in F : FreeOK(o, z, U, G, e)
       /\ \A c \in K : o[c] = m[c]
  BY <1>0, <1>10, Frame
<1>12. ASSUME NEW e \in A \ ListOf(w, n), NEW c \in Nat, e <= c, c < e + z[e],
              c # f + 1, c # f + 2
       PROVE  o[c] = m[c]
  <2>1. c \in Cells /\ 6 < e /\ e \in Nat
    BY <1>1, <1>12, TileWords
  <2>2. a \in ListOf(w, n) => c # a + 1
    <3> SUFFICES ASSUME a \in ListOf(w, n), c = a + 1 PROVE FALSE
      OBVIOUS
    <3>0. a \in A /\ 4 <= z[a] /\ z[a] \in Nat
      BY <1>0, <1>1, <1>a
    <3>1. a <= c /\ c < a + z[a]
      BY <3>0
    <3>2. a = e
      BY <1>1, <1>12, <3>0, <3>1, TilesApart
    <3> QED
      BY <3>2
  <2>3. c # 6 /\ c # a + 1
    BY <1>7, <1>12, <2>1, <2>2
  <2> QED
    BY <1>9, <1>12, <2>1, <2>3
<1>13. FreeOK(o, z, U, G, f)
  <2>1. PICK s \in Nat : s = z[f] /\ 4 <= s
    BY <1>0, <1>a
  <2>2. PICK t \in Nat : t = f + s - 1
    BY <1>0, <1>b, <2>1
  <2>3. f <= t /\ t < f + z[f] /\ t # f + 1 /\ t # f + 2 /\ f <= f /\ f < f + z[f]
        /\ f # f + 1 /\ f # f + 2
    BY <1>0, <1>b, <2>1, <2>2
  <2>4. o[t] = m[t] /\ o[f] = m[f]
    BY <1>0, <1>12, <1>b, <2>3
  <2>5. t = f + z[f] - 1
    BY <2>1, <2>2
  <2> QED
    BY <2>4, <2>5 DEF FreeOK
<1>14. Chunks(o, A, z, U, V, F \cup {f}, v, p, G, K)
  <2>1. U \subseteq A /\ Private(K, A, z, V)
    BY <1>0 DEF Chunks
  <2> QED
    BY <1>0, <1>1, <1>4, <1>5, <1>8, <1>11, <1>13, <2>1 DEF Chunks
<1>15. SameButLinks(m, o, ListOf(w, n) \cup {f})
  BY <1>7, <1>9 DEF SameButLinks
<1> QED
  BY <1>3, <1>4, <1>8, <1>11, <1>14, <1>15 DEF Same, Returned

(* A chunk begins where another ends, or where a mapping does.             *)
LEMMA NoneBefore ==
  ASSUME NEW A, NEW z, NEW G, Ranges(G), Tiles(A, z, G), NEW a \in A, NEW f \in A,
         PageFirst(f) => \E g \in G : f = StartOf(g), PageFirst(f)
  PROVE  a + z[a] # f
BY TileFirst

(* Writing neither the sentinels nor a link leaves the list as it is.      *)
LEMMA WalkKept ==
  ASSUME NEW m, NEW n \in Nat, NEW w, Walk(m, w, n), NEW o,
         \A c \in Cells : c <= 6 => o[c] = m[c],
         \A a \in ListOf(w, n) : o[a + 1] = m[a + 1] /\ o[a + 2] = m[a + 2]
  PROVE  Walk(o, w, n)
<1>1. ASSUME NEW i \in 0 .. n + 1
      PROVE  o[w[i] + 1] = m[w[i] + 1] /\ o[w[i] + 2] = m[w[i] + 2]
  <2>1. Apart(w, n) /\ w[i] + 1 \in Cells /\ w[i] + 2 \in Cells
    BY DEF Walk, Apart
  <2>2. (w[i] + 1 <= 6 /\ w[i] + 2 <= 6) \/ w[i] \in ListOf(w, n)
    BY <2>1, LinkWords
  <2> QED
    BY <2>1, <2>2
<1>2. \A i \in 0 .. n : i \in 0 .. n + 1 /\ i + 1 \in 0 .. n + 1
  OBVIOUS
<1> QED
  BY <1>1, <1>2 DEF Walk, next, prev

(* Memory o is m but for y, the new tag of t, the chunk before f.          *)
NewTag(m, o, A, z, w, n, K, f, t, y) ==
  /\ o \in [Cells -> Words] /\ Walk(o, w, n)
  /\ f - 1 \in Cells /\ f - 1 = t + z[t] - 1 /\ o[f - 1] = y /\ o[t] = m[t]
  /\ \A a \in A : a # t =>
       o[a] = m[a] /\ o[a + z[a] - 1] = m[a + z[a] - 1] /\ a + z[a] # f
  /\ \A c \in K : o[c] = m[c]
  /\ \A c \in Cells : c # f - 1 => o[c] = m[c]

(* It has the same list, and the other chunks have the tags they had.      *)
LEMMA TagWritten ==
  ASSUME NEW m, NEW A, NEW z, NEW U, NEW V, NEW F, NEW w, NEW n, NEW G, NEW K,
         Chunks(m, A, z, U, V, F, w, n, G, K), NEW f \in A, NEW t \in A, t + z[t] = f,
         NEW y \in Words, NEW o, o = [m EXCEPT ![f - 1] = y]
  PROVE  NewTag(m, o, A, z, w, n, K, f, t, y)
<1>1. /\ m \in [Cells -> Words] /\ n \in Nat /\ Walk(m, w, n)
      /\ Ranges(G) /\ Tiles(A, z, G)
      /\ ListOf(w, n) \subseteq A /\ Private(K, A, z, V)
  BY DEF Chunks
<1>a. \A e \in A : e \in Nat /\ z[e] \in Nat /\ 4 <= z[e] /\ 6 < e
  BY <1>1, TileWords
<1>2. PICK x \in Nat, s \in Nat : x = t /\ s = z[t] /\ 4 <= s /\ 6 < x /\ x + s = f
  BY <1>a
<1>3. PICK d \in Nat : d = f - 1 /\ x <= d /\ d < x + s /\ x # d /\ x + 1 # d /\ x + 2 # d
                       /\ d = x + s - 1
  BY <1>2
<1>4. d \in Cells /\ t \in Cells /\ t <= d /\ d < t + z[t]
  <2>1. t < t + z[t] /\ d < t + z[t]
    BY <1>2, <1>3
  <2> QED
    BY <1>1, <1>2, <1>3, <2>1, TileWords
<1>5. o \in [Cells -> Words] /\ o[d] = y /\ \A c \in Cells : c # d => o[c] = m[c]
  BY <1>1, <1>3, <1>4
<1>6. ASSUME NEW a \in A, a # t, NEW c \in Nat, a <= c, c < a + z[a]
      PROVE  c \in Cells /\ c # d
  <2>1. c \in Cells
    BY <1>1, <1>6, TileWords
  <2>2. c # d
    <3> SUFFICES ASSUME c = d PROVE FALSE
      OBVIOUS
    <3>1. a <= d /\ d < a + z[a]
      BY <1>6
    <3> QED
      BY <1>1, <1>4, <1>6, <3>1, TilesApart
  <2> QED
    BY <2>1, <2>2
<1>7. ASSUME NEW a \in A, a # t
      PROVE  o[a] = m[a] /\ o[a + z[a] - 1] = m[a + z[a] - 1] /\ a + z[a] # f
  <2>1. PICK e \in Nat : e = a + z[a] - 1 /\ a <= e /\ e < a + z[a]
    BY <1>a
  <2>2. a \in Nat /\ a <= a /\ a < a + z[a]
    BY <1>a
  <2>3. e \in Cells /\ e # d /\ a \in Cells /\ a # d
    BY <1>6, <1>7, <2>1, <2>2
  <2>4. a + z[a] # f
    BY <1>3, <1>a, <2>1, <2>3
  <2> QED
    BY <1>5, <2>1, <2>3, <2>4
<1>8. ASSUME NEW c \in K PROVE o[c] = m[c]
  <2>1. c \in Cells /\ \A a \in A : a <= c /\ c < a + z[a] => c < a + z[a] - 1
    BY <1>1 DEF Private
  <2>2. c # d
    BY <1>2, <1>3, <1>4, <2>1
  <2> QED
    BY <1>5, <2>1, <2>2
<1>9. Walk(o, w, n)
  <2>1. ASSUME NEW a \in ListOf(w, n) PROVE o[a + 1] = m[a + 1] /\ o[a + 2] = m[a + 2]
    <3>1. /\ a \in A /\ a + 1 \in Nat /\ a + 2 \in Nat /\ a <= a + 1 /\ a <= a + 2
          /\ a + 1 < a + z[a] /\ a + 2 < a + z[a]
      BY <1>1, <1>a
    <3>2. CASE a # t
      BY <1>5, <1>6, <3>1, <3>2
    <3>3. CASE a = t
      <4>1. a + 1 \in Cells /\ a + 2 \in Cells
        BY <1>1, <3>1, TileWords
      <4> QED
        BY <1>2, <1>3, <1>5, <3>3, <4>1
    <3> QED
      BY <3>2, <3>3
  <2>2. \A c \in Cells : c <= 6 => o[c] = m[c]
    BY <1>2, <1>3, <1>5
  <2> QED
    BY <1>1, <2>1, <2>2, WalkKept
<1> QED
  BY <1>2, <1>3, <1>4, <1>5, <1>7, <1>8, <1>9 DEF NewTag

(* MarkPrev: alloc tells the chunk before f that f is in use.              *)
LEMMA Believe ==
  ASSUME NEW m, NEW A, NEW z, NEW U, NEW V, NEW F, NEW w, NEW n, NEW G, NEW K,
         Chunks(m, A, z, U, V, F, w, n, G, K), NEW f \in A, f \notin U,
         PageFirst(f) => \E g \in G : f = StartOf(g),
         NEW o, o = MarkPrev(m, f)
  PROVE  /\ Chunks(o, A, z, U \cup {f}, V, F, w, n, G, K)
         /\ \A c \in K : o[c] = m[c]
<1>1. /\ m \in [Cells -> Words] /\ Ranges(G) /\ Tiles(A, z, G)
      /\ F \subseteq ListOf(w, n) /\ ListOf(w, n) \subseteq A
      /\ V \subseteq A /\ U \subseteq A
      /\ \A a \in V : UsedOK(m, z, U, G, a)
      /\ \A a \in F : FreeOK(m, z, U, G, a)
  BY DEF Chunks
<1>2. CASE PageFirst(f)
  <2>1. o = m
    BY <1>2 DEF MarkPrev
  <2>2. \A a \in A : a + z[a] # f
    BY <1>1, <1>2, NoneBefore
  <2>3. ASSUME NEW a \in V PROVE UsedOK(o, z, U \cup {f}, G, a)
    BY <1>1, <2>1, <2>2, <2>3 DEF UsedOK
  <2>4. ASSUME NEW a \in F PROVE FreeOK(o, z, U \cup {f}, G, a)
    BY <1>1, <2>1, <2>2, <2>4 DEF FreeOK
  <2> QED
    BY <1>1, <2>1, <2>3, <2>4 DEF Chunks
<1>3. CASE ~PageFirst(f)
  <2>0. \A g \in G : f # StartOf(g)
    BY <1>1, <1>3 DEF Ranges
  <2>1. PICK t \in A : t + z[t] = f
    BY <1>1, <2>0, TileBefore
  <2>2. PICK s \in Nat, B \in Nat : s = z[t] /\ B = THIS_ALLOCATED_BIT /\ s < B
    BY <1>1, TileWords, HeapAssumption
  <2>3. f - 1 \in Cells
    BY <1>1, <2>1, CellsFact, TileWords
  <2>4. PICK v \in Words : v = m[f - 1]
    BY <1>1, <2>3
  <2>5. PICK y \in Words : y = SetNext(v) /\ (ThisBit(y) <=> ThisBit(v))
                           /\ (NextBit(v) => y = v)
    BY NextChanged
  <2>6. o = [m EXCEPT ![f - 1] = y]
    BY <1>3, <2>4, <2>5 DEF MarkPrev
  <2>7. /\ o \in [Cells -> Words] /\ Walk(o, w, n)
        /\ f - 1 = t + z[t] - 1 /\ o[f - 1] = y /\ o[t] = m[t]
        /\ \A a \in A : a # t =>
             o[a] = m[a] /\ o[a + z[a] - 1] = m[a + z[a] - 1] /\ a + z[a] # f
        /\ \A c \in K : o[c] = m[c]
    <3>1. NewTag(m, o, A, z, w, n, K, f, t, y)
      BY <2>1, <2>6, TagWritten, Zenon
    <3> QED
      BY <3>1 DEF NewTag
  <2>9. ~NextBit(s + B) /\ NextBit(s + 2 * B) /\ NextBit(s + 3 * B)
    BY <2>2, TagBits
  <2>10. v = s + B => y = s + 3 * B
    <3>1. v = s + B => y = s + B + 2 * B
      BY <2>2, <2>5, <2>9 DEF SetNext, NEXT_ALLOCATED_BIT
    <3> QED
      BY <2>2, <3>1
  <2>14. ASSUME NEW a \in V PROVE UsedOK(o, z, U \cup {f}, G, a)
    <3>1. UsedOK(m, z, U, G, a)
      BY <1>1
    <3>2. CASE a # t
      <4>1. /\ o[a + z[a] - 1] = m[a + z[a] - 1] /\ a + z[a] # f
        BY <1>1, <2>7, <3>2
      <4> QED
        BY <3>1, <4>1 DEF UsedOK
    <3>3. CASE a = t
      <4>1. v \in {s + B, s + 3 * B}
        BY <2>2, <2>4, <2>7, <3>1, <3>3 DEF UsedOK
      <4>2. y = s + 3 * B
        BY <2>5, <2>9, <2>10, <4>1
      <4>3. o[a + z[a] - 1] = s + 3 * B
        BY <2>7, <3>3, <4>2
      <4> QED
        BY <2>1, <2>2, <3>1, <3>3, <4>3 DEF UsedOK
    <3> QED
      BY <3>2, <3>3
  <2>15. ASSUME NEW a \in F PROVE FreeOK(o, z, U \cup {f}, G, a)
    <3>1. FreeOK(m, z, U, G, a)
      BY <1>1
    <3>2. CASE a # t
      <4>1. /\ o[a] = m[a] /\ o[a + z[a] - 1] = m[a + z[a] - 1]
        BY <1>1, <2>7, <3>2
      <4> QED
        BY <3>1, <4>1 DEF FreeOK
    <3>3. CASE a = t
      <4>1. PageLast(a + z[a])
        BY <2>1, <3>1, <3>3 DEF FreeOK
      <4>2. v = s + 2 * B => y = s + 2 * B
        BY <2>5, <2>9
      <4>3. o[a] = m[a] /\ o[a + z[a] - 1] = y
        BY <2>7, <3>3
      <4>4. \/ y = s + 2 * B
            \/ ThisBit(y)
            \/ \E g \in G : a + z[a] = EndOf(g)
        BY <2>2, <2>4, <2>5, <2>7, <3>1, <3>3, <4>2 DEF FreeOK
      <4> QED
        BY <2>2, <3>1, <3>3, <4>1, <4>3, <4>4 DEF FreeOK
    <3> QED
      BY <3>2, <3>3
  <2> QED
    BY <1>1, <2>7, <2>14, <2>15 DEF Chunks
<1> QED
  BY <1>2, <1>3

(* What free does to tell the chunk before p that p is not in use.         *)
UnmarkPrev(m, p) == IF PageFirst(p) THEN m ELSE [m EXCEPT ![p - 1] = ClearNext(@)]

(* It does tell it, if the tag there is that of a chunk in use.            *)
LEMMA Disbelieve ==
  ASSUME NEW m, NEW A, NEW z, NEW U, NEW V, NEW F, NEW w, NEW n, NEW G, NEW K,
         Chunks(m, A, z, U, V, F, w, n, G, K), NEW p \in A,
         PageFirst(p) => \E g \in G : p = StartOf(g),
         PageFirst(p) \/ ThisBit(m[p - 1]),
         NEW o, o = UnmarkPrev(m, p)
  PROVE  /\ Chunks(o, A, z, U \ {p}, V, F, w, n, G, K)
         /\ Same(m, o, K)
<1>1. /\ m \in [Cells -> Words] /\ Ranges(G) /\ Tiles(A, z, G)
      /\ F \subseteq ListOf(w, n) /\ ListOf(w, n) \subseteq A
      /\ V \subseteq A /\ U \subseteq A
      /\ \A a \in V : UsedOK(m, z, U, G, a)
      /\ \A a \in F : FreeOK(m, z, U, G, a)
  BY DEF Chunks
<1>2. CASE PageFirst(p)
  <2>1. o = m
    BY <1>2 DEF UnmarkPrev
  <2>2. \A a \in A : a + z[a] # p
    BY <1>1, <1>2, NoneBefore
  <2>3. ASSUME NEW a \in V PROVE UsedOK(o, z, U \ {p}, G, a)
    BY <1>1, <2>1, <2>2, <2>3 DEF UsedOK
  <2>4. ASSUME NEW a \in F PROVE FreeOK(o, z, U \ {p}, G, a)
    BY <1>1, <2>1, <2>2, <2>4 DEF FreeOK
  <2> QED
    BY <1>1, <2>1, <2>3, <2>4 DEF Chunks, Same
<1>3. CASE ~PageFirst(p)
  <2>0. \A g \in G : p # StartOf(g)
    BY <1>1, <1>3 DEF Ranges
  <2>1. PICK t \in A : t + z[t] = p
    BY <1>1, <2>0, TileBefore
  <2>2. PICK s \in Nat, B \in Nat : s = z[t] /\ B = THIS_ALLOCATED_BIT /\ s < B
    BY <1>1, TileWords, HeapAssumption
  <2>3. p - 1 \in Cells
    BY <1>1, <2>1, CellsFact, TileWords
  <2>4. PICK v \in Words : v = m[p - 1] /\ ThisBit(v)
    BY <1>1, <1>3, <2>3
  <2>5. PICK y \in Words : y = ClearNext(v) /\ (ThisBit(y) <=> ThisBit(v))
    BY NextChanged
  <2>6. o = [m EXCEPT ![p - 1] = y]
    BY <1>3, <2>4, <2>5 DEF UnmarkPrev
  <2>7. /\ o \in [Cells -> Words] /\ Walk(o, w, n)
        /\ p - 1 = t + z[t] - 1 /\ o[p - 1] = y /\ o[t] = m[t]
        /\ \A a \in A : a # t =>
             o[a] = m[a] /\ o[a + z[a] - 1] = m[a + z[a] - 1] /\ a + z[a] # p
        /\ \A c \in K : o[c] = m[c]
    <3>1. NewTag(m, o, A, z, w, n, K, p, t, y)
      BY <2>1, <2>6, TagWritten, Zenon
    <3> QED
      BY <3>1 DEF NewTag
  <2>9. ~NextBit(s + B) /\ NextBit(s + 3 * B) /\ ~ThisBit(s + 2 * B)
    BY <2>2, TagBits
  <2>10. v = s + B \/ v = s + 3 * B => y = s + B
    <3>1. v = s + 3 * B => y = s + 3 * B - 2 * B
      BY <2>2, <2>5, <2>9 DEF ClearNext, NEXT_ALLOCATED_BIT
    <3>2. v = s + B => y = s + B
      BY <2>2, <2>5, <2>9 DEF ClearNext
    <3> QED
      BY <2>2, <3>1, <3>2
  <2>14. ASSUME NEW a \in V PROVE UsedOK(o, z, U \ {p}, G, a)
    <3>1. UsedOK(m, z, U, G, a)
      BY <1>1
    <3>2. CASE a # t
      <4>1. /\ o[a + z[a] - 1] = m[a + z[a] - 1] /\ a + z[a] # p
        BY <1>1, <2>7, <3>2
      <4> QED
        BY <3>1, <4>1 DEF UsedOK
    <3>3. CASE a = t
      <4>1. v \in {s + B, s + 3 * B}
        BY <2>2, <2>4, <2>7, <3>1, <3>3 DEF UsedOK
      <4>2. y = s + B
        BY <2>10, <4>1
      <4>3. o[a + z[a] - 1] = s + B
        BY <2>7, <3>3, <4>2
      <4>4. s + B # s + 3 * B
        BY <2>2
      <4> QED
        BY <2>1, <2>2, <3>1, <3>3, <4>3, <4>4 DEF UsedOK
    <3> QED
      BY <3>2, <3>3
  <2>15. ASSUME NEW a \in F PROVE FreeOK(o, z, U \ {p}, G, a)
    <3>1. FreeOK(m, z, U, G, a)
      BY <1>1
    <3>2. CASE a # t
      <4>1. /\ o[a] = m[a] /\ o[a + z[a] - 1] = m[a + z[a] - 1] /\ a + z[a] # p
        BY <1>1, <2>7, <3>2
      <4> QED
        BY <3>1, <4>1 DEF FreeOK
    <3>3. CASE a = t
      <4>0. v # s + 2 * B
        BY <2>4, <2>9
      <4>1. PageLast(a + z[a])
        BY <2>2, <2>4, <2>7, <3>1, <3>3, <4>0 DEF FreeOK
      <4>3. o[a] = m[a] /\ o[a + z[a] - 1] = y /\ ThisBit(y)
        BY <2>4, <2>5, <2>7, <3>3
      <4> QED
        BY <3>1, <3>3, <4>1, <4>3 DEF FreeOK
    <3> QED
      BY <3>2, <3>3
  <2> QED
    BY <1>1, <2>7, <2>14, <2>15 DEF Chunks, Same
<1> QED
  BY <1>2, <1>3

(* Writing into a chunk in hand, but not its links if it is on the list.   *)
LEMMA Poke ==
  ASSUME NEW m, NEW A, NEW z, NEW U, NEW V, NEW F, NEW w, NEW n, NEW G, NEW K,
         Chunks(m, A, z, U, V, F, w, n, G, K), NEW h \in A, h \notin V, h \notin F,
         NEW o \in [Cells -> Words],
         \A c \in Cells : o[c] # m[c] =>
           /\ h <= c /\ c < h + z[h]
           /\ h \in ListOf(w, n) => c # h + 1 /\ c # h + 2
  PROVE  /\ Chunks(o, A, z, U, V, F, w, n, G, K)
         /\ \A c \in K : o[c] = m[c]
<1>1. /\ m \in [Cells -> Words] /\ n \in Nat /\ Walk(m, w, n)
      /\ Ranges(G) /\ Tiles(A, z, G)
      /\ ListOf(w, n) \subseteq A
  BY DEF Chunks
<1>a. \A e \in A : e \in Nat /\ z[e] \in Nat /\ 4 <= z[e] /\ 6 < e
  BY <1>1, TileWords
<1>2. ASSUME NEW c \in Cells, o[c] # m[c]
      PROVE  \E a \in A \ (V \cup F), i \in Nat : i < z[a] /\ c = a + i
  <2>1. h <= c /\ c < h + z[h] /\ c \in Nat /\ h \in Nat /\ z[h] \in Nat
    BY <1>a, <1>2, CellsFact
  <2>2. c - h \in Nat /\ c - h < z[h] /\ c = h + (c - h)
    BY <2>1
  <2> QED
    BY <2>2
<1>3. /\ \A a \in V : UsedOK(o, z, U, G, a)
      /\ \A a \in F : FreeOK(o, z, U, G, a)
      /\ \A c \in K : o[c] = m[c]
  BY <1>2, Frame
<1>4. ASSUME NEW a \in ListOf(w, n), NEW c \in {a + 1, a + 2} PROVE o[c] = m[c]
  <2>1. a \in A /\ c \in Nat /\ a <= c /\ c < a + z[a]
    BY <1>1, <1>a
  <2>2. c \in Cells
    BY <1>1, <2>1, TileWords
  <2>3. CASE a = h
    BY <2>2, <2>3
  <2>4. CASE a # h
    <3>1. ~(h <= c /\ c < h + z[h])
      BY <1>1, <2>1, <2>4, TilesApart
    <3> QED
      BY <2>2, <3>1
  <2> QED
    BY <2>3, <2>4
<1>5. \A c \in Cells : c <= 6 => o[c] = m[c]
  <2> SUFFICES ASSUME NEW c \in Cells, c <= 6, o[c] # m[c] PROVE FALSE
    OBVIOUS
  <2>1. h <= c /\ 6 < h /\ c \in Nat /\ h \in Nat
    BY <1>a, CellsFact
  <2> QED
    BY <2>1
<1>6. Walk(o, w, n)
  BY <1>1, <1>4, <1>5, WalkKept
<1> QED
  BY <1>3, <1>6 DEF Chunks

(* Cutting a chunk in hand: both parts are in hand.                        *)
LEMMA SplitInHand ==
  ASSUME NEW m, NEW A, NEW z, NEW U, NEW V, NEW F, NEW w, NEW n, NEW G, NEW K, NEW a,
         InHand(m, A, z, U, V, F, w, n, G, K, a),
         NEW s \in Nat, 4 <= s, s + 4 <= z[a], NEW y, y = Halved(z, a, s)
  PROVE  /\ Chunks(m, A \cup {a + s}, y, U, V, F, w, n, G, K)
         /\ a + s \notin A
         /\ Same(z, y, A \ {a})
<1>0. /\ Chunks(m, A, z, U, V, F, w, n, G, K)
      /\ a \in A /\ a \notin V /\ a \notin ListOf(w, n)
      /\ y = [z EXCEPT ![a] = s, ![a + s] = z[a] - s]
  BY DEF InHand, Halved
<1>1. /\ Ranges(G) /\ Tiles(A, z, G) /\ V \subseteq A /\ F \subseteq A /\ U \subseteq A
      /\ ListOf(w, n) \subseteq A /\ a \notin F
      /\ \A b \in V : UsedOK(m, z, U, G, b)
      /\ \A b \in F : FreeOK(m, z, U, G, b)
      /\ Private(K, A, z, V)
  BY <1>0 DEF Chunks
<1>2. Tiles(A \cup {a + s}, y, G) /\ a + s \notin A
  BY <1>0, <1>1, TilesSplit
<1>3. /\ a \in Nat /\ z[a] \in Nat /\ z \in [Nat -> Nat] /\ A \subseteq Nat
      /\ a + s # a /\ a + s \in Nat /\ z[a] - s \in Nat
  BY <1>0, <1>1 DEF Tiles
<1>4. /\ y[a] = s /\ y[a + s] = z[a] - s
      /\ \A b \in A \ {a} : y[b] = z[b]
  BY <1>0, <1>2, <1>3
<1>5. \A b \in V \cup F : y[b] = z[b]
  BY <1>0, <1>1, <1>4
<1>6. ASSUME NEW b \in V PROVE UsedOK(m, y, U, G, b)
  BY <1>1, <1>5 DEF UsedOK
<1>7. ASSUME NEW b \in F PROVE FreeOK(m, y, U, G, b)
  BY <1>1, <1>5 DEF FreeOK
<1>8. Private(K, A \cup {a + s}, y, V)
  <2> SUFFICES ASSUME NEW c \in K, NEW b \in A \cup {a + s}, b <= c, c < b + y[b]
               PROVE  b \in V /\ c < b + y[b] - 1
    BY <1>1 DEF Private
  <2>0. c \in Nat
    BY <1>1, CellsFact DEF Private
  <2>1. CASE b \in A /\ b # a
    BY <1>1, <1>4, <2>1 DEF Private
  <2>2. CASE b = a \/ b = a + s
    <3>1. a <= c /\ c < a + z[a]
      BY <1>3, <1>4, <2>0, <2>2
    <3> QED
      BY <1>0, <1>1, <3>1 DEF Private
  <2> QED
    BY <2>1, <2>2
<1> QED
  BY <1>0, <1>1, <1>2, <1>4, <1>6, <1>7, <1>8 DEF Chunks, Same

(* Joining two chunks in hand, of which the first may be on the list.      *)
LEMMA MergeInHand ==
  ASSUME NEW m, NEW A, NEW z, NEW U, NEW V, NEW F, NEW w, NEW n, NEW G, NEW K,
         Chunks(m, A, z, U, V, F, w, n, G, K),
         NEW a \in A, a \notin V, a \notin F,
         NEW b \in A, b \notin U, b \notin V, b \notin ListOf(w, n),
         b = a + z[a], \A g \in G : b # StartOf(g),
         NEW y, y = Joined(z, a, b)
  PROVE  /\ Chunks(m, A \ {b}, y, U, V, F, w, n, G, K)
         /\ Same(z, y, A \ {a})
<1>1. /\ Ranges(G) /\ Tiles(A, z, G) /\ V \subseteq A /\ F \subseteq ListOf(w, n)
      /\ U \subseteq A /\ ListOf(w, n) \subseteq A /\ F \subseteq A
      /\ \A c \in V : UsedOK(m, z, U, G, c)
      /\ \A c \in F : FreeOK(m, z, U, G, c)
      /\ Private(K, A, z, V)
  BY DEF Chunks
<1>2. Tiles(A \ {b}, y, G)
  BY <1>1, TilesMerge DEF Joined
<1>3. z \in [Nat -> Nat] /\ A \subseteq Nat
  BY <1>1 DEF Tiles
<1>4. y[a] = z[a] + z[b] /\ \A c \in A \ {a} : y[c] = z[c]
  BY <1>3 DEF Joined
<1>5. \A c \in V \cup F : y[c] = z[c]
  BY <1>1, <1>4
<1>6. ASSUME NEW c \in V PROVE UsedOK(m, y, U, G, c)
  BY <1>1, <1>5 DEF UsedOK
<1>7. ASSUME NEW c \in F PROVE FreeOK(m, y, U, G, c)
  BY <1>1, <1>5 DEF FreeOK
<1>8. Private(K, A \ {b}, y, V)
  <2> SUFFICES ASSUME NEW c \in K, NEW d \in A \ {b}, d <= c, c < d + y[d]
               PROVE  d \in V /\ c < d + y[d] - 1
    BY <1>1 DEF Private
  <2>0. c \in Nat
    BY <1>1, CellsFact DEF Private
  <2>1. CASE d # a
    BY <1>1, <1>4, <2>1 DEF Private
  <2>2. CASE d = a
    <3>1. (a <= c /\ c < a + z[a]) \/ (b <= c /\ c < b + z[b])
      BY <1>3, <1>4, <2>0, <2>2
    <3> QED
      BY <1>1, <3>1 DEF Private
  <2> QED
    BY <2>1, <2>2
<1> QED
  BY <1>1, <1>2, <1>4, <1>6, <1>7, <1>8 DEF Chunks, Same

(* A chunk in hand with the right tag is one in use.                       *)
LEMMA AdmitUsed ==
  ASSUME NEW m, NEW A, NEW z, NEW U, NEW V, NEW F, NEW w, NEW n, NEW G, NEW K,
         Chunks(m, A, z, U, V, F, w, n, G, K),
         NEW f \in A, f \notin ListOf(w, n), UsedOK(m, z, U, G, f)
  PROVE  Chunks(m, A, z, U, V \cup {f}, F, w, n, G, K)
BY DEF Chunks, Private

(* One on the list with the right tag is a free one.                       *)
LEMMA AdmitFree ==
  ASSUME NEW m, NEW A, NEW z, NEW U, NEW V, NEW F, NEW w, NEW n, NEW G, NEW K,
         Chunks(m, A, z, U, V, F, w, n, G, K),
         NEW f \in ListOf(w, n), FreeOK(m, z, U, G, f)
  PROVE  Chunks(m, A, z, U, V, F \cup {f}, w, n, G, K)
BY DEF Chunks

(* The chunks at rest: U in use, all the others on the list.               *)
Heap(m, A, z, U, w, n, G, K) == Chunks(m, A, z, U, U, A \ U, w, n, G, K)

(* While f, which is not in use, is in hand.                               *)
Held(m, A, z, U, w, n, G, K, f) ==
  /\ Chunks(m, A, z, U, U, A \ (U \cup {f}), w, n, G, K)
  /\ f \in A /\ f \notin U /\ f \notin ListOf(w, n)

(* Chunk f is in hand, and sz words may be cut off it.                     *)
Carvable(m, A, z, U, w, n, G, K, f, sz) ==
  /\ Held(m, A, z, U, w, n, G, K, f) /\ m[f] = z[f]
  /\ PageFirst(f) => \E g \in G : f = StartOf(g)
  /\ \E g \in G : f + z[f] = EndOf(g)
  /\ 4 <= sz /\ sz <= z[f] /\ z[f] - sz \notin 1 .. 3

(* They were: f is in use.                                                 *)
Carved(m, o, z, U, G, K, f, sz) ==
  /\ Same(m, o, K)
  /\ \E B, y, v, p : /\ Heap(o, B, y, U \cup {f}, v, p, G, K)
                     /\ y[f] = sz /\ Same(z, y, U)

(* What alloc does to a chunk f that ends a mapping: the chunk is in use,  *)
(* the rest of it free.                                                    *)
LEMMA CarveFact ==
  ASSUME NEW m, NEW A, NEW z, NEW U, NEW w, NEW n, NEW G, NEW K, NEW f, NEW sz \in Nat,
         Carvable(m, A, z, U, w, n, G, K, f, sz), NEW o, o = Carve(m, f, sz)
  PROVE  Carved(m, o, z, U, G, K, f, sz)
<1>0. /\ Held(m, A, z, U, w, n, G, K, f) /\ m[f] = z[f]
      /\ PageFirst(f) => \E g \in G : f = StartOf(g)
      /\ \E g \in G : f + z[f] = EndOf(g)
      /\ 4 <= sz /\ sz <= z[f] /\ z[f] - sz \notin 1 .. 3
  BY DEF Carvable
<1> USE <1>0
<1>1. /\ Chunks(m, A, z, U, U, A \ (U \cup {f}), w, n, G, K)
      /\ f \in A /\ f \notin U /\ f \notin ListOf(w, n)
      /\ m \in [Cells -> Words] /\ Ranges(G) /\ Tiles(A, z, G) /\ U \subseteq A /\ n \in Nat
  BY DEF Held, Chunks
<1>2. PICK x \in Nat, l \in Nat : x = f /\ l = z[f] /\ 4 <= l /\ sz <= l
  BY <1>1, TileWords
<1>3. PICK T \in Nat : T = THIS_ALLOCATED_BIT /\ l < T
  BY <1>1, <1>2, TileWords, HeapAssumption
<1>4. PICK d \in Nat : d = x + sz - 1 /\ x < d /\ d < x + l
  BY <1>2
<1>5. d \in Cells /\ x \in Cells
  BY <1>1, <1>2, <1>4, TileWords
<1>6. PICK tag \in Words : tag = sz + T
  BY <1>2, <1>3 DEF Words, NEXT_ALLOCATED_BIT
<1>7. PICK m1 \in [Cells -> Words] : m1 = [m EXCEPT ![d] = tag]
  BY <1>1, <1>6
<1>8. /\ m1[d] = tag /\ m1[x] = l /\ \A c \in Cells : c # d => m1[c] = m[c]
  BY <1>1, <1>2, <1>4, <1>5, <1>7
<1>9. o = MarkPrev(Split(m1, f, sz), f)
  BY <1>2, <1>3, <1>4, <1>6, <1>7 DEF Carve
<1>10. PICK g \in G : f + z[f] = EndOf(g) /\ PageLast(f + z[f])
  BY DEF Ranges, Held, Chunks
<1>11. tag # sz + 3 * T
  <2>1. T > 0
    BY <1>2, <1>3
  <2> QED
    BY <1>6, <2>1
<1>12. CASE l = sz
  <2>1. Split(m1, f, sz) = m1
    BY <1>2, <1>8, <1>12 DEF Split
  <2>2. \A c \in Cells : m1[c] # m[c] => f <= c /\ c < f + z[f]
    BY <1>2, <1>4, <1>8
  <2>3. /\ Chunks(m1, A, z, U, U, A \ (U \cup {f}), w, n, G, K)
        /\ \A c \in K : m1[c] = m[c]
    BY <1>1, <2>2, Poke
  <2>4. UsedOK(m1, z, U, G, f)
    <3>1. m1[f + z[f] - 1] = z[f] + THIS_ALLOCATED_BIT
      BY <1>2, <1>3, <1>4, <1>6, <1>8, <1>12
    <3> QED
      BY <1>10, <3>1 DEF UsedOK
  <2>5. Chunks(m1, A, z, U, U \cup {f}, A \ (U \cup {f}), w, n, G, K)
    BY <1>1, <2>3, <2>4, AdmitUsed
  <2>6. /\ Chunks(o, A, z, U \cup {f}, U \cup {f}, A \ (U \cup {f}), w, n, G, K)
        /\ \A c \in K : o[c] = m1[c]
    BY <1>1, <1>9, <2>1, <2>5, Believe
  <2>7. Heap(o, A, z, U \cup {f}, w, n, G, K)
    BY <2>6 DEF Heap
  <2> QED
    BY <1>2, <1>12, <2>3, <2>6, <2>7 DEF Carved, Same
<1>13. CASE l # sz
  <2>1. sz + 4 <= l
    BY <1>2, <1>13
  <2>2. PICK y : y = Halved(z, f, sz)
    OBVIOUS
  <2>3. PICK b \in Nat : b = x + sz /\ f + sz = b /\ b # x /\ b # d /\ b < x + l
    BY <1>2, <1>4, <2>1
  <2>3a. /\ f \notin A \ (U \cup {f}) /\ sz + 4 <= z[f]
         /\ InHand(m, A, z, U, U, A \ (U \cup {f}), w, n, G, K, f)
    BY <1>1, <1>2, <2>1 DEF InHand
  <2>3b. /\ Chunks(m, A \cup {f + sz}, y, U, U, A \ (U \cup {f}), w, n, G, K)
         /\ f + sz \notin A /\ y[f] = sz /\ y[f + sz] = z[f] - sz
         /\ Same(z, y, A \ {f})
    <3>1. Chunks(m, A \cup {f + sz}, y, U, U, A \ (U \cup {f}), w, n, G, K)
      BY <2>2, <2>3a, SplitInHand
    <3>2. f + sz \notin A
      BY <2>2, <2>3a, SplitInHand
    <3>0. z \in [Nat -> Nat] /\ f \in Nat /\ f + sz \in Nat /\ f # f + sz /\ z[f] - sz \in Nat
      BY <1>1, <1>2, <2>3 DEF Tiles
    <3>3. y[f] = sz
      BY <2>2, <3>0 DEF Halved
    <3>5. y[f + sz] = z[f] - sz
      BY <2>2, <3>0 DEF Halved
    <3>4. Same(z, y, A \ {f})
      BY <2>2, <2>3a, SplitInHand
    <3> QED
      BY <3>1, <3>2, <3>3, <3>4, <3>5
  <2>4. /\ Chunks(m, A \cup {b}, y, U, U, A \ (U \cup {f}), w, n, G, K)
        /\ b \notin A /\ y[f] = sz /\ y[b] = l - sz
        /\ \A a \in A \ {f} : y[a] = z[a]
    BY <1>2, <2>3, <2>3b DEF Same
  <2>5. b \in Cells
    BY <1>1, <1>2, <2>3, TileWords
  <2>6. \A c \in Cells : m1[c] # m[c] => f <= c /\ c < f + y[f]
    BY <1>2, <1>4, <1>8, <2>4
  <2>7. f \in A \cup {b} /\ b \in A \cup {b} /\ b \notin U /\ b \notin ListOf(w, n) /\ f # b
    BY <1>1, <2>4 DEF Chunks
  <2>8. /\ Chunks(m1, A \cup {b}, y, U, U, A \ (U \cup {f}), w, n, G, K)
        /\ \A c \in K : m1[c] = m[c]
    BY <1>1, <2>4, <2>6, <2>7, Poke
  <2>9. PICK k \in Nat : k = l - sz /\ k \in Words
    BY <1>2, <1>3, <2>1 DEF Words, NEXT_ALLOCATED_BIT
  <2>10. PICK m2 \in [Cells -> Words] : m2 = [m1 EXCEPT ![b] = k]
    BY <2>9
  <2>11. m2[b] = k /\ m2[d] = tag /\ \A c \in Cells : c # b => m2[c] = m1[c]
    BY <1>5, <1>8, <2>3, <2>5, <2>10
  <2>12. \A c \in Cells : m2[c] # m1[c] => b <= c /\ c < b + y[b]
    BY <1>2, <2>1, <2>3, <2>4, <2>11
  <2>13. b \notin A \ (U \cup {f})
    BY <2>4
  <2>14. /\ Chunks(m2, A \cup {b}, y, U, U, A \ (U \cup {f}), w, n, G, K)
         /\ \A c \in K : m2[c] = m1[c]
    BY <2>7, <2>8, <2>12, <2>13, Poke
  <2>15. b + y[b] = EndOf(g) /\ PageLast(b + y[b])
    BY <1>2, <1>10, <2>1, <2>3, <2>4
  <2>16. FreeOK(m2, y, U, G, b)
    BY <1>10, <2>4, <2>9, <2>11, <2>15 DEF FreeOK
  <2>17. PICK m3 : m3 = add_free(m2, b)
    OBVIOUS
  <2>18. Split(m1, f, sz) = m3
    BY <1>2, <1>8, <1>13, <2>3, <2>9, <2>10, <2>17 DEF Split
  <2>19. /\ Chunks(m3, A \cup {b}, y, U, U, (A \ (U \cup {f})) \cup {b},
                   Put(w, n, b), n + 1, G, K)
         /\ ListOf(Put(w, n, b), n + 1) = ListOf(w, n) \cup {b}
         /\ \A c \in K : m3[c] = m2[c]
         /\ SameButLinks(m2, m3, ListOf(w, n) \cup {b})
    <3>1. InHand(m2, A \cup {b}, y, U, U, A \ (U \cup {f}), w, n, G, K, b)
      BY <2>7, <2>14 DEF InHand
    <3>2. Returned(m2, m3, A \cup {b}, y, U, U, A \ (U \cup {f}), w, n, G, K, b)
      BY <2>16, <2>17, <3>1, Return
    <3> QED
      BY <3>2 DEF Returned, Same
  <2>20. m3[d] = tag
    <3>1. f <= d /\ d < f + y[f]
      BY <1>2, <1>4, <2>3, <2>4
    <3>0. /\ Tiles(A \cup {b}, y, G) /\ Ranges(G) /\ ListOf(w, n) \cup {b} \subseteq A \cup {b}
          /\ f \notin ListOf(w, n) \cup {b}
      BY <1>1, <2>7, <2>14 DEF Chunks
    <3>2. m3[d] = m2[d]
      BY <2>7, <2>19, <3>0, <3>1, NotALink
    <3> QED
      BY <2>11, <3>2
  <2>21. UsedOK(m3, y, U, G, f)
    <3>1. f + y[f] - 1 = d /\ f + y[f] = b
      BY <1>2, <1>4, <2>3, <2>4
    <3>2. m3[f + y[f] - 1] = y[f] + THIS_ALLOCATED_BIT
      BY <1>3, <1>6, <2>4, <2>20, <3>1
    <3>3. m3[f + y[f] - 1] # y[f] + 3 * THIS_ALLOCATED_BIT
      BY <1>3, <1>11, <2>4, <2>20, <3>1
    <3> QED
      BY <2>7, <3>1, <3>2, <3>3 DEF UsedOK
  <2>22. f \notin ListOf(Put(w, n, b), n + 1)
    BY <1>1, <2>7, <2>19
  <2>23. Chunks(m3, A \cup {b}, y, U, U \cup {f}, (A \ (U \cup {f})) \cup {b},
                Put(w, n, b), n + 1, G, K)
    BY <2>7, <2>19, <2>21, <2>22, AdmitUsed
  <2>24. /\ Chunks(o, A \cup {b}, y, U \cup {f}, U \cup {f}, (A \ (U \cup {f})) \cup {b},
                   Put(w, n, b), n + 1, G, K)
         /\ \A c \in K : o[c] = m3[c]
    BY <1>1, <1>9, <2>7, <2>18, <2>23, Believe
  <2>25. (A \ (U \cup {f})) \cup {b} = (A \cup {b}) \ (U \cup {f})
    BY <2>7
  <2>26. Heap(o, A \cup {b}, y, U \cup {f}, Put(w, n, b), n + 1, G, K)
    BY <2>24, <2>25 DEF Heap
  <2>27. \A c \in K : o[c] = m[c]
    BY <2>8, <2>14, <2>19, <2>24
  <2>28. y[f] = sz /\ \A a \in U : y[a] = z[a]
    BY <1>1, <2>4
  <2> QED
    BY <2>26, <2>27, <2>28 DEF Carved, Same
<1> QED
  BY <1>12, <1>13

-----------------------------------------------------------------------------
(* Freeing the chunk p.                                                    *)

(* It still counts as in use, and is not on the list, but is in hand.      *)
Opened(m, A, z, U, w, n, G, K, p) ==
  /\ Chunks(m, A, z, U, U \ {p}, A \ U, w, n, G, K)
  /\ p \in U /\ p \notin ListOf(w, n)
  /\ PageFirst(p) => \E g \in G : p = StartOf(g)

(* What Behind has done: p is tagged as a free chunk, grown perhaps.       *)
BehindDone(m, o, z, U, G, K, p) ==
  /\ Same(m, o, K)
  /\ \E B, y, v, q : /\ Opened(o, B, y, U, v, q, G, K, p) /\ FreeOK(o, y, U, G, p)
                     /\ Same(z, y, U \ {p})

(* The chunk behind, if it is free, joins p; the tag of p is that of a     *)
(* free chunk then, or p ends a page and keeps the tag of one in use.      *)
LEMMA BehindFact ==
  ASSUME NEW m, NEW A, NEW z, NEW U, NEW w, NEW n, NEW G, NEW K, NEW p,
         Opened(m, A, z, U, w, n, G, K, p), UsedOK(m, z, U, G, p),
         NEW o, o = Behind(m, p, z[p])
  PROVE  BehindDone(m, o, z, U, G, K, p)
<1>1. /\ Chunks(m, A, z, U, U \ {p}, A \ U, w, n, G, K)
      /\ p \in A /\ p \in U /\ p \notin ListOf(w, n) /\ p \notin U \ {p} /\ p \notin A \ U
      /\ m \in [Cells -> Words] /\ Ranges(G) /\ Tiles(A, z, G) /\ U \subseteq A /\ n \in Nat
      /\ ListOf(w, n) \subseteq A /\ A \ U \subseteq ListOf(w, n)
      /\ PageFirst(p) => \E g \in G : p = StartOf(g)
  BY DEF Opened, Chunks
<1>2. PICK x \in Nat, l \in Nat : x = p /\ l = z[p] /\ 4 <= l
  BY <1>1, TileWords
<1>3. PICK T \in Nat : T = THIS_ALLOCATED_BIT /\ x + l < T /\ l < T
  BY <1>1, <1>2, TileWords, HeapAssumption
<1>4. PICK d \in Nat : d = x + l - 1 /\ x < d /\ d < x + l
  BY <1>2
<1>5. d \in Cells /\ x \in Cells
  BY <1>1, <1>2, <1>4, TileWords
<1>6. PICK h \in Words : h = l /\ l \in Words
  BY <1>2, <1>3 DEF Words, NEXT_ALLOCATED_BIT
<1>7. PICK m0 \in [Cells -> Words] : m0 = [m EXCEPT ![p] = h]
  BY <1>1
<1>8. m0[x] = l /\ \A c \in Cells : c # x => m0[c] = m[c]
  BY <1>2, <1>5, <1>6, <1>7
<1>9. m[d] \in {l + T, l + 3 * T}
  BY <1>2, <1>3, <1>4 DEF UsedOK
<1>10. /\ ThisBit(l + T) /\ ThisBit(l + 3 * T) /\ ~NextBit(l + T) /\ NextBit(l + 3 * T)
  BY <1>3, TagBits
<1>11. CASE PageLast(p + z[p])
  <2>1. o = m0
    BY <1>2, <1>6, <1>7, <1>11 DEF Behind
  <2>2. \A c \in Cells : o[c] # m[c] => p <= c /\ c < p + z[p]
    BY <1>2, <1>8, <2>1
  <2>3. Chunks(o, A, z, U, U \ {p}, A \ U, w, n, G, K) /\ Same(m, o, K)
    BY <1>1, <2>1, <2>2, Poke DEF Same
  <2>4. FreeOK(o, z, U, G, p)
    <3>1. p + z[p] - 1 = d /\ ThisBit(o[d]) /\ o[p] = z[p]
      BY <1>2, <1>4, <1>5, <1>8, <1>9, <1>10, <2>1
    <3> QED
      BY <1>11, <3>1 DEF FreeOK
  <2>5. Opened(o, A, z, U, w, n, G, K, p)
    BY <1>1, <2>3 DEF Opened
  <2>6. Same(z, z, U \ {p})
    BY DEF Same
  <2> QED
    BY <2>3, <2>4, <2>5, <2>6 DEF BehindDone
<1>12. CASE ~PageLast(p + z[p]) /\ NextBit(m[d])
  <2>1. m[d] = l + 3 * T /\ p + z[p] \in U
    BY <1>2, <1>3, <1>4, <1>9, <1>10, <1>12 DEF UsedOK
  <2>2. PICK tag \in Words : tag = l + 2 * T
    BY <1>2, <1>3 DEF Words, NEXT_ALLOCATED_BIT
  <2>3. o = [m0 EXCEPT ![d] = tag]
    <3>1. p + z[p] - 1 = d /\ z[p] + NEXT_ALLOCATED_BIT = tag /\ z[p] = h
      BY <1>2, <1>3, <1>4, <1>6, <2>2 DEF NEXT_ALLOCATED_BIT
    <3> QED
      BY <1>7, <1>12, <3>1 DEF Behind
  <2>4. /\ o \in [Cells -> Words] /\ o[d] = tag /\ o[x] = l
        /\ \A c \in Cells : c # x /\ c # d => o[c] = m[c]
    BY <1>4, <1>5, <1>8, <2>3
  <2>5. \A c \in Cells : o[c] # m[c] => p <= c /\ c < p + z[p]
    BY <1>2, <1>4, <2>4
  <2>6. Chunks(o, A, z, U, U \ {p}, A \ U, w, n, G, K) /\ Same(m, o, K)
    BY <1>1, <2>4, <2>5, Poke DEF Same
  <2>7. FreeOK(o, z, U, G, p)
    <3>1. p + z[p] - 1 = d /\ o[d] = z[p] + 2 * THIS_ALLOCATED_BIT /\ o[p] = z[p]
      BY <1>2, <1>3, <1>4, <2>2, <2>4
    <3> QED
      BY <2>1, <3>1 DEF FreeOK
  <2>8. Opened(o, A, z, U, w, n, G, K, p)
    BY <1>1, <2>6 DEF Opened
  <2>9. Same(z, z, U \ {p})
    BY DEF Same
  <2> QED
    BY <2>6, <2>7, <2>8, <2>9 DEF BehindDone
<1>13. CASE ~PageLast(p + z[p]) /\ ~NextBit(m[d])
  <2>1. m[d] = l + T
    BY <1>9, <1>10, <1>13
  <2>2. p + z[p] \notin U
    <3>1. l + T # l + 3 * T
      BY <1>3
    <3> QED
      BY <1>2, <1>3, <1>4, <1>13, <2>1, <3>1 DEF UsedOK
  <2>3. PICK e \in A : e = p + z[p] /\ e = x + l
    <3>1. \A g \in G : p + z[p] # EndOf(g)
      BY <1>1, <1>13 DEF Ranges
    <3> QED
      BY <1>1, <1>2, <3>1, TileBehind
  <2>4. e \in A \ U /\ e \in ListOf(w, n) /\ e \notin U
    BY <1>1, <2>2, <2>3
  <2>5. FreeOK(m, z, U, G, e)
    BY <1>1, <2>4 DEF Chunks
  <2>6. PICK k \in 1 .. n : w[k] = e
    BY <2>4 DEF ListOf
  <2>7. PICK m1 : m1 = del_free(m, e)
    OBVIOUS
  <2>8. Grabbed(m, m1, A, z, U, U \ {p}, A \ U, w, n, G, K, k)
    BY <1>1, <2>6, <2>7, Grab
  <2>9. PICK v : v = Cut(w, n, k)
    OBVIOUS
  <2>10. PICK q : q = n - 1
    OBVIOUS
  <2>11. /\ Chunks(m1, A, z, U, U \ {p}, (A \ U) \ {e}, v, q, G, K)
         /\ ListOf(v, q) = ListOf(w, n) \ {e}
         /\ Same(m, m1, K) /\ m1[e] = m[e]
    BY <2>6, <2>8, <2>9, <2>10 DEF Grabbed
  <2>12. PICK j \in Nat : j = z[e] /\ 4 <= j /\ e + j < T
    BY <1>1, <1>3, TileWords
  <2>13. m1[e] = j /\ m1 \in [Cells -> Words]
    BY <2>5, <2>11, <2>12 DEF FreeOK, Chunks
  <2>14. PICK y : y = Joined(z, p, e)
    OBVIOUS
  <2>15. \A g \in G : e # StartOf(g)
    BY <1>1, <2>3, TileFirst
  <2>16. /\ Chunks(m1, A \ {e}, y, U, U \ {p}, (A \ U) \ {e}, v, q, G, K)
         /\ Same(z, y, A \ {p})
    <3>1. /\ p \notin U \ {p} /\ p \notin (A \ U) \ {e} /\ e \notin U \ {p}
          /\ e \notin ListOf(v, q)
      BY <1>1, <2>4, <2>11
    <3> QED
      BY <1>1, <2>3, <2>4, <2>11, <2>14, <2>15, <3>1, MergeInHand
  <2>17. y[p] = l + j
    BY <1>1, <1>2, <2>12, <2>14 DEF Joined, Tiles
  <2>18. PICK all \in Words : all = l + j /\ all \in Nat /\ all < T
    BY <1>2, <1>3, <2>3, <2>12 DEF Words, NEXT_ALLOCATED_BIT
  <2>19. PICK tag \in Words : tag = all + 2 * T
    BY <1>3, <2>18 DEF Words, NEXT_ALLOCATED_BIT
  <2>20. PICK t \in Nat : t = x + all - 1 /\ x < t /\ t < x + all /\ t = e + j - 1
    BY <1>2, <2>3, <2>12, <2>18
  <2>21. t \in Cells
    BY <1>1, <2>12, <2>20, TileWords
  <2>22. o = [m1 EXCEPT ![p] = all, ![t] = tag]
    <3>1. z[p] + m1[p + z[p]] = all /\ p + all - 1 = t /\ all + NEXT_ALLOCATED_BIT = tag
      BY <1>2, <1>3, <2>3, <2>13, <2>18, <2>19, <2>20 DEF NEXT_ALLOCATED_BIT
    <3>2. o = MergeNext(m, p, z[p])
      BY <1>2, <1>4, <1>13 DEF Behind
    <3>3. del_free(m, p + z[p]) = m1
      BY <2>3, <2>7
    <3> QED
      BY <3>1, <3>2, <3>3 DEF MergeNext
  <2>23. /\ o \in [Cells -> Words] /\ o[t] = tag /\ o[x] = all
         /\ \A c \in Cells : c # x /\ c # t => o[c] = m1[c]
    BY <1>2, <1>5, <2>13, <2>20, <2>21, <2>22
  <2>24. \A c \in Cells : o[c] # m1[c] => p <= c /\ c < p + y[p]
    BY <1>2, <2>17, <2>18, <2>20, <2>23
  <2>25. /\ Chunks(o, A \ {e}, y, U, U \ {p}, (A \ U) \ {e}, v, q, G, K)
         /\ Same(m1, o, K)
    <3>1. p \in A \ {e} /\ p \notin U \ {p} /\ p \notin (A \ U) \ {e} /\ p \notin ListOf(v, q)
      BY <1>1, <2>4, <2>11
    <3> QED
      BY <2>16, <2>23, <2>24, <3>1, Poke DEF Same
  <2>26. FreeOK(o, y, U, G, p)
    <3>1. p + y[p] - 1 = t /\ o[t] = y[p] + 2 * THIS_ALLOCATED_BIT /\ o[p] = y[p]
      BY <1>2, <1>3, <2>17, <2>18, <2>19, <2>20, <2>23
    <3>2. p + y[p] = e + z[e]
      BY <1>2, <2>3, <2>12, <2>17
    <3>3. ~PageLast(p + y[p]) => p + y[p] \in U
      BY <2>5, <3>2 DEF FreeOK
    <3> QED
      BY <3>1, <3>3 DEF FreeOK
  <2>27. (A \ U) \ {e} = (A \ {e}) \ U
    OBVIOUS
  <2>28. Opened(o, A \ {e}, y, U, v, q, G, K, p)
    BY <1>1, <2>11, <2>25, <2>27 DEF Opened
  <2>29. Same(m, o, K) /\ Same(z, y, U \ {p})
    BY <1>1, <2>11, <2>16, <2>25 DEF Same
  <2> QED
    BY <2>26, <2>28, <2>29 DEF BehindDone
<1> QED
  BY <1>11, <1>12, <1>13

(* The links of a chunk on the list lead to chunks or sentinels.           *)
LEMMA LinkedFact ==
  ASSUME NEW m, NEW w, NEW n, Walk(m, w, n), NEW i \in 1 .. n
  PROVE  Linked(m, w[i])
<1>1. Apart(w, n) /\ n \in Nat /\ w \in [0 .. n + 1 -> Nat]
  BY DEF Walk, Apart
<1>2. i \in 0 .. n + 1 /\ i - 1 \in 0 .. n /\ i \in 0 .. n /\ i - 1 \in 0 .. n + 1
      /\ i + 1 \in 0 .. n + 1 /\ (i - 1) + 1 = i /\ 0 \in 0 .. n + 1
  BY <1>1
<1>3. PICK a \in Nat, f \in Nat, b \in Nat : a = w[i - 1] /\ f = w[i] /\ b = w[i + 1]
  BY <1>1, <1>2
<1>4. m[next(a)] = f /\ m[prev(f)] = a
  BY <1>2, <1>3 DEF Walk
<1>5. m[next(f)] = b /\ m[prev(b)] = f
  BY <1>2, <1>3 DEF Walk
<1>6. a + 1 \in Cells /\ f + 2 \in Cells /\ b + 2 \in Cells
  BY <1>1, <1>2, <1>3 DEF Apart
<1>7. w[0] = 1
  BY <1>1 DEF Apart, free_head
<1>8. ASSUME NEW j \in 0 .. n + 1 PROVE w[j] # 0
  <2>1. CASE j = 0
    BY <1>7, <2>1
  <2>2. CASE j # 0
    <3>1. w[j] \in Nat /\ (w[j] + 2 < w[0] \/ w[0] + 2 < w[j])
      BY <1>1, <1>2, <2>2 DEF Apart
    <3> QED
      BY <1>7, <3>1
  <2> QED
    BY <2>1, <2>2
<1>9. a # 0 /\ b # 0
  BY <1>2, <1>3, <1>8
<1> QED
  BY <1>3, <1>4, <1>5, <1>6, <1>9 DEF Linked, next, prev

(* What Behind asserts and follows is there.                               *)
LEMMA BehindSound ==
  ASSUME NEW m, NEW A, NEW z, NEW U, NEW w, NEW n, NEW G, NEW K, NEW p,
         Opened(m, A, z, U, w, n, G, K, p), UsedOK(m, z, U, G, p)
  PROVE  BehindSane(m, p, z[p])
<1>1. /\ Chunks(m, A, z, U, U \ {p}, A \ U, w, n, G, K)
      /\ p \in A /\ p \in U /\ Ranges(G) /\ Tiles(A, z, G) /\ U \subseteq A
      /\ n \in Nat /\ Walk(m, w, n) /\ A \ U \subseteq ListOf(w, n)
  BY DEF Opened, Chunks
<1>2. PICK x \in Nat, l \in Nat : x = p /\ l = z[p] /\ 4 <= l
  BY <1>1, TileWords
<1>3. PICK T \in Nat : T = THIS_ALLOCATED_BIT /\ x + l < T /\ l < T
  BY <1>1, <1>2, TileWords, HeapAssumption
<1>4. PICK d \in Nat : d = x + l - 1
  BY <1>2
<1>5. m[d] \in {l + T, l + 3 * T}
  BY <1>2, <1>3, <1>4 DEF UsedOK
<1>6. ~NextBit(l + T) /\ NextBit(l + 3 * T) /\ SizeOf(l + T) = l /\ SizeOf(l + 3 * T) = l
  BY <1>3, TagBits
<1>7. TagAsserted(m, p, z[p])
  <2>1. p + z[p] - 1 = d
    BY <1>2, <1>4
  <2> QED
    BY <1>2, <1>5, <1>6, <2>1 DEF TagAsserted
<1>8. ASSUME ~PageLast(p + z[p]), ~NextBit(m[d])
      PROVE  /\ Linked(m, p + z[p])
             /\ p + z[p] + del_free(m, p + z[p])[p + z[p]] - 1 \in Cells
  <2>1. m[d] = l + T
    BY <1>5, <1>6, <1>8
  <2>2. p + z[p] \notin U
    <3>1. l + T # l + 3 * T
      BY <1>3, HeapAssumption
    <3> QED
      BY <1>2, <1>3, <1>4, <1>8, <2>1, <3>1 DEF UsedOK
  <2>3. PICK e \in A : e = p + z[p]
    <3>1. \A g \in G : p + z[p] # EndOf(g)
      BY <1>1, <1>8 DEF Ranges
    <3> QED
      BY <1>1, <3>1, TileBehind
  <2>4. e \in A \ U /\ e \in ListOf(w, n)
    BY <1>1, <2>2, <2>3
  <2>5. FreeOK(m, z, U, G, e)
    BY <1>1, <2>4 DEF Chunks
  <2>6. PICK k \in 1 .. n : w[k] = e
    BY <2>4 DEF ListOf
  <2>7. Linked(m, e)
    BY <1>1, <2>6, LinkedFact
  <2>8. PICK m1 : m1 = del_free(m, e)
    OBVIOUS
  <2>9. Grabbed(m, m1, A, z, U, U \ {p}, A \ U, w, n, G, K, k)
    BY <1>1, <2>6, <2>8, Grab
  <2>10. PICK i \in Nat, j \in Nat : i = e /\ j = z[e] /\ 4 <= j
    BY <1>1, TileWords
  <2>11. m1[e] = j
    BY <2>5, <2>6, <2>9, <2>10 DEF FreeOK, Grabbed
  <2>12. i + j - 1 \in Cells
    <3>1. PICK c \in Nat : c = i + j - 1 /\ c < e + z[e]
      BY <2>10
    <3> QED
      BY <1>1, <3>1, TileWords
  <2>13. p + z[p] + del_free(m, p + z[p])[p + z[p]] - 1 = i + j - 1
    BY <2>3, <2>8, <2>10, <2>11
  <2> QED
    BY <2>3, <2>7, <2>12, <2>13
<1>9. p + z[p] - 1 = d
  BY <1>2, <1>4
<1> QED
  BY <1>7, <1>8, <1>9 DEF BehindSane

(* No chunk begins where a mapping ends.                                   *)
LEMMA NotAtEnd ==
  ASSUME NEW A, NEW z, NEW G, Ranges(G), Tiles(A, z, G), NEW a \in A, NEW g \in G
  PROVE  a # EndOf(g)
<1>1. PICK h \in G : StartOf(h) <= a /\ a + z[a] <= EndOf(h)
  BY DEF Tiles
<1>2. PICK x \in Nat, s \in Nat : x = a /\ s = z[a] /\ 4 <= s
  BY TileWords
<1>3. PICK i \in Nat, e \in Nat : i = StartOf(g) /\ e = EndOf(g)
  BY DEF Ranges
<1>4. PICK k \in Nat, f \in Nat : k = StartOf(h) /\ f = EndOf(h)
  BY DEF Ranges
<1>5. g # h => e < k \/ f < i
  BY <1>3, <1>4 DEF Ranges
<1>6. i < e
  BY <1>3 DEF Ranges
<1> QED
  BY <1>1, <1>2, <1>3, <1>4, <1>5, <1>6

(* What Before has done: p is free, and the heap is at rest.               *)
BeforeDone(m, o, z, U, G, K, p) ==
  /\ Same(m, o, K)
  /\ \E B, y, v, q : Heap(o, B, y, U \ {p}, v, q, G, K) /\ Same(z, y, U \ {p})

(* The chunk before, if it is free, takes p in; else p goes on the list    *)
(* and the chunk before is told.                                           *)
LEMMA BeforeFact ==
  ASSUME NEW m, NEW A, NEW z, NEW U, NEW w, NEW n, NEW G, NEW K, NEW p,
         Opened(m, A, z, U, w, n, G, K, p), FreeOK(m, z, U, G, p),
         NEW o, o = Before(m, p)
  PROVE  BeforeDone(m, o, z, U, G, K, p)
<1>1. /\ Chunks(m, A, z, U, U \ {p}, A \ U, w, n, G, K)
      /\ p \in A /\ p \in U /\ p \notin ListOf(w, n) /\ p \notin U \ {p} /\ p \notin A \ U
      /\ m \in [Cells -> Words] /\ Ranges(G) /\ Tiles(A, z, G) /\ U \subseteq A /\ n \in Nat
      /\ ListOf(w, n) \subseteq A /\ A \ U \subseteq ListOf(w, n)
      /\ PageFirst(p) => \E g \in G : p = StartOf(g)
      /\ \A a \in U \ {p} : UsedOK(m, z, U, G, a)
      /\ \A a \in A \ U : FreeOK(m, z, U, G, a)
  BY DEF Opened, Chunks
<1>2. PICK x \in Nat, l \in Nat : x = p /\ l = z[p] /\ 4 <= l
  BY <1>1, TileWords
<1>3. PICK T \in Nat : T = THIS_ALLOCATED_BIT /\ x + l < T /\ l < T
  BY <1>1, <1>2, TileWords, HeapAssumption
<1>4. CASE PageFirst(p) \/ ThisBit(m[p - 1])
  <2>1. PICK m1 : m1 = add_free(m, p)
    OBVIOUS
  <2>2. Returned(m, m1, A, z, U, U \ {p}, A \ U, w, n, G, K, p)
    <3>1. InHand(m, A, z, U, U \ {p}, A \ U, w, n, G, K, p)
      BY <1>1 DEF InHand
    <3> QED
      BY <2>1, <3>1, Return
  <2>3. PICK v : v = Put(w, n, p)
    OBVIOUS
  <2>4. PICK q : q = n + 1
    OBVIOUS
  <2>5. /\ Chunks(m1, A, z, U, U \ {p}, (A \ U) \cup {p}, v, q, G, K)
        /\ Same(m, m1, K) /\ SameButLinks(m, m1, ListOf(w, n) \cup {p})
    BY <2>2, <2>3, <2>4 DEF Returned
  <2>6. ~PageFirst(p) => m1[p - 1] = m[p - 1]
    <3> SUFFICES ASSUME ~PageFirst(p) PROVE m1[p - 1] = m[p - 1]
      OBVIOUS
    <3>0. \A g \in G : p # StartOf(g)
      BY <1>1 DEF Ranges
    <3>1. PICK t \in A : t + z[t] = p
      BY <1>1, <3>0, TileBefore
    <3>2. t \in Nat /\ z[t] \in Nat /\ 4 <= z[t]
      BY <1>1, TileWords
    <3>3. PICK c \in Nat : c = p - 1 /\ t <= c /\ c < t + z[t] /\ c # t + 1 /\ c # t + 2
      BY <1>2, <3>1, <3>2
    <3>4. ListOf(w, n) \cup {p} \subseteq A
      BY <1>1
    <3> QED
      BY <1>1, <2>5, <3>3, <3>4, NotALink
  <2>7. o = UnmarkPrev(m1, p)
    <3>1. CASE PageFirst(p)
      BY <2>1, <3>1 DEF Before, UnmarkPrev
    <3>2. CASE ~PageFirst(p)
      BY <1>4, <2>1, <3>2 DEF Before, UnmarkPrev
    <3> QED
      BY <3>1, <3>2
  <2>8. PageFirst(p) \/ ThisBit(m1[p - 1])
    BY <1>4, <2>6
  <2>9. /\ Chunks(o, A, z, U \ {p}, U \ {p}, (A \ U) \cup {p}, v, q, G, K)
        /\ Same(m1, o, K)
    <3>1. PICK V : V = U \ {p}
      OBVIOUS
    <3>2. PICK F : F = (A \ U) \cup {p}
      OBVIOUS
    <3>3. Chunks(m1, A, z, U, V, F, v, q, G, K)
      BY <2>5, <3>1, <3>2
    <3>4. Chunks(o, A, z, U \ {p}, V, F, v, q, G, K)
      BY <1>1, <2>7, <2>8, <3>3, Disbelieve
    <3>5. Same(m1, o, K)
      BY <1>1, <2>7, <2>8, <3>3, Disbelieve
    <3> QED
      BY <3>1, <3>2, <3>4, <3>5
  <2>10. (A \ U) \cup {p} = A \ (U \ {p})
    BY <1>1
  <2>11. Heap(o, A, z, U \ {p}, v, q, G, K)
    BY <2>9, <2>10 DEF Heap
  <2>12. Same(m, o, K) /\ Same(z, z, U \ {p})
    BY <2>5, <2>9 DEF Same
  <2> QED
    BY <2>11, <2>12 DEF BeforeDone
<1>5. CASE ~PageFirst(p) /\ ~ThisBit(m[p - 1])
  <2>0. \A g \in G : p # StartOf(g)
    BY <1>1, <1>5 DEF Ranges
  <2>1. PICK t \in A : t + z[t] = p
    BY <1>1, <2>0, TileBefore
  <2>2. PICK r \in Nat, j \in Nat : r = t /\ j = z[t] /\ 4 <= j /\ r + j = x /\ r # x /\ j < T
    BY <1>1, <1>2, <1>3, <2>1, TileWords
  <2>3. t + z[t] - 1 = p - 1
    BY <1>2, <2>2
  <2>4. ThisBit(j + T) /\ ThisBit(j + 3 * T) /\ SizeOf(j + 2 * T) = j
    BY <1>3, <2>2, TagBits
  <2>5. t \in A \ U /\ t \in ListOf(w, n) /\ t # p
    <3>1. t # p
      BY <1>2, <2>2
    <3>2. ASSUME t \in U PROVE FALSE
      <4>1. m[p - 1] \in {j + T, j + 3 * T}
        BY <1>1, <1>3, <2>2, <2>3, <3>1, <3>2 DEF UsedOK
      <4> QED
        BY <1>5, <2>4, <4>1
    <3> QED
      BY <1>1, <3>1, <3>2
  <2>6. FreeOK(m, z, U, G, t)
    BY <1>1, <2>5
  <2>7. \A g \in G : t + z[t] # EndOf(g)
    BY <1>1, <2>1, NotAtEnd
  <2>8. m[t] = j /\ m[p - 1] = j + 2 * T
    BY <1>3, <1>5, <2>2, <2>3, <2>6, <2>7 DEF FreeOK
  <2>9. p - SizeOf(m[p - 1]) = t
    BY <1>2, <2>2, <2>4, <2>8
  <2>10. m[p] = l
    BY <1>2 DEF FreeOK
  <2>11. PICK all \in Words : all = l + j /\ all \in Nat /\ all < T
    BY <1>2, <1>3, <2>2 DEF Words, NEXT_ALLOCATED_BIT
  <2>12. PICK tag \in Words : tag = all + 2 * T
    BY <1>3, <2>11 DEF Words, NEXT_ALLOCATED_BIT
  <2>13. PICK c \in Nat : c = r + all - 1 /\ r < c /\ c < r + all /\ c = x + l - 1
                          /\ c # r + 1 /\ c # r + 2
    BY <1>2, <2>2, <2>11
  <2>14. o = [m EXCEPT ![t] = all, ![c] = tag]
    <3>1. m[p] + m[t] = all /\ t + all - 1 = c /\ all + NEXT_ALLOCATED_BIT = tag
      BY <1>2, <1>3, <2>2, <2>8, <2>10, <2>11, <2>12, <2>13 DEF NEXT_ALLOCATED_BIT
    <3>2. o = MergePrev(m, p)
      BY <1>5 DEF Before
    <3> QED
      BY <2>9, <3>1, <3>2 DEF MergePrev
  <2>15. c \in Cells /\ t \in Cells
    <3>1. t < t + z[t] /\ t \in Nat /\ c < p + z[p]
      BY <1>2, <2>2, <2>13
    <3> QED
      BY <1>1, <3>1, TileWords
  <2>16. /\ o \in [Cells -> Words] /\ o[c] = tag /\ o[t] = all
         /\ \A i \in Cells : i # t /\ i # c => o[i] = m[i]
    BY <1>1, <2>2, <2>13, <2>14, <2>15
  <2>17. PICK V : V = U \ {p}
    OBVIOUS
  <2>18. PICK F : F = (A \ U) \ {t}
    OBVIOUS
  <2>19. \A a \in V \cup F : a + z[a] # p
    <3> SUFFICES ASSUME NEW a \in A, a # t PROVE a + z[a] # p
      BY <1>1, <2>5, <2>17, <2>18
    <3>1. PICK b \in Nat, k \in Nat : b = a /\ k = z[a] /\ 4 <= k
      BY <1>1, TileWords
    <3>2. PICK i \in Nat : i = p - 1 /\ r <= i /\ i < r + j
      BY <1>2, <2>2
    <3>3. ~(b <= i /\ i < b + k)
      BY <1>1, <2>2, <3>1, <3>2, TilesApart
    <3> QED
      BY <1>2, <3>1, <3>2, <3>3
  <2>20. Chunks(m, A, z, V, V, F, w, n, G, K)
    <3>1. V \subseteq A /\ F \subseteq A \ U
      BY <1>1, <2>17, <2>18
    <3>2. ASSUME NEW a \in V PROVE UsedOK(m, z, V, G, a)
      <4>1. a + z[a] # p /\ UsedOK(m, z, U, G, a)
        BY <1>1, <2>17, <2>19
      <4> QED
        BY <2>17, <4>1 DEF UsedOK
    <3>3. ASSUME NEW a \in F PROVE FreeOK(m, z, V, G, a)
      <4>1. a + z[a] # p /\ FreeOK(m, z, U, G, a)
        BY <1>1, <2>19, <3>1
      <4> QED
        BY <2>17, <4>1 DEF FreeOK
    <3> QED
      BY <1>1, <2>17, <3>1, <3>2, <3>3 DEF Chunks
  <2>21. PICK y : y = Joined(z, t, p)
    OBVIOUS
  <2>22. Chunks(m, A \ {p}, y, V, V, F, w, n, G, K) /\ Same(z, y, A \ {t})
    <3>1. t \notin V /\ t \notin F /\ p \notin V
      BY <2>5, <2>17, <2>18
    <3>2. p \notin ListOf(w, n) /\ p = t + z[t]
      BY <1>1, <2>1
    <3>3. Chunks(m, A \ {p}, y, V, V, F, w, n, G, K)
      BY <1>1, <2>0, <2>20, <2>21, <3>1, <3>2, MergeInHand
    <3>4. Same(z, y, A \ {t})
      BY <1>1, <2>21 DEF Joined, Tiles, Same
    <3> QED
      BY <3>3, <3>4
  <2>23. y[t] = all
    BY <1>1, <1>2, <2>2, <2>11, <2>21 DEF Joined, Tiles
  <2>24. \A i \in Cells : o[i] # m[i] =>
           /\ t <= i /\ i < t + y[t]
           /\ t \in ListOf(w, n) => i # t + 1 /\ i # t + 2
    BY <2>2, <2>11, <2>13, <2>16, <2>23
  <2>25. Chunks(o, A \ {p}, y, V, V, F, w, n, G, K) /\ Same(m, o, K)
    <3>1. t \in A \ {p} /\ t \notin V /\ t \notin F
      BY <2>5, <2>17, <2>18
    <3> QED
      BY <2>16, <2>22, <2>24, <3>1, Poke DEF Same
  <2>26. FreeOK(o, y, V, G, t)
    <3>1. t + y[t] - 1 = c /\ o[c] = y[t] + 2 * THIS_ALLOCATED_BIT /\ o[t] = y[t]
      BY <1>3, <2>2, <2>11, <2>12, <2>13, <2>16, <2>23
    <3>2. t + y[t] = p + z[p] /\ p + z[p] # p
      BY <1>2, <2>2, <2>11, <2>23
    <3>3. ~PageLast(t + y[t]) => t + y[t] \in V
      BY <2>17, <3>2 DEF FreeOK
    <3> QED
      BY <3>1, <3>3 DEF FreeOK
  <2>27. Chunks(o, A \ {p}, y, V, V, F \cup {t}, w, n, G, K)
    BY <2>5, <2>25, <2>26, AdmitFree
  <2>28. F \cup {t} = (A \ {p}) \ V
    BY <1>1, <2>5, <2>17, <2>18
  <2>29. Heap(o, A \ {p}, y, U \ {p}, w, n, G, K)
    BY <2>17, <2>27, <2>28 DEF Heap
  <2>30. Same(z, y, U \ {p})
    BY <1>1, <2>5, <2>22 DEF Same
  <2> QED
    BY <2>25, <2>29, <2>30 DEF BeforeDone
<1> QED
  BY <1>4, <1>5

(* What Before follows is there.                                           *)
LEMMA BeforeSound ==
  ASSUME NEW m, NEW A, NEW z, NEW U, NEW w, NEW n, NEW G, NEW K, NEW p,
         Opened(m, A, z, U, w, n, G, K, p), FreeOK(m, z, U, G, p)
  PROVE  BeforeSane(m, p)
<1>1. /\ p \in A /\ p \in U /\ Ranges(G) /\ Tiles(A, z, G) /\ U \subseteq A
      /\ n \in Nat /\ Walk(m, w, n) /\ Apart(w, n)
      /\ PageFirst(p) => \E g \in G : p = StartOf(g)
      /\ \A a \in U \ {p} : UsedOK(m, z, U, G, a)
      /\ \A a \in A \ U : FreeOK(m, z, U, G, a)
  BY DEF Opened, Chunks, Walk
<1>2. PICK x \in Nat, l \in Nat : x = p /\ l = z[p] /\ 4 <= l
  BY <1>1, TileWords
<1>3. PICK T \in Nat : T = THIS_ALLOCATED_BIT /\ x + l < T /\ l < T
  BY <1>1, <1>2, TileWords, HeapAssumption
<1>4. next(m[prev(free_tail)]) \in Cells
  <2>1. n \in 0 .. n /\ n \in 0 .. n + 1 /\ w[n + 1] = free_tail
    BY <1>1 DEF Apart
  <2>2. m[prev(free_tail)] = w[n]
    BY <1>1, <2>1 DEF Walk
  <2> QED
    BY <1>1, <2>1, <2>2 DEF Apart, next
<1>5. CASE ~PageFirst(p) /\ ~ThisBit(m[p - 1])
  <2>0. \A g \in G : p # StartOf(g)
    BY <1>1, <1>5 DEF Ranges
  <2>1. PICK t \in A : t + z[t] = p
    BY <1>1, <2>0, TileBefore
  <2>2. PICK r \in Nat, j \in Nat : r = t /\ j = z[t] /\ 4 <= j /\ r + j = x /\ r # x /\ j < T
    BY <1>1, <1>2, <1>3, <2>1, TileWords
  <2>3. t + z[t] - 1 = p - 1
    BY <1>2, <2>2
  <2>4. ThisBit(j + T) /\ ThisBit(j + 3 * T) /\ SizeOf(j + 2 * T) = j
    BY <1>3, <2>2, TagBits
  <2>5. t \in A \ U
    <3>1. t # p
      BY <1>2, <2>2
    <3>2. ASSUME t \in U PROVE FALSE
      <4>1. m[p - 1] \in {j + T, j + 3 * T}
        BY <1>1, <1>3, <2>2, <2>3, <3>1, <3>2 DEF UsedOK
      <4> QED
        BY <1>5, <2>4, <4>1
    <3> QED
      BY <3>2
  <2>6. FreeOK(m, z, U, G, t)
    BY <1>1, <2>5
  <2>7. \A g \in G : t + z[t] # EndOf(g)
    BY <1>1, <2>1, NotAtEnd
  <2>8. m[t] = j /\ m[p - 1] = j + 2 * T
    BY <1>3, <1>5, <2>2, <2>3, <2>6, <2>7 DEF FreeOK
  <2>9. p - SizeOf(m[p - 1]) = t
    BY <1>2, <2>2, <2>4, <2>8
  <2>10. m[p] = l
    BY <1>2 DEF FreeOK
  <2>11. PICK c \in Nat : c = x + l - 1 /\ c < p + z[p]
    BY <1>2
  <2>12. t + m[p] + m[t] - 1 = c
    BY <2>2, <2>8, <2>10, <2>11
  <2>13. c \in Cells /\ t \in Cells
    <3>1. t < t + z[t] /\ t \in Nat
      BY <2>2
    <3> QED
      BY <1>1, <2>11, <3>1, TileWords
  <2> QED
    BY <1>5, <2>9, <2>12, <2>13 DEF BeforeSane
<1> QED
  BY <1>4, <1>5 DEF BeforeSane

-----------------------------------------------------------------------------
(* The list is short, and what is not read may be forgotten.               *)

(* What the heap at rest says of its parts.                                *)
LEMMA AtRest ==
  ASSUME NEW m, NEW A, NEW z, NEW U, NEW w, NEW n, NEW G, NEW K,
         Heap(m, A, z, U, w, n, G, K)
  PROVE  /\ m \in [Cells -> Words] /\ Ranges(G) /\ Tiles(A, z, G)
         /\ U \subseteq A /\ n \in Nat /\ Walk(m, w, n) /\ Apart(w, n)
         /\ ListOf(w, n) = A \ U
         /\ \A a \in U : UsedOK(m, z, U, G, a)
         /\ \A a \in A \ U : FreeOK(m, z, U, G, a)
         /\ Private(K, A, z, U)
<1>1. Chunks(m, A, z, U, U, A \ U, w, n, G, K)
  BY DEF Heap
<1>2. A \ U \subseteq ListOf(w, n) /\ ListOf(w, n) \subseteq A /\ U \cap ListOf(w, n) = {}
  BY <1>1 DEF Chunks
<1>3. ListOf(w, n) = A \ U
  BY <1>2
<1> QED
  BY <1>1, <1>3 DEF Chunks, Walk

(* A free chunk ends at a page or at a chunk in use, so there are no more  *)
(* of them than pages and chunks in use.                                   *)
LEMMA FreeCount ==
  ASSUME NEW m, NEW A, NEW z, NEW U, NEW w, NEW n, NEW G, NEW K,
         Heap(m, A, z, U, w, n, G, K), IsFiniteSet(U), Cardinality(U) <= MaxGiven
  PROVE  n <= MaxFree
<1>1. /\ Ranges(G) /\ Tiles(A, z, G) /\ U \subseteq A /\ n \in Nat /\ Apart(w, n)
      /\ ListOf(w, n) = A \ U /\ \A a \in A \ U : FreeOK(m, z, U, G, a)
  BY AtRest
<1>2. PICK b \in Nat \ {0} : b = page_size
  BY HeapAssumption
<1>3. PICK M \in Nat : M = MaxPage
  BY HeapAssumption
<1>4. PICK d \in Nat, q \in Nat : d = MaxFree /\ q = MaxGiven /\ d >= q + M
  BY <1>3, HeapAssumption
<1>5. PICK Q : Q = {b * k : k \in 2 .. M + 1}
  OBVIOUS
<1>6. IsFiniteSet(Q) /\ Cardinality(Q) <= M
  <2>1. PICK f : f = [k \in 2 .. M + 1 |-> b * k]
    OBVIOUS
  <2>2. f \in Surjection(2 .. M + 1, Q)
    <3>1. f \in [2 .. M + 1 -> Q]
      BY <1>5, <2>1
    <3>2. \A x \in Q : \E k \in 2 .. M + 1 : f[k] = x
      BY <1>5, <2>1
    <3> QED
      BY <3>1, <3>2 DEF Surjection
  <2>3. IsFiniteSet(2 .. M + 1) /\ Cardinality(2 .. M + 1) = M
    <3>1. 2 \in Int /\ M + 1 \in Int
      OBVIOUS
    <3>2. IsFiniteSet(2 .. M + 1)
          /\ Cardinality(2 .. M + 1) = IF 2 > M + 1 THEN 0 ELSE M + 1 - 2 + 1
      BY <3>1, FS_Interval
    <3> QED
      BY <3>2
  <2> QED
    BY <2>2, <2>3, FS_Surjection
<1>7. PICK S : S = U \cup Q
  OBVIOUS
<1>8. IsFiniteSet(S) /\ Cardinality(S) <= q + M
  <2>1. /\ IsFiniteSet(S)
        /\ Cardinality(S) = Cardinality(U) + Cardinality(Q) - Cardinality(U \cap Q)
    BY <1>6, <1>7, FS_Union
  <2>2. IsFiniteSet(U \cap Q)
    BY FS_Intersection
  <2>3. Cardinality(U) \in Nat /\ Cardinality(Q) \in Nat /\ Cardinality(U \cap Q) \in Nat
    BY <1>6, <2>2, FS_CardinalityType
  <2> QED
    BY <1>4, <1>6, <2>1, <2>3
<1>9. \A i \in 1 .. n : w[i] \in A \ U
  BY <1>1 DEF ListOf
<1>10. ASSUME NEW a \in A \ U PROVE a + z[a] \in S
  <2>1. PICK x \in Nat, l \in Nat : x = a /\ l = z[a] /\ 4 <= l
    BY <1>1, TileWords
  <2>2. CASE ~PageLast(a + z[a])
    BY <1>1, <1>7, <2>2 DEF FreeOK
  <2>3. CASE PageLast(a + z[a])
    <3>1. PICK e \in Nat : e = x + l /\ e % b = 0
      BY <1>2, <2>1, <2>3 DEF PageLast
    <3>2. PICK k \in Nat : e = b * k
      <4>1. e \div b \in Nat /\ e = (b * (e \div b)) + (e % b)
        BY DivMod
      <4>2. PICK k \in Nat : k = e \div b
        BY <4>1
      <4>3. e = (b * k) + 0
        BY <3>1, <4>1, <4>2
      <4>4. PICK y \in Nat : y = b * k
        OBVIOUS
      <4> QED
        BY <4>3, <4>4
    <3>3. PICK g \in G : StartOf(g) <= a /\ a + z[a] <= EndOf(g)
      BY <1>1 DEF Tiles
    <3>4. PICK s \in Nat, t \in Nat : s = StartOf(g) /\ t = EndOf(g) /\ b < s /\ t - 1 \in Cells
      BY <1>1, <1>2 DEF Ranges
    <3>5. PICK N \in Nat : N = b * (M + 1) /\ Cells = 0 .. N - 1
      BY <1>2, <1>3, CellsFact
    <3>5a. Cells = 0 .. N - 1
      BY <3>5
    <3>6. b < e /\ e <= N
      <4>1. e = x + l
        BY <3>1
      <4> QED
        BY SMTT(30), <2>1, <3>3, <3>4, <3>5a, <4>1
    <3>7. k >= 2
      <4> SUFFICES ASSUME k <= 1 PROVE FALSE
        BY <3>2
      <4>1. b * k <= b * 1 /\ b * 1 = b
        BY MulMono
      <4>2. PICK y \in Nat : y = b * k
        OBVIOUS
      <4> QED
        BY <3>2, <3>6, <4>1, <4>2
    <3>8. k <= M + 1
      <4> SUFFICES ASSUME M + 2 <= k PROVE FALSE
        BY <3>2
      <4>1. b * (M + 2) <= b * k /\ b * (M + 2) = b * (M + 1) + b
        BY MulMono
      <4>2. PICK y \in Nat : y = b * k
        OBVIOUS
      <4>3. PICK u \in Nat : u = b * (M + 2)
        OBVIOUS
      <4> QED
        BY <3>2, <3>5, <3>6, <4>1, <4>2, <4>3
    <3> QED
      BY <1>5, <1>7, <2>1, <3>1, <3>2, <3>7, <3>8
  <2> QED
    BY <2>2, <2>3
<1>11. ASSUME NEW a \in A, NEW c \in A, a + z[a] = c + z[c] PROVE a = c
  <2>1. PICK x \in Nat, l \in Nat : x = a /\ l = z[a] /\ 4 <= l
    BY <1>1, TileWords
  <2>2. PICK y \in Nat, k \in Nat : y = c /\ k = z[c] /\ 4 <= k
    BY <1>1, TileWords
  <2>3. PICK i \in Nat : i = x + l - 1 /\ x <= i /\ i < x + l /\ y <= i /\ i < y + k
    BY <1>11, <2>1, <2>2
  <2> QED
    BY <1>1, <2>1, <2>2, <2>3, TilesApart
<1>12. PICK f : f = [i \in 1 .. n |-> w[i] + z[w[i]]]
  OBVIOUS
<1>13. f \in Injection(1 .. n, S)
  <2>1. f \in [1 .. n -> S]
    BY <1>9, <1>10, <1>12
  <2>2. ASSUME NEW i \in 1 .. n, NEW j \in 1 .. n, f[i] = f[j] PROVE i = j
    <3>1. w[i] = w[j]
      BY <1>9, <1>11, <1>12, <2>2
    <3>2. i \in 0 .. n + 1 /\ j \in 0 .. n + 1
      BY <1>1
    <3> QED
      BY <1>1, <3>1, <3>2, ApartFact
  <2>3. \A i, j \in 1 .. n : f[i] = f[j] => i = j
    BY <2>2
  <2> QED
    BY <2>1, <2>3 DEF Injection, IsInjective
<1>14. Cardinality(1 .. n) <= Cardinality(S)
  BY <1>8, <1>13, FS_Injection
<1>15. Cardinality(1 .. n) = n
  <2>1. Cardinality(1 .. n) = IF 1 > n THEN 0 ELSE n - 1 + 1
    BY <1>1, FS_Interval
  <2> QED
    BY <1>1, <2>1
<1>16. Cardinality(S) \in Nat
  BY <1>8, FS_CardinalityType
<1> QED
  BY <1>1, <1>4, <1>8, <1>14, <1>15, <1>16

(* Memory that differs in no tag, no link and no header of a free chunk.   *)
LEMMA Quiet ==
  ASSUME NEW m, NEW A, NEW z, NEW U, NEW w, NEW n, NEW G, NEW K,
         Heap(m, A, z, U, w, n, G, K), NEW o \in [Cells -> Words],
         \A c \in Cells : o[c] # m[c] =>
           /\ 6 < c
           /\ \A a \in A : a <= c /\ c < a + z[a] =>
                /\ c # a + z[a] - 1
                /\ a \in U \/ (c # a /\ c # a + 1 /\ c # a + 2)
  PROVE  Heap(o, A, z, U, w, n, G, K)
<1>1. /\ m \in [Cells -> Words] /\ Ranges(G) /\ Tiles(A, z, G)
      /\ U \subseteq A /\ n \in Nat /\ Walk(m, w, n)
      /\ ListOf(w, n) = A \ U
      /\ \A a \in U : UsedOK(m, z, U, G, a)
      /\ \A a \in A \ U : FreeOK(m, z, U, G, a)
  BY AtRest
<1>2. ASSUME NEW a \in A
      PROVE  /\ o[a + z[a] - 1] = m[a + z[a] - 1]
             /\ a \notin U => o[a] = m[a] /\ o[a + 1] = m[a + 1] /\ o[a + 2] = m[a + 2]
  <2>1. PICK x \in Nat, l \in Nat : x = a /\ l = z[a] /\ 4 <= l
    BY <1>1, TileWords
  <2>2. PICK i \in Nat : i = x + l - 1 /\ x <= i /\ i < x + l
    BY <2>1
  <2>3. /\ i \in Cells /\ x \in Cells /\ x + 1 \in Cells /\ x + 2 \in Cells
    <3>1. x < x + l /\ x + 1 < x + l /\ x + 2 < x + l
      BY <2>1
    <3> QED
      BY <1>1, <2>1, <2>2, <3>1, TileWords
  <2>4. o[i] = m[i]
    BY <2>1, <2>2, <2>3
  <2>5. a \notin U => o[x] = m[x] /\ o[x + 1] = m[x + 1] /\ o[x + 2] = m[x + 2]
    <3>1. x <= x + 1 /\ x <= x + 2 /\ x < x + l /\ x + 1 < x + l /\ x + 2 < x + l
      BY <2>1
    <3> QED
      BY <2>1, <2>3, <3>1
  <2> QED
    BY <2>1, <2>2, <2>4, <2>5
<1>3. ASSUME NEW a \in U PROVE UsedOK(o, z, U, G, a)
  <2>1. UsedOK(m, z, U, G, a) /\ o[a + z[a] - 1] = m[a + z[a] - 1]
    BY <1>1, <1>2
  <2> QED
    BY <2>1 DEF UsedOK
<1>4. ASSUME NEW a \in A \ U PROVE FreeOK(o, z, U, G, a)
  <2>1. FreeOK(m, z, U, G, a) /\ o[a + z[a] - 1] = m[a + z[a] - 1] /\ o[a] = m[a]
    BY <1>1, <1>2
  <2> QED
    BY <2>1 DEF FreeOK
<1>5. \A c \in Cells : c <= 6 => o[c] = m[c]
  <2> SUFFICES ASSUME NEW c \in Cells, c <= 6, 6 < c PROVE FALSE
    OBVIOUS
  <2> QED
    BY CellsFact
<1>6. Walk(o, w, n)
  BY <1>1, <1>2, <1>5, WalkKept
<1> QED
  BY <1>3, <1>4, <1>6 DEF Heap, Chunks

-----------------------------------------------------------------------------
(* The mappings and the regions.                                           *)

Arenas(P) == {g \in P : ~g.large}

(* The mappings lie in the address space and share no page.                *)
MapsOK(P) ==
  /\ P \subseteq MappingType
  /\ \A g \in P : PagesOf(g) \subseteq 1 .. MaxPage
  /\ \A g, h \in P : g # h => PagesOf(g) \cap PagesOf(h) = {}

RegionType == [ptr : Nat, n : Size, data : Data \cup {Unwritten}]

(* No two regions begin at one address, and a large one has a mapping.     *)
RegionsOK(gs, P) ==
  /\ gs \subseteq RegionType
  /\ \A r, s \in gs : r.ptr = s.ptr => r = s
  /\ \A r \in gs : IsLarge(r.n) =>
       \E g \in P : g.large /\ r.ptr = StartOf(g) /\ g.count = LargePages(r.n)

SmallOf(gs) == {r \in gs : ~IsLarge(r.n)}
PayloadOf(r) == r.ptr .. r.ptr + r.n - 1
Payloads(gs) == UNION {PayloadOf(r) : r \in gs}

(* The chunks in use are those of the small regions.                       *)
Matches(gs, z, U) ==
  /\ U = {r.ptr : r \in SmallOf(gs)}
  /\ \A r \in SmallOf(gs) : z[r.ptr] = calc_alloc_size(r.n)

(* The size of a chunk: its words and a tag, in double words.              *)
LEMMA AllocSize ==
  ASSUME NEW n \in Nat
  PROVE  /\ calc_alloc_size(n) \in Nat /\ n < calc_alloc_size(n)
         /\ calc_alloc_size(n) <= n + 2
BY DEF calc_alloc_size

(* A large region has room in its mapping.                                 *)
LEMMA LargeFits ==
  ASSUME NEW g \in MappingType, NEW n \in Nat, g.count = LargePages(n)
  PROVE  StartOf(g) + calc_alloc_size(n) <= EndOf(g)
<1>1. PICK b \in Nat \ {0} : b = page_size
  BY HeapAssumption
<1>2. PICK H \in Nat \ {0} : H = SIZEOF_PAGE_HEADER
  BY HeapAssumption
<1>3. PICK s \in Nat : s = calc_alloc_size(n)
  BY AllocSize
<1>4. PICK M \in Nat : M = MaxPage
  BY HeapAssumption
<1>5. PICK p \in 1 .. M, k \in 1 .. M : p = g.first /\ k = g.count
  BY <1>4 DEF MappingType
<1>6. PICK x \in Nat : x = s + H + b - 1
  OBVIOUS
<1>7. k = x \div b
  BY <1>1, <1>2, <1>3, <1>5, <1>6 DEF LargePages
<1>8. x \div b \in Nat /\ x % b \in Nat /\ x % b < b /\ x = (b * (x \div b)) + (x % b)
  BY DivMod
<1>9. PICK r \in Nat : r < b /\ x = (b * k) + r
  BY <1>7, <1>8
<1>10. StartOf(g) = b * p + H /\ EndOf(g) = b * (p + k) /\ b * (p + k) = b * p + b * k
  BY <1>1, <1>2, <1>5 DEF StartOf, EndOf
<1>11. PICK u \in Nat, v \in Nat : u = b * p /\ v = b * k
  OBVIOUS
<1>12. x = v + r /\ StartOf(g) = u + H /\ EndOf(g) = u + v
  BY <1>9, <1>10, <1>11
<1> QED
  BY <1>3, <1>6, <1>9, <1>12

(* Mappings as the lemmas about chunks want them.                          *)
LEMMA MapsRanges ==
  ASSUME NEW P, MapsOK(P)
  PROVE  Ranges(P) /\ Ranges(Arenas(P))
<1>1. ASSUME NEW g \in P
      PROVE  /\ StartOf(g) \in Nat /\ EndOf(g) \in Nat
             /\ 6 < StartOf(g) /\ page_size < StartOf(g) /\ StartOf(g) < EndOf(g)
             /\ EndOf(g) - 1 \in Cells /\ PageLast(EndOf(g))
             /\ PageFirst(StartOf(g))
  <2>1. g \in MappingType /\ PagesOf(g) \subseteq 1 .. MaxPage
    BY DEF MapsOK
  <2>2. page_size < StartOf(g)
    <3>1. PICK b \in Nat \ {0} : b = page_size
      BY HeapAssumption
    <3>2. PICK H \in Nat \ {0} : H = SIZEOF_PAGE_HEADER
      BY HeapAssumption
    <3>3. PICK p \in Nat : p = g.first /\ 1 <= p
      BY <2>1, HeapAssumption DEF MappingType
    <3>4. b * 1 <= b * p /\ b * 1 = b /\ StartOf(g) = b * p + H
      BY <3>1, <3>2, <3>3, MulMono DEF StartOf
    <3>5. PICK u \in Nat : u = b * p
      OBVIOUS
    <3> QED
      BY <3>1, <3>2, <3>4, <3>5
  <2> QED
    BY <2>1, <2>2, MappingBounds
<1>2. ASSUME NEW g \in P, NEW h \in P, g # h
      PROVE  EndOf(g) < StartOf(h) \/ EndOf(h) < StartOf(g)
  <2>1. g \in MappingType /\ h \in MappingType /\ PagesOf(g) \cap PagesOf(h) = {}
    BY <1>2 DEF MapsOK
  <2> QED
    BY <2>1, MappingsApart
<1>3. Arenas(P) \subseteq P
  BY DEF Arenas
<1>4. Ranges(P)
  BY <1>1, <1>2 DEF Ranges
<1>5. Ranges(Arenas(P))
  BY <1>1, <1>2, <1>3 DEF Ranges
<1> QED
  BY <1>4, <1>5

(* The words of a large region are in its mapping, so in no chunk.         *)
LEMMA LargeWords ==
  ASSUME NEW P, MapsOK(P), NEW gs, RegionsOK(gs, P), NEW r \in gs, IsLarge(r.n)
  PROVE  \E g \in P : /\ g.large /\ r.ptr = StartOf(g) /\ g.count = LargePages(r.n)
                      /\ r.ptr \in Nat /\ r.n \in Nat /\ EndOf(g) \in Nat
                      /\ 6 < r.ptr /\ End(r) <= EndOf(g) /\ End(r) \in Nat
                      /\ r.ptr + r.n < End(r) /\ EndOf(g) - 1 \in Cells
<1>1. PICK g \in P : g.large /\ r.ptr = StartOf(g) /\ g.count = LargePages(r.n)
  BY DEF RegionsOK
<1>2. r.ptr \in Nat /\ r.n \in Nat
  BY HeapAssumption DEF RegionsOK, RegionType
<1>3. calc_alloc_size(r.n) \in Nat /\ r.n < calc_alloc_size(r.n)
  BY <1>2, AllocSize
<1>4. /\ EndOf(g) \in Nat /\ 6 < StartOf(g) /\ EndOf(g) - 1 \in Cells
  BY MapsRanges DEF Ranges
<1>5. StartOf(g) + calc_alloc_size(r.n) <= EndOf(g)
  BY <1>1, <1>2, LargeFits DEF MapsOK
<1>6. End(r) \in Nat /\ End(r) <= EndOf(g) /\ r.ptr + r.n < End(r)
  BY <1>1, <1>2, <1>3, <1>5 DEF End
<1> QED
  BY <1>1, <1>2, <1>4, <1>6

(* A word of a mapping is in no other, and so in no chunk of another.      *)
LEMMA OtherMapping ==
  ASSUME NEW P, Ranges(P), NEW g \in P, NEW h \in P, NEW c \in Nat,
         StartOf(g) <= c, c < EndOf(g), StartOf(h) <= c, c < EndOf(h)
  PROVE  g = h
<1>1. PICK s \in Nat, e \in Nat : s = StartOf(g) /\ e = EndOf(g)
  BY DEF Ranges
<1>2. PICK t \in Nat, d \in Nat : t = StartOf(h) /\ d = EndOf(h)
  BY DEF Ranges
<1>3. g # h => e < t \/ d < s
  BY <1>1, <1>2 DEF Ranges
<1> QED
  BY <1>1, <1>2, <1>3

(* No chunk has a word of a large mapping.                                 *)
LEMMA NotInChunk ==
  ASSUME NEW P, MapsOK(P), NEW A, NEW z, Tiles(A, z, Arenas(P)),
         NEW g \in P, g.large, NEW c \in Nat, StartOf(g) <= c, c < EndOf(g),
         NEW a \in A, a <= c, c < a + z[a]
  PROVE  FALSE
<1>1. Ranges(P) /\ Ranges(Arenas(P))
  BY MapsRanges
<1>2. PICK h \in Arenas(P) : StartOf(h) <= a /\ a + z[a] <= EndOf(h)
  BY DEF Tiles
<1>3. PICK x \in Nat, l \in Nat : x = a /\ l = z[a]
  BY DEF Tiles
<1>4. PICK t \in Nat, d \in Nat : t = StartOf(h) /\ d = EndOf(h)
  BY <1>1 DEF Ranges
<1>5. StartOf(h) <= c /\ c < EndOf(h)
  BY <1>2, <1>3, <1>4
<1>6. g = h
  BY <1>1, <1>5, OtherMapping DEF Arenas
<1> QED
  BY <1>6 DEF Arenas

(* The words of a region, and of the chunk it is in.                       *)
LEMMA PayloadWords ==
  ASSUME NEW P, MapsOK(P), NEW gs, RegionsOK(gs, P), NEW A, NEW z, NEW U,
         Tiles(A, z, Arenas(P)), U \subseteq A, Matches(gs, z, U),
         NEW r \in gs, NEW c \in PayloadOf(r)
  PROVE  /\ c \in Cells /\ c \in Nat /\ 6 < c
         /\ ~IsLarge(r.n) => r.ptr \in U /\ r.ptr <= c /\ c < r.ptr + z[r.ptr] - 1
         /\ IsLarge(r.n) => \A a \in A : ~(a <= c /\ c < a + z[a])
<1>1. r.ptr \in Nat /\ r.n \in Nat
  BY HeapAssumption DEF RegionsOK, RegionType
<1>2. c \in Nat /\ r.ptr <= c /\ c < r.ptr + r.n
  BY <1>1 DEF PayloadOf
<1>3. CASE ~IsLarge(r.n)
  <2>1. r.ptr \in U /\ r.ptr \in A /\ z[r.ptr] = calc_alloc_size(r.n)
    BY <1>3 DEF Matches, SmallOf
  <2>2. Ranges(Arenas(P))
    BY MapsRanges
  <2>3. PICK l \in Nat : l = z[r.ptr] /\ r.n < l
    BY <1>1, <2>1, AllocSize
  <2>4. c < r.ptr + l - 1 /\ c < r.ptr + l
    BY <1>1, <1>2, <2>3
  <2>5. c \in Cells /\ 6 < r.ptr
    BY <1>2, <2>1, <2>2, <2>3, <2>4, TileWords
  <2> QED
    BY <1>1, <1>2, <1>3, <2>1, <2>3, <2>4, <2>5
<1>4. CASE IsLarge(r.n)
  <2>1. PICK g \in P : /\ g.large /\ r.ptr = StartOf(g)
                       /\ EndOf(g) \in Nat /\ 6 < r.ptr /\ End(r) <= EndOf(g)
                       /\ End(r) \in Nat
                       /\ r.ptr + r.n < End(r) /\ EndOf(g) - 1 \in Cells
    BY <1>4, LargeWords
  <2>2. c < EndOf(g) /\ 6 < c
    BY <1>1, <1>2, <2>1
  <2>3. c \in Cells
    BY <1>2, <2>1, <2>2, CellsFact
  <2>4. \A a \in A : ~(a <= c /\ c < a + z[a])
    BY <1>2, <2>1, <2>2, NotInChunk
  <2> QED
    BY <1>2, <1>4, <2>2, <2>3, <2>4
<1> QED
  BY <1>3, <1>4

(* So what a set of regions holds is private to it.                        *)
LEMMA PayloadPrivate ==
  ASSUME NEW P, MapsOK(P), NEW gs, RegionsOK(gs, P), NEW A, NEW z, NEW U,
         Tiles(A, z, Arenas(P)), U \subseteq A, Matches(gs, z, U),
         NEW S, S \subseteq gs, NEW V, \A r \in S : ~IsLarge(r.n) => r.ptr \in V
  PROVE  Private(Payloads(S), A, z, V)
<1> SUFFICES ASSUME NEW r \in S, NEW c \in PayloadOf(r)
             PROVE  /\ c \in Cells /\ 6 < c
                    /\ \A a \in A : a <= c /\ c < a + z[a] => a \in V /\ c < a + z[a] - 1
  BY DEF Private, Payloads
<1>1. /\ c \in Cells /\ c \in Nat /\ 6 < c
      /\ ~IsLarge(r.n) => r.ptr \in U /\ r.ptr <= c /\ c < r.ptr + z[r.ptr] - 1
      /\ IsLarge(r.n) => \A a \in A : ~(a <= c /\ c < a + z[a])
  BY PayloadWords
<1>2. ASSUME NEW a \in A, a <= c, c < a + z[a] PROVE a \in V /\ c < a + z[a] - 1
  <2>1. ~IsLarge(r.n)
    BY <1>1, <1>2
  <2>2. r.ptr \in A /\ r.ptr \in Nat /\ z[r.ptr] \in Nat
    BY <1>1, <2>1 DEF Tiles
  <2>3. r.ptr <= c /\ c < r.ptr + z[r.ptr]
    BY <1>1, <2>1, <2>2
  <2>4. a = r.ptr
    BY <1>1, <1>2, <2>2, <2>3, TilesApart
  <2> QED
    BY <1>1, <2>1, <2>4
<1> QED
  BY <1>1, <1>2

(* No word belongs to two regions.                                         *)
LEMMA PayloadsApart ==
  ASSUME NEW P, MapsOK(P), NEW gs, RegionsOK(gs, P), NEW A, NEW z, NEW U,
         Tiles(A, z, Arenas(P)), U \subseteq A, Matches(gs, z, U),
         NEW r \in gs, NEW s \in gs, NEW c \in PayloadOf(r), c \in PayloadOf(s)
  PROVE  r = s
<1>1. /\ c \in Nat
      /\ ~IsLarge(r.n) => r.ptr \in U /\ r.ptr <= c /\ c < r.ptr + z[r.ptr] - 1
      /\ IsLarge(r.n) => \A a \in A : ~(a <= c /\ c < a + z[a])
  BY PayloadWords
<1>2. /\ ~IsLarge(s.n) => s.ptr \in U /\ s.ptr <= c /\ c < s.ptr + z[s.ptr] - 1
      /\ IsLarge(s.n) => \A a \in A : ~(a <= c /\ c < a + z[a])
  BY PayloadWords
<1>3. \A a \in A : a \in Nat /\ z[a] \in Nat
  BY DEF Tiles
<1>4. r.ptr = s.ptr => r = s
  BY DEF RegionsOK
<1>5. ~IsLarge(r.n) => r.ptr \in A /\ r.ptr <= c /\ c < r.ptr + z[r.ptr]
  BY <1>1, <1>3
<1>6. ~IsLarge(s.n) => s.ptr \in A /\ s.ptr <= c /\ c < s.ptr + z[s.ptr]
  BY <1>1, <1>2, <1>3
<1>7. CASE ~IsLarge(r.n) /\ ~IsLarge(s.n)
  BY <1>1, <1>4, <1>5, <1>6, <1>7, TilesApart
<1>8. CASE IsLarge(r.n) /\ IsLarge(s.n)
  <2>1. PICK g \in P : /\ r.ptr = StartOf(g) /\ r.ptr \in Nat /\ r.n \in Nat
                       /\ EndOf(g) \in Nat /\ End(r) \in Nat
                       /\ End(r) <= EndOf(g) /\ r.ptr + r.n < End(r)
    BY <1>8, LargeWords
  <2>2. PICK h \in P : /\ s.ptr = StartOf(h) /\ s.ptr \in Nat /\ s.n \in Nat
                       /\ EndOf(h) \in Nat /\ End(s) \in Nat
                       /\ End(s) <= EndOf(h) /\ s.ptr + s.n < End(s)
    BY <1>8, LargeWords
  <2>3. StartOf(g) <= c /\ c < EndOf(g) /\ StartOf(h) <= c /\ c < EndOf(h)
    BY <1>1, <2>1, <2>2 DEF PayloadOf
  <2>4. g = h
    BY <1>1, <2>3, MapsRanges, OtherMapping
  <2> QED
    BY <1>4, <2>1, <2>2, <2>4
<1>9. CASE IsLarge(r.n) /\ ~IsLarge(s.n)
  BY <1>1, <1>6, <1>9
<1>10. CASE ~IsLarge(r.n) /\ IsLarge(s.n)
  BY <1>2, <1>5, <1>10
<1> QED
  BY <1>7, <1>8, <1>9, <1>10

(* What is private matters to the frame only.                              *)
LEMMA OtherPrivate ==
  ASSUME NEW m, NEW A, NEW z, NEW U, NEW V, NEW F, NEW w, NEW n, NEW G, NEW K, NEW L,
         Chunks(m, A, z, U, V, F, w, n, G, K), Private(L, A, z, V)
  PROVE  Chunks(m, A, z, U, V, F, w, n, G, L)
BY DEF Chunks

(* What is read: the ends of the regions, the words the client wrote, and  *)
(* words of the sentinels and of the free chunks.                          *)
Ends(gs)    == {End(r) - 1 : r \in gs}
Written(gs) == UNION {r.ptr .. r.ptr + r.n - 1 : r \in {w \in gs : w.data # Unwritten}}
FreeWords(m) == UNION {{f, next(f), prev(f), f + m[f] - 1} : f \in FreeChunksOf(m)}

(* The parts of what is read.                                              *)
LEMMA ReadFact ==
  ASSUME NEW m, NEW gs
  PROVE  /\ \A r \in gs : End(r) - 1 \in Read(m, gs)
         /\ \A r \in gs : r.data # Unwritten => PayloadOf(r) \subseteq Read(m, gs)
<1>1. Read(m, gs) = (0 .. page_size - 1) \cup FreeWords(m) \cup Ends(gs) \cup Written(gs)
  BY DEF Read, FreeWords, Ends, Written
<1>2. PICK W : W = {r.ptr .. r.ptr + r.n - 1 : r \in {w \in gs : w.data # Unwritten}}
  OBVIOUS
<1>3. Written(gs) = UNION W
  BY <1>2 DEF Written
<1>4. ASSUME NEW r \in gs, r.data # Unwritten PROVE PayloadOf(r) \in W
  BY <1>2, <1>4 DEF PayloadOf
<1>5. ASSUME NEW r \in gs PROVE End(r) - 1 \in Ends(gs)
  BY DEF Ends
<1> QED
  BY <1>1, <1>3, <1>4, <1>5

(* Forgetting what is not read leaves the heap and the data as they are.   *)
LEMMA ForgetFact ==
  ASSUME NEW m, NEW A, NEW z, NEW U, NEW w, NEW n, NEW G, NEW K,
         Heap(m, A, z, U, w, n, G, K), n <= MaxFree, NEW gs, Matches(gs, z, U),
         NEW o, o = Forget(m, gs)
  PROVE  /\ Heap(o, A, z, U, w, n, G, K)
         /\ \A r \in gs : r.data # Unwritten =>
              \A c \in PayloadOf(r) : c \in Cells => o[c] = m[c]
<1>1. /\ m \in [Cells -> Words] /\ Ranges(G) /\ Tiles(A, z, G)
      /\ U \subseteq A /\ n \in Nat /\ Walk(m, w, n)
      /\ ListOf(w, n) = A \ U
      /\ \A a \in A \ U : FreeOK(m, z, U, G, a)
  BY AtRest
<1>2. CASE ~Disciplined
  BY <1>2 DEF Forget
<1>3. CASE Disciplined
  <2>1. PICK R : R = Read(m, gs)
    OBVIOUS
  <2>2. o = [c \in Cells |-> IF c \in R THEN m[c] ELSE 0]
    BY <1>3, <2>1 DEF Forget
  <2>3. 0 \in Words
    <3>1. PICK B \in Nat : B = THIS_ALLOCATED_BIT
      BY HeapAssumption
    <3>2. PICK N \in Nat : N < B
      BY <3>1, CellsFact
    <3> QED
      BY <3>1, <3>2 DEF Words, NEXT_ALLOCATED_BIT
  <2>4. o \in [Cells -> Words] /\ \A c \in Cells : c \in R => o[c] = m[c]
    BY <1>1, <2>2, <2>3
  <2>5. \A c \in Nat : c <= 6 => c \in R
    <3>1. PICK b \in Nat : b = page_size /\ b > 6
      BY HeapAssumption
    <3> QED
      BY <2>1, <3>1 DEF Read
  <2>6. FreeChunksOf(m) = A \ U
    BY <1>1, FreeChunksFact
  <2>7. ASSUME NEW a \in A \ U
        PROVE  a \in R /\ a + 1 \in R /\ a + 2 \in R /\ a + z[a] - 1 \in R
    <3>1. m[a] = z[a]
      BY <1>1 DEF FreeOK
    <3>2. {a, next(a), prev(a), a + m[a] - 1} \subseteq R
      BY <2>1, <2>6 DEF Read
    <3> QED
      BY <3>1, <3>2 DEF next, prev
  <2>8. ASSUME NEW a \in U PROVE a + z[a] - 1 \in R
    <3>1. PICK r \in gs : ~IsLarge(r.n) /\ r.ptr = a
      BY DEF Matches, SmallOf
    <3>2. z[a] = calc_alloc_size(r.n)
      BY <3>1 DEF Matches, SmallOf
    <3>3. End(r) - 1 \in R
      BY <2>1, ReadFact
    <3>4. End(r) = r.ptr + calc_alloc_size(r.n)
      BY DEF End
    <3>5. End(r) = a + z[a]
      BY <3>1, <3>2, <3>4, Zenon
    <3>6. a \in Nat /\ z[a] \in Nat
      BY <1>1 DEF Tiles
    <3>7. End(r) - 1 = a + z[a] - 1
      BY <3>5, <3>6
    <3> QED
      BY <3>3, <3>7
  <2>9. ASSUME NEW c \in Cells, o[c] # m[c]
        PROVE  /\ 6 < c
               /\ \A a \in A : a <= c /\ c < a + z[a] =>
                    /\ c # a + z[a] - 1
                    /\ a \in U \/ (c # a /\ c # a + 1 /\ c # a + 2)
    <3>1. c \notin R /\ c \in Nat
      BY <2>4, <2>9, CellsFact
    <3>2. 6 < c
      BY <2>5, <3>1
    <3>3. ASSUME NEW a \in A
          PROVE  /\ c # a + z[a] - 1
                 /\ a \in U \/ (c # a /\ c # a + 1 /\ c # a + 2)
      <4>1. CASE a \in U
        BY <2>8, <3>1, <4>1
      <4>2. CASE a \notin U
        BY <2>7, <3>1, <4>2
      <4> QED
        BY <4>1, <4>2
    <3> QED
      BY <3>2, <3>3
  <2>10. Heap(o, A, z, U, w, n, G, K)
    BY <2>4, <2>9, Quiet
  <2>11. ASSUME NEW r \in gs, r.data # Unwritten, NEW c \in PayloadOf(r), c \in Cells
         PROVE  o[c] = m[c]
    <3>1. c \in R
      BY <2>1, <2>11, ReadFact
    <3> QED
      BY <2>4, <2>11, <3>1
  <2> QED
    BY <2>10, <2>11
<1> QED
  BY <1>2, <1>3

-----------------------------------------------------------------------------
(* The state of the heap between two calls.                                *)

(* The memory m holds chunks that tile the mappings of P, those in use     *)
(* being the small regions of gs.                                          *)
Sound(m, P, gs) ==
  \E A, z, U, w, n : Heap(m, A, z, U, w, n, Arenas(P), {}) /\ Matches(gs, z, U)

(* The regions hold what the client wrote to them.                         *)
Kept(m, gs) ==
  \A r \in gs : r.data # Unwritten => \A c \in PayloadOf(r) : m[c] = r.data

(* There are no more regions than the bound.                               *)
Few(gs) == IsFiniteSet(gs) /\ Cardinality(gs) <= MaxGiven

(* Nor more chunks in use.                                                 *)
LEMMA FewUsed ==
  ASSUME NEW gs, Few(gs), NEW z, NEW U, Matches(gs, z, U)
  PROVE  IsFiniteSet(U) /\ Cardinality(U) <= MaxGiven
<1>1. PICK S : S = SmallOf(gs)
  OBVIOUS
<1>2. IsFiniteSet(S) /\ Cardinality(S) <= Cardinality(gs) /\ Cardinality(S) \in Nat
  <2>1. S \in SUBSET gs
    BY <1>1 DEF SmallOf
  <2> QED
    BY <2>1, FS_Subset, FS_CardinalityType DEF Few
<1>3. PICK h : h = [r \in S |-> r.ptr]
  OBVIOUS
<1>4. U = {r.ptr : r \in S}
  BY <1>1 DEF Matches
<1>5. h \in Surjection(S, U)
  BY <1>3, <1>4 DEF Surjection
<1>6. IsFiniteSet(U) /\ Cardinality(U) <= Cardinality(S)
  BY <1>2, <1>5, FS_Surjection
<1>7. Cardinality(U) \in Nat /\ Cardinality(gs) \in Nat /\ MaxGiven \in Nat
  BY <1>6, FS_CardinalityType, HeapAssumption DEF Few
<1> QED
  BY <1>2, <1>6, <1>7 DEF Few

(* Private words may be left out.                                          *)
LEMMA NonePrivate ==
  ASSUME NEW m, NEW A, NEW z, NEW U, NEW w, NEW n, NEW G, NEW K,
         Heap(m, A, z, U, w, n, G, K)
  PROVE  Heap(m, A, z, U, w, n, G, {})
<1>1. Private({}, A, z, U)
  BY DEF Private
<1> QED
  BY <1>1, OtherPrivate DEF Heap

(* After a call that left the heap at rest, what is not read is forgotten. *)
LEMMA Settle ==
  ASSUME NEW m, NEW A, NEW z, NEW U, NEW w, NEW n, NEW P, NEW K,
         Heap(m, A, z, U, w, n, Arenas(P), K), NEW gs, Few(gs), Matches(gs, z, U),
         \A r \in gs : PayloadOf(r) \subseteq Cells,
         Kept(m, gs), NEW o, o = Forget(m, gs)
  PROVE  Sound(o, P, gs) /\ Kept(o, gs)
<1>1. n <= MaxFree
  BY FewUsed, FreeCount
<1>2. Heap(o, A, z, U, w, n, Arenas(P), K)
  BY <1>1, ForgetFact
<1>3. Heap(o, A, z, U, w, n, Arenas(P), {})
  BY <1>2, NonePrivate
<1>4. Sound(o, P, gs)
  BY <1>3 DEF Sound
<1>5. ASSUME NEW r \in gs, r.data # Unwritten, NEW c \in PayloadOf(r)
      PROVE  o[c] = r.data
  <2>1. c \in Cells
    OBVIOUS
  <2>2. o[c] = m[c]
    BY <1>1, <1>5, <2>1, ForgetFact
  <2> QED
    BY <1>5, <2>2 DEF Kept
<1> QED
  BY <1>4, <1>5 DEF Kept

(* The words of a region are in the memory.                                *)
LEMMA PayloadCells ==
  ASSUME NEW P, MapsOK(P), NEW gs, RegionsOK(gs, P), NEW m, Sound(m, P, gs)
  PROVE  \A r \in gs : PayloadOf(r) \subseteq Cells
<1>1. PICK A, z, U, w, n : Heap(m, A, z, U, w, n, Arenas(P), {}) /\ Matches(gs, z, U)
  BY DEF Sound
<1>2. Tiles(A, z, Arenas(P)) /\ U \subseteq A
  BY <1>1, AtRest
<1> QED
  BY <1>1, <1>2, PayloadWords

(* The blank memory is a heap without mappings.                            *)
LEMMA BlankSound == BlankMem \in [Cells -> Words] /\ Sound(BlankMem, {}, {})
<1>1. /\ 1 \in Cells /\ 2 \in Cells /\ 3 \in Cells /\ 5 \in Cells /\ 6 \in Cells
      /\ 0 \in Words /\ 1 \in Words /\ 4 \in Words
  <2>1. PICK N \in Nat : N = page_size * (MaxPage + 1) /\ Cells = 0 .. N - 1
    BY CellsFact
  <2>2. page_size * 1 <= page_size * (MaxPage + 1) /\ page_size * 1 = page_size
    BY HeapAssumption, MulMono
  <2>3. 6 < N /\ N < THIS_ALLOCATED_BIT
    BY <2>1, <2>2, HeapAssumption
  <2> QED
    BY <2>1, <2>3, HeapAssumption DEF Words, NEXT_ALLOCATED_BIT
<1>2. PICK m : m = BlankMem
  OBVIOUS
<1>3. /\ m \in [Cells -> Words]
      /\ m[2] = 4 /\ m[6] = 1
  BY <1>1, <1>2 DEF BlankMem, next, prev, free_head, free_tail
<1>4. PICK w : w = [i \in 0 .. 1 |-> IF i = 0 THEN 1 ELSE 4]
  OBVIOUS
<1>5. Apart(w, 0)
  BY <1>1, <1>4 DEF Apart, free_head, free_tail
<1>6. Walk(m, w, 0)
  BY <1>3, <1>4, <1>5 DEF Walk, next, prev
<1>7. PICK z : z = [i \in Nat |-> 0]
  OBVIOUS
<1>8. Ranges({}) /\ Tiles({}, z, {}) /\ Private({}, {}, z, {})
  BY <1>7 DEF Ranges, Tiles, Private
<1>9. ListOf(w, 0) = {}
  BY DEF ListOf
<1>10. Chunks(m, {}, z, {}, {}, {} \ {}, w, 0, {}, {})
  BY <1>3, <1>6, <1>8, <1>9 DEF Chunks
<1>11. Arenas({}) = {} /\ Matches({}, z, {})
  BY DEF Arenas, Matches, SmallOf
<1>12. Heap(m, {}, z, {}, w, 0, Arenas({}), {})
  BY <1>10, <1>11 DEF Heap
<1> QED
  BY <1>2, <1>3, <1>11, <1>12 DEF Sound

(* The mapping g of k pages from p on can be added to those of P.          *)
IsNewMapping(g, P, p, k) ==
  /\ g \in MappingType /\ g \notin P /\ MapsOK(P \cup {g})
  /\ PagesOf(g) = p .. p + k - 1

(* A mapping on pages that were not mapped shares none with the others.    *)
LEMMA NewMapping ==
  ASSUME NEW P, MapsOK(P), NEW M, \A h \in P : PagesOf(h) \subseteq M,
         NEW p \in 1 .. MaxPage, NEW k \in Nat \ {0}, NEW l \in BOOLEAN,
         p .. p + k - 1 \subseteq (1 .. MaxPage) \ M,
         NEW g, g = Mapping(p, k, l)
  PROVE  IsNewMapping(g, P, p, k)
<1>1. MaxPage \in Nat
  BY HeapAssumption
<1>2. g.first = p /\ g.count = k /\ g.large = l /\ g = [first |-> p, count |-> k, large |-> l]
  BY DEF Mapping
<1>3. PagesOf(g) = p .. p + k - 1
  BY <1>2 DEF PagesOf
<1>4. p \in PagesOf(g) /\ p + k - 1 \in PagesOf(g)
  BY <1>1, <1>3
<1>5. k \in 1 .. MaxPage
  BY <1>1, <1>3, <1>4
<1>6. g \in MappingType
  BY <1>2, <1>5 DEF MappingType
<1>7. \A h \in P : PagesOf(g) \cap PagesOf(h) = {}
  BY <1>3
<1>8. g \notin P
  BY <1>4, <1>7
<1>9. MapsOK(P \cup {g})
  BY <1>3, <1>6, <1>7 DEF MapsOK
<1> QED
  BY <1>3, <1>6, <1>8, <1>9 DEF IsNewMapping

(* A large request is for at least a page.                                 *)
LEMMA LargeCount ==
  ASSUME NEW n \in Nat
  PROVE  LargePages(n) \in Nat \ {0}
<1>1. PICK b \in Nat \ {0} : b = page_size
  BY HeapAssumption
<1>2. PICK H \in Nat \ {0} : H = SIZEOF_PAGE_HEADER
  BY HeapAssumption
<1>3. PICK s \in Nat : s = calc_alloc_size(n)
  BY AllocSize
<1>4. PICK x \in Nat : x = s + H + b - 1 /\ x >= b
  BY <1>1, <1>2
<1>5. LargePages(n) = x \div b
  BY <1>1, <1>2, <1>3, <1>4 DEF LargePages
<1>6. x \div b \in Nat /\ x % b \in Nat /\ x % b < b /\ x = (b * (x \div b)) + (x % b)
  BY DivMod
<1>7. x \div b # 0
  <2> SUFFICES ASSUME x \div b = 0 PROVE FALSE
    OBVIOUS
  <2>1. b * 0 = 0
    OBVIOUS
  <2> QED
    BY <1>4, <1>6, <2>1
<1> QED
  BY <1>5, <1>6, <1>7

(* A region lies in a mapping: a small one in an arena, a large one in a   *)
(* mapping of its own.                                                     *)
LEMMA RegionInMapping ==
  ASSUME NEW P, MapsOK(P), NEW gs, RegionsOK(gs, P), NEW m, Sound(m, P, gs),
         NEW r \in gs
  PROVE  \E h \in P : /\ StartOf(h) <= r.ptr /\ End(r) <= EndOf(h)
                      /\ StartOf(h) \in Nat /\ EndOf(h) \in Nat /\ EndOf(h) - 1 \in Cells
                      /\ r.ptr \in Nat /\ r.n \in Nat /\ End(r) \in Nat
                      /\ r.ptr + r.n < End(r)
                      /\ IF IsLarge(r.n) THEN h.large /\ r.ptr = StartOf(h) ELSE ~h.large
<1>1. Ranges(P) /\ Ranges(Arenas(P))
  BY MapsRanges
<1>2. r.ptr \in Nat /\ r.n \in Nat
  BY HeapAssumption DEF RegionsOK, RegionType
<1>3. calc_alloc_size(r.n) \in Nat /\ r.n < calc_alloc_size(r.n)
  BY <1>2, AllocSize
<1>4. End(r) \in Nat /\ r.ptr + r.n < End(r)
  BY <1>2, <1>3 DEF End
<1>5. CASE IsLarge(r.n)
  <2>1. PICK g \in P : g.large /\ r.ptr = StartOf(g) /\ End(r) <= EndOf(g)
    BY <1>5, LargeWords
  <2> QED
    BY <1>1, <1>2, <1>4, <1>5, <2>1 DEF Ranges
<1>6. CASE ~IsLarge(r.n)
  <2>1. PICK A, z, U, w, n : Heap(m, A, z, U, w, n, Arenas(P), {}) /\ Matches(gs, z, U)
    BY DEF Sound
  <2>2. Tiles(A, z, Arenas(P)) /\ U \subseteq A
    BY <2>1, AtRest
  <2>3. r.ptr \in A /\ z[r.ptr] = calc_alloc_size(r.n)
    BY <1>6, <2>1, <2>2 DEF Matches, SmallOf
  <2>4. PICK h \in Arenas(P) : StartOf(h) <= r.ptr /\ r.ptr + z[r.ptr] <= EndOf(h)
    BY <2>2, <2>3 DEF Tiles
  <2>5. h \in P /\ ~h.large /\ End(r) <= EndOf(h)
    BY <2>3, <2>4 DEF Arenas, End
  <2> QED
    BY <1>1, <1>2, <1>4, <1>6, <2>4, <2>5 DEF Ranges
<1> QED
  BY <1>5, <1>6

(* One more region, at an address of its own.                              *)
LEMMA AddRegion ==
  ASSUME NEW P, NEW Q, P \subseteq Q, NEW gs, RegionsOK(gs, P), NEW f \in Nat,
         NEW n \in Size, \A r \in gs : r.ptr # f,
         IsLarge(n) => \E g \in Q : g.large /\ f = StartOf(g) /\ g.count = LargePages(n)
  PROVE  RegionsOK(gs \cup {Region(f, n)}, Q)
<1>1. PICK r0 : r0 = Region(f, n)
  OBVIOUS
<1>2. r0.ptr = f /\ r0.n = n /\ r0 \in RegionType
  BY <1>1 DEF Region, RegionType
<1> QED
  BY <1>1, <1>2 DEF RegionsOK

(* There is room for it.                                                   *)
LEMMA AddFew ==
  ASSUME NEW gs, Few(gs), Cardinality(gs) < MaxGiven, NEW r
  PROVE  Few(gs \cup {r})
<1>1. IsFiniteSet(gs) /\ Cardinality(gs) \in Nat /\ MaxGiven \in Nat
  BY FS_CardinalityType, HeapAssumption DEF Few
<1>2. /\ IsFiniteSet(gs \cup {r})
      /\ Cardinality(gs \cup {r}) = IF r \in gs THEN Cardinality(gs) ELSE Cardinality(gs) + 1
  BY <1>1, FS_AddElement
<1> QED
  BY <1>1, <1>2 DEF Few

(* One less.                                                               *)
LEMMA DropFew ==
  ASSUME NEW gs, Few(gs), NEW r \in gs
  PROVE  Few(gs \ {r}) /\ Cardinality(gs \ {r}) < MaxGiven
<1>1. IsFiniteSet(gs) /\ Cardinality(gs) \in Nat /\ MaxGiven \in Nat /\ Cardinality(gs) <= MaxGiven
  BY FS_CardinalityType, HeapAssumption DEF Few
<1>2. /\ IsFiniteSet(gs \ {r}) /\ Cardinality(gs \ {r}) = Cardinality(gs) - 1
  BY <1>1, FS_RemoveElement
<1> QED
  BY <1>1, <1>2 DEF Few

(* What the client holds once a region was handed out that it did not      *)
(* write yet.                                                              *)
LEMMA AddKept ==
  ASSUME NEW m, NEW gs, Kept(m, gs), NEW f, NEW n
  PROVE  Kept(m, gs \cup {Region(f, n)})
<1>1. PICK r0 : r0 = Region(f, n)
  OBVIOUS
<1>2. r0.data = Unwritten
  BY <1>1 DEF Region
<1> QED
  BY <1>1, <1>2 DEF Kept

(* A large mapping changes no chunk.                                       *)
LEMMA LargeAdded ==
  ASSUME NEW P, MapsOK(P), NEW gs, RegionsOK(gs, P), NEW m, Sound(m, P, gs), Kept(m, gs),
         NEW n \in Size, IsLarge(n), NEW g \in MappingType, g.large, g \notin P,
         g.count = LargePages(n), MapsOK(P \cup {g})
  PROVE  /\ RegionsOK(gs \cup {Region(StartOf(g), n)}, P \cup {g})
         /\ Sound(m, P \cup {g}, gs \cup {Region(StartOf(g), n)})
         /\ Kept(m, gs \cup {Region(StartOf(g), n)})
<1>1. PICK Q : Q = P \cup {g}
  OBVIOUS
<1>2. PICK f \in Nat, e \in Nat : f = StartOf(g) /\ e = EndOf(g) /\ f < e
  BY <1>1, MapsRanges DEF Ranges
<1>3. ASSUME NEW r \in gs PROVE r.ptr # f
  <2>1. PICK h \in P : /\ StartOf(h) <= r.ptr /\ End(r) <= EndOf(h)
                       /\ StartOf(h) \in Nat /\ EndOf(h) \in Nat
                       /\ r.ptr \in Nat /\ r.n \in Nat /\ End(r) \in Nat
                       /\ r.ptr + r.n < End(r)
    BY RegionInMapping
  <2>2. StartOf(h) <= r.ptr /\ r.ptr < EndOf(h)
    BY <2>1
  <2>3. r.ptr = f => h = g
    BY <1>1, <1>2, <2>1, <2>2, MapsRanges, OtherMapping
  <2> QED
    BY <2>3
<1>4. RegionsOK(gs \cup {Region(f, n)}, Q)
  BY <1>1, <1>2, <1>3, AddRegion
<1>5. Kept(m, gs \cup {Region(f, n)})
  BY AddKept
<1>6. Arenas(Q) = Arenas(P)
  BY <1>1 DEF Arenas
<1>7. SmallOf(gs \cup {Region(f, n)}) = SmallOf(gs)
  BY DEF SmallOf, Region
<1>8. Sound(m, Q, gs \cup {Region(f, n)})
  BY <1>6, <1>7, Zenon DEF Sound, Matches
<1> QED
  BY <1>1, <1>2, <1>4, <1>5, <1>8

(* The chunk at f is handed out: the end of alloc.                         *)
LEMMA AllocDone ==
  ASSUME NEW P, MapsOK(P), NEW gs, RegionsOK(gs, P), Few(gs), Cardinality(gs) < MaxGiven,
         NEW m, Kept(m, gs), NEW A, NEW z, NEW U, NEW w, NEW c, NEW f,
         Matches(gs, z, U), Held(m, A, z, U, w, c, Arenas(P), Payloads(gs), f),
         m[f] = z[f], NEW n \in Size, ~IsLarge(n), calc_alloc_size(n) <= z[f],
         Limits(m, P, f, calc_alloc_size(n)),
         NEW hs, hs = gs \cup {Region(f, n)},
         NEW o, o = Forget(Carve(m, f, calc_alloc_size(n)), hs)
  PROVE  RegionsOK(hs, P) /\ Few(hs) /\ Sound(o, P, hs) /\ Kept(o, hs)
<1>1. PICK sz \in Nat : sz = calc_alloc_size(n)
  BY AllocSize, HeapAssumption
<1>2. PICK G : G = Arenas(P)
  OBVIOUS
<1>3. Ranges(P) /\ Ranges(G)
  BY <1>2, MapsRanges
<1>4. /\ Tiles(A, z, G) /\ U \subseteq A /\ f \in A /\ f \notin U
  BY <1>2 DEF Held, Chunks
<1>5. /\ f \in Nat /\ z[f] \in Nat /\ 4 <= z[f]
  BY <1>3, <1>4, TileWords
<1>6. PICK h \in G : StartOf(h) <= f /\ f + z[f] <= EndOf(h)
  BY <1>4 DEF Tiles
<1>7. StartOf(h) <= f /\ f < EndOf(h)
  <2>1. EndOf(h) \in Nat
    BY <1>3 DEF Ranges
  <2> QED
    BY <1>5, <1>6, <2>1
<1>8. h \in P /\ ~h.large
  BY <1>2 DEF Arenas
<1>9. ASSUME NEW g \in P, f = StartOf(g) PROVE g \in G
  <2>1. StartOf(g) <= f /\ f < EndOf(g)
    BY <1>3, <1>5, <1>9 DEF Ranges
  <2>2. g = h
    BY <1>3, <1>5, <1>7, <1>8, <2>1, OtherMapping
  <2> QED
    BY <2>2
<1>10. PageFirst(f) => \E g \in G : f = StartOf(g)
  BY <1>9 DEF Limits
<1>11. \E g \in G : f + z[f] = EndOf(g)
  BY <1>2 DEF Limits, Arenas
<1>12. 4 <= sz /\ sz <= z[f] /\ z[f] - sz \notin 1 .. 3
  BY <1>1 DEF Limits, MinChunk
<1>13. PICK m1 : m1 = Carve(m, f, sz)
  OBVIOUS
<1>14. /\ \A i \in Payloads(gs) : m1[i] = m[i]
       /\ \E B, y, v, p :
            /\ Heap(m1, B, y, U \cup {f}, v, p, G, Payloads(gs))
            /\ y[f] = sz /\ \A a \in U : y[a] = z[a]
  <2>1. PICK K : K = Payloads(gs)
    OBVIOUS
  <2>2. Carvable(m, A, z, U, w, c, G, K, f, sz)
    BY <1>2, <1>10, <1>11, <1>12, <2>1 DEF Carvable
  <2>3. Carved(m, m1, z, U, G, K, f, sz)
    BY <1>13, <2>2, CarveFact
  <2> QED
    BY <2>1, <2>3 DEF Carved, Same
<1>15. PICK B, y, v, p :
         /\ Heap(m1, B, y, U \cup {f}, v, p, G, Payloads(gs))
         /\ y[f] = sz /\ \A a \in U : y[a] = z[a]
  BY <1>14
<1>16. ASSUME NEW r \in gs PROVE r.ptr # f
  <2>1. CASE ~IsLarge(r.n)
    <3>1. r.ptr \in U
      BY <2>1 DEF Matches, SmallOf
    <3> QED
      BY <1>4, <3>1
  <2>2. CASE IsLarge(r.n)
    <3>1. PICK g \in P : g.large /\ r.ptr = StartOf(g)
      BY <2>2 DEF RegionsOK
    <3> QED
      BY <1>2, <1>9, <3>1 DEF Arenas
  <2> QED
    BY <2>1, <2>2
<1>17. RegionsOK(hs, P)
  BY <1>5, <1>16, AddRegion
<1>18. Few(hs)
  BY AddFew
<1>19. Matches(hs, y, U \cup {f})
  <2>1. PICK r0 : r0 = Region(f, n)
    OBVIOUS
  <2>2. r0.ptr = f /\ r0.n = n
    BY <2>1 DEF Region
  <2>3. SmallOf(hs) = SmallOf(gs) \cup {r0}
    BY <2>1, <2>2 DEF SmallOf
  <2>4. U = {r.ptr : r \in SmallOf(gs)} /\ \A r \in SmallOf(gs) : z[r.ptr] = calc_alloc_size(r.n)
    BY DEF Matches
  <2>5. ASSUME NEW r \in SmallOf(hs)
        PROVE  r.ptr \in U \cup {f} /\ y[r.ptr] = calc_alloc_size(r.n)
    <3>1. CASE r = r0
      BY <1>1, <1>15, <2>2, <3>1
    <3>2. CASE r \in SmallOf(gs)
      BY <1>15, <2>4, <3>2
    <3> QED
      BY <2>3, <3>1, <3>2
  <2>6. ASSUME NEW a \in U \cup {f} PROVE \E r \in SmallOf(hs) : r.ptr = a
    BY <2>2, <2>3, <2>4
  <2>7. U \cup {f} = {r.ptr : r \in SmallOf(hs)}
    BY <2>5, <2>6
  <2> QED
    BY <2>5, <2>7 DEF Matches
<1>20. Kept(m1, gs)
  <2> SUFFICES ASSUME NEW r \in gs, r.data # Unwritten, NEW i \in PayloadOf(r)
               PROVE  m1[i] = r.data
    BY DEF Kept
  <2>1. i \in Payloads(gs)
    BY DEF Payloads
  <2> QED
    BY <1>14, <2>1 DEF Kept
<1>21. Kept(m1, hs)
  BY <1>20, AddKept
<1>22. \A r \in hs : PayloadOf(r) \subseteq Cells
  <2>1. /\ Tiles(B, y, G) /\ U \cup {f} \subseteq B
    BY <1>15, AtRest
  <2> QED
    BY <1>2, <1>17, <1>19, <2>1, PayloadWords
<1> QED
  BY <1>1, <1>2, <1>13, <1>15, <1>17, <1>18, <1>19, <1>21, <1>22, Settle

(* A chunk of the free list is handed out.                                 *)
LEMMA FitDone ==
  ASSUME NEW P, MapsOK(P), NEW gs, RegionsOK(gs, P), Few(gs), Cardinality(gs) < MaxGiven,
         NEW m, Kept(m, gs), Sound(m, P, gs), NEW n \in Size, ~IsLarge(n),
         NEW k \in 0 .. MaxFree, StopsFirst(m, calc_alloc_size(n), k),
         NEW f, f = Nodes(m)[k], f # free_tail, Limits(m, P, f, calc_alloc_size(n)),
         NEW hs, hs = gs \cup {Region(f, n)},
         NEW o, o = Forget(Carve(del_free(m, f), f, calc_alloc_size(n)), hs)
  PROVE  RegionsOK(hs, P) /\ Few(hs) /\ Sound(o, P, hs) /\ Kept(o, hs)
<1>1. PICK G : G = Arenas(P)
  OBVIOUS
<1>2. PICK A, z, U, w, c : Heap(m, A, z, U, w, c, G, {}) /\ Matches(gs, z, U)
  BY <1>1 DEF Sound
<1>3. /\ Ranges(G) /\ Tiles(A, z, G) /\ U \subseteq A /\ c \in Nat /\ Walk(m, w, c)
      /\ Apart(w, c) /\ ListOf(w, c) = A \ U
      /\ \A a \in A \ U : FreeOK(m, z, U, G, a)
  BY <1>2, AtRest
<1>4. c <= MaxFree
  BY <1>2, FewUsed, FreeCount
<1>5. f = IF k <= c THEN w[k + 1] ELSE free_tail
  BY <1>3, <1>4, NodesFact
<1>6. k + 1 \in 1 .. c /\ f = w[k + 1]
  <2>1. MaxFree \in Nat
    BY HeapAssumption
  <2>2. w[c + 1] = free_tail
    BY <1>3 DEF Apart
  <2> QED
    BY <1>3, <1>5, <2>1, <2>2
<1>7. f \in A \ U
  BY <1>3, <1>6 DEF ListOf
<1>8. m[f] = z[f]
  BY <1>3, <1>7 DEF FreeOK
<1>9. calc_alloc_size(n) <= z[f]
  <2>1. m[f] >= calc_alloc_size(n)
    BY DEF StopsFirst, Stops
  <2>2. calc_alloc_size(n) \in Nat /\ z[f] \in Nat
    BY <1>3, <1>7, AllocSize, HeapAssumption DEF Tiles
  <2> QED
    BY <1>8, <2>1, <2>2
<1>10. PICK K : K = Payloads(gs)
  OBVIOUS
<1>11. Private(K, A, z, U)
  <2>1. \A r \in gs : ~IsLarge(r.n) => r.ptr \in U
    BY <1>2 DEF Matches, SmallOf
  <2> QED
    BY <1>1, <1>2, <1>3, <1>10, <2>1, PayloadPrivate
<1>12. PICK F : F = A \ U
  OBVIOUS
<1>13. Chunks(m, A, z, U, U, F, w, c, G, K)
  BY <1>2, <1>11, <1>12, OtherPrivate DEF Heap
<1>14. PICK m1 : m1 = del_free(m, f)
  OBVIOUS
<1>15. Grabbed(m, m1, A, z, U, U, F, w, c, G, K, k + 1)
  BY <1>6, <1>13, <1>14, Grab
<1>16. PICK v : v = Cut(w, c, k + 1)
  OBVIOUS
<1>17. /\ Chunks(m1, A, z, U, U, F \ {f}, v, c - 1, G, K)
       /\ ListOf(v, c - 1) = ListOf(w, c) \ {f}
       /\ Same(m, m1, K) /\ m1[f] = m[f]
  BY <1>6, <1>15, <1>16 DEF Grabbed
<1>18. F \ {f} = A \ (U \cup {f})
  BY <1>12
<1>19. Held(m1, A, z, U, v, c - 1, G, K, f)
  BY <1>7, <1>17, <1>18 DEF Held
<1>20. Limits(m1, P, f, calc_alloc_size(n))
  BY <1>17 DEF Limits
<1>21. Kept(m1, gs)
  <2> SUFFICES ASSUME NEW r \in gs, r.data # Unwritten, NEW i \in PayloadOf(r)
               PROVE  m1[i] = r.data
    BY DEF Kept
  <2>1. i \in K
    BY <1>10 DEF Payloads
  <2>2. m1[i] = m[i]
    BY <1>17, <2>1 DEF Same
  <2> QED
    BY <2>2 DEF Kept
<1> QED
  BY <1>1, <1>2, <1>8, <1>9, <1>10, <1>14, <1>17, <1>19, <1>20, <1>21, AllocDone

(* The powers of two grow faster than their exponents.                     *)
LEMMA Powers ==
  \A i \in 0 .. MaxPage : 2 ^ i \in Nat /\ i + 1 <= 2 ^ i
<1>1. PICK M \in Nat : M = MaxPage
  BY HeapAssumption
<1> DEFINE Good(i) == 2 ^ i \in Nat /\ i + 1 <= 2 ^ i
<1>2. PICK T : T = {i \in 0 .. M : ~Good(i)}
  OBVIOUS
<1>3. T \in SUBSET Nat
  BY <1>2
<1>4. SUFFICES ASSUME T # {} PROVE FALSE
  BY <1>1, <1>2
<1>5. PICK x \in T : \A y \in T : x <= y
  BY <1>3, <1>4, LeastOf
<1>6. x \in 0 .. M /\ ~Good(x)
  BY <1>2, <1>5
<1>7. x # 0
  <2>1. 2 ^ 0 = 1
    BY PowersOfTwo
  <2>2. Good(0)
    BY <2>1
  <2> QED
    BY <1>6, <2>2
<1>8. PICK j \in 0 .. M : j + 1 = x
  <2>1. x - 1 \in 0 .. M /\ (x - 1) + 1 = x
    BY <1>6, <1>7
  <2> QED
    BY <2>1
<1>9. Good(j)
  <2>1. j \notin T
    BY <1>5, <1>6, <1>8
  <2> QED
    BY <1>2, <2>1
<1>10. PICK u \in Nat : u = 2 ^ j /\ j + 1 <= u
  BY <1>9
<1>11. 2 ^ (j + 1) = 2 * u
  BY <1>1, <1>10, PowersOfTwo
<1>12. 2 ^ x = 2 * u
  BY <1>8, <1>11
<1>13. 2 * u \in Nat /\ x + 1 <= 2 * u
  BY <1>8, <1>10
<1>14. Good(x)
  BY <1>12, <1>13
<1> QED
  BY <1>6, <1>14

(* The sizes of the mappings stay powers of two, and within the bound.     *)
LEMMA NextSize ==
  ASSUME NEW i \in 0 .. MaxPage, NEW s, s = page_size * 2 ^ i,
         s \div page_size <= MaxPage
  PROVE  /\ s \div page_size \in Nat \ {0}
         /\ (s \div page_size) * page_size = s
         /\ 2 * s \in {page_size * 2 ^ j : j \in 0 .. MaxPage}
<1>1. PICK b \in Nat \ {0} : b = page_size
  BY HeapAssumption
<1>2. PICK u \in Nat : u = 2 ^ i /\ i + 1 <= u
  BY Powers
<1>3. s = b * u
  BY <1>1, <1>2
<1>4. b * u + 0 = b * u /\ (b * u + 0) \div b = u
  BY DivModUnique
<1>5. s \div page_size = u
  BY <1>1, <1>3, <1>4
<1>6. u # 0 /\ i + 1 \in 0 .. MaxPage
  BY <1>2, <1>5, HeapAssumption
<1>7. 2 ^ (i + 1) = 2 * u
  BY <1>2, PowersOfTwo
<1>8. 2 * s = b * (2 * u)
  <2>1. 2 * (b * u) = b * (2 * u)
    OBVIOUS
  <2> QED
    BY <1>3, <2>1
<1>9. 2 * s = page_size * 2 ^ (i + 1)
  BY <1>1, <1>7, <1>8
<1>10. u * b = b * u
  OBVIOUS
<1> QED
  BY <1>1, <1>3, <1>5, <1>6, <1>9, <1>10

Stored(m, f, l) == [m EXCEPT ![f] = l]

(* The chunk at f of l words is new, and in hand.                          *)
Fresh(m, o, Q, gs, A, y, U, w, c, f, l) ==
  /\ Held(o, A \cup {f}, y, U, w, c, Arenas(Q), Payloads(gs), f)
  /\ Matches(gs, y, U) /\ y[f] = l /\ o[f] = l
  /\ Same(m, o, Payloads(gs))

(* A new mapping is one free chunk, in the hands of alloc.                 *)
LEMMA FreshHeld ==
  ASSUME NEW P, MapsOK(P), NEW gs, RegionsOK(gs, P), NEW m,
         NEW A, NEW z, NEW U, NEW w, NEW c, Heap(m, A, z, U, w, c, Arenas(P), {}),
         Matches(gs, z, U), NEW g \in MappingType, ~g.large, g \notin P,
         NEW Q, Q = P \cup {g}, MapsOK(Q), NEW l \in Nat, 4 <= l,
         NEW f, f = StartOf(g), f + l = EndOf(g),
         NEW o, o = Stored(m, f, l), NEW y, y = Stored(z, f, l)
  PROVE  Fresh(m, o, Q, gs, A, y, U, w, c, f, l)
<1>1. PICK G : G = Arenas(P)
  OBVIOUS
<1>2. /\ m \in [Cells -> Words] /\ Ranges(G) /\ Tiles(A, z, G)
      /\ U \subseteq A /\ c \in Nat /\ Walk(m, w, c) /\ ListOf(w, c) = A \ U
      /\ \A a \in U : UsedOK(m, z, U, G, a)
      /\ \A a \in A \ U : FreeOK(m, z, U, G, a)
  BY <1>1, AtRest
<1>3. PICK H : H = Arenas(Q)
  OBVIOUS
<1>4. H = G \cup {g} /\ g \notin G
  BY <1>1, <1>3 DEF Arenas
<1>5. Ranges(H) /\ Ranges(Q)
  BY <1>3, MapsRanges
<1>6. /\ Tiles(A \cup {f}, y, G \cup {g}) /\ f \notin A
      /\ \A a \in A : a + z[a] # f
  <2>1. Ranges(G \cup {g})
    BY <1>4, <1>5
  <2> QED
    BY <1>2, <1>4, <2>1, TilesNew DEF Stored
<1>7. Tiles(A \cup {f}, y, H)
  BY <1>4, <1>6
<1>8. z \in [Nat -> Nat] /\ f \in Nat /\ f < EndOf(g) /\ EndOf(g) \in Nat /\ EndOf(g) - 1 \in Cells
  BY <1>2, <1>4, <1>5 DEF Tiles, Ranges
<1>9. y[f] = l /\ \A a \in A : y[a] = z[a]
  BY <1>2, <1>6, <1>8 DEF Tiles, Stored
<1>10. ASSUME NEW a \in U PROVE UsedOK(m, y, U, H, a)
  <2>1. UsedOK(m, z, U, G, a) /\ y[a] = z[a]
    BY <1>2, <1>9, <1>10
  <2> QED
    BY <1>4, <2>1 DEF UsedOK
<1>11. ASSUME NEW a \in A \ U PROVE FreeOK(m, y, U, H, a)
  <2>1. FreeOK(m, z, U, G, a) /\ y[a] = z[a]
    BY <1>2, <1>9, <1>11
  <2> QED
    BY <1>4, <2>1 DEF FreeOK
<1>12. Matches(gs, y, U)
  <2>1. U = {r.ptr : r \in SmallOf(gs)} /\ \A r \in SmallOf(gs) : z[r.ptr] = calc_alloc_size(r.n)
    BY DEF Matches
  <2>2. \A r \in SmallOf(gs) : r.ptr \in A
    BY <1>2, <2>1
  <2> QED
    BY <1>9, <2>1, <2>2 DEF Matches
<1>13. RegionsOK(gs, Q)
  BY DEF RegionsOK
<1>14. PICK K : K = Payloads(gs)
  OBVIOUS
<1>15. Private(K, A \cup {f}, y, U)
  <2>1. \A r \in gs : ~IsLarge(r.n) => r.ptr \in U
    BY DEF Matches, SmallOf
  <2>2. U \subseteq A \cup {f}
    BY <1>2
  <2> QED
    BY <1>3, <1>7, <1>12, <1>13, <1>14, <2>1, <2>2, PayloadPrivate
<1>16. PICK B : B = A \cup {f}
  OBVIOUS
<1>17. PICK F : F = A \ U
  OBVIOUS
<1>18. Chunks(m, B, y, U, U, F, w, c, H, K)
  <2>1. /\ U \subseteq B /\ F \subseteq ListOf(w, c) /\ ListOf(w, c) \subseteq B
        /\ U \cap ListOf(w, c) = {}
    BY <1>2, <1>16, <1>17
  <2> QED
    BY <1>2, <1>5, <1>7, <1>10, <1>11, <1>15, <1>16, <1>17, <2>1 DEF Chunks
<1>19. /\ f \in B /\ f \notin U /\ f \notin F /\ f \notin ListOf(w, c)
  BY <1>2, <1>6, <1>16, <1>17
<1>20. f \in Cells
  BY SMTT(30), <1>8, CellsFact
<1>21. l \in Words
  <2>1. PICK N \in Nat : N = page_size * (MaxPage + 1) /\ Cells = 0 .. N - 1
    BY CellsFact
  <2>2. PICK T \in Nat : T = THIS_ALLOCATED_BIT /\ N < T
    BY <2>1, HeapAssumption
  <2>3. l <= N
    BY SMTT(30), <1>8, <2>1
  <2> QED
    BY <2>2, <2>3 DEF Words, NEXT_ALLOCATED_BIT
<1>22. o \in [Cells -> Words] /\ o[f] = l /\ \A i \in Cells : i # f => o[i] = m[i]
  BY <1>2, <1>20, <1>21 DEF Stored
<1>23. \A i \in Cells : o[i] # m[i] =>
         /\ f <= i /\ i < f + y[f]
         /\ f \in ListOf(w, c) => i # f + 1 /\ i # f + 2
  BY <1>8, <1>9, <1>19, <1>22
<1>24. Chunks(o, B, y, U, U, F, w, c, H, K) /\ \A i \in K : o[i] = m[i]
  <2>1. o \in [Cells -> Words]
    BY <1>22
  <2>2. Chunks(o, B, y, U, U, F, w, c, H, K)
    BY <1>18, <1>19, <1>23, <2>1, Poke
  <2>3. \A i \in K : o[i] = m[i]
    BY <1>18, <1>19, <1>23, <2>1, Poke
  <2> QED
    BY <2>2, <2>3
<1>25. F = B \ (U \cup {f})
  BY <1>6, <1>16, <1>17
<1>26. Held(o, B, y, U, w, c, H, K, f)
  BY <1>19, <1>24, <1>25 DEF Held
<1> QED
  BY <1>3, <1>9, <1>12, <1>14, <1>16, <1>22, <1>24, <1>26 DEF Same, Fresh

(* A small request fits in a new mapping.                                  *)
LEMMA SmallFits ==
  ASSUME NEW n \in Nat, ~IsLarge(n), NEW g \in MappingType,
         PagesOf(g) \subseteq 1 .. MaxPage, NEW l, l = g.count * page_size - SIZEOF_PAGE_HEADER
  PROVE  l \in Nat /\ calc_alloc_size(n) <= l /\ StartOf(g) + l = EndOf(g)
<1>1. PICK b \in Nat \ {0} : b = page_size
  BY HeapAssumption
<1>2. PICK H \in Nat : H = SIZEOF_PAGE_HEADER
  BY HeapAssumption
<1>3. PICK d \in Nat : d = Margin /\ H < d /\ d < b
  BY <1>1, <1>2, HeapAssumption
<1>4. PICK s \in Nat : s = calc_alloc_size(n)
  BY AllocSize
<1>5. s < b - d
  BY <1>1, <1>3, <1>4 DEF IsLarge
<1>6. PICK p \in Nat, k \in Nat : p = g.first /\ k = g.count /\ 1 <= k
  BY HeapAssumption DEF MappingType
<1>7. b * 1 <= b * k /\ b * 1 = b /\ k * b = b * k
  BY <1>6, MulMono
<1>8. PICK v \in Nat : v = b * k
  OBVIOUS
<1>9. l = v - H
  BY <1>1, <1>2, <1>6, <1>7, <1>8
<1>10. StartOf(g) = b * p + H /\ EndOf(g) = b * (p + k) /\ b * (p + k) = b * p + b * k
  BY <1>1, <1>2, <1>6 DEF StartOf, EndOf
<1>11. PICK u \in Nat : u = b * p
  OBVIOUS
<1>12. StartOf(g) = u + H /\ EndOf(g) = u + v
  BY <1>8, <1>10, <1>11
<1>13. b <= v
  BY <1>7, <1>8
<1> QED
  BY <1>3, <1>4, <1>5, <1>9, <1>12, <1>13

(* A chunk is cut off a new mapping.                                       *)
LEMMA FreshDone ==
  ASSUME NEW P, MapsOK(P), NEW gs, RegionsOK(gs, P), Few(gs), Cardinality(gs) < MaxGiven,
         NEW m, Kept(m, gs), Sound(m, P, gs), NEW n \in Size, ~IsLarge(n),
         NEW g \in MappingType, ~g.large, g \notin P, NEW Q, Q = P \cup {g}, MapsOK(Q),
         NEW l, l = g.count * page_size - SIZEOF_PAGE_HEADER, NEW f, f = StartOf(g),
         NEW m1, m1 = [m EXCEPT ![f] = l], Limits(m1, Q, f, calc_alloc_size(n)),
         NEW hs, hs = gs \cup {Region(f, n)},
         NEW o, o = Forget(Carve(m1, f, calc_alloc_size(n)), hs)
  PROVE  RegionsOK(hs, Q) /\ Few(hs) /\ Sound(o, Q, hs) /\ Kept(o, hs)
<1>1. PICK A, z, U, w, c : Heap(m, A, z, U, w, c, Arenas(P), {}) /\ Matches(gs, z, U)
  BY DEF Sound
<1>2. n \in Nat
  BY HeapAssumption
<1>3. l \in Nat /\ calc_alloc_size(n) <= l /\ f + l = EndOf(g)
  BY <1>2, SmallFits DEF MapsOK
<1>4. 4 <= l
  <2>1. calc_alloc_size(n) \in Nat /\ 4 <= calc_alloc_size(n)
    BY <1>2, AllocSize DEF Limits, MinChunk
  <2> QED
    BY <1>3, <2>1
<1>5. PICK y : y = Stored(z, f, l)
  OBVIOUS
<1>6. /\ Held(m1, A \cup {f}, y, U, w, c, Arenas(Q), Payloads(gs), f)
      /\ Matches(gs, y, U) /\ y[f] = l /\ m1[f] = l
      /\ Same(m, m1, Payloads(gs))
  <2>1. m1 = Stored(m, f, l)
    BY DEF Stored
  <2>2. Fresh(m, m1, Q, gs, A, y, U, w, c, f, l)
    BY <1>1, <1>3, <1>4, <1>5, <2>1, FreshHeld
  <2> QED
    BY <2>2 DEF Fresh
<1>7. Kept(m1, gs)
  <2> SUFFICES ASSUME NEW r \in gs, r.data # Unwritten, NEW i \in PayloadOf(r)
               PROVE  m1[i] = r.data
    BY DEF Kept
  <2>1. m1[i] = m[i]
    BY <1>6 DEF Same, Payloads
  <2> QED
    BY <2>1 DEF Kept
<1>8. RegionsOK(gs, Q)
  BY DEF RegionsOK
<1>9. PICK B : B = A \cup {f}
  OBVIOUS
<1>10. Held(m1, B, y, U, w, c, Arenas(Q), Payloads(gs), f) /\ m1[f] = y[f]
  BY <1>6, <1>9
<1>11. calc_alloc_size(n) <= y[f] /\ Matches(gs, y, U)
  BY <1>3, <1>6
<1>12. RegionsOK(hs, Q) /\ Few(hs)
  BY <1>7, <1>8, <1>10, <1>11, AllocDone
<1>13. Sound(o, Q, hs) /\ Kept(o, hs)
  BY <1>7, <1>8, <1>10, <1>11, AllocDone
<1> QED
  BY <1>12, <1>13

(* The region r with other data.                                           *)
LEMMA WithData ==
  ASSUME NEW P, NEW gs, RegionsOK(gs, P), Few(gs), NEW r \in gs, NEW d \in Data,
         NEW s, s = [r EXCEPT !.data = d], NEW hs, hs = (gs \ {r}) \cup {s}
  PROVE  /\ s.ptr = r.ptr /\ s.n = r.n /\ s.data = d /\ PayloadOf(s) = PayloadOf(r)
         /\ RegionsOK(hs, P) /\ Few(hs)
         /\ \A z, U : Matches(gs, z, U) => Matches(hs, z, U)
<1>1. r \in RegionType
  BY DEF RegionsOK
<1>2. s.ptr = r.ptr /\ s.n = r.n /\ s.data = d /\ s \in RegionType
  BY <1>1 DEF RegionType
<1>3. PayloadOf(s) = PayloadOf(r)
  BY <1>2 DEF PayloadOf
<1>4. RegionsOK(hs, P)
  <2>1. /\ gs \subseteq RegionType
        /\ \A x, y \in gs : x.ptr = y.ptr => x = y
        /\ \A x \in gs : IsLarge(x.n) =>
             \E g \in P : g.large /\ x.ptr = StartOf(g) /\ g.count = LargePages(x.n)
    BY DEF RegionsOK
  <2>2. hs \subseteq RegionType
    BY <1>2, <2>1
  <2>5. \A x \in hs : x = s \/ (x \in gs /\ x # r)
    OBVIOUS
  <2>3. ASSUME NEW x \in hs, NEW y \in hs, x.ptr = y.ptr PROVE x = y
    <3>1. CASE x = s /\ y = s
      BY <3>1
    <3>2. CASE x = s /\ y \in gs /\ y # r
      BY <1>2, <2>1, <2>3, <3>2
    <3>3. CASE y = s /\ x \in gs /\ x # r
      BY <1>2, <2>1, <2>3, <3>3
    <3>4. CASE x \in gs /\ y \in gs
      BY <2>1, <2>3, <3>4
    <3> QED
      BY <2>5, <3>1, <3>2, <3>3, <3>4
  <2>4. ASSUME NEW x \in hs, IsLarge(x.n)
        PROVE  \E g \in P : g.large /\ x.ptr = StartOf(g) /\ g.count = LargePages(x.n)
    <3>1. CASE x = s
      BY <1>2, <2>1, <2>4, <3>1
    <3>2. CASE x \in gs
      BY <2>1, <2>4, <3>2
    <3> QED
      BY <2>5, <3>1, <3>2
  <2> QED
    BY <2>2, <2>3, <2>4 DEF RegionsOK
<1>5. Few(hs)
  <2>1. Few(gs \ {r}) /\ Cardinality(gs \ {r}) < MaxGiven
    BY DropFew
  <2> QED
    BY <2>1, AddFew
<1>6. ASSUME NEW z, NEW U, Matches(gs, z, U) PROVE Matches(hs, z, U)
  <2>1. U = {x.ptr : x \in SmallOf(gs)} /\ \A x \in SmallOf(gs) : z[x.ptr] = calc_alloc_size(x.n)
    BY <1>6 DEF Matches
  <2>2. ASSUME NEW x \in SmallOf(hs) PROVE x.ptr \in U /\ z[x.ptr] = calc_alloc_size(x.n)
    <3>1. CASE x = s
      <4>1. r \in SmallOf(gs)
        BY <1>2, <2>2, <3>1 DEF SmallOf
      <4> QED
        BY <1>2, <2>1, <3>1, <4>1
    <3>2. CASE x # s
      <4>1. x \in SmallOf(gs)
        BY <2>2, <3>2 DEF SmallOf
      <4> QED
        BY <2>1, <4>1
    <3> QED
      BY <3>1, <3>2
  <2>3. ASSUME NEW a \in U PROVE \E x \in SmallOf(hs) : x.ptr = a
    <3>1. PICK x \in SmallOf(gs) : x.ptr = a
      BY <2>1
    <3>2. CASE x = r
      <4>1. s \in SmallOf(hs)
        BY <1>2, <3>1, <3>2 DEF SmallOf
      <4> QED
        BY <1>2, <3>1, <3>2, <4>1
    <3>3. CASE x # r
      <4>1. x \in SmallOf(hs)
        BY <3>1, <3>3 DEF SmallOf
      <4> QED
        BY <3>1, <4>1
    <3> QED
      BY <3>2, <3>3
  <2>4. U = {x.ptr : x \in SmallOf(hs)}
    BY <2>2, <2>3
  <2> QED
    BY <2>2, <2>4 DEF Matches
<1> QED
  BY <1>2, <1>3, <1>4, <1>5, <1>6

(* The client writes to its region: nothing else changes.                  *)
LEMMA FillDone ==
  ASSUME NEW P, MapsOK(P), NEW gs, RegionsOK(gs, P), Few(gs),
         NEW m, Kept(m, gs), Sound(m, P, gs), NEW r \in gs, NEW d \in Data,
         NEW o, o = [c \in Cells |-> IF c \in PayloadOf(r) THEN d ELSE m[c]],
         NEW s, s = [r EXCEPT !.data = d], NEW hs, hs = (gs \ {r}) \cup {s}
  PROVE  RegionsOK(hs, P) /\ Few(hs) /\ Sound(o, P, hs) /\ Kept(o, hs)
<1>1. PICK A, z, U, w, n : Heap(m, A, z, U, w, n, Arenas(P), {}) /\ Matches(gs, z, U)
  BY DEF Sound
<1>2. m \in [Cells -> Words] /\ Tiles(A, z, Arenas(P)) /\ U \subseteq A
  BY <1>1, AtRest
<1>3. /\ s.ptr = r.ptr /\ s.n = r.n /\ s.data = d /\ PayloadOf(s) = PayloadOf(r)
      /\ RegionsOK(hs, P) /\ Few(hs) /\ Matches(hs, z, U)
  BY <1>1, WithData
<1>4. d \in Words
  BY HeapAssumption DEF Words, NEXT_ALLOCATED_BIT
<1>5. /\ o \in [Cells -> Words] /\ \A c \in Cells : o[c] # m[c] => c \in PayloadOf(r)
      /\ \A c \in Cells : c \in PayloadOf(r) => o[c] = d
      /\ \A c \in Cells : c \notin PayloadOf(r) => o[c] = m[c]
  BY <1>2, <1>4
<1>6. Private(Payloads({r}), A, z, U)
  <2>1. \A x \in {r} : ~IsLarge(x.n) => x.ptr \in U
    BY <1>1 DEF Matches, SmallOf
  <2>2. {r} \subseteq gs
    OBVIOUS
  <2> QED
    BY <1>1, <1>2, <2>1, <2>2, PayloadPrivate
<1>7. ASSUME NEW c \in Cells, o[c] # m[c]
      PROVE  /\ 6 < c
             /\ \A a \in A : a <= c /\ c < a + z[a] =>
                  /\ c # a + z[a] - 1
                  /\ a \in U \/ (c # a /\ c # a + 1 /\ c # a + 2)
  <2>1. c \in Payloads({r})
    BY <1>5, <1>7 DEF Payloads
  <2>2. 6 < c /\ \A a \in A : a <= c /\ c < a + z[a] => a \in U /\ c < a + z[a] - 1
    BY <1>6, <2>1 DEF Private
  <2>3. ASSUME NEW a \in A, c < a + z[a] - 1 PROVE c # a + z[a] - 1
    <3>1. a \in Nat /\ z[a] \in Nat /\ c \in Nat
      BY <1>2, CellsFact DEF Tiles
    <3> QED
      BY <2>3, <3>1
  <2> QED
    BY <2>2, <2>3
<1>8. Heap(o, A, z, U, w, n, Arenas(P), {})
  BY <1>1, <1>5, <1>7, Quiet
<1>9. Sound(o, P, hs)
  BY <1>3, <1>8 DEF Sound
<1>10. \A x \in gs : PayloadOf(x) \subseteq Cells
  BY PayloadCells
<1>11. ASSUME NEW x \in hs, x.data # Unwritten, NEW c \in PayloadOf(x)
       PROVE  o[c] = x.data
  <2>1. CASE x = s
    <3>1. c \in PayloadOf(r) /\ c \in Cells
      BY <1>3, <1>10, <1>11, <2>1
    <3> QED
      BY <1>3, <1>5, <2>1, <3>1
  <2>2. CASE x # s
    <3>1. x \in gs /\ x # r
      BY <2>2
    <3>2. c \in Cells /\ m[c] = x.data
      BY <1>10, <1>11, <3>1 DEF Kept
    <3>3. c \notin PayloadOf(r)
      BY <1>1, <1>2, <1>11, <3>1, PayloadsApart
    <3> QED
      BY <1>5, <3>2, <3>3
  <2> QED
    BY <2>1, <2>2
<1> QED
  BY <1>3, <1>9, <1>11 DEF Kept

(* A small region is freed: its chunk joins the free ones.                 *)
LEMMA SmallDone ==
  ASSUME NEW P, MapsOK(P), NEW gs, RegionsOK(gs, P), Few(gs),
         NEW m, Kept(m, gs), Sound(m, P, gs), NEW r \in gs, ~IsLarge(r.n),
         NEW hs, hs = gs \ {r},
         NEW m1, m1 = Behind(m, r.ptr, calc_alloc_size(r.n)),
         NEW o, o = Forget(Before(m1, r.ptr), hs)
  PROVE  RegionsOK(hs, P) /\ Few(hs) /\ Sound(o, P, hs) /\ Kept(o, hs)
<1>1. PICK G : G = Arenas(P)
  OBVIOUS
<1>2. PICK A, z, U, w, n : Heap(m, A, z, U, w, n, G, {}) /\ Matches(gs, z, U)
  BY <1>1 DEF Sound
<1>3. /\ m \in [Cells -> Words] /\ Ranges(G) /\ Tiles(A, z, G)
      /\ U \subseteq A /\ n \in Nat /\ Walk(m, w, n) /\ ListOf(w, n) = A \ U
      /\ \A a \in U : UsedOK(m, z, U, G, a)
      /\ \A a \in A \ U : FreeOK(m, z, U, G, a)
  BY <1>2, AtRest
<1>4. PICK p : p = r.ptr
  OBVIOUS
<1>5. p \in U /\ z[p] = calc_alloc_size(r.n)
  BY <1>2, <1>4 DEF Matches, SmallOf
<1>6. PICK K : K = Payloads(hs)
  OBVIOUS
<1>7. RegionsOK(hs, P) /\ Few(hs)
  BY DropFew DEF RegionsOK
<1>8. PICK V : V = U \ {p}
  OBVIOUS
<1>9. V = {x.ptr : x \in SmallOf(hs)}
  <2>1. U = {x.ptr : x \in SmallOf(gs)}
    BY <1>2 DEF Matches
  <2>2. \A x \in gs : x.ptr = p => x = r
    BY <1>4 DEF RegionsOK
  <2>3. SmallOf(hs) = SmallOf(gs) \ {r} /\ SmallOf(gs) \subseteq gs
    BY DEF SmallOf
  <2> QED
    BY <1>4, <1>8, <2>1, <2>2, <2>3
<1>10. Private(K, A, z, V)
  <2>1. \A x \in hs : ~IsLarge(x.n) => x.ptr \in V
    BY <1>9 DEF SmallOf
  <2>2. hs \subseteq gs
    OBVIOUS
  <2> QED
    BY <1>1, <1>2, <1>3, <1>6, <2>1, <2>2, PayloadPrivate
<1>11. Opened(m, A, z, U, w, n, G, K, p)
  <2>1. /\ V \subseteq A /\ V \cap ListOf(w, n) = {} /\ p \notin ListOf(w, n)
        /\ \A a \in V : UsedOK(m, z, U, G, a)
        /\ A \ U \subseteq ListOf(w, n) /\ ListOf(w, n) \subseteq A
    BY <1>3, <1>5, <1>8
  <2>2. Chunks(m, A, z, U, V, A \ U, w, n, G, K)
    BY <1>3, <1>10, <2>1 DEF Chunks
  <2>3. PageFirst(p) => \E g \in G : p = StartOf(g)
    BY <1>3, <1>5 DEF UsedOK
  <2> QED
    BY <1>5, <1>8, <2>1, <2>2, <2>3 DEF Opened
<1>12. m1 = Behind(m, p, z[p]) /\ UsedOK(m, z, U, G, p)
  BY <1>3, <1>4, <1>5
<1>13. BehindDone(m, m1, z, U, G, K, p)
  BY <1>11, <1>12, BehindFact
<1>14. PICK A1, z1, w1, n1 : /\ Opened(m1, A1, z1, U, w1, n1, G, K, p)
                             /\ FreeOK(m1, z1, U, G, p) /\ Same(z, z1, U \ {p})
  BY <1>13 DEF BehindDone
<1>15. PICK m2 : m2 = Before(m1, p)
  OBVIOUS
<1>16. BeforeDone(m1, m2, z1, U, G, K, p)
  BY <1>14, <1>15, BeforeFact
<1>17. PICK A2, z2, w2, n2 : /\ Heap(m2, A2, z2, V, w2, n2, G, K)
                             /\ Same(z1, z2, V)
  BY <1>8, <1>16 DEF BeforeDone
<1>18. Matches(hs, z2, V)
  <2>1. ASSUME NEW x \in SmallOf(hs) PROVE z2[x.ptr] = calc_alloc_size(x.n)
    <3>1. x.ptr \in V
      BY <1>9
    <3>2. z2[x.ptr] = z1[x.ptr] /\ z1[x.ptr] = z[x.ptr]
      BY <1>8, <1>14, <1>17, <3>1 DEF Same
    <3>3. x \in SmallOf(gs)
      BY DEF SmallOf
    <3>4. z[x.ptr] = calc_alloc_size(x.n)
      BY <1>2, <3>3 DEF Matches
    <3> QED
      BY <3>2, <3>4
  <2> QED
    BY <1>9, <2>1 DEF Matches
<1>19. Kept(m2, hs)
  <2> SUFFICES ASSUME NEW x \in hs, x.data # Unwritten, NEW i \in PayloadOf(x)
               PROVE  m2[i] = x.data
    BY DEF Kept
  <2>1. i \in K
    BY <1>6 DEF Payloads
  <2>2. m2[i] = m1[i] /\ m1[i] = m[i]
    BY <1>13, <1>16, <2>1 DEF Same, BehindDone, BeforeDone
  <2> QED
    BY <2>2 DEF Kept
<1>20. \A x \in hs : PayloadOf(x) \subseteq Cells
  BY PayloadCells
<1>21. o = Forget(m2, hs)
  BY <1>4, <1>15
<1> QED
  BY <1>1, <1>7, <1>17, <1>18, <1>19, <1>20, <1>21, Settle

(* Without the n pages from p on there are the mappings Q and regions hs.  *)
LargeGone(o, Q, hs, p, n) ==
  /\ RegionsOK(hs, Q) /\ Few(hs) /\ Sound(o, Q, hs) /\ Kept(o, hs) /\ MapsOK(Q)
  /\ \A h \in Q : PagesOf(h) \cap (p .. p + n - 1) = {}

(* A large region is freed: its mapping goes, with what it held.           *)
LEMMA LargeDone ==
  ASSUME NEW P, MapsOK(P), NEW gs, RegionsOK(gs, P), Few(gs),
         NEW m, Kept(m, gs), Sound(m, P, gs), NEW r \in gs, IsLarge(r.n),
         NEW p, p = r.ptr \div page_size,
         NEW o, o = Zeroed(m, p, LargePages(r.n)),
         NEW Q, Q = {h \in P : StartOf(h) # r.ptr},
         NEW hs, hs = gs \ {r}
  PROVE  LargeGone(o, Q, hs, p, LargePages(r.n))
<1>1. PICK g \in P : g.large /\ r.ptr = StartOf(g) /\ g.count = LargePages(r.n)
  BY DEF RegionsOK
<1>2. g \in MappingType /\ PagesOf(g) \subseteq 1 .. MaxPage
  BY DEF MapsOK
<1>3. p = g.first
  BY <1>1, <1>2, MappingBounds
<1>4. p .. p + LargePages(r.n) - 1 = PagesOf(g)
  BY <1>1, <1>3 DEF PagesOf
<1>5. o = [c \in Cells |-> IF c \div page_size \in PagesOf(g) THEN 0 ELSE m[c]]
  BY <1>4 DEF Zeroed
<1>6. Ranges(P)
  BY MapsRanges
<1>7. Q = P \ {g}
  <2>1. ASSUME NEW h \in P, StartOf(h) = StartOf(g) PROVE h = g
    <3>1. /\ StartOf(g) \in Nat /\ StartOf(g) <= StartOf(g) /\ StartOf(g) < EndOf(g)
          /\ StartOf(h) <= StartOf(g) /\ StartOf(g) < EndOf(h)
      BY <1>6, <2>1 DEF Ranges
    <3> QED
      BY <1>6, <3>1, OtherMapping
  <2> QED
    BY <1>1, <2>1
<1>8. MapsOK(Q) /\ \A h \in Q : PagesOf(h) \cap PagesOf(g) = {}
  BY <1>7 DEF MapsOK
<1>9. ASSUME NEW h \in Q, NEW c \in Cells, StartOf(h) <= c, c < EndOf(h)
      PROVE  o[c] = m[c]
  <2>1. c \in Nat /\ h \in MappingType
    BY <1>7, CellsFact DEF MapsOK
  <2>2. c \div page_size \in PagesOf(h)
    BY <1>9, <2>1, PageOfWord
  <2>3. c \div page_size \notin PagesOf(g)
    BY <1>8, <2>2
  <2> QED
    BY <1>5, <2>3
<1>10. RegionsOK(hs, Q)
  <2>1. ASSUME NEW x \in hs, IsLarge(x.n)
        PROVE  \E h \in Q : h.large /\ x.ptr = StartOf(h) /\ h.count = LargePages(x.n)
    <3>1. PICK h \in P : h.large /\ x.ptr = StartOf(h) /\ h.count = LargePages(x.n)
      BY <2>1 DEF RegionsOK
    <3>2. x.ptr # r.ptr
      BY DEF RegionsOK
    <3> QED
      BY <3>1, <3>2
  <2> QED
    BY <2>1 DEF RegionsOK
<1>11. Few(hs)
  BY DropFew
<1>12. Arenas(Q) = Arenas(P)
  BY <1>1, <1>7 DEF Arenas
<1>13. PICK A, z, U, w, n : Heap(m, A, z, U, w, n, Arenas(P), {}) /\ Matches(gs, z, U)
  BY DEF Sound
<1>14. m \in [Cells -> Words] /\ Tiles(A, z, Arenas(P)) /\ U \subseteq A
  BY <1>13, AtRest
<1>15. SmallOf(hs) = SmallOf(gs)
  BY DEF SmallOf
<1>16. Matches(hs, z, U)
  BY <1>13, <1>15 DEF Matches
<1>17. o \in [Cells -> Words]
  <2>1. 0 \in Words
    <3>1. PICK B \in Nat : B = THIS_ALLOCATED_BIT
      BY HeapAssumption
    <3>2. PICK N \in Nat : N < B
      BY <3>1, CellsFact
    <3> QED
      BY <3>1, <3>2 DEF Words, NEXT_ALLOCATED_BIT
  <2> QED
    BY <1>5, <1>14, <2>1
<1>18. ASSUME NEW c \in Cells, o[c] # m[c]
       PROVE  6 < c /\ \A a \in A : ~(a <= c /\ c < a + z[a])
  <2>1. c \in Nat /\ c \div page_size \in PagesOf(g)
    BY <1>5, <1>18, CellsFact
  <2>2. 6 < c
    <3> SUFFICES ASSUME c <= 6 PROVE FALSE
      BY <2>1
    <3>1. PICK b \in Nat \ {0} : b = page_size /\ c < b
      BY <2>1, HeapAssumption
    <3>4. PICK q \in Nat : q = 0
      OBVIOUS
    <3>2. (b * q + c) \div b = q
      BY <2>1, <3>1, DivModUnique
    <3>5. b * q = 0
      BY <3>4
    <3>6. b * q + c = c
      BY <2>1, <3>5
    <3>3. 0 \in PagesOf(g)
      BY <2>1, <3>1, <3>2, <3>4, <3>6
    <3> QED
      BY <1>2, <3>3
  <2>3. ASSUME NEW a \in A, a <= c, c < a + z[a] PROVE FALSE
    <3>1. PICK h \in Arenas(P) : StartOf(h) <= a /\ a + z[a] <= EndOf(h)
      BY <1>14 DEF Tiles
    <3>2. h \in Q /\ h \in P
      BY <1>12, <3>1 DEF Arenas
    <3>3. PICK x \in Nat, l \in Nat : x = a /\ l = z[a]
      BY <1>14 DEF Tiles
    <3>4. PICK s \in Nat, e \in Nat : s = StartOf(h) /\ e = EndOf(h)
      BY <1>6, <3>2 DEF Ranges
    <3>5. StartOf(h) <= c /\ c < EndOf(h)
      BY <2>1, <2>3, <3>1, <3>3, <3>4
    <3> QED
      BY <1>9, <1>18, <3>2, <3>5
  <2> QED
    BY <2>2, <2>3
<1>19. Heap(o, A, z, U, w, n, Arenas(P), {})
  BY <1>13, <1>17, <1>18, Quiet
<1>20. Sound(o, Q, hs)
  BY <1>12, <1>16, <1>19 DEF Sound
<1>21. ASSUME NEW x \in hs, x.data # Unwritten, NEW c \in PayloadOf(x)
       PROVE  o[c] = x.data
  <2>1. PICK h \in P : /\ StartOf(h) <= x.ptr /\ End(x) <= EndOf(h)
                       /\ StartOf(h) \in Nat /\ EndOf(h) \in Nat
                       /\ x.ptr \in Nat /\ x.n \in Nat /\ End(x) \in Nat
                       /\ x.ptr + x.n < End(x)
                       /\ IF IsLarge(x.n) THEN h.large /\ x.ptr = StartOf(h) ELSE ~h.large
    BY RegionInMapping
  <2>2. x.ptr # r.ptr
    BY DEF RegionsOK
  <2>3. h \in Q
    BY <1>1, <1>7, <2>1, <2>2
  <2>4. StartOf(h) <= c /\ c < EndOf(h)
    BY <2>1 DEF PayloadOf
  <2>5. c \in Cells
    BY PayloadCells
  <2>6. o[c] = m[c]
    BY <1>9, <2>3, <2>4, <2>5
  <2>7. m[c] = x.data
    BY <1>21 DEF Kept
  <2> QED
    BY <2>6, <2>7
<1> QED
  BY <1>4, <1>8, <1>10, <1>11, <1>20, <1>21 DEF Kept, LargeGone

-----------------------------------------------------------------------------
(* The inductive invariant.                                                *)

(* While the heap is up, its memory is sound and its mappings are mapped;  *)
(* after fini the memory is blank, and of a small mapping the pages behind *)
(* the first are still mapped.                                             *)
Up ==
  up => /\ Sound(mem, pages, given) /\ Kept(mem, given)
        /\ \A g \in pages : PagesOf(g) \subseteq mapped

Down ==
  ~up => /\ given = {} /\ mem = BlankMem
         /\ \A g \in pages :
              PagesOf(g) \cap mapped = IF g.large THEN {} ELSE PagesOf(g) \ {g.first}

IInv ==
  /\ Disciplined
  /\ MapsOK(pages) /\ mapped \subseteq 1 .. MaxPage
  /\ chunk_size \in {page_size * 2 ^ i : i \in 0 .. MaxPage}
  /\ RegionsOK(given, pages) /\ Few(given)
  /\ up \in BOOLEAN /\ Up /\ Down

(* It holds at first.                                                      *)
LEMMA InitIInv == Disciplined /\ Init => IInv
<1> SUFFICES ASSUME Disciplined, Init PROVE IInv
  OBVIOUS
<1> USE DEF Init
<1>1. MapsOK({}) /\ RegionsOK({}, {})
  BY DEF MapsOK, RegionsOK
<1>2. Few({})
  BY FS_EmptySet, HeapAssumption DEF Few
<1>3. page_size \in {page_size * 2 ^ i : i \in 0 .. MaxPage}
  <2>1. page_size = page_size * 2 ^ 0 /\ 0 \in 0 .. MaxPage
    BY PowersOfTwo, HeapAssumption
  <2> QED
    BY <2>1
<1>4. Up
  BY BlankSound DEF Up, Kept
<1> QED
  BY <1>1, <1>2, <1>3, <1>4 DEF IInv, Down

(* HeapInit keeps it.                                                      *)
LEMMA HeapInitStep == IInv /\ HeapInit => IInv'
<1> SUFFICES ASSUME IInv, HeapInit PROVE IInv'
  OBVIOUS
<1>0. /\ Disciplined /\ mapped \subseteq 1 .. MaxPage /\ given = {} /\ mem = BlankMem
      /\ chunk_size' = page_size /\ pages' = {} /\ up' = TRUE
      /\ mem' = mem /\ mapped' = mapped /\ given' = given
  BY DEF IInv, Down, HeapInit
<1>1. MapsOK({}) /\ RegionsOK({}, {})
  BY DEF MapsOK, RegionsOK
<1>2. Few({})
  BY FS_EmptySet, HeapAssumption DEF Few
<1>3. page_size \in {page_size * 2 ^ i : i \in 0 .. MaxPage}
  <2>1. page_size = page_size * 2 ^ 0 /\ 0 \in 0 .. MaxPage
    BY PowersOfTwo, HeapAssumption
  <2> QED
    BY <2>1
<1>4. Up' /\ Down'
  BY <1>0, BlankSound DEF Up, Down, Kept
<1> QED
  BY <1>0, <1>1, <1>2, <1>3, <1>4 DEF IInv

(* What holds while the heap is up.                                        *)
LEMMA WhileUp ==
  ASSUME IInv, up
  PROVE  /\ Disciplined
         /\ MapsOK(pages) /\ mapped \subseteq 1 .. MaxPage
         /\ chunk_size \in {page_size * 2 ^ i : i \in 0 .. MaxPage}
         /\ RegionsOK(given, pages) /\ Few(given)
         /\ Sound(mem, pages, given) /\ Kept(mem, given)
         /\ \A g \in pages : PagesOf(g) \subseteq mapped
BY DEF IInv, Up

(* A region is only held while the heap is up.                             *)
LEMMA HeldMeansUp == IInv /\ given # {} => up
BY DEF IInv, Down

(* A large request.                                                        *)
LEMMA AllocLargeStep ==
  ASSUME IInv, NEW n \in Size, AllocLarge(n)
  PROVE  IInv'
<1>1. up /\ Cardinality(given) < MaxGiven /\ IsLarge(n) /\ n \in Nat
  BY HeapAssumption DEF AllocLarge, CanAlloc
<1>2. PICK p \in 1 .. MaxPage :
        /\ MapAt(p, LargePages(n))
        /\ pages' = pages \cup {Mapping(p, LargePages(n), TRUE)}
        /\ given' = given \cup {Region(StartOf(Mapping(p, LargePages(n), TRUE)), n)}
  BY DEF AllocLarge
<1>3. mem' = mem /\ chunk_size' = chunk_size /\ up' = up
  BY DEF AllocLarge
<1>4. PICK k \in Nat \ {0} : k = LargePages(n)
  BY <1>1, LargeCount
<1>5. PICK g : g = Mapping(p, k, TRUE)
  OBVIOUS
<1>6. p .. p + k - 1 \subseteq (1 .. MaxPage) \ mapped /\ mapped' = mapped \cup (p .. p + k - 1)
  BY <1>2, <1>4 DEF MapAt
<1>7. /\ g \in MappingType /\ g \notin pages /\ MapsOK(pages \cup {g})
      /\ PagesOf(g) = p .. p + k - 1
  <2>1. MapsOK(pages) /\ \A h \in pages : PagesOf(h) \subseteq mapped
    BY <1>1, WhileUp
  <2>2. IsNewMapping(g, pages, p, k)
    BY <1>5, <1>6, <2>1, NewMapping
  <2> QED
    BY <2>2 DEF IsNewMapping
<1>8. g.large /\ g.count = LargePages(n)
  BY <1>4, <1>5 DEF Mapping
<1>9. pages' = pages \cup {g} /\ given' = given \cup {Region(StartOf(g), n)}
  BY <1>2, <1>4, <1>5
<1>10. /\ RegionsOK(given', pages') /\ Sound(mem, pages', given') /\ Kept(mem, given')
  BY <1>1, <1>7, <1>8, <1>9, LargeAdded, WhileUp
<1>11. Few(given')
  BY <1>1, <1>9, AddFew, WhileUp
<1>12. \A h \in pages' : PagesOf(h) \subseteq mapped'
  BY <1>1, <1>6, <1>7, <1>9, WhileUp
<1>13. mapped' \subseteq 1 .. MaxPage
  BY <1>1, <1>6, WhileUp
<1>14. Up' /\ Down'
  BY <1>1, <1>3, <1>10, <1>12 DEF Up, Down
<1> QED
  BY <1>3, <1>7, <1>9, <1>10, <1>11, <1>13, <1>14 DEF IInv

(* A chunk of the list that fits.                                          *)
LEMMA AllocFitStep ==
  ASSUME IInv, NEW n \in Size, AllocFit(n)
  PROVE  IInv'
<1>1. up /\ Cardinality(given) < MaxGiven /\ ~IsLarge(n) /\ Disciplined
  BY DEF AllocFit, CanAlloc, IInv
<1>2. PICK k \in 0 .. MaxFree :
        /\ StopsFirst(mem, calc_alloc_size(n), k)
        /\ Nodes(mem)[k] # free_tail
        /\ Limits(mem, pages, Nodes(mem)[k], calc_alloc_size(n))
        /\ given' = given \cup {Region(Nodes(mem)[k], n)}
        /\ mem' = Forget(Carve(del_free(mem, Nodes(mem)[k]), Nodes(mem)[k],
                               calc_alloc_size(n)), given')
  BY <1>1 DEF AllocFit
<1>3. PICK f : f = Nodes(mem)[k]
  OBVIOUS
<1>4. pages' = pages /\ mapped' = mapped /\ chunk_size' = chunk_size /\ up' = up
  BY DEF AllocFit
<1>5. /\ f # free_tail /\ Limits(mem, pages, f, calc_alloc_size(n))
      /\ given' = given \cup {Region(f, n)}
      /\ mem' = Forget(Carve(del_free(mem, f), f, calc_alloc_size(n)), given')
  BY <1>2, <1>3
<1>6. PICK hs : hs = given'
  OBVIOUS
<1>7. PICK o : o = mem'
  OBVIOUS
<1>8. /\ hs = given \cup {Region(f, n)}
      /\ o = Forget(Carve(del_free(mem, f), f, calc_alloc_size(n)), hs)
  BY <1>5, <1>6, <1>7
<1>9. /\ MapsOK(pages) /\ RegionsOK(given, pages) /\ Few(given)
      /\ Sound(mem, pages, given) /\ Kept(mem, given)
  BY <1>1, WhileUp
<1>10. RegionsOK(hs, pages) /\ Few(hs) /\ Sound(o, pages, hs) /\ Kept(o, hs)
  BY <1>1, <1>2, <1>3, <1>5, <1>8, <1>9, FitDone
<1>11. Up' /\ Down'
  BY <1>1, <1>4, <1>6, <1>7, <1>10, WhileUp DEF Up, Down
<1> QED
  BY <1>1, <1>4, <1>6, <1>10, <1>11, WhileUp DEF IInv

(* A new mapping.                                                          *)
LEMMA AllocFreshStep ==
  ASSUME IInv, NEW n \in Size, AllocFresh(n)
  PROVE  IInv'
<1>1. up /\ Cardinality(given) < MaxGiven /\ ~IsLarge(n) /\ Disciplined
  BY DEF AllocFresh, CanAlloc, IInv
<1>2. PICK np : np = chunk_size \div page_size
  OBVIOUS
<1>3. PICK p \in 1 .. MaxPage :
        LET g  == Mapping(p, np, FALSE)
            f  == StartOf(g)
            m1 == [mem EXCEPT ![f] = chunk_size - SIZEOF_PAGE_HEADER]
        IN  /\ MapAt(p, np)
            /\ pages' = pages \cup {g}
            /\ Limits(m1, pages', f, calc_alloc_size(n))
            /\ given' = given \cup {Region(f, n)}
            /\ mem' = Forget(Carve(m1, f, calc_alloc_size(n)), given')
  BY <1>1, <1>2 DEF AllocFresh
<1>4. PICK g : g = Mapping(p, np, FALSE)
  OBVIOUS
<1>5. PICK f : f = StartOf(g)
  OBVIOUS
<1>6. PICK l : l = chunk_size - SIZEOF_PAGE_HEADER
  OBVIOUS
<1>7. PICK m1 : m1 = [mem EXCEPT ![f] = l]
  OBVIOUS
<1>8. PICK Q : Q = pages'
  OBVIOUS
<1>9. PICK hs : hs = given'
  OBVIOUS
<1>10. PICK o : o = mem'
  OBVIOUS
<1>11. /\ MapAt(p, np) /\ Q = pages \cup {g} /\ Limits(m1, Q, f, calc_alloc_size(n))
       /\ hs = given \cup {Region(f, n)}
       /\ o = Forget(Carve(m1, f, calc_alloc_size(n)), hs)
  BY <1>3, <1>4, <1>5, <1>6, <1>7, <1>8, <1>9, <1>10
<1>12. chunk_size' = 2 * chunk_size /\ up' = up
  BY DEF AllocFresh
<1>13. /\ MapsOK(pages) /\ mapped \subseteq 1 .. MaxPage
       /\ RegionsOK(given, pages) /\ Few(given)
       /\ Sound(mem, pages, given) /\ Kept(mem, given)
       /\ \A h \in pages : PagesOf(h) \subseteq mapped
  BY <1>1, WhileUp
<1>14. PICK i \in 0 .. MaxPage : chunk_size = page_size * 2 ^ i
  BY <1>1, WhileUp
<1>15. p .. p + np - 1 \subseteq (1 .. MaxPage) \ mapped /\ mapped' = mapped \cup (p .. p + np - 1)
  BY <1>11 DEF MapAt
<1>16. np \in Nat \ {0}
  <2>1. PICK b \in Nat \ {0} : b = page_size
    BY HeapAssumption
  <2>2. PICK u \in Nat : u = 2 ^ i /\ i + 1 <= u
    BY Powers
  <2>3. chunk_size = b * u
    BY <1>14, <2>1, <2>2
  <2>4. b * u + 0 = b * u /\ (b * u + 0) \div b = u
    BY DivModUnique
  <2> QED
    BY <1>2, <2>1, <2>2, <2>3, <2>4
<1>17. /\ g \in MappingType /\ g \notin pages /\ MapsOK(Q)
       /\ PagesOf(g) = p .. p + np - 1
  <2>1. FALSE \in BOOLEAN
    OBVIOUS
  <2>2. IsNewMapping(g, pages, p, np)
    BY <1>4, <1>13, <1>15, <1>16, <2>1, NewMapping
  <2> QED
    BY <1>11, <2>2 DEF IsNewMapping
<1>18. ~g.large /\ g.count = np /\ np <= MaxPage
  BY <1>4, <1>17, HeapAssumption DEF Mapping, MappingType
<1>19. np * page_size = chunk_size
       /\ 2 * chunk_size \in {page_size * 2 ^ j : j \in 0 .. MaxPage}
  BY <1>2, <1>14, <1>18, NextSize
<1>20. l = g.count * page_size - SIZEOF_PAGE_HEADER
  BY <1>6, <1>18, <1>19
<1>21. RegionsOK(hs, Q) /\ Few(hs) /\ Sound(o, Q, hs) /\ Kept(o, hs)
  BY <1>1, <1>5, <1>7, <1>11, <1>13, <1>17, <1>18, <1>20, FreshDone
<1>22. \A h \in Q : PagesOf(h) \subseteq mapped'
  BY <1>11, <1>13, <1>15, <1>17
<1>23. mapped' \subseteq 1 .. MaxPage
  BY <1>13, <1>15
<1>24. Up' /\ Down'
  BY <1>1, <1>8, <1>9, <1>10, <1>12, <1>21, <1>22 DEF Up, Down
<1>25. chunk_size' \in {page_size * 2 ^ j : j \in 0 .. MaxPage} /\ up' \in BOOLEAN
  BY <1>1, <1>12, <1>19 DEF IInv
<1> QED
  BY <1>1, <1>8, <1>9, <1>17, <1>21, <1>23, <1>24, <1>25 DEF IInv

(* A write of the client.                                                  *)
LEMMA FillStep ==
  ASSUME IInv, NEW r \in given, NEW d \in Data, Fill(r, d)
  PROVE  IInv'
<1>1. up
  BY HeldMeansUp
<1>2. PICK o : o = mem'
  OBVIOUS
<1>3. PICK s : s = [r EXCEPT !.data = d]
  OBVIOUS
<1>4. PICK hs : hs = given'
  OBVIOUS
<1>5. o = [c \in Cells |-> IF c \in PayloadOf(r) THEN d ELSE mem[c]]
  BY <1>2 DEF Fill, PayloadOf
<1>6. hs = (given \ {r}) \cup {s}
  BY <1>3, <1>4 DEF Fill
<1>7. pages' = pages /\ mapped' = mapped /\ chunk_size' = chunk_size /\ up' = up
  BY DEF Fill
<1>8. /\ MapsOK(pages) /\ RegionsOK(given, pages) /\ Few(given)
      /\ Sound(mem, pages, given) /\ Kept(mem, given)
  BY <1>1, WhileUp
<1>9. RegionsOK(hs, pages) /\ Few(hs) /\ Sound(o, pages, hs) /\ Kept(o, hs)
  BY <1>3, <1>5, <1>6, <1>8, FillDone
<1>10. Up' /\ Down'
  BY <1>1, <1>2, <1>4, <1>7, <1>9, WhileUp DEF Up, Down
<1> QED
  BY <1>1, <1>4, <1>7, <1>9, <1>10, WhileUp DEF IInv

(* A large region is freed.                                                *)
LEMMA FreeLargeStep ==
  ASSUME IInv, NEW r \in given, FreeLarge(r)
  PROVE  IInv'
<1>1. up /\ IsLarge(r.n)
  BY HeldMeansUp DEF FreeLarge
<1>2. PICK o : o = mem'
  OBVIOUS
<1>3. PICK Q : Q = pages'
  OBVIOUS
<1>4. PICK hs : hs = given'
  OBVIOUS
<1>5. PICK p : p = r.ptr \div page_size
  OBVIOUS
<1>6. /\ mapped' = mapped \ (p .. p + LargePages(r.n) - 1)
      /\ o = Zeroed(mem, p, LargePages(r.n))
      /\ Q = {g \in pages : StartOf(g) # r.ptr}
      /\ hs = given \ {r} /\ chunk_size' = chunk_size /\ up' = up
  BY <1>2, <1>3, <1>4, <1>5 DEF FreeLarge
<1>7. /\ MapsOK(pages) /\ mapped \subseteq 1 .. MaxPage
      /\ RegionsOK(given, pages) /\ Few(given)
      /\ Sound(mem, pages, given) /\ Kept(mem, given)
      /\ \A h \in pages : PagesOf(h) \subseteq mapped
  BY <1>1, WhileUp
<1>8. LargeGone(o, Q, hs, p, LargePages(r.n))
  BY <1>1, <1>5, <1>6, <1>7, LargeDone
<1>9. /\ RegionsOK(hs, Q) /\ Few(hs) /\ Sound(o, Q, hs)
      /\ Kept(o, hs) /\ MapsOK(Q)
      /\ \A h \in Q : PagesOf(h) \cap (p .. p + LargePages(r.n) - 1) = {}
  BY <1>8 DEF LargeGone
<1>10. (\A h \in Q : PagesOf(h) \subseteq mapped') /\ mapped' \subseteq 1 .. MaxPage
  BY <1>6, <1>7, <1>9
<1>11. Up' /\ Down'
  BY <1>1, <1>2, <1>3, <1>4, <1>6, <1>9, <1>10 DEF Up, Down
<1> QED
  BY <1>1, <1>3, <1>4, <1>6, <1>9, <1>10, <1>11, WhileUp DEF IInv

(* A small region is freed.                                                *)
LEMMA FreeSmallStep ==
  ASSUME IInv, NEW r \in given, FreeSmall(r)
  PROVE  IInv'
<1>1. up /\ ~IsLarge(r.n)
  BY HeldMeansUp DEF FreeSmall
<1>2. PICK o : o = mem'
  OBVIOUS
<1>3. PICK hs : hs = given'
  OBVIOUS
<1>4. PICK m1 : m1 = Behind(mem, r.ptr, calc_alloc_size(r.n))
  OBVIOUS
<1>5. o = Forget(Before(m1, r.ptr), hs) /\ hs = given \ {r}
  BY <1>2, <1>3, <1>4 DEF FreeSmall
<1>6. pages' = pages /\ mapped' = mapped /\ chunk_size' = chunk_size /\ up' = up
  BY DEF FreeSmall
<1>7. /\ MapsOK(pages) /\ RegionsOK(given, pages) /\ Few(given)
      /\ Sound(mem, pages, given) /\ Kept(mem, given)
  BY <1>1, WhileUp
<1>8. RegionsOK(hs, pages) /\ Few(hs) /\ Sound(o, pages, hs) /\ Kept(o, hs)
  BY <1>1, <1>4, <1>5, <1>7, SmallDone
<1>9. Up' /\ Down'
  BY <1>1, <1>2, <1>3, <1>6, <1>8, WhileUp DEF Up, Down
<1> QED
  BY <1>1, <1>3, <1>6, <1>8, <1>9, WhileUp DEF IInv

(* npr_heap_fini.                                                          *)
LEMMA HeapFiniStep ==
  ASSUME IInv, HeapFini
  PROVE  IInv'
<1>1. /\ up /\ mapped' = mapped \ UNION {Unmapped(g) : g \in pages} /\ up' = FALSE
      /\ given' = {} /\ mem' = BlankMem /\ pages' = pages /\ chunk_size' = chunk_size
  BY DEF HeapFini
<1>2. /\ MapsOK(pages) /\ \A g \in pages : PagesOf(g) \subseteq mapped
  BY <1>1, WhileUp
<1>3. \A i : i \in mapped' <=> i \in mapped /\ \A g \in pages : i \notin Unmapped(g)
  BY <1>1
<1>4. ASSUME NEW g \in pages
      PROVE  PagesOf(g) \cap mapped' = IF g.large THEN {} ELSE PagesOf(g) \ {g.first}
  <2>1. \A h \in pages : Unmapped(h) \subseteq PagesOf(h)
    <3>1. ASSUME NEW h \in pages PROVE h.first \in PagesOf(h)
      <4>1. h.first \in Nat /\ h.count \in Nat /\ 1 <= h.count
        BY <1>2, HeapAssumption DEF MapsOK, MappingType
      <4> QED
        BY <4>1 DEF PagesOf
    <3> QED
      BY <3>1 DEF Unmapped
  <2>2. \A h \in pages : h # g => PagesOf(h) \cap PagesOf(g) = {}
    BY <1>2 DEF MapsOK
  <2>3. \A i \in PagesOf(g) : i \in mapped' <=> i \notin Unmapped(g)
    BY <1>2, <1>3, <2>1, <2>2
  <2> QED
    BY <2>3 DEF Unmapped
<1>5. RegionsOK({}, pages)
  BY DEF RegionsOK
<1>6. Few({})
  BY FS_EmptySet, HeapAssumption DEF Few
<1>7. Up' /\ Down'
  BY <1>1, <1>4 DEF Up, Down
<1> QED
  BY <1>1, <1>5, <1>6, <1>7, WhileUp DEF IInv

(* Every step keeps it.                                                    *)
LEMMA NextIInv == IInv /\ [Next]_vars => IInv'
<1> SUFFICES ASSUME IInv, [Next]_vars PROVE IInv'
  OBVIOUS
<1>1. CASE UNCHANGED vars
  BY <1>1 DEF vars, IInv, Up, Down
<1>2. CASE HeapInit
  BY <1>2, HeapInitStep
<1>3. CASE \E n \in Size : AllocLarge(n) \/ AllocFit(n) \/ AllocFresh(n)
  BY <1>3, AllocLargeStep, AllocFitStep, AllocFreshStep
<1>4. CASE \E r \in given : FreeLarge(r) \/ FreeSmall(r)
  BY <1>4, FreeLargeStep, FreeSmallStep
<1>5. CASE \E r \in given, d \in Data : Fill(r, d)
  BY <1>5, FillStep
<1>6. CASE HeapFini
  BY <1>6, HeapFiniStep
<1> QED
  BY <1>1, <1>2, <1>3, <1>4, <1>5, <1>6 DEF Next

-----------------------------------------------------------------------------
(* What the invariant says of the properties the runs check.               *)

(* The chunks, as the properties see them.                                 *)
Seen(A, z, U, w, n) ==
  /\ Heap(mem, A, z, U, w, n, Arenas(pages), {})
  /\ Matches(given, z, U) /\ FreeChunks = A \ U /\ ListOf(w, n) = A \ U

(* There are such chunks while the heap is up.                             *)
LEMMA ChunksSeen ==
  ASSUME IInv, up
  PROVE  \E A, z, U, w, n : Seen(A, z, U, w, n)
<1>1. Sound(mem, pages, given) /\ Few(given)
  BY WhileUp
<1>2. PICK A, z, U, w, n :
        Heap(mem, A, z, U, w, n, Arenas(pages), {}) /\ Matches(given, z, U)
  BY <1>1 DEF Sound
<1>3. n <= MaxFree
  BY <1>1, <1>2, FewUsed, FreeCount
<1>4. Walk(mem, w, n) /\ ListOf(w, n) = A \ U /\ n \in Nat
  BY <1>2, AtRest
<1>5. FreeChunksOf(mem) = ListOf(w, n)
  BY <1>3, <1>4, FreeChunksFact
<1> QED
  BY <1>2, <1>4, <1>5 DEF Seen, FreeChunks

(* The invariant gives every variable its type.                            *)
LEMMA TypeFact == IInv => TypeOK
<1> SUFFICES ASSUME IInv PROVE TypeOK
  OBVIOUS
<1>1. mem \in [Cells -> Words]
  <2>1. CASE up
    <3>1. PICK A, z, U, w, n : Heap(mem, A, z, U, w, n, Arenas(pages), {})
      BY <2>1, ChunksSeen DEF Seen
    <3> QED
      BY <3>1, AtRest
  <2>2. CASE ~up
    BY <2>2, BlankSound DEF IInv, Down
  <2> QED
    BY <2>1, <2>2
<1>2. pages \subseteq [first : 1 .. MaxPage, count : 1 .. MaxPage, large : BOOLEAN]
  BY DEF IInv, MapsOK, MappingType
<1>3. ASSUME NEW r \in given
      PROVE  r.ptr \in Cells /\ r.n \in Size /\ r.data \in Data \cup {Unwritten}
  <2>1. r.ptr \in Nat /\ r.n \in Size /\ r.data \in Data \cup {Unwritten}
    BY DEF IInv, RegionsOK, RegionType
  <2>2. up
    BY HeldMeansUp
  <2>3. r.ptr \in PayloadOf(r)
    <3>1. PICK i \in Nat, k \in Nat \ {0} : i = r.ptr /\ k = r.n
      BY <2>1, HeapAssumption
    <3>2. i \in i .. i + k - 1
      OBVIOUS
    <3> QED
      BY <3>1, <3>2 DEF PayloadOf
  <2>4. PayloadOf(r) \subseteq Cells
    BY <2>2, WhileUp, PayloadCells
  <2> QED
    BY <2>1, <2>3, <2>4
<1> QED
  BY <1>1, <1>2, <1>3 DEF TypeOK, IInv

SpanOf(a, z, U) == [at |-> a, size |-> z[a], used |-> a \in U]

(* The spans are the chunks.                                               *)
LEMMA SpansFact ==
  ASSUME IInv, NEW A, NEW z, NEW U, NEW w, NEW n, Seen(A, z, U, w, n)
  PROVE  \A s : s \in Spans <=> \E a \in A : s = SpanOf(a, z, U)
<1>1. /\ Matches(given, z, U) /\ FreeChunks = A \ U /\ U \subseteq A
      /\ \A a \in A \ U : mem[a] = z[a]
  <2>1. Heap(mem, A, z, U, w, n, Arenas(pages), {})
    BY DEF Seen
  <2>2. U \subseteq A /\ \A a \in A \ U : FreeOK(mem, z, U, Arenas(pages), a)
    BY <2>1, AtRest
  <2> QED
    BY <2>2 DEF Seen, FreeOK
<1>2. Small = SmallOf(given)
  BY DEF Small, SmallOf
<1>3. U = {r.ptr : r \in Small} /\ \A r \in Small : z[r.ptr] = calc_alloc_size(r.n)
  BY <1>1, <1>2 DEF Matches
<1>4. PICK X : X = {[at |-> r.ptr, size |-> calc_alloc_size(r.n), used |-> TRUE] : r \in Small}
  OBVIOUS
<1>5. PICK Y : Y = {[at |-> f, size |-> mem[f], used |-> FALSE] : f \in FreeChunks}
  OBVIOUS
<1>6. Spans = X \cup Y
  BY <1>4, <1>5 DEF Spans
<1>7. ASSUME NEW s \in X PROVE \E a \in A : s = SpanOf(a, z, U)
  <2>1. PICK r \in Small : s = [at |-> r.ptr, size |-> calc_alloc_size(r.n), used |-> TRUE]
    BY <1>4, <1>7
  <2>2. r.ptr \in U /\ r.ptr \in A /\ z[r.ptr] = calc_alloc_size(r.n)
    BY <1>1, <1>3
  <2>3. s = SpanOf(r.ptr, z, U)
    BY <2>1, <2>2 DEF SpanOf
  <2> QED
    BY <2>2, <2>3
<1>8. ASSUME NEW s \in Y PROVE \E a \in A : s = SpanOf(a, z, U)
  <2>1. PICK f \in A \ U : s = [at |-> f, size |-> mem[f], used |-> FALSE]
    BY <1>1, <1>5, <1>8
  <2>2. (f \in U) = FALSE /\ mem[f] = z[f]
    BY <1>1, <2>1
  <2>3. s = SpanOf(f, z, U)
    BY <2>1, <2>2, Zenon DEF SpanOf
  <2> QED
    BY <2>1, <2>3
<1>9. ASSUME NEW a \in A PROVE SpanOf(a, z, U) \in X \cup Y
  <2>1. CASE a \in U
    <3>1. PICK r \in Small : r.ptr = a
      BY <1>3, <2>1
    <3>2. SpanOf(a, z, U) = [at |-> r.ptr, size |-> calc_alloc_size(r.n), used |-> TRUE]
      BY <1>3, <2>1, <3>1 DEF SpanOf
    <3> QED
      BY <1>4, <3>2
  <2>2. CASE a \notin U
    <3>1. (a \in U) = FALSE /\ mem[a] = z[a]
      BY <1>1, <2>2
    <3>2. SpanOf(a, z, U) = [at |-> a, size |-> mem[a], used |-> FALSE]
      BY <3>1, Zenon DEF SpanOf
    <3> QED
      BY <1>1, <1>5, <2>2, <3>2
  <2> QED
    BY <2>1, <2>2
<1> QED
  BY <1>6, <1>7, <1>8, <1>9

(* Every word of an arena is in one of them.                               *)
LEMMA TiledFact == IInv => Tiled
<1> SUFFICES ASSUME IInv, up PROVE Tiled
  BY DEF Tiled
<1>1. PICK A, z, U, w, n : Seen(A, z, U, w, n)
  BY ChunksSeen
<1>2. \A s : s \in Spans <=> \E a \in A : s = SpanOf(a, z, U)
  BY <1>1, SpansFact
<1>3. PICK G : G = Arenas(pages)
  OBVIOUS
<1>4. /\ Ranges(G) /\ Tiles(A, z, G) /\ n \in Nat /\ Walk(mem, w, n)
      /\ ListOf(w, n) = A \ U /\ FreeChunks = A \ U
  BY <1>1, <1>3, AtRest DEF Seen
<1>5. \A a \in A : SpanOf(a, z, U).at = a /\ SpanOf(a, z, U).size = z[a]
  BY DEF SpanOf
<1>6. PICK S : S = {StartOf(g) .. EndOf(g) - 1 : g \in G}
  OBVIOUS
<1>7. Usable = UNION S
  BY <1>3, <1>6 DEF Usable, Arenas
<1>8. ASSUME NEW c \in Usable PROVE Cardinality(Covering(c)) = 1
  <2>1. PICK g \in G : c \in StartOf(g) .. EndOf(g) - 1
    BY <1>6, <1>7
  <2>2. c \in Nat /\ StartOf(g) <= c /\ c < EndOf(g)
    <3>1. StartOf(g) \in Nat /\ EndOf(g) \in Nat
      BY <1>4 DEF Ranges
    <3> QED
      BY <2>1, <3>1
  <2>3. PICK a \in A : a <= c /\ c < a + z[a]
    BY <1>4, <2>2 DEF Tiles
  <2>4. ASSUME NEW s PROVE s \in Covering(c) <=> s = SpanOf(a, z, U)
    <3>1. \A b \in A : b \in Nat /\ z[b] \in Nat
      BY <1>4 DEF Tiles
    <3>2. ASSUME NEW b \in A
          PROVE  c \in b .. b + z[b] - 1 <=> b = a
      <4>1. b \in Nat /\ z[b] \in Nat
        BY <3>1
      <4>2. c \in b .. b + z[b] - 1 <=> b <= c /\ c < b + z[b]
        BY <2>2, <4>1
      <4>3. b <= c /\ c < b + z[b] => b = a
        BY <1>4, <2>2, <2>3, TilesApart
      <4> QED
        BY <2>3, <4>2, <4>3
    <3>3. s \in Covering(c) <=> s \in Spans /\ c \in s.at .. s.at + s.size - 1
      BY DEF Covering
    <3>4. s \in Covering(c) => s = SpanOf(a, z, U)
      BY <1>2, <1>5, <3>2, <3>3
    <3>5. SpanOf(a, z, U) \in Spans
      BY <1>2
    <3>6. SpanOf(a, z, U) \in Covering(c)
      BY <1>5, <3>2, <3>5 DEF Covering
    <3> QED
      BY <3>4, <3>6
  <2>5. Covering(c) = {SpanOf(a, z, U)}
    BY <2>4
  <2> QED
    BY <2>5, FS_Singleton
<1>9. ASSUME NEW s \in Spans PROVE s.at .. s.at + s.size - 1 \subseteq Usable
  <2>1. PICK a \in A : s = SpanOf(a, z, U)
    BY <1>2
  <2>2. s.at = a /\ s.size = z[a] /\ a \in Nat /\ z[a] \in Nat
    BY <1>4, <1>5, <2>1 DEF Tiles
  <2>3. PICK g \in G : StartOf(g) <= a /\ a + z[a] <= EndOf(g)
    BY <1>4 DEF Tiles
  <2>4. StartOf(g) \in Nat /\ EndOf(g) \in Nat
    BY <1>4 DEF Ranges
  <2>5. a .. a + z[a] - 1 \subseteq StartOf(g) .. EndOf(g) - 1
    BY <2>2, <2>3, <2>4
  <2>6. StartOf(g) .. EndOf(g) - 1 \in S
    BY <1>6
  <2> QED
    BY <1>7, <2>2, <2>5, <2>6
<1>10. ASSUME NEW f \in FreeChunks \cup {free_head} PROVE mem[prev(mem[next(f)])] = f
  <2>1. w[0] = free_head
    BY <1>4 DEF Walk, Apart
  <2>2. PICK i \in 0 .. n : f = w[i]
    BY <1>4, <2>1 DEF ListOf
  <2> QED
    BY <1>4, <2>2 DEF Walk
<1> QED
  BY <1>8, <1>9, <1>10 DEF Tiled

(* The tags are right.                                                     *)
LEMMA TagsFact == IInv => TagsRight
<1> SUFFICES ASSUME IInv, NEW r \in Small, ~PageLast(End(r))
             PROVE  /\ SizeOf(mem[End(r) - 1]) = End(r) - r.ptr /\ ThisBit(mem[End(r) - 1])
                    /\ NextBit(mem[End(r) - 1]) <=> \E s \in Small : s.ptr = End(r)
  BY DEF TagsRight
<1>1. up
  BY HeldMeansUp DEF Small
<1>2. PICK A, z, U, w, n : Seen(A, z, U, w, n)
  BY <1>1, ChunksSeen
<1>3. PICK G : G = Arenas(pages)
  OBVIOUS
<1>4. /\ Ranges(G) /\ Tiles(A, z, G) /\ U \subseteq A
      /\ \A a \in U : UsedOK(mem, z, U, G, a)
  BY <1>2, <1>3, AtRest DEF Seen
<1>5. Small = SmallOf(given)
  BY DEF Small, SmallOf
<1>6. U = {s.ptr : s \in Small} /\ \A s \in Small : z[s.ptr] = calc_alloc_size(s.n)
  BY <1>2, <1>5 DEF Matches, Seen
<1>7. PICK a \in U : a = r.ptr
  BY <1>6
<1>8. PICK x \in Nat, l \in Nat : x = a /\ l = z[a] /\ l < THIS_ALLOCATED_BIT
  BY <1>4, TileWords
<1>9. PICK B \in Nat : B = THIS_ALLOCATED_BIT
  BY HeapAssumption
<1>10. End(r) = x + l
  BY <1>6, <1>7, <1>8 DEF End
<1>11. a + z[a] - 1 = End(r) - 1 /\ a + z[a] = End(r) /\ End(r) - r.ptr = l
  BY <1>7, <1>8, <1>10
<1>12. PICK tag : tag = mem[End(r) - 1]
  OBVIOUS
<1>13. /\ tag = l + B \/ tag = l + 3 * B
       /\ tag = l + 3 * B <=> End(r) \in U
  BY <1>4, <1>8, <1>9, <1>11, <1>12 DEF UsedOK
<1>14. /\ SizeOf(l + B) = l /\ SizeOf(l + 3 * B) = l
       /\ ThisBit(l + B) /\ ThisBit(l + 3 * B) /\ ~NextBit(l + B) /\ NextBit(l + 3 * B)
  BY <1>8, <1>9, TagBits
<1>15. SizeOf(tag) = l /\ ThisBit(tag) /\ (NextBit(tag) <=> End(r) \in U)
  BY <1>13, <1>14
<1>16. End(r) \in U <=> \E s \in Small : s.ptr = End(r)
  BY <1>6
<1> QED
  BY <1>11, <1>12, <1>15, <1>16

(* No free chunk has a free one behind it.                                 *)
LEMMA CoalescedFact == IInv => Coalesced
<1> SUFFICES ASSUME IInv, up, NEW f \in FreeChunks, ~PageLast(f + mem[f])
             PROVE  f + mem[f] \notin FreeChunks
  BY DEF Coalesced
<1>1. PICK A, z, U, w, n : Seen(A, z, U, w, n)
  BY ChunksSeen
<1>2. FreeChunks = A \ U /\ \A a \in A \ U : FreeOK(mem, z, U, Arenas(pages), a)
  BY <1>1, AtRest DEF Seen
<1>3. f + mem[f] \in U
  BY <1>2 DEF FreeOK
<1> QED
  BY <1>2, <1>3

(* Every region can be freed, and every free chunk unlinked.               *)
LEMMA FaultFact == IInv => NoFault
<1> SUFFICES ASSUME IInv, up PROVE NoFault
  BY DEF NoFault
<1>1. PICK A, z, U, w, n : Seen(A, z, U, w, n)
  BY ChunksSeen
<1>2. PICK G : G = Arenas(pages)
  OBVIOUS
<1>3. Heap(mem, A, z, U, w, n, G, {})
  BY <1>1, <1>2 DEF Seen
<1>4. /\ mem \in [Cells -> Words] /\ Ranges(G) /\ Tiles(A, z, G)
      /\ U \subseteq A /\ n \in Nat /\ Walk(mem, w, n) /\ ListOf(w, n) = A \ U
      /\ \A a \in U : UsedOK(mem, z, U, G, a)
      /\ \A a \in A \ U : FreeOK(mem, z, U, G, a)
  BY <1>3, AtRest
<1>5. ASSUME NEW f \in FreeChunks PROVE Linked(mem, f)
  <2>1. PICK i \in 1 .. n : f = w[i]
    BY <1>1, <1>5 DEF Seen, ListOf
  <2> QED
    BY <1>4, <2>1, LinkedFact
<1>6. ASSUME NEW r \in Small
      PROVE  LET sz == calc_alloc_size(r.n)
             IN  BehindSane(mem, r.ptr, sz) /\ BeforeSane(Behind(mem, r.ptr, sz), r.ptr)
  <2>1. PICK p : p = r.ptr
    OBVIOUS
  <2>2. r \in SmallOf(given)
    BY DEF Small, SmallOf
  <2>3. p \in U /\ z[p] = calc_alloc_size(r.n)
    BY <1>1, <2>1, <2>2 DEF Seen, Matches
  <2>4. Opened(mem, A, z, U, w, n, G, {}, p)
    <3>1. /\ U \ {p} \subseteq A /\ (U \ {p}) \cap ListOf(w, n) = {} /\ p \notin ListOf(w, n)
          /\ \A a \in U \ {p} : UsedOK(mem, z, U, G, a)
          /\ A \ U \subseteq ListOf(w, n) /\ ListOf(w, n) \subseteq A
      BY <1>4, <2>3
    <3>2. Private({}, A, z, U \ {p})
      BY DEF Private
    <3>3. Chunks(mem, A, z, U, U \ {p}, A \ U, w, n, G, {})
      BY <1>4, <3>1, <3>2 DEF Chunks
    <3>4. PageFirst(p) => \E g \in G : p = StartOf(g)
      BY <1>4, <2>3 DEF UsedOK
    <3> QED
      BY <2>3, <3>1, <3>3, <3>4 DEF Opened
  <2>5. UsedOK(mem, z, U, G, p)
    BY <1>4, <2>3
  <2>6. PICK m1 : m1 = Behind(mem, p, z[p])
    OBVIOUS
  <2>7. BehindSane(mem, p, z[p])
    BY <2>4, <2>5, BehindSound
  <2>8. BehindDone(mem, m1, z, U, G, {}, p)
    BY <2>4, <2>5, <2>6, BehindFact
  <2>9. PICK A1, z1, w1, n1 : Opened(m1, A1, z1, U, w1, n1, G, {}, p) /\ FreeOK(m1, z1, U, G, p)
    BY <2>8 DEF BehindDone
  <2>10. BeforeSane(m1, p)
    BY <2>9, BeforeSound
  <2> QED
    BY <2>1, <2>3, <2>6, <2>7, <2>10
<1> QED
  BY <1>5, <1>6 DEF NoFault

(* So the assertion of npr_heap_free holds.                                *)
LEMMA AssertionFact == IInv => TagAssertion
<1> SUFFICES ASSUME IInv, NEW r \in Small
             PROVE  PageLast(End(r)) \/ TagAsserted(mem, r.ptr, calc_alloc_size(r.n))
  BY DEF TagAssertion
<1>1. up /\ NoFault
  BY HeldMeansUp, FaultFact DEF Small
<1>2. BehindSane(mem, r.ptr, calc_alloc_size(r.n))
  BY <1>1 DEF NoFault
<1> QED
  BY <1>2 DEF BehindSane, End

(* What the client wrote is still there.                                   *)
LEMMA DataFact == IInv => DataKept
<1> SUFFICES ASSUME IInv, NEW r \in given, r.data # Unwritten,
                    NEW c \in r.ptr .. r.ptr + r.n - 1
             PROVE  mem[c] = r.data
  BY DEF DataKept
<1>1. up
  BY HeldMeansUp
<1> QED
  BY <1>1, WhileUp DEF Kept, PayloadOf

(* The mappings are mapped, and the regions lie in them.                   *)
LEMMA OwnedFact == IInv => MappedIsOwned
<1> SUFFICES ASSUME IInv PROVE MappedIsOwned
  OBVIOUS
<1>1. ASSUME NEW g \in pages
      PROVE  IF up THEN PagesOf(g) \subseteq mapped
             ELSE PagesOf(g) \cap mapped = IF g.large THEN {} ELSE PagesOf(g) \ {g.first}
  BY DEF IInv, Up, Down
<1>2. ASSUME NEW r \in given
      PROVE  \E g \in pages : StartOf(g) <= r.ptr /\ End(r) <= EndOf(g)
  <2>1. up
    BY HeldMeansUp
  <2>2. MapsOK(pages) /\ RegionsOK(given, pages) /\ Sound(mem, pages, given)
    BY <2>1, WhileUp
  <2> QED
    BY <2>2, RegionInMapping
<1> QED
  BY <1>1, <1>2 DEF MappedIsOwned

-----------------------------------------------------------------------------
(* The heap implements NprExecMemory.                                      *)

(* What the abstract memory sees of the mappings and regions.              *)
OwnedWords == {c \in Cells : c \div page_size \in mapped}
Views == {View(r) : r \in given}

(* Its operators, over what it sees.                                       *)
LEMMA Abstract ==
  /\ E!Init <=> Views = {} /\ up = TRUE
  /\ \A R : E!Keeps(R) <=>
       \A v \in R : /\ E!WordsOf(v) \subseteq OwnedWords'
                    /\ v.written => \A c \in E!WordsOf(v) : mem'[c] = mem[c]
  /\ E!Fini <=> up /\ ~up' /\ Views' = {}
  /\ E!Create <=> ~up /\ up' /\ Views' = Views
  /\ UNCHANGED E!vars <=> UNCHANGED <<OwnedWords, Views, mem, up>>
BY DEF E!Init, E!Keeps, E!Fini, E!Create, E!vars, OwnedWords, Views

(* A view has the words of its region.                                     *)
LEMMA ViewFact ==
  ASSUME NEW r
  PROVE  /\ View(r).ptr = r.ptr /\ View(r).len = r.n
         /\ View(r).written <=> r.data # Unwritten
         /\ E!WordsOf(View(r)) = PayloadOf(r)
BY DEF View, PayloadOf, E!WordsOf

(* The words of a region are on mapped pages.                              *)
LEMMA PayloadMapped ==
  ASSUME NEW P, MapsOK(P), NEW gs, RegionsOK(gs, P), NEW m, Sound(m, P, gs),
         NEW M, \A g \in P : PagesOf(g) \subseteq M, NEW r \in gs, NEW c \in PayloadOf(r)
  PROVE  c \in Cells /\ c \div page_size \in M
<1>1. PICK h \in P : /\ StartOf(h) <= r.ptr /\ End(r) <= EndOf(h)
                     /\ StartOf(h) \in Nat /\ EndOf(h) \in Nat
                     /\ r.ptr \in Nat /\ r.n \in Nat /\ End(r) \in Nat
                     /\ r.ptr + r.n < End(r)
  BY RegionInMapping
<1>2. c \in Nat /\ StartOf(h) <= c /\ c < EndOf(h)
  BY <1>1 DEF PayloadOf
<1>3. h \in MappingType
  BY DEF MapsOK
<1>4. c \div page_size \in PagesOf(h)
  BY <1>2, <1>3, PageOfWord
<1>5. c \in Cells
  BY PayloadCells
<1> QED
  BY <1>4, <1>5

(* No word is in two regions.                                              *)
LEMMA RegionsApart ==
  ASSUME NEW P, MapsOK(P), NEW gs, RegionsOK(gs, P), NEW m, Sound(m, P, gs),
         NEW r \in gs, NEW s \in gs, r # s
  PROVE  PayloadOf(r) \cap PayloadOf(s) = {}
<1>1. PICK A, z, U, w, n : Heap(m, A, z, U, w, n, Arenas(P), {}) /\ Matches(gs, z, U)
  BY DEF Sound
<1>2. Tiles(A, z, Arenas(P)) /\ U \subseteq A
  BY <1>1, AtRest
<1>3. ASSUME NEW c \in PayloadOf(r), c \in PayloadOf(s) PROVE FALSE
  BY <1>1, <1>2, <1>3, PayloadsApart
<1> QED
  BY <1>3

(* What holds after a step while the heap is up.                           *)
LEMMA WhileUpNext ==
  ASSUME IInv', up'
  PROVE  /\ MapsOK(pages') /\ RegionsOK(given', pages')
         /\ Sound(mem', pages', given') /\ Kept(mem', given')
         /\ \A g \in pages' : PagesOf(g) \subseteq mapped'
BY DEF IInv, Up

(* The views R are of regions held before and after a step.                *)
Lasting(R) == \A v \in R : \E r \in given \cap given' : v = View(r)

(* Those regions were kept.                                                *)
LEMMA KeepsFact ==
  ASSUME IInv, IInv', up, up', NEW R, Lasting(R)
  PROVE  E!Keeps(R)
<1> SUFFICES ASSUME NEW v \in R
             PROVE  /\ E!WordsOf(v) \subseteq OwnedWords'
                    /\ v.written => \A c \in E!WordsOf(v) : mem'[c] = mem[c]
  BY Abstract
<1>1. PICK r \in given \cap given' : v = View(r)
  BY DEF Lasting
<1>2. E!WordsOf(v) = PayloadOf(r) /\ (v.written <=> r.data # Unwritten)
  BY <1>1, ViewFact
<1>3. ASSUME NEW c \in PayloadOf(r) PROVE c \in OwnedWords'
  <2>1. c \in Cells /\ c \div page_size \in mapped'
    BY WhileUpNext, PayloadMapped
  <2> QED
    BY <2>1 DEF OwnedWords
<1>4. ASSUME r.data # Unwritten, NEW c \in PayloadOf(r) PROVE mem'[c] = mem[c]
  <2>1. mem[c] = r.data
    BY <1>4, WhileUp DEF Kept
  <2>2. mem'[c] = r.data
    BY <1>4, WhileUpNext DEF Kept
  <2> QED
    BY <2>1, <2>2
<1> QED
  BY <1>2, <1>3, <1>4

(* One region more is an Alloc.                                            *)
LEMMA GiveFact ==
  ASSUME IInv, IInv', up, up' = up, NEW n \in Size, NEW f, NEW q, q = Region(f, n),
         q \notin given, given' = given \cup {q}
  PROVE  E!Alloc(n)
<1>1. q.n = n /\ q.data = Unwritten
  BY DEF Region
<1>2. View(q).len = n /\ ~View(q).written /\ E!WordsOf(View(q)) = PayloadOf(q)
  BY <1>1, ViewFact
<1>3. Views' = Views \cup {View(q)} /\ View(q) \in Views'
  BY DEF Views
<1>4. ASSUME NEW s \in Views PROVE E!Apart(View(q), s)
  <2>1. PICK r \in given : s = View(r)
    BY <1>4 DEF Views
  <2>2. r \in given' /\ q \in given' /\ r # q
    OBVIOUS
  <2>3. PayloadOf(q) \cap PayloadOf(r) = {}
    BY <2>2, WhileUpNext, RegionsApart
  <2> QED
    BY <1>2, <2>1, <2>3, ViewFact DEF E!Apart
<1>5. ASSUME NEW c \in PayloadOf(q) PROVE c \in OwnedWords'
  <2>1. c \in Cells /\ c \div page_size \in mapped'
    BY WhileUpNext, PayloadMapped
  <2> QED
    BY <2>1 DEF OwnedWords
<1>6. E!Keeps(Views)
  <2>1. PICK R : R = Views
    OBVIOUS
  <2>2. Lasting(R)
    BY <2>1 DEF Views, Lasting
  <2>3. E!Keeps(R)
    BY <2>2, KeepsFact
  <2> QED
    BY <2>1, <2>3 DEF E!Keeps
<1>7. E!WordsOf(View(q)) \subseteq OwnedWords'
  BY <1>2, <1>5
<1> QED
  BY <1>2, <1>3, <1>4, <1>6, <1>7 DEF E!Alloc, Views, OwnedWords

(* Two regions are not seen as one.                                        *)
LEMMA ViewsWithout ==
  ASSUME IInv, up, NEW r \in given
  PROVE  Views \ {View(r)} = {View(s) : s \in given \ {r}}
<1>1. \A s \in given : s.ptr = r.ptr => s = r
  BY WhileUp DEF RegionsOK
<1>2. \A s \in given : View(s) = View(r) => s = r
  BY <1>1, ViewFact
<1> QED
  BY <1>2 DEF Views

(* One region less is a Free.                                              *)
LEMMA TakeFact ==
  ASSUME IInv, IInv', up, up' = up, NEW r \in given, given' = given \ {r}
  PROVE  E!Free(View(r))
<1>1. View(r) \in Views /\ Views' = Views \ {View(r)}
  BY ViewsWithout DEF Views
<1>2. E!Keeps(Views')
  <2>1. PICK R : R = Views'
    OBVIOUS
  <2>2. Lasting(R)
    BY <2>1 DEF Views, Lasting
  <2>3. E!Keeps(R)
    BY <2>2, KeepsFact
  <2> QED
    BY <2>1, <2>3 DEF E!Keeps
<1> QED
  BY <1>1, <1>2 DEF E!Free, Views

(* A write of the client is a Write.                                       *)
LEMMA WriteFact ==
  ASSUME IInv, IInv', NEW r \in given, NEW d \in Data, Fill(r, d)
  PROVE  E!Write(View(r), d)
<1>1. up /\ up' = up
  BY HeldMeansUp DEF Fill
<1>2. PICK q : q = [r EXCEPT !.data = d]
  OBVIOUS
<1>3. given' = (given \ {r}) \cup {q}
  BY <1>2 DEF Fill
<1>4. r \in RegionType /\ d \in Nat
  BY <1>1, WhileUp, HeapAssumption DEF RegionsOK
<1>5. q.ptr = r.ptr /\ q.n = r.n /\ q.data = d /\ d # Unwritten
  BY <1>2, <1>4 DEF RegionType, Unwritten
<1>6. View(q) = E!Region(View(r).ptr, View(r).len, TRUE)
  <2>1. (q.data # Unwritten) = TRUE
    BY <1>5
  <2>2. View(q) = [ptr |-> r.ptr, len |-> r.n, written |-> TRUE]
    BY <1>5, <2>1, Zenon DEF View
  <2>3. View(r).ptr = r.ptr /\ View(r).len = r.n
    BY ViewFact
  <2> QED
    BY <2>2, <2>3 DEF E!Region
<1>7. View(r) \in Views /\ Views' = (Views \ {View(r)}) \cup {View(q)}
  <2>1. Views \ {View(r)} = {View(s) : s \in given \ {r}}
    BY <1>1, ViewsWithout
  <2> QED
    BY <1>3, <2>1 DEF Views
<1>8. E!Keeps(Views \ {View(r)})
  <2>1. PICK R : R = Views \ {View(r)}
    OBVIOUS
  <2>2. R = {View(s) : s \in given \ {r}}
    BY <1>1, <2>1, ViewsWithout
  <2>3. Lasting(R)
    BY <1>3, <2>2 DEF Lasting
  <2>4. E!Keeps(R)
    BY <1>1, <2>3, KeepsFact
  <2> QED
    BY <2>1, <2>4 DEF E!Keeps
<1>9. ASSUME NEW c \in E!WordsOf(View(r)) PROVE c \in OwnedWords' /\ mem'[c] = d
  <2>1. c \in PayloadOf(q) /\ c \in PayloadOf(r) /\ q \in given'
    BY <1>3, <1>5, <1>9, ViewFact DEF PayloadOf
  <2>2. c \in Cells /\ c \div page_size \in mapped'
    BY <1>1, <2>1, WhileUpNext, PayloadMapped
  <2>3. mem'[c] = d
    BY <1>1, <1>5, <2>1, WhileUpNext DEF Kept
  <2> QED
    BY <2>2, <2>3 DEF OwnedWords
<1> QED
  BY <1>1, <1>6, <1>7, <1>8, <1>9 DEF E!Write, Views, OwnedWords

(* The heap hands out no region that is held already.                      *)
LEMMA FitIsNew ==
  ASSUME IInv, NEW n \in Size, AllocFit(n)
  PROVE  \E f : Region(f, n) \notin given /\ given' = given \cup {Region(f, n)}
<1>1. up /\ ~IsLarge(n)
  BY DEF AllocFit, CanAlloc
<1>2. PICK k \in 0 .. MaxFree : /\ Nodes(mem)[k] # free_tail
                                /\ given' = given \cup {Region(Nodes(mem)[k], n)}
  BY DEF AllocFit
<1>3. PICK f : f = Nodes(mem)[k]
  OBVIOUS
<1>4. f \in FreeChunks
  BY <1>2, <1>3 DEF FreeChunks, FreeChunksOf
<1>5. PICK A, z, U, w, m : Seen(A, z, U, w, m)
  BY <1>1, ChunksSeen
<1>6. f \notin U
  BY <1>4, <1>5 DEF Seen
<1>7. Region(f, n).ptr = f /\ Region(f, n).n = n
  BY DEF Region
<1>8. ASSUME Region(f, n) \in given PROVE FALSE
  <2>1. Region(f, n) \in SmallOf(given)
    BY <1>1, <1>7, <1>8 DEF SmallOf
  <2> QED
    BY <1>5, <1>6, <1>7, <2>1 DEF Seen, Matches
<1> QED
  BY <1>2, <1>3, <1>8

(* Nor one in a mapping on pages that are mapped already.                  *)
LEMMA FreshIsNew ==
  ASSUME IInv, up, NEW n \in Size, NEW p \in 1 .. MaxPage, NEW k, MapAt(p, k),
         NEW l \in BOOLEAN, Mapping(p, k, l) \in pages', MapsOK(pages'),
         NEW q, q = Region(StartOf(Mapping(p, k, l)), n)
  PROVE  q \notin given
<1>1. PICK g : g = Mapping(p, k, l)
  OBVIOUS
<1>2. g \in MappingType /\ g.first = p /\ PagesOf(g) = p .. p + k - 1
      /\ PagesOf(g) \subseteq 1 .. MaxPage
  BY <1>1 DEF Mapping, MapsOK, PagesOf
<1>3. q.ptr = StartOf(g) /\ q.n = n
  BY <1>1 DEF Region
<1>4. StartOf(g) \div page_size = p
  BY <1>2, MappingBounds
<1>5. p \in PagesOf(g)
  <2>1. g.count \in 1 .. MaxPage /\ g.count = k /\ MaxPage \in Nat
    BY <1>1, <1>2, HeapAssumption DEF MappingType, Mapping
  <2> QED
    BY <1>2, <2>1
<1>6. p \notin mapped
  BY <1>2, <1>5 DEF MapAt
<1>7. ASSUME q \in given PROVE FALSE
  <2>1. /\ MapsOK(pages) /\ RegionsOK(given, pages) /\ Sound(mem, pages, given)
        /\ \A h \in pages : PagesOf(h) \subseteq mapped
    BY WhileUp
  <2>2. n \in Nat \ {0} /\ q.ptr \in Nat
    BY <1>7, <2>1, HeapAssumption DEF RegionsOK, RegionType
  <2>3. q.ptr \in PayloadOf(q)
    BY <1>3, <2>2 DEF PayloadOf
  <2>4. q.ptr \div page_size \in mapped
    BY <1>7, <2>1, <2>3, PayloadMapped
  <2> QED
    BY <1>3, <1>4, <1>6, <2>4
<1> QED
  BY <1>7

(* Every step of the heap is a step of the memory, or nothing to it.       *)
LEMMA Simulates == IInv /\ IInv' /\ [Next]_vars => [E!Next]_(E!vars)
<1> SUFFICES ASSUME IInv, IInv', [Next]_vars PROVE E!Next \/ UNCHANGED E!vars
  OBVIOUS
<1>1. ASSUME HeapInit PROVE E!Create
  BY <1>1, Abstract DEF HeapInit, Views
<1>2. ASSUME NEW n \in Size, AllocLarge(n) PROVE E!Alloc(n)
  <2>1. up /\ up' = up
    BY <1>2 DEF AllocLarge, CanAlloc
  <2>2. PICK p \in 1 .. MaxPage :
          /\ MapAt(p, LargePages(n)) /\ Mapping(p, LargePages(n), TRUE) \in pages'
          /\ given' = given \cup {Region(StartOf(Mapping(p, LargePages(n), TRUE)), n)}
    BY <1>2 DEF AllocLarge
  <2>3. PICK k : k = LargePages(n)
    OBVIOUS
  <2>4. PICK q : q = Region(StartOf(Mapping(p, k, TRUE)), n)
    OBVIOUS
  <2>5. q \notin given
    <3>1. MapAt(p, k) /\ Mapping(p, k, TRUE) \in pages' /\ MapsOK(pages') /\ TRUE \in BOOLEAN
      BY <2>1, <2>2, <2>3, WhileUpNext
    <3> QED
      BY <2>1, <2>4, <3>1, FreshIsNew
  <2>6. given' = given \cup {q}
    BY <2>2, <2>3, <2>4
  <2> QED
    BY <2>1, <2>4, <2>5, <2>6, GiveFact
<1>3. ASSUME NEW n \in Size, AllocFit(n) PROVE E!Alloc(n)
  <2>1. up /\ up' = up
    BY <1>3 DEF AllocFit, CanAlloc
  <2>2. PICK f : Region(f, n) \notin given /\ given' = given \cup {Region(f, n)}
    BY <1>3, FitIsNew
  <2>3. PICK q : q = Region(f, n)
    OBVIOUS
  <2>4. q \notin given /\ given' = given \cup {q}
    BY <2>2, <2>3
  <2> QED
    BY <2>1, <2>3, <2>4, GiveFact
<1>4. ASSUME NEW n \in Size, AllocFresh(n) PROVE E!Alloc(n)
  <2>1. up /\ up' = up
    BY <1>4 DEF AllocFresh, CanAlloc
  <2>2. PICK k : k = chunk_size \div page_size
    OBVIOUS
  <2>3. PICK p \in 1 .. MaxPage :
          /\ MapAt(p, k) /\ Mapping(p, k, FALSE) \in pages'
          /\ given' = given \cup {Region(StartOf(Mapping(p, k, FALSE)), n)}
    BY <1>4, <2>2 DEF AllocFresh
  <2>4. PICK q : q = Region(StartOf(Mapping(p, k, FALSE)), n)
    OBVIOUS
  <2>5. q \notin given
    <3>1. MapAt(p, k) /\ Mapping(p, k, FALSE) \in pages' /\ MapsOK(pages') /\ FALSE \in BOOLEAN
      BY <2>1, <2>3, WhileUpNext
    <3> QED
      BY <2>1, <2>4, <3>1, FreshIsNew
  <2>6. given' = given \cup {q}
    BY <2>3, <2>4
  <2> QED
    BY <2>1, <2>4, <2>5, <2>6, GiveFact
<1>5. ASSUME NEW r \in given, FreeLarge(r) \/ FreeSmall(r) PROVE E!Free(View(r))
  <2>1. up' = up /\ given' = given \ {r}
    BY <1>5 DEF FreeLarge, FreeSmall
  <2> QED
    BY <2>1, HeldMeansUp, TakeFact
<1>6. ASSUME NEW r \in given, NEW d \in Data, Fill(r, d) PROVE E!Write(View(r), d)
  BY <1>6, WriteFact
<1>7. ASSUME HeapFini PROVE E!Fini
  BY <1>7, Abstract DEF HeapFini, Views
<1>8. CASE UNCHANGED vars
  BY <1>8, Abstract DEF vars, OwnedWords, Views
<1>9. \A r \in given : View(r) \in Views
  BY DEF Views
<1> QED
  BY <1>1, <1>2, <1>3, <1>4, <1>5, <1>6, <1>7, <1>8, <1>9 DEF Next, E!Next, Views

-----------------------------------------------------------------------------
(* With a disciplined client:                                              *)

(* The invariant holds in every state.                                     *)
THEOREM Invariant == Disciplined /\ Spec => []IInv
<1>1. Disciplined /\ Init => IInv
  BY InitIInv
<1>2. IInv /\ [Next]_vars => IInv'
  BY NextIInv
<1> QED
  BY <1>1, <1>2, PTL DEF Spec

(* Every variable has its type.                                            *)
THEOREM HeapTyped == Disciplined /\ Spec => []TypeOK
BY Invariant, TypeFact, PTL

(* heap.c: however allocations and frees are ordered, every word of the    *)
(* mappings that are cut up is in one chunk, in use or on the free list,   *)
(* and the list is linked both ways.                                       *)
THEOREM HeapTiled == Disciplined /\ Spec => []Tiled
BY Invariant, TiledFact, PTL

(* heap.c: the tag of a chunk in use has its size, and says of the chunk   *)
(* behind whether that one is in use.                                      *)
THEOREM HeapTagsRight == Disciplined /\ Spec => []TagsRight
BY Invariant, TagsFact, PTL

(* heap.c: free leaves no two free chunks side by side within a page.      *)
THEOREM HeapCoalesced == Disciplined /\ Spec => []Coalesced
BY Invariant, CoalescedFact, PTL

(* heap.c: every region that is handed out can be freed, with the tag the  *)
(* assertion expects, and no link that is followed is NULL or wild.        *)
THEOREM HeapNoFault == Disciplined /\ Spec => []NoFault
BY Invariant, FaultFact, PTL

(* heap.c:226: the assertion that run heap_tags refutes without the limits *)
(* of the client holds within them.                                        *)
THEOREM HeapTagAssertion == Disciplined /\ Spec => []TagAssertion
BY Invariant, AssertionFact, PTL

(* heap.c: the heap writes no word of a region that is handed out.         *)
THEOREM HeapDataKept == Disciplined /\ Spec => []DataKept
BY Invariant, DataFact, PTL

(* heap.c: listed mappings are mapped as a whole and hold every region;    *)
(* fini gives back all pages of large ones, one page of the others.        *)
THEOREM HeapMappedIsOwned == Disciplined /\ Spec => []MappedIsOwned
BY Invariant, OwnedFact, PTL

(* heap.c: the heap keeps what NprExecMemory promises: a region is mapped, *)
(* apart from every other, and holds what the client wrote until freed.    *)
THEOREM HeapRefinement == Disciplined /\ Spec => RefinesExecMemory
<1>1. Init => E!Init
  BY Abstract DEF Init, Views
<1> QED
  BY <1>1, Simulates, Invariant, PTL DEF Spec, RefinesExecMemory, E!Spec
=============================================================================
