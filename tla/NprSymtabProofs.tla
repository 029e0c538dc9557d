---------------------------- MODULE NprSymtabProofs ----------------------------
(***************************************************************************)
(* Proofs about NprSymtab, for any number of tables, symbols and entries,  *)
(* any hash function and any list of bin counts.                           *)
(***************************************************************************)
EXTENDS NprSymtab, NprChunkAllocProofs

(* The loop of alloc_entry leaves in a bin the entries that hash to it,    *)
(* once each if it met them once each.                                     *)
LEMMA RechainedFact ==
  ASSUME NEW S, NEW es \in Seq(S), NEW j, NEW n
  PROVE  LET r == Rechained(es, j, n)
         IN  /\ r \in Seq(S)
             /\ \A e : e \in ToSet(r) <=>
                         e \in ToSet(es) /\ BinOf(entry[e].sym, n) = j
             /\ IsInjective(es) => IsInjective(r)
<1> DEFINE Here(e) == BinOf(entry[e].sym, n) = j
           Step(h, i) == IF Here(es[i]) THEN <<es[i]>> \o h[i - 1] ELSE h[i - 1]
           Upto(m) == \E g \in [0 .. m -> Seq(S)] :
                        g[0] = <<>> /\ \A i \in 1 .. m : g[i] = Step(g, i)
<1>0. PICK len \in Nat : len = Len(es)
  OBVIOUS
<1>1. \A i \in 1 .. len : es[i] \in S /\ <<es[i]>> \in Seq(S)
  BY <1>0
<1>2. Upto(0)
  <2>1. PICK g : g = [i \in 0 .. 0 |-> <<>>]
    OBVIOUS
  <2>2. g \in [0 .. 0 -> Seq(S)] /\ g[0] = <<>> /\ \A i \in 1 .. 0 : FALSE
    BY <2>1
  <2> QED
    BY <2>2
<1>3. ASSUME NEW m \in 0 .. len - 1, Upto(m) PROVE Upto(m + 1)
  <2>1. PICK g \in [0 .. m -> Seq(S)] :
          g[0] = <<>> /\ \A i \in 1 .. m : g[i] = Step(g, i)
    BY <1>3
  <2>2. PICK h : h = [i \in 0 .. m + 1 |-> IF i = m + 1 THEN Step(g, m + 1) ELSE g[i]]
    OBVIOUS
  <2>3. Step(g, m + 1) \in Seq(S)
    <3>1. g[m] \in Seq(S) /\ <<es[m + 1]>> \in Seq(S) /\ (m + 1) - 1 = m
      BY <1>0, <1>1
    <3> QED
      BY <3>1
  <2>4. h \in [0 .. m + 1 -> Seq(S)] /\ h[0] = <<>>
    BY <1>0, <2>1, <2>2, <2>3
  <2>5. ASSUME NEW i \in 1 .. m + 1 PROVE h[i] = Step(h, i)
    <3>1. i - 1 \in 0 .. m /\ h[i - 1] = g[i - 1]
      BY <1>0, <2>2
    <3>2. Step(h, i) = Step(g, i)
      BY <3>1
    <3>3. i = m + 1 => h[i] = Step(g, i)
      BY <1>0, <2>2
    <3>4. i # m + 1 => i \in 1 .. m /\ h[i] = g[i]
      BY <1>0, <2>2
    <3> QED
      BY <2>1, <3>2, <3>3, <3>4
  <2> QED
    BY <2>4, <2>5
<1>4. Upto(len)
  <2> HIDE DEF Upto
  <2>1. PICK T : T = {m \in 0 .. len : ~Upto(m)}
    OBVIOUS
  <2> SUFFICES ASSUME T # {} PROVE FALSE
    BY <1>0, <2>1
  <2>2. PICK m \in T : \A k \in T : m <= k
    <3>1. T \in SUBSET Nat
      BY <1>0, <2>1
    <3> QED
      BY <3>1, LeastOf, Zenon
  <2>3. m # 0
    BY <1>2, <2>1
  <2>4. m - 1 \in 0 .. len - 1 /\ m - 1 \notin T /\ (m - 1) + 1 = m
    BY <1>0, <2>1, <2>2, <2>3
  <2>5. Upto(m - 1)
    BY <1>0, <2>1, <2>4
  <2> QED
    BY <1>3, <2>1, <2>4, <2>5
<1>5. PICK g \in [0 .. len -> Seq(S)] :
        g[0] = <<>> /\ \A i \in 1 .. len : g[i] = Step(g, i)
  BY <1>4
<1> DEFINE Chains(h) == h = [i \in 0 .. Len(es) |->
                              IF i = 0 THEN <<>>
                              ELSE IF BinOf(entry[es[i]].sym, n) = j
                              THEN <<es[i]>> \o h[i - 1] ELSE h[i - 1]]
<1>6. Chains(g)
  <2>1. ASSUME NEW i \in 0 .. len
        PROVE  g[i] = IF i = 0 THEN <<>>
                      ELSE IF BinOf(entry[es[i]].sym, n) = j
                      THEN <<es[i]>> \o g[i - 1] ELSE g[i - 1]
    <3>1. i = 0 \/ i \in 1 .. len
      BY <1>0
    <3> QED
      BY <1>5, <3>1
  <2>2. g = [i \in 0 .. len |-> g[i]]
    BY <1>5
  <2>3. g = [i \in 0 .. len |-> IF i = 0 THEN <<>>
                                ELSE IF BinOf(entry[es[i]].sym, n) = j
                                THEN <<es[i]>> \o g[i - 1] ELSE g[i - 1]]
    BY <2>1, <2>2
  <2> QED
    BY <1>0, <2>3
<1>7. Rechained(es, j, n) = (CHOOSE h : Chains(h))[Len(es)]
  BY DEF Rechained
<1>8. PICK h : h = CHOOSE x : Chains(x)
  OBVIOUS
<1>9. Chains(h)
  <2> HIDE DEF Chains
  <2> QED
    BY <1>6, <1>8, Zenon
<1>10. /\ h[0] = <<>>
       /\ \A i \in 1 .. len : h[i] = Step(h, i)
  <2>1. \A i \in 0 .. len : h[i] = IF i = 0 THEN <<>>
                      ELSE IF BinOf(entry[es[i]].sym, n) = j
                      THEN <<es[i]>> \o h[i - 1] ELSE h[i - 1]
    BY <1>0, <1>9
  <2>2. 0 \in 0 .. len /\ \A i \in 1 .. len : i \in 0 .. len /\ i # 0
    BY <1>0
  <2> QED
    BY <2>1, <2>2
<1> HIDE DEF Chains, Here
<1> DEFINE Holds(i) ==
             /\ h[i] \in Seq(S)
             /\ \A e : e \in ToSet(h[i]) <=>
                         Here(e) /\ \E k \in 1 .. i : e = es[k]
             /\ IsInjective(es) => IsInjective(h[i])
<1>11. Holds(0)
  <2>1. h[0] = <<>> /\ <<>> \in Seq(S) /\ \A i \in 1 .. 0 : FALSE
    BY <1>10
  <2>2. ToSet(<<>>) = {} /\ IsInjective(<<>>)
    BY DEF ToSet, IsInjective
  <2> QED
    BY <2>1, <2>2
<1>12. ASSUME NEW i \in 1 .. len, Holds(i - 1) PROVE Holds(i)
  <2>1. PICK p \in Nat : p = i - 1
    BY <1>0
  <2>2. /\ \A k : k \in 1 .. i <=> k \in 1 .. p \/ k = i
        /\ \A k \in 1 .. p : k \in 1 .. len /\ k # i
    BY <1>0, <2>1
  <2>3. PICK x : x = es[i]
    OBVIOUS
  <2>4. PICK s \in Seq(S) : s = h[p]
    BY <1>12, <2>1
  <2>5. h[i] = IF Here(x) THEN <<x>> \o s ELSE s
    BY <1>10, <2>1, <2>3, <2>4
  <2>6. /\ \A e : e \in ToSet(s) <=> Here(e) /\ \E k \in 1 .. p : e = es[k]
        /\ IsInjective(es) => IsInjective(s)
    BY <1>12, <2>1, <2>4
  <2>7. CASE ~Here(x)
    BY <2>2, <2>3, <2>4, <2>5, <2>6, <2>7
  <2>8. CASE Here(x)
    <3>1. PICK one \in Seq(S) : one = <<x>>
      BY <1>1, <2>3
    <3>2. ToSet(one) = {x} /\ IsInjective(one)
      BY <3>1 DEF ToSet, IsInjective
    <3>3. PICK r : r = one \o s
      OBVIOUS
    <3>4. /\ r \in Seq(S) /\ ToSet(r) = ToSet(one) \cup ToSet(s)
          /\ IsInjective(s) /\ ToSet(one) \cap ToSet(s) = {} => IsInjective(r)
      BY <3>2, <3>3, ConcatFact
    <3>5. \A e : e \in ToSet(r) <=> Here(e) /\ \E k \in 1 .. i : e = es[k]
      BY <2>2, <2>3, <2>6, <2>8, <3>2, <3>4
    <3>6. ASSUME IsInjective(es) PROVE IsInjective(r)
      <4>1. x \notin ToSet(s)
        <5>0. DOMAIN es = 1 .. len
          BY <1>0
        <5>1. \A k \in 1 .. p : es[k] # es[i]
          BY <2>2, <3>6, <5>0 DEF IsInjective
        <5> QED
          BY <2>3, <2>6, <5>1
      <4> QED
        BY <2>6, <3>2, <3>4, <3>6, <4>1
    <3>7. h[i] = r
      BY <2>5, <2>8, <3>1, <3>3
    <3> QED
      BY <3>4, <3>5, <3>6, <3>7
  <2> QED
    BY <2>7, <2>8
<1> HIDE DEF Holds
<1>13. Holds(len)
  <2>1. PICK T : T = {m \in 0 .. len : ~Holds(m)}
    OBVIOUS
  <2> SUFFICES ASSUME T # {} PROVE FALSE
    BY <1>0, <2>1
  <2>2. PICK m \in T : \A k \in T : m <= k
    <3>1. T \in SUBSET Nat
      BY <1>0, <2>1
    <3> QED
      BY <3>1, LeastOf, Zenon
  <2>3. m # 0
    BY <1>11, <2>1
  <2>4. m \in 1 .. len /\ m - 1 \in 0 .. len /\ m - 1 \notin T
    BY <1>0, <2>1, <2>2, <2>3
  <2>5. Holds(m - 1)
    BY <2>1, <2>4
  <2> QED
    BY <1>12, <2>1, <2>4, <2>5
<1>14. \A e : e \in ToSet(es) <=> \E k \in 1 .. len : e = es[k]
  BY <1>0 DEF ToSet
<1>15. Rechained(es, j, n) = h[len]
  BY <1>0, <1>7, <1>8
<1> QED
  BY <1>13, <1>14, <1>15 DEF Holds, Here

-----------------------------------------------------------------------------
(* One table.  The entries `en' are a parameter, for what a step does to   *)
(* other tables does not touch this one's.                                 *)

(* Chains of entries in use, each in the bin of its symbol and once in it. *)
Bins(tab, en) ==
  /\ tab = Table(tab.num_bin, tab.num_entry, tab.entries)
  /\ tab.num_bin \in Nat \ {0} /\ tab.num_entry \in Nat
  /\ tab.entries \in Seq(Seq(DOMAIN en)) /\ Len(tab.entries) = tab.num_bin
  /\ \A j \in 1 .. tab.num_bin :
       /\ IsInjective(tab.entries[j])
       /\ \A e \in ToSet(tab.entries[j]) : BinOf(en[e].sym, tab.num_bin) = j

InTable(tab, e) == \E j \in 1 .. tab.num_bin : e \in ToSet(tab.entries[j])

Counted(tab) == Len(FlattenSeq(tab.entries)) = tab.num_entry

Light(tab) == tab.num_entry < (MaxRatio + 1) * tab.num_bin

(* The client's pointers and the table's entries are one to one.           *)
Pointers(tab, h, en) ==
  /\ h = [s \in DOMAIN h |-> h[s]]
  /\ \A s \in DOMAIN h : s \in Sym /\ InTable(tab, h[s]) /\ en[h[s]].sym = s
  /\ \A e : InTable(tab, e) => en[e].sym \in DOMAIN h /\ h[en[e].sym] = e

Sound(tab, h, en) ==
  Bins(tab, en) /\ Counted(tab) /\ Light(tab) /\ Pointers(tab, h, en)

(* A symbol's bin is one of the table's.                                   *)
LEMMA BinRange ==
  ASSUME NEW s \in Sym, NEW n \in Nat \ {0}
  PROVE  BinOf(s, n) \in 1 .. n
<1>1. PICK k \in Nat : k = hashcode[s]
  BY SymtabAssumption
<1>2. (k % n) + 1 \in 1 .. n
  OBVIOUS
<1> QED
  BY <1>1, <1>2 DEF BinOf

(* The fields of a table.                                                  *)
LEMMA TableFields ==
  ASSUME NEW n, NEW c, NEW b
  PROVE  /\ Table(n, c, b).num_bin = n
         /\ Table(n, c, b).num_entry = c
         /\ Table(n, c, b).entries = b
  BY DEF Table

(* All entries of a table in one sequence, each once.                      *)
LEMMA TableFlat ==
  ASSUME NEW tab, NEW en, Bins(tab, en)
  PROVE  /\ FlattenSeq(tab.entries) \in Seq(DOMAIN en)
         /\ \A e : e \in ToSet(FlattenSeq(tab.entries)) <=> InTable(tab, e)
         /\ IsInjective(FlattenSeq(tab.entries))
         /\ \A e : InTable(tab, e) => e \in DOMAIN en
<1>0. PICK bins, D : bins = tab.entries /\ D = DOMAIN en
  OBVIOUS
<1>1. PICK n \in Nat \ {0} : bins = tab.entries /\ n = tab.num_bin /\ D = DOMAIN en
  BY <1>0 DEF Bins
<1>2. bins \in Seq(Seq(D)) /\ Len(bins) = n
  BY <1>1 DEF Bins
<1>3. bins # <<>>
  BY <1>2
<1>4. \A j \in 1 .. n : IsInjective(bins[j])
  BY <1>1 DEF Bins
<1>5. ASSUME NEW j \in 1 .. n, NEW k \in 1 .. n, j # k
      PROVE  ToSet(bins[j]) \cap ToSet(bins[k]) = {}
  BY <1>1, <1>5 DEF Bins
<1>6. FlattenSeq(bins) \in Seq(D)
  BY <1>2, <1>3, FlattenFact
<1>7. \A e : e \in ToSet(FlattenSeq(bins)) <=> InTable(tab, e)
  <2>1. \A e : e \in ToSet(FlattenSeq(bins)) <=>
                 \E j \in 1 .. Len(bins) : e \in ToSet(bins[j])
    BY <1>2, <1>3, FlattenFact
  <2> QED
    BY <1>1, <1>2, <2>1 DEF InTable
<1>8. IsInjective(FlattenSeq(bins))
  <2>1. /\ /\ \A j \in 1 .. Len(bins) : IsInjective(bins[j])
           /\ \A j, k \in 1 .. Len(bins) :
                j # k => ToSet(bins[j]) \cap ToSet(bins[k]) = {}
        => IsInjective(FlattenSeq(bins))
    BY <1>2, <1>3, FlattenFact
  <2> QED
    BY <1>2, <1>4, <1>5, <2>1
<1>9. ASSUME NEW e, InTable(tab, e) PROVE e \in D
  <2>1. PICK j \in 1 .. n : e \in ToSet(bins[j])
    BY <1>1, <1>9 DEF InTable
  <2>2. bins[j] \in Seq(D)
    BY <1>2
  <2> QED
    BY <2>1, <2>2 DEF ToSet
<1> QED
  BY <1>1, <1>6, <1>7, <1>8, <1>9

(* A step that leaves the entries of a table as they are leaves it sound.  *)
LEMMA TableFrame ==
  ASSUME NEW tab, NEW h, NEW en, NEW fn, Sound(tab, h, en),
         \A e : InTable(tab, e) => e \in DOMAIN fn /\ fn[e].sym = en[e].sym
  PROVE  Sound(tab, h, fn)
<1>0. PICK bins : bins = tab.entries
  OBVIOUS
<1>1. PICK n \in Nat \ {0} : bins = tab.entries /\ n = tab.num_bin
  BY <1>0 DEF Sound, Bins
<1>2. \A j \in 1 .. n : \A e \in ToSet(bins[j]) : e \in DOMAIN fn /\ fn[e].sym = en[e].sym
  BY <1>1 DEF InTable
<1>3. bins \in Seq(Seq(DOMAIN fn))
  <2>1. PICK D, F : D = DOMAIN en /\ F = DOMAIN fn
    OBVIOUS
  <2>2. bins \in Seq(Seq(D)) /\ Len(bins) = n
    BY <1>1, <2>1 DEF Sound, Bins
  <2>3. ASSUME NEW j \in 1 .. n PROVE bins[j] \in Seq(F)
    <3>1. PICK b \in Seq(D) : b = bins[j]
      BY <2>2
    <3>2. \A i \in 1 .. Len(b) : b[i] \in F
      <4>1. \A i \in 1 .. Len(b) : b[i] \in ToSet(b)
        BY DEF ToSet
      <4> QED
        BY <1>2, <2>1, <3>1, <4>1
    <3> QED
      BY <3>1, <3>2
  <2> QED
    BY <2>1, <2>2, <2>3
<1>4. Bins(tab, fn)
  BY <1>1, <1>2, <1>3 DEF Sound, Bins
<1>5. Pointers(tab, h, fn)
  BY DEF Sound, Pointers
<1> QED
  BY <1>4, <1>5 DEF Sound

(* new_size returns a prime above the size it is given.                    *)
LEMMA NewSize ==
  ASSUME NEW n \in Nat, HasSize(n)
  PROVE  new_size(n) \in Nat \ {0} /\ new_size(n) > n
<1>1. PICK i \in 1 .. Len(primes) : i = CHOOSE k \in 1 .. Len(primes) : Suits(k, n)
  BY DEF HasSize
<1>2. Suits(i, n)
  BY <1>1 DEF HasSize
<1>3. PICK p \in Nat \ {0} : p = primes[i]
  BY SymtabAssumption
<1>4. PICK m \in Int : m = MINSIZE * 2 ^ (i - 1)
  <2>1. 2 ^ (i - 1) \in Int /\ MINSIZE \in Int
    BY SymtabAssumption
  <2> QED
    BY <2>1
<1>5. p > m
  BY <1>3, <1>4, SymtabAssumption
<1>6. m > n
  BY <1>2, <1>4 DEF Suits
<1>7. new_size(n) = p
  BY <1>1, <1>3 DEF new_size
<1> QED
  BY <1>3, <1>4, <1>5, <1>6, <1>7

(* The load after one more entry: in bounds if the table is not too full,  *)
(* and in any table with more bins.                                        *)
LEMMA LoadFact ==
  ASSUME NEW R \in Nat, NEW n \in Nat \ {0}, NEW c \in Nat, c < (R + 1) * n
  PROVE  /\ ~((c + 1) \div n > R) => c + 1 < (R + 1) * n
         /\ \A m \in Nat : m > n => c + 1 < (R + 1) * m
<1>1. ASSUME ~((c + 1) \div n > R) PROVE c + 1 < (R + 1) * n
  <2>1. PICK q \in Nat, r \in 0 .. n - 1 : c + 1 = (n * q) + r /\ q = (c + 1) \div n
    <3>1. (c + 1) = (n * ((c + 1) \div n)) + ((c + 1) % n)
      OBVIOUS
    <3>2. (c + 1) \div n \in Nat /\ (c + 1) % n \in 0 .. n - 1
      OBVIOUS
    <3> QED
      BY <3>1, <3>2
  <2>2. PICK d \in Nat : R = q + d
    <3>1. q <= R /\ R - q \in Nat /\ R = q + (R - q)
      BY <1>1, <2>1
    <3> QED
      BY <3>1
  <2>3. (R + 1) * n = (n * q) + (n * d) + n
    BY <2>2
  <2>4. n * d \in Nat /\ n * q \in Nat
    OBVIOUS
  <2> QED
    BY <2>1, <2>3, <2>4
<1>2. ASSUME NEW m \in Nat, m > n PROVE c + 1 < (R + 1) * m
  <2>1. PICK d \in Nat : m = n + 1 + d
    <3>1. m - n - 1 \in Nat /\ m = n + 1 + (m - n - 1)
      BY <1>2
    <3> QED
      BY <3>1
  <2>2. PICK x \in Nat : x = (R + 1) * n
    OBVIOUS
  <2>3. PICK y \in Nat : y = (R + 1) * d
    OBVIOUS
  <2>4. (R + 1) * m = x + (R + 1) + y
    BY <2>1, <2>2, <2>3
  <2> QED
    BY <2>2, <2>3, <2>4
<1> QED
  BY <1>1, <1>2

(* alloc_entry's growth: the same entries in more bins, each in the bin of *)
(* its symbol, and one entry more counted than there are.                  *)
LEMMA GrownFact ==
  ASSUME NEW tab, Bins(tab, entry), Light(tab),
         \A e \in DOMAIN entry : entry[e].sym \in Sym,
         TooFull(tab.num_entry + 1, tab.num_bin) => HasSize(tab.num_bin + 1),
         NEW g, g = Grown(tab)
  PROVE  /\ Bins(g, entry) /\ Light(g)
         /\ g.num_entry = tab.num_entry + 1
         /\ \A e : InTable(g, e) <=> InTable(tab, e)
<1>0. PICK bins, D : bins = tab.entries /\ D = DOMAIN entry
  OBVIOUS
<1>1. PICK n \in Nat \ {0} : n = tab.num_bin
  BY DEF Bins
<1>2. PICK c \in Nat : c = tab.num_entry
  BY DEF Bins
<1>3. bins \in Seq(Seq(D)) /\ Len(bins) = n
  BY <1>0, <1>1 DEF Bins
<1>4. MaxRatio \in Nat /\ c < (MaxRatio + 1) * n
  BY <1>1, <1>2, SymtabAssumption DEF Light
<1>5. CASE ~TooFull(c + 1, n)
  <2>1. g = Table(n, c + 1, bins)
    BY <1>0, <1>1, <1>2, <1>5 DEF Grown
  <2>2. g.num_bin = n /\ g.num_entry = c + 1 /\ g.entries = bins
    BY <2>1, TableFields
  <2>3. c + 1 < (MaxRatio + 1) * n
    BY <1>4, <1>5, LoadFact DEF TooFull
  <2>4. Bins(g, entry)
    <3>1. \A j \in 1 .. n :
            /\ IsInjective(bins[j])
            /\ \A e \in ToSet(bins[j]) : BinOf(entry[e].sym, n) = j
      BY <1>0, <1>1 DEF Bins
    <3> QED
      BY <1>0, <1>3, <2>1, <2>2, <3>1 DEF Bins
  <2> QED
    BY <1>0, <1>1, <1>2, <2>2, <2>3, <2>4 DEF InTable, Light
<1>6. CASE TooFull(c + 1, n)
  <2>1. PICK m \in Nat \ {0} : m = new_size(n + 1) /\ m > n
    <3>1. HasSize(n + 1)
      BY <1>1, <1>2, <1>6
    <3>2. new_size(n + 1) \in Nat \ {0} /\ new_size(n + 1) > n + 1
      BY <3>1, NewSize
    <3> QED
      BY <3>2
  <2>2. PICK es \in Seq(D) : es = FlattenSeq(bins)
    BY <1>0, TableFlat
  <2>3. (\A e : e \in ToSet(es) <=> InTable(tab, e)) /\ IsInjective(es)
    BY <1>0, <2>2, TableFlat
  <2>4. PICK nb : nb = [j \in 1 .. m |-> Rechained(es, j, m)]
    OBVIOUS
  <2>5. ASSUME NEW j \in 1 .. m
        PROVE  /\ nb[j] \in Seq(D) /\ IsInjective(nb[j])
               /\ \A e : e \in ToSet(nb[j]) <=>
                           e \in ToSet(es) /\ BinOf(entry[e].sym, m) = j
    <3>1. nb[j] = Rechained(es, j, m)
      BY <2>4
    <3>2. PICK r : r = Rechained(es, j, m)
      OBVIOUS
    <3>3. /\ r \in Seq(D)
          /\ \A e : e \in ToSet(r) <=>
                      e \in ToSet(es) /\ BinOf(entry[e].sym, m) = j
          /\ IsInjective(es) => IsInjective(r)
      BY <3>2, RechainedFact
    <3> QED
      BY <2>3, <3>1, <3>2, <3>3
  <2>6. nb \in Seq(Seq(D)) /\ Len(nb) = m
    <3>1. nb \in [1 .. m -> Seq(D)]
      BY <2>4, <2>5
    <3> QED
      BY <3>1
  <2>7. g = Table(m, c + 1, nb)
    BY <1>0, <1>1, <1>2, <1>6, <2>1, <2>2, <2>4 DEF Grown, Rehashed
  <2>8. g.num_bin = m /\ g.num_entry = c + 1 /\ g.entries = nb
    BY <2>7, TableFields
  <2>9. c + 1 < (MaxRatio + 1) * m
    BY <1>4, <2>1, LoadFact
  <2>10. Bins(g, entry)
    <3>1. \A j \in 1 .. m :
            /\ IsInjective(nb[j])
            /\ \A e \in ToSet(nb[j]) : BinOf(entry[e].sym, m) = j
      BY <2>5
    <3> QED
      BY SMTT(30), <1>0, <2>6, <2>7, <2>8, <3>1 DEF Bins
  <2>11. ASSUME NEW e PROVE InTable(g, e) <=> InTable(tab, e)
    <3>1. InTable(g, e) <=> \E j \in 1 .. m : e \in ToSet(nb[j])
      BY <2>8 DEF InTable
    <3>2. InTable(g, e) => InTable(tab, e)
      BY <2>3, <2>5, <3>1
    <3>3. ASSUME InTable(tab, e) PROVE InTable(g, e)
      <4>1. entry[e].sym \in Sym
        BY <3>3, TableFlat
      <4>2. PICK j \in 1 .. m : j = BinOf(entry[e].sym, m)
        BY <2>1, <4>1, BinRange
      <4> QED
        BY <2>3, <2>5, <3>1, <3>3, <4>2
    <3> QED
      BY <3>2, <3>3
  <2> QED
    BY <1>2, <2>8, <2>9, <2>10, <2>11 DEF Light
<1> QED
  BY <1>5, <1>6

(* The new entry joins the chain of its bin and no other.                  *)
LEMMA ChainedFact ==
  ASSUME NEW g, NEW en, NEW fn, Bins(g, en), NEW s \in Sym, NEW e,
         e \notin DOMAIN en, DOMAIN fn = DOMAIN en \cup {e}, fn[e].sym = s,
         \A x \in DOMAIN en : fn[x].sym = en[x].sym,
         NEW old, NEW k, k = Chained(old, g, s, e)
  PROVE  /\ Bins(k, fn)
         /\ k.num_bin = g.num_bin /\ k.num_entry = g.num_entry
         /\ \A x : InTable(k, x) <=> InTable(g, x) \/ x = e
<1>0. PICK bins, D, F : bins = g.entries /\ D = DOMAIN en /\ F = DOMAIN fn
  OBVIOUS
<1>1. PICK n \in Nat \ {0} : n = g.num_bin
  BY DEF Bins
<1>2. PICK c \in Nat : c = g.num_entry
  BY DEF Bins
<1>3. /\ bins \in Seq(Seq(D)) /\ Len(bins) = n /\ g = Table(n, c, bins)
      /\ F = D \cup {e} /\ e \notin D
  BY <1>0, <1>1, <1>2 DEF Bins
<1>4. PICK b \in 1 .. n : b = BinOf(s, n)
  BY BinRange
<1>5. \A j \in 1 .. n : bins[j] \in Seq(D) /\ bins[j] \in Seq(F)
  BY <1>3
<1>6. \A j \in 1 .. n :
        IsInjective(bins[j]) /\ \A x \in ToSet(bins[j]) : x \in D /\ BinOf(en[x].sym, n) = j
  <2>1. \A j \in 1 .. n : \A x \in ToSet(bins[j]) : x \in D
    BY <1>5 DEF ToSet
  <2> QED
    BY <1>0, <1>1, <2>1 DEF Bins
<1>7. PICK one \in Seq(F) : one = <<e>> /\ ToSet(one) = {e} /\ IsInjective(one)
  <2>1. e \in F
    BY <1>3
  <2>2. <<e>> \in Seq(F)
    BY <2>1
  <2> QED
    BY <2>2, OneFact
<1>8. PICK q \in Seq(F) : q = bins[b]
  BY <1>5
<1>9. IsInjective(q) /\ e \notin ToSet(q)
  BY <1>3, <1>6, <1>8
<1>10. PICK u : u = IF TooFull(c, old.num_bin) THEN <<e>> \o q ELSE Append(q, e)
  OBVIOUS
<1>11. u \in Seq(F) /\ IsInjective(u) /\ ToSet(u) = ToSet(q) \cup {e}
  <2>1. CASE TooFull(c, old.num_bin)
    <3>1. u = one \o q
      BY <1>7, <1>10, <2>1
    <3>2. ToSet(one) \cap ToSet(q) = {}
      BY <1>7, <1>9
    <3>3. /\ u \in Seq(F) /\ ToSet(u) = ToSet(one) \cup ToSet(q)
          /\ IsInjective(one) /\ IsInjective(q) /\ ToSet(one) \cap ToSet(q) = {}
               => IsInjective(u)
      BY <3>1, ConcatFact
    <3> QED
      BY <1>7, <1>9, <3>2, <3>3
  <2>2. CASE ~TooFull(c, old.num_bin)
    <3>1. u = q \o one
      BY <1>3, <1>7, <1>10, <2>2, AppendConcat
    <3>2. ToSet(q) \cap ToSet(one) = {}
      BY <1>7, <1>9
    <3>3. /\ u \in Seq(F) /\ ToSet(u) = ToSet(q) \cup ToSet(one)
          /\ IsInjective(q) /\ IsInjective(one) /\ ToSet(q) \cap ToSet(one) = {}
               => IsInjective(u)
      BY <3>1, ConcatFact
    <3> QED
      BY <1>7, <1>9, <3>2, <3>3
  <2> QED
    BY <2>1, <2>2
<1>12. PICK nb : nb = [bins EXCEPT ![b] = u]
  OBVIOUS
<1>13. /\ nb \in Seq(Seq(F)) /\ Len(nb) = n
       /\ nb[b] = u /\ \A j \in 1 .. n : j # b => nb[j] = bins[j]
  <2>0. DOMAIN bins = 1 .. n
    BY <1>3
  <2>1. nb = [j \in 1 .. n |-> IF j = b THEN u ELSE bins[j]]
    BY <1>12, <2>0
  <2>2. nb \in [1 .. n -> Seq(F)]
    BY <1>5, <1>11, <2>1
  <2>3. nb \in Seq(Seq(F)) /\ Len(nb) = n
    BY <2>2
  <2> QED
    BY <2>1, <2>3
<1>14. k = Table(n, c, nb)
  <2>1. k = [g EXCEPT !.entries = nb]
    <3>1. g.num_bin = n /\ g.num_entry = c /\ g.entries = bins
      BY <1>0, <1>1, <1>2
    <3>2. k = [g EXCEPT !.entries[b] = u]
      BY <1>4, <1>8, <1>10, <3>1 DEF Chained
    <3> QED
      BY <1>12, <3>1, <3>2
  <2> QED
    BY <1>3, <2>1 DEF Table
<1>15. k.num_bin = n /\ k.num_entry = c /\ k.entries = nb
  BY <1>14, TableFields
<1>16. ASSUME NEW j \in 1 .. n
       PROVE  IsInjective(nb[j]) /\ \A x \in ToSet(nb[j]) : BinOf(fn[x].sym, n) = j
  <2>1. \A x \in ToSet(bins[j]) : BinOf(fn[x].sym, n) = j
    <3>1. ASSUME NEW x \in ToSet(bins[j]) PROVE BinOf(fn[x].sym, n) = j
      <4>1. fn[x].sym = en[x].sym /\ BinOf(en[x].sym, n) = j
        BY <1>0, <1>6
      <4> QED
        BY <4>1
    <3> QED
      BY <3>1
  <2>2. BinOf(fn[e].sym, n) = b
    BY <1>4
  <2>3. CASE j = b
    <3>1. nb[j] = u /\ ToSet(u) = ToSet(bins[j]) \cup {e} /\ IsInjective(u)
      BY <1>8, <1>11, <1>13, <2>3
    <3> QED
      BY <2>1, <2>2, <2>3, <3>1
  <2>4. CASE j # b
    BY <1>6, <1>13, <2>1, <2>4
  <2> QED
    BY <2>3, <2>4
<1>17. Bins(k, fn)
  BY <1>0, <1>13, <1>14, <1>15, <1>16 DEF Bins
<1>18. ASSUME NEW x PROVE InTable(k, x) <=> InTable(g, x) \/ x = e
  <2>1. InTable(k, x) <=> \E j \in 1 .. n : x \in ToSet(nb[j])
    BY <1>15 DEF InTable
  <2>2. InTable(g, x) <=> \E j \in 1 .. n : x \in ToSet(bins[j])
    BY <1>0, <1>1 DEF InTable
  <2> QED
    BY <1>8, <1>11, <1>13, <2>1, <2>2
<1> QED
  BY <1>1, <1>2, <1>15, <1>17, <1>18

(* A lookup finds a symbol the client has a pointer for, and that pointer. *)
LEMMA FoundFact ==
  ASSUME NEW t \in DOMAIN tabs, NEW s \in Sym, Sound(tabs[t], held[t], entry)
  PROVE  /\ Found(t, s) <=> s \in DOMAIN held[t]
         /\ Found(t, s) => Find(t, s) = held[t][s]
<1>0. PICK tab, h, D : tab = tabs[t] /\ h = held[t] /\ D = DOMAIN entry
  OBVIOUS
<1>1. PICK n \in Nat \ {0} : n = tab.num_bin
  BY <1>0 DEF Sound, Bins
<1>2. PICK b \in 1 .. n : b = BinOf(s, n)
  BY BinRange
<1>3. PICK bin \in Seq(D) : bin = tab.entries[b]
  BY <1>0, <1>1, <1>2 DEF Sound, Bins
<1>4. PICK P : P = {i \in 1 .. Len(bin) : entry[bin[i]].sym = s}
  OBVIOUS
<1>5. Places(t, s) = P
  BY <1>0, <1>1, <1>2, <1>3, <1>4 DEF Places
<1>6. \A i \in 1 .. Len(bin) : InTable(tab, bin[i])
  BY <1>1, <1>2, <1>3 DEF InTable, ToSet
<1>7. ASSUME NEW i \in P PROVE s \in DOMAIN h /\ h[s] = bin[i]
  <2>1. InTable(tab, bin[i]) /\ entry[bin[i]].sym = s
    BY <1>4, <1>6
  <2> QED
    BY <1>0, <2>1 DEF Sound, Pointers
<1>8. ASSUME s \in DOMAIN h PROVE P # {}
  <2>1. InTable(tab, h[s]) /\ entry[h[s]].sym = s
    BY <1>0, <1>8 DEF Sound, Pointers
  <2>2. PICK j \in 1 .. n : h[s] \in ToSet(tab.entries[j])
    BY <1>1, <2>1 DEF InTable
  <2>3. j = b
    BY <1>0, <1>1, <1>2, <2>1, <2>2 DEF Sound, Bins
  <2>4. PICK i \in 1 .. Len(bin) : h[s] = bin[i]
    BY <1>3, <2>2, <2>3 DEF ToSet
  <2> QED
    BY <1>4, <2>1, <2>4
<1>9. ASSUME P # {} PROVE Min(P) \in P
  <2>1. P \in SUBSET Nat
    BY <1>4
  <2>2. \E x \in P : \A y \in P : x <= y
    BY <1>9, <2>1, LeastOf, Zenon
  <2> QED
    BY <2>2 DEF Min
<1>10. Find(t, s) = bin[Min(P)]
  BY <1>0, <1>1, <1>2, <1>3, <1>5 DEF Find
<1> QED
  BY <1>0, <1>5, <1>7, <1>8, <1>9, <1>10 DEF Found

(* Entering a symbol: the table, grown or not, has one entry more, and the *)
(* client's pointers one more.                                             *)
LEMMA EnteredFact ==
  ASSUME NEW tab, NEW h, Sound(tab, h, entry),
         \A x \in DOMAIN entry : entry[x].sym \in Sym,
         TooFull(tab.num_entry + 1, tab.num_bin) => HasSize(tab.num_bin + 1),
         NEW s \in Sym, s \notin DOMAIN h, NEW e, e \notin DOMAIN entry,
         NEW fn, fn = With(entry, e, Entry(s, Null)),
         NEW k, k = Chained(tab, Grown(tab), s, e),
         NEW i, i = With(h, s, e)
  PROVE  Sound(k, i, fn) /\ \A x : InTable(k, x) <=> InTable(tab, x) \/ x = e
<1>0. PICK D, F : D = DOMAIN entry /\ F = DOMAIN fn
  OBVIOUS
<1>1. /\ F = D \cup {e} /\ fn[e] = Entry(s, Null)
      /\ \A x \in D : fn[x] = entry[x]
  BY <1>0 DEF With
<1>2. fn[e].sym = s
  BY <1>1 DEF Entry
<1>3. PICK g : g = Grown(tab)
  OBVIOUS
<1>4. /\ Bins(g, entry) /\ Light(g) /\ g.num_entry = tab.num_entry + 1
      /\ \A x : InTable(g, x) <=> InTable(tab, x)
  BY <1>3, GrownFact DEF Sound
<1>5. /\ Bins(k, fn) /\ k.num_bin = g.num_bin /\ k.num_entry = g.num_entry
      /\ \A x : InTable(k, x) <=> InTable(g, x) \/ x = e
  <2>1. k = Chained(tab, g, s, e)
    BY <1>3
  <2>2. DOMAIN fn = DOMAIN entry \cup {e}
    BY <1>0, <1>1
  <2>3. \A x \in DOMAIN entry : fn[x].sym = entry[x].sym
    BY <1>0, <1>1
  <2>4. Bins(g, entry)
    BY <1>4
  <2> QED
    BY <1>2, <2>1, <2>2, <2>3, <2>4, ChainedFact
<1>6. Light(k)
  BY <1>4, <1>5 DEF Light
<1>7. Counted(k)
  <2>1. PICK c \in Nat : c = tab.num_entry
    BY DEF Sound, Bins
  <2>2. PICK old \in Seq(D) : old = FlattenSeq(tab.entries)
    BY <1>0, TableFlat DEF Sound
  <2>3. /\ \A x : x \in ToSet(old) <=> InTable(tab, x)
        /\ IsInjective(old) /\ \A x : InTable(tab, x) => x \in D
    BY <1>0, <2>2, TableFlat DEF Sound
  <2>4. PICK new \in Seq(F) : new = FlattenSeq(k.entries)
    BY <1>0, <1>5, TableFlat
  <2>5. (\A x : x \in ToSet(new) <=> InTable(k, x)) /\ IsInjective(new)
    BY <1>5, <2>4, TableFlat
  <2>6. ToSet(new) = ToSet(old) \cup {e} /\ e \notin ToSet(old)
    BY <1>0, <1>4, <1>5, <2>3, <2>5
  <2>7. IsFiniteSet(ToSet(old)) /\ Cardinality(ToSet(old)) = c
    <3>1. Len(old) = c
      BY <2>1, <2>2 DEF Sound, Counted
    <3> QED
      BY <2>3, <3>1, LenCardinality
  <2>8. Cardinality(ToSet(new)) = c + 1
    BY <2>6, <2>7, FS_AddElement
  <2>9. Cardinality(ToSet(new)) = Len(new)
    BY <2>5, LenCardinality
  <2> QED
    BY <1>4, <1>5, <2>1, <2>4, <2>8, <2>9 DEF Counted
<1>8. Pointers(k, i, fn)
  <2>1. /\ DOMAIN i = DOMAIN h \cup {s} /\ i[s] = e
        /\ \A x \in DOMAIN h : i[x] = h[x]
        /\ i = [x \in DOMAIN i |-> i[x]]
    BY DEF With
  <2>2. \A x : InTable(tab, x) => x \in D
    BY <1>0, TableFlat DEF Sound
  <2>3. /\ \A x \in DOMAIN h : x \in Sym /\ InTable(tab, h[x]) /\ entry[h[x]].sym = x
        /\ \A x : InTable(tab, x) => entry[x].sym \in DOMAIN h /\ h[entry[x].sym] = x
    BY DEF Sound, Pointers
  <2>4. ASSUME NEW x \in DOMAIN i
        PROVE  x \in Sym /\ InTable(k, i[x]) /\ fn[i[x]].sym = x
    <3>1. CASE x = s
      BY <1>2, <1>5, <2>1, <3>1
    <3>2. CASE x # s
      BY <1>1, <1>4, <1>5, <2>1, <2>2, <2>3, <3>2
    <3> QED
      BY <3>1, <3>2
  <2>5. ASSUME NEW x, InTable(k, x)
        PROVE  fn[x].sym \in DOMAIN i /\ i[fn[x].sym] = x
    <3>1. CASE x = e
      BY <1>2, <2>1, <3>1
    <3>2. CASE x # e
      <4>1. InTable(tab, x) /\ x \in D
        BY <1>4, <1>5, <2>2, <2>5, <3>2
      <4>2. fn[x].sym = entry[x].sym
        BY <1>1, <4>1
      <4> QED
        BY <2>1, <2>3, <4>1, <4>2
    <3> QED
      BY <3>1, <3>2
  <2> QED
    BY <2>1, <2>4, <2>5 DEF Pointers
<1> QED
  BY <1>4, <1>5, <1>6, <1>7, <1>8 DEF Sound

-----------------------------------------------------------------------------
(* The invariant.                                                          *)

Typed ==
  /\ up \in BOOLEAN /\ AllocTyped
  /\ entry \in [DOMAIN entry -> [sym : Sym, data : Data \cup {Null}]]
  /\ DOMAIN held = DOMAIN tabs
  /\ ~up => DOMAIN tabs = {}

(* Every element in use is an entry of one table.                          *)
Shared ==
  /\ Accounted(DOMAIN entry)
  /\ \A t, u \in DOMAIN tabs : \A e :
       InTable(tabs[t], e) /\ InTable(tabs[u], e) => t = u
  /\ \A e \in DOMAIN entry : \E t \in DOMAIN tabs : InTable(tabs[t], e)

AllSound == \A t \in DOMAIN tabs : Sound(tabs[t], held[t], entry)

SymtabInv == Typed /\ Shared /\ AllSound

(* A new table has no entry.                                               *)
LEMMA NewTable ==
  ASSUME NEW n \in Nat \ {0}, NEW en, NEW h, h = [s \in {} |-> Null],
         NEW tab, tab = Table(n, 0, EmptyBins(n))
  PROVE  Sound(tab, h, en) /\ \A e : ~InTable(tab, e)
<1>0. PICK bins, D : bins = EmptyBins(n) /\ D = DOMAIN en
  OBVIOUS
<1>1. tab.num_bin = n /\ tab.num_entry = 0 /\ tab.entries = bins
  BY <1>0, TableFields
<1>2. bins = [j \in 1 .. n |-> <<>>]
  BY <1>0 DEF EmptyBins
<1>3. bins \in Seq(Seq(D)) /\ Len(bins) = n
  <2>1. bins \in [1 .. n -> Seq(D)]
    BY <1>2
  <2> QED
    BY <2>1
<1>4. \A j \in 1 .. n : IsInjective(bins[j]) /\ ToSet(bins[j]) = {}
  <2>1. IsInjective(<<>>) /\ ToSet(<<>>) = {}
    BY DEF IsInjective, ToSet
  <2> QED
    BY <1>2, <2>1
<1>5. Bins(tab, en)
  BY <1>0, <1>1, <1>3, <1>4 DEF Bins
<1>6. \A e : ~InTable(tab, e)
  BY <1>1, <1>4 DEF InTable
<1>7. Counted(tab)
  <2>1. PICK es \in Seq(D) : es = FlattenSeq(tab.entries)
    BY <1>0, <1>5, TableFlat
  <2>2. \A e : e \notin ToSet(es)
    BY <1>5, <1>6, <2>1, TableFlat
  <2>3. Len(es) = 0
    <3>1. Len(es) \in Nat /\ DOMAIN es = 1 .. Len(es)
      OBVIOUS
    <3>2. ASSUME Len(es) # 0 PROVE FALSE
      <4>1. 1 \in DOMAIN es
        BY <3>1, <3>2
      <4> QED
        BY <2>2, <4>1 DEF ToSet
    <3> QED
      BY <3>2
  <2> QED
    BY <1>1, <2>1, <2>3 DEF Counted
<1>8. Light(tab)
  <2>1. PICK r \in Nat : r = MaxRatio
    BY SymtabAssumption
  <2>2. 0 < (r + 1) * n
    <3>1. r * n \in Nat /\ (r + 1) * n = (r * n) + n
      OBVIOUS
    <3> QED
      BY <3>1
  <2> QED
    BY <1>1, <2>1, <2>2 DEF Light
<1>9. Pointers(tab, h, en)
  BY <1>6 DEF Pointers
<1> QED
  BY <1>5, <1>6, <1>7, <1>8, <1>9 DEF Sound

(* Initially there is no table and no entry.                               *)
LEMMA InvInit == Init => SymtabInv
<1> SUFFICES ASSUME Init PROVE SymtabInv
  OBVIOUS
<1>1. PICK E : E = (1 .. 1) \X (1 .. chunk_count)
  OBVIOUS
<1>2. Elements = E /\ chunks = 1
  BY <1>1 DEF Init, Elements
<1>3. top \in Seq(E) /\ IsInjective(top) /\ ToSet(top) = E
  BY <1>1, FirstChunk DEF Init
<1>4. DOMAIN entry = {} /\ DOMAIN tabs = {} /\ DOMAIN held = {} /\ up = TRUE
  BY DEF Init
<1>5. Typed
  <2>1. entry \in [DOMAIN entry -> [sym : Sym, data : Data \cup {Null}]]
    BY DEF Init
  <2> QED
    BY <1>2, <1>3, <1>4, <2>1 DEF Typed, AllocTyped
<1>6. Shared
  BY <1>2, <1>3, <1>4 DEF Shared, Accounted
<1> QED
  BY <1>4, <1>5, <1>6 DEF SymtabInv, AllSound

(* A new table joins the others.                                           *)
LEMMA InvInitTable ==
  ASSUME SymtabInv, NEW t \in Tab, NEW hint \in Hint, InitTable(t, hint)
  PROVE  SymtabInv'
<1>1. PICK n \in Nat \ {0} : n = new_size(hint)
  BY NewSize, SymtabAssumption DEF InitTable
<1>2. PICK tab, h : tab = Table(n, 0, EmptyBins(n)) /\ h = [s \in {} |-> Null]
  OBVIOUS
<1>3. Sound(tab, h, entry) /\ \A e : ~InTable(tab, e)
  BY <1>2, NewTable
<1>4. PICK T : T = DOMAIN tabs
  OBVIOUS
<1>5. /\ DOMAIN tabs' = T \cup {t} /\ t \notin T /\ tabs'[t] = tab
      /\ \A u \in T : tabs'[u] = tabs[u]
      /\ DOMAIN held' = T \cup {t} /\ held'[t] = h
      /\ \A u \in T : held'[u] = held[u]
  BY <1>1, <1>2, <1>4 DEF InitTable, With, SymtabInv, Typed
<1>6. UNCHANGED <<top, chunks, entry, up>> /\ up
  BY DEF InitTable
<1>7. Typed'
  BY <1>4, <1>5, <1>6 DEF SymtabInv, Typed, AllocTyped, Elements
<1>8. Shared'
  <2>1. Accounted(DOMAIN entry)'
    BY <1>6 DEF SymtabInv, Shared, Accounted, Elements
  <2>2. ASSUME NEW u \in T \cup {t}, NEW w \in T \cup {t}, NEW e,
               InTable(tabs'[u], e), InTable(tabs'[w], e)
        PROVE  u = w
    <3>1. u \in T /\ w \in T
      BY <1>3, <1>5, <2>2
    <3>2. InTable(tabs[u], e) /\ InTable(tabs[w], e)
      BY <1>5, <2>2, <3>1
    <3> QED
      BY <1>4, <3>1, <3>2 DEF SymtabInv, Shared
  <2>3. ASSUME NEW e \in DOMAIN entry PROVE \E u \in T \cup {t} : InTable(tabs'[u], e)
    <3>1. PICK u \in T : InTable(tabs[u], e)
      BY <1>4 DEF SymtabInv, Shared
    <3> QED
      BY <1>5, <3>1
  <2> QED
    BY <1>5, <1>6, <2>1, <2>2, <2>3 DEF Shared
<1>9. AllSound'
  <2>1. ASSUME NEW u \in T \cup {t} PROVE Sound(tabs'[u], held'[u], entry)
    BY <1>3, <1>4, <1>5 DEF SymtabInv, AllSound
  <2> QED
    BY <1>5, <1>6, <2>1 DEF AllSound
<1> QED
  BY <1>7, <1>8, <1>9 DEF SymtabInv

(* A symbol entered: one table has an entry more, the others are as they   *)
(* were, though they share the allocator and the entries.                  *)
LEMMA InvLookup ==
  ASSUME SymtabInv, NEW t \in Tab, NEW s \in Sym, Lookup(t, s)
  PROVE  SymtabInv'
<1>0. PICK T, U : T = DOMAIN tabs /\ U = DOMAIN entry
  OBVIOUS
<1>1. t \in T /\ ~Found(t, s) /\ Take /\ up' = up
  BY <1>0 DEF Lookup
<1>2. PICK e : e = Taken
  OBVIOUS
<1>3. PICK fn : fn = With(entry, e, Entry(s, Null))
  OBVIOUS
<1>4. PICK k : k = Chained(tabs[t], Grown(tabs[t]), s, e)
  OBVIOUS
<1>5. PICK i : i = With(held[t], s, e)
  OBVIOUS
<1>6. /\ tabs' = [tabs EXCEPT ![t] = k] /\ held' = [held EXCEPT ![t] = i]
      /\ entry' = fn /\ DOMAIN held = T
  BY <1>0, <1>2, <1>3, <1>4, <1>5 DEF Lookup, SymtabInv, Typed
<1>7. /\ DOMAIN tabs' = T /\ DOMAIN held' = T /\ tabs'[t] = k /\ held'[t] = i
      /\ \A u \in T : u # t => tabs'[u] = tabs[u] /\ held'[u] = held[u]
  BY <1>0, <1>1, <1>6
<1>8. Sound(tabs[t], held[t], entry)
  BY <1>0, <1>1 DEF SymtabInv, AllSound
<1>9. s \notin DOMAIN held[t]
  BY <1>0, <1>1, <1>8, FoundFact
<1>10. AllocTyped' /\ Accounted(U \cup {e})' /\ e \notin U
  BY <1>0, <1>1, <1>2, TakeFact DEF SymtabInv, Typed, Shared
<1>11. \A x \in DOMAIN entry : entry[x].sym \in Sym
  BY DEF SymtabInv, Typed
<1>12. Sound(k, i, fn) /\ \A x : InTable(k, x) <=> InTable(tabs[t], x) \/ x = e
  <2>1. PICK tab, h : tab = tabs[t] /\ h = held[t]
    OBVIOUS
  <2>2. TooFull(tab.num_entry + 1, tab.num_bin) => HasSize(tab.num_bin + 1)
    BY <2>1 DEF Lookup
  <2>3. Sound(tab, h, entry) /\ s \notin DOMAIN h /\ e \notin DOMAIN entry
    BY <1>0, <1>8, <1>9, <1>10, <2>1
  <2>4. k = Chained(tab, Grown(tab), s, e) /\ i = With(h, s, e)
    BY <1>4, <1>5, <2>1
  <2>5. Sound(k, i, fn)
    BY <1>3, <1>11, <2>2, <2>3, <2>4, EnteredFact
  <2>6. \A x : InTable(k, x) <=> InTable(tab, x) \/ x = e
    BY <1>3, <1>11, <2>2, <2>3, <2>4, EnteredFact
  <2> QED
    BY <2>1, <2>5, <2>6
<1>13. DOMAIN fn = U \cup {e} /\ fn[e] = Entry(s, Null) /\ \A x \in U : fn[x] = entry[x]
  BY <1>0, <1>3, <1>10 DEF With
<1>14. Typed'
  <2>1. fn \in [U \cup {e} -> [sym : Sym, data : Data \cup {Null}]]
    <3>1. fn = [x \in U \cup {e} |-> fn[x]]
      BY <1>0, <1>3 DEF With
    <3>2. fn[e] \in [sym : Sym, data : Data \cup {Null}]
      BY <1>13 DEF Entry
    <3>3. \A x \in U : fn[x] \in [sym : Sym, data : Data \cup {Null}]
      BY <1>0, <1>13 DEF SymtabInv, Typed
    <3> QED
      BY <3>1, <3>2, <3>3
  <2>2. up \in BOOLEAN /\ up
    BY <1>0, <1>1 DEF SymtabInv, Typed
  <2> QED
    BY <1>1, <1>6, <1>7, <1>10, <1>13, <2>1, <2>2 DEF Typed
<1>15. \A u \in T : \A x : InTable(tabs[u], x) => x \in U
  <2>1. ASSUME NEW u \in T, NEW x, InTable(tabs[u], x) PROVE x \in U
    <3>1. Bins(tabs[u], entry)
      BY <1>0 DEF SymtabInv, AllSound, Sound
    <3> QED
      BY <1>0, <2>1, <3>1, TableFlat
  <2> QED
    BY <2>1
<1>16. Shared'
  <2>1. Accounted(DOMAIN entry)'
    <3>1. (DOMAIN entry)' = U \cup {e}
      BY <1>6, <1>13
    <3> QED
      BY <1>10, <3>1 DEF Accounted
  <2>2. ASSUME NEW u \in T, NEW w \in T, NEW x,
               InTable(tabs'[u], x), InTable(tabs'[w], x)
        PROVE  u = w
    <3>1. CASE x = e
      <4>1. \A v \in T : v # t => ~InTable(tabs'[v], e)
        BY <1>7, <1>10, <1>15
      <4> QED
        BY <2>2, <3>1, <4>1
    <3>2. CASE x # e
      <4>1. \A v \in T : InTable(tabs'[v], x) => InTable(tabs[v], x)
        BY <1>7, <1>12, <3>2
      <4> QED
        BY <1>0, <2>2, <4>1 DEF SymtabInv, Shared
    <3> QED
      BY <3>1, <3>2
  <2>3. ASSUME NEW x \in U \cup {e} PROVE \E u \in T : InTable(tabs'[u], x)
    <3>1. CASE x = e
      BY <1>1, <1>7, <1>12, <3>1
    <3>2. CASE x \in U
      <4>1. PICK u \in T : InTable(tabs[u], x)
        BY <1>0, <3>2 DEF SymtabInv, Shared
      <4>2. InTable(tabs'[u], x)
        BY <1>7, <1>12, <4>1
      <4> QED
        BY <4>2
    <3> QED
      BY <3>1, <3>2
  <2>4. \A u, w \in DOMAIN tabs' : \A x :
          InTable(tabs'[u], x) /\ InTable(tabs'[w], x) => u = w
    BY <1>7, <2>2
  <2>5. DOMAIN entry' = U \cup {e}
    BY <1>6, <1>13
  <2>6. \A x \in DOMAIN entry' : \E u \in DOMAIN tabs' : InTable(tabs'[u], x)
    BY <1>7, <2>3, <2>5
  <2> QED
    BY <2>1, <2>4, <2>6 DEF Shared
<1>17. AllSound'
  <2>1. ASSUME NEW u \in T PROVE Sound(tabs'[u], held'[u], entry')
    <3>1. CASE u = t
      BY <1>6, <1>7, <1>12, <3>1
    <3>2. CASE u # t
      <4>1. PICK tab, h : tab = tabs[u] /\ h = held[u]
        OBVIOUS
      <4>2. Sound(tab, h, entry)
        BY <1>0, <4>1 DEF SymtabInv, AllSound
      <4>3. \A x : InTable(tab, x) => x \in DOMAIN fn /\ fn[x].sym = entry[x].sym
        BY <1>13, <1>15, <4>1
      <4>4. Sound(tab, h, fn)
        BY <4>2, <4>3, TableFrame
      <4> QED
        BY <1>6, <1>7, <3>2, <4>1, <4>4
    <3> QED
      BY <3>1, <3>2
  <2> QED
    BY <1>7, <2>1 DEF AllSound
<1> QED
  BY <1>14, <1>16, <1>17 DEF SymtabInv

(* A store through a pointer changes the data of one entry.                *)
LEMMA InvStore ==
  ASSUME SymtabInv, NEW t \in Tab, NEW s \in Sym, NEW v \in Data, Store(t, s, v)
  PROVE  SymtabInv'
<1>0. PICK U, p, fn : U = DOMAIN entry /\ p = held[t][s] /\ fn = [entry EXCEPT ![p].data = v]
  OBVIOUS
<1>1. UNCHANGED <<top, chunks, tabs, held, up>> /\ entry' = fn
  BY <1>0 DEF Store
<1>2. /\ entry \in [U -> [sym : Sym, data : Data \cup {Null}]]
      /\ DOMAIN fn = U
      /\ \A x \in U : fn[x].sym = entry[x].sym
      /\ fn \in [U -> [sym : Sym, data : Data \cup {Null}]]
  <2>1. entry \in [U -> [sym : Sym, data : Data \cup {Null}]]
    BY <1>0 DEF SymtabInv, Typed
  <2>2. \A x \in U : fn[x] = IF x = p THEN [entry[x] EXCEPT !.data = v] ELSE entry[x]
    BY <1>0, <2>1
  <2>3. DOMAIN fn = U /\ fn = [x \in U |-> fn[x]]
    BY <1>0, <2>1
  <2>4. ASSUME NEW x \in U
        PROVE  fn[x].sym = entry[x].sym /\ fn[x] \in [sym : Sym, data : Data \cup {Null}]
    <3>1. PICK r \in [sym : Sym, data : Data \cup {Null}] : r = entry[x]
      BY <2>1
    <3>2. [r EXCEPT !.data = v].sym = r.sym
      BY <3>1
    <3>3. [r EXCEPT !.data = v] \in [sym : Sym, data : Data \cup {Null}]
      BY <3>1
    <3> QED
      BY <2>2, <3>1, <3>2, <3>3
  <2>5. fn \in [U -> [sym : Sym, data : Data \cup {Null}]]
    BY <2>3, <2>4
  <2> QED
    BY <2>1, <2>3, <2>4, <2>5
<1>3. Typed'
  BY <1>0, <1>1, <1>2 DEF SymtabInv, Typed, AllocTyped, Elements
<1>4. Shared'
  BY <1>0, <1>1, <1>2 DEF SymtabInv, Shared, Accounted, Elements
<1>5. AllSound'
  <2>1. ASSUME NEW u \in DOMAIN tabs PROVE Sound(tabs[u], held[u], fn)
    <3>1. PICK tab, h : tab = tabs[u] /\ h = held[u]
      OBVIOUS
    <3>2. Sound(tab, h, entry)
      BY <3>1 DEF SymtabInv, AllSound
    <3>3. \A x : InTable(tab, x) => x \in U
      BY <1>0, <3>2, TableFlat DEF Sound
    <3>4. Sound(tab, h, fn)
      BY <1>2, <3>2, <3>3, TableFrame
    <3> QED
      BY <3>1, <3>4
  <2> QED
    BY <1>1, <2>1 DEF AllSound
<1> QED
  BY <1>3, <1>4, <1>5 DEF SymtabInv

(* A table gone: its entries are free, the other tables have theirs.       *)
LEMMA InvFiniTable ==
  ASSUME SymtabInv, NEW t \in Tab, FiniTable(t)
  PROVE  SymtabInv'
<1>0. PICK T, U, tab : T = DOMAIN tabs \ {t} /\ U = DOMAIN entry /\ tab = tabs[t]
  OBVIOUS
<1>1. t \in DOMAIN tabs /\ up' = up
  BY DEF FiniTable
<1>2. Sound(tab, held[t], entry)
  BY <1>0, <1>1 DEF SymtabInv, AllSound
<1>3. PICK es \in Seq(U) : es = FlattenSeq(tab.entries)
  BY <1>0, <1>2, TableFlat DEF Sound
<1>4. (\A e : e \in ToSet(es) <=> InTable(tab, e)) /\ IsInjective(es)
  BY <1>2, <1>3, TableFlat DEF Sound
<1>5. Release(es) /\ es = Freed(t)
  BY <1>0, <1>3 DEF FiniTable, Freed
<1>6. PICK V : V = U \ ToSet(es)
  OBVIOUS
<1>7. AllocTyped' /\ Accounted(V)'
  <2>1. AllocTyped /\ Accounted(U)
    BY <1>0 DEF SymtabInv, Typed, Shared
  <2>2. Accounted(U \ ToSet(es))'
    BY <1>4, <1>5, <2>1, ReleaseFact
  <2>3. AllocTyped'
    BY <1>4, <1>5, <2>1, ReleaseFact
  <2> QED
    BY <1>6, <2>2, <2>3 DEF Accounted
<1>8. PICK fn : fn = [e \in V |-> entry[e]]
  OBVIOUS
<1>9. /\ entry' = fn
      /\ tabs' = [u \in T |-> tabs[u]]
      /\ held' = [u \in T |-> held[u]]
  BY <1>0, <1>5, <1>6, <1>8 DEF FiniTable, SymtabInv, Typed
<1>10. Typed'
  <2>1. fn \in [V -> [sym : Sym, data : Data \cup {Null}]]
    BY <1>0, <1>6, <1>8 DEF SymtabInv, Typed
  <2>2. up \in BOOLEAN /\ up
    BY <1>1 DEF SymtabInv, Typed
  <2> QED
    BY <1>1, <1>7, <1>9, <2>1, <2>2 DEF Typed
<1>11. \A u \in T : \A x : InTable(tabs[u], x) => x \in V
  <2>1. ASSUME NEW u \in T, NEW x, InTable(tabs[u], x) PROVE x \in V
    <3>1. Bins(tabs[u], entry)
      BY <1>0 DEF SymtabInv, AllSound, Sound
    <3>2. x \in U
      BY <1>0, <2>1, <3>1, TableFlat
    <3>3. ~InTable(tab, x)
      BY <1>0, <1>1, <2>1 DEF SymtabInv, Shared
    <3> QED
      BY <1>4, <1>6, <3>2, <3>3
  <2> QED
    BY <2>1
<1>12. Shared'
  <2>1. Accounted(DOMAIN entry)'
    <3>1. (DOMAIN entry)' = V
      BY <1>8, <1>9
    <3> QED
      BY <1>7, <3>1 DEF Accounted
  <2>2. ASSUME NEW e \in V PROVE \E u \in T : InTable(tabs[u], e)
    <3>1. PICK u \in DOMAIN tabs : InTable(tabs[u], e)
      BY <1>0, <1>6 DEF SymtabInv, Shared
    <3>2. u # t
      BY <1>0, <1>4, <1>6, <3>1
    <3> QED
      BY <1>0, <3>1, <3>2
  <2>3. \A u, w \in T : \A e :
          InTable(tabs[u], e) /\ InTable(tabs[w], e) => u = w
    BY <1>0 DEF SymtabInv, Shared
  <2>4. DOMAIN tabs' = T /\ DOMAIN entry' = V /\ \A u \in T : tabs'[u] = tabs[u]
    BY <1>8, <1>9
  <2>5. \A u, w \in DOMAIN tabs' : \A e :
          InTable(tabs'[u], e) /\ InTable(tabs'[w], e) => u = w
    BY <2>3, <2>4
  <2>6. \A e \in DOMAIN entry' : \E u \in DOMAIN tabs' : InTable(tabs'[u], e)
    BY <2>2, <2>4
  <2> QED
    BY <2>1, <2>5, <2>6 DEF Shared
<1>13. AllSound'
  <2>1. ASSUME NEW u \in T PROVE Sound(tabs[u], held[u], fn)
    <3>1. PICK other, h : other = tabs[u] /\ h = held[u]
      OBVIOUS
    <3>2. Sound(other, h, entry)
      BY <1>0, <3>1 DEF SymtabInv, AllSound
    <3>3. \A x : InTable(other, x) => x \in DOMAIN fn /\ fn[x].sym = entry[x].sym
      BY <1>8, <1>11, <3>1
    <3>4. Sound(other, h, fn)
      BY <3>2, <3>3, TableFrame
    <3> QED
      BY <3>1, <3>4
  <2> QED
    BY <1>9, <2>1 DEF AllSound
<1> QED
  BY <1>10, <1>12, <1>13 DEF SymtabInv

(* The allocator goes and comes back with no table open.                   *)
LEMMA InvGlobal ==
  ASSUME SymtabInv, GlobalFini \/ GlobalInit
  PROVE  SymtabInv'
<1>1. DOMAIN tabs = {} /\ UNCHANGED <<tabs, entry, held>> /\ up' \in BOOLEAN
  BY DEF GlobalFini, GlobalInit, SymtabInv, Typed
<1>2. DOMAIN entry = {}
  BY <1>1 DEF SymtabInv, Shared
<1>3. AllocTyped' /\ Accounted({})'
  <2>1. CASE GlobalFini
    <3>1. top' = <<>> /\ chunks' = 0
      BY <2>1 DEF GlobalFini, NoChunk
    <3>2. Elements' = {}
      BY <3>1 DEF Elements
    <3>3. IsInjective(<<>>) /\ ToSet(<<>>) = {}
      BY DEF IsInjective, ToSet
    <3> QED
      BY <3>1, <3>2, <3>3 DEF AllocTyped, Accounted
  <2>2. CASE GlobalInit
    <3>1. top' = alloc_chunk(1) /\ chunks' = 1
      BY <2>2 DEF GlobalInit, OneChunk
    <3>2. PICK E : E = (1 .. 1) \X (1 .. chunk_count)
      OBVIOUS
    <3>3. Elements' = E
      BY <3>1, <3>2 DEF Elements
    <3>4. PICK t : t = alloc_chunk(1)
      OBVIOUS
    <3>5. t \in Seq(E) /\ IsInjective(t) /\ ToSet(t) = E
      BY <3>2, <3>4, FirstChunk
    <3> QED
      BY <3>1, <3>3, <3>4, <3>5 DEF AllocTyped, Accounted
  <2> QED
    BY <2>1, <2>2
<1>4. Typed'
  BY <1>1, <1>3 DEF SymtabInv, Typed
<1>5. Shared'
  BY <1>1, <1>2, <1>3 DEF Shared, Accounted
<1> QED
  BY <1>1, <1>4, <1>5 DEF SymtabInv, AllSound

(* Every step keeps the invariant.                                         *)
LEMMA InvNext == SymtabInv /\ [Next]_vars => SymtabInv'
<1> SUFFICES ASSUME SymtabInv, [Next]_vars PROVE SymtabInv'
  OBVIOUS
<1>1. CASE UNCHANGED vars
  BY <1>1 DEF vars, SymtabInv, Typed, Shared, AllSound, AllocTyped, Accounted, Elements
<1>2. CASE Next
  BY <1>2, InvInitTable, InvLookup, InvStore, InvFiniTable, InvGlobal DEF Next
<1> QED
  BY <1>1, <1>2

(* The invariant holds.                                                    *)
LEMMA SymtabInvariant == Spec => []SymtabInv
<1>1. Init => SymtabInv
  BY InvInit
<1>2. SymtabInv /\ [Next]_vars => SymtabInv'
  BY InvNext
<1> QED
  BY <1>1, <1>2, PTL DEF Spec

-----------------------------------------------------------------------------
(* The properties.                                                         *)

(* What the invariant says of one table's entries.                         *)
LEMMA TableEntries ==
  ASSUME SymtabInv, NEW t \in DOMAIN tabs
  PROVE  /\ Sound(tabs[t], held[t], entry)
         /\ Len(tabs[t].entries) = tabs[t].num_bin
         /\ Len(Entries(t)) = tabs[t].num_entry
         /\ IsInjective(Entries(t))
         /\ \A e : e \in ToSet(Entries(t)) <=> InTable(tabs[t], e)
         /\ ToSet(Entries(t)) \subseteq DOMAIN entry
<1>1. Sound(tabs[t], held[t], entry)
  BY DEF SymtabInv, AllSound
<1>2. Bins(tabs[t], entry) /\ Counted(tabs[t])
  BY <1>1 DEF Sound
<1>3. Entries(t) = FlattenSeq(tabs[t].entries)
  BY DEF Entries
<1>4. Len(tabs[t].entries) = tabs[t].num_bin
  BY <1>2 DEF Bins
<1>5. Len(Entries(t)) = tabs[t].num_entry
  BY <1>2, <1>3 DEF Counted
<1>6. IsInjective(Entries(t)) /\ \A e : e \in ToSet(Entries(t)) <=> InTable(tabs[t], e)
  BY <1>2, <1>3, TableFlat
<1>7. \A e : InTable(tabs[t], e) => e \in DOMAIN entry
  BY <1>2, TableFlat
<1> QED
  BY <1>1, <1>4, <1>5, <1>6, <1>7

(* TypeOK: a table has num_bin chains, and num_entry is what they hold.    *)
THEOREM TypeCorrect == Spec => []TypeOK
<1>1. SymtabInv => TypeOK
  <2> SUFFICES ASSUME SymtabInv PROVE TypeOK
    OBVIOUS
  <2>1. up \in BOOLEAN /\ chunks \in Nat /\ DOMAIN held = DOMAIN tabs
    BY DEF SymtabInv, Typed, AllocTyped
  <2>2. ToSet(top) \subseteq Elements /\ DOMAIN entry \subseteq Elements
    BY DEF SymtabInv, Shared, Accounted
  <2>3. \A e \in DOMAIN entry : entry[e] \in [sym : Sym, data : Data \cup {Null}]
    BY DEF SymtabInv, Typed
  <2>4. ASSUME NEW t \in DOMAIN tabs
        PROVE  /\ Len(tabs[t].entries) = tabs[t].num_bin
               /\ ToSet(Entries(t)) \subseteq DOMAIN entry
               /\ Len(Entries(t)) = tabs[t].num_entry
    BY <2>4, TableEntries
  <2> QED
    BY <2>1, <2>2, <2>3, <2>4 DEF TypeOK
<1> QED
  BY <1>1, SymtabInvariant, PTL

(* ElementsAccounted: growth, fini and reuse lose no element of a chunk    *)
(* and give none to two tables.                                            *)
THEOREM ElementsCorrect == Spec => []ElementsAccounted
<1>1. SymtabInv => ElementsAccounted
  <2> SUFFICES ASSUME SymtabInv PROVE ElementsAccounted
    OBVIOUS
  <2>1. \A t \in DOMAIN tabs : IsInjective(Entries(t))
    BY TableEntries
  <2>2. \A t \in DOMAIN tabs : \A e : e \in ToSet(Entries(t)) <=> InTable(tabs[t], e)
    BY TableEntries
  <2>3. \A t \in DOMAIN tabs : ToSet(Entries(t)) \subseteq DOMAIN entry
    BY TableEntries
  <2>4. \A t, u \in DOMAIN tabs :
          t # u => ToSet(Entries(t)) \cap ToSet(Entries(u)) = {}
    BY <2>2 DEF SymtabInv, Shared
  <2>5. DOMAIN entry = UNION {ToSet(Entries(t)) : t \in DOMAIN tabs}
    <3>1. \A e \in DOMAIN entry : \E t \in DOMAIN tabs : e \in ToSet(Entries(t))
      BY <2>2 DEF SymtabInv, Shared
    <3> QED
      BY <2>3, <3>1
  <2> QED
    BY <2>1, <2>4, <2>5 DEF ElementsAccounted, SymtabInv, Shared
<1> QED
  BY <1>1, SymtabInvariant, PTL

(* PointersStable: whatever grew meanwhile, a lookup finds the entry the   *)
(* client was given for the symbol.                                        *)
THEOREM PointersCorrect == Spec => []PointersStable
<1>1. SymtabInv => PointersStable
  <2> SUFFICES ASSUME SymtabInv, NEW t \in DOMAIN tabs, NEW s \in DOMAIN held[t]
               PROVE  /\ Found(t, s) /\ Find(t, s) = held[t][s]
                      /\ entry[held[t][s]].sym = s
    BY DEF PointersStable
  <2>1. Sound(tabs[t], held[t], entry)
    BY TableEntries
  <2>2. s \in Sym /\ entry[held[t][s]].sym = s
    BY <2>1 DEF Sound, Pointers
  <2> QED
    BY <2>1, <2>2, FoundFact
<1> QED
  BY <1>1, SymtabInvariant, PTL

(* LoadBounded: one growth when an entry is added keeps the chains short.  *)
THEOREM LoadCorrect == Spec => []LoadBounded
<1>1. SymtabInv => LoadBounded
  BY DEF SymtabInv, AllSound, Sound, Light, LoadBounded
<1> QED
  BY <1>1, SymtabInvariant, PTL

-----------------------------------------------------------------------------
(* The tables implement NprMap.                                            *)

(* The abstract map, as A takes it from the tables: what lookups find.     *)
Mapped ==
  [t \in DOMAIN tabs |->
     [s \in {x \in Sym : Found(t, x)} |-> entry[Find(t, s)].data]]

(* The same map by the pointers the client holds.                          *)
Values(h, en) == [s \in DOMAIN h |-> en[h[s]].data]
Contents == [t \in DOMAIN tabs |-> Values(held[t], entry)]

(* The pointers of the client name the entries one to one, in all tables.  *)
LEMMA HeldFact ==
  ASSUME SymtabInv, NEW t \in DOMAIN tabs
  PROVE  /\ t \in DOMAIN held
         /\ \A s \in DOMAIN held[t] :
              s \in Sym /\ held[t][s] \in DOMAIN entry /\ entry[held[t][s]].sym = s
         /\ \A u \in DOMAIN tabs : u # t =>
              \A s \in DOMAIN held[u] : ~InTable(tabs[t], held[u][s])
         /\ \A s \in DOMAIN held[t] : InTable(tabs[t], held[t][s])
<1>1. ASSUME NEW u \in DOMAIN tabs, NEW s \in DOMAIN held[u]
      PROVE  /\ s \in Sym /\ held[u][s] \in DOMAIN entry
             /\ entry[held[u][s]].sym = s /\ InTable(tabs[u], held[u][s])
  <2>1. Bins(tabs[u], entry) /\ Pointers(tabs[u], held[u], entry)
    BY DEF SymtabInv, AllSound, Sound
  <2>2. s \in Sym /\ entry[held[u][s]].sym = s /\ InTable(tabs[u], held[u][s])
    BY <2>1 DEF Pointers
  <2> QED
    BY <2>1, <2>2, TableFlat
<1>2. \A u \in DOMAIN tabs : u # t =>
        \A s \in DOMAIN held[u] : ~InTable(tabs[t], held[u][s])
  BY <1>1 DEF SymtabInv, Shared
<1> QED
  BY <1>1, <1>2 DEF SymtabInv, Typed

(* Lookups find what the client was given, and nothing else.               *)
LEMMA MappedFact == SymtabInv => Mapped = Contents
<1> SUFFICES ASSUME SymtabInv PROVE Mapped = Contents
  OBVIOUS
<1>1. ASSUME NEW t \in DOMAIN tabs
      PROVE  Values(held[t], entry) =
               [s \in {x \in Sym : Found(t, x)} |-> entry[Find(t, s)].data]
  <2>1. Sound(tabs[t], held[t], entry) /\ \A s \in DOMAIN held[t] : s \in Sym
    BY HeldFact DEF SymtabInv, AllSound
  <2>2. \A s \in Sym : /\ Found(t, s) <=> s \in DOMAIN held[t]
                       /\ Found(t, s) => Find(t, s) = held[t][s]
    BY <2>1, FoundFact
  <2>3. {x \in Sym : Found(t, x)} = DOMAIN held[t]
    BY <2>1, <2>2
  <2>4. \A s \in DOMAIN held[t] : entry[Find(t, s)].data = entry[held[t][s]].data
    BY <2>1, <2>2
  <2> QED
    BY <2>3, <2>4 DEF Values
<1> QED
  BY <1>1 DEF Mapped, Contents

(* The actions of NprMap, of the mapped state.                             *)
LEMMA View ==
  /\ UNCHANGED A!vars <=> UNCHANGED <<Mapped, up>>
  /\ A!Init <=> Mapped = [t \in {} |-> {}] /\ up = TRUE
  /\ A!Switch <=> DOMAIN Mapped = {} /\ up' = ~up /\ Mapped' = Mapped
  /\ \A t : A!Open(t) <=>
       /\ up /\ t \notin DOMAIN Mapped
       /\ Mapped' = [u \in DOMAIN Mapped \cup {t} |->
                       IF u = t THEN [s \in {} |-> Null] ELSE Mapped[u]]
       /\ UNCHANGED up
  /\ \A t : A!Close(t) <=>
       /\ t \in DOMAIN Mapped
       /\ Mapped' = [u \in DOMAIN Mapped \ {t} |-> Mapped[u]]
       /\ UNCHANGED up
  /\ \A t, s : A!Enter(t, s) <=>
       /\ t \in DOMAIN Mapped /\ s \notin DOMAIN Mapped[t]
       /\ Mapped' = [Mapped EXCEPT ![t] =
                       [x \in DOMAIN Mapped[t] \cup {s} |->
                          IF x = s THEN Null ELSE Mapped[t][x]]]
       /\ UNCHANGED up
  /\ \A t, s, v : A!Assign(t, s, v) <=>
       /\ t \in DOMAIN Mapped /\ s \in DOMAIN Mapped[t]
       /\ Mapped' = [Mapped EXCEPT ![t][s] = v]
       /\ UNCHANGED up
BY DEF A!vars, A!Init, A!Switch, A!Open, A!Close, A!Enter, A!Assign, Mapped

(* A new table maps nothing.                                               *)
LEMMA SimulateInitTable ==
  ASSUME SymtabInv, NEW t \in Tab, NEW hint \in Hint, InitTable(t, hint),
         Mapped = Contents, Mapped' = Contents'
  PROVE  A!Open(t)
<1>1. PICK T : T = DOMAIN tabs
  OBVIOUS
<1>2. /\ DOMAIN tabs' = T \cup {t} /\ t \notin T
      /\ held'[t] = [s \in {} |-> Null]
      /\ \A u \in T : held'[u] = held[u]
      /\ entry' = entry /\ up /\ up' = up
  BY <1>1 DEF InitTable, With, SymtabInv, Typed
<1>3. Contents' = [u \in T \cup {t} |-> Values(held'[u], entry)]
  BY <1>2 DEF Contents
<1>4. DOMAIN Contents = T /\ \A u \in T : Contents[u] = Values(held[u], entry)
  BY <1>1 DEF Contents
<1>5. Values(held'[t], entry) = [s \in {} |-> Null]
  BY <1>2 DEF Values
<1>6. Contents' = [u \in T \cup {t} |->
                     IF u = t THEN [s \in {} |-> Null] ELSE Contents[u]]
  BY <1>2, <1>3, <1>4, <1>5
<1> QED
  BY <1>2, <1>4, <1>6, View

(* A symbol entered has no data yet; no other data changes.                *)
LEMMA SimulateLookup ==
  ASSUME SymtabInv, NEW t \in Tab, NEW s \in Sym, Lookup(t, s),
         Mapped = Contents, Mapped' = Contents'
  PROVE  A!Enter(t, s)
<1>1. PICK T, U, e : T = DOMAIN tabs /\ U = DOMAIN entry /\ e = Taken
  OBVIOUS
<1>2. t \in T /\ DOMAIN held = T /\ ~Found(t, s) /\ up' = up /\ Take
  BY <1>1 DEF Lookup, SymtabInv, Typed
<1>3. PICK fn, i : fn = With(entry, e, Entry(s, Null)) /\ i = With(held[t], s, e)
  OBVIOUS
<1>4. /\ DOMAIN tabs' = T /\ entry' = fn /\ held' = [held EXCEPT ![t] = i]
  BY <1>1, <1>3 DEF Lookup
<1>5. e \notin U
  BY <1>1, <1>2, TakeFact DEF SymtabInv, Typed, Shared
<1>6. s \notin DOMAIN held[t]
  BY <1>1, <1>2, FoundFact DEF SymtabInv, AllSound
<1>7. fn[e].data = Null /\ \A x \in U : fn[x] = entry[x]
  BY <1>1, <1>3, <1>5 DEF With, Entry
<1>8. \A u \in T : Values(held[u], fn) = Values(held[u], entry)
  <2>1. ASSUME NEW u \in T PROVE Values(held[u], fn) = Values(held[u], entry)
    <3>1. \A x \in DOMAIN held[u] : held[u][x] \in U
      BY <1>1, HeldFact
    <3> QED
      BY <1>7, <3>1 DEF Values
  <2> QED
    BY <2>1
<1>9. DOMAIN Contents = T /\ \A u \in T : Contents[u] = Values(held[u], entry)
  BY <1>1 DEF Contents
<1>10. Values(i, fn) = [x \in DOMAIN Contents[t] \cup {s} |->
                          IF x = s THEN Null ELSE Contents[t][x]]
  <2>1. PICK h : h = held[t]
    OBVIOUS
  <2>2. Contents[t] = Values(h, fn)
    BY <1>2, <1>8, <1>9, <2>1
  <2>3. DOMAIN Contents[t] = DOMAIN h /\ \A x \in DOMAIN h : Contents[t][x] = fn[h[x]].data
    BY <2>2 DEF Values
  <2>4. DOMAIN i = DOMAIN h \cup {s} /\ i[s] = e /\ \A x \in DOMAIN h : i[x] = h[x]
    BY <1>3, <1>6, <2>1 DEF With
  <2> QED
    BY <1>6, <1>7, <2>1, <2>3, <2>4 DEF Values
<1>11. Contents' = [u \in T |-> Values(held'[u], fn)]
  BY <1>4 DEF Contents
<1>12. PICK c : c = [x \in DOMAIN Contents[t] \cup {s} |->
                       IF x = s THEN Null ELSE Contents[t][x]]
  OBVIOUS
<1>13. Contents = [u \in T |-> Values(held[u], entry)]
  BY <1>1 DEF Contents
<1>14. Contents' = [Contents EXCEPT ![t] = c]
  <2>1. \A u \in T : held'[u] = IF u = t THEN i ELSE held[u]
    BY <1>2, <1>4
  <2>2. \A u \in T : Values(held'[u], fn) = IF u = t THEN c ELSE Values(held[u], entry)
    BY <1>8, <1>10, <1>12, <2>1
  <2>3. [Contents EXCEPT ![t] = c] =
          [u \in T |-> IF u = t THEN c ELSE Values(held[u], entry)]
    BY <1>2, <1>13
  <2> QED
    BY <1>11, <2>2, <2>3
<1>15. s \notin DOMAIN Contents[t]
  BY <1>2, <1>6, <1>9 DEF Values
<1>16. Mapped' = [Mapped EXCEPT ![t] =
                    [x \in DOMAIN Mapped[t] \cup {s} |->
                       IF x = s THEN Null ELSE Mapped[t][x]]]
  BY <1>12, <1>14
<1>17. t \in DOMAIN Mapped /\ s \notin DOMAIN Mapped[t]
  BY <1>2, <1>9, <1>15
<1> QED
  BY <1>2, <1>16, <1>17, View

(* A store through the client's pointer assigns to that symbol only.       *)
LEMMA SimulateStore ==
  ASSUME SymtabInv, NEW t \in Tab, NEW s \in Sym, NEW v \in Data, Store(t, s, v),
         Mapped = Contents, Mapped' = Contents'
  PROVE  A!Assign(t, s, v)
<1>1. PICK T, U, p, fn : /\ T = DOMAIN tabs /\ U = DOMAIN entry /\ p = held[t][s]
                         /\ fn = [entry EXCEPT ![p].data = v]
  OBVIOUS
<1>2. /\ t \in T /\ s \in DOMAIN held[t]
      /\ tabs' = tabs /\ held' = held /\ up' = up /\ entry' = fn
  BY <1>1 DEF Store
<1>3. p \in U /\ InTable(tabs[t], p) /\ entry[p].sym = s
  BY <1>1, <1>2, HeldFact
<1>4. /\ \A x \in U : x # p => fn[x] = entry[x]
      /\ fn[p].data = v
  <2>1. fn[p] = [entry[p] EXCEPT !.data = v]
    BY <1>1, <1>3
  <2>2. entry[p] \in [sym : Sym, data : Data \cup {Null}]
    BY <1>1, <1>3 DEF SymtabInv, Typed
  <2>3. fn[p].data = v
    BY <2>1, <2>2
  <2> QED
    BY <1>1, <2>3
<1>5. \A u \in T : u # t => Values(held[u], fn) = Values(held[u], entry)
  <2>1. ASSUME NEW u \in T, u # t PROVE Values(held[u], fn) = Values(held[u], entry)
    <3>1. \A x \in DOMAIN held[u] : held[u][x] \in U
      BY <1>1, HeldFact
    <3>2. \A x \in DOMAIN held[u] : held[u][x] # p
      BY <1>1, <1>2, <1>3, <2>1, HeldFact
    <3> QED
      BY <1>4, <3>1, <3>2 DEF Values
  <2> QED
    BY <2>1
<1>6. Values(held[t], fn) = [Values(held[t], entry) EXCEPT ![s] = v]
  <2>1. PICK h : h = held[t]
    OBVIOUS
  <2>2. \A x \in DOMAIN h : h[x] \in U /\ entry[h[x]].sym = x
    BY <1>1, <1>2, <2>1, HeldFact
  <2>3. h[s] = p /\ \A x \in DOMAIN h : x # s => h[x] # p
    BY <1>1, <1>3, <2>1, <2>2
  <2>4. \A x \in DOMAIN h : fn[h[x]].data = IF x = s THEN v ELSE entry[h[x]].data
    BY <1>4, <2>2, <2>3
  <2> QED
    BY <2>1, <2>4 DEF Values
<1>7. Contents = [u \in T |-> Values(held[u], entry)]
  BY <1>1 DEF Contents
<1>8. Contents' = [u \in T |-> Values(held[u], fn)]
  BY <1>1, <1>2 DEF Contents
<1>9. Contents' = [Contents EXCEPT ![t][s] = v]
  <2>1. PICK c : c = [Values(held[t], entry) EXCEPT ![s] = v]
    OBVIOUS
  <2>2. [Contents EXCEPT ![t][s] = v] =
          [u \in T |-> IF u = t THEN c ELSE Values(held[u], entry)]
    BY <1>2, <1>7, <2>1
  <2>3. \A u \in T : Values(held[u], fn) = IF u = t THEN c ELSE Values(held[u], entry)
    BY <1>5, <1>6, <2>1
  <2> QED
    BY <1>8, <2>2, <2>3
<1>10. t \in DOMAIN Contents /\ s \in DOMAIN Contents[t]
  BY <1>2, <1>7 DEF Values
<1>11. Mapped' = [Mapped EXCEPT ![t][s] = v]
  BY <1>9
<1>12. t \in DOMAIN Mapped /\ s \in DOMAIN Mapped[t]
  BY <1>10
<1> QED
  BY <1>2, <1>11, <1>12, View

(* A closed table leaves the contents of the others.                       *)
LEMMA SimulateFiniTable ==
  ASSUME SymtabInv, NEW t \in Tab, FiniTable(t),
         Mapped = Contents, Mapped' = Contents'
  PROVE  A!Close(t)
<1>1. PICK T, U, es : /\ T = DOMAIN tabs \ {t} /\ U = DOMAIN entry
                      /\ es = FlattenSeq(tabs[t].entries)
  OBVIOUS
<1>2. t \in DOMAIN tabs /\ up' = up
  BY DEF FiniTable
<1>3. PICK fn : fn = [e \in U \ ToSet(es) |-> entry[e]]
  OBVIOUS
<1>4. /\ entry' = fn
      /\ tabs' = [u \in T |-> tabs[u]]
      /\ held' = [u \in T |-> held[u]]
  BY <1>1, <1>3 DEF FiniTable, Freed, SymtabInv, Typed
<1>5. \A e : e \in ToSet(es) <=> InTable(tabs[t], e)
  BY <1>1, <1>2, TableFlat DEF SymtabInv, AllSound, Sound
<1>6. ASSUME NEW u \in T PROVE Values(held[u], fn) = Values(held[u], entry)
  <2>1. \A x \in DOMAIN held[u] : held[u][x] \in U /\ ~InTable(tabs[t], held[u][x])
    BY <1>1, <1>2, HeldFact
  <2>2. \A x \in DOMAIN held[u] : fn[held[u][x]] = entry[held[u][x]]
    BY <1>3, <1>5, <2>1
  <2> QED
    BY <2>2 DEF Values
<1>7. DOMAIN Contents = DOMAIN tabs /\ \A u \in T : Contents[u] = Values(held[u], entry)
  BY <1>1 DEF Contents
<1>8. Contents' = [u \in T |-> Values(held'[u], fn)]
  BY <1>4 DEF Contents
<1>9. \A u \in T : Values(held'[u], fn) = Contents[u]
  BY <1>4, <1>6, <1>7
<1>10. Contents' = [u \in T |-> Contents[u]]
  BY <1>8, <1>9
<1>11. Mapped' = [u \in DOMAIN Mapped \ {t} |-> Mapped[u]]
  BY <1>1, <1>7, <1>10
<1> QED
  BY <1>2, <1>7, <1>11, View

(* Every step on the tables is a step of the map.                          *)
LEMMA Simulates ==
  ASSUME SymtabInv, [Next]_vars, Mapped = Contents, Mapped' = Contents'
  PROVE  [A!Next]_(A!vars)
<1> SUFFICES A!Next \/ UNCHANGED A!vars
  OBVIOUS
<1>1. ASSUME NEW t \in Tab, NEW hint \in Hint, InitTable(t, hint) PROVE A!Open(t)
  BY <1>1, SimulateInitTable
<1>2. ASSUME NEW t \in Tab, NEW s \in Sym, Lookup(t, s) PROVE A!Enter(t, s)
  BY <1>2, SimulateLookup
<1>3. ASSUME NEW t \in Tab, NEW s \in Sym, NEW v \in Data, Store(t, s, v)
      PROVE  A!Assign(t, s, v)
  BY <1>3, SimulateStore
<1>4. ASSUME NEW t \in Tab, FiniTable(t) PROVE A!Close(t)
  BY <1>4, SimulateFiniTable
<1>5. ASSUME GlobalFini \/ GlobalInit PROVE A!Switch
  <2>1. DOMAIN tabs = {} /\ UNCHANGED <<tabs, entry, held>> /\ up' = ~up
    BY <1>5 DEF GlobalFini, GlobalInit, SymtabInv, Typed
  <2>2. Contents' = Contents /\ DOMAIN Contents = {}
    BY <2>1 DEF Contents
  <2> QED
    BY <2>1, <2>2, View
<1>6. CASE UNCHANGED vars
  <2>1. Contents' = Contents /\ up' = up
    BY <1>6 DEF vars, Contents
  <2>2. Mapped' = Mapped
    BY <2>1
  <2>3. UNCHANGED <<Mapped, up>>
    BY <2>1, <2>2
  <2> QED
    BY <2>3, View
<1> QED
  BY <1>1, <1>2, <1>3, <1>4, <1>5, <1>6 DEF Next, A!Next

(* RefinesMap: through growth, shared allocation and reuse of elements, a  *)
(* table maps each symbol entered to what the client last stored for it.   *)
THEOREM MapRefinement == Spec => RefinesMap
<1>1. Init => A!Init
  <2> SUFFICES ASSUME Init PROVE A!Init
    OBVIOUS
  <2>1. DOMAIN tabs = {} /\ up = TRUE
    BY DEF Init
  <2>2. Mapped = [t \in {} |-> {}]
    BY <2>1 DEF Mapped
  <2> QED
    BY <2>1, <2>2, View
<1>2. Spec => [](Mapped = Contents)
  BY MappedFact, SymtabInvariant, PTL
<1>3. SymtabInv /\ [Next]_vars /\ Mapped = Contents /\ (Mapped = Contents)'
        => [A!Next]_(A!vars)
  BY Simulates
<1> QED
  BY <1>1, <1>2, <1>3, SymtabInvariant, PTL DEF Spec, RefinesMap, A!Spec
=============================================================================
