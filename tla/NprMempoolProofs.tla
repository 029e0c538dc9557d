--------------------------- MODULE NprMempoolProofs ---------------------------
(***************************************************************************)
(* Proofs about NprMempool, for every width of unsigned int and every set  *)
(* of sizes, alignments and addresses.                                     *)
(***************************************************************************)
EXTENDS NprMempool, TLAPS, WellFoundedInduction

(* While a request is served its size and alignment are known, and the     *)
(* pool had an entry before those opened for it.                           *)
Pending ==
  IF pc = "retry"
  THEN /\ req.size \in Size /\ req.size < Large /\ req.shift \in Shift
       /\ opened \in 0 .. Len(entries) - 1
  ELSE opened = 0

Counts == entry_num \in Nat \ {0} /\ large_num \in Nat \ {0} /\ live \in Nat

(* CapacityHonest is not inductive: a balance below zero must not wrap to  *)
(* a large one when padding is taken off it.                               *)
Balance ==
  pc # "destroyed" =>
    \/ entry_byte_remain <= entry_byte_size - entry_byte_pos
    \/ entry_byte_remain >= Word - Word \div 4

(* An entry opened for the request is unused and as large as it needs.     *)
OpenedFits ==
  opened > 0 =>
    /\ entry_byte_pos = 0
    /\ entry_byte_remain = entry_byte_size
    /\ entry_byte_size >= req.size + align

Regions ==
  [block : {EntryId(i) : i \in 1 .. Len(entries)}
             \cup {LargeId(i) : i \in 1 .. Len(large)},
   off : Nat, len : Size, shift : Shift]

Placed(r) ==
  IF r.len < Large
  THEN \E i \in 1 .. Len(entries) :
         r.block = EntryId(i) /\ r.off + r.len <= entries[i].size
  ELSE \E i \in 1 .. Len(large) :
         r.block = LargeId(i) /\ r.off = 0 /\ r.len = large[i].size

GivenPlaced ==
  /\ given \subseteq Regions
  /\ \A r \in given : Placed(r)
  /\ pc = "destroyed" => given = {} /\ large = <<>>

(* A region of the newest entry is behind its position, or the balance is  *)
(* below zero and the entry serves no other request.                       *)
GivenBehind ==
  \A r \in given :
    r.block = EntryId(Len(entries)) =>
      \/ r.off + r.len <= entry_byte_pos
      \/ entry_byte_remain >= Word - Word \div 4

MempoolInv ==
  /\ TypeOK /\ Pending /\ Counts /\ ArraysFit /\ NoLeak
  /\ CapacityHonest /\ Balance /\ OpenedFits /\ RetryFits
  /\ GivenPlaced /\ GivenBehind /\ SmallAligned

-----------------------------------------------------------------------------
(* Arithmetic: divisions, powers of two, unsigned int.                     *)

(* A set of numbers has a least one: induction, for a set.                 *)
LEMMA LeastOf == \A T \in SUBSET Nat : T # {} => \E x \in T : \A y \in T : x <= y
<1> SUFFICES ASSUME NEW T \in SUBSET Nat, T # {}
             PROVE  \E x \in T : \A y \in T : x <= y
  OBVIOUS
<1>1. PICK R : R = OpToRel(<, Nat)
  OBVIOUS
<1>2. R = {ss \in Nat \X Nat : ss[1] < ss[2]}
  BY <1>1 DEF OpToRel
<1>3. IsWellFoundedOn(R, Nat)
  BY <1>1, NatLessThanWellFounded, Zenon
<1>4. PICK x \in T : \A y \in T : <<y, x>> \notin R
  BY WFMin, <1>3, Zenon
<1>5. \A y \in T : ~(y < x)
  BY <1>2, <1>4
<1> QED
  BY <1>4, <1>5

(* A number is its quotient times the divisor plus its remainder.          *)
LEMMA DivMod ==
  ASSUME NEW p \in Nat, NEW b \in Nat \ {0}
  PROVE  /\ p = (b * (p \div b)) + (p % b)
         /\ (p % b) \in 0 .. b - 1
         /\ (p \div b) \in Nat
  OBVIOUS

(* A multiple of a leaves nothing when divided by a.                       *)
LEMMA MulMod == ASSUME NEW q \in Nat, NEW a \in Nat \ {0} PROVE (q * a) % a = 0
  OBVIOUS

(* AlignUp(x, a) is the multiple of a at x or less than a after it.        *)
LEMMA AlignUpFact ==
  ASSUME NEW x \in Nat, NEW a \in Nat \ {0}
  PROVE  AlignUp(x, a) \in x .. x + a - 1 /\ AlignUp(x, a) % a = 0
<1>1. PICK y \in Nat : y = x + a - 1
  OBVIOUS
<1>2. PICK q \in Nat : q = y \div a
  BY DivMod
<1>3. y = (a * q) + (y % a) /\ (y % a) \in 0 .. a - 1
  BY <1>2, DivMod
<1>4. PICK z \in Int : z = a * q
  OBVIOUS
<1>5. AlignUp(x, a) = q * a /\ q * a = z
  BY <1>1, <1>2, <1>4 DEF AlignUp
<1>6. z \in x .. x + a - 1
  BY <1>1, <1>3, <1>4
<1> QED
  BY <1>5, <1>6, MulMod

(* The word in quarters.                                                   *)
LEMMA Quarters ==
  \E k \in Nat \ {0} : /\ Word = 4 * k
                       /\ Word \div 2 = 2 * k
                       /\ Word \div 4 = k
<1>1. Word \in Nat \ {0} /\ Word % 4 = 0
  BY MempoolAssumption
<1>2. PICK k \in Nat : k = Word \div 4
  BY <1>1
<1>3. Word = 4 * k
  BY <1>1, <1>2
<1> QED
  BY <1>1, <1>2, <1>3

(* A number no further than a word from the range of unsigned int wraps    *)
(* into it by adding the word.                                             *)
LEMMA Wrap ==
  /\ \A a \in 0 .. Word - 1 : a % Word = a
  /\ \A a \in -Word .. -1 : a % Word = a + Word
  /\ \A a \in Int : a % Word \in 0 .. Word - 1
  /\ \A a \in Nat : a % Word <= a
<1>1. PICK m \in Nat \ {0} : m = Word
  BY MempoolAssumption
<1>2. \A a \in 0 .. m - 1 : a % m = a
  OBVIOUS
<1>3. \A a \in -m .. -1 : a % m = a + m
  OBVIOUS
<1>4. \A a \in Int : a % m \in 0 .. m - 1
  OBVIOUS
<1>5. \A a \in Nat : a % m <= a
  OBVIOUS
<1> QED
  BY <1>1, <1>2, <1>3, <1>4, <1>5

(* The powers of two up to the word: positive, ending at the word.         *)
LEMMA Powers ==
  /\ \A i : i = 0 => 2 ^ i = 1
  /\ \A i \in 0 .. Bits : 2 ^ i \in Nat \ {0}
  /\ \A i \in 0 .. Bits : 2 ^ i <= Word
<1>0. Bits \in Nat /\ Word \in Nat \ {0} /\ Word = 2 ^ Bits
  BY MempoolAssumption
<1>1. \A i : i = 0 => 2 ^ i = 1
  <2>1. 2 ^ 0 = 1
    OBVIOUS
  <2> QED
    BY <2>1, Zenon
<1>2. \A i \in Nat : 2 ^ i \in Int
  OBVIOUS
<1>3. \A i \in 0 .. Bits : 2 ^ i \in Nat \ {0}
  <2>1. PICK T : T = {i \in 0 .. Bits : 2 ^ i \notin Nat \ {0}}
    OBVIOUS
  <2> SUFFICES ASSUME T # {} PROVE FALSE
    BY <2>1
  <2>2. PICK i \in T : \A j \in T : i <= j
    <3>1. T \in SUBSET Nat
      BY <1>0, <2>1
    <3> QED
      BY <3>1, LeastOf, Zenon
  <2>3. i # 0
    BY <1>1, <2>1
  <2>4. PICK j \in 0 .. Bits - 1 : i = j + 1
    BY <1>0, <2>1, <2>3
  <2>5. 2 ^ j \in Nat \ {0}
    BY <1>0, <2>1, <2>2, <2>4
  <2> QED
    BY <2>1, <2>4, <2>5, PowersOfTwo
<1>4. \A i \in 0 .. Bits : 2 ^ i <= Word
  <2>1. PICK T : T = {n \in 0 .. Bits : ~(2 ^ (Bits - n) <= Word)}
    OBVIOUS
  <2> SUFFICES ASSUME T # {} PROVE FALSE
    <3>1. \A i \in 0 .. Bits : Bits - i \in 0 .. Bits /\ Bits - (Bits - i) = i
      BY <1>0
    <3> QED
      BY <2>1, <3>1
  <2>2. PICK n \in T : \A j \in T : n <= j
    <3>1. T \in SUBSET Nat
      BY <1>0, <2>1
    <3> QED
      BY <3>1, LeastOf, Zenon
  <2>3. n # 0
    BY <1>0, <2>1
  <2>4. PICK j \in 0 .. Bits - 1 : j = Bits - n
    BY <1>0, <2>1, <2>3
  <2>5. j + 1 = Bits - (n - 1) /\ n - 1 \in 0 .. Bits /\ n - 1 \notin T
    BY <1>0, <2>1, <2>2, <2>3, <2>4
  <2>6. 2 ^ (j + 1) <= Word
    BY <2>1, <2>5
  <2>7. 2 ^ j \in Nat
    BY <1>0, <1>3, <2>4
  <2> QED
    BY <1>0, <2>1, <2>4, <2>6, <2>7, PowersOfTwo
<1> QED
  BY <1>1, <1>3, <1>4

(* A small request and its alignment are far from the word: eight of its   *)
(* alignments fit, since these are powers of two.                          *)
LEMMA SmallRequest ==
  ASSUME NEW n \in Size, n < Large, NEW s \in Shift
  PROVE  /\ n \in Nat \ {0} /\ 2 ^ s \in Nat \ {0}
         /\ 2 * (n + 2 ^ s) < Word \div 2
         /\ 8 * 2 ^ s <= Word
<1>0. /\ Bits \in Nat /\ Word \in Nat \ {0} /\ Word = 2 ^ Bits
      /\ s \in 0 .. Bits - 2 /\ n \in Nat \ {0}
      /\ 2 * (n + 2 ^ s) < Word \div 2
  BY MempoolAssumption
<1>1. PICK p \in Nat \ {0} : p = 2 ^ s
  BY <1>0, Powers
<1>2. PICK w \in Nat \ {0} : w = Word
  BY <1>0
<1>3. 4 * p < w
  BY <1>0, <1>1, <1>2
<1>4. 2 ^ (s + 1) = 2 * p
  BY <1>0, <1>1, PowersOfTwo
<1>5. s + 1 \in 0 .. Bits - 1
  BY <1>0
<1>6. 2 ^ (s + 2) = 4 * p
  <2>1. 2 ^ ((s + 1) + 1) = 2 * 2 ^ (s + 1)
    BY <1>5, PowersOfTwo
  <2>2. (s + 1) + 1 = s + 2
    BY <1>0
  <2> QED
    BY <1>4, <2>1, <2>2
<1>7. s + 2 # Bits
  BY <1>0, <1>2, <1>3, <1>6
<1>8. s + 2 \in 0 .. Bits - 1 /\ s + 3 \in 0 .. Bits /\ (s + 2) + 1 = s + 3
  BY <1>0, <1>7
<1>9. 2 ^ (s + 3) = 8 * p
  <2>1. 2 ^ ((s + 2) + 1) = 2 * 2 ^ (s + 2)
    BY <1>8, PowersOfTwo
  <2> QED
    BY <1>6, <1>8, <2>1
<1>10. 8 * p <= w
  BY <1>2, <1>8, <1>9, Powers
<1> QED
  BY <1>0, <1>1, <1>2, <1>10

(* roundup2 is an unsigned int; and up to half the word, the least power   *)
(* of two that is not below its argument.                                  *)
LEMMA Roundup2 ==
  ASSUME NEW x \in 0 .. Word - 1
  PROVE  /\ roundup2(x) \in 0 .. Word - 1
         /\ x \in 1 .. Word \div 2 =>
              /\ roundup2(x) \in {2 ^ i : i \in 0 .. Bits - 1}
              /\ x <= roundup2(x) /\ roundup2(x) < 2 * x
<1>0. Bits \in Nat /\ Word \in Nat \ {0} /\ Word = 2 ^ Bits /\ Word % 4 = 0
  BY MempoolAssumption
<1>1. PICK k \in Nat \ {0} : Word = 4 * k /\ Word \div 2 = 2 * k
  BY Quarters
<1>2. CASE x = 0 \/ x > Word \div 2
  BY <1>0, <1>1, <1>2 DEF roundup2
<1>3. CASE x \in 1 .. Word \div 2
  <2>1. Bits # 0
    BY <1>0, <1>1, Powers
  <2>2. 2 ^ (Bits - 1) = 2 * k
    <3>1. PICK b \in 0 .. Bits - 1 : b = Bits - 1 /\ b + 1 = Bits
      BY <1>0, <2>1
    <3>2. 2 ^ (b + 1) = 2 * 2 ^ b /\ 2 ^ b \in Nat
      BY <1>0, <3>1, PowersOfTwo, Powers
    <3> QED
      BY <1>0, <1>1, <3>1, <3>2
  <2> DEFINE T == {i \in 0 .. Bits - 1 : x <= 2 ^ i}
  <2>3. Bits - 1 \in T
    BY <1>0, <1>1, <1>3, <2>1, <2>2
  <2>4. PICK i \in T : \A j \in T : i <= j
    <3>1. T \in SUBSET Nat
      BY <1>0
    <3> HIDE DEF T
    <3> QED
      BY <2>3, <3>1, LeastOf, Zenon
  <2>5. 2 ^ i \in Nat \ {0}
    BY <1>0, Powers
  <2>6. 2 ^ i < 2 * x
    <3>1. CASE i = 0
      BY <1>3, <3>1, Powers
    <3>2. CASE i # 0
      <4>1. PICK j \in 0 .. Bits - 1 : i = j + 1 /\ j \notin T
        BY <1>0, <2>4, <3>2
      <4>2. 2 ^ j \in Nat \ {0} /\ 2 ^ i = 2 * 2 ^ j
        BY <1>0, <4>1, Powers, PowersOfTwo
      <4> QED
        BY <4>1, <4>2
    <3> QED
      BY <3>1, <3>2
  <2> DEFINE Q == {p \in {2 ^ h : h \in 0 .. Bits - 1} : p >= x /\ p < 2 * x}
  <2>7. 2 ^ i \in Q
    BY <2>5, <2>6
  <2>8. roundup2(x) = CHOOSE p \in {2 ^ h : h \in 0 .. Bits - 1} : p >= x /\ p < 2 * x
    <3>1. ~(x = 0 \/ x > Word \div 2)
      BY <1>0, <1>1, <1>3
    <3> QED
      BY <3>1, Zenon DEF roundup2
  <2>9. roundup2(x) \in Q
    BY <2>7, <2>8
  <2>10. \A p \in Q : p \in Nat
    BY <1>0, Powers
  <2> QED
    BY <1>1, <1>3, <2>9, <2>10
<1> QED
  BY <1>0, <1>1, <1>2, <1>3

-----------------------------------------------------------------------------
(* Types, the capacities of the arrays and the blocks owned.               *)

PoolShape == TypeOK /\ Pending /\ Counts /\ ArraysFit /\ NoLeak

(* The entries of a pool: at least one, of a base and a size.              *)
LEMMA Entries ==
  ASSUME TypeOK, pc # "destroyed"
  PROVE  /\ Len(entries) \in Nat \ {0} /\ Len(entries) \in 1 .. Len(entries)
         /\ entries[Len(entries)] \in [base : Base, size : 0 .. Word - 1]
         /\ entries[Len(entries)].base \in Nat
         /\ entries[Len(entries)].size \in 0 .. Word - 1
<1>1. entries \in Seq([base : Base, size : 0 .. Word - 1]) /\ entries # <<>>
  BY DEF TypeOK
<1>2. Len(entries) \in Nat \ {0}
  BY <1>1
<1>3. Len(entries) \in 1 .. Len(entries)
  BY <1>2
<1>4. entries[Len(entries)] \in [base : Base, size : 0 .. Word - 1]
  <2>1. PICK E : E = [base : Base, size : 0 .. Word - 1]
    OBVIOUS
  <2>2. entries \in Seq(E)
    BY <1>1, <2>1
  <2>3. entries[Len(entries)] \in E
    BY <1>3, <2>2
  <2> QED
    BY <2>1, <2>3
<1>5. Base \subseteq Nat
  BY MempoolAssumption
<1> QED
  BY <1>2, <1>3, <1>4, <1>5

(* The padding and the rounding up of the request being served.            *)
LEMMA Serving ==
  ASSUME TypeOK, Pending, pc = "retry"
  PROVE  /\ req.size \in Size /\ req.size \in Nat \ {0} /\ req.size < Large
         /\ req.shift \in Shift
         /\ align \in Nat \ {0} /\ 8 * align <= Word
         /\ 2 * (req.size + align) < Word \div 2
         /\ ptr \in Nat /\ ptr_diff \in 0 .. align - 1
         /\ (ptr + ptr_diff) % align = 0
         /\ AlignUp(req.size, align) \in req.size .. req.size + align - 1
<1>1. req.size \in Size /\ req.size < Large /\ req.shift \in Shift
  BY DEF Pending
<1>2. /\ req.size \in Nat \ {0} /\ align \in Nat \ {0} /\ 8 * align <= Word
      /\ 2 * (req.size + align) < Word \div 2
  BY <1>1, SmallRequest DEF align
<1>3. entry_byte_pos \in Nat /\ entries[Len(entries)].base \in Nat
  BY Entries DEF TypeOK
<1>4. ptr \in Nat
  BY <1>3 DEF ptr
<1>5. AlignUp(ptr, align) \in ptr .. ptr + align - 1 /\ AlignUp(ptr, align) % align = 0
  BY <1>2, <1>4, AlignUpFact
<1>6. AlignUp(req.size, align) \in req.size .. req.size + align - 1
  BY <1>2, AlignUpFact
<1>7. ptr_diff \in 0 .. align - 1 /\ ptr + ptr_diff = AlignUp(ptr, align)
  BY <1>2, <1>4, <1>5 DEF ptr_diff
<1> QED
  BY <1>1, <1>2, <1>4, <1>5, <1>6, <1>7

(* The size of the entry opened: an unsigned int that holds the request    *)
(* and its padding.                                                        *)
LEMMA NextSize ==
  ASSUME TypeOK, Pending, pc = "retry"
  PROVE  next_size \in 0 .. Word - 1 /\ next_size >= req.size + align
<1>1. /\ req.size \in Nat \ {0} /\ align \in Nat \ {0}
      /\ 2 * (req.size + align) < Word \div 2
  BY Serving
<1>2. PICK k \in Nat \ {0} : Word = 4 * k /\ Word \div 2 = 2 * k
  BY Quarters
<1>3. PICK d \in 0 .. Word - 1 : d = (entry_byte_size * 2) % Word
  BY Wrap DEF TypeOK
<1> QED
  BY <1>1, <1>2, <1>3 DEF next_size

(* The pool is in shape when it is made.                                   *)
LEMMA ShapeInit == Init => PoolShape
<1> SUFFICES ASSUME Init PROVE PoolShape
  OBVIOUS
<1>1. PICK hint \in Hint, base \in Base : entries = <<Block(base, hint)>>
                                          /\ entry_byte_size = hint
                                          /\ entry_byte_remain = hint
  BY DEF Init
<1>2. hint \in 0 .. Word - 1 /\ 0 \in 0 .. Word - 1 /\ InitNum \in Nat \ {0, 1}
  BY MempoolAssumption
<1>3. entries \in Seq([base : Base, size : 0 .. Word - 1]) /\ Len(entries) = 1
  BY <1>1, <1>2 DEF Block
<1>4. large = <<>> /\ large \in Seq([base : Base, size : Size]) /\ Len(large) = 0
  BY DEF Init
<1>5. TypeOK
  BY <1>1, <1>2, <1>3, <1>4 DEF Init, TypeOK
<1> QED
  BY <1>2, <1>3, <1>4, <1>5
  DEF Init, PoolShape, Pending, Counts, ArraysFit, NoLeak

(* A new pool is in shape, whatever was in the struct before.              *)
LEMMA ShapeFresh ==
  ASSUME NEW hint \in 0 .. Word - 1, NEW base \in Base, Fresh(hint, base),
         pc' = "idle", req' = NoReq, opened' = 0, live' = 3
  PROVE  PoolShape'
<1>1. 0 \in 0 .. Word - 1 /\ InitNum \in Nat \ {0, 1}
  BY MempoolAssumption
<1>2. entries' \in Seq([base : Base, size : 0 .. Word - 1]) /\ Len(entries') = 1
  BY DEF Fresh, Block
<1>3. large' = <<>> /\ large' \in Seq([base : Base, size : Size]) /\ Len(large') = 0
  BY DEF Fresh
<1>4. TypeOK'
  BY <1>1, <1>2, <1>3 DEF Fresh, TypeOK
<1> QED
  BY <1>1, <1>2, <1>3, <1>4
  DEF Fresh, PoolShape, Pending, Counts, ArraysFit, NoLeak

(* Every step keeps the pool in shape.                                     *)
LEMMA ShapeStep == PoolShape /\ [Next]_vars => PoolShape'
<1> SUFFICES ASSUME PoolShape, [Next]_vars PROVE PoolShape'
  OBVIOUS
<1> USE DEF PoolShape
<1>0. /\ entries \in Seq([base : Base, size : 0 .. Word - 1]) /\ Len(entries) \in Nat
      /\ large \in Seq([base : Base, size : Size]) /\ Len(large) \in Nat
      /\ entry_num \in Nat \ {0} /\ large_num \in Nat \ {0} /\ live \in Nat
      /\ Len(entries) <= entry_num /\ Len(large) <= large_num
      /\ pc # "retry" => req = NoReq /\ opened = 0
  BY DEF TypeOK, Counts, ArraysFit, Pending
<1>1. ASSUME Create PROVE PoolShape'
  <2>1. PICK hint \in Hint, base \in Base : Fresh(hint, base)
    BY <1>1 DEF Create
  <2>2. hint \in 0 .. Word - 1
    BY MempoolAssumption
  <2>3. pc' = "idle" /\ req' = NoReq /\ opened' = 0 /\ live' = 3
    BY <1>0, <1>1 DEF Create, NoLeak
  <2> QED
    BY <2>1, <2>2, <2>3, ShapeFresh
<1>2. ASSUME NEW n \in Size, NEW shift \in Shift, AllocLarge(n, shift) PROVE PoolShape'
  <2>1. pc = "idle" /\ pc' = "idle"
    BY <1>2 DEF AllocLarge, CanAlloc
  <2>2. PICK b \in Base : large' = Append(large, Block(b, n))
    BY <1>2 DEF AllocLarge
  <2>3. large' \in Seq([base : Base, size : Size]) /\ Len(large') = Len(large) + 1
    BY <1>0, <2>2 DEF Block
  <2>4. large_num' \in Nat \ {0} /\ Len(large') <= large_num'
    BY <1>0, <1>2, <2>3 DEF AllocLarge, RoomFor
  <2>5. TypeOK'
    BY <1>2, <2>1, <2>3 DEF AllocLarge, TypeOK
  <2> QED
    BY <1>0, <1>2, <2>1, <2>3, <2>4, <2>5
    DEF AllocLarge, Pending, Counts, ArraysFit, NoLeak
<1>3. ASSUME NEW n \in Size, NEW shift \in Shift, Alloc(n, shift) PROVE PoolShape'
  <2>1. pc = "idle" /\ pc' = "retry" /\ req' = [size |-> n, shift |-> shift] /\ n # 0
    BY <1>3, MempoolAssumption DEF Alloc, CanAlloc
  <2>2. req'.size = n /\ req'.shift = shift /\ req' # NoReq
    BY <2>1 DEF NoReq
  <2>3. TypeOK'
    BY <1>3, <2>1, <2>2 DEF Alloc, TypeOK
  <2>4. Len(entries) # 0
    BY <1>0, <2>1 DEF TypeOK
  <2> QED
    BY <1>0, <1>3, <2>1, <2>2, <2>3, <2>4
    DEF Alloc, Pending, Counts, ArraysFit, NoLeak
<1>4. ASSUME OpenEntry PROVE PoolShape'
  <2>1. pc = "retry" /\ pc' = "retry" /\ next_size \in 0 .. Word - 1
    BY <1>4, NextSize DEF OpenEntry
  <2>2. PICK b \in Base : entries' = Append(entries, Block(b, next_size))
    BY <1>4 DEF OpenEntry
  <2>3. /\ entries' \in Seq([base : Base, size : 0 .. Word - 1])
        /\ Len(entries') = Len(entries) + 1
    BY <1>0, <2>1, <2>2 DEF Block
  <2>4. entry_num' \in Nat \ {0} /\ Len(entries') <= entry_num'
    BY <1>0, <1>4, <2>3 DEF OpenEntry, RoomFor
  <2>5. 0 \in 0 .. Word - 1
    BY MempoolAssumption
  <2>6. TypeOK'
    <3>1. entries' # <<>>
      BY <1>0, <2>3
    <3>2. {entry_byte_size, entry_byte_remain, entry_byte_pos, alloc_small}'
             \subseteq 0 .. Word - 1
      BY <1>4, <2>1, <2>5 DEF OpenEntry, TypeOK
    <3>3. UNCHANGED <<large, req>>
      BY <1>4 DEF OpenEntry
    <3> QED
      BY <2>1, <2>3, <3>1, <3>2, <3>3 DEF TypeOK
  <2>7. Pending'
    <3>1. opened \in 0 .. Len(entries) - 1 /\ opened' = opened + 1
      BY <1>4, <2>1 DEF OpenEntry, Pending
    <3> QED
      BY <1>0, <1>4, <2>1, <2>3, <3>1 DEF OpenEntry, Pending
  <2> QED
    BY <1>0, <1>4, <2>1, <2>3, <2>4, <2>6, <2>7
    DEF OpenEntry, Counts, ArraysFit, NoLeak
<1>5. ASSUME Carve PROVE PoolShape'
  <2>1. pc = "retry" /\ pc' = "idle" /\ req' = NoReq
    BY <1>5 DEF Carve
  <2>2. PICK u \in Nat : u = ptr_diff + AlignUp(req.size, align)
    BY <2>1, Serving
  <2>3. remain \in Int
    <3>1. entry_byte_remain - ptr_diff \in Int
      BY <2>1, Serving DEF TypeOK
    <3>2. (entry_byte_remain - ptr_diff) % Word \in Int /\ Word \in Int
      BY <3>1, Wrap, MempoolAssumption
    <3> QED
      BY <3>2 DEF remain, Signed
  <2>4. /\ entry_byte_remain' \in 0 .. Word - 1
        /\ entry_byte_pos' \in 0 .. Word - 1
        /\ alloc_small' \in 0 .. Word - 1
    <3>1. entry_byte_pos + u \in Int /\ alloc_small + u \in Int
      BY DEF TypeOK
    <3>2. remain - u \in Int
      BY <2>3
    <3>3. /\ entry_byte_remain' = (remain - u) % Word
          /\ entry_byte_pos' = (entry_byte_pos + u) % Word
          /\ alloc_small' = (alloc_small + u) % Word
      BY <1>5, <2>2 DEF Carve, Left
    <3> QED
      BY <3>1, <3>2, <3>3, Wrap
  <2>5. TypeOK'
    BY <1>5, <2>1, <2>4 DEF Carve, TypeOK
  <2> QED
    BY <1>0, <1>5, <2>1, <2>5 DEF Carve, Pending, Counts, ArraysFit, NoLeak
<1>6. ASSUME Destroy PROVE PoolShape'
  <2>1. Len(entries') = 0 /\ Len(large') = 0
    BY <1>6 DEF Destroy
  <2>2. TypeOK'
    BY <1>6, <2>1 DEF Destroy, TypeOK
  <2> QED
    BY <1>0, <1>6, <2>1, <2>2
    DEF Destroy, Freed, Pending, Counts, ArraysFit, NoLeak
<1>7. ASSUME ClearInPlace PROVE PoolShape'
  <2>1. 0 \in 0 .. Word - 1
    BY MempoolAssumption
  <2>2. TypeOK'
    BY <1>7, <2>1 DEF ClearInPlace, TypeOK
  <2> QED
    BY <1>0, <1>7, <2>2 DEF ClearInPlace, Pending, Counts, ArraysFit, NoLeak
<1>8. ASSUME ClearAnew PROVE PoolShape'
  <2>1. PICK base \in Base : Fresh(roundup2(alloc_small), base)
    BY <1>8 DEF ClearAnew
  <2>2. roundup2(alloc_small) \in 0 .. Word - 1
    BY Roundup2 DEF TypeOK
  <2>3. pc' = "idle" /\ req' = NoReq /\ opened' = 0 /\ live' = 3
    BY <1>0, <1>8 DEF ClearAnew, Freed, NoLeak
  <2> QED
    BY <2>1, <2>2, <2>3, ShapeFresh
<1>9. CASE UNCHANGED vars
  BY <1>9 DEF vars, TypeOK, Pending, Counts, ArraysFit, NoLeak, align
<1> QED
  BY <1>1, <1>2, <1>3, <1>4, <1>5, <1>6, <1>7, <1>8, <1>9 DEF Next

-----------------------------------------------------------------------------
(* The balance of the newest entry.                                        *)

Books == CapacityHonest /\ Balance /\ OpenedFits /\ RetryFits

(* What a carving does to the newest entry: the region it takes is inside  *)
(* the entry, aligned and behind every position; the balance and the       *)
(* position it leaves agree, or the balance is below zero.                 *)
LEMMA Carved ==
  ASSUME PoolShape, CapacityHonest, Balance, Carve
  PROVE  LET e == entries[Len(entries)]
         IN  /\ entry_byte_pos + ptr_diff \in Nat
             /\ (entry_byte_pos + ptr_diff) + req.size <= e.size
             /\ ((entry_byte_pos + ptr_diff) + e.base) % align = 0
             /\ entry_byte_remain < Word - Word \div 4
             /\ Signed(entry_byte_remain') <= e.size - entry_byte_pos'
             /\ \/ /\ entry_byte_remain' <= e.size - entry_byte_pos'
                   /\ (entry_byte_pos + ptr_diff) + req.size <= entry_byte_pos'
                   /\ entry_byte_pos <= entry_byte_pos'
                \/ entry_byte_remain' >= Word - Word \div 4
<1>1. TypeOK /\ Pending /\ pc = "retry"
  BY DEF PoolShape, Carve
<1>2. /\ req.size \in Nat \ {0} /\ align \in Nat \ {0} /\ 8 * align <= Word
      /\ 2 * (req.size + align) < Word \div 2
      /\ ptr \in Nat /\ ptr_diff \in 0 .. align - 1
      /\ (ptr + ptr_diff) % align = 0
      /\ AlignUp(req.size, align) \in req.size .. req.size + align - 1
  BY <1>1, Serving
<1>3. PICK e : e = entries[Len(entries)]
  OBVIOUS
<1>4. e.size \in 0 .. Word - 1 /\ e.base \in Nat
  BY <1>1, <1>3, Entries
<1>5. PICK ebr \in 0 .. Word - 1, pos \in 0 .. Word - 1 :
        ebr = entry_byte_remain /\ pos = entry_byte_pos
  BY <1>1 DEF TypeOK
<1>6. PICK al \in Nat \ {0}, n \in Nat \ {0}, pd \in 0 .. align - 1,
           up \in req.size .. req.size + align - 1 :
        al = align /\ n = req.size /\ pd = ptr_diff /\ up = AlignUp(req.size, align)
  BY <1>2
<1>7. PICK rem, left, end :
        /\ rem = Signed((ebr - pd) % Word) /\ rem = remain
        /\ left = (rem - (pd + up)) % Word /\ left = entry_byte_remain'
        /\ end = (pos + (pd + up)) % Word /\ end = entry_byte_pos'
  BY <1>5, <1>6 DEF Carve, Left, remain
<1>8. n <= rem
  BY <1>6, <1>7 DEF Carve
<1>9. PICK s \in 0 .. Word - 1 : s = e.size
  BY <1>4
<1>10. ebr <= s - pos \/ ebr >= Word - Word \div 4
  BY <1>1, <1>3, <1>5, <1>9 DEF Balance, CapacityHonest
<1>11. pd \in 0 .. al - 1 /\ up \in n .. n + al - 1
       /\ 8 * al <= Word /\ 2 * (n + al) < Word \div 2
  BY <1>2, <1>6
<1>12. /\ rem = ebr - pd /\ rem \in Nat
       /\ ebr <= s - pos /\ ebr < Word - Word \div 4
       /\ left \in 0 .. Word - 1 /\ end \in 0 .. Word - 1
       /\ Signed(left) <= s - end
       /\ \/ left <= s - end /\ end = pos + (pd + up)
          \/ left >= Word - Word \div 4
  <2>1. rem = Signed((ebr - pd) % Word)
    BY <1>7
  <2>2. left = (rem - (pd + up)) % Word
    BY <1>7
  <2>3. end = (pos + (pd + up)) % Word
    BY <1>7
  <2>4. /\ ebr \in 0 .. Word - 1 /\ pos \in 0 .. Word - 1 /\ s \in 0 .. Word - 1
        /\ al \in Nat \ {0} /\ n \in Nat \ {0} /\ n <= rem
    BY <1>5, <1>6, <1>8, <1>9
  <2> USE <1>10, <1>11, <2>1, <2>2, <2>3, <2>4
  <2>5. PICK k \in Nat \ {0} : Word = 4 * k /\ Word \div 2 = 2 * k /\ Word \div 4 = k
    BY Quarters
  <2>6. 2 * al <= k /\ n + al < k
    BY <2>5
  <2>7. ebr - pd < 0 => (ebr - pd) % Word = (ebr - pd) + Word
    <3>1. ebr - pd < 0 => ebr - pd \in -Word .. -1
      BY <2>5, <2>6
    <3> QED
      BY <3>1, Wrap
  <2>8. ebr - pd >= 0 => (ebr - pd) % Word = ebr - pd
    <3>1. ebr - pd >= 0 => ebr - pd \in 0 .. Word - 1
      BY <2>5
    <3> QED
      BY <3>1, Wrap
  <2>9. ebr - pd >= 0
    BY <2>5, <2>6, <2>7 DEF Signed
  <2>10. rem = ebr - pd /\ ebr - pd < 2 * k
    BY <2>5, <2>6, <2>8, <2>9 DEF Signed
  <2>11. ebr < 3 * k /\ ebr <= s - pos
    BY <2>5, <2>6, <2>10
  <2>12. end \in 0 .. Word - 1 /\ end <= pos + (pd + up)
    <3>1. pos + (pd + up) \in Nat
      BY <2>5
    <3> QED
      BY <3>1, Wrap
  <2>13. CASE rem - (pd + up) >= 0
    <3>1. rem - (pd + up) \in 0 .. Word - 1 /\ pos + (pd + up) \in 0 .. Word - 1
      BY <2>5, <2>10, <2>11, <2>13
    <3>2. left = rem - (pd + up) /\ end = pos + (pd + up)
      BY <3>1, Wrap
    <3>3. Signed(left) = left
      BY <2>5, <2>10, <3>2 DEF Signed
    <3> QED
      <4>1. rem - (pd + up) <= s - (pos + (pd + up)) /\ rem \in Nat
        BY <2>5, <2>10, <2>11
      <4>2. ebr < Word - Word \div 4
        BY <2>5, <2>11
      <4> QED
        BY <2>10, <2>11, <2>12, <3>1, <3>2, <3>3, <4>1, <4>2
  <2>14. CASE rem - (pd + up) < 0
    <3>1. rem - (pd + up) \in -Word .. -1
      BY <2>5, <2>6, <2>10, <2>14
    <3>2. left = (rem - (pd + up)) + Word
      BY <3>1, Wrap
    <3>3. left >= 3 * k
      BY <2>5, <2>6, <2>10, <3>2
    <3>4. Signed(left) = rem - (pd + up)
      BY <2>5, <2>6, <2>10, <3>2, <3>3 DEF Signed
    <3> QED
      BY <2>5, <2>10, <2>11, <2>12, <2>14, <3>1, <3>2, <3>3, <3>4
  <2> QED
    BY <2>5, <2>10, <2>11, <2>13, <2>14
<1>13. (pos + pd) + n <= s /\ pos + pd \in Nat
  BY <1>8, <1>11, <1>12
<1>14. end = pos + (pd + up) => (pos + pd) + n <= end /\ pos <= end
  BY <1>11
<1>15. (pos + pd) + e.base = ptr + ptr_diff
  <2>1. ptr = e.base + entry_byte_pos
    BY <1>3 DEF ptr
  <2>2. ptr = e.base + pos /\ ptr_diff = pd
    BY <1>5, <1>6, <2>1
  <2>3. pos \in Nat /\ pd \in Nat /\ e.base \in Nat
    BY <1>4, <1>5, <1>6, <1>11
  <2> QED
    BY <2>2, <2>3
<1> QED
  BY <1>2, <1>3, <1>5, <1>6, <1>7, <1>9, <1>12, <1>13, <1>14, <1>15

(* A new entry has all of its size left.                                   *)
LEMMA BooksOfNew ==
  ASSUME NEW s \in 0 .. Word - 1
  PROVE  Signed(s) <= s - 0 /\ s <= s - 0
  BY MempoolAssumption DEF Signed

(* The books of a new pool agree.                                          *)
LEMMA BooksInit == Init => Books
<1> SUFFICES ASSUME Init PROVE Books
  OBVIOUS
<1>1. PICK hint \in Hint, base \in Base : entries = <<Block(base, hint)>>
                                          /\ entry_byte_size = hint
                                          /\ entry_byte_remain = hint
                                          /\ entry_byte_pos = 0 /\ opened = 0
  BY DEF Init
<1>2. Signed(hint) <= hint - 0 /\ hint <= hint - 0
  BY MempoolAssumption, BooksOfNew
<1>3. Len(entries) = 1 /\ entries[1].size = hint
  BY <1>1 DEF Block
<1> QED
  BY <1>1, <1>2, <1>3 DEF Books, CapacityHonest, Balance, OpenedFits, RetryFits

(* The books of a pool made anew agree.                                    *)
LEMMA BooksFresh ==
  ASSUME NEW hint \in 0 .. Word - 1, NEW base \in Base, Fresh(hint, base), opened' = 0
  PROVE  Books'
<1>1. Signed(hint) <= hint - 0 /\ hint <= hint - 0
  BY BooksOfNew
<1>2. entries' = <<Block(base, hint)>> /\ Len(entries') = 1 /\ entries'[1].size = hint
  BY DEF Fresh, Block
<1> QED
  BY <1>1, <1>2 DEF Fresh, Books, CapacityHonest, Balance, OpenedFits, RetryFits

(* An entry opened for the request that is passed over is 2^31 bytes or    *)
(* more: any less would have held the request and its padding.             *)
LEMMA PassedOver ==
  ASSUME PoolShape, OpenedFits, pc = "retry", opened > 0, req.size > remain
  PROVE  Signed(entry_byte_size) < 0
<1>1. /\ req.size \in Nat \ {0} /\ align \in Nat \ {0} /\ ptr_diff \in 0 .. align - 1
  BY Serving DEF PoolShape
<1>2. PICK k \in Nat \ {0} : Word = 4 * k /\ Word \div 2 = 2 * k
  BY Quarters
<1>3. /\ entry_byte_remain = entry_byte_size /\ entry_byte_size \in 0 .. Word - 1
      /\ entry_byte_size >= req.size + align
  BY DEF OpenedFits, PoolShape, TypeOK
<1>4. entry_byte_size - ptr_diff \in 0 .. Word - 1
  BY <1>1, <1>2, <1>3
<1>5. remain = Signed(entry_byte_size - ptr_diff)
  BY <1>3, <1>4, Wrap DEF remain
<1> QED
  BY <1>1, <1>2, <1>3, <1>4, <1>5 DEF Signed

(* The books agree after every step.                                       *)
LEMMA BooksStep == PoolShape /\ Books /\ [Next]_vars => Books'
<1> SUFFICES ASSUME PoolShape, Books, [Next]_vars PROVE Books'
  OBVIOUS
<1> USE DEF Books
<1>0. /\ entries \in Seq([base : Base, size : 0 .. Word - 1]) /\ Len(entries) \in Nat
      /\ pc # "retry" => opened = 0
  BY DEF PoolShape, TypeOK, Pending
<1>1. ASSUME Create PROVE Books'
  <2>1. PICK hint \in Hint, base \in Base : Fresh(hint, base)
    BY <1>1 DEF Create
  <2>2. hint \in 0 .. Word - 1 /\ opened' = 0
    BY <1>0, <1>1, MempoolAssumption DEF Create
  <2> QED
    BY <2>1, <2>2, BooksFresh
<1>2. ASSUME NEW n \in Size, NEW shift \in Shift, AllocLarge(n, shift) PROVE Books'
  BY <1>0, <1>2
  DEF AllocLarge, CanAlloc, CapacityHonest, Balance, OpenedFits, RetryFits
<1>3. ASSUME NEW n \in Size, NEW shift \in Shift, Alloc(n, shift) PROVE Books'
  BY <1>3 DEF Alloc, CanAlloc, CapacityHonest, Balance, OpenedFits, RetryFits
<1>4. ASSUME OpenEntry PROVE Books'
  <2>1. /\ pc = "retry" /\ pc' = "retry" /\ next_size \in 0 .. Word - 1
        /\ next_size >= req.size + align
    BY <1>4, NextSize DEF OpenEntry, PoolShape
  <2>2. PICK b \in Base, s \in 0 .. Word - 1 :
          s = next_size /\ entries' = Append(entries, Block(b, s))
    BY <1>4, <2>1 DEF OpenEntry
  <2>3. /\ Len(entries') = Len(entries) + 1
        /\ entries'[Len(entries) + 1] = Block(b, s)
        /\ \A i \in 1 .. Len(entries) : entries'[i] = entries[i]
    BY <1>0, <2>2
  <2>4. entries'[Len(entries')].size = s
    BY <2>3 DEF Block
  <2>5. CapacityHonest' /\ Balance'
    <3>1. Signed(s) <= s - 0 /\ s <= s - 0
      BY BooksOfNew
    <3> QED
      BY <1>4, <2>2, <2>4, <3>1 DEF OpenEntry, CapacityHonest, Balance
  <2>6. OpenedFits'
    BY <1>4, <2>1 DEF OpenEntry, OpenedFits, align
  <2>7. ASSUME NEW k \in 1 .. opened' - 1
        PROVE  Signed(entries'[Len(entries') - k].size) < 0
    <3>1. opened \in 0 .. Len(entries) - 1 /\ opened' = opened + 1
      BY <1>4, <2>1 DEF OpenEntry, PoolShape, Pending
    <3>2. k \in 1 .. opened /\ Len(entries') - k = Len(entries) - (k - 1)
      BY <1>0, <2>3, <3>1
    <3>3. Len(entries) - (k - 1) \in 1 .. Len(entries)
      BY <1>0, <3>1, <3>2
    <3>4. entries'[Len(entries') - k] = entries[Len(entries) - (k - 1)]
      BY <2>3, <3>2, <3>3
    <3>5. CASE k = 1
      <4>1. Signed(entry_byte_size) < 0
        BY <1>4, <2>1, <3>1, <3>2, PassedOver DEF OpenEntry
      <4>2. Len(entries) - (k - 1) = Len(entries)
        BY <1>0, <3>5
      <4> QED
        BY <2>1, <3>4, <4>1, <4>2 DEF CapacityHonest
    <3>6. CASE k # 1
      <4>1. k - 1 \in 1 .. opened - 1
        BY <3>1, <3>2, <3>6
      <4> QED
        BY <3>4, <4>1 DEF RetryFits
    <3> QED
      BY <3>5, <3>6
  <2> QED
    BY <2>5, <2>6, <2>7 DEF RetryFits
<1>5. ASSUME Carve PROVE Books'
  <2>1. PICK e : e = entries[Len(entries)]
    OBVIOUS
  <2>2. /\ Signed(entry_byte_remain') <= e.size - entry_byte_pos'
        /\ \/ entry_byte_remain' <= e.size - entry_byte_pos'
           \/ entry_byte_remain' >= Word - Word \div 4
    BY <1>5, <2>1, Carved
  <2>3. entry_byte_size = e.size
    BY <1>5, <2>1 DEF Carve, CapacityHonest
  <2> QED
    BY <1>5, <2>1, <2>2, <2>3
    DEF Carve, CapacityHonest, Balance, OpenedFits, RetryFits
<1>6. ASSUME Destroy PROVE Books'
  BY <1>0, <1>6 DEF Destroy, CapacityHonest, Balance, OpenedFits, RetryFits
<1>7. ASSUME ClearInPlace PROVE Books'
  <2>1. entry_byte_pos \in 0 .. Word - 1 /\ entry_byte_size \in Nat
        /\ entry_byte_remain \in 0 .. Word - 1 /\ Word \in Nat
    BY MempoolAssumption DEF PoolShape, TypeOK
  <2>2. Signed(entry_byte_remain) \in Int
    BY <2>1 DEF Signed
  <2>3. CapacityHonest' /\ Balance'
    <3>1. /\ Signed(entry_byte_remain) <= entry_byte_size - entry_byte_pos
          /\ \/ entry_byte_remain <= entry_byte_size - entry_byte_pos
             \/ entry_byte_remain >= Word - Word \div 4
          /\ entry_byte_size = entries[Len(entries)].size
      BY <1>7 DEF ClearInPlace, CapacityHonest, Balance
    <3>2. /\ Signed(entry_byte_remain) <= entry_byte_size - 0
          /\ \/ entry_byte_remain <= entry_byte_size - 0
             \/ entry_byte_remain >= Word - Word \div 4
      BY <2>1, <2>2, <3>1
    <3> QED
      BY <1>7, <3>1, <3>2 DEF ClearInPlace, CapacityHonest, Balance, Signed
  <2> QED
    BY <1>0, <1>7, <2>3 DEF ClearInPlace, OpenedFits, RetryFits
<1>8. ASSUME ClearAnew PROVE Books'
  <2>1. PICK base \in Base : Fresh(roundup2(alloc_small), base)
    BY <1>8 DEF ClearAnew
  <2>2. roundup2(alloc_small) \in 0 .. Word - 1
    BY Roundup2 DEF PoolShape, TypeOK
  <2>3. opened' = 0
    BY <1>0, <1>8 DEF ClearAnew
  <2> QED
    BY <2>1, <2>2, <2>3, BooksFresh
<1>9. CASE UNCHANGED vars
  BY <1>9 DEF vars, CapacityHonest, Balance, OpenedFits, RetryFits, align
<1> QED
  BY <1>1, <1>2, <1>3, <1>4, <1>5, <1>6, <1>7, <1>8, <1>9 DEF Next

-----------------------------------------------------------------------------
(* The regions handed out.                                                 *)

Placements == GivenPlaced /\ GivenBehind /\ SmallAligned

(* The names of blocks tell them apart.                                    *)
LEMMA Ids ==
  /\ \A i, j : EntryId(i) = EntryId(j) => i = j
  /\ \A i, j : EntryId(i) # LargeId(j)
  /\ \A i : EntryId(i)[1] = "entry" /\ EntryId(i)[2] = i
  /\ \A i : LargeId(i)[1] = "large" /\ LargeId(i)[2] = i
  BY DEF EntryId, LargeId

(* No block lost or moved.                                                 *)
BlocksKept ==
  /\ Len(entries) <= Len(entries') /\ Len(entries') \in Nat
  /\ \A i \in 1 .. Len(entries) : entries'[i] = entries[i]
  /\ Len(large) <= Len(large') /\ Len(large') \in Nat
  /\ \A i \in 1 .. Len(large) : large'[i] = large[i]

(* A region is where it was as long as its block is.                       *)
LEMMA RegionKept ==
  ASSUME TypeOK, BlocksKept, NEW r \in Regions, Placed(r), r.len < Large => Aligned(r)
  PROVE  r \in Regions' /\ Placed(r)' /\ (r.len < Large => Aligned(r)')
<1>0. Len(entries) \in Nat /\ Len(large) \in Nat
  BY DEF TypeOK
<1>1. /\ \A i \in 1 .. Len(entries) : i \in 1 .. Len(entries') /\ entries'[i] = entries[i]
      /\ \A i \in 1 .. Len(large) : i \in 1 .. Len(large') /\ large'[i] = large[i]
  BY <1>0 DEF BlocksKept
<1>2. r \in Regions'
  BY <1>1 DEF Regions
<1>3. CASE r.len < Large
  <2>1. PICK i \in 1 .. Len(entries) :
          r.block = EntryId(i) /\ r.off + r.len <= entries[i].size
    BY <1>3 DEF Placed
  <2>2. Placed(r)'
    BY <1>1, <1>3, <2>1 DEF Placed
  <2>3. Address(r)' = Address(r)
    BY <1>1, <2>1, Ids DEF Address
  <2> QED
    BY <1>2, <1>3, <2>2, <2>3 DEF Aligned
<1>4. CASE ~(r.len < Large)
  <2>1. PICK i \in 1 .. Len(large) :
          r.block = LargeId(i) /\ r.off = 0 /\ r.len = large[i].size
    BY <1>4 DEF Placed
  <2>2. Placed(r)'
    BY <1>1, <1>4, <2>1 DEF Placed
  <2> QED
    BY <1>2, <1>4, <2>2
<1> QED
  BY <1>3, <1>4

(* When no region is given there is nothing to place.                      *)
LEMMA NoneGiven ==
  ASSUME given' = {}, pc' = "destroyed" => large' = <<>>
  PROVE  Placements'
  BY DEF Placements, GivenPlaced, GivenBehind, SmallAligned

(* Where a region is handed out, or none, and the others stay.             *)
LEMMA RegionGiven ==
  ASSUME TypeOK, GivenPlaced, SmallAligned, BlocksKept, pc' # "destroyed",
         NEW S, \A r \in S : r \in Regions' /\ Placed(r)' /\ (r.len < Large => Aligned(r)'),
         given' = given \cup S
  PROVE  GivenPlaced' /\ SmallAligned'
<1>1. ASSUME NEW r \in given
      PROVE  r \in Regions' /\ Placed(r)' /\ (r.len < Large => Aligned(r)')
  <2>1. r \in Regions /\ Placed(r) /\ (r.len < Large => Aligned(r))
    BY DEF GivenPlaced, SmallAligned
  <2> QED
    BY <2>1, RegionKept
<1> QED
  BY <1>1 DEF GivenPlaced, SmallAligned

(* A block of its own holds its request.                                   *)
LEMMA LargeGiven ==
  ASSUME PoolShape, NEW n \in Size, NEW shift \in Shift, AllocLarge(n, shift),
         NEW r, r = Region(LargeId(Len(large) + 1), 0, n, shift)
  PROVE  /\ BlocksKept /\ r \in Regions' /\ Placed(r)' /\ ~(r.len < Large)
         /\ r.block = LargeId(Len(large) + 1)
<1>1. PICK b \in Base : large' = Append(large, Block(b, n))
  BY DEF AllocLarge
<1>2. /\ Len(large) \in Nat /\ Len(large') = Len(large) + 1
      /\ large'[Len(large) + 1].size = n
      /\ \A i \in 1 .. Len(large) : large'[i] = large[i]
  BY <1>1 DEF PoolShape, TypeOK, Block
<1>3. entries' = entries /\ Len(entries) \in Nat
  BY DEF AllocLarge, PoolShape, TypeOK
<1>4. BlocksKept
  BY <1>2, <1>3 DEF BlocksKept
<1>5. PICK k \in 1 .. Len(large') : k = Len(large) + 1
  BY <1>2
<1>6. r = Region(LargeId(k), 0, n, shift)
  BY <1>5
<1>7. r.block = LargeId(k) /\ r.off = 0 /\ r.len = n /\ ~(n < Large)
  BY <1>6, MempoolAssumption DEF AllocLarge, Region
<1>8. r \in Regions'
  BY <1>5, <1>6 DEF Region, Regions
<1>9. Placed(r)'
  BY <1>2, <1>5, <1>7 DEF Placed
<1> QED
  BY <1>4, <1>5, <1>6, <1>7, <1>8, <1>9

(* A region carved out of the newest entry is inside it and aligned.       *)
LEMMA CarvedGiven ==
  ASSUME PoolShape, CapacityHonest, Balance, Carve,
         NEW r, r = Region(EntryId(Len(entries)), entry_byte_pos + ptr_diff,
                           req.size, req.shift)
  PROVE  /\ BlocksKept /\ r \in Regions' /\ Placed(r)' /\ Aligned(r)'
         /\ r.len < Large /\ r.block = EntryId(Len(entries))
         /\ r.off = entry_byte_pos + ptr_diff /\ r.len = req.size
<1>1. TypeOK /\ Pending /\ pc = "retry"
  BY DEF PoolShape, Carve
<1>2. /\ entries' = entries /\ large' = large
      /\ Len(entries) \in 1 .. Len(entries) /\ Len(entries) \in Nat /\ Len(large) \in Nat
  BY <1>1, Entries DEF Carve, TypeOK
<1>3. BlocksKept
  BY <1>2 DEF BlocksKept
<1>4. r = Region(EntryId(Len(entries)), entry_byte_pos + ptr_diff, req.size, req.shift)
  OBVIOUS
<1>5. /\ r.block = EntryId(Len(entries)) /\ r.off = entry_byte_pos + ptr_diff
      /\ r.len = req.size /\ r.shift = req.shift
  BY <1>4 DEF Region
<1>6. /\ r.off \in Nat /\ r.off + r.len <= entries[Len(entries)].size
      /\ (r.off + entries[Len(entries)].base) % align = 0
  BY <1>5, Carved
<1>7. r.len \in Size /\ r.len < Large /\ r.shift \in Shift
  BY <1>1, <1>5, Serving
<1>8. r \in Regions'
  BY <1>2, <1>4, <1>5, <1>6, <1>7 DEF Region, Regions
<1>9. Placed(r)'
  BY <1>2, <1>5, <1>6, <1>7 DEF Placed
<1>10. Address(r)' = r.off + entries[Len(entries)].base
  BY <1>2, <1>5, Ids DEF Address
<1>11. Aligned(r)'
  BY <1>5, <1>6, <1>10 DEF Aligned, align
<1> QED
  BY <1>3, <1>4, <1>5, <1>7, <1>8, <1>9, <1>11

(* Every step keeps the regions placed and aligned.                        *)
LEMMA PlacementsStep ==
  PoolShape /\ Books /\ Placements /\ [Next]_vars => Placements'
<1> SUFFICES ASSUME PoolShape, Books, Placements, [Next]_vars PROVE Placements'
  OBVIOUS
<1>0. /\ TypeOK /\ Pending /\ GivenPlaced /\ GivenBehind /\ SmallAligned
      /\ CapacityHonest /\ Balance
  BY DEF PoolShape, Books, Placements
<1>1. entries \in Seq([base : Base, size : 0 .. Word - 1]) /\ Len(entries) \in Nat
      /\ Len(large) \in Nat
  BY <1>0 DEF TypeOK
<1>2. ASSUME Create PROVE Placements'
  <2>1. given' = {}
    BY <1>0, <1>2 DEF Create, GivenPlaced
  <2> QED
    BY <1>2, <2>1, NoneGiven DEF Create
<1>3. ASSUME NEW n \in Size, NEW shift \in Shift, AllocLarge(n, shift) PROVE Placements'
  <2>1. PICK r : r = Region(LargeId(Len(large) + 1), 0, n, shift)
    OBVIOUS
  <2>2. /\ BlocksKept /\ r \in Regions' /\ Placed(r)' /\ ~(r.len < Large)
        /\ r.block = LargeId(Len(large) + 1)
    BY <1>3, <2>1, LargeGiven
  <2>3. given' = given \cup {r} /\ pc' # "destroyed"
    BY <1>3, <2>1 DEF AllocLarge, CanAlloc
  <2>4. GivenPlaced' /\ SmallAligned'
    <3>1. PICK S : S = {r}
      OBVIOUS
    <3>2. \A x \in S : x \in Regions' /\ Placed(x)' /\ (x.len < Large => Aligned(x)')
      BY <2>2, <3>1
    <3>3. given' = given \cup S
      BY <2>3, <3>1
    <3> QED
      BY <1>0, <2>2, <2>3, <3>2, <3>3, RegionGiven
  <2>5. GivenBehind'
    BY <1>0, <1>3, <2>2, <2>3, Ids DEF AllocLarge, GivenBehind
  <2> QED
    BY <2>4, <2>5 DEF Placements
<1>4. ASSUME OpenEntry PROVE Placements'
  <2>1. PICK e : entries' = Append(entries, e)
    BY <1>4 DEF OpenEntry
  <2>2. /\ Len(entries') = Len(entries) + 1
        /\ \A i \in 1 .. Len(entries) : entries'[i] = entries[i]
    BY <1>1, <2>1
  <2>3. BlocksKept
    BY <1>1, <1>4, <2>2 DEF OpenEntry, BlocksKept
  <2>4. given' = given \cup {} /\ pc' # "destroyed"
    BY <1>4 DEF OpenEntry
  <2>5. GivenPlaced' /\ SmallAligned'
    <3>1. PICK S : S = {}
      OBVIOUS
    <3>2. \A x \in S : x \in Regions' /\ Placed(x)' /\ (x.len < Large => Aligned(x)')
      BY <3>1
    <3>3. given' = given \cup S
      BY <2>4, <3>1
    <3> QED
      BY <1>0, <2>3, <2>4, <3>2, <3>3, RegionGiven
  <2>6. ASSUME NEW r \in given PROVE r.block # EntryId(Len(entries'))
    <3>1. r.block \in {EntryId(i) : i \in 1 .. Len(entries)}
                        \cup {LargeId(i) : i \in 1 .. Len(large)}
      BY <1>0 DEF GivenPlaced, Regions
    <3> QED
      BY <1>1, <2>2, <3>1, Ids
  <2>7. GivenBehind'
    BY <2>4, <2>6 DEF GivenBehind
  <2> QED
    BY <2>5, <2>7 DEF Placements
<1>5. ASSUME Carve PROVE Placements'
  <2>1. PICK r : r = Region(EntryId(Len(entries)), entry_byte_pos + ptr_diff,
                            req.size, req.shift)
    OBVIOUS
  <2>2. /\ BlocksKept /\ r \in Regions' /\ Placed(r)' /\ Aligned(r)'
        /\ r.len < Large /\ r.block = EntryId(Len(entries))
        /\ r.off = entry_byte_pos + ptr_diff /\ r.len = req.size
    BY <1>0, <1>5, <2>1, CarvedGiven DEF PoolShape
  <2>3. given' = given \cup {r} /\ pc' # "destroyed" /\ entries' = entries
    BY <1>5, <2>1 DEF Carve
  <2>4. GivenPlaced' /\ SmallAligned'
    <3>1. PICK S : S = {r}
      OBVIOUS
    <3>2. \A x \in S : x \in Regions' /\ Placed(x)' /\ (x.len < Large => Aligned(x)')
      BY <2>2, <3>1
    <3>3. given' = given \cup S
      BY <2>3, <3>1
    <3> QED
      BY <1>0, <2>2, <2>3, <3>2, <3>3, RegionGiven
  <2>5. /\ entry_byte_remain < Word - Word \div 4
        /\ \/ /\ r.off + r.len <= entry_byte_pos'
              /\ entry_byte_pos <= entry_byte_pos'
           \/ entry_byte_remain' >= Word - Word \div 4
    BY <1>0, <1>5, <2>2, Carved DEF PoolShape
  <2>6. ASSUME NEW s \in given, s.block = EntryId(Len(entries))
        PROVE  \/ s.off + s.len <= entry_byte_pos'
               \/ entry_byte_remain' >= Word - Word \div 4
    <3>1. s \in Regions
      BY <1>0 DEF GivenPlaced
    <3>2. s.off \in Nat /\ s.len \in Nat
      BY <3>1, MempoolAssumption DEF Regions
    <3>3. \/ s.off + s.len <= entry_byte_pos
          \/ entry_byte_remain >= Word - Word \div 4
      BY <1>0, <2>6 DEF GivenBehind
    <3>4. /\ entry_byte_pos \in Nat /\ entry_byte_pos' \in Nat
          /\ entry_byte_remain \in Nat /\ Word \in Nat
      <4>1. TypeOK'
        BY <1>5, ShapeStep DEF Next, PoolShape
      <4> QED
        BY <1>0, <4>1, MempoolAssumption DEF TypeOK
    <3> QED
      BY <2>5, <3>2, <3>3, <3>4
  <2>7. GivenBehind'
    BY <2>2, <2>3, <2>5, <2>6 DEF GivenBehind
  <2> QED
    BY <2>4, <2>7 DEF Placements
<1>6. ASSUME Destroy PROVE Placements'
  BY <1>6, NoneGiven DEF Destroy
<1>7. ASSUME ClearInPlace PROVE Placements'
  BY <1>7, NoneGiven DEF ClearInPlace
<1>8. ASSUME ClearAnew PROVE Placements'
  BY <1>8, NoneGiven DEF ClearAnew
<1>9. ASSUME NEW n \in Size, NEW shift \in Shift, Alloc(n, shift) PROVE Placements'
  BY <1>0, <1>9
  DEF Alloc, Placements, GivenPlaced, GivenBehind, SmallAligned, Regions, Placed,
      Aligned, Address
<1>10. CASE UNCHANGED vars
  BY <1>0, <1>10
  DEF vars, Placements, GivenPlaced, GivenBehind, SmallAligned, Regions, Placed,
      Aligned, Address
<1> QED
  BY <1>2, <1>3, <1>4, <1>5, <1>6, <1>7, <1>8, <1>9, <1>10 DEF Next

-----------------------------------------------------------------------------
(* The invariant holds of every pool; so the properties the run checks do, *)
(* whatever the sizes, the alignments and the width of the integers.       *)

(* The invariant holds at first and survives every step.                   *)
LEMMA MempoolInvariant == Spec => []MempoolInv
<1>1. Init => MempoolInv
  <2> SUFFICES ASSUME Init PROVE MempoolInv
    OBVIOUS
  <2>1. GivenPlaced /\ GivenBehind /\ SmallAligned
    BY DEF Init, GivenPlaced, GivenBehind, SmallAligned
  <2> QED
    BY <2>1, ShapeInit, BooksInit DEF MempoolInv, PoolShape, Books
<1>2. MempoolInv /\ [Next]_vars => MempoolInv'
  BY ShapeStep, BooksStep, PlacementsStep
  DEF MempoolInv, PoolShape, Books, Placements
<1> QED
  BY <1>1, <1>2, PTL DEF Spec

(* TypeOK: every counter of the pool stays an unsigned int.                *)
THEOREM TypeCorrect == Spec => []TypeOK
  BY MempoolInvariant, PTL DEF MempoolInv

(* CapacityHonest: npr_mempool_alloc never believes an entry has more      *)
(* bytes left than there are behind its position.                          *)
THEOREM CapacityCorrect == Spec => []CapacityHonest
  BY MempoolInvariant, PTL DEF MempoolInv

(* RetryFits: the retry loop passes over no entry it opened for a request, *)
(* unless it has 2^31 bytes or more.                                       *)
THEOREM RetryCorrect == Spec => []RetryFits
  BY MempoolInvariant, PTL DEF MempoolInv

(* ArraysFit: no block pointer is stored behind the end of its array.      *)
THEOREM ArraysCorrect == Spec => []ArraysFit
  BY MempoolInvariant, PTL DEF MempoolInv

(* NoLeak: npr_mempool_destroy frees as many blocks as were allocated.     *)
THEOREM LeakFree == Spec => []NoLeak
  BY MempoolInvariant, PTL DEF MempoolInv

(* SmallAligned: a small request is aligned to the power of two asked for. *)
THEOREM AlignmentCorrect == Spec => []SmallAligned
  BY MempoolInvariant, PTL DEF MempoolInv
-----------------------------------------------------------------------------
(* NprMempool implements NprAllocator: opening an entry is memory the pool *)
(* gets, a large request or a carving is a region it gives, and clearing   *)
(* takes all regions back, in place or not.                                *)

(* The allocator's view of the pool.                                       *)
BlockIds == {EntryId(i) : i \in 1 .. Len(entries)} \cup {LargeId(i) : i \in 1 .. Len(large)}

Blocks == [b \in BlockIds |-> IF b[1] = "entry" THEN entries[b[2]].size
                              ELSE large[b[2]].size]

Stripped(r) == [block |-> r.block, off |-> r.off, len |-> r.len]

Views == {Stripped(r) : r \in given}

(* The actions of the allocator, over these.                               *)
LEMMA View ==
  /\ A!Init <=> Views = {} /\ (pc # "destroyed") = TRUE
  /\ A!KeepsBlocks <=>
       \A b \in DOMAIN Blocks : b \in DOMAIN Blocks' /\ Blocks'[b] = Blocks[b]
  /\ A!Grow <=> /\ pc # "destroyed" /\ A!KeepsBlocks
                /\ Views' = Views /\ (pc # "destroyed")' = (pc # "destroyed")
  /\ A!Clear <=> /\ pc # "destroyed" /\ Views' = {}
                 /\ (pc # "destroyed")' = (pc # "destroyed")
  /\ A!Destroy <=> /\ pc # "destroyed" /\ (pc # "destroyed")' = FALSE
                   /\ Views' = {} /\ DOMAIN Blocks' = {}
  /\ A!Create <=> /\ ~(pc # "destroyed") /\ (pc # "destroyed")' = TRUE
                  /\ Views' = Views
  /\ UNCHANGED A!vars <=> UNCHANGED <<Blocks, Views, pc # "destroyed">>
  BY DEF A!Init, A!KeepsBlocks, A!Grow, A!Clear, A!Destroy, A!Create, A!vars,
         Views, Stripped, Blocks, BlockIds

(* Giving a region of n bytes.                                             *)
LEMMA GiveView ==
  ASSUME NEW n, pc # "destroyed", pc' # "destroyed", A!KeepsBlocks,
         NEW r, r.len = n, given' = given \cup {r},
         r.block \in DOMAIN Blocks', 0 <= r.off, r.off + r.len <= Blocks'[r.block],
         \A s \in given : \/ r.block # s.block
                          \/ r.off + r.len <= s.off
                          \/ s.off + s.len <= r.off
  PROVE  A!Give(n)
<1>1. PICK v : v = Stripped(r)
  OBVIOUS
<1>2. v.block = r.block /\ v.off = r.off /\ v.len = r.len
  BY <1>1 DEF Stripped
<1>3. Views' = Views \cup {v}
  BY <1>1 DEF Views
<1>4. v \in Views' /\ v.len = n
  BY <1>2, <1>3
<1>5. A!Inside(v, Blocks')
  BY <1>2 DEF A!Inside
<1>6. \A s \in Views : A!Apart(v, s)
  BY <1>2 DEF Views, Stripped, A!Apart
<1>7. (pc # "destroyed")' = (pc # "destroyed")
  OBVIOUS
<1> QED
  BY <1>3, <1>4, <1>5, <1>6, <1>7
  DEF A!Give, Views, Stripped, Blocks, BlockIds

(* A block kept is the allocator's, with the size it had.                  *)
LEMMA SizesKept ==
  ASSUME TypeOK, BlocksKept
  PROVE  A!KeepsBlocks
<1>0. Len(entries) \in Nat /\ Len(large) \in Nat
  BY DEF TypeOK
<1>1. /\ \A i \in 1 .. Len(entries) : i \in 1 .. Len(entries') /\ entries'[i] = entries[i]
      /\ \A i \in 1 .. Len(large) : i \in 1 .. Len(large') /\ large'[i] = large[i]
  BY <1>0 DEF BlocksKept
<1>2. DOMAIN Blocks = BlockIds /\ DOMAIN Blocks' = BlockIds'
  BY DEF Blocks
<1>3. ASSUME NEW b \in BlockIds
      PROVE  b \in BlockIds' /\ Blocks'[b] = Blocks[b]
  <2>1. CASE \E i \in 1 .. Len(entries) : b = EntryId(i)
    <3>1. PICK i \in 1 .. Len(entries) : b = EntryId(i)
      BY <2>1
    <3>2. b \in BlockIds'
      BY <1>1, <3>1 DEF BlockIds
    <3>3. b[1] = "entry" /\ b[2] = i
      BY <3>1, Ids
    <3> QED
      BY <1>1, <3>2, <3>3 DEF Blocks
  <2>2. CASE \E i \in 1 .. Len(large) : b = LargeId(i)
    <3>1. PICK i \in 1 .. Len(large) : b = LargeId(i)
      BY <2>2
    <3>2. b \in BlockIds'
      BY <1>1, <3>1 DEF BlockIds
    <3>3. b[1] = "large" /\ b[2] = i
      BY <3>1, Ids
    <3> QED
      BY <1>1, <3>2, <3>3 DEF Blocks
  <2> QED
    BY <2>1, <2>2 DEF BlockIds
<1> QED
  BY <1>2, <1>3, View

(* A region that is placed is inside its block.                            *)
LEMMA PlacedInside ==
  ASSUME NEW r, r \in Regions', Placed(r)'
  PROVE  /\ r.block \in DOMAIN Blocks' /\ 0 <= r.off
         /\ r.off + r.len <= Blocks'[r.block]
<1>1. r.block \in BlockIds' /\ r.off \in Nat /\ r.len \in Nat
  BY MempoolAssumption DEF Regions, BlockIds
<1>2. CASE r.len < Large
  <2>1. PICK i \in 1 .. Len(entries') :
          r.block = EntryId(i) /\ r.off + r.len <= entries'[i].size
    BY <1>2 DEF Placed
  <2>2. r.block[1] = "entry" /\ r.block[2] = i
    BY <2>1, Ids
  <2> QED
    BY <1>1, <2>1, <2>2 DEF Blocks
<1>3. CASE ~(r.len < Large)
  <2>1. PICK i \in 1 .. Len(large') :
          r.block = LargeId(i) /\ r.off = 0 /\ r.len = large'[i].size
    BY <1>3 DEF Placed
  <2>2. r.block[1] = "large" /\ r.block[2] = i
    BY <2>1, Ids
  <2> QED
    BY <1>1, <2>1, <2>2 DEF Blocks
<1> QED
  BY <1>2, <1>3

(* A block of its own is apart from all others.                            *)
LEMMA SimulateLarge ==
  ASSUME MempoolInv, NEW n \in Size, NEW shift \in Shift, AllocLarge(n, shift)
  PROVE  A!Give(n)
<1>1. PICK r : r = Region(LargeId(Len(large) + 1), 0, n, shift)
  OBVIOUS
<1>2. /\ BlocksKept /\ r \in Regions' /\ Placed(r)'
      /\ r.block = LargeId(Len(large) + 1)
  BY <1>1, LargeGiven DEF MempoolInv, PoolShape
<1>3. r.len = n /\ given' = given \cup {r} /\ pc # "destroyed" /\ pc' # "destroyed"
  BY <1>1 DEF Region, AllocLarge, CanAlloc
<1>4. A!KeepsBlocks
  BY <1>2, SizesKept DEF MempoolInv
<1>5. ASSUME NEW s \in given PROVE r.block # s.block
  <2>1. s.block \in {EntryId(i) : i \in 1 .. Len(entries)}
                      \cup {LargeId(i) : i \in 1 .. Len(large)}
    BY DEF MempoolInv, GivenPlaced, Regions
  <2>2. Len(large) \in Nat
    BY DEF MempoolInv, TypeOK
  <2>3. Len(large) + 1 \notin 1 .. Len(large)
    BY <2>2
  <2>4. \A i, j : LargeId(i) = LargeId(j) => i = j
    BY DEF LargeId
  <2> QED
    BY <1>2, <2>1, <2>3, <2>4, Ids
<1> QED
  BY <1>2, <1>3, <1>4, <1>5, PlacedInside, GiveView

(* A carving begins behind all regions of its entry.                       *)
LEMMA SimulateCarve ==
  ASSUME MempoolInv, Carve
  PROVE  \E n \in Size : A!Give(n)
<1>1. PICK r : r = Region(EntryId(Len(entries)), entry_byte_pos + ptr_diff,
                          req.size, req.shift)
  OBVIOUS
<1>2. /\ BlocksKept /\ r \in Regions' /\ Placed(r)'
      /\ r.block = EntryId(Len(entries))
      /\ r.off = entry_byte_pos + ptr_diff /\ r.len = req.size
  BY <1>1, CarvedGiven DEF MempoolInv, PoolShape
<1>3. given' = given \cup {r} /\ pc = "retry" /\ pc' # "destroyed"
  BY <1>1 DEF Carve
<1>4. A!KeepsBlocks
  BY <1>2, SizesKept DEF MempoolInv
<1>5. req.size \in Size /\ ptr_diff \in Nat
  <2>1. ptr_diff \in 0 .. align - 1 /\ align \in Nat /\ req.size \in Size
    BY <1>3, Serving DEF MempoolInv
  <2> QED
    BY <2>1
<1>6. entry_byte_remain < Word - Word \div 4
  BY Carved DEF MempoolInv, PoolShape
<1>7. ASSUME NEW s \in given, s.block = r.block PROVE s.off + s.len <= r.off
  <2>1. s.off \in Nat /\ s.len \in Nat
    BY MempoolAssumption DEF MempoolInv, GivenPlaced, Regions
  <2>2. \/ s.off + s.len <= entry_byte_pos
        \/ entry_byte_remain >= Word - Word \div 4
    BY <1>2, <1>7 DEF MempoolInv, GivenBehind
  <2>3. entry_byte_pos \in Nat /\ entry_byte_remain \in Nat /\ Word \in Nat
    BY MempoolAssumption DEF MempoolInv, TypeOK
  <2> QED
    BY <1>2, <1>5, <1>6, <2>1, <2>2, <2>3
<1>8. pc # "destroyed"
  BY <1>3
<1>9. /\ r.block \in DOMAIN Blocks' /\ 0 <= r.off
      /\ r.off + r.len <= Blocks'[r.block]
  BY <1>2, PlacedInside
<1>10. \A s \in given : \/ r.block # s.block
                        \/ r.off + r.len <= s.off
                        \/ s.off + s.len <= r.off
  BY <1>7
<1>11. PICK n \in Size : n = req.size
  BY <1>5
<1>12. r.len = n
  BY <1>2, <1>11
<1>13. given' = given \cup {r}
  BY <1>3
<1>14. pc' # "destroyed"
  BY <1>3
<1>15. A!Give(n)
  BY <1>4, <1>8, <1>9, <1>10, <1>12, <1>13, <1>14, GiveView
<1> QED
  BY <1>15

(* Every step of the pool is a step of the allocator, or nothing to it.    *)
LEMMA Simulates == MempoolInv /\ [Next]_vars => [A!Next]_(A!vars)
<1> SUFFICES ASSUME MempoolInv, [Next]_vars PROVE A!Next \/ UNCHANGED A!vars
  OBVIOUS
<1>1. ASSUME Create PROVE A!Create
  BY <1>1, View DEF Create, Views
<1>2. ASSUME NEW n \in Size, NEW shift \in Shift, AllocLarge(n, shift) PROVE A!Give(n)
  BY <1>2, SimulateLarge
<1>3. ASSUME NEW n \in Size, NEW shift \in Shift, Alloc(n, shift) PROVE UNCHANGED A!vars
  <2>1. Blocks' = Blocks /\ Views' = Views
    BY <1>3 DEF Alloc, Blocks, BlockIds, Views
  <2>2. (pc # "destroyed")' = (pc # "destroyed")
    BY <1>3 DEF Alloc, CanAlloc
  <2> QED
    BY <2>1, <2>2, View
<1>4. ASSUME OpenEntry PROVE A!Grow
  <2>1. PICK e : entries' = Append(entries, e)
    BY <1>4 DEF OpenEntry
  <2>2. entries \in Seq([base : Base, size : 0 .. Word - 1]) /\ Len(entries) \in Nat
        /\ Len(large) \in Nat
    BY DEF MempoolInv, TypeOK
  <2>3. BlocksKept
    BY <1>4, <2>1, <2>2 DEF OpenEntry, BlocksKept
  <2>4. A!KeepsBlocks
    BY <2>3, SizesKept DEF MempoolInv
  <2> QED
    BY <1>4, <2>4, View DEF OpenEntry, Views
<1>5. ASSUME Carve PROVE \E n \in Size : A!Give(n)
  BY <1>5, SimulateCarve
<1>6. ASSUME Destroy PROVE A!Destroy
  <2>1. DOMAIN Blocks' = BlockIds' /\ BlockIds' = {} /\ Views' = {}
    BY <1>6 DEF Destroy, Blocks, BlockIds, Views
  <2> QED
    BY <1>6, <2>1, View DEF Destroy
<1>7. ASSUME ClearInPlace PROVE A!Clear
  BY <1>7, View DEF ClearInPlace, Views
<1>8. ASSUME ClearAnew PROVE A!Clear
  BY <1>8, View DEF ClearAnew, Views
<1>9. CASE UNCHANGED vars
  <2>1. Blocks' = Blocks /\ Views' = Views /\ (pc # "destroyed")' = (pc # "destroyed")
    BY <1>9 DEF vars, Blocks, BlockIds, Views
  <2> QED
    BY <2>1, View
<1> QED
  BY <1>1, <1>2, <1>3, <1>4, <1>5, <1>6, <1>7, <1>8, <1>9 DEF Next, A!Next

(* RefinesAllocator: the pool keeps what NprAllocator promises: a region   *)
(* lies inside a block of the pool, apart from every other region, until   *)
(* the pool is cleared or destroyed.                                       *)
THEOREM PoolRefinement == Spec => RefinesAllocator
<1>1. Init => A!Init
  BY View DEF Init, Views
<1> QED
  BY <1>1, Simulates, MempoolInvariant, PTL DEF Spec, RefinesAllocator, A!Spec
=============================================================================
