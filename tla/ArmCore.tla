------------------------------ MODULE ArmCore ------------------------------
(***************************************************************************)
(* The processor that runs what libag emits, as far as the programs of     *)
(* the benchmark need it: it fetches words as AgEncode lays them out and   *)
(* decodes them after the ARM Architecture Reference Manual.  What it      *)
(* cannot execute, an undefined word or an access outside the memory the   *)
(* program owns, stops it: no action is enabled.                           *)
(***************************************************************************)
EXTENDS AgEncode, Sequences, FiniteSetsExt, TLC

CONSTANTS
  ZeroMem, ZeroSize,    \* address and size of zero_mem
  StackTop, StackSize,  \* stack below the caller's frame
  ReturnAddress,        \* where the caller called from
  Width                 \* bits of a register (32)

VARIABLES
  image,  \* the program: instruction words, then literals
  pc,     \* index of the next instruction, from 0; Idle outside a call
  regs,   \* r0 to r14
  zero,   \* the Z flag
  mem,    \* words stored so far, by address
  dirty   \* NEON doubleword registers that may not be zero

core == <<image, pc, regs, zero, mem, dirty>>

-----------------------------------------------------------------------------
Idle == -1
CodeSize == 4 * Len(image.code)  \* the program lies at address 0

Num(s) == MapThenSumSet(LAMBDA i : 2 ^ i, s)
Wrap(v) == v % 2 ^ Width

word == image.code[pc + 1]
FieldOf(w, lo, n) == Num({i - lo : i \in w \cap lo .. lo + n - 1})
Field(lo, n) == FieldOf(word, lo, n)

(* The encodings the program may use, told by their fixed bits; the ones   *)
(* that are never conditional have an f in front, not written here.        *)
Class(name, mask, value) == [name |-> name, mask |-> Bits(mask), value |-> Bits(value)]

Conditional == {
  Class("bx",    \h0ffffff0, \h012fff10), Class("b",     \h0f000000, \h0a000000),
  Class("mul",   \h0fe000f0, \h00000090), Class("mla",   \h0fe000f0, \h00200090),
  Class("ldrex", \h0ff00fff, \h01900f9f), Class("strex", \h0ff00ff0, \h01800f90),
  Class("data",  \h0e000010, \h00000000), Class("data",  \h0e000000, \h02000000),
  Class("str",   \h0e500000, \h04000000), Class("str",   \h0e500010, \h06000000),
  Class("ldr",   \h0e500000, \h04100000), Class("ldr",   \h0e500010, \h06100000),
  Class("strb",  \h0e500000, \h04400000), Class("stm",   \h0e500000, \h08000000),
  Class("ldm",   \h0e500000, \h08100000), Class("vdup",  \h0fd00f7f, \h0e800b10)}

Neon == {
  Class("vadd",  \h0fb00f10, \h02000d00), Class("vmla",  \h0fb00f10, \h02000d10),
  Class("vmul",  \h0fb00f10, \h03000d10), Class("vcvt",  \h0fbf0e90, \h03bb0600),
  Class("vld",   \h0fb00cff, \h04a0080f), Class("vst",   \h0fb00cff, \h0480080f)}

Data == (0 :> "and") @@ (1 :> "eor") @@ (2 :> "sub") @@ (4 :> "add")
          @@ (12 :> "orr") @@ (13 :> "mov") @@ (15 :> "mvn")

OpOf(w) ==
  LET classes == IF 28 .. 31 \subseteq w THEN Neon ELSE Conditional
      fits == {c.name : c \in {x \in classes : w \cap x.mask = x.value}}
  IN  CASE fits = {"data"} ->
             IF FieldOf(w, 21, 4) \in DOMAIN Data THEN Data[FieldOf(w, 21, 4)]
             ELSE "undefined"
        [] Cardinality(fits) = 1 /\ fits # {"data"} -> CHOOSE name \in fits : TRUE
        [] OTHER -> "undefined"

Passes == Field(28, 4) \in {AG_COND_AL, 15} \/ (Field(28, 4) = AG_COND_NE /\ ~ zero)

Val(r) == IF r = AG_PC THEN 4 * pc + 8 ELSE regs[r]

-----------------------------------------------------------------------------
(* Memory: the stack and zero_mem are writable, literals can be read.      *)
OnStack(a)    == a \in StackTop - StackSize .. StackTop - 1
InZero(a)     == a \in ZeroMem .. ZeroMem + ZeroSize - 1
IsLiteral(a)  == a \in CodeSize .. CodeSize + 4 * Len(image.pool) - 1
Aligned(a)    == 4 * (a \div 4)

Load(a) ==
  IF IsLiteral(a) THEN image.pool[((a - CodeSize) \div 4) + 1]
  ELSE IF Aligned(a) \in DOMAIN mem THEN mem[Aligned(a)] ELSE 0

Legal(a)  == OnStack(a) \/ InZero(a)
Byte(a)   == 2 ^ (8 * (a % 4))
WithByte(a, v) == Load(a) - ((Load(a) \div Byte(a)) % 256) * Byte(a) + (v % 256) * Byte(a)

-----------------------------------------------------------------------------
Go == pc' = pc + 1

Exec(o, ops) ==
  /\ o \in ops
  /\ Passes
  /\ UNCHANGED image

Skip ==
  /\ ~ Passes
  /\ Go
  /\ UNCHANGED <<image, regs, zero, mem, dirty>>

(* The second operand: an immediate, or a register shifted left.           *)
Operand == IF 25 \in word THEN Field(0, 8) ELSE Val(Field(0, 4)) * 2 ^ Field(7, 5)

Result(o, a, b) ==
  CASE o = "add" -> Wrap(a + b)
    [] o = "sub" -> Wrap(a - b)
    [] o = "orr" -> Num(Bits(a) \cup Bits(b))
    [] o = "eor" -> Num((Bits(a) \cup Bits(b)) \ (Bits(a) \cap Bits(b)))
    [] o = "and" -> Num(Bits(a) \cap Bits(b))
    [] o = "mov" -> b
    [] o = "mvn" -> Wrap(-b - 1)

Flags(v) == zero' = IF 20 \in word THEN v = 0 ELSE zero

DataProcess(o) ==
  /\ Exec(o, {"and", "eor", "sub", "add", "orr", "mov", "mvn"})
  /\ 25 \in word => Field(8, 4) = 0
  /\ 25 \notin word => Field(5, 2) = 0
  /\ LET v == Result(o, Val(Field(16, 4)), Operand)
     IN  IF Field(12, 4) = AG_PC
         THEN pc' = v \div 4 /\ UNCHANGED <<regs, zero>>
         ELSE Go /\ regs' = [regs EXCEPT ![Field(12, 4)] = v] /\ Flags(v)
  /\ UNCHANGED <<mem, dirty>>

Multiply(o) ==
  /\ Exec(o, {"mul", "mla"})
  /\ LET v == Wrap(Val(Field(0, 4)) * Val(Field(8, 4))
                   + (IF o = "mla" THEN Val(Field(12, 4)) ELSE 0))
     IN  regs' = [regs EXCEPT ![Field(16, 4)] = v] /\ Flags(v)
  /\ Go
  /\ UNCHANGED <<mem, dirty>>

(* Offset addressing only, without write-back.                             *)
Offset == IF 25 \in word THEN Val(Field(0, 4)) * 2 ^ Field(7, 5) ELSE Field(0, 12)
Address == Val(Field(16, 4)) + (IF 23 \in word THEN Offset ELSE -Offset)

LoadStore(o) ==
  /\ Exec(o, {"ldr", "str", "strb"})
  /\ 24 \in word /\ 21 \notin word /\ Field(12, 4) # AG_PC
  /\ LET a == Address
         rt == Field(12, 4)
     IN  CASE o = "ldr" ->
                /\ Legal(a) \/ IsLiteral(a)
                /\ a % 4 = 0
                /\ regs' = [regs EXCEPT ![rt] = Load(a)]
                /\ UNCHANGED mem
           [] o = "str" ->
                /\ Legal(a) /\ a % 4 = 0
                /\ mem' = (a :> regs[rt]) @@ mem
                /\ UNCHANGED regs
           [] o = "strb" ->
                /\ Legal(a)
                /\ mem' = (Aligned(a) :> WithByte(a, regs[rt])) @@ mem
                /\ UNCHANGED regs
  /\ Go
  /\ UNCHANGED <<zero, dirty>>

(* ldm and stm of core registers, lowest register at the lowest address.   *)
Listed == word \cap 0 .. 15

Multiple(o) ==
  /\ Exec(o, {"ldm", "stm"})
  /\ Listed \subseteq 0 .. 14
  /\ LET rn == Field(16, 4)
         size == 4 * Cardinality(Listed)
         first == IF 23 \in word
                  THEN Val(rn) + (IF 24 \in word THEN 4 ELSE 0)
                  ELSE Val(rn) - size + (IF 24 \in word THEN 0 ELSE 4)
         at == [r \in Listed |-> first + 4 * Cardinality(Listed \cap 0 .. r - 1)]
         base == IF 21 \notin word THEN Val(rn)
                 ELSE IF 23 \in word THEN Val(rn) + size ELSE Val(rn) - size
     IN  /\ \A r \in Listed : Legal(at[r])
         /\ regs' = [r \in 0 .. 14 |->
                       IF o = "ldm" /\ r \in Listed THEN Load(at[r])
                       ELSE IF r = rn THEN base ELSE regs[r]]
         /\ mem' = IF o = "ldm" THEN mem
                   ELSE [a \in {at[r] : r \in Listed} |->
                           regs[CHOOSE r \in Listed : at[r] = a]] @@ mem
  /\ Go
  /\ UNCHANGED <<zero, dirty>>

(* A store exclusive may fail; it says so in its status register.          *)
Exclusive(o) ==
  /\ Exec(o, {"ldrex", "strex"})
  /\ LET a == Val(Field(16, 4))
         rd == Field(12, 4)
     IN  /\ Legal(a) /\ a % 4 = 0
         /\ IF o = "ldrex"
            THEN regs' = [regs EXCEPT ![rd] = Load(a)] /\ UNCHANGED mem
            ELSE \/ /\ regs' = [regs EXCEPT ![rd] = 0]
                    /\ mem' = (a :> regs[Field(0, 4)]) @@ mem
                 \/ /\ regs' = [regs EXCEPT ![rd] = 1]
                    /\ UNCHANGED mem
  /\ Go
  /\ UNCHANGED <<zero, dirty>>

(* NEON registers are followed as zero or perhaps not zero.                *)
DReg(high, low) == Field(low, 4) + 16 * Field(high, 1)
Pair(d, q) == IF q \in word THEN d .. d + 1 ELSE {d}
MarkDirty(ds, yes) == dirty' = IF yes THEN dirty \cup ds ELSE dirty \ ds

Duplicate(o) ==
  /\ Exec(o, {"vdup"})
  /\ MarkDirty(Pair(DReg(7, 16), 21), Val(Field(12, 4)) # 0)
  /\ Go
  /\ UNCHANGED <<regs, zero, mem>>

Vector(o) ==
  /\ Exec(o, {"vadd", "vmul", "vmla", "vcvt"})
  /\ LET vd == Pair(DReg(22, 12), 6)
         vm == Pair(DReg(5, 0), 6)
         vn == IF o = "vcvt" THEN {} ELSE Pair(DReg(7, 16), 6)
     IN  /\ 6 \in word => \A v \in {vd, vm, vn} \ {{}} : Min(v) % 2 = 0
         /\ MarkDirty(vd, (vm \cup vn) \cap dirty # {})
  /\ Go
  /\ UNCHANGED <<regs, zero, mem>>

(* One lane of each of nelem registers, at consecutive words.              *)
Lanes(o) ==
  /\ Exec(o, {"vld", "vst"})
  /\ LET a == Val(Field(16, 4))
         d == DReg(22, 12)
         k == 0 .. Field(8, 2)
     IN  /\ \A i \in k : Legal(a + 4 * i) /\ d + i \in 0 .. 31
         /\ IF o = "vld"
            THEN /\ dirty' = dirty \cup {d + i : i \in {j \in k : Load(a + 4 * j) # 0}}
                 /\ UNCHANGED mem
            ELSE /\ mem' = [w \in {a + 4 * i : i \in k} |->
                              IF d + (w - a) \div 4 \in dirty THEN 1 ELSE 0] @@ mem
                 /\ UNCHANGED dirty
  /\ Go
  /\ UNCHANGED <<regs, zero>>

Branch(o) ==
  /\ Exec(o, {"b"})
  /\ LET off == Field(0, 24)
     IN  pc' = pc + 2 + (IF off >= 2 ^ 23 THEN off - 2 ^ 24 ELSE off)
  /\ UNCHANGED <<regs, zero, mem, dirty>>

Return(o) ==
  /\ Exec(o, {"bx"})
  /\ Val(Field(0, 4)) = ReturnAddress
  /\ pc' = Idle
  /\ UNCHANGED <<regs, zero, mem, dirty>>

Step ==
  /\ pc # Idle
  /\ \/ Skip
     \/ \E o \in {OpOf(word)} :
        \/ DataProcess(o)
        \/ Multiply(o)
        \/ LoadStore(o)
        \/ Multiple(o)
        \/ Exclusive(o)
        \/ Duplicate(o)
        \/ Vector(o)
        \/ Lanes(o)
        \/ Branch(o)
        \/ Return(o)
=============================================================================
