------------------------------ MODULE AgEncode ------------------------------
(***************************************************************************)
(* The instruction words of libag (ag/ag_gen.c, ag/ag_insns.h).  A word is *)
(* the set of its one bits, so "or" is union, and a field given a value    *)
(* too wide for it reaches into its neighbour, as in the code.             *)
(***************************************************************************)
EXTENDS Integers, FiniteSets

Bits(v)       == {i \in 0 .. 30 : (v \div 2 ^ i) % 2 = 1}
Shl(v, n)     == {i + n : i \in Bits(v)} \cap 0 .. 31
High(r)       == (r \div 16) % 2
Low(r)        == r % 16

AG_COND_NE == 1
AG_COND_AL == 14
AG_SP == 13
AG_LR == 14
AG_PC == 15

AG_LSL_AM(am) == am * 8

(* enum ag_data_process_opcode                                             *)
AG_SUB == 2
AG_ADD == 4
AG_ORR == 12
AG_MOV == 13
AG_MVN == 15

AG_OFFSET_ADDR == Bits(\h01000000)

bx(cc, reg) == Shl(cc, 28) \cup Bits(\h012fff10) \cup Bits(reg)

branch(cc, l, off) ==
  Shl(cc, 28) \cup Shl(5, 25) \cup Shl(l, 24) \cup Bits(off % 2 ^ 24)

data_process_reg(cc, opc, s, rd, rn, rm, shift) ==
  Shl(cc, 28) \cup Shl(opc, 21) \cup Shl(s, 20) \cup Shl(rn, 16)
    \cup Shl(rd, 12) \cup Shl(shift, 4) \cup Bits(rm)

(* Nothing is emitted for an immediate of more than eight bits.            *)
data_process_imm(cc, opc, s, rd, rn, imm) ==
  IF imm \in 0 .. 255
  THEN <<Shl(cc, 28) \cup Shl(1, 25) \cup Shl(opc, 21) \cup Shl(s, 20)
           \cup Shl(rn, 16) \cup Shl(rd, 12) \cup Bits(imm)>>
  ELSE <<>>

(* A quadword register is named by the first of its two doublewords.       *)
vr3(opc, q, size, vd, vn, vm) ==
  LET d == vd * (1 + q)
      n == vn * (1 + q)
      m == vm * (1 + q)
  IN  Shl(15, 28) \cup Shl(High(d), 22) \cup Shl(size, 20) \cup Shl(Low(n), 16)
        \cup Shl(Low(d), 12) \cup Bits(opc) \cup Shl(High(n), 7) \cup Shl(q, 6)
        \cup Shl(High(m), 5) \cup Bits(Low(m))

vdup(cc, opc, q, vd, rt) ==
  Shl(cc, 28) \cup Bits(opc) \cup Shl(q, 21) \cup Shl(Low(vd), 16)
    \cup Shl(rt, 12) \cup Shl(High(vd), 7)

vcvt(opc, q, vd, vm) ==
  Shl(15, 28) \cup Bits(opc) \cup Shl(High(vd), 22) \cup Shl(Low(vd), 12)
    \cup Shl(q, 6) \cup Shl(High(vm), 5) \cup Bits(Low(vm))

mul(cc, s, rd, rm, rs) ==
  Shl(cc, 28) \cup Bits(\h90) \cup Shl(s, 20) \cup Shl(rd, 16) \cup Shl(rs, 8)
    \cup Bits(rm)

mla(cc, s, rd, rm, rs, rn) ==
  mul(cc, s, rd, rm, rs) \cup Bits(\h00200000) \cup Shl(rn, 12)

Up(yes) == IF yes THEN {23} ELSE {}

ldrstr_reg(opc, cc, rt, rn, rm, shift, add, incr) ==
  incr \cup Bits(opc) \cup Shl(cc, 28) \cup Up(add) \cup Shl(rn, 16)
    \cup Shl(rt, 12) \cup Shl(shift, 4) \cup Bits(rm)

(* Thirteen bits of a twelve-bit field are kept.                           *)
ldrstr_imm(opc, cc, rt, rn, imm, incr) ==
  LET abs == IF imm >= 0 THEN imm ELSE -imm
  IN  incr \cup Bits(opc) \cup Shl(cc, 28) \cup Up(imm >= 0) \cup Shl(rn, 16)
        \cup Shl(rt, 12) \cup Bits(abs % 2 ^ 13)

(* reg_bits is a set of registers.                                         *)
ldstm(cc, p, u, s, w, l, rn, reg_bits) ==
  Shl(cc, 28) \cup Bits(\h08000000) \cup Shl(p, 24) \cup Shl(u, 23)
    \cup Shl(s, 22) \cup Shl(w, 21) \cup Shl(l, 20) \cup Shl(rn, 16)
    \cup reg_bits

push(cc, reg_bits) == ldstm(cc, 1, 0, 0, 1, 0, AG_SP, reg_bits)
pop(cc, reg_bits)  == ldstm(cc, 0, 1, 0, 1, 1, AG_SP, reg_bits)

ldrex(cc, rd, rn) ==
  Bits(\h01900f9f) \cup Shl(cc, 28) \cup Shl(rn, 16) \cup Shl(rd, 12)

strex(cc, rd, rm, rn) ==
  Bits(\h01800f90) \cup Shl(cc, 28) \cup Shl(rn, 16) \cup Shl(rd, 12) \cup Bits(rm)

vldst1(vd, rn, rm, align, opc, size) ==
  Shl(15, 28) \cup Bits(opc) \cup Shl(High(vd), 22) \cup Shl(rn, 16)
    \cup Shl(Low(vd), 12) \cup Shl(size, 10) \cup Shl(align, 4) \cup Bits(rm)

-----------------------------------------------------------------------------
(* The opcodes.  The leading f of the ones NEON has is added above.        *)
AG_LDR_REG == \h06100000
AG_LDR_IMM == \h05100000
AG_STR_IMM == \h05000000
AG_STRB_IMM == \h05400000
VDUP32 == \h0e800b10
AG_NEON_VR3_ADDF == \h02000d00
AG_NEON_VR3_VMULF == \h03000d10

(* The opcode of each single-precision operation, by its name.             *)
FOR_EACH_VR3 ==
  [vadd |-> AG_NEON_VR3_ADDF, vmla |-> AG_NEON_VR3_ADDF, vmul |-> AG_NEON_VR3_VMULF]

VCVT_F32_S32 == \h03bb0600
VCVT_S32_F32 == \h03bb0700

(* AG_VLD1_1 to _4 and AG_VST1_1 to _4, by number of elements.             *)
AG_VLD(nelem) == \h04a00000 + (nelem - 1) * 256
AG_VST(nelem) == \h04800000 + (nelem - 1) * 256
=============================================================================
