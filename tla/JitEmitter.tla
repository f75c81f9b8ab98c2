----------------------------- MODULE JitEmitter -----------------------------
(***************************************************************************)
(* The emitters of simple-jit (emitter.cpp).  Registers, immediates and    *)
(* shifts are sets of bits; an emitter's value is the word it pushes.      *)
(***************************************************************************)
EXTENDS A64

SP == 0 .. 4
Ls_mode == [post |-> {0}, offset |-> {1}, pre |-> {0, 1}]

Uint16 == 0 .. 15
Not16(imm) == Uint16 \ imm
Shr(S, k) == {i \in 0 .. 31 : i + k \in S}

Emit_mov_helper(code, dest, imm, shift) ==
  code \union dest \union Shl(imm, 5) \union Shl(shift, 21)

Emit_binop_helper(code, dest, src0, src1) ==
  code \union dest \union Shl(src0, 5) \union Shl(src1, 16)

Emit_stp_ldp(code, rn, rt1, rt2, offset, mode) ==
  code \union Shl(mode, 23) \union Shl(Shr(offset, 3) \intersect 0 .. 6, 15)
       \union Shl(rn, 5) \union Shl(rt2, 10) \union rt1

Emit_ldr_str(code, rn, rt, imm, mode) ==
  code \union rt \union Shl(rn, 5)
       \union (IF mode = Ls_mode.offset
               THEN Shl(mode, 23) \union Shl(Shr(imm \intersect 0 .. 11, 3), 10)
               ELSE Shl(mode, 10) \union Shl(imm \intersect 0 .. 8, 12))

\* 0xd2800000, 0x92800000, 0xf2800000
Emit_movz(dest, imm, shift) ==
  Emit_mov_helper({31, 30, 28, 25, 23}, dest, imm, shift)
Emit_movn(dest, imm, shift) ==
  Emit_mov_helper({31, 28, 25, 23}, dest, Not16(imm), shift)
Emit_movk(dest, imm, shift) ==
  Emit_mov_helper({31, 30, 29, 28, 25, 23}, dest, imm, shift)

\* 0x91000000
Emit_mov_sp(dest, src) == {31, 28, 24} \union dest \union Shl(src, 5)

\* 0x8b000000, 0xcb000000, 0x9b007c00, 0x9ac00c00
Emit_add_sr(dest, src0, src1) ==
  Emit_binop_helper({31, 27, 25, 24}, dest, src0, src1)
Emit_sub_sr(dest, src0, src1) ==
  Emit_binop_helper({31, 30, 27, 25, 24}, dest, src0, src1)
Emit_mul(dest, src0, src1) ==
  Emit_binop_helper({31, 28, 27, 25, 24, 14, 13, 12, 11, 10}, dest, src0, src1)
Emit_sdiv(dest, src0, src1) ==
  Emit_binop_helper({31, 28, 27, 25, 23, 22, 11, 10}, dest, src0, src1)

\* 0xaa0003e0, 0xd65f03c0, 0xd63f0000
Emit_orr_sr(dest, src) ==
  {31, 29, 27, 25, 9, 8, 7, 6, 5} \union Shl(src, 16) \union dest
Emit_ret == {31, 30, 28, 26, 25, 22, 20, 19, 18, 17, 16, 9, 8, 7, 6}
Emit_blr(addr) ==
  {31, 30, 28, 26, 25, 21, 20, 19, 18, 17, 16} \union Shl(addr, 5)

\* 0xa8000000, 0xa8400000
Emit_stp(daddr, doffset, src1, src2, mode) ==
  Emit_stp_ldp({31, 29, 27}, daddr, src1, src2, doffset, mode)
Emit_ldp(saddr, soffset, dest1, dest2, mode) ==
  Emit_stp_ldp({31, 29, 27, 22}, saddr, dest1, dest2, soffset, mode)

\* 0xf8400000, 0xf8000000
Emit_ldr_imm(saddr, soffset, dest, mode) ==
  Emit_ldr_str({31, 30, 29, 28, 27, 22}, saddr, dest, soffset, mode)
Emit_str_imm(daddr, doffset, src, mode) ==
  Emit_ldr_str({31, 30, 29, 28, 27}, daddr, src, doffset, mode)
=============================================================================
