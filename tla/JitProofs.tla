----------------------------- MODULE JitProofs -----------------------------
(***************************************************************************)
(* Proofs about the code simple-jit makes, for every program, every set of *)
(* names and every address of print_int: that its words are instructions,  *)
(* that running them does what the program means, and that calls arrive.   *)
(***************************************************************************)
EXTENDS JitProperties, JitReach, Iteration, SequenceTheorems, FiniteSetTheorems,
        NaturalsInduction, WellFoundedInduction, TLAPS

Reg5 == SUBSET (0 .. 4)        \* the bits of the number of a register
Half == SUBSET (0 .. 15)
Decodes(w, op) == w \subseteq 0 .. 31 /\ Op(w) = op /\ op \in Mnemonics

-----------------------------------------------------------------------------
(***************************************************************************)
(* Numbers and their bits.                                                 *)
(***************************************************************************)
LEMMA BitsInHalf == \A n : Bits(n) \in Half
  BY DEF Bits, Half

LEMMA RegisterBits ==
  ASSUME NEW n \in 0 .. 31
  PROVE  Bits(n) \in Reg5
<1> SUFFICES ASSUME NEW i \in 0 .. 15, (n \div Weight[i + 1]) % 2 = 1
             PROVE  i \in 0 .. 4
  BY DEF Bits, Reg5
<1>1. ASSUME i \in 5 .. 15
      PROVE  n \div Weight[i + 1] = 0
  <2>1. CASE i = 5
    BY <2>1 DEF Weight
  <2>2. CASE i = 6
    BY <2>2 DEF Weight
  <2>3. CASE i = 7
    BY <2>3 DEF Weight
  <2>4. CASE i = 8
    BY <2>4 DEF Weight
  <2>5. CASE i = 9
    BY <2>5 DEF Weight
  <2>6. CASE i = 10
    BY <2>6 DEF Weight
  <2>7. CASE i = 11
    BY <2>7 DEF Weight
  <2>8. CASE i = 12
    BY <2>8 DEF Weight
  <2>9. CASE i = 13
    BY <2>9 DEF Weight
  <2>10. CASE i = 14
    BY <2>10 DEF Weight
  <2>11. CASE i = 15
    BY <2>11 DEF Weight
  <2> QED
    BY <1>1, <2>1, <2>2, <2>3, <2>4, <2>5, <2>6, <2>7, <2>8, <2>9, <2>10, <2>11
<1> QED
  BY <1>1

\* The shifts of movk, in units of 16 bits.
LEMMA ShiftBits == Bits(1) \subseteq 0 .. 1 /\ Bits(2) \subseteq 0 .. 1 /\ Bits(3) \subseteq 0 .. 1
<1>1. ASSUME NEW n \in {1, 2, 3}
      PROVE  Bits(n) \subseteq 0 .. 1
  <2> SUFFICES ASSUME NEW i \in 2 .. 4
               PROVE  n \div Weight[i + 1] = 0
    BY RegisterBits DEF Bits, Reg5
  <2>1. CASE i = 2
    BY <2>1 DEF Weight
  <2>2. CASE i = 3
    BY <2>2 DEF Weight
  <2>3. CASE i = 4
    BY <2>3 DEF Weight
  <2> QED
    BY <2>1, <2>2, <2>3
<1> QED
  BY <1>1

LEMMA ShlRange ==
  ASSUME NEW lo \in Nat, NEW hi \in Nat, NEW S, S \subseteq lo .. hi, NEW k \in Nat
  PROVE  Shl(S, k) \subseteq lo + k .. hi + k /\ Shl(S, k) \subseteq 0 .. 31
  BY DEF Shl

-----------------------------------------------------------------------------
(***************************************************************************)
(* The emitters.                                                           *)
(***************************************************************************)
\* The bits that tell the instructions apart, and so no word is two instructions.
LEMMA Signatures ==
  ASSUME NEW w
  PROVE
  /\ Is(w, "movz") => 23 \in w /\ 24 \notin w /\ 25 \in w /\ 27 \notin w /\ 29 \notin w
           /\ 30 \in w
  /\ Is(w, "movn") => 23 \in w /\ 24 \notin w /\ 25 \in w /\ 27 \notin w /\ 29 \notin w
           /\ 30 \notin w
  /\ Is(w, "movk") => 23 \in w /\ 24 \notin w /\ 25 \in w /\ 27 \notin w /\ 29 \in w /\ 30 \in w
  /\ Is(w, "addi") => 22 \notin w /\ 23 \notin w /\ 24 \in w /\ 25 \notin w /\ 27 \notin w
           /\ 29 \notin w /\ 30 \notin w
  /\ Is(w, "add") => 10 \notin w /\ 22 \notin w /\ 23 \notin w /\ 24 \in w /\ 25 \in w
           /\ 27 \in w /\ 29 \notin w /\ 30 \notin w
  /\ Is(w, "sub") => 10 \notin w /\ 22 \notin w /\ 23 \notin w /\ 24 \in w /\ 25 \in w
           /\ 27 \in w /\ 29 \notin w /\ 30 \in w
  /\ Is(w, "mul") => 10 \in w /\ 22 \notin w /\ 23 \notin w /\ 24 \in w /\ 25 \in w
           /\ 27 \in w /\ 29 \notin w /\ 30 \notin w
  /\ Is(w, "sdiv") => 10 \in w /\ 22 \in w /\ 23 \in w /\ 24 \notin w /\ 25 \in w
           /\ 27 \in w /\ 29 \notin w /\ 30 \notin w
  /\ Is(w, "mov") => 10 \notin w /\ 22 \notin w /\ 23 \notin w /\ 24 \notin w /\ 25 \in w
           /\ 27 \in w /\ 29 \in w /\ 30 \notin w
  /\ Is(w, "ret") => 10 \notin w /\ 22 \in w /\ 23 \notin w /\ 24 \notin w /\ 25 \in w
           /\ 27 \notin w /\ 29 \notin w /\ 30 \in w
  /\ Is(w, "blr") => 10 \notin w /\ 22 \notin w /\ 23 \notin w /\ 24 \notin w /\ 25 \in w
           /\ 27 \notin w /\ 29 \notin w /\ 30 \in w
  /\ Is(w, "stp") => 22 \notin w /\ 25 \notin w /\ 27 \in w /\ 29 \in w /\ 30 \notin w
  /\ Is(w, "ldp") => 22 \in w /\ 25 \notin w /\ 27 \in w /\ 29 \in w /\ 30 \notin w
  /\ Is(w, "str") => 22 \notin w /\ 23 \notin w /\ 24 \in w /\ 25 \notin w /\ 27 \in w
           /\ 29 \in w /\ 30 \in w
  /\ Is(w, "ldr") => 22 \in w /\ 23 \notin w /\ 24 \in w /\ 25 \notin w /\ 27 \in w
           /\ 29 \in w /\ 30 \in w
  /\ Is(w, "stru") => 10 \in w /\ 22 \notin w /\ 23 \notin w /\ 24 \notin w /\ 25 \notin w
           /\ 27 \in w /\ 29 \in w /\ 30 \in w
  /\ Is(w, "ldru") => 10 \in w /\ 22 \in w /\ 23 \notin w /\ 24 \notin w /\ 25 \notin w
           /\ 27 \in w /\ 29 \in w /\ 30 \in w
<1>1. Is(w, "movz") => 23 \in w /\ 24 \notin w /\ 25 \in w /\ 27 \notin w /\ 29 \notin w
           /\ 30 \in w
  BY DEF Is, Fixed, Ones
<1>2. Is(w, "movn") => 23 \in w /\ 24 \notin w /\ 25 \in w /\ 27 \notin w /\ 29 \notin w
           /\ 30 \notin w
  BY DEF Is, Fixed, Ones
<1>3. Is(w, "movk") => 23 \in w /\ 24 \notin w /\ 25 \in w /\ 27 \notin w /\ 29 \in w
           /\ 30 \in w
  BY DEF Is, Fixed, Ones
<1>4. Is(w, "addi") => 22 \notin w /\ 23 \notin w /\ 24 \in w /\ 25 \notin w
           /\ 27 \notin w /\ 29 \notin w /\ 30 \notin w
  BY DEF Is, Fixed, Ones
<1>5. Is(w, "add") => 10 \notin w /\ 22 \notin w /\ 23 \notin w /\ 24 \in w /\ 25 \in w
           /\ 27 \in w /\ 29 \notin w /\ 30 \notin w
  BY DEF Is, Fixed, Ones
<1>6. Is(w, "sub") => 10 \notin w /\ 22 \notin w /\ 23 \notin w /\ 24 \in w /\ 25 \in w
           /\ 27 \in w /\ 29 \notin w /\ 30 \in w
  BY DEF Is, Fixed, Ones
<1>7. Is(w, "mul") => 10 \in w /\ 22 \notin w /\ 23 \notin w /\ 24 \in w /\ 25 \in w
           /\ 27 \in w /\ 29 \notin w /\ 30 \notin w
  BY DEF Is, Fixed, Ones
<1>8. Is(w, "sdiv") => 10 \in w /\ 22 \in w /\ 23 \in w /\ 24 \notin w /\ 25 \in w
           /\ 27 \in w /\ 29 \notin w /\ 30 \notin w
  BY DEF Is, Fixed, Ones
<1>9. Is(w, "mov") => 10 \notin w /\ 22 \notin w /\ 23 \notin w /\ 24 \notin w /\ 25 \in w
           /\ 27 \in w /\ 29 \in w /\ 30 \notin w
  BY DEF Is, Fixed, Ones
<1>10. Is(w, "ret") => 10 \notin w /\ 22 \in w /\ 23 \notin w /\ 24 \notin w /\ 25 \in w
           /\ 27 \notin w /\ 29 \notin w /\ 30 \in w
  BY DEF Is, Fixed, Ones
<1>11. Is(w, "blr") => 10 \notin w /\ 22 \notin w /\ 23 \notin w /\ 24 \notin w
           /\ 25 \in w /\ 27 \notin w /\ 29 \notin w /\ 30 \in w
  BY DEF Is, Fixed, Ones
<1>12. Is(w, "stp") => 22 \notin w /\ 25 \notin w /\ 27 \in w /\ 29 \in w /\ 30 \notin w
  BY DEF Is, Fixed, Ones
<1>13. Is(w, "ldp") => 22 \in w /\ 25 \notin w /\ 27 \in w /\ 29 \in w /\ 30 \notin w
  BY DEF Is, Fixed, Ones
<1>14. Is(w, "str") => 22 \notin w /\ 23 \notin w /\ 24 \in w /\ 25 \notin w /\ 27 \in w
           /\ 29 \in w /\ 30 \in w
  BY DEF Is, Fixed, Ones
<1>15. Is(w, "ldr") => 22 \in w /\ 23 \notin w /\ 24 \in w /\ 25 \notin w /\ 27 \in w
           /\ 29 \in w /\ 30 \in w
  BY DEF Is, Fixed, Ones
<1>16. Is(w, "stru") => 10 \in w /\ 22 \notin w /\ 23 \notin w /\ 24 \notin w
           /\ 25 \notin w /\ 27 \in w /\ 29 \in w /\ 30 \in w
  BY DEF Is, Fixed, Ones
<1>17. Is(w, "ldru") => 10 \in w /\ 22 \in w /\ 23 \notin w /\ 24 \notin w /\ 25 \notin w
           /\ 27 \in w /\ 29 \in w /\ 30 \in w
  BY DEF Is, Fixed, Ones
<1> QED
  BY <1>1, <1>2, <1>3, <1>4, <1>5, <1>6, <1>7, <1>8, <1>9, <1>10, <1>11, <1>12, <1>13, <1>14,
         <1>15, <1>16, <1>17

LEMMA MnemonicsAre ==
  Mnemonics = {"movz", "movn", "movk", "addi", "add", "sub", "mul", "sdiv", "mov", "ret",
               "blr", "stp", "ldp", "str", "ldr", "stru", "ldru"}
  BY DEF Mnemonics, Fixed

LEMMA Told ==
  ASSUME NEW w, NEW op \in Mnemonics, NEW o \in Mnemonics, Is(w, op), Is(w, o)
  PROVE  o = op
<1>1. CASE op = "movz"
  BY <1>1, Signatures, MnemonicsAre
<1>2. CASE op = "movn"
  BY <1>2, Signatures, MnemonicsAre
<1>3. CASE op = "movk"
  BY <1>3, Signatures, MnemonicsAre
<1>4. CASE op = "addi"
  BY <1>4, Signatures, MnemonicsAre
<1>5. CASE op = "add"
  BY <1>5, Signatures, MnemonicsAre
<1>6. CASE op = "sub"
  BY <1>6, Signatures, MnemonicsAre
<1>7. CASE op = "mul"
  BY <1>7, Signatures, MnemonicsAre
<1>8. CASE op = "sdiv"
  BY <1>8, Signatures, MnemonicsAre
<1>9. CASE op = "mov"
  BY <1>9, Signatures, MnemonicsAre
<1>10. CASE op = "ret"
  BY <1>10, Signatures, MnemonicsAre
<1>11. CASE op = "blr"
  BY <1>11, Signatures, MnemonicsAre
<1>12. CASE op = "stp"
  BY <1>12, Signatures, MnemonicsAre
<1>13. CASE op = "ldp"
  BY <1>13, Signatures, MnemonicsAre
<1>14. CASE op = "str"
  BY <1>14, Signatures, MnemonicsAre
<1>15. CASE op = "ldr"
  BY <1>15, Signatures, MnemonicsAre
<1>16. CASE op = "stru"
  BY <1>16, Signatures, MnemonicsAre
<1>17. CASE op = "ldru"
  BY <1>17, Signatures, MnemonicsAre
<1> QED
  BY MnemonicsAre, <1>1, <1>2, <1>3, <1>4, <1>5, <1>6, <1>7, <1>8, <1>9, <1>10, <1>11, <1>12,
         <1>13, <1>14, <1>15, <1>16, <1>17

LEMMA IsDecodes ==
  ASSUME NEW w, w \subseteq 0 .. 31, NEW op \in Mnemonics, Is(w, op)
  PROVE  Decodes(w, op)
<1> DEFINE ops == {o \in Mnemonics : Is(w, o)}
<1>1. op \in ops
  OBVIOUS
<1>2. Op(w) = CHOOSE o \in ops : TRUE
  BY <1>1 DEF Op
<1>3. Op(w) \in ops
  BY <1>1, <1>2
<1> QED
  BY <1>3, Told DEF Decodes

\* A word with the fixed bits of an instruction and others beside them.
Fits(op, operands) ==
  /\ op \in Mnemonics /\ Ones[op] \subseteq Fixed[op] /\ Fixed[op] \subseteq 0 .. 31
  /\ operands \subseteq (0 .. 31) \ Fixed[op]

LEMMA Composed ==
  ASSUME NEW op, NEW operands, Fits(op, operands)
  PROVE  Decodes(Ones[op] \union operands, op)
<1>1. /\ Ones[op] \union operands \subseteq 0 .. 31 /\ Is(Ones[op] \union operands, op)
      /\ op \in Mnemonics
  BY DEF Is, Fits
<1> QED
  BY <1>1, IsDecodes

LEMMA Unions ==
  ASSUME NEW S, NEW a \in SUBSET S, NEW b \in SUBSET S, NEW c \in SUBSET S
  PROVE  a \union b \union c \subseteq S
  OBVIOUS

LEMMA MovDecodes ==
  ASSUME NEW dest \in Reg5, NEW imm \in Half, NEW shift, shift \subseteq 0 .. 1
  PROVE  /\ Decodes(Emit_movz(dest, imm, shift), "movz")
         /\ Decodes(Emit_movn(dest, imm, shift), "movn")
         /\ Decodes(Emit_movk(dest, imm, shift), "movk")
<1>1. Not16(imm) \in Half
  BY DEF Not16, Uint16, Half
<1> DEFINE rest(im) == dest \union Shl(im, 5) \union Shl(shift, 21)
<1>2. ASSUME NEW im \in Half
      PROVE  rest(im) \subseteq 0 .. 22
  <2>1. Shl(im, 5) \subseteq 0 .. 22
    <3>1. Shl(im, 5) \subseteq 5 .. 20
      BY DEF Half, Shl
    <3> QED
      BY <3>1
  <2>2. Shl(shift, 21) \subseteq 0 .. 22
    BY DEF Shl
  <2>3. dest \subseteq 0 .. 22
    BY DEF Reg5
  <2> QED
    BY <2>1, <2>2, <2>3, Unions
<1>3. ASSUME NEW op \in {"movz", "movn", "movk"}, NEW low, low \subseteq 0 .. 22
      PROVE  Decodes(Ones[op] \union low, op)
  <2>1. op \in Mnemonics /\ Fixed[op] = 23 .. 31
    BY DEF Mnemonics, Fixed
  <2>2. Ones[op] \subseteq 23 .. 31
    <3>1. CASE op = "movz"
      BY <3>1 DEF Ones
    <3>2. CASE op = "movn"
      BY <3>2 DEF Ones
    <3>3. CASE op = "movk"
      BY <3>3 DEF Ones
    <3> QED
      BY <3>1, <3>2, <3>3
  <2>3. low \subseteq (0 .. 31) \ Fixed[op] /\ Fixed[op] \subseteq 0 .. 31
    BY <1>3, <2>1
  <2>4. Fits(op, low)
    BY <2>1, <2>2, <2>3 DEF Fits
  <2> QED
    BY <2>4, Composed
<1>4. /\ Ones["movz"] = {31, 30, 28, 25, 23} /\ Ones["movn"] = {31, 28, 25, 23}
      /\ Ones["movk"] = {31, 30, 29, 28, 25, 23}
  BY DEF Ones
<1>5. /\ Emit_movz(dest, imm, shift) = Ones["movz"] \union rest(imm)
      /\ Emit_movn(dest, imm, shift) = Ones["movn"] \union rest(Not16(imm))
      /\ Emit_movk(dest, imm, shift) = Ones["movk"] \union rest(imm)
  BY <1>4 DEF Emit_movz, Emit_movn, Emit_movk, Emit_mov_helper
<1> QED
  BY <1>1, <1>2, <1>3, <1>5

LEMMA BinopDecodes ==
  ASSUME NEW dest \in Reg5, NEW src0 \in Reg5, NEW src1 \in Reg5
  PROVE  /\ Decodes(Emit_add_sr(dest, src0, src1), "add")
         /\ Decodes(Emit_sub_sr(dest, src0, src1), "sub")
         /\ Decodes(Emit_mul(dest, src0, src1), "mul")
         /\ Decodes(Emit_sdiv(dest, src0, src1), "sdiv")
<1> DEFINE rest == dest \union Shl(src0, 5) \union Shl(src1, 16)
           Free == (0 .. 31) \ (21 .. 31 \union 10 .. 15)
<1>1. rest \subseteq Free
  <2>1. Shl(src0, 5) \subseteq Free
    BY DEF Reg5, Shl
  <2>2. Shl(src1, 16) \subseteq Free
    BY DEF Reg5, Shl
  <2>3. dest \subseteq Free
    BY DEF Reg5
  <2> QED
    BY <2>1, <2>2, <2>3, Unions
<1>2. ASSUME NEW op \in {"add", "sub", "mul", "sdiv"}
      PROVE  Decodes(Ones[op] \union rest, op)
  <2>1. op \in Mnemonics /\ Fixed[op] = 21 .. 31 \union 10 .. 15
    BY DEF Mnemonics, Fixed
  <2>2. Ones[op] \subseteq 21 .. 31 \union 10 .. 15
    <3>1. CASE op = "add"
      BY <3>1 DEF Ones
    <3>2. CASE op = "sub"
      BY <3>2 DEF Ones
    <3>3. CASE op = "mul"
      BY <3>3 DEF Ones
    <3>4. CASE op = "sdiv"
      BY <3>4 DEF Ones
    <3> QED
      BY <3>1, <3>2, <3>3, <3>4
  <2>3. rest \subseteq (0 .. 31) \ Fixed[op] /\ Fixed[op] \subseteq 0 .. 31
    BY <1>1, <2>1
  <2> HIDE DEF rest
  <2>4. Fits(op, rest)
    BY <2>1, <2>2, <2>3 DEF Fits
  <2> QED
    BY <2>4, Composed
<1>3. /\ Ones["add"] = {31, 27, 25, 24} /\ Ones["sub"] = {31, 30, 27, 25, 24}
      /\ Ones["sdiv"] = {31, 28, 27, 25, 23, 22, 11, 10}
      /\ Ones["mul"] = {31, 28, 27, 25, 24} \union 10 .. 14
  BY DEF Ones
<1>4. 10 .. 14 = {14, 13, 12, 11, 10}
  OBVIOUS
<1>5. /\ Emit_add_sr(dest, src0, src1) = Ones["add"] \union rest
      /\ Emit_sub_sr(dest, src0, src1) = Ones["sub"] \union rest
      /\ Emit_sdiv(dest, src0, src1) = Ones["sdiv"] \union rest
  BY <1>3 DEF Emit_add_sr, Emit_sub_sr, Emit_sdiv, Emit_binop_helper
<1>6. Emit_mul(dest, src0, src1) = Ones["mul"] \union rest
  BY <1>3, <1>4 DEF Emit_mul, Emit_binop_helper
<1> HIDE DEF rest
<1> QED
  BY <1>2, <1>5, <1>6

LEMMA MovRegisterDecodes ==
  ASSUME NEW dest \in Reg5, NEW src \in Reg5
  PROVE  Decodes(Emit_mov_sp(dest, src), "addi") /\ Decodes(Emit_orr_sr(dest, src), "mov")
<1>1. Decodes(Emit_mov_sp(dest, src), "addi")
  <2>1. "addi" \in Mnemonics /\ Fixed["addi"] = 22 .. 31 /\ Ones["addi"] = {31, 28, 24}
    BY DEF Mnemonics, Fixed, Ones
  <2>2. Shl(src, 5) \subseteq 5 .. 9
    BY DEF Reg5, Shl
  <2> DEFINE rest == dest \union Shl(src, 5)
  <2>3. rest \subseteq 0 .. 9
    <3>1. dest \subseteq 0 .. 9 /\ Shl(src, 5) \subseteq 0 .. 9
      BY <2>2 DEF Reg5
    <3> QED
      BY <3>1
  <2> HIDE DEF rest
  <2>4. /\ rest \subseteq (0 .. 31) \ Fixed["addi"]
        /\ Ones["addi"] \subseteq Fixed["addi"] /\ Fixed["addi"] \subseteq 0 .. 31
    BY <2>1, <2>3
  <2>7. Fits("addi", rest)
    BY <2>1, <2>4 DEF Fits
  <2>5. Emit_mov_sp(dest, src) = Ones["addi"] \union rest
    BY <2>1 DEF Emit_mov_sp, rest
  <2> QED
    BY <2>5, <2>7, Composed
<1>2. Decodes(Emit_orr_sr(dest, src), "mov")
  <2>1. /\ "mov" \in Mnemonics /\ Fixed["mov"] = 21 .. 31 \union 5 .. 15
        /\ Ones["mov"] = {31, 29, 27, 25} \union 5 .. 9
    BY DEF Mnemonics, Fixed, Ones
  <2>2. Shl(src, 16) \subseteq 16 .. 20
    BY DEF Reg5, Shl
  <2> DEFINE rest == Shl(src, 16) \union dest
  <2>3. rest \subseteq 0 .. 4 \union 16 .. 20
    BY <2>2 DEF Reg5
  <2> HIDE DEF rest
  <2>4. /\ rest \subseteq (0 .. 31) \ Fixed["mov"]
        /\ Ones["mov"] \subseteq Fixed["mov"] /\ Fixed["mov"] \subseteq 0 .. 31
    BY <2>1, <2>3
  <2>7. Fits("mov", rest)
    BY <2>1, <2>4 DEF Fits
  <2>6. 5 .. 9 = {9, 8, 7, 6, 5}
    OBVIOUS
  <2>5. Emit_orr_sr(dest, src) = Ones["mov"] \union rest
    BY <2>1, <2>6 DEF Emit_orr_sr, rest
  <2> QED
    BY <2>5, <2>7, Composed
<1> QED
  BY <1>1, <1>2

LEMMA BranchDecodes ==
  ASSUME NEW addr \in Reg5
  PROVE  Decodes(Emit_ret, "ret") /\ Decodes(Emit_blr(addr), "blr")
<1>1. /\ {"ret", "blr"} \subseteq Mnemonics /\ Fixed["ret"] = 10 .. 31 \union 0 .. 4
      /\ Fixed["blr"] = 10 .. 31 \union 0 .. 4
      /\ Ones["ret"] = {31, 30, 28, 26, 25, 22} \union 16 .. 20
      /\ Ones["blr"] = {31, 30, 28, 26, 25} \union 16 .. 21
  BY DEF Mnemonics, Fixed, Ones
<1>2. 16 .. 20 = {20, 19, 18, 17, 16} /\ 16 .. 21 = {21, 20, 19, 18, 17, 16}
  OBVIOUS
<1>3. /\ Emit_ret = Ones["ret"] \union {6, 7, 8, 9}
      /\ Emit_blr(addr) = Ones["blr"] \union Shl(addr, 5)
  BY <1>1, <1>2 DEF Emit_ret, Emit_blr
<1>4. /\ {6, 7, 8, 9} \subseteq (0 .. 31) \ Fixed["ret"]
      /\ Ones["ret"] \subseteq Fixed["ret"] /\ Fixed["ret"] \subseteq 0 .. 31
      /\ Ones["blr"] \subseteq Fixed["blr"] /\ Fixed["blr"] \subseteq 0 .. 31
  BY <1>1
<1>5. Shl(addr, 5) \subseteq (0 .. 31) \ Fixed["blr"]
  <2>1. Shl(addr, 5) \subseteq 5 .. 9
    BY DEF Reg5, Shl
  <2> QED
    BY <1>1, <2>1
<1>6. Fits("ret", {6, 7, 8, 9}) /\ Fits("blr", Shl(addr, 5))
  BY <1>1, <1>4, <1>5 DEF Fits
<1> QED
  BY <1>3, <1>6, Composed

LEMMA PairDecodes ==
  ASSUME NEW rn \in Reg5, NEW rt1 \in Reg5, NEW rt2 \in Reg5, NEW offset,
         NEW mode, mode \subseteq 0 .. 1
  PROVE  /\ Decodes(Emit_stp(rn, offset, rt1, rt2, mode), "stp")
         /\ Decodes(Emit_ldp(rn, offset, rt1, rt2, mode), "ldp")
<1> DEFINE Free == (0 .. 31) \ (25 .. 31 \union {22})
           imm == Shl(Shr(offset, 3) \intersect 0 .. 6, 15)
           rest == Shl(mode, 23) \union imm \union Shl(rn, 5) \union Shl(rt2, 10) \union rt1
<1>1. rest \subseteq Free
  <2>1. Shl(mode, 23) \subseteq Free
    BY DEF Shl
  <2>2. imm \subseteq Free
    <3>1. imm \subseteq 15 .. 21
      BY DEF Shl
    <3> QED
      BY <3>1
  <2>3. Shl(rn, 5) \subseteq Free
    BY DEF Shl, Reg5
  <2>4. Shl(rt2, 10) \subseteq Free
    BY DEF Shl, Reg5
  <2>5. rt1 \subseteq Free
    BY DEF Reg5
  <2> HIDE DEF imm, Free
  <2> QED
    BY <2>1, <2>2, <2>3, <2>4, <2>5
<1>2. /\ {"stp", "ldp"} \subseteq Mnemonics /\ Fixed["stp"] = 25 .. 31 \union {22}
      /\ Fixed["ldp"] = 25 .. 31 \union {22}
      /\ Ones["stp"] = {31, 29, 27} /\ Ones["ldp"] = {31, 29, 27, 22}
  BY DEF Mnemonics, Fixed, Ones
<1>3. /\ Emit_stp(rn, offset, rt1, rt2, mode) = Ones["stp"] \union rest
      /\ Emit_ldp(rn, offset, rt1, rt2, mode) = Ones["ldp"] \union rest
  BY <1>2 DEF Emit_stp, Emit_ldp, Emit_stp_ldp
<1> HIDE DEF rest
<1>4. /\ Ones["stp"] \subseteq Fixed["stp"] /\ Ones["ldp"] \subseteq Fixed["ldp"]
      /\ Fixed["stp"] \subseteq 0 .. 31 /\ Fixed["ldp"] \subseteq 0 .. 31
      /\ rest \subseteq (0 .. 31) \ Fixed["stp"] /\ rest \subseteq (0 .. 31) \ Fixed["ldp"]
  BY <1>1, <1>2
<1>5. Fits("stp", rest) /\ Fits("ldp", rest)
  BY <1>2, <1>4 DEF Fits
<1> QED
  BY <1>3, <1>5, Composed

\* The three forms of a load or store of one register.
LEMMA SingleDecodes ==
  ASSUME NEW rn \in Reg5, NEW rt \in Reg5, NEW imm,
         NEW mode \in {Ls_mode.post, Ls_mode.offset, Ls_mode.pre}
  PROVE  /\ Decodes(Emit_str_imm(rn, imm, rt, mode),
                    IF mode = Ls_mode.offset THEN "str" ELSE "stru")
         /\ Decodes(Emit_ldr_imm(rn, imm, rt, mode),
                    IF mode = Ls_mode.offset THEN "ldr" ELSE "ldru")
<1>1. /\ {"str", "ldr", "stru", "ldru"} \subseteq Mnemonics
      /\ Fixed["str"] = 22 .. 31 /\ Fixed["ldr"] = 22 .. 31
      /\ Fixed["stru"] = 21 .. 31 \union {10} /\ Fixed["ldru"] = 21 .. 31 \union {10}
      /\ Ones["str"] = {31, 30, 29, 28, 27, 24} /\ Ones["ldr"] = {31, 30, 29, 28, 27, 24, 22}
      /\ Ones["stru"] = {31, 30, 29, 28, 27, 10}
      /\ Ones["ldru"] = {31, 30, 29, 28, 27, 22, 10}
  BY DEF Mnemonics, Fixed, Ones
<1>2. /\ Ones["str"] \subseteq Fixed["str"] /\ Ones["ldr"] \subseteq Fixed["ldr"]
      /\ Ones["stru"] \subseteq Fixed["stru"] /\ Ones["ldru"] \subseteq Fixed["ldru"]
      /\ Fixed["str"] \subseteq 0 .. 31 /\ Fixed["ldr"] \subseteq 0 .. 31
      /\ Fixed["stru"] \subseteq 0 .. 31 /\ Fixed["ldru"] \subseteq 0 .. 31
  BY <1>1
<1>3. Ls_mode.offset = {1} /\ Ls_mode.post = {0} /\ Ls_mode.pre = {0, 1}
  BY DEF Ls_mode
<1>4. Shl(rn, 5) \subseteq 5 .. 9 /\ rt \subseteq 0 .. 4
  BY DEF Shl, Reg5
<1>5. CASE mode = {1}
  <2> DEFINE scaled == Shl(Shr(imm \intersect 0 .. 11, 3), 10)
             rest == rt \union Shl(rn, 5) \union scaled
  <2>1. scaled \subseteq 10 .. 18
    BY DEF Shl, Shr
  <2>2. rest \subseteq 0 .. 18
    <3>1. rt \subseteq 0 .. 18 /\ Shl(rn, 5) \subseteq 0 .. 18 /\ scaled \subseteq 0 .. 18
      BY <1>4, <2>1
    <3> HIDE DEF scaled
    <3> QED
      BY <3>1, Unions
  <2>3. Shl(mode, 23) = {24}
    BY <1>5 DEF Shl
  <2>4. /\ Emit_str_imm(rn, imm, rt, mode)
             = {31, 30, 29, 28, 27} \union rt \union Shl(rn, 5) \union ({24} \union scaled)
        /\ Emit_ldr_imm(rn, imm, rt, mode)
             = {31, 30, 29, 28, 27, 22} \union rt \union Shl(rn, 5) \union ({24} \union scaled)
    BY <1>3, <1>5, <2>3 DEF Emit_str_imm, Emit_ldr_imm, Emit_ldr_str
  <2> HIDE DEF scaled
  <2>5. /\ Emit_str_imm(rn, imm, rt, mode) = Ones["str"] \union rest
        /\ Emit_ldr_imm(rn, imm, rt, mode) = Ones["ldr"] \union rest
    BY <1>1, <2>4
  <2> HIDE DEF rest
  <2>6. /\ rest \subseteq (0 .. 31) \ Fixed["str"] /\ rest \subseteq (0 .. 31) \ Fixed["ldr"]
    BY <1>1, <2>2
  <2>7. Fits("str", rest) /\ Fits("ldr", rest)
    BY <1>1, <1>2, <2>6 DEF Fits
  <2> QED
    BY <1>3, <1>5, <2>5, <2>7, Composed
<1>6. CASE mode \in {{0}, {0, 1}}
  <2> DEFINE plain == Shl(imm \intersect 0 .. 8, 12)
             rest == rt \union Shl(rn, 5) \union (Shl(mode, 10) \ {10}) \union plain
             Free == (0 .. 31) \ (21 .. 31 \union {10})
  <2>1. plain \subseteq 12 .. 20
    BY DEF Shl
  <2>2. Shl(mode, 10) \subseteq {10, 11} /\ 10 \in Shl(mode, 10)
    BY <1>6 DEF Shl
  <2>3. rest \subseteq Free
    <3>1. plain \subseteq Free
      BY <2>1
    <3>2. Shl(mode, 10) \ {10} \subseteq Free
      BY <2>2
    <3>3. rt \subseteq Free /\ Shl(rn, 5) \subseteq Free
      BY <1>4
    <3> HIDE DEF plain, Free
    <3> QED
      BY <3>1, <3>2, <3>3
  <2>7. mode # {1}
    BY <1>6
  <2>4. /\ Emit_str_imm(rn, imm, rt, mode)
             = {31, 30, 29, 28, 27} \union rt \union Shl(rn, 5) \union (Shl(mode, 10) \union plain)
        /\ Emit_ldr_imm(rn, imm, rt, mode)
             = {31, 30, 29, 28, 27, 22} \union rt \union Shl(rn, 5)
               \union (Shl(mode, 10) \union plain)
    BY <1>3, <2>7 DEF Emit_str_imm, Emit_ldr_imm, Emit_ldr_str
  <2> HIDE DEF plain
  <2>8. Shl(mode, 10) = {10} \union (Shl(mode, 10) \ {10})
    BY <2>2
  <2>5. /\ Emit_str_imm(rn, imm, rt, mode) = Ones["stru"] \union rest
        /\ Emit_ldr_imm(rn, imm, rt, mode) = Ones["ldru"] \union rest
    BY <1>1, <2>4, <2>8
  <2> HIDE DEF rest
  <2>6. /\ rest \subseteq (0 .. 31) \ Fixed["stru"] /\ rest \subseteq (0 .. 31) \ Fixed["ldru"]
    BY <1>1, <2>3
  <2>9. Fits("stru", rest) /\ Fits("ldru", rest)
    BY <1>1, <1>2, <2>6 DEF Fits
  <2> QED
    BY <1>3, <2>5, <2>7, <2>9, Composed
<1> QED
  BY <1>3, <1>5, <1>6
-----------------------------------------------------------------------------
(***************************************************************************)
(* The translation of each instruction.                                    *)
(***************************************************************************)
Decoded == {w \in SUBSET (0 .. 31) : Op(w) # "udf"}

LEMMA DecodedIs == \A w, op : Decodes(w, op) => w \in Decoded
  BY MnemonicsAre DEF Decodes, Decoded

\* A set of numbers up to n has a member with any number of members before it.
LEMMA Ranked ==
  ASSUME NEW n \in Nat, NEW S, S \subseteq 1 .. n, NEW j \in 1 .. Cardinality(S)
  PROVE  \E k \in S : Cardinality({m \in S : m < k}) = j - 1
<1> DEFINE upto(x) == {m \in S : m < x}
           c(x) == Cardinality(upto(x))
           T == {x \in 1 .. n + 1 : c(x) >= j}
<1>0. \A m \in S : m \in Nat /\ 1 <= m /\ m <= n
  OBVIOUS
<1>1. IsFiniteSet(S) /\ Cardinality(S) \in Nat
  <2>1. IsFiniteSet(1 .. n)
    BY FS_Interval
  <2> QED
    BY <2>1, FS_Subset, FS_CardinalityType
<1>2. \A x : upto(x) \subseteq S /\ IsFiniteSet(upto(x)) /\ c(x) \in Nat
  <2>1. ASSUME NEW x
        PROVE  upto(x) \subseteq S /\ IsFiniteSet(upto(x)) /\ c(x) \in Nat
    <3>1. upto(x) \subseteq S
      OBVIOUS
    <3>2. IsFiniteSet(upto(x))
      BY <1>1, <3>1, FS_Subset
    <3> QED
      BY <3>1, <3>2, FS_CardinalityType
  <2> QED
    BY <2>1
<1>3. n + 1 \in T
  <2>1. upto(n + 1) = S
    <3>1. \A m \in S : m < n + 1
      BY <1>0
    <3> QED
      BY <3>1
  <2> QED
    BY <1>1, <2>1
<1>4. T \subseteq Nat /\ T # {}
  <2>1. T \subseteq 1 .. n + 1 /\ 1 .. n + 1 \subseteq Nat
    OBVIOUS
  <2> HIDE DEF T
  <2> QED
    BY <1>3, <2>1
<1> HIDE DEF T
<1>5. PICK x \in T : \A y \in T : ~ (<<y, x>> \in OpToRel(<, Nat))
  BY <1>4, NatLessThanWellFounded, WFMin
<1>6. \A y \in T : ~ (y < x)
  BY <1>4, <1>5 DEF OpToRel
<1> USE DEF T
<1>7. x \in 1 .. n + 1 /\ c(x) >= j
  OBVIOUS
<1>8. x # 1
  <2> SUFFICES ASSUME x = 1
               PROVE  FALSE
    OBVIOUS
  <2>1. upto(x) = {}
    <3>1. \A m \in S : ~ m < 1
      BY <1>0
    <3> QED
      BY <3>1
  <2>2. c(x) = 0
    BY <2>1, FS_EmptySet
  <2> QED
    BY <1>7, <2>2
<1> DEFINE k == x - 1
<1>9. k \in 1 .. n /\ k \in 1 .. n + 1 /\ k < x /\ k + 1 = x
  BY <1>7, <1>8
<1>10. c(k) < j
  BY <1>2, <1>6, <1>9
<1>11. k \in S
  <2> SUFFICES ASSUME k \notin S
               PROVE  FALSE
    OBVIOUS
  <2>1. \A m \in S : m < x <=> m < k
    <3>1. \A m \in S : m # k
      OBVIOUS
    <3> QED
      BY <1>0, <1>9, <3>1
  <2>2. upto(x) = upto(k)
    BY <2>1
  <2> QED
    BY <1>2, <1>7, <1>10, <2>2
<1>12. upto(x) = upto(k) \union {k} /\ k \notin upto(k)
  <2>1. \A m \in S : (m < x <=> m < k \/ m = k) /\ ~ k < k
    BY <1>0, <1>9
  <2> HIDE DEF k
  <2> QED
    BY <1>11, <2>1
<1> HIDE DEF upto
<1>13. Cardinality(upto(k) \union {k}) = Cardinality(upto(k)) + 1
  BY <1>2, <1>12, FS_AddElement
<1>14. c(k) = j - 1
  BY <1>2, <1>7, <1>10, <1>12, <1>13
<1> QED
  BY <1>11, <1>14 DEF upto

\* The registers print moves its arguments to are among x1 to x7.
LEMMA PosRange ==
  ASSUME NEW args \in Seq(Names), Len(args) <= 7
  PROVE  Pos(args) \in Seq(1 .. 7) /\ \A j \in DOMAIN Pos(args) : Pos(args)[j] \in 1 .. Len(args)
<1> DEFINE S == {k \in DOMAIN args : Index[args[k]] # k}
           pos == Pos(args)
<1>1. Len(args) \in Nat /\ DOMAIN args = 1 .. Len(args)
  BY LenProperties
<1>2. S \subseteq 1 .. Len(args)
  BY <1>1
<1>3. Cardinality(S) \in Nat
  <2>1. IsFiniteSet(1 .. Len(args))
    BY <1>1, FS_Interval
  <2> HIDE DEF S
  <2> QED
    BY <1>2, <2>1, FS_Subset, FS_CardinalityType
<1>4. pos = [j \in 1 .. Cardinality(S) |->
               CHOOSE k \in S : Cardinality({m \in S : m < k}) = j - 1]
  BY DEF Pos
<1> HIDE DEF S, pos
<1>5. ASSUME NEW j \in 1 .. Cardinality(S)
      PROVE  pos[j] \in S
  <2>1. \E k \in S : Cardinality({m \in S : m < k}) = j - 1
    BY <1>1, <1>2, Ranked
  <2> QED
    BY <1>4, <2>1
<1>6. pos \in [1 .. Cardinality(S) -> 1 .. 7] /\ DOMAIN pos = 1 .. Cardinality(S)
  <2>1. 1 .. Len(args) \subseteq 1 .. 7
    BY <1>1
  <2>2. \A j \in 1 .. Cardinality(S) : pos[j] \in 1 .. 7
    BY <1>2, <1>5, <2>1
  <2> QED
    BY <1>4, <2>2
<1>7. pos \in Seq(1 .. 7)
  BY <1>3, <1>6, SeqDef
<1> QED
  BY <1>2, <1>5, <1>6, <1>7 DEF pos

\* A word for every row of a sequence makes a sequence of words.
LEMMA Mapped ==
  ASSUME NEW n \in Nat, NEW f, f \in [1 .. n -> Decoded]
  PROVE  f \in Seq(Decoded)
  BY SeqDef

LEMMA Registers ==
  /\ SP \in Reg5 /\ {} \in Reg5
  /\ Bits(16) \in Reg5 /\ Bits(29) \in Reg5 /\ Bits(30) \in Reg5
  /\ \A n \in Names : InFile(n) => Get_register(n) \in Reg5
<1>1. SP \in Reg5 /\ {} \in Reg5
  BY DEF SP, Reg5
<1>2. ASSUME NEW n \in Names, InFile(n)
      PROVE  Get_register(n) \in Reg5
  <2>1. Index[n] \in 0 .. 31
    BY <1>2 DEF InFile, Reg_size
  <2> QED
    BY <2>1, RegisterBits DEF Get_register
<1>3. Bits(16) \in Reg5 /\ Bits(29) \in Reg5 /\ Bits(30) \in Reg5
  BY RegisterBits
<1> QED
  BY <1>1, <1>2, <1>3

LEMMA Modes ==
  /\ {Ls_mode.post, Ls_mode.offset, Ls_mode.pre} \subseteq SUBSET (0 .. 1)
  BY DEF Ls_mode

\* The stores of print's arguments, the loads into place and the loads back.
LEMMA SequencesDecode ==
  ASSUME NEW args \in Seq(Names), AllInFile(args), Len(args) <= 7
  PROVE  /\ Saved(args, Pos(args)) \in Seq(Decoded)
         /\ Moved(Pos(args)) \in Seq(Decoded)
         /\ Restored(args, Pos(args)) \in Seq(Decoded)
<1> DEFINE pos == Pos(args)
           rev == Reverse(pos)
           n == Len(pos)
<1>1. /\ pos \in Seq(1 .. 7) /\ n \in Nat /\ DOMAIN pos = 1 .. n
      /\ \A j \in 1 .. n : pos[j] \in DOMAIN args /\ pos[j] \in 0 .. 31
  <2>1. pos \in Seq(1 .. 7) /\ \A j \in DOMAIN pos : pos[j] \in 1 .. Len(args)
    BY PosRange
  <2>2. n \in Nat /\ DOMAIN pos = 1 .. n /\ DOMAIN args = 1 .. Len(args)
    BY <2>1, LenProperties
  <2>3. \A j \in 1 .. n : pos[j] \in 1 .. 7
    BY <2>1, ElementOfSeq
  <2> QED
    BY <2>1, <2>2, <2>3
<1>2. \A j \in 1 .. n : Bits(pos[j]) \in Reg5 /\ Get_register(args[pos[j]]) \in Reg5
  <2> SUFFICES ASSUME NEW j \in 1 .. n
               PROVE  Bits(pos[j]) \in Reg5 /\ Get_register(args[pos[j]]) \in Reg5
    OBVIOUS
  <2>1. pos[j] \in DOMAIN args /\ pos[j] \in 0 .. 31
    BY <1>1
  <2>2. args[pos[j]] \in Names /\ InFile(args[pos[j]])
    BY <2>1, ElementOfSeq, LenProperties DEF AllInFile
  <2> QED
    BY <2>1, <2>2, Registers, RegisterBits
<1> HIDE DEF pos
<1>3. \A j \in 1 .. n : rev[j] = pos[n - j + 1] /\ n - j + 1 \in 1 .. n
  BY <1>1 DEF Reverse
<1> HIDE DEF rev, n
<1>4. \A j \in 1 .. n : Bits(rev[j]) \in Reg5 /\ Get_register(args[rev[j]]) \in Reg5
  BY <1>2, <1>3
<1>5. ASSUME NEW r \in Reg5, NEW imm
      PROVE  /\ Emit_str_imm(SP, imm, r, Ls_mode.pre) \in Decoded
             /\ Emit_ldr_imm(SP, imm, r, Ls_mode.offset) \in Decoded
             /\ Emit_ldr_imm(SP, imm, r, Ls_mode.post) \in Decoded
  BY Registers, SingleDecodes, DecodedIs
<1>6. Saved(args, pos) \in Seq(Decoded)
  <2> DEFINE a == [j \in 1 .. n |-> Emit_str_imm(SP, Int32(-8), Bits(pos[j]), Ls_mode.pre)]
             b == [j \in 1 .. n |-> Emit_str_imm(SP, Int32(-8), Get_register(args[pos[j]]),
                                                 Ls_mode.pre)]
  <2>1. a \in [1 .. n -> Decoded] /\ b \in [1 .. n -> Decoded]
    BY <1>2, <1>5
  <2>2. Saved(args, pos) = a \o b
    BY <1>1 DEF Saved
  <2> HIDE DEF a, b
  <2>3. a \in Seq(Decoded) /\ b \in Seq(Decoded)
    BY <1>1, <2>1, Mapped
  <2> QED
    BY <2>2, <2>3, ConcatProperties
<1>7. Moved(pos) \in Seq(Decoded)
  <2> DEFINE a == [j \in 1 .. n |-> Emit_ldr_imm(SP, Int32(8 * (n - j)), Bits(pos[j]),
                                                 Ls_mode.offset)]
  <2>1. a \in [1 .. n -> Decoded]
    BY <1>2, <1>5
  <2>2. Moved(pos) = a
    BY <1>1 DEF Moved, n
  <2> HIDE DEF a
  <2> QED
    BY <1>1, <2>1, <2>2, Mapped
<1>8. Restored(args, pos) \in Seq(Decoded)
  <2> DEFINE a == [j \in 1 .. n |-> Emit_ldr_imm(SP, Int32(8), Get_register(args[rev[j]]),
                                                 Ls_mode.post)]
             b == [j \in 1 .. n |-> Emit_ldr_imm(SP, Int32(8), Bits(rev[j]), Ls_mode.post)]
  <2>1. a \in [1 .. n -> Decoded] /\ b \in [1 .. n -> Decoded]
    BY <1>4, <1>5
  <2>2. Restored(args, pos) = a \o b
    BY <1>1 DEF Restored, rev
  <2> HIDE DEF a, b
  <2>3. a \in Seq(Decoded) /\ b \in Seq(Decoded)
    BY <1>1, <2>1, Mapped
  <2> QED
    BY <2>2, <2>3, ConcatProperties
<1> QED
  BY <1>6, <1>7, <1>8 DEF pos

\* The call of print_int, wherever it is.
LEMMA CallDecodes ==
  ASSUME NEW count
  PROVE  Call(count) \in Seq(Decoded)
<1> DEFINE addr == Parts(PrintInt)
<1>1. \A k \in 0 .. 3 : addr[k] \in Half
  BY BitsInHalf DEF Parts
<1> HIDE DEF addr
<1>2. /\ Emit_movz({}, Bits(count), {}) \in Decoded
      /\ Emit_movz(Bits(16), addr[0], {}) \in Decoded
  BY <1>1, Registers, BitsInHalf, MovDecodes, DecodedIs
<1>3. /\ Emit_movk(Bits(16), addr[1], Bits(1)) \in Decoded
      /\ Emit_movk(Bits(16), addr[2], Bits(2)) \in Decoded
      /\ Emit_movk(Bits(16), addr[3], Bits(3)) \in Decoded
  BY <1>1, Registers, ShiftBits, MovDecodes, DecodedIs
<1>4. /\ Emit_stp(SP, Int32(-16), Bits(29), Bits(30), Ls_mode.pre) \in Decoded
      /\ Emit_ldp(SP, Int32(16), Bits(29), Bits(30), Ls_mode.post) \in Decoded
  BY Registers, Modes, PairDecodes, DecodedIs
<1>5. Emit_mov_sp(Bits(29), SP) \in Decoded /\ Emit_blr(Bits(16)) \in Decoded
  BY Registers, MovRegisterDecodes, BranchDecodes, DecodedIs
<1> QED
  BY <1>2, <1>3, <1>4, <1>5 DEF Call, addr

-----------------------------------------------------------------------------
(***************************************************************************)
(* The invariant and its theorem.                                          *)
(***************************************************************************)
IInv == <<prog, build>> \in Cases /\ code \in Seq(Decoded) /\ starts \in Seq(Nat)

LEMMA PushStep ==
  ASSUME IInv, NEW words \in Seq(Decoded), Push(words)
  PROVE  IInv'
<1>1. Len(code) \in Nat
  BY LenProperties DEF IInv
<1>2. code \o words \in Seq(Decoded) /\ Append(starts, Len(code)) \in Seq(Nat)
  BY <1>1, ConcatProperties, AppendProperties DEF IInv
<1> QED
  BY <1>2 DEF Push, IInv

LEMMA One == \A w \in Decoded : <<w>> \in Seq(Decoded)
  OBVIOUS

LEMMA InsTyped ==
  ASSUME IInv, Parsing
  PROVE  Ins \in Instr
<1>1. prog \in Seq(Instr) /\ Len(starts) \in Nat /\ Len(prog) \in Nat
  BY JitAssumption, LenProperties DEF IInv
<1>2. Len(starts) + 1 \in 1 .. Len(prog)
  BY <1>1 DEF Parsing
<1> QED
  BY <1>1, <1>2, ElementOfSeq DEF Ins

LEMMA ParseStep ==
  ASSUME IInv, Parse
  PROVE  IInv'
<1>1. /\ Parsing /\ Ins \in Instr /\ Ins.dest \in Names
      /\ Ins.args \in Seq(Names) \union {NoArgs}
  <2>1. Parsing
    BY DEF Parse, Parse_label, Parse_unsupported, Parse_const, Parse_binop, Parse_ret,
           Parse_print
  <2> QED
    BY <2>1, InsTyped DEF Instr
<1>2. ASSUME NEW how, Stop(how)
      PROVE  IInv'
  BY <1>2 DEF Stop, parser, IInv
<1>3. CASE Parse_const
  <2>1. CASE \E how : Stop(how)
    BY <1>2, <2>1
  <2>2. CASE ~ \E how : Stop(how)
    <3>1. InFile(Ins.dest) /\ Push(<<ConstWord(Get_register(Ins.dest), Ins.value)>>)
      BY <1>3, <2>2 DEF Parse_const
    <3>2. Get_register(Ins.dest) \in Reg5 /\ Parts(Ins.value)[0] \in Half
      BY <1>1, <3>1, Registers, BitsInHalf DEF Parts
    <3>3. ConstWord(Get_register(Ins.dest), Ins.value) \in Decoded
      BY <3>2, MovDecodes, DecodedIs DEF ConstWord
    <3> QED
      BY <3>1, <3>3, One, PushStep
  <2> QED
    BY <2>1, <2>2
<1>4. CASE Parse_binop
  <2>1. CASE \E how : Stop(how)
    BY <1>2, <2>1
  <2>2. CASE ~ \E how : Stop(how)
    <3> DEFINE d == Get_register(Ins.dest)  a == Get_register(Ins.args[1])
               b == Get_register(Ins.args[2])
    <3>1. /\ Ins.args # NoArgs /\ AllInFile(Srcs(Ins.args)) /\ ~ Len(Ins.args) < 2
          /\ InFile(Ins.dest) /\ Push(<<BinopWord(Ins.op, d, a, b)>>)
      BY <1>4, <2>2 DEF Parse_binop
    <3>2. Ins.args \in Seq(Names) /\ Len(Ins.args) \in Nat
      BY <1>1, <3>1, LenProperties
    <3>3. 1 \in 1 .. Len(Ins.args) /\ 2 \in 1 .. Len(Ins.args)
      BY <3>1, <3>2
    <3>4. Ins.args[1] \in Names /\ Ins.args[2] \in Names
      BY <3>2, <3>3, ElementOfSeq
    <3>5. InFile(Ins.args[1]) /\ InFile(Ins.args[2])
      <4> DEFINE s == Srcs(Ins.args)
      <4>1. s = SubSeq(Ins.args, 1, 2)
        BY <3>1 DEF Srcs
      <4>2. \A i \in 1 .. 2 : Ins.args[i] \in Names
        BY <3>4
      <4>3. /\ s \in Seq(Names) /\ Len(s) = IF 1 <= 2 THEN 2 - 1 + 1 ELSE 0
            /\ \A i \in 1 .. 2 - 1 + 1 : s[i] = Ins.args[1 + i - 1]
        BY <3>2, <4>1, <4>2, SubSeqProperties
      <4> HIDE DEF s
      <4>4. DOMAIN s = 1 .. 2 /\ s[1] = Ins.args[1] /\ s[2] = Ins.args[2]
        BY <4>3, LenProperties
      <4>5. InFile(s[1]) /\ InFile(s[2])
        BY <3>1, <4>4 DEF AllInFile, s
      <4> QED
        BY <4>4, <4>5
    <3>6. d \in Reg5 /\ a \in Reg5 /\ b \in Reg5
      BY <1>1, <3>1, <3>4, <3>5, Registers
    <3> HIDE DEF d, a, b
    <3>7. BinopWord(Ins.op, d, a, b) \in Decoded
      BY <3>6, BinopDecodes, DecodedIs DEF BinopWord
    <3> QED
      BY <3>1, <3>7, One, PushStep
  <2> QED
    BY <2>1, <2>2
<1>5. CASE Parse_ret
  <2>1. Emit_ret \in Decoded
    BY Registers, BranchDecodes, DecodedIs
  <2>2. CASE \E how : Stop(how)
    BY <1>2, <2>2
  <2>3. CASE Push(<<Emit_ret>>)
    BY <2>1, <2>3, One, PushStep
  <2>4. CASE ~ (\E how : Stop(how)) /\ ~ Push(<<Emit_ret>>)
    <3> DEFINE mov == Emit_orr_sr({}, Get_register(Ins.args[1]))
    <3>1. /\ Ins.args # NoArgs /\ Len(Ins.args) = 1 /\ InFile(Ins.args[1])
          /\ Push(<<mov, Emit_ret>>)
      BY <1>5, <2>4 DEF Parse_ret
    <3>2. Ins.args[1] \in Names
      BY <1>1, <3>1, ElementOfSeq
    <3>3. mov \in Decoded
      BY <3>1, <3>2, Registers, MovRegisterDecodes, DecodedIs
    <3> HIDE DEF mov
    <3>4. <<mov, Emit_ret>> \in Seq(Decoded)
      BY <2>1, <3>3
    <3> QED
      BY <3>1, <3>4, PushStep
  <2> QED
    BY <2>2, <2>3, <2>4
<1>6. CASE Parse_print
  <2>1. CASE \E how : Stop(how)
    BY <1>2, <2>1
  <2>2. CASE ~ \E how : Stop(how)
    <3> DEFINE pos == Pos(Ins.args)
               words == Saved(Ins.args, pos) \o Moved(pos) \o Call(Len(Ins.args))
                        \o Restored(Ins.args, pos)
    <3>1. /\ Ins.args # NoArgs /\ AllInFile(Ins.args) /\ ~ Len(Ins.args) > 7
          /\ Push(words)
      <4> HIDE DEF pos
      <4>1. /\ Ins.args # NoArgs /\ AllInFile(Ins.args) /\ ~ Len(Ins.args) > 7
            /\ \E p \in {Pos(Ins.args)} :
                 Push(Saved(Ins.args, p) \o Moved(p) \o Call(Len(Ins.args))
                      \o Restored(Ins.args, p))
        BY <1>6, <2>2 DEF Parse_print
      <4> QED
        BY <4>1 DEF pos
    <3>2. Ins.args \in Seq(Names) /\ Len(Ins.args) <= 7
      BY <1>1, <3>1, LenProperties
    <3>3. /\ Saved(Ins.args, pos) \in Seq(Decoded) /\ Moved(pos) \in Seq(Decoded)
          /\ Restored(Ins.args, pos) \in Seq(Decoded) /\ Call(Len(Ins.args)) \in Seq(Decoded)
      BY <3>1, <3>2, SequencesDecode, CallDecodes
    <3>4. words \in Seq(Decoded)
      BY <3>3, ConcatProperties
    <3> HIDE DEF words
    <3> QED
      BY <3>1, <3>4, PushStep
  <2> QED
    BY <2>1, <2>2
<1>7. CASE Parse_label \/ Parse_unsupported
  BY <1>2, <1>7 DEF Parse_label, Parse_unsupported
<1> QED
  BY <1>3, <1>4, <1>5, <1>6, <1>7 DEF Parse

LEMMA Invariant == Spec => []IInv
<1>1. Init => IInv
  <2>1. \A S, T : \A c \in S \X T : c = <<c[1], c[2]>>
    OBVIOUS
  <2>2. \A c \in Cases : c = <<c[1], c[2]>>
    BY <2>1, JitAssumption DEF JitAssumption
  <2> QED
    BY <2>2 DEF Init, IInv
<1>2. IInv /\ [Next]_vars => IInv'
  <2> SUFFICES ASSUME IInv, [Next]_vars
               PROVE  IInv'
    OBVIOUS
  <2>1. CASE UNCHANGED parser
    BY <2>1 DEF parser, IInv
  <2>2. CASE Jit_bril \/ Execute
    BY <2>1, <2>2 DEF Jit_bril, Execute, MovWide, DataProcessing, AddImmediate, LoadStore,
       LoadStoreFault, Blr, Ret, RunsOff, Advance, Stop, parser
  <2> QED
    BY <2>1, <2>2, ParseStep DEF Next, vars
<1> QED
  BY <1>1, <1>2, PTL DEF Spec

\* Every word that simple-jit emits is an instruction of the processor's manual,
\* for every program, every register of the file, every immediate and every
\* address of print_int: no field runs over into another.
THEOREM WordsDecode == Spec => []CodeDecodes
<1>1. IInv => CodeDecodes
  <2> SUFFICES ASSUME IInv, NEW w \in DOMAIN code
               PROVE  Op(code[w]) # "udf"
    BY DEF CodeDecodes
  <2>1. code[w] \in Decoded
    BY ElementOfSeq, LenProperties DEF IInv
  <2> QED
    BY <2>1 DEF Decoded
<1> QED
  BY <1>1, Invariant, PTL

-----------------------------------------------------------------------------
(***************************************************************************)
(* The call of a function far away.                                        *)
(***************************************************************************)
LEMMA DivMod ==
  ASSUME NEW n \in Int, NEW d \in Nat \ {0}
  PROVE  /\ n \div d \in Int /\ n % d \in 0 .. d - 1
         /\ n = d * (n \div d) + (n % d)
  OBVIOUS

LEMMA DivModUnique ==
  ASSUME NEW d \in Nat \ {0}, NEW q \in Int, NEW r \in 0 .. d - 1
  PROVE  (d * q + r) \div d = q /\ (d * q + r) % d = r
  OBVIOUS

\* A number within the range of a field is what the field's value is extended to.
LEMMA Extended ==
  ASSUME NEW range \in Nat \ {0}, range % 2 = 0, NEW n \in Int, Within(n, range)
  PROVE  n % range \in Nat /\ SignExtended(n % range, range) = n
<1> DEFINE half == range \div 2
<1>1. half \in Int /\ range = 2 * half
  OBVIOUS
<1>2. n \in -half .. half - 1
  BY DEF Within
<1> HIDE DEF half
<1>3. CASE n < 0
  <2>1. n + range \in 0 .. range - 1 /\ -1 \in Int /\ n = range * (-1) + (n + range)
    BY <1>1, <1>2, <1>3
  <2>2. n % range = n + range
    BY <2>1, DivModUnique
  <2>3. n + range >= half
    BY <1>1, <1>2
  <2> QED
    BY <1>1, <2>1, <2>2, <2>3 DEF SignExtended, half
<1>4. CASE n >= 0
  <2>1. n \in 0 .. range - 1 /\ n = range * 0 + n
    BY <1>1, <1>2, <1>4
  <2>2. n % range = n
    BY <2>1, DivModUnique
  <2>3. ~ n >= half
    BY <1>1, <1>2
  <2> QED
    BY <1>1, <2>1, <2>2, <2>3 DEF SignExtended, half
<1> QED
  BY <1>2, <1>3, <1>4

\* What each instruction does.
LEMMA Effects ==
  ASSUME NEW s, NEW w
  PROVE  /\ w.op = "adrp" => Executed(s, w).x2 = PageOf(s.pc) + PageSize
                                * SignExtended(w.immhi * 4 + w.immlo, PageRange)
         /\ w.op = "add" => Executed(s, w).x2 = s.x2 + w.imm
         /\ w.op = "movz" => Executed(s, w).x2 = w.imm
         /\ w.op = "movk" => Executed(s, w).x2 = s.x2 + w.imm * MovWeight[w.part]
         /\ w.op = "blr" => Executed(s, w).pc = s.x2
  BY Zenon DEF Executed

LEMMA Runs ==
  ASSUME NEW s, NEW words, Len(words) \in 0 .. 5
  PROVE  LET r == Running(s, words) IN
         r[0] = s /\ \A n \in 1 .. Len(words) : r[n] = Executed(r[n - 1], words[n])
<1>0. \A n \in 0 .. Len(words) : n \in 0 .. 5
  <2>1. \A m \in 0 .. 5 : \A n \in 0 .. m : n \in 0 .. 5
    OBVIOUS
  <2> QED
    BY <2>1, Zenon
<1> DEFINE N == Len(words)
           g1 == Executed(s, words[1])
           g2 == Executed(g1, words[2])
           g3 == Executed(g2, words[3])
           g4 == Executed(g3, words[4])
           g5 == Executed(g4, words[5])
           body(n) == IF n = 0 THEN s ELSE IF n = 1 THEN g1 ELSE IF n = 2 THEN g2
                      ELSE IF n = 3 THEN g3 ELSE IF n = 4 THEN g4 ELSE g5
           g == [n \in 0 .. N |-> body(n)]
           next(f, n) == IF n = 0 THEN s ELSE Executed(f[n - 1], words[n])
           Turn(f) == [n \in 0 .. N |-> next(f, n)]
<1>1. g = Turn(g)
  <2>1. ASSUME NEW n \in 0 .. N
        PROVE  body(n) = next(g, n)
    <3>1. n \in 0 .. 5
      BY <1>0
    <3>2. CASE n = 0
      BY <3>2
    <3>3. CASE n = 1
      BY <3>3
    <3>4. CASE n = 2
      <4>1. 1 \in 0 .. N
        BY <3>4
      <4> QED
        BY <3>4, <4>1
    <3>5. CASE n = 3
      <4>1. 2 \in 0 .. N
        BY <3>5
      <4> QED
        BY <3>5, <4>1
    <3>6. CASE n = 4
      <4>1. 3 \in 0 .. N
        BY <3>6
      <4> QED
        BY <3>6, <4>1
    <3>7. CASE n = 5
      <4>1. 4 \in 0 .. N
        BY <3>7
      <4> QED
        BY <3>7, <4>1
    <3> QED
      BY <3>1, <3>2, <3>3, <3>4, <3>5, <3>6, <3>7
  <2> HIDE DEF body, next
  <2> QED
    BY <2>1
<1> DEFINE r == CHOOSE f : f = Turn(f)
<1>2. r = Turn(r)
  <2> HIDE DEF g, Turn
  <2> QED
    BY <1>1
<1>3. Running(s, words) = r
  BY DEF Running
<1> HIDE DEF r
<1>4. r[0] = s /\ \A n \in 1 .. N : r[n] = Executed(r[n - 1], words[n])
  <2>1. \A n \in 0 .. N : Turn(r)[n] = IF n = 0 THEN s ELSE Executed(r[n - 1], words[n])
    OBVIOUS
  <2> HIDE DEF Turn
  <2>2. \A n \in 0 .. N : r[n] = IF n = 0 THEN s ELSE Executed(r[n - 1], words[n])
    BY <1>2, <2>1
  <2>3. 0 \in 0 .. N /\ \A n \in 1 .. N : n \in 0 .. N /\ n # 0
    OBVIOUS
  <2> QED
    BY <2>2, <2>3
<1> QED
  BY <1>3, <1>4

\* The state that the call leaves is f's address in each of the three forms.
LEMMA BlArrives ==
  ASSUME NEW m \in Nat, m % 4 = 0, NEW f \in Nat, f % 4 = 0,
         Within(Off(m, f), BranchRange), NEW x \in Int
  PROVE  Executed([pc |-> CallPc(m), x2 |-> x], Bl(m, f)[1]).pc = f
<1> DEFINE q == Off(m, f) \div 4
<1>1. BranchRange \in Nat \ {0} /\ BranchRange % 2 = 0
  BY ReachAssumption
<1>2. q \in Int /\ Off(m, f) = 4 * q /\ CallPc(m) \in Nat /\ CallPc(m) + 4 * q = f
  <2>1. f = 4 * (f \div 4) /\ m = 4 * (m \div 4) /\ f \div 4 \in Int /\ m \div 4 \in Int
    OBVIOUS
  <2> QED
    BY <2>1 DEF Off, CallPc
<1>3. Within(q, BranchRange)
  <2>1. BranchRange \div 2 \in Nat /\ BranchRange \div 2 >= 1
    BY <1>1
  <2> HIDE DEF q
  <2> QED
    BY <1>2, <2>1 DEF Within
<1> DEFINE w == Bl(m, f)[1]
<1>4. w.op = "bl" /\ w.imm = q % BranchRange
  BY DEF Bl
<1> HIDE DEF q, w
<1>5. SignExtended(w.imm, BranchRange) = q
  BY <1>1, <1>2, <1>3, <1>4, Extended
<1>6. Executed([pc |-> CallPc(m), x2 |-> x], w).pc = CallPc(m) + 4 * q
  BY <1>4, <1>5 DEF Executed
<1> QED
  BY <1>2, <1>6 DEF w

\* The distance of two pages is a number of pages.
LEMMA PagesApart ==
  ASSUME NEW a \in Int, NEW b \in Int
  PROVE  /\ PageOf(a) \in Int /\ (PageOf(a) - PageOf(b)) \div PageSize \in Int
         /\ PageOf(b) + PageSize * ((PageOf(a) - PageOf(b)) \div PageSize) = PageOf(a)
         /\ PageOf(a) + (a % PageSize) = a
<1> DEFINE d == PageSize
           p == a \div d
           q == b \div d
<1>1. d \in Nat \ {0}
  BY ReachAssumption
<1>2. /\ p \in Int /\ q \in Int /\ a % d \in Int /\ b % d \in Int
      /\ a = d * p + (a % d) /\ b = d * q + (b % d)
  BY <1>1, DivMod
<1> HIDE DEF d, p, q
<1>3. PageOf(a) = d * p /\ PageOf(b) = d * q /\ d * p \in Int /\ d * q \in Int
  <2>1. d * p \in Int /\ d * q \in Int
    BY <1>1, <1>2
  <2>2. \A u, v, n \in Int : n = u + v => n - v = u
    OBVIOUS
  <2> QED
    BY <1>2, <2>1, <2>2 DEF PageOf, d
<1>4. p - q \in Int /\ PageOf(a) - PageOf(b) = d * (p - q) + 0 /\ 0 \in 0 .. d - 1
  BY <1>1, <1>2, <1>3
<1>5. (PageOf(a) - PageOf(b)) \div d = p - q
  BY <1>1, <1>4, DivModUnique
<1>6. PageOf(b) + d * (p - q) = PageOf(a)
  BY <1>1, <1>2, <1>3
<1>7. PageOf(a) + (a % d) = a
  BY <1>2, <1>3
<1> QED
  BY <1>2, <1>3, <1>4, <1>5, <1>6, <1>7 DEF d

LEMMA AdrpArrives ==
  ASSUME NEW m \in Nat, NEW f \in Nat, Within(Pages(m, f), PageRange), NEW x \in Int
  PROVE  LET words == AdrpAddBlr(m, f)
             s == Running([pc |-> CallPc(m), x2 |-> x], words)
         IN Len(words) = 3 /\ s[3].pc = f
<1> DEFINE words == AdrpAddBlr(m, f)
           P == Pages(m, f)
           count == P % PageRange
           c == CallPc(m)
           s == Running([pc |-> c, x2 |-> x], words)
<1>1. PageRange \in Nat \ {0} /\ PageRange % 2 = 0
  BY ReachAssumption
<1>2. c \in Int
  BY DEF CallPc
<1>3. P \in Int /\ PageOf(c) + PageSize * P = PageOf(f) /\ PageOf(f) + (f % PageSize) = f
  BY <1>2, PagesApart DEF Pages
<1>4. /\ Len(words) = 3
      /\ words[1] = [op |-> "adrp", immlo |-> count % 4, immhi |-> count \div 4]
      /\ words[2] = [op |-> "add", imm |-> f % PageSize] /\ words[3] = [op |-> "blr"]
  BY DEF AdrpAddBlr
<1> HIDE DEF P, words
<1>5. count \in Nat /\ SignExtended(count, PageRange) = P
  BY <1>1, <1>3, Extended DEF P
<1>6. (count \div 4) * 4 + (count % 4) = count
  BY <1>5
<1> HIDE DEF c, count
<1>7. /\ s[0] = [pc |-> c, x2 |-> x] /\ s[1] = Executed(s[0], words[1])
      /\ s[2] = Executed(s[1], words[2]) /\ s[3] = Executed(s[2], words[3])
  <2>1. Len(words) \in 0 .. 5
    BY <1>4
  <2>2. \A n \in 1 .. Len(words) : s[n] = Executed(s[n - 1], words[n])
    BY <2>1, Runs
  <2>3. s[1] = Executed(s[1 - 1], words[1]) /\ s[2] = Executed(s[2 - 1], words[2])
        /\ s[3] = Executed(s[3 - 1], words[3])
    BY <1>4, <2>2
  <2>4. s[0] = [pc |-> c, x2 |-> x]
    BY <2>1, Runs
  <2> QED
    BY <2>3, <2>4
<1> HIDE DEF s
<1>8. s[1].x2 = PageOf(c) + PageSize * P
  <2>1. /\ words[1].op = "adrp" /\ words[1].immhi * 4 + words[1].immlo = count
        /\ s[0].pc = c
    BY <1>4, <1>6, <1>7
  <2> QED
    BY <1>5, <1>7, <2>1, Effects
<1>9. s[2].x2 = s[1].x2 + (f % PageSize)
  <2>1. words[2].op = "add" /\ words[2].imm = f % PageSize
    BY <1>4
  <2> QED
    BY <1>7, <2>1, Effects
<1>10. s[3].pc = s[2].x2
  <2>1. words[3].op = "blr"
    BY <1>4
  <2> QED
    BY <1>7, <2>1, Effects
<1> QED
  BY <1>3, <1>4, <1>8, <1>9, <1>10 DEF s, c, words

\* The four parts of an address make it up.
LEMMA FourParts ==
  ASSUME NEW f \in Nat, f < MovWeight[4] * MovRange
  PROVE  LET part(k) == (f \div MovWeight[k]) % MovRange IN
         /\ \A k \in 1 .. 4 : part(k) \in Nat /\ MovWeight[k] \in Nat
         /\ part(1) + part(2) * MovWeight[2] + part(3) * MovWeight[3]
              + part(4) * MovWeight[4] = f
<1> DEFINE d == MovRange
           q1 == f \div d       r0 == f % d
           q2 == q1 \div d      r1 == q1 % d
           q3 == q2 \div d      r2 == q2 % d
<1>1. d \in Nat \ {0} /\ d * d \in Nat \ {0} /\ d * d * d \in Nat \ {0}
  BY ReachAssumption
<1>2. MovWeight[1] = 1 /\ MovWeight[2] = d /\ MovWeight[3] = d * d /\ MovWeight[4] = d * d * d
  BY DEF MovWeight
<1>3. q1 \in Int /\ r0 \in 0 .. d - 1 /\ f = d * q1 + r0
  <2>1. f \in Int
    OBVIOUS
  <2> QED
    BY <1>1, <2>1, DivMod, Zenon
<1>4. q2 \in Int /\ r1 \in 0 .. d - 1 /\ q1 = d * q2 + r1
  BY <1>1, <1>3, DivMod
<1>5. q3 \in Int /\ r2 \in 0 .. d - 1 /\ q2 = d * q3 + r2
  BY <1>1, <1>4, DivMod
<1> HIDE DEF d, q1, r0, q2, r1, q3, r2
<1>6. ASSUME NEW a \in Nat \ {0}, NEW b \in Nat \ {0}, NEW q \in Int,
             NEW r \in 0 .. b - 1, NEW t \in 0 .. a - 1
      PROVE  a * r + t \in 0 .. (a * b) - 1 /\ a * (b * q + r) + t = (a * b) * q + (a * r + t)
  <2>1. r + 1 <= b /\ a * (r + 1) <= a * b
    OBVIOUS
  <2>2. a * (r + 1) = a * r + a /\ a * r \in Nat /\ a * b \in Nat
    OBVIOUS
  <2>3. a * r + t < a * r + a
    OBVIOUS
  <2>4. a * r + t \in 0 .. (a * b) - 1
    BY <2>1, <2>2, <2>3
  <2>5. a * (b * q + r) = (a * b) * q + a * r
    OBVIOUS
  <2>6. a * (b * q + r) \in Int /\ (a * b) * q \in Int /\ a * r \in Int /\ t \in Int
    OBVIOUS
  <2> QED
    BY <2>4, <2>5, <2>6
<1>7. d * r1 + r0 \in 0 .. (d * d) - 1 /\ f = (d * d) * q2 + (d * r1 + r0)
  BY <1>1, <1>3, <1>4, <1>6
<1>8. f \div (d * d) = q2
  BY <1>1, <1>4, <1>7, DivModUnique
<1>9. /\ (d * d) * r2 + (d * r1 + r0) \in 0 .. (d * d * d) - 1
      /\ f = (d * d * d) * q3 + ((d * d) * r2 + (d * r1 + r0))
  BY <1>1, <1>5, <1>6, <1>7
<1>10. f \div (d * d * d) = q3
  BY <1>1, <1>5, <1>9, DivModUnique
<1>11. q3 \in 0 .. d - 1
  <2> DEFINE D == d * d * d
             R == (d * d) * r2 + (d * r1 + r0)
  <2>1. D \in Nat \ {0} /\ R \in 0 .. D - 1 /\ f = D * q3 + R /\ f < D * d
    BY <1>1, <1>2, <1>9 DEF d
  <2> HIDE DEF D, R
  <2>2. q3 >= 0
    <3> SUFFICES ASSUME q3 <= -1
                 PROVE  FALSE
      BY <1>5
    <3>1. D * q3 <= D * (-1)
      BY <1>5, <2>1
    <3>2. D * q3 \in Int /\ D * (-1) = -D
      BY <1>5, <2>1
    <3> QED
      BY <2>1, <3>1, <3>2
  <2>3. q3 < d
    <3> SUFFICES ASSUME q3 >= d
                 PROVE  FALSE
      BY <1>1, <1>5
    <3>1. D * q3 >= D * d
      BY <1>1, <1>5, <2>1
    <3>2. D * q3 \in Int /\ D * d \in Int
      BY <1>1, <1>5, <2>1
    <3> QED
      BY <2>1, <3>1, <3>2
  <2> QED
    BY <1>5, <2>2, <2>3, <1>1
<1>12. q3 % d = q3
  <2>1. q3 = d * 0 + q3 /\ 0 \in Int
    BY <1>1, <1>5
  <2> QED
    BY <1>1, <1>11, <2>1, DivModUnique
<1>13. /\ (f \div 1) % d = r0 /\ (f \div d) % d = r1 /\ (f \div (d * d)) % d = r2
       /\ (f \div (d * d * d)) % d = q3
  <2>1. f \div 1 = f
    OBVIOUS
  <2> QED
    BY <1>8, <1>10, <1>12, <2>1 DEF r0, r1, r2, q1, q2, q3
<1>14. r0 + r1 * d + r2 * (d * d) + q3 * (d * d * d) = f
  <2>1. /\ r1 * d = d * r1 /\ r2 * (d * d) = (d * d) * r2
        /\ q3 * (d * d * d) = (d * d * d) * q3
    BY <1>1, <1>4, <1>5
  <2>2. /\ d * r1 \in Int /\ (d * d) * r2 \in Int /\ (d * d * d) * q3 \in Int /\ r0 \in Int
    BY <1>1, <1>3, <1>4, <1>5
  <2> QED
    BY <1>9, <2>1, <2>2
<1>15. r0 \in Nat /\ r1 \in Nat /\ r2 \in Nat /\ q3 \in Nat /\ 1 \in Nat /\ d \in Nat
  BY <1>1, <1>3, <1>4, <1>5, <1>11
<1> DEFINE part(k) == (f \div MovWeight[k]) % MovRange
<1>16. part(1) = r0 /\ part(2) = r1 /\ part(3) = r2 /\ part(4) = q3
  BY <1>2, <1>13 DEF d
<1> HIDE DEF part
<1>17. \A k \in 1 .. 4 : part(k) \in Nat /\ MovWeight[k] \in Nat
  <2>1. \A k \in 1 .. 4 : k = 1 \/ k = 2 \/ k = 3 \/ k = 4
    OBVIOUS
  <2> QED
    BY <1>1, <1>2, <1>15, <1>16, <2>1
<1>18. part(1) + part(2) * MovWeight[2] + part(3) * MovWeight[3] + part(4) * MovWeight[4] = f
  BY <1>2, <1>14, <1>16
<1> QED
  BY <1>17, <1>18 DEF part

LEMMA MovsArrive ==
  ASSUME NEW m \in Nat, NEW f \in Nat, f < MovWeight[4] * MovRange, NEW x \in Int
  PROVE  LET words == MovsBlr(f)
             s == Running([pc |-> CallPc(m), x2 |-> x], words)
         IN Len(words) = 5 /\ s[5].pc = f
<1> DEFINE words == MovsBlr(f)
           part(k) == (f \div MovWeight[k]) % MovRange
           s == Running([pc |-> CallPc(m), x2 |-> x], words)
           movs == [k \in 1 .. 4 |-> [op |-> IF k = 1 THEN "movz" ELSE "movk", part |-> k,
                                      imm |-> part(k)]]
<1>1. /\ \A k \in 1 .. 4 : part(k) \in Nat /\ MovWeight[k] \in Nat
      /\ part(1) + part(2) * MovWeight[2] + part(3) * MovWeight[3]
           + part(4) * MovWeight[4] = f
  BY FourParts
<1>2. words = movs \o <<[op |-> "blr"]>>
  BY DEF MovsBlr
<1> HIDE DEF part
<1>3. Len(movs) = 4 /\ Len(words) = 5
  BY <1>2
<1>4. words[1] = movs[1] /\ words[2] = movs[2] /\ words[3] = movs[3] /\ words[4] = movs[4]
      /\ words[5] = [op |-> "blr"]
  BY <1>2
<1> HIDE DEF words
<1>5. /\ words[1].op = "movz" /\ words[1].imm = part(1)
      /\ words[2].op = "movk" /\ words[2].imm = part(2) /\ words[2].part = 2
      /\ words[3].op = "movk" /\ words[3].imm = part(3) /\ words[3].part = 3
      /\ words[4].op = "movk" /\ words[4].imm = part(4) /\ words[4].part = 4
      /\ words[5].op = "blr"
  BY <1>4
<1> HIDE DEF movs
<1>6. /\ s[1] = Executed(s[0], words[1]) /\ s[2] = Executed(s[1], words[2])
      /\ s[3] = Executed(s[2], words[3]) /\ s[4] = Executed(s[3], words[4])
      /\ s[5] = Executed(s[4], words[5])
  <2>1. Len(words) \in 0 .. 5
    BY <1>3
  <2>2. \A n \in 1 .. Len(words) : s[n] = Executed(s[n - 1], words[n])
    BY <2>1, Runs
  <2>3. /\ s[1] = Executed(s[1 - 1], words[1]) /\ s[2] = Executed(s[2 - 1], words[2])
        /\ s[3] = Executed(s[3 - 1], words[3]) /\ s[4] = Executed(s[4 - 1], words[4])
        /\ s[5] = Executed(s[5 - 1], words[5])
    BY <1>3, <2>2
  <2> QED
    BY <2>3
<1> HIDE DEF s
<1>7. s[1].x2 = part(1)
  BY <1>5, <1>6, Effects
<1>8. s[2].x2 = s[1].x2 + part(2) * MovWeight[2]
  BY <1>5, <1>6, Effects
<1>9. s[3].x2 = s[2].x2 + part(3) * MovWeight[3]
  BY <1>5, <1>6, Effects
<1>10. s[4].x2 = s[3].x2 + part(4) * MovWeight[4]
  BY <1>5, <1>6, Effects
<1>11. s[5].pc = s[4].x2
  BY <1>5, <1>6, Effects
<1>12. s[5].pc = f
  BY <1>1, <1>7, <1>8, <1>9, <1>10, <1>11
<1> QED
  BY <1>3, <1>12 DEF s, words

\* Wherever code is mapped and simple_add is: each form of the call arrives there, its
\* address being in the reach that the field allows, up to the last value on either side.
THEOREM CallArrives == Spec => []CallReaches
<1>1. IInv => CallReaches
  <2> SUFFICES ASSUME IInv, NEW f \in Functions
               PROVE  LET m == build.mapping
                          words == CallWords(m, f)
                      IN Running([pc |-> CallPc(m), x2 |-> 0], words)[Len(words)].pc = f
    BY DEF CallReaches
  <2> DEFINE m == build.mapping
             s0 == [pc |-> CallPc(m), x2 |-> 0]
             words == CallWords(m, f)
  <2> SUFFICES Running(s0, words)[Len(words)].pc = f
    OBVIOUS
  <2>1. f \in Nat /\ f % 4 = 0 /\ f < MovWeight[4] * MovRange
    BY ReachAssumption
  <2>2. m \in Nat /\ m % 4 = 0
    <3>1. <<prog, build>> \in Seq(Instr) \X Build
      BY JitAssumption DEF IInv
    <3>2. m \in Nat
      BY <3>1 DEF Build
    <3>3. <<prog, build>>[2].mapping % 4 = 0
      BY ReachAssumption DEF IInv
    <3> QED
      BY <3>2, <3>3
  <2> HIDE DEF m
  <2>3. CASE Within(Off(m, f), BranchRange)
    <3>1. words = Bl(m, f)
      BY <2>3 DEF CallWords
    <3>2. Len(Bl(m, f)) = 1
      BY DEF Bl
    <3> DEFINE s == Running(s0, Bl(m, f))
    <3>3. s[0] = s0 /\ s[1] = Executed(s[0], Bl(m, f)[1])
      <4>1. Len(Bl(m, f)) \in 0 .. 5
        BY <3>2
      <4>2. s[0] = s0 /\ \A n \in 1 .. Len(Bl(m, f)) : s[n] = Executed(s[n - 1], Bl(m, f)[n])
        BY <4>1, Runs
      <4>3. s[1] = Executed(s[1 - 1], Bl(m, f)[1])
        BY <3>2, <4>2
      <4> QED
        BY <4>2, <4>3
    <3>4. Executed(s0, Bl(m, f)[1]).pc = f
      BY <2>1, <2>2, <2>3, BlArrives
    <3> QED
      BY <3>1, <3>2, <3>3, <3>4
  <2>4. CASE ~ Within(Off(m, f), BranchRange) /\ Within(Pages(m, f), PageRange)
    <3>1. words = AdrpAddBlr(m, f)
      BY <2>4 DEF CallWords
    <3>2. Len(AdrpAddBlr(m, f)) = 3 /\ Running(s0, AdrpAddBlr(m, f))[3].pc = f
      BY <2>1, <2>2, <2>4, AdrpArrives
    <3> QED
      BY <3>1, <3>2
  <2>5. CASE ~ Within(Off(m, f), BranchRange) /\ ~ Within(Pages(m, f), PageRange)
    <3>1. words = MovsBlr(f)
      BY <2>5 DEF CallWords
    <3>2. Len(MovsBlr(f)) = 5 /\ Running(s0, MovsBlr(f))[5].pc = f
      BY <2>1, <2>2, MovsArrive
    <3> QED
      BY <3>1, <3>2
  <2> QED
    BY <2>3, <2>4, <2>5
<1> QED
  BY <1>1, Invariant, PTL

-----------------------------------------------------------------------------
(***************************************************************************)
(* The run of the code: what the parser takes, the words it makes of an    *)
(* instruction, and where they lie.                                        *)
(***************************************************************************)
Operations == {"add", "sub", "mul", "div"}

Taken(ins) ==
  /\ ins.op \in Operations \union {"const", "ret", "print"}
  /\ ins.op = "const" => InFile(ins.dest)
  /\ ins.op \in Operations =>
       /\ ins.args \in Seq(Names) /\ Len(ins.args) >= 2 /\ InFile(ins.dest)
       /\ InFile(ins.args[1]) /\ InFile(ins.args[2])
  /\ ins.op = "ret" /\ ins.args # NoArgs /\ Len(ins.args) = 1 => InFile(ins.args[1])
  /\ ins.op = "print" =>
       ins.args \in Seq(Names) /\ AllInFile(ins.args) /\ Len(ins.args) <= 7

PrintWords(args, pos) ==
  Saved(args, pos) \o Moved(pos) \o Call(Len(args)) \o Restored(args, pos)

Words(ins) ==
  IF ins.op = "const" THEN <<ConstWord(Get_register(ins.dest), ins.value)>>
  ELSE IF ins.op = "print" THEN PrintWords(ins.args, Pos(ins.args))
  ELSE IF ins.op # "ret"
  THEN <<BinopWord(ins.op, Get_register(ins.dest), Get_register(ins.args[1]),
                   Get_register(ins.args[2]))>>
  ELSE IF ins.args # NoArgs /\ Len(ins.args) = 1
  THEN <<Emit_orr_sr({}, Get_register(ins.args[1])), Emit_ret>>
  ELSE <<Emit_ret>>

\* Where the words of the n-th instruction begin, or the code ends.
Place(n) == IF n \in DOMAIN starts THEN starts[n] ELSE Len(code)

Laid(n) ==
  LET words == Words(prog[n]) IN
  /\ Taken(prog[n])
  /\ Place(n) \in Nat /\ Len(words) \in Nat \ {0} /\ Place(n + 1) = Place(n) + Len(words)
  /\ \A k \in 1 .. Len(words) : code[Place(n) + k] = words[k]
  /\ \A i \in 1 .. n : Place(i) + Len(Words(prog[i])) <= Place(n + 1)

CodeInv ==
  /\ Len(starts) <= Len(prog) /\ Place(1) = 0
  /\ \A n \in 1 .. Len(starts) : Laid(n)
  /\ status = "parse" =>
       /\ reg = Host /\ sp = 0 /\ stack = [s \in 1 .. StackSlots |-> 0]
       /\ pc = 1 /\ out = << >>
  /\ status \in {"run", "done"} => Len(starts) = Len(prog)

-----------------------------------------------------------------------------
(***************************************************************************)
(* What the machine holds between two instructions, in registers r and     *)
(* with the output o.                                                      *)
(***************************************************************************)
Outcome == [known : BOOLEAN, num : Val]
Meanings == [env : [Names -> Val], kept : SUBSET Names, out : Seq(Seq(Outcome)),
             ret : Outcome, over : BOOLEAN]

\* SameOutput, of any output.
Agreeing(o, expected) ==
  /\ Len(o) = Len(expected)
  /\ \A j \in DOMAIN o :
       /\ Len(o[j]) = Len(expected[j])
       /\ \A k \in DOMAIN o[j] :
            expected[j][k].known => o[j][k] = Low32(expected[j][k].num)

Meant(s, r, o) ==
  /\ s \in Meanings
  /\ \A v \in s.kept : Index[v] \in 0 .. 30 /\ r[Index[v]] = s.env[v]
  /\ o \in Seq(Seq(Int)) /\ Agreeing(o, s.out)

Spared(n, r) ==
  \A q \in 19 .. 30 : (\A i \in 1 .. n : Index[prog[i].dest] # q) => r[q] = Host[q]

\* Before the n-th instruction.
Level(n, r, o) ==
  /\ r \in [Regs -> Int] /\ Meant(After(n - 1), r, o)
  /\ ~ After(n - 1).over /\ ~ After(n - 1).ret.known
  /\ Spared(n - 1, r)

-----------------------------------------------------------------------------
(***************************************************************************)
(* Inside print: after k of its words.                                     *)
(***************************************************************************)
Got(r, q) == IF q = 31 THEN 0 ELSE r[q]

\* The register that the j-th push stores.
Pushed(args, j) ==
  LET pos == Pos(args) IN
  IF j <= Len(pos) THEN pos[j] ELSE Index[args[pos[j - Len(pos)]]]

Stored(args, r, k) == \A j \in 1 .. k : stack[j] = Got(r, Pushed(args, j))

Pushing(args, k, r, o) ==
  /\ k \in 0 .. 2 * Len(Pos(args))
  /\ reg = r /\ sp = -(8 * k) /\ out = o /\ Stored(args, r, k)

Loading(args, k, r, o) ==
  LET m == Len(Pos(args)) IN
  /\ k \in 0 .. m
  /\ sp = -(16 * m) /\ out = o /\ Stored(args, r, 2 * m)
  /\ reg \in [Regs -> Int]
  /\ \A q \in Regs :
       IF \E j \in 1 .. k : Pos(args)[j] = q
       THEN q \in DOMAIN args /\ reg[q] = Got(r, Index[args[q]])
       ELSE reg[q] = r[q]

\* The first k parts of print_int's address.
Digit(k) == ((PrintInt % U64) \div Unit[k]) % U16
AddressSum(k) ==
  IF k = 1 THEN Digit(1) ELSE IF k = 2 THEN Digit(1) + Digit(2) * Unit[2]
  ELSE IF k = 3 THEN Digit(1) + Digit(2) * Unit[2] + Digit(3) * Unit[3]
  ELSE Digit(1) + Digit(2) * Unit[2] + Digit(3) * Unit[3] + Digit(4) * Unit[4]
Address16(k) == Wrap(AddressSum(k))

Calling(args, k, r, o) ==
  LET m == Len(Pos(args)) IN
  /\ k \in 0 .. 7
  /\ sp = (IF k < 6 THEN -(16 * m) ELSE -(16 * m) - 16)
  /\ out = o /\ Stored(args, r, 2 * m)
  /\ reg \in [Regs -> Int]
  /\ \A q \in DOMAIN args : reg[q] = Got(r, Index[args[q]])
  /\ \A q \in 19 .. 28 : reg[q] = r[q]
  /\ k < 7 => reg[29] = r[29]
  /\ reg[30] = r[30]
  /\ k >= 1 => reg[0] = Len(args)
  /\ k \in 2 .. 5 => reg[16] = Address16(k - 1)
  /\ k >= 5 => reg[16] = PrintInt
  /\ k >= 6 => stack[2 * m + 2] = r[29] /\ stack[2 * m + 1] = r[30]

Printing(args, r) == [k \in 1 .. Len(args) |-> Low32(Got(r, Index[args[k]]))]

Called(args, r, o) ==
  LET m == Len(Pos(args)) IN
  /\ sp = -(16 * m) - 16
  /\ out = Append(o, Printing(args, r)) /\ Stored(args, r, 2 * m)
  /\ reg \in [Regs -> Int]
  /\ \A q \in 19 .. 28 : reg[q] = r[q]
  /\ stack[2 * m + 2] = r[29] /\ stack[2 * m + 1] = r[30]

Popping(args, k, r, o) ==
  LET m == Len(Pos(args)) IN
  /\ k \in 0 .. 2 * m
  /\ sp = 8 * k - 16 * m
  /\ out = Append(o, Printing(args, r)) /\ Stored(args, r, 2 * m - k)
  /\ reg \in [Regs -> Int]
  /\ \A q \in 0 .. 30 :
       q \in 19 .. 30 \/ (\E j \in (2 * m - k + 1) .. 2 * m : Pushed(args, j) = q) => reg[q] = r[q]

InPrint(args, k, r, o) ==
  LET m == Len(Pos(args)) IN
  \/ Pushing(args, k, r, o)
  \/ k > 2 * m /\ Loading(args, k - 2 * m, r, o)
  \/ k > 3 * m /\ Calling(args, k - 3 * m, r, o)
  \/ k = 3 * m + 8 /\ Called(args, r, o)
  \/ Popping(args, k - 3 * m - 9, r, o)

Inside(ins, k, r, o) ==
  IF ins.op = "print" THEN InPrint(ins.args, k, r, o)
  ELSE /\ sp = 0 /\ out = o
       /\ \/ k = 0 /\ reg = r
          \/ /\ k = 1 /\ ins.op = "ret" /\ Len(Words(ins)) = 2
             /\ reg = [r EXCEPT ![0] = Wrap(Got(r, Index[ins.args[1]]))]

At(n, r, o) ==
  /\ Level(n, r, o)
  /\ IF n = Len(prog) + 1 THEN pc = Len(code) + 1 /\ reg = r /\ sp = 0 /\ out = o
     ELSE \E k \in 0 .. Len(Words(prog[n])) - 1 :
            pc = Place(n) + k + 1 /\ Inside(prog[n], k, r, o)

RunInv ==
  status = "run" =>
    /\ stack \in [1 .. StackSlots -> Int]
    /\ \E n \in 1 .. Len(prog) + 1, r \in [Regs -> Int], o \in Seq(Seq(Int)) : At(n, r, o)

DoneInv ==
  status = "done" =>
    /\ sp = 0 /\ SameOutput(After(Len(prog)).out)
    /\ After(Len(prog)).ret.known => reg[0] = After(Len(prog)).ret.num
    /\ Spared(Len(prog), reg)

-----------------------------------------------------------------------------
(***************************************************************************)
(* Fields.                                                                 *)
(***************************************************************************)

\* Num adds the weights up, from the lowest.
LEMMA NumAdds ==
  ASSUME NEW S
  PROVE  \E low : /\ low[0] = 0 /\ Num(S) = low[16]
                  /\ \A k \in 0 .. 15 : low[k + 1] = low[k] + (IF k \in S THEN Weight[k + 1] ELSE 0)
<1> DEFINE b(k) == IF k - 1 \in S THEN Weight[k] ELSE 0
           Next1 == [p \in Nat \X Int |-> IF p[1] <= 15 THEN p[2] + b(p[1] + 1) ELSE p[2]]
           turn(f) == [k \in 0 .. 16 |-> IF k = 0 THEN 0 ELSE f[k - 1] + b(k)]
           low == CHOOSE f : f = turn(f)
<1>1. \A k \in 1 .. 16 : b(k) \in Int
  BY DEF Weight
<1>2. \E f : f = turn(f)
  <2>1. Next1 \in [Nat \X Int -> Int]
    <3>1. ASSUME NEW p \in Nat \X Int
          PROVE  (IF p[1] <= 15 THEN p[2] + b(p[1] + 1) ELSE p[2]) \in Int
      <4> HIDE DEF b
      <4>1. p[1] <= 15 => p[1] + 1 \in 1 .. 16
        OBVIOUS
      <4> QED
        BY <1>1, <4>1
    <3> HIDE DEF b
    <3> QED
      BY <3>1
  <2>2. PICK f \in [0 .. 16 -> Int] : Follows(f, 0, Next1, 16)
    <3> HIDE DEF Next1
    <3>1. 0 \in Int /\ 16 \in Nat
      OBVIOUS
    <3> QED
      BY <2>1, <3>1, Beginnings
  <2>3. ASSUME NEW k \in 1 .. 16
        PROVE  f[k] = f[k - 1] + b(k)
    <3>1. k - 1 \in 0 .. 15 /\ (k - 1) + 1 = k /\ <<k - 1, f[k - 1]>> \in Nat \X Int
      OBVIOUS
    <3>2. f[k] = Next1[<<k - 1, f[k - 1]>>]
      <4> HIDE DEF Next1
      <4>1. \A i \in 0 .. 15 : f[i + 1] = Next1[<<i, f[i]>>]
        BY <2>2 DEF Follows
      <4> QED
        BY <3>1, <4>1
    <3> HIDE DEF b
    <3> QED
      BY <3>1, <3>2
  <2>4. f[0] = 0
    BY <2>2 DEF Follows
  <2> HIDE DEF b
  <2>5. f = turn(f)
    BY <2>3, <2>4
  <2> QED
    BY <2>5
<1>3. low = turn(low)
  <2> HIDE DEF turn
  <2> QED
    BY <1>2
<1>4. Num(S) = low[16]
  BY DEF Num
<1> HIDE DEF low
<1>5. low[0] = 0 /\ \A k \in 0 .. 15 : low[k + 1] = low[k] + b(k + 1)
  <2> HIDE DEF b
  <2>1. \A k \in 0 .. 16 : turn(low)[k] = IF k = 0 THEN 0 ELSE low[k - 1] + b(k)
    OBVIOUS
  <2> HIDE DEF turn
  <2>2. \A k \in 0 .. 16 : low[k] = IF k = 0 THEN 0 ELSE low[k - 1] + b(k)
    BY <1>3, <2>1
  <2>3. 0 \in 0 .. 16 /\ \A k \in 0 .. 15 : k + 1 \in 0 .. 16 /\ k + 1 # 0 /\ (k + 1) - 1 = k
    OBVIOUS
  <2> QED
    BY <2>2, <2>3
<1>6. \A k \in 0 .. 15 : b(k + 1) = IF k \in S THEN Weight[k + 1] ELSE 0
  <2>1. \A k \in 0 .. 15 : (k + 1) - 1 = k
    OBVIOUS
  <2> QED
    BY <2>1
<1> HIDE DEF b
<1> QED
  BY <1>4, <1>5, <1>6

\* Each bit weighs twice the one before it.
LEMMA Weights ==
  \E w : /\ w[0] = 1 /\ w[16] = 2 * Weight[16]
         /\ \A k \in 0 .. 16 : w[k] \in Nat \ {0}
         /\ \A k \in 0 .. 15 : w[k] = Weight[k + 1] /\ w[k + 1] = 2 * w[k]
<1> DEFINE w == [k \in 0 .. 16 |-> IF k = 16 THEN 2 * Weight[16] ELSE Weight[k + 1]]
<1>1. Weight[1] = 1 /\ Weight[2] = 2 * Weight[1] /\ Weight[3] = 2 * Weight[2]
  BY DEF Weight
<1>2. Weight[4] = 2 * Weight[3] /\ Weight[5] = 2 * Weight[4]
  BY DEF Weight
<1>3. Weight[6] = 2 * Weight[5] /\ Weight[7] = 2 * Weight[6]
  BY DEF Weight
<1>4. Weight[8] = 2 * Weight[7] /\ Weight[9] = 2 * Weight[8]
  BY DEF Weight
<1>5. Weight[10] = 2 * Weight[9] /\ Weight[11] = 2 * Weight[10]
  BY DEF Weight
<1>6. Weight[12] = 2 * Weight[11] /\ Weight[13] = 2 * Weight[12]
  BY DEF Weight
<1>7. Weight[14] = 2 * Weight[13] /\ Weight[15] = 2 * Weight[14]
  BY DEF Weight
<1>8. Weight[16] = 2 * Weight[15]
  BY DEF Weight
<1>9. \A k \in 1 .. 15 : Weight[k + 1] = 2 * Weight[k]
  <2>1. \A k \in 1 .. 15 : k \in {1, 2, 3, 4, 5} \/ k \in {6, 7, 8, 9, 10} \/ k \in {11, 12, 13, 14, 15}
    OBVIOUS
  <2>2. \A k \in {1, 2, 3, 4, 5} : Weight[k + 1] = 2 * Weight[k]
    BY <1>1, <1>2, <1>3
  <2>3. \A k \in {6, 7, 8, 9, 10} : Weight[k + 1] = 2 * Weight[k]
    BY <1>3, <1>4, <1>5, <1>6
  <2>4. \A k \in {11, 12, 13, 14, 15} : Weight[k + 1] = 2 * Weight[k]
    BY <1>6, <1>7, <1>8
  <2> QED
    BY <2>1, <2>2, <2>3, <2>4
<1>10. \A k \in 1 .. 16 : Weight[k] \in Nat \ {0}
  BY DEF Weight
<1>11. w[0] = Weight[1] /\ w[16] = 2 * Weight[16] /\ \A k \in 0 .. 15 : w[k] = Weight[k + 1]
  OBVIOUS
<1> HIDE DEF w
<1>12. \A k \in 0 .. 16 : w[k] \in Nat \ {0}
  <2>1. \A k \in 0 .. 16 : k = 16 \/ (k \in 0 .. 15 /\ k + 1 \in 1 .. 16)
    OBVIOUS
  <2>2. Weight[16] \in Nat \ {0}
    BY <1>10
  <2> QED
    BY <1>10, <1>11, <2>1, <2>2
<1>13. ASSUME NEW k \in 0 .. 15
      PROVE  w[k + 1] = 2 * w[k]
  <2>1. CASE k = 15
    BY <1>11, <2>1
  <2>2. CASE k # 15
    <3>1. k + 1 \in 0 .. 15 /\ k + 1 \in 1 .. 15 /\ (k + 1) + 1 = k + 2
      BY <2>2
    <3>2. w[k + 1] = Weight[(k + 1) + 1] /\ Weight[(k + 1) + 1] = 2 * Weight[k + 1]
      BY <1>9, <1>11, <3>1
    <3> QED
      BY <1>11, <3>2
  <2> QED
    BY <2>1, <2>2
<1> QED
  BY <1>1, <1>11, <1>12, <1>13

\* One more bit of a remainder.
LEMMA Doubled ==
  ASSUME NEW n \in Int, NEW d \in Nat \ {0}
  PROVE  n % (2 * d) = (n % d) + (IF (n \div d) % 2 = 1 THEN d ELSE 0)
<1> DEFINE q == n \div d
           r == n % d
           h == q \div 2
           b == q % 2
<1>1. q \in Int /\ r \in 0 .. d - 1 /\ n = d * q + r
  BY DivMod
<1>2. h \in Int /\ b \in 0 .. 1 /\ q = 2 * h + b
  OBVIOUS
<1> HIDE DEF q, r, h, b
<1>3. d * q = d * (2 * h) + d * b
  BY <1>2
<1>4. d * (2 * h) = (2 * d) * h /\ (2 * d) * h \in Int
  BY <1>2
<1>5. d * b = (IF b = 1 THEN d ELSE 0)
  <2>1. CASE b = 0
    BY <2>1
  <2>2. CASE b = 1
    BY <2>2
  <2> QED
    BY <1>2, <2>1, <2>2
<1> DEFINE c == (IF b = 1 THEN d ELSE 0) + r
<1>6. c \in 0 .. (2 * d) - 1 /\ n = (2 * d) * h + c
  BY <1>1, <1>2, <1>3, <1>4, <1>5
<1>7. 2 * d \in Nat \ {0}
  OBVIOUS
<1> HIDE DEF c
<1>8. n % (2 * d) = c
  BY <1>2, <1>6, <1>7, DivModUnique
<1> QED
  BY <1>1, <1>8 DEF c, b, q, r

LEMMA NumBits ==
  ASSUME NEW n \in Nat, n < 2 * Weight[16]
  PROVE  Num(Bits(n)) = n
<1> DEFINE S == Bits(n)
<1>1. PICK w : /\ w[0] = 1 /\ w[16] = 2 * Weight[16]
               /\ \A k \in 0 .. 16 : w[k] \in Nat \ {0}
               /\ \A k \in 0 .. 15 : w[k] = Weight[k + 1] /\ w[k + 1] = 2 * w[k]
  BY Weights
<1>2. \A k \in 0 .. 15 : k \in S <=> (n \div w[k]) % 2 = 1
  BY <1>1 DEF Bits
<1> HIDE DEF S
<1>3. PICK low : /\ low[0] = 0 /\ Num(S) = low[16]
                 /\ \A k \in 0 .. 15 :
                      low[k + 1] = low[k] + (IF k \in S THEN Weight[k + 1] ELSE 0)
  BY NumAdds
<1> DEFINE X == {k \in Nat : k <= 16 => low[k] = n % w[k]}
<1>4. 0 \in X
  <2>1. n % 1 = 0
    OBVIOUS
  <2> QED
    BY <1>1, <1>3, <2>1
<1>5. ASSUME NEW k \in Nat, k \in X
      PROVE  k + 1 \in X
  <2> SUFFICES ASSUME k + 1 <= 16
               PROVE  low[k + 1] = n % w[k + 1]
    OBVIOUS
  <2>1. k \in 0 .. 15 /\ k \in 0 .. 16 /\ low[k] = n % w[k]
    BY <1>5
  <2>2. n % (2 * w[k]) = (n % w[k]) + (IF (n \div w[k]) % 2 = 1 THEN w[k] ELSE 0)
    <3>1. w[k] \in Nat \ {0} /\ n \in Int
      BY <1>1, <2>1
    <3> QED
      BY <3>1, Doubled
  <2>3. low[k + 1] = low[k] + (IF k \in S THEN w[k] ELSE 0)
    BY <1>1, <1>3, <2>1
  <2> QED
    BY <1>1, <1>2, <2>1, <2>2, <2>3
<1> HIDE DEF X
<1>6. 16 \in X
  BY <1>4, <1>5, Induction
<1>7. n % w[16] = n
  <2>1. w[16] \in Nat \ {0} /\ n < w[16]
    BY <1>1
  <2>2. n = w[16] * 0 + n /\ n \in 0 .. w[16] - 1
    BY <2>1
  <2> QED
    BY <2>1, <2>2, DivModUnique
<1> QED
  BY <1>1, <1>3, <1>6, <1>7 DEF X, S

LEMMA NarrowBits ==
  ASSUME NEW p \in 1 .. 16, NEW n \in Nat, n < 2 * Weight[p]
  PROVE  Bits(n) \subseteq 0 .. p - 1 /\ n < 2 * Weight[16]
<1>1. PICK w : /\ w[0] = 1 /\ w[16] = 2 * Weight[16]
               /\ \A k \in 0 .. 16 : w[k] \in Nat \ {0}
               /\ \A k \in 0 .. 15 : w[k] = Weight[k + 1] /\ w[k + 1] = 2 * w[k]
  BY Weights
<1>2. n < w[p]
  <2>1. p - 1 \in 0 .. 15 /\ (p - 1) + 1 = p
    OBVIOUS
  <2>2. w[p] = 2 * w[p - 1] /\ w[p - 1] = Weight[p]
    BY <1>1, <2>1
  <2> QED
    BY <2>2
<1> DEFINE X == {k \in Nat : p <= k /\ k <= 16 => n < w[k]}
<1>3. 0 \in X
  OBVIOUS
<1>4. ASSUME NEW k \in Nat, k \in X
      PROVE  k + 1 \in X
  <2> SUFFICES ASSUME p <= k + 1, k + 1 <= 16
               PROVE  n < w[k + 1]
    OBVIOUS
  <2>1. CASE p = k + 1
    BY <1>2, <2>1
  <2>2. CASE p <= k
    <3>1. k \in 0 .. 15 /\ k \in 0 .. 16 /\ n < w[k]
      BY <1>4, <2>2
    <3>2. w[k + 1] = 2 * w[k] /\ w[k] \in Nat
      BY <1>1, <3>1
    <3> QED
      BY <3>1, <3>2
  <2> QED
    BY <2>1, <2>2
<1> HIDE DEF X
<1>5. \A k \in Nat : k \in X
  BY <1>3, <1>4, Induction
<1>6. \A k \in Nat : p <= k /\ k <= 16 => n < w[k]
  BY <1>5 DEF X
<1>7. n < 2 * Weight[16]
  BY <1>1, <1>6
<1>8. ASSUME NEW i \in p .. 15
      PROVE  i \notin Bits(n)
  <2>1. i \in 0 .. 15 /\ i \in Nat /\ i \in 0 .. 16 /\ p <= i
    OBVIOUS
  <2>2. w[i] \in Nat \ {0} /\ n < w[i] /\ w[i] = Weight[i + 1]
    BY <1>1, <1>6, <2>1
  <2>3. n = w[i] * 0 + n /\ n \in 0 .. w[i] - 1
    BY <2>2
  <2>4. n \div w[i] = 0
    BY <2>2, <2>3, DivModUnique
  <2>5. (n \div Weight[i + 1]) % 2 # 1
    BY <2>2, <2>4
  <2> QED
    BY <2>5 DEF Bits
<1>9. \A i \in 0 .. 15 : i \in 0 .. p - 1 \/ i \in p .. 15
  OBVIOUS
<1>10. Bits(n) \subseteq 0 .. 15
  BY BitsInHalf DEF Half
<1> QED
  BY <1>7, <1>8, <1>9, <1>10

\* A register's number comes back out of its bits.
LEMMA RegisterNum ==
  ASSUME NEW n \in 0 .. 31
  PROVE  Num(Bits(n)) = n /\ Bits(n) \in Reg5
<1>1. 5 \in 1 .. 16 /\ n \in Nat /\ n < 2 * Weight[5]
  BY DEF Weight
<1>2. n < 2 * Weight[16]
  BY <1>1, NarrowBits
<1> QED
  BY <1>1, <1>2, NumBits, RegisterBits

\* The offsets of print's stores and loads.
LEMMA Small ==
  /\ Bits(2) = {1} /\ Bits(7) = {0, 1, 2} /\ Bits(8) = {3} /\ Bits(15) = {0, 1, 2, 3}
  /\ Bits(16) = {4} /\ Bits(1) = {0} /\ Bits(3) = {0, 1}
<1>1. \A n \in 0 .. 31 : Bits(n) = {i \in 0 .. 4 : (n \div Weight[i + 1]) % 2 = 1}
  <2>1. 0 .. 4 \subseteq 0 .. 15
    OBVIOUS
  <2>2. \A n \in 0 .. 31 : Bits(n) \subseteq 0 .. 4
    BY RegisterBits DEF Reg5
  <2> QED
    BY <2>1, <2>2 DEF Bits
<1>2. \A i \in 0 .. 4 : i = 0 \/ i = 1 \/ i = 2 \/ i = 3 \/ i = 4
  OBVIOUS
<1>3. Weight[1] = 1 /\ Weight[2] = 2 /\ Weight[3] = 4 /\ Weight[4] = 8 /\ Weight[5] = 16
  BY DEF Weight
<1>4. ASSUME NEW n \in 0 .. 31
      PROVE  /\ 0 \in Bits(n) <=> (n \div 1) % 2 = 1
             /\ 1 \in Bits(n) <=> (n \div 2) % 2 = 1
             /\ 2 \in Bits(n) <=> (n \div 4) % 2 = 1
             /\ 3 \in Bits(n) <=> (n \div 8) % 2 = 1
             /\ 4 \in Bits(n) <=> (n \div 16) % 2 = 1
             /\ Bits(n) \subseteq {0, 1, 2, 3, 4}
  BY <1>1, <1>2, <1>3
<1>5. Bits(1) = {0}
  BY <1>4
<1>6. Bits(2) = {1}
  BY <1>4
<1>7. Bits(3) = {0, 1}
  BY <1>4
<1>8. Bits(7) = {0, 1, 2}
  BY <1>4
<1>9. Bits(8) = {3}
  BY <1>4
<1>10. Bits(15) = {0, 1, 2, 3}
  BY <1>4
<1>11. Bits(16) = {4}
  BY <1>4
<1> QED
  BY <1>5, <1>6, <1>7, <1>8, <1>9, <1>10, <1>11

LEMMA Offsets ==
  /\ Int32(-8) = 3 .. 31 /\ Int32(8) = {3} /\ Int32(-16) = 4 .. 31 /\ Int32(16) = {4}
<1>1. Int32(-8) = (0 .. 31) \ Bits(7) /\ Int32(-16) = (0 .. 31) \ Bits(15)
  <2>1. \A n \in Nat : -n < 0 <=> n # 0
    OBVIOUS
  <2>2. \A n \in Nat : -(-n) - 1 = n - 1
    OBVIOUS
  <2>3. 8 \in Nat /\ 8 - 1 = 7 /\ 16 \in Nat /\ 16 - 1 = 15 /\ 8 # 0 /\ 16 # 0
    OBVIOUS
  <2>4. -8 < 0 /\ -16 < 0
    BY <2>1, <2>3, Zenon
  <2>5. -(-8) - 1 = 7 /\ -(-16) - 1 = 15
    BY <2>2, <2>3, Zenon
  <2> QED
    BY <2>4, <2>5, Zenon DEF Int32
<1>2. Int32(8) = Bits(8) /\ Int32(16) = Bits(16)
  BY DEF Int32
<1>3. (0 .. 31) \ {0, 1, 2} = 3 .. 31 /\ (0 .. 31) \ {0, 1, 2, 3} = 4 .. 31
  OBVIOUS
<1> QED
  BY <1>1, <1>2, <1>3, Small

LEMMA SignedOffsets ==
  /\ Signed(3 .. 8, 9) = -8 /\ Signed({3}, 9) = 8
  /\ Signed(1 .. 6, 7) = -2 /\ Signed({1}, 7) = 2
<1>1. Num(3 .. 7) = 248
  <2> DEFINE S == 3 .. 7
  <2>0. \A k \in 0 .. 15 : k \in S <=> k \in {3, 4, 5, 6, 7}
    OBVIOUS
  <2> HIDE DEF S
  <2>1. PICK low : /\ low[0] = 0 /\ Num(S) = low[16]
                   /\ \A k \in 0 .. 15 : low[k + 1] = low[k] + (IF k \in S THEN Weight[k + 1] ELSE 0)
    BY NumAdds
  <2>2. low[1] = 0 /\ low[2] = 0 /\ low[3] = 0
    BY <2>0, <2>1
  <2>3. low[4] = 8 /\ low[5] = 24
    BY <2>0, <2>1, <2>2 DEF Weight
  <2>4. low[6] = 56 /\ low[7] = 120
    BY <2>0, <2>1, <2>3 DEF Weight
  <2>5. low[8] = 248 /\ low[9] = 248 /\ low[10] = 248
    BY <2>0, <2>1, <2>4 DEF Weight
  <2>6. low[11] = 248 /\ low[12] = 248 /\ low[13] = 248
    BY <2>0, <2>1, <2>5
  <2>7. low[14] = 248 /\ low[15] = 248 /\ low[16] = 248
    BY <2>0, <2>1, <2>6
  <2> QED
    BY <2>1, <2>7 DEF S
<1>2. Num(1 .. 5) = 62
  <2> DEFINE S == 1 .. 5
  <2>0. \A k \in 0 .. 15 : k \in S <=> k \in {1, 2, 3, 4, 5}
    OBVIOUS
  <2> HIDE DEF S
  <2>1. PICK low : /\ low[0] = 0 /\ Num(S) = low[16]
                   /\ \A k \in 0 .. 15 : low[k + 1] = low[k] + (IF k \in S THEN Weight[k + 1] ELSE 0)
    BY NumAdds
  <2>2. low[1] = 0 /\ low[2] = 2 /\ low[3] = 6
    BY <2>0, <2>1 DEF Weight
  <2>3. low[4] = 14 /\ low[5] = 30 /\ low[6] = 62
    BY <2>0, <2>1, <2>2 DEF Weight
  <2>4. low[7] = 62 /\ low[8] = 62 /\ low[9] = 62
    BY <2>0, <2>1, <2>3
  <2>5. low[10] = 62 /\ low[11] = 62 /\ low[12] = 62
    BY <2>0, <2>1, <2>4
  <2>6. low[13] = 62 /\ low[14] = 62 /\ low[15] = 62 /\ low[16] = 62
    BY <2>0, <2>1, <2>5
  <2> QED
    BY <2>1, <2>6 DEF S
<1>3. Num({3}) = 8 /\ Num({1}) = 2
  <2>1. Num(Bits(8)) = 8 /\ Num(Bits(2)) = 2
    BY RegisterNum
  <2> QED
    BY <2>1, Small
<1>4. (3 .. 8) \ {8} = 3 .. 7 /\ (1 .. 6) \ {6} = 1 .. 5 /\ 8 \in 3 .. 8 /\ 6 \in 1 .. 6
  OBVIOUS
<1>5. {3} \ {8} = {3} /\ {1} \ {6} = {1} /\ 8 \notin {3} /\ 6 \notin {1}
  OBVIOUS
<1>6. Weight[9] = 256 /\ Weight[7] = 64
  BY DEF Weight
<1>7. Signed(3 .. 8, 9) = 248 - 256 /\ Signed(1 .. 6, 7) = 62 - 64
  BY <1>1, <1>2, <1>4, <1>6 DEF Signed
<1>8. Signed({3}, 9) = 8 - 0 /\ Signed({1}, 7) = 2 - 0
  BY <1>3, <1>5 DEF Signed
<1> QED
  BY <1>7, <1>8

\* An offset of a number of slots, and how many it is.
LEMMA EightTimes ==
  ASSUME NEW n \in 0 .. 31
  PROVE  Num(Shr(Int32(8 * n) \intersect 0 .. 11, 3)) = n
<1>1. PICK w : /\ w[0] = 1 /\ w[16] = 2 * Weight[16]
               /\ \A k \in 0 .. 16 : w[k] \in Nat \ {0}
               /\ \A k \in 0 .. 15 : w[k] = Weight[k + 1] /\ w[k + 1] = 2 * w[k]
  BY Weights
<1>2. ASSUME NEW k \in 0 .. 12
      PROVE  (8 * n) \div Weight[(k + 3) + 1] = n \div Weight[k + 1]
  <2>1. /\ k \in 0 .. 15 /\ k + 1 \in 0 .. 15 /\ k + 2 \in 0 .. 15 /\ k + 3 \in 0 .. 15
        /\ (k + 1) + 1 = k + 2 /\ (k + 2) + 1 = k + 3 /\ k \in 0 .. 16
    OBVIOUS
  <2>2. w[k + 1] = 2 * w[k] /\ w[k + 2] = 2 * w[k + 1] /\ w[k + 3] = 2 * w[k + 2]
    BY <1>1, <2>1
  <2>3. w[k] \in Nat \ {0} /\ w[k + 3] = 8 * w[k]
    BY <1>1, <2>1, <2>2
  <2> DEFINE d == w[k]  q == n \div d  r == n % d
  <2>a. d \in Nat \ {0} /\ n \in Int
    BY <2>3
  <2> HIDE DEF d
  <2>4. d \in Nat \ {0} /\ q \in Int /\ r \in 0 .. d - 1 /\ n = d * q + r
    BY <2>a, DivMod
  <2> HIDE DEF q, r
  <2>5. 8 * (d * q) = (8 * d) * q /\ d * q \in Int
    BY <2>4
  <2>6. 8 * n = (8 * d) * q + 8 * r /\ 8 * r \in 0 .. (8 * d) - 1 /\ 8 * d \in Nat \ {0}
    BY <2>4, <2>5
  <2>7. (8 * n) \div (8 * d) = q
    BY <2>4, <2>6, DivModUnique
  <2> QED
    BY <1>1, <2>1, <2>3, <2>7 DEF d, q
<1>3. Bits(n) \subseteq 0 .. 4 /\ Num(Bits(n)) = n
  BY RegisterNum DEF Reg5
<1>4. Int32(8 * n) = Bits(8 * n)
  BY DEF Int32
<1>5. ASSUME NEW k \in 0 .. 8
      PROVE  k + 3 \in Bits(8 * n) <=> k \in Bits(n)
  <2>1. k \in 0 .. 12 /\ k \in 0 .. 15 /\ k + 3 \in 0 .. 15
    OBVIOUS
  <2> QED
    BY <1>2, <2>1 DEF Bits
<1>6. \A k \in 0 .. 31 : k \in Shr(Int32(8 * n) \intersect 0 .. 11, 3)
                           <=> k \in 0 .. 8 /\ k + 3 \in Bits(8 * n)
  BY <1>4 DEF Shr
<1>7. Shr(Int32(8 * n) \intersect 0 .. 11, 3) \subseteq 0 .. 31 /\ 0 .. 4 \subseteq 0 .. 8
      /\ 0 .. 8 \subseteq 0 .. 31
  BY DEF Shr
<1>8. Shr(Int32(8 * n) \intersect 0 .. 11, 3) = Bits(n)
  BY <1>3, <1>5, <1>6, <1>7
<1> QED
  BY <1>3, <1>8

\* The fields of a word are the operands it was made of.
MovSeen(word, dest, imm, shift) ==
  /\ Field(word, 0, 5) = dest /\ Field(word, 21, 2) = shift
  /\ Field(word, 5, PartBits) = imm \intersect 0 .. PartBits - 1
BinopSeen(word, d, a, b) ==
  Field(word, 0, 5) = d /\ Field(word, 5, 5) = a /\ Field(word, 16, 5) = b
PairSeen(word, offset, rt1, rt2, mode) ==
  /\ Field(word, 0, 5) = rt1 /\ Field(word, 10, 5) = rt2
  /\ Field(word, 15, 7) = Shr(offset, 3) \intersect 0 .. 6
  /\ 23 \in word <=> 0 \in mode
  /\ 24 \in word <=> 1 \in mode
SingleSeen(word, imm, rt, mode) ==
  /\ Field(word, 0, 5) = rt
  /\ mode = Ls_mode.offset => Field(word, 10, 12) = Shr(imm \intersect 0 .. 11, 3)
  /\ mode # Ls_mode.offset => /\ Field(word, 12, 9) = imm \intersect 0 .. 8
                              /\ 11 \in word <=> 1 \in mode

LEMMA MovFields ==
  ASSUME NEW dest \in Reg5, NEW imm \in Half, NEW shift, shift \subseteq 0 .. 1
  PROVE  /\ MovSeen(Emit_movz(dest, imm, shift), dest, imm, shift)
         /\ MovSeen(Emit_movn(dest, imm, shift), dest, Not16(imm), shift)
         /\ MovSeen(Emit_movk(dest, imm, shift), dest, imm, shift)
<1> SUFFICES ASSUME NEW im \in Half, NEW word,
                    \/ word = Emit_movz(dest, im, shift) \/ word = Emit_movk(dest, im, shift)
                    \/ word = Emit_mov_helper({31, 28, 25, 23}, dest, im, shift)
             PROVE  MovSeen(word, dest, im, shift)
  <2>1. Not16(imm) \in Half
    BY DEF Not16, Uint16, Half
  <2> QED
    BY <2>1 DEF Emit_movn
<1>1. PartBits \in 3 .. 16
  BY JitAssumption
<1>2. PICK fixed \in SUBSET (23 .. 31) :
        word = fixed \union dest \union Shl(im, 5) \union Shl(shift, 21)
  <2>1. {31, 30, 28, 25, 23} \subseteq 23 .. 31 /\ {31, 30, 29, 28, 25, 23} \subseteq 23 .. 31
        /\ {31, 28, 25, 23} \subseteq 23 .. 31
    OBVIOUS
  <2> QED
    BY <2>1 DEF Emit_movz, Emit_movk, Emit_mov_helper
<1>3. dest \subseteq 0 .. 4 /\ im \subseteq 0 .. 15
  BY DEF Reg5, Half
<1>4. \A i \in 0 .. 4 : i + 0 \in word <=> i \in dest
  BY <1>2, <1>3 DEF Shl
<1>5. \A i \in 0 .. 1 : i + 21 \in word <=> i \in shift
  <2>1. \A i \in 0 .. 1 : i + 21 \in 0 .. 31 /\ i + 21 \notin 23 .. 31 /\ i + 21 \notin 0 .. 4
                          /\ (i + 21) - 21 = i /\ (i + 21) - 5 \notin 0 .. 15
    OBVIOUS
  <2> QED
    BY <1>2, <1>3, <2>1 DEF Shl
<1>6. \A i \in 0 .. 15 : i + 5 \in word <=> i \in im
  <2>1. \A i \in 0 .. 15 : i + 5 \in 0 .. 31 /\ i + 5 \notin 23 .. 31 /\ i + 5 \notin 0 .. 4
                          /\ (i + 5) - 5 = i /\ (i + 5) - 21 \notin 0 .. 1
    OBVIOUS
  <2> QED
    BY <1>2, <1>3, <2>1 DEF Shl
<1>7. 0 .. 5 - 1 = 0 .. 4 /\ 0 .. 2 - 1 = 0 .. 1 /\ 0 .. PartBits - 1 \subseteq 0 .. 15
  BY <1>1
<1>8. Field(word, 0, 5) = dest
  BY <1>3, <1>4, <1>7 DEF Field
<1>9. Field(word, 21, 2) = shift
  BY <1>5, <1>7 DEF Field
<1>10. Field(word, 5, PartBits) = im \intersect 0 .. PartBits - 1
  BY <1>6, <1>7 DEF Field
<1> QED
  BY <1>8, <1>9, <1>10 DEF MovSeen

LEMMA BinopFields ==
  ASSUME NEW d \in Reg5, NEW a \in Reg5, NEW b \in Reg5
  PROVE  /\ BinopSeen(Emit_add_sr(d, a, b), d, a, b) /\ BinopSeen(Emit_sub_sr(d, a, b), d, a, b)
         /\ BinopSeen(Emit_mul(d, a, b), d, a, b) /\ BinopSeen(Emit_sdiv(d, a, b), d, a, b)
<1> SUFFICES ASSUME NEW word, \/ word = Emit_add_sr(d, a, b) \/ word = Emit_sub_sr(d, a, b)
                              \/ word = Emit_mul(d, a, b) \/ word = Emit_sdiv(d, a, b)
             PROVE  BinopSeen(word, d, a, b)
  OBVIOUS
<1>1. PICK fixed \in SUBSET (10 .. 15 \union 21 .. 31) :
        word = fixed \union d \union Shl(a, 5) \union Shl(b, 16)
  <2> DEFINE F == 10 .. 15 \union 21 .. 31
  <2>1. {31, 27, 25, 24} \subseteq F /\ {31, 30, 27, 25, 24} \subseteq F
    OBVIOUS
  <2>2. {31, 28, 27, 25, 24, 14, 13, 12, 11, 10} \subseteq F
        /\ {31, 28, 27, 25, 23, 22, 11, 10} \subseteq F
    OBVIOUS
  <2> HIDE DEF F
  <2>3. CASE word = Emit_add_sr(d, a, b)
    BY <2>1, <2>3 DEF Emit_add_sr, Emit_binop_helper, F
  <2>4. CASE word = Emit_sub_sr(d, a, b)
    BY <2>1, <2>4 DEF Emit_sub_sr, Emit_binop_helper, F
  <2>5. CASE word = Emit_mul(d, a, b)
    BY <2>2, <2>5 DEF Emit_mul, Emit_binop_helper, F
  <2>6. CASE word = Emit_sdiv(d, a, b)
    BY <2>2, <2>6 DEF Emit_sdiv, Emit_binop_helper, F
  <2> QED
    BY <2>3, <2>4, <2>5, <2>6
<1>2. d \subseteq 0 .. 4 /\ a \subseteq 0 .. 4 /\ b \subseteq 0 .. 4
  BY DEF Reg5
<1>3. \A i \in 0 .. 4 : i + 0 \in word <=> i \in d
  BY <1>1, <1>2 DEF Shl
<1>4. \A i \in 0 .. 4 : i + 5 \in word <=> i \in a
  <2>1. \A i \in 0 .. 4 : /\ i + 5 \in 0 .. 31 /\ i + 5 \notin 10 .. 15 \union 21 .. 31
                          /\ i + 5 \notin 0 .. 4 /\ (i + 5) - 5 = i /\ (i + 5) - 16 \notin 0 .. 4
    OBVIOUS
  <2> QED
    BY <1>1, <1>2, <2>1 DEF Shl
<1>5. \A i \in 0 .. 4 : i + 16 \in word <=> i \in b
  <2>1. \A i \in 0 .. 4 : /\ i + 16 \in 0 .. 31 /\ i + 16 \notin 10 .. 15 \union 21 .. 31
                          /\ i + 16 \notin 0 .. 4 /\ (i + 16) - 16 = i /\ (i + 16) - 5 \notin 0 .. 4
    OBVIOUS
  <2> QED
    BY <1>1, <1>2, <2>1 DEF Shl
<1>6. 0 .. 5 - 1 = 0 .. 4
  OBVIOUS
<1> QED
  BY <1>2, <1>3, <1>4, <1>5, <1>6 DEF Field, BinopSeen

LEMMA RegisterFields ==
  ASSUME NEW d \in Reg5, NEW a \in Reg5
  PROVE  /\ Field(Emit_orr_sr(d, a), 0, 5) = d /\ Field(Emit_orr_sr(d, a), 16, 5) = a
         /\ Field(Emit_mov_sp(d, a), 0, 5) = d /\ Field(Emit_mov_sp(d, a), 5, 5) = a
         /\ Field(Emit_mov_sp(d, a), 10, 12) = {}
         /\ Field(Emit_blr(a), 5, 5) = a /\ Field(Emit_ret, 5, 5) = {1, 2, 3, 4}
<1>1. d \subseteq 0 .. 4 /\ a \subseteq 0 .. 4 /\ 0 .. 5 - 1 = 0 .. 4 /\ 0 .. 12 - 1 = 0 .. 11
  BY DEF Reg5
<1>2. \A i \in 0 .. 4 : /\ i + 0 = i /\ i + 5 \in 0 .. 31 /\ i + 5 \notin 0 .. 4 /\ (i + 5) - 5 = i
                        /\ i + 16 \in 0 .. 31 /\ i + 16 \notin 0 .. 4 /\ (i + 16) - 16 = i
  OBVIOUS
<1>3. Field(Emit_orr_sr(d, a), 0, 5) = d
  <2>1. \A i \in 0 .. 4 : i + 0 \in Emit_orr_sr(d, a) <=> i \in d
    <3>1. \A i \in 0 .. 4 : i + 0 = i /\ i \notin {31, 29, 27, 25, 9, 8, 7, 6, 5} /\ i - 16 \notin 0 .. 4
      OBVIOUS
    <3> QED
      BY <1>1, <3>1 DEF Emit_orr_sr, Shl
  <2> QED
    BY <1>1, <2>1 DEF Field
<1>4. Field(Emit_orr_sr(d, a), 16, 5) = a
  <2>1. \A i \in 0 .. 4 : i + 16 \in Emit_orr_sr(d, a) <=> i \in a
    <3>1. \A i \in 0 .. 4 : i + 16 \notin {31, 29, 27, 25, 9, 8, 7, 6, 5}
      OBVIOUS
    <3> QED
      BY <1>1, <1>2, <3>1 DEF Emit_orr_sr, Shl
  <2> QED
    BY <1>1, <2>1 DEF Field
<1>5. Field(Emit_mov_sp(d, a), 0, 5) = d
  <2>1. \A i \in 0 .. 4 : i + 0 \in Emit_mov_sp(d, a) <=> i \in d
    <3>1. \A i \in 0 .. 4 : i + 0 = i /\ i \notin {31, 28, 24} /\ i - 5 \notin 0 .. 4
      OBVIOUS
    <3> QED
      BY <1>1, <3>1 DEF Emit_mov_sp, Shl
  <2> QED
    BY <1>1, <2>1 DEF Field
<1>6. Field(Emit_mov_sp(d, a), 5, 5) = a
  <2>1. \A i \in 0 .. 4 : i + 5 \in Emit_mov_sp(d, a) <=> i \in a
    <3>1. \A i \in 0 .. 4 : i + 5 \notin {31, 28, 24}
      OBVIOUS
    <3> QED
      BY <1>1, <1>2, <3>1 DEF Emit_mov_sp, Shl
  <2> QED
    BY <1>1, <2>1 DEF Field
<1>7. Field(Emit_mov_sp(d, a), 10, 12) = {}
  <2>1. \A i \in 0 .. 11 : i + 10 \notin Emit_mov_sp(d, a)
    <3>1. \A i \in 0 .. 11 : i + 10 \notin {31, 28, 24} /\ i + 10 \notin 0 .. 4 /\ (i + 10) - 5 \notin 0 .. 4
      OBVIOUS
    <3> QED
      BY <1>1, <3>1 DEF Emit_mov_sp, Shl
  <2> QED
    BY <1>1, <2>1 DEF Field
<1>8. Field(Emit_blr(a), 5, 5) = a
  <2>1. \A i \in 0 .. 4 : i + 5 \in Emit_blr(a) <=> i \in a
    <3>1. \A i \in 0 .. 4 : i + 5 \notin {31, 30, 28, 26, 25, 21, 20, 19, 18, 17, 16}
      OBVIOUS
    <3> QED
      BY <1>1, <1>2, <3>1 DEF Emit_blr, Shl
  <2> QED
    BY <1>1, <2>1 DEF Field
<1>9. Field(Emit_ret, 5, 5) = {1, 2, 3, 4}
  <2>1. \A i \in 0 .. 4 : i + 5 \in Emit_ret <=> i \in {1, 2, 3, 4}
    BY DEF Emit_ret
  <2> QED
    BY <1>1, <2>1 DEF Field
<1> QED
  BY <1>3, <1>4, <1>5, <1>6, <1>7, <1>8, <1>9

LEMMA PairFields ==
  ASSUME NEW rn \in Reg5, NEW rt1 \in Reg5, NEW rt2 \in Reg5, NEW offset,
         NEW mode, mode \subseteq 0 .. 1
  PROVE  /\ PairSeen(Emit_stp(rn, offset, rt1, rt2, mode), offset, rt1, rt2, mode)
         /\ PairSeen(Emit_ldp(rn, offset, rt1, rt2, mode), offset, rt1, rt2, mode)
<1> SUFFICES ASSUME NEW word, \/ word = Emit_stp(rn, offset, rt1, rt2, mode)
                              \/ word = Emit_ldp(rn, offset, rt1, rt2, mode)
             PROVE  PairSeen(word, offset, rt1, rt2, mode)
  OBVIOUS
<1> DEFINE imm == Shr(offset, 3) \intersect 0 .. 6
<1>1. PICK fixed \in SUBSET {31, 29, 27, 22} :
        word = fixed \union Shl(mode, 23) \union Shl(imm, 15) \union Shl(rn, 5)
                     \union Shl(rt2, 10) \union rt1
  <2>1. CASE word = Emit_stp(rn, offset, rt1, rt2, mode)
    <3>1. {31, 29, 27} \in SUBSET {31, 29, 27, 22}
      OBVIOUS
    <3> QED
      BY <2>1, <3>1 DEF Emit_stp, Emit_stp_ldp
  <2>2. CASE word = Emit_ldp(rn, offset, rt1, rt2, mode)
    BY <2>2 DEF Emit_ldp, Emit_stp_ldp
  <2> QED
    BY <2>1, <2>2
<1>2. rn \subseteq 0 .. 4 /\ rt1 \subseteq 0 .. 4 /\ rt2 \subseteq 0 .. 4 /\ imm \subseteq 0 .. 6
  BY DEF Reg5
<1> HIDE DEF imm
<1>3. \A i : i \in word <=> \/ i \in fixed \/ i \in Shl(mode, 23) \/ i \in Shl(imm, 15)
                            \/ i \in Shl(rn, 5) \/ i \in Shl(rt2, 10) \/ i \in rt1
  BY <1>1
<1>4. /\ Shl(mode, 23) \subseteq {23, 24} /\ Shl(imm, 15) \subseteq 15 .. 21
      /\ Shl(rn, 5) \subseteq 5 .. 9 /\ Shl(rt2, 10) \subseteq 10 .. 14
  <2>1. Shl(mode, 23) \subseteq {23, 24}
    BY DEF Shl
  <2>2. Shl(imm, 15) \subseteq 15 .. 21
    BY <1>2 DEF Shl
  <2>3. Shl(rn, 5) \subseteq 5 .. 9
    BY <1>2 DEF Shl
  <2>4. Shl(rt2, 10) \subseteq 10 .. 14
    BY <1>2 DEF Shl
  <2> QED
    BY <2>1, <2>2, <2>3, <2>4
<1>5. Field(word, 0, 5) = rt1
  <2>1. \A i \in 0 .. 4 : /\ i + 0 = i /\ i \notin {31, 29, 27, 22} /\ i \notin {23, 24}
                          /\ i \notin 15 .. 21 /\ i \notin 5 .. 9 /\ i \notin 10 .. 14
    OBVIOUS
  <2>2. \A i \in 0 .. 4 : i + 0 \in word <=> i \in rt1
    BY <1>1, <1>3, <1>4, <2>1
  <2>3. 0 .. 5 - 1 = 0 .. 4
    OBVIOUS
  <2> QED
    BY <1>2, <2>2, <2>3 DEF Field
<1>6. Field(word, 10, 5) = rt2
  <2>1. \A i \in 0 .. 4 : /\ i + 10 \notin {31, 29, 27, 22} /\ i + 10 \notin {23, 24}
                          /\ i + 10 \notin 15 .. 21 /\ i + 10 \notin 5 .. 9 /\ i + 10 \notin 0 .. 4
                          /\ i + 10 \in 0 .. 31 /\ (i + 10) - 10 = i
    OBVIOUS
  <2>2. \A i \in 0 .. 4 : i + 10 \in Shl(rt2, 10) <=> i \in rt2
    BY <2>1 DEF Shl
  <2>3. \A i \in 0 .. 4 : i + 10 \in word <=> i \in rt2
    BY <1>1, <1>2, <1>3, <1>4, <2>1, <2>2
  <2>4. 0 .. 5 - 1 = 0 .. 4
    OBVIOUS
  <2> QED
    BY <1>2, <2>3, <2>4 DEF Field
<1>7. Field(word, 15, 7) = imm
  <2>1. \A i \in 0 .. 6 : /\ i + 15 \notin {31, 29, 27, 22} /\ i + 15 \notin {23, 24}
                          /\ i + 15 \notin 10 .. 14 /\ i + 15 \notin 5 .. 9 /\ i + 15 \notin 0 .. 4
                          /\ i + 15 \in 0 .. 31 /\ (i + 15) - 15 = i
    OBVIOUS
  <2>2. \A i \in 0 .. 6 : i + 15 \in Shl(imm, 15) <=> i \in imm
    BY <2>1 DEF Shl
  <2>3. \A i \in 0 .. 6 : i + 15 \in word <=> i \in imm
    BY <1>1, <1>2, <1>3, <1>4, <2>1, <2>2
  <2>4. 0 .. 7 - 1 = 0 .. 6
    OBVIOUS
  <2> QED
    BY <1>2, <2>3, <2>4 DEF Field
<1>8. \A i \in {23, 24} : i \in word <=> i - 23 \in mode
  <2>1. \A i \in {23, 24} : /\ i \notin {31, 29, 27, 22} /\ i \notin 15 .. 21 /\ i \notin 10 .. 14
                            /\ i \notin 5 .. 9 /\ i \notin 0 .. 4 /\ i \in 0 .. 31
    OBVIOUS
  <2>2. \A i \in {23, 24} : i \in Shl(mode, 23) <=> i - 23 \in mode
    BY <2>1 DEF Shl
  <2> QED
    BY <1>1, <1>2, <1>3, <1>4, <2>1, <2>2
<1>9. 23 \in word <=> 0 \in mode
  BY <1>8
<1>10. 24 \in word <=> 1 \in mode
  BY <1>8
<1> QED
  BY <1>5, <1>6, <1>7, <1>9, <1>10 DEF imm, PairSeen

LEMMA SingleFields ==
  ASSUME NEW rn \in Reg5, NEW rt \in Reg5, NEW imm,
         NEW mode \in {Ls_mode.post, Ls_mode.offset, Ls_mode.pre}
  PROVE  /\ SingleSeen(Emit_str_imm(rn, imm, rt, mode), imm, rt, mode)
         /\ SingleSeen(Emit_ldr_imm(rn, imm, rt, mode), imm, rt, mode)
<1> SUFFICES ASSUME NEW word, \/ word = Emit_str_imm(rn, imm, rt, mode)
                              \/ word = Emit_ldr_imm(rn, imm, rt, mode)
             PROVE  SingleSeen(word, imm, rt, mode)
  OBVIOUS
<1> DEFINE low == imm \intersect 0 .. 8
           high == Shr(imm \intersect 0 .. 11, 3)
           rest == IF mode = Ls_mode.offset THEN Shl(mode, 23) \union Shl(high, 10)
                   ELSE Shl(mode, 10) \union Shl(low, 12)
<1>1. PICK fixed \in SUBSET {31, 30, 29, 28, 27, 22} :
        word = fixed \union rt \union Shl(rn, 5) \union rest
  <2>1. CASE word = Emit_str_imm(rn, imm, rt, mode)
    <3>1. {31, 30, 29, 28, 27} \in SUBSET {31, 30, 29, 28, 27, 22}
      OBVIOUS
    <3> QED
      BY <2>1, <3>1 DEF Emit_str_imm, Emit_ldr_str
  <2>2. CASE word = Emit_ldr_imm(rn, imm, rt, mode)
    BY <2>2 DEF Emit_ldr_imm, Emit_ldr_str
  <2> QED
    BY <2>1, <2>2
<1>2. rn \subseteq 0 .. 4 /\ rt \subseteq 0 .. 4 /\ low \subseteq 0 .. 8 /\ high \subseteq 0 .. 8
      /\ mode \subseteq 0 .. 1
  <2>1. high \subseteq 0 .. 8
    BY DEF Shr
  <2>2. mode \subseteq 0 .. 1
    BY DEF Ls_mode
  <2> QED
    BY <2>1, <2>2 DEF Reg5
<1> HIDE DEF low, high, rest
<1>3. \A i : i \in word <=> i \in fixed \/ i \in rt \/ i \in Shl(rn, 5) \/ i \in rest
  BY <1>1
<1>4. Shl(rn, 5) \subseteq 5 .. 9 /\ Shl(mode, 23) \subseteq {23, 24} /\ Shl(high, 10) \subseteq 10 .. 18
      /\ Shl(mode, 10) \subseteq {10, 11} /\ Shl(low, 12) \subseteq 12 .. 20
  <2>1. Shl(rn, 5) \subseteq 5 .. 9
    BY <1>2 DEF Shl
  <2>2. Shl(mode, 23) \subseteq {23, 24}
    BY <1>2 DEF Shl
  <2>3. Shl(high, 10) \subseteq 10 .. 18
    BY <1>2 DEF Shl
  <2>4. Shl(mode, 10) \subseteq {10, 11}
    BY <1>2 DEF Shl
  <2>5. Shl(low, 12) \subseteq 12 .. 20
    BY <1>2 DEF Shl
  <2> QED
    BY <2>1, <2>2, <2>3, <2>4, <2>5
<1>5. rest \subseteq 10 .. 20 \union {23, 24}
  BY <1>4 DEF rest
<1>6. Field(word, 0, 5) = rt
  <2>1. \A i \in 0 .. 4 : /\ i + 0 = i /\ i \notin {31, 30, 29, 28, 27, 22} /\ i \notin 5 .. 9
                          /\ i \notin 10 .. 20 \union {23, 24}
    OBVIOUS
  <2>2. \A i \in 0 .. 4 : i + 0 \in word <=> i \in rt
    BY <1>1, <1>3, <1>4, <1>5, <2>1
  <2>3. 0 .. 5 - 1 = 0 .. 4
    OBVIOUS
  <2> QED
    BY <1>2, <2>2, <2>3 DEF Field
<1>7. ASSUME mode = Ls_mode.offset
      PROVE  Field(word, 10, 12) = high
  <2>1. rest = Shl(mode, 23) \union Shl(high, 10)
    BY <1>7 DEF rest
  <2>2. \A i \in 0 .. 11 : /\ i + 10 \notin {31, 30, 29, 28, 27, 22} /\ i + 10 \notin 0 .. 4
                           /\ i + 10 \notin 5 .. 9 /\ i + 10 \notin {23, 24}
                           /\ i + 10 \in 0 .. 31 /\ (i + 10) - 10 = i
    OBVIOUS
  <2>3. \A i \in 0 .. 11 : i + 10 \in Shl(high, 10) <=> i \in high
    BY <2>2 DEF Shl
  <2>4. \A i \in 0 .. 11 : i + 10 \in word <=> i \in high
    BY <1>1, <1>2, <1>3, <1>4, <2>1, <2>2, <2>3
  <2>5. 0 .. 12 - 1 = 0 .. 11 /\ 0 .. 8 \subseteq 0 .. 11
    OBVIOUS
  <2> QED
    BY <1>2, <2>4, <2>5 DEF Field
<1>8. ASSUME mode # Ls_mode.offset
      PROVE  Field(word, 12, 9) = low /\ (11 \in word <=> 1 \in mode)
  <2>1. rest = Shl(mode, 10) \union Shl(low, 12)
    BY <1>8 DEF rest
  <2>2. \A i \in 0 .. 8 : /\ i + 12 \notin {31, 30, 29, 28, 27, 22} /\ i + 12 \notin 0 .. 4
                          /\ i + 12 \notin 5 .. 9 /\ i + 12 \notin {10, 11}
                          /\ i + 12 \in 0 .. 31 /\ (i + 12) - 12 = i
    OBVIOUS
  <2>3. \A i \in 0 .. 8 : i + 12 \in Shl(low, 12) <=> i \in low
    BY <2>2 DEF Shl
  <2>4. \A i \in 0 .. 8 : i + 12 \in word <=> i \in low
    BY <1>1, <1>2, <1>3, <1>4, <2>1, <2>2, <2>3
  <2>5. 0 .. 9 - 1 = 0 .. 8
    OBVIOUS
  <2>6. Field(word, 12, 9) = low
    BY <1>2, <2>4, <2>5 DEF Field
  <2>7. /\ 11 \notin {31, 30, 29, 28, 27, 22} /\ 11 \notin 0 .. 4 /\ 11 \notin 5 .. 9
        /\ 11 \notin 12 .. 20 /\ 11 \in 0 .. 31 /\ 11 - 10 = 1
    OBVIOUS
  <2>8. 11 \in Shl(mode, 10) <=> 1 \in mode
    BY <2>7 DEF Shl
  <2>9. 11 \in word <=> 1 \in mode
    BY <1>1, <1>2, <1>3, <1>4, <2>1, <2>7, <2>8
  <2> QED
    BY <2>6, <2>9
<1> QED
  BY <1>6, <1>7, <1>8 DEF low, high, SingleSeen

LEMMA Numbers ==
  Num({}) = 0 /\ SP \in Reg5 /\ Num({1, 2, 3, 4}) = 30
<1>1. Bits(0) = {}
  <2>1. ASSUME NEW i \in 0 .. 15
        PROVE  (0 \div Weight[i + 1]) % 2 # 1
    <3>1. Weight[i + 1] \in Nat \ {0}
      <4>1. i + 1 \in 1 .. 16
        OBVIOUS
      <4> QED
        BY <4>1, Weights
    <3> QED
      BY <3>1
  <2> QED
    BY <2>1 DEF Bits
<1>2. Bits(30) = {1, 2, 3, 4}
  <2>1. Bits(30) \subseteq 0 .. 4
    BY RegisterNum DEF Reg5
  <2>2. 0 \notin Bits(30) /\ 1 \in Bits(30) /\ 2 \in Bits(30) /\ 3 \in Bits(30) /\ 4 \in Bits(30)
    <3>1. Weight[1] = 1 /\ Weight[2] = 2 /\ Weight[3] = 4 /\ Weight[4] = 8 /\ Weight[5] = 16
      BY DEF Weight
    <3>2. {0, 1, 2, 3, 4} \subseteq 0 .. 15
      OBVIOUS
    <3> QED
      BY <3>1, <3>2 DEF Bits
  <2> QED
    BY <2>1, <2>2
<1>3. Num(Bits(0)) = 0 /\ Num(Bits(30)) = 30
  BY RegisterNum
<1> QED
  BY <1>1, <1>2, <1>3, Registers

-----------------------------------------------------------------------------
(***************************************************************************)
(* What the processor does with each word.                                 *)
(***************************************************************************)
Facing(word) == status = "run" /\ pc \in DOMAIN code /\ code[pc] = word

LEMMA Acts ==
  ASSUME NEW word, NEW op, Decodes(word, op), Facing(word), Next
  PROVE  /\ Word = word /\ Op(Word) = op /\ op # "udf"
         /\ op \in {"movz", "movn", "movk"} => MovWide
         /\ op \in {"add", "sub", "mul", "sdiv", "mov"} => DataProcessing
         /\ op = "addi" => AddImmediate
         /\ op \in {"str", "ldr", "stru", "ldru", "stp", "ldp"} => LoadStore \/ LoadStoreFault
         /\ op = "blr" => Blr
         /\ op = "ret" => Ret
<1>1. Execute
  BY DEF Facing, Next, Parse, Parse_label, Parse_unsupported, Parse_const, Parse_binop,
         Parse_ret, Parse_print, Parsing, Jit_bril
<1>2. Word = word /\ Op(Word) = op /\ op \in Mnemonics /\ op # "udf"
  BY MnemonicsAre DEF Facing, Decodes, Word
<1>3. ~ RunsOff
  BY <1>2 DEF RunsOff, Facing
<1>4. /\ MovWide => op \in {"movz", "movn", "movk"}
      /\ DataProcessing => op \in {"add", "sub", "mul", "sdiv", "mov"}
      /\ (AddImmediate => op = "addi") /\ (Blr => op = "blr") /\ (Ret => op = "ret")
      /\ LoadStore \/ LoadStoreFault => op \in {"str", "ldr", "stru", "ldru", "stp", "ldp"}
  BY <1>2 DEF MovWide, DataProcessing, AddImmediate, LoadStore, LoadStoreFault, Blr, Ret, Fetched
<1> QED
  BY <1>1, <1>2, <1>3, <1>4 DEF Execute

\* The next word, and nothing but registers, the stack and its pointer changed.
Onwards == pc' = pc + 1 /\ UNCHANGED <<prog, build, code, starts, status>>

LEMMA MovRuns ==
  ASSUME NEW dest \in Reg5, NEW imm \in Half, NEW shift, shift \subseteq 0 .. 1, Next
  PROVE  LET unit == Unit[Num(shift) + 1]
             part(S) == Num(S \intersect 0 .. PartBits - 1)
             old == reg[Num(dest)] % U64
         IN /\ Facing(Emit_movz(dest, imm, shift)) =>
                 /\ reg' = Written(Num(dest), Wrap(part(imm) * unit))
                 /\ Onwards /\ UNCHANGED <<sp, stack, out>>
            /\ Facing(Emit_movn(dest, imm, shift)) =>
                 /\ reg' = Written(Num(dest), Wrap(-(part(Not16(imm)) * unit) - 1))
                 /\ Onwards /\ UNCHANGED <<sp, stack, out>>
            /\ Facing(Emit_movk(dest, imm, shift)) =>
                 /\ reg' = Written(Num(dest),
                             Wrap(old + (part(imm) - ((old \div unit) % U16)) * unit))
                 /\ Onwards /\ UNCHANGED <<sp, stack, out>>
<1>1. ASSUME NEW word, NEW im, MovSeen(word, dest, im, shift)
      PROVE  /\ Rd(word) = Num(dest) /\ Hw(word) = Num(shift)
             /\ Part(word) = Num(im \intersect 0 .. PartBits - 1)
  BY <1>1, Zenon DEF MovSeen, Rd, Hw, Part
<1>2. /\ Decodes(Emit_movz(dest, imm, shift), "movz")
      /\ Decodes(Emit_movn(dest, imm, shift), "movn")
      /\ Decodes(Emit_movk(dest, imm, shift), "movk")
  BY MovDecodes
<1>3. ASSUME Facing(Emit_movz(dest, imm, shift))
      PROVE  /\ reg' = Written(Num(dest), Wrap(Num(imm \intersect 0 .. PartBits - 1)
                                               * Unit[Num(shift) + 1]))
             /\ Onwards /\ UNCHANGED <<sp, stack, out>>
  <2>1. MovWide /\ Word = Emit_movz(dest, imm, shift) /\ Op(Word) = "movz"
    BY <1>2, <1>3, Acts
  <2>2. /\ Rd(Word) = Num(dest) /\ Hw(Word) = Num(shift)
        /\ Part(Word) = Num(imm \intersect 0 .. PartBits - 1)
    BY <1>1, <2>1, MovFields
  <2> QED
    BY <2>1, <2>2, Zenon DEF MovWide, Advance, parser, Onwards
<1>4. ASSUME Facing(Emit_movk(dest, imm, shift))
      PROVE  LET old == reg[Num(dest)] % U64
                 unit == Unit[Num(shift) + 1] IN
             /\ reg' = Written(Num(dest),
                         Wrap(old + (Num(imm \intersect 0 .. PartBits - 1)
                                     - ((old \div unit) % U16)) * unit))
             /\ Onwards /\ UNCHANGED <<sp, stack, out>>
  <2>1. MovWide /\ Word = Emit_movk(dest, imm, shift) /\ Op(Word) = "movk"
    BY <1>2, <1>4, Acts
  <2>2. /\ Rd(Word) = Num(dest) /\ Hw(Word) = Num(shift)
        /\ Part(Word) = Num(imm \intersect 0 .. PartBits - 1)
    BY <1>1, <2>1, MovFields
  <2>3. "movk" # "movz" /\ "movk" # "movn"
    OBVIOUS
  <2> QED
    BY <2>1, <2>2, <2>3, Zenon DEF MovWide, Advance, parser, Onwards
<1>5. ASSUME Facing(Emit_movn(dest, imm, shift))
      PROVE  /\ reg' = Written(Num(dest),
                         Wrap(-(Num(Not16(imm) \intersect 0 .. PartBits - 1)
                                * Unit[Num(shift) + 1]) - 1))
             /\ Onwards /\ UNCHANGED <<sp, stack, out>>
  <2>1. MovWide /\ Word = Emit_movn(dest, imm, shift) /\ Op(Word) = "movn"
    BY <1>2, <1>5, Acts
  <2>2. /\ Rd(Word) = Num(dest) /\ Hw(Word) = Num(shift)
        /\ Part(Word) = Num(Not16(imm) \intersect 0 .. PartBits - 1)
    BY <1>1, <2>1, MovFields
  <2>3. "movn" # "movz"
    OBVIOUS
  <2> QED
    BY <2>1, <2>2, <2>3, Zenon DEF MovWide, Advance, parser, Onwards
<1> QED
  BY <1>3, <1>4, <1>5, Zenon

Machine == reg \in [Regs -> Int] /\ stack \in [1 .. StackSlots -> Int]

\* The program's constants stay, and stay what they are when it has run.
LEMMA ExecuteKeeps ==
  ASSUME Execute
  PROVE  UNCHANGED <<prog, build, code, starts>> /\ status = "run"
         /\ status' \in {"run", "fault", "undef", "done"}
  BY DEF Execute, MovWide, DataProcessing, AddImmediate, LoadStore, LoadStoreFault, Blr, Ret,
         RunsOff, Fetched, Advance, Stop, parser

Computed(op, x, y) ==
  Wrap(IF op = "add" THEN x + y ELSE IF op = "sub" THEN x - y
       ELSE IF op = "mul" THEN x * y ELSE Quotient(x, y))

LEMMA BinopRuns ==
  ASSUME NEW op \in Operations, NEW d \in Reg5, NEW a \in Reg5, NEW b \in Reg5,
         Facing(BinopWord(op, d, a, b)), Next
  PROVE  /\ reg' = Written(Num(d), Computed(op, Read(Num(a)), Read(Num(b))))
         /\ Onwards /\ UNCHANGED <<sp, stack, out>>
<1> DEFINE word == BinopWord(op, d, a, b)
           mnemonic == IF op = "div" THEN "sdiv" ELSE op
<1>1. Decodes(word, mnemonic) /\ BinopSeen(word, d, a, b)
  BY BinopDecodes, BinopFields DEF BinopWord, Operations
<1>2. mnemonic \in {"add", "sub", "mul", "sdiv"}
  BY DEF Operations
<1>3. Computed(op, Read(Num(a)), Read(Num(b))) = Result(mnemonic, Read(Num(a)), Read(Num(b)))
  BY DEF Computed, Result, Operations
<1> HIDE DEF word, mnemonic
<1>4. Facing(word)
  BY DEF word
<1>5. DataProcessing /\ Word = word /\ Op(Word) = mnemonic
  BY <1>1, <1>2, <1>4, Acts
<1>6. Rd(Word) = Num(d) /\ Rn(Word) = Num(a) /\ Rm(Word) = Num(b)
  BY <1>1, <1>5, Zenon DEF BinopSeen, Rd, Rn, Rm
<1> QED
  BY <1>3, <1>5, <1>6, Zenon DEF DataProcessing, Advance, parser, Onwards

LEMMA OrrRuns ==
  ASSUME NEW d \in Reg5, NEW a \in Reg5, Facing(Emit_orr_sr(d, a)), Next
  PROVE  /\ reg' = Written(Num(d), Wrap(Read(Num(a))))
         /\ Onwards /\ UNCHANGED <<sp, stack, out>>
<1> DEFINE word == Emit_orr_sr(d, a)
<1>1. Decodes(word, "mov")
  BY MovRegisterDecodes
<1>2. DataProcessing /\ Word = word /\ Op(Word) = "mov"
  BY <1>1, Acts
<1>3. Rd(Word) = Num(d) /\ Rm(Word) = Num(a)
  BY <1>2, RegisterFields, Zenon DEF Rd, Rm
<1>4. \A x, y : Result("mov", x, y) = Wrap(y)
  BY DEF Result
<1> QED
  BY <1>2, <1>3, <1>4, Zenon DEF DataProcessing, Advance, parser, Onwards

\* mov x29, sp
LEMMA FrameRuns ==
  ASSUME Facing(Emit_mov_sp(Bits(29), SP)), Next, sp \in Int
  PROVE  /\ reg' = [reg EXCEPT ![29] = sp]
         /\ Onwards /\ UNCHANGED <<sp, stack, out>>
<1> DEFINE word == Emit_mov_sp(Bits(29), SP)
<1>1. Bits(29) \in Reg5 /\ Num(Bits(29)) = 29 /\ SP \in Reg5 /\ Num(SP) = 31
  <2>1. Bits(31) = SP
    <3>1. \A i \in 0 .. 4 : (31 \div Weight[i + 1]) % 2 = 1
      <4>1. Weight[1] = 1 /\ Weight[2] = 2 /\ Weight[3] = 4 /\ Weight[4] = 8 /\ Weight[5] = 16
        BY DEF Weight
      <4>2. \A i \in 0 .. 4 : i = 0 \/ i = 1 \/ i = 2 \/ i = 3 \/ i = 4
        OBVIOUS
      <4> QED
        BY <4>1, <4>2
    <3>2. Bits(31) \subseteq 0 .. 4
      BY RegisterNum DEF Reg5
    <3> QED
      BY <3>1, <3>2 DEF Bits, SP
  <2>2. Num(Bits(31)) = 31 /\ Num(Bits(29)) = 29
    BY RegisterNum
  <2> QED
    BY <2>1, <2>2, Registers
<1>2. Decodes(word, "addi")
  BY <1>1, MovRegisterDecodes
<1>3. AddImmediate /\ Word = word
  BY <1>2, Acts
<1>4. Rd(Word) = 29 /\ Rn(Word) = 31 /\ Imm12(Word) = 0
  BY <1>1, <1>3, RegisterFields, Numbers, Zenon DEF Rd, Rn, Imm12
<1>5. sp + 0 = sp /\ 29 # 31
  OBVIOUS
<1> QED
  BY <1>3, <1>4, <1>5 DEF AddImmediate, Advance, parser, Onwards

LEMMA BlrRuns ==
  ASSUME Facing(Emit_blr(Bits(16))), Next
  PROVE  \/ status' = "undef" /\ (reg[16] # PrintInt \/ reg[0] = 0)
         \/ /\ out' = Append(out, Printed(reg[0]))
            /\ \E g \in Garbage :
                 reg' = [r \in Regs |-> IF r \in CallerSaved THEN g
                                        ELSE IF r = 30 THEN 4 * pc ELSE reg[r]]
            /\ Onwards /\ UNCHANGED <<sp, stack>>
<1> DEFINE word == Emit_blr(Bits(16))
<1>1. Bits(16) \in Reg5 /\ Num(Bits(16)) = 16
  BY RegisterNum
<1>2. Decodes(word, "blr")
  BY <1>1, BranchDecodes
<1>3. Blr /\ Word = word
  BY <1>2, Acts
<1>4. Rn(Word) = 16
  BY <1>1, <1>3, RegisterFields, Numbers, Zenon DEF Rn
<1> QED
  BY <1>3, <1>4 DEF Blr, Stop, Advance, parser, Onwards

LEMMA RetRuns ==
  ASSUME Facing(Emit_ret), Next
  PROVE  /\ status' = IF reg[30] = Host[30] THEN "done" ELSE "undef"
         /\ UNCHANGED <<prog, build, code, starts, machine>>
<1>1. Decodes(Emit_ret, "ret")
  BY Registers, BranchDecodes
<1>2. Ret /\ Word = Emit_ret
  BY <1>1, Acts
<1>3. Rn(Word) = 30
  BY <1>2, RegisterFields, Registers, Numbers, Zenon DEF Rn
<1> QED
  BY <1>2, <1>3 DEF Ret, Stop, parser

\* One register to or from a slot of the stack.
LEMMA SingleRuns ==
  ASSUME Machine, LoadStore \/ LoadStoreFault, NEW q \in Regs, NEW slot \in 1 .. StackSlots,
         Op(Word) \in {"str", "ldr", "stru", "ldru"}, Rd(Word) = q, SlotOf(1) = slot
  PROVE  \/ status' = "fault" /\ build.checksSP
         \/ /\ Onwards /\ UNCHANGED out /\ sp' = IF WritesBack THEN sp + Offset ELSE sp
            /\ Op(Word) = "stru" => stack' = [stack EXCEPT ![slot] = Read(q)] /\ reg' = reg
            /\ Op(Word) \in {"ldr", "ldru"} => reg' = Written(q, stack[slot]) /\ stack' = stack
<1>1. Transferred = <<q>> /\ DOMAIN stack = 1 .. StackSlots /\ DOMAIN reg = Regs
  BY DEF Transferred, Pairs, Machine
<1>2. DOMAIN Transferred = {1} /\ Transferred[1] = q
  BY <1>1
<1>3. \A P : (\E j \in DOMAIN Transferred : SlotOf(j) = P) <=> slot = P
  BY <1>2
<1>4. CASE LoadStoreFault
  <2>1. Faults => build.checksSP
    BY <1>1, <1>2 DEF Faults
  <2> QED
    BY <1>4, <2>1 DEF LoadStoreFault, Stop
<1>5. CASE LoadStore
  <2>1. Onwards /\ UNCHANGED out /\ sp' = IF WritesBack THEN sp + Offset ELSE sp
    BY <1>5 DEF LoadStore, Advance, parser, Onwards
  <2>2. ASSUME Op(Word) = "stru"
        PROVE  stack' = [stack EXCEPT ![slot] = Read(q)] /\ reg' = reg
    <3>1. /\ stack' = [s \in DOMAIN stack |->
                         IF \E j \in DOMAIN Transferred : SlotOf(j) = s
                         THEN Read(Transferred[CHOOSE j \in DOMAIN Transferred : SlotOf(j) = s])
                         ELSE stack[s]]
          /\ reg' = reg
      BY <1>5, <2>2 DEF LoadStore
    <3>2. ASSUME NEW s \in DOMAIN stack, \E j \in DOMAIN Transferred : SlotOf(j) = s
          PROVE  s = slot /\ (CHOOSE j \in DOMAIN Transferred : SlotOf(j) = s) = 1
      BY <1>2, <3>2
    <3>3. ASSUME NEW s \in DOMAIN stack
          PROVE  stack'[s] = [stack EXCEPT ![slot] = Read(q)][s]
      <4>1. CASE s = slot
        <5>1. \E j \in DOMAIN Transferred : SlotOf(j) = s
          BY <1>2, <4>1
        <5> QED
          BY <1>2, <3>1, <3>2, <4>1, <5>1
      <4>2. CASE s # slot
        <5>1. ~ \E j \in DOMAIN Transferred : SlotOf(j) = s
          BY <1>2, <4>2
        <5> QED
          BY <3>1, <4>2, <5>1
      <4> QED
        BY <4>1, <4>2
    <3>4. DOMAIN stack' = DOMAIN stack
      BY <3>1
    <3>5. stack' = [s \in DOMAIN stack |-> stack'[s]]
      BY <3>1
    <3> QED
      BY <3>1, <3>3, <3>5
  <2>3. ASSUME Op(Word) \in {"ldr", "ldru"}
        PROVE  reg' = Written(q, stack[slot]) /\ stack' = stack
    <3>1. /\ reg' = [r \in Regs |->
                       IF r # 31 /\ \E j \in DOMAIN Transferred : Transferred[j] = r
                       THEN stack[SlotOf(CHOOSE j \in DOMAIN Transferred : Transferred[j] = r)]
                       ELSE reg[r]]
          /\ stack' = stack
      BY <1>5, <2>3 DEF LoadStore
    <3>2. ASSUME NEW r, \E j \in DOMAIN Transferred : Transferred[j] = r
          PROVE  r = q /\ (CHOOSE j \in DOMAIN Transferred : Transferred[j] = r) = 1
      BY <1>2, <3>2
    <3>3. ASSUME NEW r \in Regs
          PROVE  reg'[r] = Written(q, stack[slot])[r]
      <4>1. CASE r = q
        <5>1. \E j \in DOMAIN Transferred : Transferred[j] = r
          BY <1>2, <4>1
        <5> QED
          BY <1>1, <1>2, <3>1, <3>2, <4>1, <5>1 DEF Written
      <4>2. CASE r # q
        <5>1. ~ \E j \in DOMAIN Transferred : Transferred[j] = r
          BY <1>2, <4>2
        <5> QED
          BY <3>1, <4>2, <5>1 DEF Written
      <4> QED
        BY <4>1, <4>2
    <3>4. reg' = [r \in Regs |-> reg'[r]]
      BY <3>1
    <3>5. Written(q, stack[slot]) = [r \in Regs |-> Written(q, stack[slot])[r]]
      BY DEF Written, Machine
    <3> QED
      BY <3>1, <3>3, <3>4, <3>5
  <2> QED
    BY <2>1, <2>2, <2>3
<1> QED
  BY <1>4, <1>5

\* Two registers, to or from neighbouring slots.
LEMMA PairRuns ==
  ASSUME Machine, LoadStore \/ LoadStoreFault, NEW p \in 0 .. 30, NEW q \in 0 .. 30, p # q,
         NEW s1 \in 1 .. StackSlots, NEW s2 \in 1 .. StackSlots, s1 # s2,
         Op(Word) \in Pairs, Rd(Word) = p, Rt2(Word) = q, SlotOf(1) = s1, SlotOf(2) = s2
  PROVE  \/ status' = "fault" /\ build.checksSP
         \/ /\ Onwards /\ UNCHANGED out /\ sp' = IF WritesBack THEN sp + Offset ELSE sp
            /\ Op(Word) = "stp" => /\ stack' = [stack EXCEPT ![s1] = reg[p], ![s2] = reg[q]]
                                   /\ reg' = reg
            /\ Op(Word) = "ldp" => /\ reg' = [reg EXCEPT ![p] = stack[s1], ![q] = stack[s2]]
                                   /\ stack' = stack
<1>0. Op(Word) = "stp" \/ Op(Word) = "ldp"
  BY DEF Pairs
<1>1. Transferred = <<p, q>> /\ DOMAIN stack = 1 .. StackSlots /\ DOMAIN reg = Regs
  BY DEF Transferred, Machine
<1>2. DOMAIN Transferred = {1, 2} /\ Transferred[1] = p /\ Transferred[2] = q
  BY <1>1
<1>3. p \in Regs /\ q \in Regs /\ p # 31 /\ q # 31
  BY DEF Regs, Reg_size
<1>4. CASE LoadStoreFault
  <2>1. Faults => build.checksSP
    BY <1>1, <1>2 DEF Faults
  <2> QED
    BY <1>4, <2>1 DEF LoadStoreFault, Stop
<1>5. CASE LoadStore
  <2>1. Onwards /\ UNCHANGED out /\ sp' = IF WritesBack THEN sp + Offset ELSE sp
    BY <1>5 DEF LoadStore, Advance, parser, Onwards
  <2>2. ASSUME Op(Word) = "stp"
        PROVE  stack' = [stack EXCEPT ![s1] = reg[p], ![s2] = reg[q]] /\ reg' = reg
    <3>1. /\ stack' = [s \in DOMAIN stack |->
                         IF \E j \in DOMAIN Transferred : SlotOf(j) = s
                         THEN Read(Transferred[CHOOSE j \in DOMAIN Transferred : SlotOf(j) = s])
                         ELSE stack[s]]
          /\ reg' = reg
      BY <1>5, <2>2 DEF LoadStore
    <3> DEFINE at(s) == CHOOSE j \in DOMAIN Transferred : SlotOf(j) = s
    <3>2. at(s1) = 1 /\ at(s2) = 2
      BY <1>2
    <3>3. Read(p) = reg[p] /\ Read(q) = reg[q]
      BY <1>3 DEF Read
    <3>4. \A s : (\E j \in DOMAIN Transferred : SlotOf(j) = s) <=> s = s1 \/ s = s2
      BY <1>2
    <3> HIDE DEF at
    <3>5. stack' = [s \in DOMAIN stack |-> IF s = s1 \/ s = s2 THEN Read(Transferred[at(s)])
                                           ELSE stack[s]]
      BY <3>1, <3>4 DEF at
    <3>6. stack = [s \in DOMAIN stack |-> stack[s]]
      BY DEF Machine
    <3>7. Read(Transferred[at(s1)]) = reg[p] /\ Read(Transferred[at(s2)]) = reg[q]
      BY <1>2, <3>2, <3>3
    <3> QED
      BY <1>1, <3>1, <3>5, <3>6, <3>7
  <2>3. ASSUME Op(Word) = "ldp"
        PROVE  reg' = [reg EXCEPT ![p] = stack[s1], ![q] = stack[s2]] /\ stack' = stack
    <3>1. /\ reg' = [r \in Regs |->
                       IF r # 31 /\ \E j \in DOMAIN Transferred : Transferred[j] = r
                       THEN stack[SlotOf(CHOOSE j \in DOMAIN Transferred : Transferred[j] = r)]
                       ELSE reg[r]]
          /\ stack' = stack
      BY <1>5, <2>3 DEF LoadStore
    <3> DEFINE at(r) == CHOOSE j \in DOMAIN Transferred : Transferred[j] = r
    <3>2. at(p) = 1 /\ at(q) = 2
      BY <1>2
    <3>3. \A r : (\E j \in DOMAIN Transferred : Transferred[j] = r) <=> r = p \/ r = q
      BY <1>2
    <3> HIDE DEF at
    <3>4. reg' = [r \in Regs |-> IF r # 31 /\ (r = p \/ r = q) THEN stack[SlotOf(at(r))]
                                 ELSE reg[r]]
      BY <3>1, <3>3 DEF at
    <3>5. SlotOf(at(p)) = s1 /\ SlotOf(at(q)) = s2
      BY <3>2
    <3>6. reg = [r \in Regs |-> reg[r]]
      BY DEF Machine
    <3> QED
      BY <1>1, <1>3, <3>1, <3>4, <3>5, <3>6
  <2> QED
    BY <2>1, <2>2, <2>3
<1> QED
  BY <1>4, <1>5

\* A push: str with -8, pre-indexed.
LEMMA PushRuns ==
  ASSUME Machine, Next, NEW q \in Regs, NEW k \in Nat, sp = -(8 * k), k + 1 \in 1 .. StackSlots,
         NEW rt \in Reg5, Num(rt) = q, Facing(Emit_str_imm(SP, Int32(-8), rt, Ls_mode.pre))
  PROVE  \/ status' = "fault" /\ build.checksSP
         \/ /\ Onwards /\ UNCHANGED <<out, reg>> /\ sp' = -(8 * (k + 1))
            /\ stack' = [stack EXCEPT ![k + 1] = Read(q)]
<1> DEFINE word == Emit_str_imm(SP, Int32(-8), rt, Ls_mode.pre)
<1>1. Ls_mode.pre \in {Ls_mode.post, Ls_mode.offset, Ls_mode.pre} /\ Ls_mode.pre # Ls_mode.offset
      /\ 1 \in Ls_mode.pre
  BY DEF Ls_mode
<1>2. Decodes(word, "stru")
  BY <1>1, SingleDecodes, Numbers
<1>3. SingleSeen(word, Int32(-8), rt, Ls_mode.pre)
  BY <1>1, SingleFields, Numbers
<1>4. (3 .. 31) \intersect 0 .. 8 = 3 .. 8
  OBVIOUS
<1>5. Field(word, 0, 5) = rt /\ Field(word, 12, 9) = 3 .. 8 /\ 11 \in word
  BY <1>1, <1>3, <1>4, Offsets DEF SingleSeen
<1> HIDE DEF word
<1>6. Facing(word)
  BY DEF word
<1>7. (LoadStore \/ LoadStoreFault) /\ Word = word /\ Op(Word) = "stru"
  BY <1>2, <1>6, Acts
<1>8. Rd(Word) = q /\ Offset = -8 /\ PreIndexed /\ WritesBack
  BY <1>5, <1>7, SignedOffsets DEF Rd, Imm9, Offset, PreIndexed, WritesBack, Pairs
<1>9. SlotOf(1) = k + 1
  <2>1. SlotOf(1) = (-((sp + -8) + 8 * (1 - 1))) \div 8
    BY <1>8 DEF SlotOf, Address
  <2>2. -((sp + -8) + 8 * (1 - 1)) = 8 * (k + 1)
    OBVIOUS
  <2>3. (8 * (k + 1)) \div 8 = k + 1
    OBVIOUS
  <2> QED
    BY <2>1, <2>2, <2>3
<1>10. sp + Offset = -(8 * (k + 1))
  BY <1>8
<1> QED
  BY <1>7, <1>8, <1>9, <1>10, SingleRuns

\* A load: ldr with an offset of i slots.
LEMMA LoadRuns ==
  ASSUME Machine, Next, NEW q \in Regs, NEW k \in Nat, sp = -(8 * k), NEW i \in 0 .. 31,
         k - i \in 1 .. StackSlots, NEW rt \in Reg5, Num(rt) = q,
         Facing(Emit_ldr_imm(SP, Int32(8 * i), rt, Ls_mode.offset))
  PROVE  \/ status' = "fault" /\ build.checksSP
         \/ Onwards /\ UNCHANGED <<out, stack, sp>> /\ reg' = Written(q, stack[k - i])
<1> DEFINE word == Emit_ldr_imm(SP, Int32(8 * i), rt, Ls_mode.offset)
<1>1. Ls_mode.offset \in {Ls_mode.post, Ls_mode.offset, Ls_mode.pre}
  OBVIOUS
<1>2. Decodes(word, "ldr")
  BY <1>1, SingleDecodes, Numbers
<1>3. SingleSeen(word, Int32(8 * i), rt, Ls_mode.offset)
  BY <1>1, SingleFields, Numbers
<1>4. Field(word, 0, 5) = rt /\ Num(Field(word, 10, 12)) = i
  BY <1>3, EightTimes DEF SingleSeen
<1> HIDE DEF word
<1>5. Facing(word)
  BY DEF word
<1>6. (LoadStore \/ LoadStoreFault) /\ Word = word /\ Op(Word) = "ldr"
  BY <1>2, <1>5, Acts
<1>7. Rd(Word) = q /\ Offset = 8 * i /\ PreIndexed /\ ~ WritesBack
  BY <1>4, <1>6 DEF Rd, Imm12, Offset, PreIndexed, WritesBack, Pairs
<1>8. SlotOf(1) = k - i
  <2>1. SlotOf(1) = (-((sp + 8 * i) + 8 * (1 - 1))) \div 8
    BY <1>7 DEF SlotOf, Address
  <2>2. -((sp + 8 * i) + 8 * (1 - 1)) = 8 * (k - i)
    OBVIOUS
  <2>3. (8 * (k - i)) \div 8 = k - i
    OBVIOUS
  <2> QED
    BY <2>1, <2>2, <2>3
<1> QED
  BY <1>6, <1>7, <1>8, SingleRuns

\* A pop: ldr with 8, post-indexed.
LEMMA PopRuns ==
  ASSUME Machine, Next, NEW q \in Regs, NEW k \in 1 .. StackSlots, sp = -(8 * k),
         NEW rt \in Reg5, Num(rt) = q, Facing(Emit_ldr_imm(SP, Int32(8), rt, Ls_mode.post))
  PROVE  \/ status' = "fault" /\ build.checksSP
         \/ /\ Onwards /\ UNCHANGED <<out, stack>> /\ sp' = -(8 * (k - 1))
            /\ reg' = Written(q, stack[k])
<1> DEFINE word == Emit_ldr_imm(SP, Int32(8), rt, Ls_mode.post)
<1>1. Ls_mode.post \in {Ls_mode.post, Ls_mode.offset, Ls_mode.pre}
      /\ Ls_mode.post # Ls_mode.offset /\ 1 \notin Ls_mode.post
  BY DEF Ls_mode
<1>2. Decodes(word, "ldru")
  BY <1>1, SingleDecodes, Numbers
<1>3. SingleSeen(word, Int32(8), rt, Ls_mode.post)
  BY <1>1, SingleFields, Numbers
<1>4. {3} \intersect 0 .. 8 = {3}
  OBVIOUS
<1>5. Field(word, 0, 5) = rt /\ Field(word, 12, 9) = {3} /\ 11 \notin word
  BY <1>1, <1>3, <1>4, Offsets DEF SingleSeen
<1> HIDE DEF word
<1>6. Facing(word)
  BY DEF word
<1>7. (LoadStore \/ LoadStoreFault) /\ Word = word /\ Op(Word) = "ldru"
  BY <1>2, <1>6, Acts
<1>8. Rd(Word) = q /\ Offset = 8 /\ ~ PreIndexed /\ WritesBack
  BY <1>5, <1>7, SignedOffsets DEF Rd, Imm9, Offset, PreIndexed, WritesBack, Pairs
<1>9. StackSlots \in Nat
  BY JitAssumption
<1>10. SlotOf(1) = k
  <2>1. SlotOf(1) = (-(sp + 8 * (1 - 1))) \div 8
    BY <1>8 DEF SlotOf, Address
  <2>2. -(sp + 8 * (1 - 1)) = 8 * k /\ (8 * k) \div 8 = k
    BY <1>9
  <2> QED
    BY <2>1, <2>2
<1>11. sp + Offset = -(8 * (k - 1))
  BY <1>8, <1>9
<1> QED
  BY <1>7, <1>8, <1>10, <1>11, SingleRuns

\* The frame of the call: stp with -16, pre-indexed, and ldp with 16, post-indexed.
LEMMA StpRuns ==
  ASSUME Machine, Next, NEW k \in Nat, sp = -(8 * k), k + 2 \in 1 .. StackSlots,
         Facing(Emit_stp(SP, Int32(-16), Bits(29), Bits(30), Ls_mode.pre))
  PROVE  \/ status' = "fault" /\ build.checksSP
         \/ /\ Onwards /\ UNCHANGED <<out, reg>> /\ sp' = -(8 * (k + 2))
            /\ stack' = [stack EXCEPT ![k + 2] = reg[29], ![k + 1] = reg[30]]
<1> DEFINE word == Emit_stp(SP, Int32(-16), Bits(29), Bits(30), Ls_mode.pre)
<1>1. Ls_mode.pre \subseteq 0 .. 1 /\ 0 \in Ls_mode.pre /\ 1 \in Ls_mode.pre
  BY DEF Ls_mode
<1>2. Num(Bits(29)) = 29 /\ Bits(29) \in Reg5 /\ Num(Bits(30)) = 30 /\ Bits(30) \in Reg5
  BY RegisterNum
<1>3. Decodes(word, "stp")
  BY <1>1, <1>2, PairDecodes, Numbers
<1>4. PairSeen(word, Int32(-16), Bits(29), Bits(30), Ls_mode.pre)
  BY <1>1, <1>2, PairFields, Numbers
<1>5. Shr(4 .. 31, 3) \intersect 0 .. 6 = 1 .. 6
  BY DEF Shr
<1>6. /\ Field(word, 0, 5) = Bits(29) /\ Field(word, 10, 5) = Bits(30)
      /\ Field(word, 15, 7) = 1 .. 6 /\ 23 \in word /\ 24 \in word
  BY <1>1, <1>4, <1>5, Offsets DEF PairSeen
<1> HIDE DEF word
<1>7. Facing(word)
  BY DEF word
<1>8. (LoadStore \/ LoadStoreFault) /\ Word = word /\ Op(Word) = "stp"
  BY <1>3, <1>7, Acts
<1>9. Rd(Word) = 29 /\ Rt2(Word) = 30 /\ Offset = -16 /\ PreIndexed /\ WritesBack
      /\ Op(Word) \in Pairs
  BY <1>2, <1>6, <1>8, SignedOffsets DEF Rd, Rt2, Imm7, Offset, PreIndexed, WritesBack, Pairs
<1>10. SlotOf(1) = k + 2 /\ SlotOf(2) = k + 1
  <2>1. /\ SlotOf(1) = (-((sp + -16) + 8 * (1 - 1))) \div 8
        /\ SlotOf(2) = (-((sp + -16) + 8 * (2 - 1))) \div 8
    BY <1>9 DEF SlotOf, Address
  <2>2. -((sp + -16) + 8 * (1 - 1)) = 8 * (k + 2) /\ -((sp + -16) + 8 * (2 - 1)) = 8 * (k + 1)
    OBVIOUS
  <2>3. (8 * (k + 2)) \div 8 = k + 2 /\ (8 * (k + 1)) \div 8 = k + 1
    OBVIOUS
  <2> QED
    BY <2>1, <2>2, <2>3
<1>11. sp + Offset = -(8 * (k + 2)) /\ k + 1 \in 1 .. StackSlots /\ k + 1 # k + 2
  BY <1>9, JitAssumption
<1>12. 29 \in 0 .. 30 /\ 30 \in 0 .. 30 /\ 29 # 30
  OBVIOUS
<1> QED
  BY <1>8, <1>9, <1>10, <1>11, <1>12, PairRuns

LEMMA LdpRuns ==
  ASSUME Machine, Next, NEW k \in 2 .. StackSlots, sp = -(8 * k),
         Facing(Emit_ldp(SP, Int32(16), Bits(29), Bits(30), Ls_mode.post))
  PROVE  \/ status' = "fault" /\ build.checksSP
         \/ /\ Onwards /\ UNCHANGED <<out, stack>> /\ sp' = -(8 * (k - 2))
            /\ reg' = [reg EXCEPT ![29] = stack[k], ![30] = stack[k - 1]]
<1> DEFINE word == Emit_ldp(SP, Int32(16), Bits(29), Bits(30), Ls_mode.post)
<1>1. Ls_mode.post \subseteq 0 .. 1 /\ 0 \in Ls_mode.post /\ 1 \notin Ls_mode.post
  BY DEF Ls_mode
<1>2. Num(Bits(29)) = 29 /\ Bits(29) \in Reg5 /\ Num(Bits(30)) = 30 /\ Bits(30) \in Reg5
  BY RegisterNum
<1>3. Decodes(word, "ldp")
  BY <1>1, <1>2, PairDecodes, Numbers
<1>4. PairSeen(word, Int32(16), Bits(29), Bits(30), Ls_mode.post)
  BY <1>1, <1>2, PairFields, Numbers
<1>5. Shr({4}, 3) \intersect 0 .. 6 = {1}
  BY DEF Shr
<1>6. /\ Field(word, 0, 5) = Bits(29) /\ Field(word, 10, 5) = Bits(30)
      /\ Field(word, 15, 7) = {1} /\ 23 \in word /\ 24 \notin word
  BY <1>1, <1>4, <1>5, Offsets DEF PairSeen
<1> HIDE DEF word
<1>7. Facing(word)
  BY DEF word
<1>8. (LoadStore \/ LoadStoreFault) /\ Word = word /\ Op(Word) = "ldp"
  BY <1>3, <1>7, Acts
<1>9. Rd(Word) = 29 /\ Rt2(Word) = 30 /\ Offset = 16 /\ ~ PreIndexed /\ WritesBack
      /\ Op(Word) \in Pairs
  BY <1>2, <1>6, <1>8, SignedOffsets DEF Rd, Rt2, Imm7, Offset, PreIndexed, WritesBack, Pairs
<1>10. StackSlots \in Nat
  BY JitAssumption
<1>11. SlotOf(1) = k /\ SlotOf(2) = k - 1
  <2>1. /\ SlotOf(1) = (-(sp + 8 * (1 - 1))) \div 8
        /\ SlotOf(2) = (-(sp + 8 * (2 - 1))) \div 8
    BY <1>9 DEF SlotOf, Address
  <2>2. -(sp + 8 * (1 - 1)) = 8 * k /\ -(sp + 8 * (2 - 1)) = 8 * (k - 1)
    BY <1>10
  <2>3. (8 * k) \div 8 = k /\ (8 * (k - 1)) \div 8 = k - 1
    BY <1>10
  <2> QED
    BY <2>1, <2>2, <2>3
<1>12. sp + Offset = -(8 * (k - 2)) /\ k - 1 \in 1 .. StackSlots /\ k - 1 # k /\ k \in 1 .. StackSlots
  BY <1>9, <1>10
<1>13. 29 \in 0 .. 30 /\ 30 \in 0 .. 30 /\ 29 # 30
  OBVIOUS
<1> QED
  BY <1>8, <1>9, <1>11, <1>12, <1>13, PairRuns

\* The digits of a number of four digits, and what the first of them make up.
LEMMA Digits ==
  ASSUME NEW d \in Nat \ {0}, NEW f \in Nat, f < d * d * d * d
  PROVE  LET a == f % d
             b == (f \div d) % d
             c == (f \div (d * d)) % d
             e == (f \div (d * d * d)) % d
         IN /\ a \in 0 .. d - 1 /\ b \in 0 .. d - 1 /\ c \in 0 .. d - 1 /\ e \in 0 .. d - 1
            /\ d * b + a \in 0 .. (d * d) - 1
            /\ (d * d) * c + (d * b + a) \in 0 .. (d * d * d) - 1
            /\ (d * d * d) * e + ((d * d) * c + (d * b + a)) = f
<1> DEFINE q1 == f \div d       r0 == f % d
           q2 == q1 \div d      r1 == q1 % d
           q3 == q2 \div d      r2 == q2 % d
<1>1. d \in Nat \ {0} /\ d * d \in Nat \ {0} /\ d * d * d \in Nat \ {0}
  OBVIOUS
<1>3. q1 \in Int /\ r0 \in 0 .. d - 1 /\ f = d * q1 + r0
  <2>1. f \in Int
    OBVIOUS
  <2> QED
    BY <1>1, <2>1, DivMod, Zenon
<1>4. q2 \in Int /\ r1 \in 0 .. d - 1 /\ q1 = d * q2 + r1
  BY <1>1, <1>3, DivMod
<1>5. q3 \in Int /\ r2 \in 0 .. d - 1 /\ q2 = d * q3 + r2
  BY <1>1, <1>4, DivMod
<1> HIDE DEF q1, r0, q2, r1, q3, r2
<1>6. ASSUME NEW a \in Nat \ {0}, NEW b \in Nat \ {0}, NEW q \in Int,
             NEW r \in 0 .. b - 1, NEW t \in 0 .. a - 1
      PROVE  a * r + t \in 0 .. (a * b) - 1 /\ a * (b * q + r) + t = (a * b) * q + (a * r + t)
  <2>1. r + 1 <= b /\ a * (r + 1) <= a * b
    OBVIOUS
  <2>2. a * (r + 1) = a * r + a /\ a * r \in Nat /\ a * b \in Nat
    OBVIOUS
  <2>3. a * r + t < a * r + a
    OBVIOUS
  <2>4. a * r + t \in 0 .. (a * b) - 1
    BY <2>1, <2>2, <2>3
  <2>5. a * (b * q + r) = (a * b) * q + a * r
    OBVIOUS
  <2>6. a * (b * q + r) \in Int /\ (a * b) * q \in Int /\ a * r \in Int /\ t \in Int
    OBVIOUS
  <2> QED
    BY <2>4, <2>5, <2>6
<1>7. d * r1 + r0 \in 0 .. (d * d) - 1 /\ f = (d * d) * q2 + (d * r1 + r0)
  BY <1>1, <1>3, <1>4, <1>6
<1>8. f \div (d * d) = q2
  BY <1>1, <1>4, <1>7, DivModUnique
<1>9. /\ (d * d) * r2 + (d * r1 + r0) \in 0 .. (d * d * d) - 1
      /\ f = (d * d * d) * q3 + ((d * d) * r2 + (d * r1 + r0))
  BY <1>1, <1>5, <1>6, <1>7
<1>10. f \div (d * d * d) = q3
  BY <1>1, <1>5, <1>9, DivModUnique
<1>11. q3 \in 0 .. d - 1
  <2> DEFINE D == d * d * d
             R == (d * d) * r2 + (d * r1 + r0)
  <2>1. D \in Nat \ {0} /\ R \in 0 .. D - 1 /\ f = D * q3 + R /\ f < D * d
    BY <1>1, <1>9
  <2> HIDE DEF D, R
  <2>2. q3 >= 0
    <3> SUFFICES ASSUME q3 <= -1
                 PROVE  FALSE
      BY <1>5
    <3>1. D * q3 <= D * (-1)
      BY <1>5, <2>1
    <3>2. D * q3 \in Int /\ D * (-1) = -D
      BY <1>5, <2>1
    <3> QED
      BY <2>1, <3>1, <3>2
  <2>3. q3 < d
    <3> SUFFICES ASSUME q3 >= d
                 PROVE  FALSE
      BY <1>1, <1>5
    <3>1. D * q3 >= D * d
      BY <1>1, <1>5, <2>1
    <3>2. D * q3 \in Int /\ D * d \in Int
      BY <1>1, <1>5, <2>1
    <3> QED
      BY <2>1, <3>1, <3>2
  <2> QED
    BY <1>5, <2>2, <2>3, <1>1
<1>12. q3 % d = q3
  <2>1. q3 = d * 0 + q3 /\ 0 \in Int
    BY <1>1, <1>5
  <2> QED
    BY <1>1, <1>11, <2>1, DivModUnique
<1>13. /\ f % d = r0 /\ (f \div d) % d = r1 /\ (f \div (d * d)) % d = r2
       /\ (f \div (d * d * d)) % d = q3
  BY <1>8, <1>10, <1>12 DEF r0, r1, r2, q1, q2, q3
<1> QED
  BY <1>3, <1>4, <1>5, <1>7, <1>9, <1>11, <1>13, Zenon

-----------------------------------------------------------------------------
(***************************************************************************)
(* The width of registers.                                                 *)
(***************************************************************************)
LEMMA Widths ==
  /\ U16 \in Nat \ {0} /\ U32 \in Nat \ {0} /\ U64 \in Nat \ {0} /\ 8 <= U16 /\ U16 <= U64 \div 2
  /\ U64 \div 2 \in Nat \ {0} /\ U64 = 2 * (U64 \div 2) /\ U64 = U16 * U16 * U16 * U16
<1> DEFINE w == Weight[PartBits]
<1>1. w \in Nat \ {0} /\ 4 <= w
  <2>1. PartBits \in 3 .. 16
    BY JitAssumption
  <2>2. PICK v : /\ v[0] = 1 /\ v[16] = 2 * Weight[16]
                 /\ \A k \in 0 .. 16 : v[k] \in Nat \ {0}
                 /\ \A k \in 0 .. 15 : v[k] = Weight[k + 1] /\ v[k + 1] = 2 * v[k]
    BY Weights
  <2> DEFINE X == {k \in Nat : k <= 13 => v[k + 2] >= 4}
  <2>3. 0 \in X
    <3>1. v[0 + 1] = 2 * v[0] /\ v[1 + 1] = 2 * v[1]
      BY <2>2
    <3> QED
      BY <2>2, <3>1
  <2>4. ASSUME NEW k \in Nat, k \in X
        PROVE  k + 1 \in X
    <3> SUFFICES ASSUME k + 1 <= 13
                 PROVE  v[(k + 1) + 2] >= 4
      OBVIOUS
    <3>1. k + 2 \in 0 .. 15 /\ k + 2 \in 0 .. 16 /\ (k + 2) + 1 = (k + 1) + 2
      OBVIOUS
    <3>2. v[(k + 2) + 1] = 2 * v[k + 2] /\ v[k + 2] \in Nat /\ v[k + 2] >= 4
      BY <2>2, <2>4, <3>1
    <3> QED
      BY <3>1, <3>2
  <2> HIDE DEF X
  <2>5. \A k \in Nat : k \in X
    BY <2>3, <2>4, Induction
  <2>6. PartBits - 3 \in Nat /\ PartBits - 3 <= 13 /\ (PartBits - 3) + 2 = PartBits - 1
        /\ PartBits - 1 \in 0 .. 15 /\ PartBits - 1 \in 0 .. 16 /\ (PartBits - 1) + 1 = PartBits
    BY <2>1
  <2>7. v[(PartBits - 3) + 2] >= 4
    BY <2>5, <2>6 DEF X
  <2>8. v[PartBits - 1] = Weight[PartBits] /\ v[PartBits - 1] \in Nat \ {0}
    BY <2>2, <2>6
  <2> QED
    BY <2>6, <2>7, <2>8
<1> HIDE DEF w
<1>2. U16 = 2 * w
  BY DEF U16, w
<1> DEFINE d == U16
<1>3. d \in Nat \ {0} /\ 8 <= d /\ d = 2 * w
  BY <1>1, <1>2
<1> HIDE DEF d
<1>4. d * d \in Nat \ {0} /\ (d * d) * (d * d) \in Nat \ {0} /\ (d * d) * (d * d) = d * d * d * d
  BY <1>3
<1> DEFINE h == w * (d * (d * d))
<1>5. (d * d) * (d * d) = 2 * h
  <2>1. d * (d * d) \in Nat
    BY <1>3
  <2>2. (d * d) * (d * d) = d * (d * (d * d))
    BY <1>3
  <2>3. \A x \in Nat : (2 * w) * x = 2 * (w * x)
    BY <1>1
  <2> QED
    BY <1>3, <2>1, <2>2, <2>3
<1>6. h \in Nat /\ d <= h
  <2>1. \A x, y \in Nat : x >= 1 /\ y >= 1 => x <= x * y
    OBVIOUS
  <2>2. d * d \in Nat /\ d * d >= 1 /\ d >= 1
    BY <1>3
  <2>3. d <= d * (d * d) /\ d * (d * d) \in Nat
    BY <1>3, <2>1, <2>2
  <2>4. w \in Nat /\ w >= 1
    BY <1>1
  <2> DEFINE x == d * (d * d)
  <2> HIDE DEF x
  <2>5. x \in Nat /\ d <= x
    BY <2>3 DEF x
  <2>6. w * x = x * w /\ x * w \in Nat
    BY <2>4, <2>5
  <2>7. x <= x * w
    BY <1>3, <2>1, <2>4, <2>5
  <2> QED
    BY <1>3, <2>5, <2>6, <2>7 DEF x
<1> HIDE DEF h
<1>7. U32 = d * d /\ U64 = (d * d) * (d * d)
  BY DEF U32, U64, d
<1>8. U64 \div 2 = h
  BY <1>5, <1>6, <1>7
<1>9. h # 0
  BY <1>3, <1>6
<1> QED
  BY <1>3, <1>4, <1>5, <1>6, <1>7, <1>8, <1>9 DEF d

LEMMA WrapIs ==
  ASSUME NEW n \in Int
  PROVE  /\ Wrap(n) \in Val /\ Wrap(n) \in Int
         /\ n \in Val => Wrap(n) = n /\ Wrap(n % U64) = n
         /\ n \in 0 .. U64 - 1 => Wrap(n) % U64 = n
<1> DEFINE h == U64 \div 2
<1>1. h \in Nat \ {0} /\ U64 = 2 * h
  BY Widths
<1>2. \A x : Wrap(x) = ((x + h) % (2 * h)) - h
  BY <1>1 DEF Wrap
<1>3. Val = -h .. h - 1
  BY DEF Val
<1> HIDE DEF h
<1>4. \A x \in Int : Wrap(x) \in -h .. h - 1
  <2> SUFFICES ASSUME NEW x \in Int
               PROVE  Wrap(x) \in -h .. h - 1
    OBVIOUS
  <2>1. x + h \in Int /\ 2 * h \in Nat \ {0}
    BY <1>1
  <2>2. (x + h) % (2 * h) \in 0 .. (2 * h) - 1
    BY <2>1, DivMod
  <2> QED
    BY <1>1, <1>2, <2>2
<1>5. \A x \in -h .. h - 1 : Wrap(x) = x
  <2> SUFFICES ASSUME NEW x \in -h .. h - 1
               PROVE  Wrap(x) = x
    OBVIOUS
  <2>1. x + h \in 0 .. (2 * h) - 1 /\ 2 * h \in Nat \ {0} /\ x + h = (2 * h) * 0 + (x + h)
    BY <1>1
  <2>2. (x + h) % (2 * h) = x + h
    BY <2>1, DivModUnique
  <2> QED
    BY <1>1, <1>2, <2>2
<1>6. \A x \in h .. (2 * h) - 1 : Wrap(x) = x - 2 * h /\ (x - 2 * h) % (2 * h) = x
  <2> SUFFICES ASSUME NEW x \in h .. (2 * h) - 1
               PROVE  Wrap(x) = x - 2 * h /\ (x - 2 * h) % (2 * h) = x
    OBVIOUS
  <2>1. /\ x - h \in 0 .. (2 * h) - 1 /\ 2 * h \in Nat \ {0} /\ x + h = (2 * h) * 1 + (x - h)
        /\ x \in 0 .. (2 * h) - 1 /\ x - 2 * h = (2 * h) * (-1) + x
    BY <1>1
  <2>2. (x + h) % (2 * h) = x - h /\ (x - 2 * h) % (2 * h) = x
    BY <2>1, DivModUnique
  <2> QED
    BY <1>1, <1>2, <2>2
<1>7. \A x \in 0 .. (2 * h) - 1 : x % (2 * h) = x
  <2> SUFFICES ASSUME NEW x \in 0 .. (2 * h) - 1
               PROVE  x % (2 * h) = x
    OBVIOUS
  <2>1. 2 * h \in Nat \ {0} /\ x = (2 * h) * 0 + x
    BY <1>1
  <2> QED
    BY <2>1, DivModUnique
<1>8. ASSUME n \in 0 .. U64 - 1
      PROVE  Wrap(n) % U64 = n
  <2>1. n \in 0 .. (2 * h) - 1
    BY <1>1, <1>8
  <2>2. CASE n < h
    BY <1>1, <1>5, <1>7, <2>1, <2>2
  <2>3. CASE n >= h
    BY <1>1, <1>6, <2>1, <2>3
  <2> QED
    BY <1>1, <2>1, <2>2, <2>3
<1>9. ASSUME n \in -h .. h - 1
      PROVE  Wrap(n % U64) = n
  <2>1. CASE n >= 0
    <3>1. n \in 0 .. (2 * h) - 1
      BY <1>1, <1>9, <2>1
    <3> QED
      BY <1>1, <1>5, <1>7, <1>9, <3>1
  <2>2. CASE n < 0
    <3>1. n + 2 * h \in h .. (2 * h) - 1 /\ (n + 2 * h) - 2 * h = n
      BY <1>1, <1>9, <2>2
    <3>2. n + 2 * h \in 0 .. (2 * h) - 1 /\ n = (2 * h) * (-1) + (n + 2 * h) /\ 2 * h \in Nat \ {0}
      BY <1>1, <3>1
    <3>3. n % (2 * h) = n + 2 * h
      BY <3>2, DivModUnique
    <3> QED
      BY <1>1, <1>6, <3>1, <3>3
  <2> QED
    BY <2>1, <2>2
<1>10. \A x \in -h .. h - 1 : x \in Int
  BY <1>1
<1> QED
  BY <1>3, <1>4, <1>5, <1>8, <1>9, <1>10

\* Of the bits of a part, what is not in it weighs the rest.
LEMMA Complement ==
  ASSUME NEW p \in 1 .. 16, NEW S, S \subseteq 0 .. p - 1
  PROVE  Num((0 .. p - 1) \ S) = (2 * Weight[p]) - 1 - Num(S)
<1> DEFINE T == (0 .. p - 1) \ S
<1>1. PICK w : /\ w[0] = 1 /\ w[16] = 2 * Weight[16]
               /\ \A k \in 0 .. 16 : w[k] \in Nat \ {0}
               /\ \A k \in 0 .. 15 : w[k] = Weight[k + 1] /\ w[k + 1] = 2 * w[k]
  BY Weights
<1>2. PICK low : /\ low[0] = 0 /\ Num(S) = low[16]
                 /\ \A k \in 0 .. 15 :
                      low[k + 1] = low[k] + (IF k \in S THEN Weight[k + 1] ELSE 0)
  BY NumAdds
<1>3. PICK high : /\ high[0] = 0 /\ Num(T) = high[16]
                  /\ \A k \in 0 .. 15 :
                       high[k + 1] = high[k] + (IF k \in T THEN Weight[k + 1] ELSE 0)
  BY NumAdds
<1> DEFINE X == {k \in Nat : k <= 16 =>
                   /\ low[k] \in Int /\ high[k] \in Int
                   /\ low[k] + high[k] = IF k <= p THEN w[k] - 1 ELSE w[p] - 1}
<1>4. 0 \in X
  <2>1. low[0] = 0 /\ high[0] = 0 /\ w[0] = 1 /\ 0 <= p /\ 1 - 1 = 0 /\ 0 + 0 = 0
    BY <1>1, <1>2, <1>3
  <2>2. low[0] + high[0] = IF 0 <= p THEN w[0] - 1 ELSE w[p] - 1
    BY <2>1
  <2> QED
    BY <2>1, <2>2
<1>5. ASSUME NEW k \in Nat, k \in X
      PROVE  k + 1 \in X
  <2> SUFFICES ASSUME k + 1 <= 16
               PROVE  /\ low[k + 1] \in Int /\ high[k + 1] \in Int
                      /\ low[k + 1] + high[k + 1] = IF k + 1 <= p THEN w[k + 1] - 1 ELSE w[p] - 1
    OBVIOUS
  <2>1. k \in 0 .. 15 /\ k \in 0 .. 16
    OBVIOUS
  <2>2. w[k] \in Nat /\ w[k] = Weight[k + 1] /\ w[k + 1] = 2 * w[k] /\ w[p] \in Nat
    BY <1>1, <2>1
  <2>3. /\ low[k] \in Int /\ high[k] \in Int
        /\ low[k] + high[k] = IF k <= p THEN w[k] - 1 ELSE w[p] - 1
    BY <1>5
  <2>4. /\ low[k + 1] = low[k] + (IF k \in S THEN w[k] ELSE 0)
        /\ high[k + 1] = high[k] + (IF k \in T THEN w[k] ELSE 0)
    BY <1>2, <1>3, <2>1, <2>2
  <2>5. CASE k < p
    <3>1. k \in T <=> k \notin S
      BY <2>5
    <3> HIDE DEF T, X
    <3>2. k <= p /\ k + 1 <= p /\ low[k] + high[k] = w[k] - 1
      BY <2>3, <2>5
    <3>3. \/ low[k + 1] = low[k] + w[k] /\ high[k + 1] = high[k] + 0
          \/ low[k + 1] = low[k] + 0 /\ high[k + 1] = high[k] + w[k]
      BY <2>4, <3>1
    <3>4. low[k + 1] + high[k + 1] = w[k + 1] - 1
      BY <2>2, <2>3, <3>2, <3>3
    <3> QED
      BY <2>2, <2>3, <3>2, <3>3, <3>4
  <2>6. CASE k >= p
    <3>1. k \notin T /\ k \notin S
      BY <2>6
    <3> HIDE DEF T, X
    <3>2. low[k + 1] = low[k] /\ high[k + 1] = high[k]
      BY <2>3, <2>4, <3>1
    <3>3. k = p \/ k > p
      BY <2>6
    <3> QED
      BY <2>2, <2>3, <2>6, <3>2, <3>3
  <2> QED
    BY <2>5, <2>6
<1> HIDE DEF X
<1>6. 16 \in X
  BY <1>4, <1>5, Induction
<1>7. low[16] \in Int /\ high[16] \in Int /\ low[16] + high[16] = w[p] - 1
  <2>1. p = 16 \/ ~ (16 <= p)
    OBVIOUS
  <2> QED
    BY <1>6, <2>1 DEF X
<1>8. w[p] = 2 * Weight[p]
  <2>1. p - 1 \in 0 .. 15 /\ (p - 1) + 1 = p
    OBVIOUS
  <2> QED
    BY <1>1, <2>1
<1> HIDE DEF T
<1>9. w[p] \in Nat
  <2>1. p \in 0 .. 16
    OBVIOUS
  <2> QED
    BY <1>1, <2>1
<1>10. high[16] = w[p] - 1 - low[16]
  BY <1>7, <1>9
<1> QED
  BY <1>2, <1>3, <1>8, <1>10 DEF T

-----------------------------------------------------------------------------
(***************************************************************************)
(* Immediates.                                                             *)
(***************************************************************************)
LEMMA PartNum ==
  ASSUME NEW n \in 0 .. U16 - 1
  PROVE  /\ Bits(n) \in Half /\ Bits(n) \subseteq 0 .. PartBits - 1
         /\ Bits(n) \intersect 0 .. PartBits - 1 = Bits(n) /\ Num(Bits(n)) = n
<1>1. PartBits \in 1 .. 16 /\ n \in Nat /\ n < 2 * Weight[PartBits]
  BY JitAssumption, Widths DEF U16
<1>2. Bits(n) \subseteq 0 .. PartBits - 1 /\ n < 2 * Weight[16]
  BY <1>1, NarrowBits
<1> QED
  BY <1>1, <1>2, BitsInHalf, NumBits

LEMMA Units ==
  Unit[1] = 1 /\ Unit[2] = U16 /\ Unit[3] = U16 * U16 /\ Unit[4] = U16 * U16 * U16
  BY DEF Unit, U32

LEMMA AddressSums ==
  /\ \A k \in 1 .. 4 : Digit(k) \in 0 .. U16 - 1 /\ AddressSum(k) \in 0 .. U64 - 1
                       /\ Unit[k] \in Nat \ {0}
  /\ AddressSum(1) = Digit(1) /\ AddressSum(4) = PrintInt % U64
  /\ \A k \in 1 .. 3 : /\ AddressSum(k) < Unit[k + 1]
                       /\ AddressSum(k + 1) = AddressSum(k) + Digit(k + 1) * Unit[k + 1]
<1> DEFINE f == PrintInt % U64
           d == U16
           a == f % d
           b == (f \div d) % d
           c == (f \div (d * d)) % d
           e == (f \div (d * d * d)) % d
<1>1. d \in Nat \ {0} /\ d * d \in Nat \ {0} /\ d * d * d \in Nat \ {0} /\ U64 = d * d * d * d
      /\ U64 \in Nat \ {0}
  BY Widths
<1>2. f \in Nat /\ f < U64
  <2>1. PrintInt \in Int /\ U64 \in Nat \ {0}
    BY <1>1, JitAssumption DEF Val
  <2> QED
    BY <2>1, DivMod
<1> HIDE DEF d, f
<1>3. /\ a \in 0 .. d - 1 /\ b \in 0 .. d - 1 /\ c \in 0 .. d - 1 /\ e \in 0 .. d - 1
      /\ d * b + a \in 0 .. (d * d) - 1
      /\ (d * d) * c + (d * b + a) \in 0 .. (d * d * d) - 1
      /\ (d * d * d) * e + ((d * d) * c + (d * b + a)) = f
  BY <1>1, <1>2, Digits
<1>4. f \div 1 = f
  BY <1>2
<1>5. Digit(1) = a /\ Digit(2) = b /\ Digit(3) = c /\ Digit(4) = e
  BY <1>4, Units DEF Digit, d, f
<1> HIDE DEF a, b, c, e
<1>6. b * d = d * b /\ c * (d * d) = (d * d) * c /\ e * (d * d * d) = (d * d * d) * e
  BY <1>1, <1>3
<1> DEFINE d2 == d * d
           d3 == d * d * d
           b2 == d * b
           c3 == (d * d) * c
           e4 == (d * d * d) * e
<1>7. /\ d2 \in Nat \ {0} /\ d3 \in Nat \ {0} /\ b2 \in Nat /\ c3 \in Nat /\ e4 \in Nat /\ a \in Nat
      /\ b2 + a \in 0 .. d2 - 1 /\ c3 + (b2 + a) \in 0 .. d3 - 1 /\ e4 + (c3 + (b2 + a)) = f
  BY <1>1, <1>3
<1>8. Unit[1] = 1 /\ Unit[2] = d /\ Unit[3] = d2 /\ Unit[4] = d3
  BY Units DEF d
<1>9. Digit(2) * Unit[2] = b2 /\ Digit(3) * Unit[3] = c3 /\ Digit(4) * Unit[4] = e4
  BY <1>5, <1>6, <1>8
<1>10. AddressSum(1) = a /\ AddressSum(2) = a + b2 /\ AddressSum(3) = a + b2 + c3
       /\ AddressSum(4) = a + b2 + c3 + e4
  BY <1>5, <1>9 DEF AddressSum
<1> HIDE DEF d2, d3, b2, c3, e4
<1>11. \A k \in 1 .. 4 : k = 1 \/ k = 2 \/ k = 3 \/ k = 4
  OBVIOUS
<1>12. \A k \in 1 .. 3 : k = 1 \/ k = 2 \/ k = 3
  OBVIOUS
<1>13. \A k \in 1 .. 4 : Digit(k) \in 0 .. d - 1 /\ Unit[k] \in Nat \ {0}
  BY <1>1, <1>3, <1>5, <1>7, <1>8, <1>11
<1>14. \A k \in 1 .. 4 : AddressSum(k) \in 0 .. U64 - 1
  <2>1. AddressSum(1) \in 0 .. U64 - 1 /\ AddressSum(2) \in 0 .. U64 - 1
    BY <1>1, <1>2, <1>7, <1>10
  <2>2. AddressSum(3) \in 0 .. U64 - 1 /\ AddressSum(4) \in 0 .. U64 - 1
    BY <1>1, <1>2, <1>7, <1>10
  <2> QED
    BY <1>11, <2>1, <2>2
<1>15. AddressSum(1) < Unit[1 + 1]
       /\ AddressSum(1 + 1) = AddressSum(1) + Digit(1 + 1) * Unit[1 + 1]
  BY <1>1, <1>3, <1>8, <1>9, <1>10
<1>16. AddressSum(2) < Unit[2 + 1]
       /\ AddressSum(2 + 1) = AddressSum(2) + Digit(2 + 1) * Unit[2 + 1]
  BY <1>7, <1>8, <1>9, <1>10
<1>17. AddressSum(3) < Unit[3 + 1]
       /\ AddressSum(3 + 1) = AddressSum(3) + Digit(3 + 1) * Unit[3 + 1]
  BY <1>7, <1>8, <1>9, <1>10
<1>18. AddressSum(4) = f
  BY <1>7, <1>10
<1>19. \A k \in 1 .. 3 : /\ AddressSum(k) < Unit[k + 1]
                         /\ AddressSum(k + 1) = AddressSum(k) + Digit(k + 1) * Unit[k + 1]
  BY <1>12, <1>15, <1>16, <1>17
<1> QED
  BY <1>5, <1>10, <1>13, <1>14, <1>18, <1>19 DEF d, f

LEMMA AddressIs == Address16(4) = PrintInt
<1>1. PrintInt \in Val /\ PrintInt \in Int
  BY JitAssumption, Widths DEF Val
<1> QED
  BY <1>1, AddressSums, WrapIs DEF Address16

\* The four words that load the address into x16.
LEMMA AddressRuns ==
  ASSUME Machine, Next
  PROVE  /\ Facing(Emit_movz(Bits(16), Parts(PrintInt)[0], {})) =>
              /\ reg' = [reg EXCEPT ![16] = Address16(1)]
              /\ Onwards /\ UNCHANGED <<sp, stack, out>>
         /\ \A k \in 1 .. 3 :
              reg[16] = Address16(k) /\ Facing(Emit_movk(Bits(16), Parts(PrintInt)[k], Bits(k))) =>
                   /\ reg' = [reg EXCEPT ![16] = Address16(k + 1)]
                   /\ Onwards /\ UNCHANGED <<sp, stack, out>>
<1>1. Num(Bits(16)) = 16 /\ Bits(16) \in Reg5 /\ \A v : Written(16, v) = [reg EXCEPT ![16] = v]
  BY RegisterNum DEF Written
<1>2. ASSUME NEW k \in 0 .. 3
      PROVE  /\ Parts(PrintInt)[k] \in Half
             /\ Num(Parts(PrintInt)[k] \intersect 0 .. PartBits - 1) = Digit(k + 1)
  <2>1. Parts(PrintInt)[k] = Bits(Digit(k + 1))
    BY DEF Parts, Digit
  <2>2. k + 1 \in 1 .. 4
    OBVIOUS
  <2>3. Digit(k + 1) \in 0 .. U16 - 1
    BY <2>2, AddressSums
  <2> QED
    BY <2>1, <2>3, PartNum
<1>3. ASSUME Facing(Emit_movz(Bits(16), Parts(PrintInt)[0], {}))
      PROVE  /\ reg' = [reg EXCEPT ![16] = Address16(1)]
             /\ Onwards /\ UNCHANGED <<sp, stack, out>>
  <2>1. 0 \in 0 .. 3 /\ {} \subseteq 0 .. 1 /\ 0 + 1 = 1
    OBVIOUS
  <2>2. /\ reg' = Written(Num(Bits(16)),
                    Wrap(Num(Parts(PrintInt)[0] \intersect 0 .. PartBits - 1) * Unit[Num({}) + 1]))
        /\ Onwards /\ UNCHANGED <<sp, stack, out>>
    BY <1>1, <1>2, <1>3, <2>1, MovRuns
  <2>3. Num({}) + 1 = 1 /\ Unit[1] = 1
    BY Numbers, Units
  <2>4. Digit(1) * 1 = AddressSum(1)
    <3>1. 1 \in 1 .. 4
      OBVIOUS
    <3>2. Digit(1) \in 0 .. U16 - 1 /\ U16 \in Nat /\ Digit(1) = AddressSum(1)
      BY <3>1, AddressSums, Widths
    <3> QED
      BY <3>2
  <2> QED
    BY <1>1, <1>2, <2>1, <2>2, <2>3, <2>4 DEF Address16
<1>4. ASSUME NEW k \in 1 .. 3, reg[16] = Address16(k),
             Facing(Emit_movk(Bits(16), Parts(PrintInt)[k], Bits(k)))
      PROVE  /\ reg' = [reg EXCEPT ![16] = Address16(k + 1)]
             /\ Onwards /\ UNCHANGED <<sp, stack, out>>
  <2> DEFINE old == reg[16] % U64
             unit == Unit[k + 1]
  <2>1. k \in 0 .. 3 /\ k \in 0 .. 31 /\ k \in 1 .. 4 /\ k + 1 \in 1 .. 4
    OBVIOUS
  <2>2. Num(Bits(k)) = k /\ Bits(k) \subseteq 0 .. 1
    <3>1. k = 1 \/ k = 2 \/ k = 3
      OBVIOUS
    <3> QED
      BY <2>1, <3>1, RegisterNum, ShiftBits
  <2>3. /\ reg' = Written(16, Wrap(old + (Digit(k + 1) - ((old \div unit) % U16)) * unit))
        /\ Onwards /\ UNCHANGED <<sp, stack, out>>
    <3>1. LET u == Unit[Num(Bits(k)) + 1]
              p == Num(Parts(PrintInt)[k] \intersect 0 .. PartBits - 1)
              od == reg[Num(Bits(16))] % U64
          IN /\ reg' = Written(Num(Bits(16)), Wrap(od + (p - ((od \div u) % U16)) * u))
             /\ Onwards /\ UNCHANGED <<sp, stack, out>>
      <4>1. Parts(PrintInt)[k] \in Half
        BY <1>2, <2>1
      <4> QED
        BY <1>1, <1>4, <2>2, <4>1, MovRuns, Zenon
    <3> QED
      BY <1>1, <1>2, <2>1, <2>2, <3>1, Zenon
  <2>4. old = AddressSum(k) /\ AddressSum(k) \in Nat /\ old < unit /\ unit \in Nat \ {0}
    <3>1. AddressSum(k) \in 0 .. U64 - 1 /\ AddressSum(k) \in Int /\ U64 \in Nat
      BY <2>1, AddressSums, Widths
    <3>2. Wrap(AddressSum(k)) % U64 = AddressSum(k)
      BY <3>1, WrapIs
    <3> QED
      BY <1>4, <2>1, <3>1, <3>2, AddressSums DEF Address16
  <2> HIDE DEF old
  <2>5. (old \div unit) % U16 = 0
    <3> HIDE DEF unit
    <3>1. old \in 0 .. unit - 1 /\ old = unit * 0 + old
      BY <2>4
    <3>2. old \div unit = 0
      BY <2>4, <3>1, DivModUnique
    <3>3. 0 % U16 = 0
      BY Widths
    <3> QED
      BY <3>2, <3>3
  <2>6. Digit(k + 1) - 0 = Digit(k + 1)
    <3>1. Digit(k + 1) \in 0 .. U16 - 1 /\ U16 \in Nat
      BY <2>1, AddressSums, Widths
    <3> QED
      BY <3>1
  <2>7. old + (Digit(k + 1) - ((old \div unit) % U16)) * unit = AddressSum(k + 1)
    BY <2>4, <2>5, <2>6, AddressSums
  <2> QED
    BY <1>1, <2>3, <2>7 DEF Address16
<1> QED
  BY <1>3, <1>4

\* The number of arguments, in x0.
LEMMA CountRuns ==
  ASSUME Machine, Next, NEW n \in 0 .. 7, Facing(Emit_movz({}, Bits(n), {}))
  PROVE  reg' = [reg EXCEPT ![0] = n] /\ Onwards /\ UNCHANGED <<sp, stack, out>>
<1>1. n \in 0 .. U16 - 1 /\ n \in Val /\ n \in Int
  BY Widths DEF Val
<1>2. Bits(n) \in Half /\ Num(Bits(n) \intersect 0 .. PartBits - 1) = n
  BY <1>1, PartNum
<1>3. Num({}) = 0 /\ Unit[0 + 1] = 1 /\ n * 1 = n /\ Wrap(n) = n
  BY <1>1, Numbers, Units, WrapIs
<1>4. {} \in Reg5 /\ {} \subseteq 0 .. 1
  BY Registers
<1>5. /\ reg' = Written(Num({}), Wrap(Num(Bits(n) \intersect 0 .. PartBits - 1) * Unit[Num({}) + 1]))
      /\ Onwards /\ UNCHANGED <<sp, stack, out>>
  BY <1>2, <1>4, MovRuns
<1>6. Wrap(Num(Bits(n) \intersect 0 .. PartBits - 1) * Unit[Num({}) + 1]) = n
  BY <1>2, <1>3
<1>7. Written(0, n) = [reg EXCEPT ![0] = n]
  BY DEF Written
<1> QED
  BY <1>3, <1>5, <1>6, <1>7, Zenon

\* A constant within an immediate, of either sign, is what the register holds.
LEMMA ConstRuns ==
  ASSUME Machine, Next, NEW d \in Reg5, NEW v \in Val, Facing(ConstWord(d, v))
  PROVE  /\ Onwards /\ UNCHANGED <<sp, stack, out>>
         /\ \E x \in Val : reg' = Written(Num(d), x) /\ (v \in -U16 .. U16 - 1 => x = v)
<1> DEFINE imm == Parts(v)[0]
           low == (v % U64) % U16
           n == Num(imm \intersect 0 .. PartBits - 1)
           m == Num(Not16(imm) \intersect 0 .. PartBits - 1)
<1>1. v \in Int /\ {} \subseteq 0 .. 1 /\ Num({}) = 0 /\ Unit[0 + 1] = 1
  BY Widths, Numbers, Units DEF Val
<1>2. v % U64 \in 0 .. U64 - 1 /\ v % U64 \in Int /\ low \in 0 .. U16 - 1
  <2>1. U64 \in Nat \ {0} /\ U16 \in Nat \ {0}
    BY Widths
  <2>2. v % U64 \in 0 .. U64 - 1
    BY <1>1, <2>1, DivMod
  <2>3. v % U64 \in Int
    BY <2>1, <2>2
  <2> QED
    BY <2>1, <2>2, <2>3, DivMod
<1>3. imm = Bits(low)
  <2>1. (v % U64) \div 1 = v % U64
    BY <1>2
  <2> QED
    BY <2>1, Units DEF Parts
<1> HIDE DEF imm, low
<1>4. imm \in Half /\ n = low /\ m = U16 - 1 - low
  <2>1. imm \in Half /\ imm \subseteq 0 .. PartBits - 1 /\ imm \intersect 0 .. PartBits - 1 = imm
        /\ Num(imm) = low
    BY <1>2, <1>3, PartNum
  <2>2. PartBits \in 1 .. 16
    BY JitAssumption
  <2>3. Not16(imm) \intersect 0 .. PartBits - 1 = (0 .. PartBits - 1) \ imm
    BY <2>2 DEF Not16, Uint16
  <2>4. Num((0 .. PartBits - 1) \ imm) = U16 - 1 - Num(imm)
    BY <2>1, <2>2, Complement DEF U16
  <2> QED
    BY <2>1, <2>3, <2>4
<1> HIDE DEF n, m
<1>5. CASE v < 0
  <2>1. Facing(Emit_movn(d, imm, {}))
    BY <1>5 DEF ConstWord, imm
  <2>2. /\ reg' = Written(Num(d), Wrap(-(m * Unit[Num({}) + 1]) - 1))
        /\ Onwards /\ UNCHANGED <<sp, stack, out>>
    BY <1>1, <1>4, <2>1, MovRuns DEF m
  <2>3. -(m * 1) - 1 = low - U16 /\ low - U16 \in Int
    BY <1>2, <1>4, Widths
  <2>4. ASSUME v \in -U16 .. U16 - 1
        PROVE  low = v + U16
    <3> DEFINE h == U64 \div 2
    <3>1. U64 \in Nat \ {0} /\ U64 = 2 * h /\ h \in Nat \ {0} /\ v \in -h .. h - 1
      BY Widths DEF Val
    <3> DEFINE D == U64
    <3> HIDE DEF h, D
    <3>2. D \in Nat \ {0} /\ v + D \in 0 .. D - 1 /\ v = D * (-1) + (v + D)
      BY <1>5, <3>1 DEF D
    <3>3. v % D = v + D
      <4> DEFINE r == v + D
      <4>1. D \in Nat \ {0} /\ r \in 0 .. D - 1 /\ v = D * (-1) + r /\ -1 \in Int
        BY <3>2
      <4> HIDE DEF r
      <4>2. v % D = r
        BY <4>1, DivModUnique
      <4> QED
        BY <4>2 DEF r
    <3> DEFINE u == U16
               K == U16 * U16 * U16
    <3>4. u \in Nat \ {0} /\ K \in Nat /\ D = u * K
      <4>1. U16 \in Nat \ {0} /\ D = U16 * U16 * U16 * U16
        BY Widths DEF D
      <4> QED
        BY <4>1
    <3>5. v + u \in 0 .. u - 1
      BY <1>5, <2>4, <3>4
    <3> HIDE DEF u, K
    <3>6. u * (K - 1) = u * K - u /\ K - 1 \in Int /\ u * K \in Int
      BY <3>4
    <3>7. v + D = u * (K - 1) + (v + u)
      BY <1>1, <3>4, <3>6
    <3>8. (v + D) % u = v + u
      BY <3>4, <3>5, <3>6, <3>7, DivModUnique
    <3> QED
      BY <3>3, <3>8 DEF D, u, low
  <2>5. (v + U16) - U16 = v
    BY <1>1, Widths
  <2>6. Wrap(low - U16) \in Val /\ Wrap(v) = v
    BY <1>1, <2>3, WrapIs
  <2> QED
    BY <1>1, <2>2, <2>3, <2>4, <2>5, <2>6
<1>6. CASE v >= 0
  <2>1. Facing(Emit_movz(d, imm, {}))
    BY <1>1, <1>6 DEF ConstWord, imm
  <2>2. /\ reg' = Written(Num(d), Wrap(n * Unit[Num({}) + 1]))
        /\ Onwards /\ UNCHANGED <<sp, stack, out>>
    BY <1>1, <1>4, <2>1, MovRuns DEF n
  <2>3. n * 1 = low /\ low \in Int
    BY <1>2, <1>4, Widths
  <2>4. ASSUME v \in -U16 .. U16 - 1
        PROVE  low = v
    <3>1. v \in 0 .. U64 - 1 /\ v = U64 * 0 + v /\ U64 \in Nat \ {0}
      BY <1>6, Widths DEF Val
    <3>2. v % U64 = v
      BY <3>1, DivModUnique
    <3>3. v \in 0 .. U16 - 1 /\ v = U16 * 0 + v /\ U16 \in Nat \ {0}
      BY <1>6, <2>4, Widths
    <3>4. v % U16 = v
      BY <3>3, DivModUnique
    <3> QED
      BY <3>2, <3>4 DEF low
  <2>5. Wrap(low) \in Val /\ Wrap(v) = v
    BY <1>1, <2>3, WrapIs
  <2> QED
    BY <1>1, <2>2, <2>3, <2>4, <2>5
<1> QED
  BY <1>1, <1>5, <1>6

-----------------------------------------------------------------------------
(***************************************************************************)
(* The words of print.                                                     *)
(***************************************************************************)

\* Each member of a set of numbers has a rank, and no other member has it.
LEMMA Ranks ==
  ASSUME NEW n \in Nat, NEW S, S \subseteq 1 .. n, NEW k \in S
  PROVE  LET rank(x) == Cardinality({m \in S : m < x}) IN
         /\ rank(k) \in 0 .. Cardinality(S) - 1
         /\ \A x \in S : rank(x) = rank(k) => x = k
<1> DEFINE upto(x) == {m \in S : m < x}
<1>0. \A m \in S : m \in Nat
  OBVIOUS
<1>1. IsFiniteSet(S) /\ Cardinality(S) \in Nat
  <2>1. IsFiniteSet(1 .. n)
    BY FS_Interval
  <2> QED
    BY <2>1, FS_Subset, FS_CardinalityType
<1>2. ASSUME NEW x \in S, NEW T \in SUBSET S, upto(x) \subseteq T, x \in T
      PROVE  Cardinality(upto(x)) \in Nat /\ Cardinality(T) \in Nat
             /\ Cardinality(upto(x)) < Cardinality(T)
  <2>1. upto(x) \in SUBSET T /\ upto(x) # T /\ IsFiniteSet(T)
    <3>1. x \notin upto(x)
      BY <1>0
    <3> QED
      BY <1>1, <1>2, <3>1, FS_Subset
  <2> HIDE DEF upto
  <2>2. IsFiniteSet(upto(x)) /\ Cardinality(upto(x)) <= Cardinality(T)
        /\ Cardinality(upto(x)) # Cardinality(T)
    BY <2>1, FS_Subset
  <2> QED
    BY <2>1, <2>2, FS_CardinalityType
<1>3. Cardinality(upto(k)) \in 0 .. Cardinality(S) - 1
  <2>1. S \in SUBSET S /\ upto(k) \subseteq S
    OBVIOUS
  <2> HIDE DEF upto
  <2>2. Cardinality(upto(k)) \in Nat /\ Cardinality(upto(k)) < Cardinality(S)
    BY <1>2, <2>1
  <2> QED
    BY <1>1, <2>2
<1>4. ASSUME NEW x \in S, NEW y \in S, x < y
      PROVE  Cardinality(upto(x)) # Cardinality(upto(y))
  <2>1. upto(y) \in SUBSET S /\ upto(x) \subseteq upto(y) /\ x \in upto(y)
    <3>1. \A m \in S : m < x => m < y
      BY <1>0, <1>4
    <3> QED
      BY <1>4, <3>1
  <2> HIDE DEF upto
  <2>2. /\ Cardinality(upto(x)) \in Nat /\ Cardinality(upto(y)) \in Nat
        /\ Cardinality(upto(x)) < Cardinality(upto(y))
    BY <1>2, <2>1
  <2> QED
    BY <2>2
<1>5. ASSUME NEW x \in S, Cardinality(upto(x)) = Cardinality(upto(k))
      PROVE  x = k
  <2>1. ~ x < k /\ ~ k < x
    BY <1>4, <1>5
  <2> QED
    BY <1>0, <2>1
<1> QED
  BY <1>3, <1>5

\* pos holds every argument that is out of its place.
LEMMA PosIs ==
  ASSUME NEW args \in Seq(Names), Len(args) <= 7
  PROVE  /\ Len(args) \in 0 .. 7 /\ DOMAIN args = 1 .. Len(args)
         /\ Len(Pos(args)) \in 0 .. 7 /\ DOMAIN Pos(args) = 1 .. Len(Pos(args))
         /\ \A j \in 1 .. Len(Pos(args)) :
              Pos(args)[j] \in 1 .. 7 /\ Pos(args)[j] \in DOMAIN args
         /\ \A k \in DOMAIN args :
              Index[args[k]] # k => \E j \in 1 .. Len(Pos(args)) : Pos(args)[j] = k
<1> DEFINE S == {k \in DOMAIN args : Index[args[k]] # k}
           c == Cardinality(S)
<1>1. Len(args) \in Nat /\ DOMAIN args = 1 .. Len(args)
  BY LenProperties
<1>2. S \subseteq 1 .. Len(args)
  BY <1>1
<1>3. Pos(args) = [j \in 1 .. c |-> CHOOSE k \in S : Cardinality({m \in S : m < k}) = j - 1]
  BY DEF Pos
<1> HIDE DEF S
<1>4. c \in Nat /\ c <= Len(args)
  <2>1. IsFiniteSet(1 .. Len(args)) /\ Cardinality(1 .. Len(args)) = Len(args)
    <3>1. \A n \in Nat : IsFiniteSet(1 .. n) /\ Cardinality(1 .. n) = n
      <4> SUFFICES ASSUME NEW n \in Nat
                   PROVE  IsFiniteSet(1 .. n) /\ Cardinality(1 .. n) = n
        OBVIOUS
      <4>1. 1 \in Int /\ n \in Int
        OBVIOUS
      <4>2. IsFiniteSet(1 .. n) /\ Cardinality(1 .. n) = IF 1 > n THEN 0 ELSE n - 1 + 1
        BY <4>1, FS_Interval, Zenon
      <4> QED
        BY <4>2
    <3> QED
      BY <1>1, <3>1
  <2> QED
    BY <1>2, <2>1, FS_Subset, FS_CardinalityType
<1>5. Pos(args) \in Seq(1 .. 7) /\ \A j \in DOMAIN Pos(args) : Pos(args)[j] \in 1 .. Len(args)
  BY PosRange
<1>6. DOMAIN Pos(args) = 1 .. c
  BY <1>3
<1>7. Len(Pos(args)) = c
  <2>1. Len(Pos(args)) \in Nat /\ DOMAIN Pos(args) = 1 .. Len(Pos(args))
        /\ Pos(args) \in [1 .. Len(Pos(args)) -> 1 .. 7]
    BY <1>5, LenProperties
  <2> HIDE DEF c
  <2>2. 1 .. Len(Pos(args)) = 1 .. c
    BY <1>6, <2>1
  <2>3. \A a, b \in Nat : 1 .. a = 1 .. b => a = b
    <3> SUFFICES ASSUME NEW a \in Nat, NEW b \in Nat, 1 .. a = 1 .. b
                 PROVE  a = b
      OBVIOUS
    <3>1. (a \in 1 .. a <=> a \in 1 .. b) /\ (b \in 1 .. b <=> b \in 1 .. a)
      OBVIOUS
    <3>2. (a # 0 => a <= b) /\ (b # 0 => b <= a)
      BY <3>1
    <3> QED
      BY <3>2
  <2> QED
    BY <1>4, <2>1, <2>2, <2>3
<1>8. ASSUME NEW k \in S
      PROVE  \E j \in 1 .. c : Pos(args)[j] = k
  <2> DEFINE rank(x) == Cardinality({m \in S : m < x})
             j == rank(k) + 1
  <2>1. rank(k) \in 0 .. c - 1 /\ \A x \in S : rank(x) = rank(k) => x = k
    BY <1>1, <1>2, Ranks
  <2>2. j \in 1 .. c /\ j - 1 = rank(k)
    <3> HIDE DEF rank, c
    <3> QED
      BY <1>4, <2>1
  <2>3. Pos(args)[j] = CHOOSE x \in S : rank(x) = j - 1
    <3> HIDE DEF c, j
    <3> QED
      BY <1>3, <2>2
  <2>4. (CHOOSE x \in S : rank(x) = j - 1) = k
    <3> HIDE DEF rank, c, j
    <3> QED
      BY <2>1, <2>2
  <2> HIDE DEF c, j
  <2> QED
    BY <2>2, <2>3, <2>4
<1>9. \A j \in 1 .. Len(Pos(args)) : Pos(args)[j] \in 1 .. 7
  <2> HIDE DEF c
  <2> QED
    BY <1>5, ElementOfSeq
<1>10. Len(args) \in 0 .. 7 /\ c \in 0 .. 7
  <2> DEFINE L == Len(args)
  <2>1. L \in Nat /\ L <= 7
    BY <1>1
  <2>2. c \in Nat /\ c <= L
    BY <1>4
  <2> HIDE DEF c, L
  <2>3. L \in 0 .. 7 /\ c \in 0 .. 7
    BY <2>1, <2>2
  <2> QED
    BY <2>3 DEF L
<1>11. \A k \in DOMAIN args : Index[args[k]] # k => \E j \in 1 .. c : Pos(args)[j] = k
  <2> HIDE DEF c
  <2> QED
    BY <1>8 DEF S
<1> HIDE DEF c
<1> QED
  BY <1>1, <1>5, <1>6, <1>7, <1>9, <1>10, <1>11

LEMMA Joined ==
  ASSUME NEW m \in Nat, NEW f, NEW g,
         f = [j \in 1 .. m |-> f[j]], g = [j \in 1 .. m |-> g[j]]
  PROVE  /\ Len(f \o g) = 2 * m
         /\ \A j \in 1 .. 2 * m : (f \o g)[j] = IF j <= m THEN f[j] ELSE g[j - m]
<1> DEFINE S == {f[j] : j \in 1 .. m} \union {g[j] : j \in 1 .. m}
<1>1. f \in [1 .. m -> S] /\ g \in [1 .. m -> S]
  <2>1. \A j \in 1 .. m : f[j] \in S /\ g[j] \in S
    OBVIOUS
  <2> HIDE DEF S
  <2> QED
    BY <2>1
<1> HIDE DEF S
<1>2. f \in Seq(S) /\ g \in Seq(S)
  BY <1>1, SeqDef
<1>3. Len(f) = m /\ Len(g) = m
  BY <1>1
<1>4. /\ Len(f \o g) = m + m
      /\ \A j \in 1 .. m + m : (f \o g)[j] = IF j <= m THEN f[j] ELSE g[j - m]
  BY <1>2, <1>3, ConcatProperties
<1>5. m + m = 2 * m
  OBVIOUS
<1> QED
  BY <1>4, <1>5

LEMMA Concatenated ==
  \A s, t \in Seq(Decoded) :
    /\ s \o t \in Seq(Decoded) /\ Len(s \o t) = Len(s) + Len(t)
    /\ \A i \in 1 .. Len(s) + Len(t) : (s \o t)[i] = IF i <= Len(s) THEN s[i] ELSE t[i - Len(s)]
  BY ConcatProperties

LEMMA PrintWordsAre ==
  ASSUME NEW args \in Seq(Names), AllInFile(args), Len(args) <= 7
  PROVE  LET pos == Pos(args)
             m == Len(pos)
             words == PrintWords(args, pos)
         IN /\ Len(words) = 5 * m + 9
            /\ \A j \in 1 .. 2 * m :
                 words[j] = Emit_str_imm(SP, Int32(-8), Bits(Pushed(args, j)), Ls_mode.pre)
            /\ \A j \in 1 .. m :
                 words[2 * m + j] = Emit_ldr_imm(SP, Int32(8 * (m - j)), Bits(pos[j]), Ls_mode.offset)
            /\ \A j \in 1 .. 9 : words[3 * m + j] = Call(Len(args))[j]
            /\ \A j \in 1 .. 2 * m :
                 words[3 * m + 9 + j] =
                   Emit_ldr_imm(SP, Int32(8), Bits(Pushed(args, 2 * m + 1 - j)), Ls_mode.post)
<1> DEFINE pos == Pos(args)
           m == Len(pos)
           rev == Reverse(pos)
           saved == Saved(args, pos)
           moved == Moved(pos)
           call == Call(Len(args))
           restored == Restored(args, pos)
<1>1. m \in 0 .. 7 /\ DOMAIN pos = 1 .. m
  BY PosIs
<1>2. \A j \in 1 .. m : rev[j] = pos[m + 1 - j]
  <2>1. \A j \in 1 .. m : rev[j] = pos[(m - j) + 1]
    BY DEF Reverse
  <2>2. \A j \in 1 .. m : (m - j) + 1 = m + 1 - j
    BY <1>1
  <2> QED
    BY <2>1, <2>2
<1>3. saved \in Seq(Decoded) /\ moved \in Seq(Decoded) /\ restored \in Seq(Decoded)
      /\ call \in Seq(Decoded)
  BY SequencesDecode, CallDecodes
<1>4. /\ Len(saved) = 2 * m
      /\ \A j \in 1 .. 2 * m : saved[j] =
           Emit_str_imm(SP, Int32(-8), Bits(Pushed(args, j)), Ls_mode.pre)
  <2> DEFINE f == [j \in 1 .. m |-> Emit_str_imm(SP, Int32(-8), Bits(pos[j]), Ls_mode.pre)]
             g == [j \in 1 .. m |-> Emit_str_imm(SP, Int32(-8), Get_register(args[pos[j]]),
                                                 Ls_mode.pre)]
  <2>1. saved = f \o g
    BY <1>1 DEF Saved
  <2>2. f = [j \in 1 .. m |-> f[j]] /\ g = [j \in 1 .. m |-> g[j]] /\ m \in Nat
    BY <1>1
  <2>3. /\ \A j \in 1 .. m : f[j] = Emit_str_imm(SP, Int32(-8), Bits(pos[j]), Ls_mode.pre)
        /\ \A j \in 1 .. m : g[j] = Emit_str_imm(SP, Int32(-8), Bits(Index[args[pos[j]]]), Ls_mode.pre)
    BY DEF Get_register
  <2> HIDE DEF f, g, m
  <2>4. /\ Len(f \o g) = 2 * m
        /\ \A j \in 1 .. 2 * m : (f \o g)[j] = IF j <= m THEN f[j] ELSE g[j - m]
    BY <2>2, Joined
  <2>5. ASSUME NEW j \in 1 .. 2 * m
        PROVE  (f \o g)[j] = Emit_str_imm(SP, Int32(-8), Bits(Pushed(args, j)), Ls_mode.pre)
    <3>1. CASE j <= m
      <4>1. j \in 1 .. m /\ Pushed(args, j) = pos[j]
        BY <1>1, <3>1 DEF Pushed, m
      <4> QED
        BY <2>3, <2>4, <3>1, <4>1
    <3>2. CASE ~ j <= m
      <4>1. j - m \in 1 .. m /\ Pushed(args, j) = Index[args[pos[j - m]]]
        BY <1>1, <3>2 DEF Pushed, m
      <4> QED
        BY <2>3, <2>4, <3>2, <4>1
    <3> QED
      BY <3>1, <3>2
  <2> QED
    BY <2>1, <2>4, <2>5
<1>5. /\ Len(moved) = m
      /\ \A j \in 1 .. m : moved[j] =
           Emit_ldr_imm(SP, Int32(8 * (m - j)), Bits(pos[j]), Ls_mode.offset)
  BY <1>1 DEF Moved
<1>6. /\ Len(restored) = 2 * m
      /\ \A j \in 1 .. 2 * m : restored[j] =
           Emit_ldr_imm(SP, Int32(8), Bits(Pushed(args, 2 * m + 1 - j)), Ls_mode.post)
  <2> DEFINE f == [j \in 1 .. m |-> Emit_ldr_imm(SP, Int32(8), Get_register(args[rev[j]]),
                                                 Ls_mode.post)]
             g == [j \in 1 .. m |-> Emit_ldr_imm(SP, Int32(8), Bits(rev[j]), Ls_mode.post)]
  <2>1. restored = f \o g
    BY <1>1 DEF Restored
  <2>2. f = [j \in 1 .. m |-> f[j]] /\ g = [j \in 1 .. m |-> g[j]] /\ m \in Nat
    BY <1>1
  <2>3. /\ \A j \in 1 .. m : f[j] = Emit_ldr_imm(SP, Int32(8), Bits(Index[args[pos[m + 1 - j]]]),
                                                 Ls_mode.post)
        /\ \A j \in 1 .. m : g[j] = Emit_ldr_imm(SP, Int32(8), Bits(pos[m + 1 - j]), Ls_mode.post)
    BY <1>2 DEF Get_register
  <2> HIDE DEF f, g, m
  <2>4. /\ Len(f \o g) = 2 * m
        /\ \A j \in 1 .. 2 * m : (f \o g)[j] = IF j <= m THEN f[j] ELSE g[j - m]
    BY <2>2, Joined
  <2>5. ASSUME NEW j \in 1 .. 2 * m
        PROVE  (f \o g)[j] = Emit_ldr_imm(SP, Int32(8), Bits(Pushed(args, 2 * m + 1 - j)), Ls_mode.post)
    <3>1. CASE j <= m
      <4>1. j \in 1 .. m /\ ~ (2 * m + 1 - j <= m) /\ (2 * m + 1 - j) - m = m + 1 - j
        BY <1>1, <3>1
      <4>2. Pushed(args, 2 * m + 1 - j) = Index[args[pos[m + 1 - j]]]
        BY <4>1 DEF Pushed, m
      <4> QED
        BY <2>3, <2>4, <3>1, <4>1, <4>2
    <3>2. CASE ~ j <= m
      <4>1. j - m \in 1 .. m /\ 2 * m + 1 - j <= m /\ m + 1 - (j - m) = 2 * m + 1 - j
        BY <1>1, <3>2
      <4>2. Pushed(args, 2 * m + 1 - j) = pos[2 * m + 1 - j]
        BY <4>1 DEF Pushed, m
      <4> QED
        BY <2>3, <2>4, <3>2, <4>1, <4>2
    <3> QED
      BY <3>1, <3>2
  <2> QED
    BY <2>1, <2>4, <2>5
<1>7. Len(call) = 9
  BY DEF Call
<1> HIDE DEF saved, moved, call, restored, m
<1> DEFINE w2 == saved \o moved
           w3 == w2 \o call
           words == w3 \o restored
<1>8. w2 \in Seq(Decoded) /\ Len(w2) = 3 * m
      /\ \A i \in 1 .. 3 * m : w2[i] = IF i <= 2 * m THEN saved[i] ELSE moved[i - 2 * m]
  <2>1. Len(saved) = 2 * m /\ Len(moved) = m /\ 2 * m + m = 3 * m
    BY <1>1, <1>4, <1>5
  <2>2. /\ saved \o moved \in Seq(Decoded) /\ Len(saved \o moved) = Len(saved) + Len(moved)
        /\ \A i \in 1 .. Len(saved) + Len(moved) :
             (saved \o moved)[i] = IF i <= Len(saved) THEN saved[i] ELSE moved[i - Len(saved)]
    BY <1>3, Concatenated
  <2> QED
    BY <2>1, <2>2, Zenon
<1> HIDE DEF w2
<1>9. w3 \in Seq(Decoded) /\ Len(w3) = 3 * m + 9
      /\ \A i \in 1 .. 3 * m + 9 : w3[i] = IF i <= 3 * m THEN w2[i] ELSE call[i - 3 * m]
  <2>1. /\ w2 \o call \in Seq(Decoded) /\ Len(w2 \o call) = Len(w2) + Len(call)
        /\ \A i \in 1 .. Len(w2) + Len(call) :
             (w2 \o call)[i] = IF i <= Len(w2) THEN w2[i] ELSE call[i - Len(w2)]
    BY <1>3, <1>8, Concatenated
  <2> QED
    BY <1>7, <1>8, <2>1, Zenon
<1> HIDE DEF w3
<1>10. Len(words) = 5 * m + 9
       /\ \A i \in 1 .. 5 * m + 9 :
            words[i] = IF i <= 3 * m + 9 THEN w3[i] ELSE restored[i - (3 * m + 9)]
  <2>1. Len(w3) = 3 * m + 9 /\ Len(restored) = 2 * m /\ (3 * m + 9) + 2 * m = 5 * m + 9
    BY <1>1, <1>6, <1>9
  <2>2. /\ Len(w3 \o restored) = Len(w3) + Len(restored)
        /\ \A i \in 1 .. Len(w3) + Len(restored) :
             (w3 \o restored)[i] = IF i <= Len(w3) THEN w3[i] ELSE restored[i - Len(w3)]
    BY <1>3, <1>9, Concatenated
  <2> QED
    BY <2>1, <2>2, Zenon
<1>11. words = PrintWords(args, pos)
  BY DEF PrintWords, w2, w3, saved, moved, call, restored
<1> HIDE DEF words
<1>12. ASSUME NEW j \in 1 .. 2 * m
       PROVE  words[j] = saved[j]
  <2>1. j \in 1 .. 3 * m /\ j \in 1 .. 3 * m + 9 /\ j \in 1 .. 5 * m + 9 /\ j <= 3 * m + 9
        /\ j <= 3 * m /\ j <= 2 * m
    BY <1>1
  <2> QED
    BY <1>8, <1>9, <1>10, <2>1
<1>13. ASSUME NEW j \in 1 .. m
       PROVE  words[2 * m + j] = moved[j]
  <2> DEFINE i == 2 * m + j
  <2>1. i \in 1 .. 3 * m /\ i \in 1 .. 3 * m + 9 /\ i \in 1 .. 5 * m + 9 /\ i <= 3 * m + 9
        /\ i <= 3 * m /\ ~ (i <= 2 * m) /\ i - 2 * m = j
    BY <1>1
  <2> HIDE DEF i
  <2> QED
    BY <1>8, <1>9, <1>10, <2>1 DEF i
<1>14. ASSUME NEW j \in 1 .. 9
       PROVE  words[3 * m + j] = call[j]
  <2> DEFINE i == 3 * m + j
  <2>1. i \in 1 .. 3 * m + 9 /\ i \in 1 .. 5 * m + 9 /\ i <= 3 * m + 9
        /\ ~ (i <= 3 * m) /\ i - 3 * m = j
    BY <1>1
  <2> HIDE DEF i
  <2> QED
    BY <1>9, <1>10, <2>1 DEF i
<1>15. ASSUME NEW j \in 1 .. 2 * m
       PROVE  words[3 * m + 9 + j] = restored[j]
  <2> DEFINE i == 3 * m + 9 + j
  <2>1. i \in 1 .. 5 * m + 9 /\ ~ (i <= 3 * m + 9) /\ i - (3 * m + 9) = j
    BY <1>1
  <2> HIDE DEF i
  <2> QED
    BY <1>10, <2>1 DEF i
<1> QED
  BY <1>4, <1>5, <1>6, <1>10, <1>11, <1>12, <1>13, <1>14, <1>15 DEF m, call

-----------------------------------------------------------------------------
(***************************************************************************)
(* The meaning of the program.                                             *)
(***************************************************************************)
LEMMA AfterIs ==
  ASSUME NEW L \in Nat, L = Len(prog)
  PROVE  After(0) = Start /\ \A n \in 1 .. L : After(n) = Step(After(n - 1), prog[n])
<1> DEFINE turn(f) == [k \in 0 .. L |-> IF k = 0 THEN Start ELSE Step(f[k - 1], prog[k])]
           state == CHOOSE f : f = turn(f)
           Good(f, n) == /\ f = [k \in 0 .. n |-> f[k]] /\ f[0] = Start
                         /\ \A k \in 1 .. n : f[k] = Step(f[k - 1], prog[k])
           X == {n \in Nat : \E f : Good(f, n)}
<1>1. \A n : After(n) = state[n]
  BY DEF After
<1>2. 0 \in X
  <2>1. Good([k \in 0 .. 0 |-> Start], 0)
    OBVIOUS
  <2> HIDE DEF Good
  <2> QED
    BY <2>1
<1>3. ASSUME NEW n \in Nat, n \in X
      PROVE  n + 1 \in X
  <2>1. PICK f : Good(f, n)
    BY <1>3
  <2> DEFINE g == [k \in 0 .. n + 1 |-> IF k <= n THEN f[k] ELSE Step(f[n], prog[n + 1])]
  <2>2. g = [k \in 0 .. n + 1 |-> g[k]] /\ g[0] = f[0] /\ g[n + 1] = Step(f[n], prog[n + 1])
        /\ \A k \in 0 .. n : g[k] = f[k]
    OBVIOUS
  <2> HIDE DEF g
  <2>3. ASSUME NEW k \in 1 .. n + 1
        PROVE  g[k] = Step(g[k - 1], prog[k])
    <3>1. CASE k = n + 1
      <4>1. k - 1 = n /\ n \in 0 .. n
        BY <3>1
      <4> QED
        BY <2>2, <3>1, <4>1
    <3>2. CASE k # n + 1
      <4>1. k \in 1 .. n /\ k \in 0 .. n /\ k - 1 \in 0 .. n
        BY <3>2
      <4> QED
        BY <2>1, <2>2, <4>1
    <3> QED
      BY <3>1, <3>2
  <2>4. Good(g, n + 1)
    BY <2>1, <2>2, <2>3
  <2> HIDE DEF Good
  <2> QED
    BY <2>4
<1>4. PICK f : Good(f, L)
  <2> HIDE DEF X
  <2>1. L \in X
    BY <1>2, <1>3, Induction
  <2> QED
    BY <2>1 DEF X
<1>5. f = turn(f)
  <2>1. \A k \in 0 .. L : f[k] = IF k = 0 THEN Start ELSE Step(f[k - 1], prog[k])
    <3>1. \A k \in 0 .. L : k = 0 \/ k \in 1 .. L
      OBVIOUS
    <3> QED
      BY <1>4, <3>1
  <2>2. f = [k \in 0 .. L |-> f[k]]
    BY <1>4
  <2> QED
    BY <2>1, <2>2
<1>6. state = turn(state)
  <2> HIDE DEF turn
  <2> QED
    BY <1>5
<1> HIDE DEF state
<1>7. \A k \in 0 .. L : turn(state)[k] = IF k = 0 THEN Start ELSE Step(state[k - 1], prog[k])
  OBVIOUS
<1> HIDE DEF turn
<1>8. \A k \in 0 .. L : state[k] = IF k = 0 THEN Start ELSE Step(state[k - 1], prog[k])
  BY <1>6, <1>7
<1>9. 0 \in 0 .. L /\ \A k \in 1 .. L : k \in 0 .. L /\ k # 0
  OBVIOUS
<1> QED
  BY <1>1, <1>8, <1>9

LEMMA AfterKept ==
  ASSUME NEW n, prog' = prog
  PROVE  After(n)' = After(n)
  BY DEF After

\* Multiples of b that are less than b apart are the same.
LEMMA Apart ==
  ASSUME NEW b \in Int, b # 0, NEW p \in Int, NEW q \in Int,
         NEW x \in Int, NEW y \in Int, x = p * b, y = q * b, x - y < Abs(b), y - x < Abs(b)
  PROVE  p = q
<1> SUFFICES ASSUME p # q
             PROVE  FALSE
  OBVIOUS
<1> DEFINE d == p - q
<1>1. d \in Int /\ d # 0 /\ x - y = d * b /\ y - x = (-d) * b
  <2>1. (p - q) * b = p * b - q * b /\ (-(p - q)) * b = q * b - p * b
    OBVIOUS
  <2> QED
    BY <2>1
<1> HIDE DEF d
<1>2. \A m, n \in Int : m >= 1 /\ n >= 1 => m * n >= n
  OBVIOUS
<1>3. \A m, n \in Int : (-m) * n = -(m * n) /\ m * (-n) = -(m * n) /\ (-m) * (-n) = m * n
  OBVIOUS
<1>4. CASE b > 0 /\ d > 0
  <2>1. d * b >= b
    BY <1>1, <1>2, <1>4
  <2> QED
    BY <1>1, <1>4, <2>1 DEF Abs
<1>5. CASE b > 0 /\ d < 0
  <2>1. (-d) * b >= b
    <3>1. -d \in Int /\ -d >= 1 /\ b >= 1
      BY <1>1, <1>5
    <3> QED
      BY <1>2, <3>1
  <2> QED
    BY <1>1, <1>5, <2>1 DEF Abs
<1>6. CASE b < 0 /\ d > 0
  <2>1. d * (-b) >= -b
    <3>1. -b \in Int /\ -b >= 1 /\ d >= 1
      BY <1>1, <1>6
    <3> QED
      BY <1>1, <1>2, <3>1
  <2>2. d * (-b) = (-d) * b
    BY <1>1, <1>3
  <2> QED
    BY <1>1, <1>6, <2>1, <2>2 DEF Abs
<1>7. CASE b < 0 /\ d < 0
  <2>1. (-d) * (-b) >= -b
    <3>1. -b \in Int /\ -b >= 1 /\ -d \in Int /\ -d >= 1
      BY <1>1, <1>7
    <3> QED
      BY <1>2, <3>1
  <2>2. (-d) * (-b) = d * b
    BY <1>1, <1>3
  <2> QED
    BY <1>1, <1>7, <2>1, <2>2 DEF Abs
<1> QED
  BY <1>1, <1>4, <1>5, <1>6, <1>7

\* The processor's quotient is the one truncated towards zero.
LEMMA QuotientIs ==
  ASSUME NEW a \in Int, NEW b \in Int, b # 0
  PROVE  Quotient(a, b) = CHOOSE q \in -(Abs(a)) .. Abs(a) :
                            LET r == a - q * b IN
                            Abs(r) < Abs(b) /\ (r = 0 \/ (r < 0) = (a < 0))
<1> DEFINE al == Abs(a)
           be == Abs(b)
           q0 == al \div be
           rho == al % be
           Q == Quotient(a, b)
           Truncated(q) == LET r == a - q * b IN
                           Abs(r) < Abs(b) /\ (r = 0 \/ (r < 0) = (a < 0))
<1>1. al \in Nat /\ be \in Nat \ {0}
  BY DEF Abs
<1>2. (a < 0 => a = -al) /\ (a >= 0 => a = al) /\ (b < 0 => b = -be) /\ (b > 0 => b = be)
  BY DEF Abs
<1>3. Q = IF (a < 0) = (b < 0) THEN q0 ELSE -q0
  BY DEF Quotient
<1> HIDE DEF al, be
<1>4. q0 \in Int /\ rho \in 0 .. be - 1 /\ al = be * q0 + rho
  <2>1. al \in Int
    BY <1>1
  <2> QED
    BY <1>1, <2>1, DivMod
<1> HIDE DEF q0, rho, Q
<1>5. q0 \in 0 .. al
  <2>1. \A m, n \in Int : m >= 1 /\ n <= -1 => m * n <= -m
    <3> SUFFICES ASSUME NEW m \in Int, NEW n \in Int, m >= 1, n <= -1
                 PROVE  m * n <= -m
      OBVIOUS
    <3>1. m * n <= m * (-1)
      OBVIOUS
    <3> QED
      BY <3>1
  <2>2. \A m, n \in Int : m >= 1 /\ n >= 0 => m * n >= n
    OBVIOUS
  <2>3. be * q0 \in Int
    BY <1>1, <1>4
  <2>4. q0 >= 0
    <3> SUFFICES ASSUME q0 <= -1
                 PROVE  FALSE
      BY <1>4
    <3>1. be * q0 <= -be
      BY <1>1, <1>4, <2>1
    <3> QED
      BY <1>1, <1>4, <2>3, <3>1
  <2>5. be * q0 >= q0
    BY <1>1, <1>4, <2>2, <2>4
  <2> QED
    BY <1>1, <1>4, <2>3, <2>4, <2>5
<1>6. Q \in -al .. al /\ Q \in Int
  BY <1>1, <1>3, <1>5
<1>7. a - Q * b = IF a < 0 THEN -rho ELSE rho
  <2>1. \A m, n \in Int : (-m) * n = -(m * n) /\ m * (-n) = -(m * n) /\ (-m) * (-n) = m * n
    OBVIOUS
  <2>2. q0 * be = be * q0 /\ q0 * be \in Int
    BY <1>1, <1>4
  <2>3. b < 0 \/ b > 0
    OBVIOUS
  <2>4. CASE a < 0 /\ b < 0
    <3>1. Q * b = -(q0 * be)
      BY <1>1, <1>2, <1>3, <1>4, <2>1, <2>4
    <3> QED
      BY <1>1, <1>2, <1>4, <2>2, <2>4, <3>1
  <2>5. CASE a < 0 /\ b > 0
    <3>1. Q * b = -(q0 * be)
      BY <1>1, <1>2, <1>3, <1>4, <2>1, <2>5
    <3> QED
      BY <1>1, <1>2, <1>4, <2>2, <2>5, <3>1
  <2>6. CASE a >= 0 /\ b < 0
    <3>1. Q * b = q0 * be
      BY <1>1, <1>2, <1>3, <1>4, <2>1, <2>6
    <3> QED
      BY <1>1, <1>2, <1>4, <2>2, <2>6, <3>1
  <2>7. CASE a >= 0 /\ b > 0
    <3>1. Q * b = q0 * be
      BY <1>1, <1>2, <1>3, <1>4, <2>1, <2>7
    <3> QED
      BY <1>1, <1>2, <1>4, <2>2, <2>7, <3>1
  <2> QED
    BY <2>3, <2>4, <2>5, <2>6, <2>7
<1>8. Truncated(Q)
  <2> DEFINE r == a - Q * b
  <2>1. r = IF a < 0 THEN -rho ELSE rho
    BY <1>7
  <2> HIDE DEF r
  <2>2. Abs(r) = rho
    BY <1>1, <1>4, <2>1 DEF Abs
  <2>3. r = 0 \/ (r < 0) = (a < 0)
    BY <1>1, <1>4, <2>1
  <2> QED
    BY <1>1, <1>4, <2>2, <2>3 DEF r, be
<1>9. ASSUME NEW q \in -al .. al, Truncated(q)
      PROVE  q = Q
  <2> DEFINE r == a - q * b
             s == a - Q * b
             x == q * b
             y == Q * b
  <2>1. q \in Int /\ x \in Int /\ y \in Int
    BY <1>1, <1>6
  <2>2. Abs(r) < be /\ (r = 0 \/ (r < 0) = (a < 0)) /\ Abs(s) < be /\ (s = 0 \/ (s < 0) = (a < 0))
    BY <1>8, <1>9 DEF be
  <2>3. r = a - x /\ s = a - y
    OBVIOUS
  <2> HIDE DEF r, s, x, y
  <2>4. r \in Int /\ s \in Int
    BY <2>1, <2>3
  <2>5. r - s < be /\ s - r < be
    BY <1>1, <2>2, <2>4 DEF Abs
  <2>6. y - x < be /\ x - y < be
    BY <1>1, <2>1, <2>3, <2>5
  <2> QED
    BY <1>6, <2>1, <2>6, Apart DEF x, y, be
<1>10. (CHOOSE q \in -al .. al : Truncated(q)) = Q
  <2> HIDE DEF Truncated
  <2> QED
    BY <1>6, <1>8, <1>9
<1> QED
  BY <1>10 DEF al, Q

LEMMA MeaningIs ==
  ASSUME NEW op \in Operations, NEW a \in Int, NEW b \in Int
  PROVE  /\ op = "div" /\ b # 0 => Computed(op, a, b) = Meaning(op, a, b)
         /\ op # "div" => Computed(op, a, b) = Meaning(op, a, b)
         /\ Meaning(op, a, b) \in Val
<1>1. ASSUME op = "div", b # 0
      PROVE  Computed(op, a, b) = Meaning(op, a, b)
  BY <1>1, QuotientIs DEF Computed, Meaning
<1>2. ASSUME op # "div"
      PROVE  Computed(op, a, b) = Meaning(op, a, b)
  BY <1>2 DEF Computed, Meaning, Operations
<1>3. Meaning(op, a, b) \in Val
  <2>1. CASE op = "div" /\ b # 0
    <3>1. Abs(a) \in Int
      BY DEF Abs
    <3>2. Quotient(a, b) \in Int
      <4>1. CASE Abs(a) \div Abs(b) \in Int
        BY <2>1, <4>1 DEF Quotient
      <4>2. Abs(a) \in Int /\ Abs(b) \in Nat \ {0}
        BY <2>1 DEF Abs
      <4> QED
        BY <4>1, <4>2, DivMod
    <3>3. Meaning(op, a, b) = Wrap(Quotient(a, b))
      BY <1>1, <2>1 DEF Computed
    <3> QED
      BY <3>2, <3>3, WrapIs
  <2>2. CASE op = "div" /\ b = 0
    <3>1. 0 \in Val
      BY Widths DEF Val
    <3> QED
      BY <2>2, <3>1 DEF Meaning
  <2>3. CASE op # "div"
    <3>1. a + b \in Int /\ a - b \in Int /\ a * b \in Int
      OBVIOUS
    <3>2. Wrap(a + b) \in Val /\ Wrap(a - b) \in Val /\ Wrap(a * b) \in Val
      BY <3>1, WrapIs
    <3> QED
      BY <2>3, <3>2 DEF Meaning, Operations
  <2> QED
    BY <2>1, <2>2, <2>3
<1> QED
  BY <1>1, <1>2, <1>3

LEMMA WordsTyped ==
  ASSUME NEW ins \in Instr, Taken(ins)
  PROVE  Words(ins) \in Seq(Decoded) /\ Len(Words(ins)) \in Nat \ {0}
<1>1. /\ ins.dest \in Names /\ ins.args \in Seq(Names) \union {NoArgs}
  BY DEF Instr
<1>2. CASE ins.op = "const"
  <2> DEFINE word == ConstWord(Get_register(ins.dest), ins.value)
  <2>1. Get_register(ins.dest) \in Reg5 /\ Parts(ins.value)[0] \in Half
    BY <1>1, <1>2, Registers, BitsInHalf DEF Parts, Taken
  <2>2. word \in Decoded
    BY <2>1, MovDecodes, DecodedIs DEF ConstWord
  <2>3. Words(ins) = <<word>>
    BY <1>2 DEF Words
  <2> HIDE DEF word
  <2> QED
    BY <2>2, <2>3
<1>3. CASE ins.op \in Operations
  <2> DEFINE word == BinopWord(ins.op, Get_register(ins.dest), Get_register(ins.args[1]),
                               Get_register(ins.args[2]))
  <2>1. ins.args \in Seq(Names) /\ Len(ins.args) >= 2 /\ InFile(ins.dest)
        /\ InFile(ins.args[1]) /\ InFile(ins.args[2])
    BY <1>3 DEF Taken
  <2>2. ins.args[1] \in Names /\ ins.args[2] \in Names
    <3>1. 1 \in 1 .. Len(ins.args) /\ 2 \in 1 .. Len(ins.args)
      BY <2>1, LenProperties
    <3> QED
      BY <2>1, <3>1, ElementOfSeq
  <2>3. /\ Get_register(ins.dest) \in Reg5 /\ Get_register(ins.args[1]) \in Reg5
        /\ Get_register(ins.args[2]) \in Reg5
    BY <1>1, <2>1, <2>2, Registers
  <2>4. word \in Decoded
    BY <2>3, BinopDecodes, DecodedIs DEF BinopWord
  <2>5. Words(ins) = <<word>>
    BY <1>3 DEF Words, Operations
  <2> HIDE DEF word
  <2> QED
    BY <2>4, <2>5
<1>4. CASE ins.op = "ret"
  <2> DEFINE mov == Emit_orr_sr({}, Get_register(ins.args[1]))
  <2>1. Emit_ret \in Decoded
    BY Registers, BranchDecodes, DecodedIs
  <2>2. CASE ins.args # NoArgs /\ Len(ins.args) = 1
    <3>1. ins.args[1] \in Names /\ InFile(ins.args[1])
      BY <1>1, <1>4, <2>2, ElementOfSeq DEF Taken
    <3>2. mov \in Decoded
      BY <3>1, Registers, MovRegisterDecodes, DecodedIs
    <3>3. Words(ins) = <<mov, Emit_ret>>
      BY <1>4, <2>2 DEF Words
    <3> HIDE DEF mov
    <3> QED
      BY <2>1, <3>2, <3>3
  <2>3. CASE ~ (ins.args # NoArgs /\ Len(ins.args) = 1)
    <3>1. Words(ins) = <<Emit_ret>>
      BY <1>4, <2>3 DEF Words
    <3> QED
      BY <2>1, <3>1
  <2> QED
    BY <2>2, <2>3
<1>5. CASE ins.op = "print"
  <2> DEFINE pos == Pos(ins.args)
  <2>1. ins.args \in Seq(Names) /\ AllInFile(ins.args) /\ Len(ins.args) <= 7
    BY <1>5 DEF Taken
  <2>2. /\ Saved(ins.args, pos) \in Seq(Decoded) /\ Moved(pos) \in Seq(Decoded)
        /\ Restored(ins.args, pos) \in Seq(Decoded) /\ Call(Len(ins.args)) \in Seq(Decoded)
    BY <2>1, SequencesDecode, CallDecodes
  <2>3. PrintWords(ins.args, pos) \in Seq(Decoded)
    BY <2>2, ConcatProperties DEF PrintWords
  <2>4. Len(PrintWords(ins.args, pos)) = 5 * Len(pos) + 9 /\ Len(pos) \in 0 .. 7
    BY <2>1, PrintWordsAre, PosIs
  <2>5. Words(ins) = PrintWords(ins.args, pos)
    BY <1>5 DEF Words
  <2> HIDE DEF pos
  <2> QED
    BY <2>3, <2>4, <2>5
<1> QED
  BY <1>2, <1>3, <1>4, <1>5 DEF Taken

\* What a step of the parser can do.
LEMMA ParseTakes ==
  ASSUME IInv, Parse
  PROVE  /\ Parsing /\ Ins \in Instr
         /\ \/ \E how : Stop(how) /\ (how \in {"threw", "asserted"} \/ (how = "undef" /\ ~ Regular))
            \/ Taken(Ins) /\ Push(Words(Ins))
<1>1. /\ Parsing /\ Ins \in Instr /\ Ins.dest \in Names
      /\ Ins.args \in Seq(Names) \union {NoArgs}
  <2>1. Parsing
    BY DEF Parse, Parse_label, Parse_unsupported, Parse_const, Parse_binop, Parse_ret,
           Parse_print
  <2> QED
    BY <2>1, InsTyped DEF Instr
<1>2. Len(starts) + 1 \in DOMAIN prog
  <2>1. prog \in Seq(Instr) /\ Len(starts) \in Nat /\ Len(prog) \in Nat
    BY JitAssumption, LenProperties DEF IInv
  <2> QED
    BY <1>1, <2>1 DEF Parsing
<1>3. Ins.args # NoArgs => Ins.args \in Seq(Names) /\ Len(Ins.args) \in Nat
  BY <1>1, LenProperties
<1>4. CASE Parse_const
  <2>1. CASE Stop("threw") \/ Stop("asserted")
    BY <1>1, <2>1
  <2>2. CASE ~ (Stop("threw") \/ Stop("asserted"))
    <3>1. Ins.op = "const" /\ InFile(Ins.dest)
          /\ Push(<<ConstWord(Get_register(Ins.dest), Ins.value)>>)
      BY <1>4, <2>2 DEF Parse_const
    <3>2. Taken(Ins) /\ Words(Ins) = <<ConstWord(Get_register(Ins.dest), Ins.value)>>
      BY <3>1 DEF Taken, Words, Operations
    <3> QED
      BY <1>1, <3>1, <3>2
  <2> QED
    BY <2>1, <2>2
<1>5. CASE Parse_binop
  <2>1. CASE Stop("threw") \/ Stop("asserted")
    BY <1>1, <2>1
  <2>2. CASE Stop("undef") /\ ~ (Stop("threw") \/ Stop("asserted"))
    <3>1. Ins.op \in {"add", "sub", "mul", "div"} /\ Ins.args # NoArgs
      BY <1>5, <2>2 DEF Parse_binop
    <3>2. ~ build.asserts /\ ~ Len(Ins.args) > 1
      <4>1. ~ Push(<<BinopWord(Ins.op, Get_register(Ins.dest),
                    Get_register(Ins.args[1]), Get_register(Ins.args[2]))>>)
        <5>1. Len(Append(starts, Len(code))) = Len(starts) + 1 /\ Len(starts) \in Nat
          BY AppendProperties, LenProperties DEF IInv
        <5>2. starts' = starts
          BY <2>2 DEF Stop, parser
        <5> QED
          BY <5>1, <5>2 DEF Push
      <4>2. ~ (Len(Ins.args) # 2 /\ build.asserts) /\ Len(Ins.args) < 2
        BY <1>5, <2>2, <4>1, <3>1 DEF Parse_binop
      <4> QED
        BY <1>3, <3>1, <4>2
    <3>3. ~ Regular
      BY <1>2, <3>1, <3>2 DEF Regular, Ins
    <3> QED
      BY <1>1, <2>2, <3>3
  <2>3. CASE ~ (Stop("threw") \/ Stop("asserted") \/ Stop("undef"))
    <3> DEFINE word == BinopWord(Ins.op, Get_register(Ins.dest),
                                 Get_register(Ins.args[1]), Get_register(Ins.args[2]))
    <3>1. /\ Ins.args # NoArgs /\ AllInFile(Srcs(Ins.args)) /\ ~ Len(Ins.args) < 2
          /\ InFile(Ins.dest) /\ Push(<<word>>) /\ Ins.op \in Operations
      BY <1>5, <2>3 DEF Parse_binop, Operations
    <3>2. 1 \in 1 .. Len(Ins.args) /\ 2 \in 1 .. Len(Ins.args)
      BY <1>3, <3>1
    <3>3. Ins.args[1] \in Names /\ Ins.args[2] \in Names
      BY <1>3, <3>1, <3>2, ElementOfSeq
    <3>5. InFile(Ins.args[1]) /\ InFile(Ins.args[2])
      <4> DEFINE s == Srcs(Ins.args)
      <4>1. s = SubSeq(Ins.args, 1, 2)
        BY <3>1 DEF Srcs
      <4>2. \A i \in 1 .. 2 : Ins.args[i] \in Names
        BY <3>3
      <4>3. /\ s \in Seq(Names) /\ Len(s) = IF 1 <= 2 THEN 2 - 1 + 1 ELSE 0
            /\ \A i \in 1 .. 2 - 1 + 1 : s[i] = Ins.args[1 + i - 1]
        BY <1>3, <3>1, <4>1, <4>2, SubSeqProperties
      <4> HIDE DEF s
      <4>4. DOMAIN s = 1 .. 2 /\ s[1] = Ins.args[1] /\ s[2] = Ins.args[2]
        BY <4>3, LenProperties
      <4>5. InFile(s[1]) /\ InFile(s[2])
        BY <3>1, <4>4 DEF AllInFile, s
      <4> QED
        BY <4>4, <4>5
    <3>6. Taken(Ins)
      BY <1>3, <3>1, <3>2, <3>5 DEF Taken, Operations
    <3>7. Words(Ins) = <<word>>
      BY <3>1 DEF Words, Operations
    <3> QED
      BY <1>1, <3>1, <3>6, <3>7, Zenon
  <2> QED
    BY <2>1, <2>2, <2>3
<1>6. CASE Parse_ret
  <2>1. CASE Stop("threw") \/ Stop("asserted")
    BY <1>1, <2>1
  <2>2. CASE ~ (Stop("threw") \/ Stop("asserted"))
    <3>1. CASE Ins.args # NoArgs /\ Len(Ins.args) = 1
      <4>1. Ins.op = "ret" /\ InFile(Ins.args[1])
            /\ Push(<<Emit_orr_sr({}, Get_register(Ins.args[1])), Emit_ret>>)
        BY <1>6, <2>2, <3>1 DEF Parse_ret
      <4>2. Taken(Ins) /\ Words(Ins) = <<Emit_orr_sr({}, Get_register(Ins.args[1])), Emit_ret>>
        BY <3>1, <4>1 DEF Taken, Words, Operations
      <4> QED
        BY <1>1, <4>1, <4>2
    <3>2. CASE ~ (Ins.args # NoArgs /\ Len(Ins.args) = 1)
      <4>1. Ins.op = "ret" /\ Push(<<Emit_ret>>)
        BY <1>6, <2>2, <3>2 DEF Parse_ret
      <4>2. Taken(Ins) /\ Words(Ins) = <<Emit_ret>>
        BY <3>2, <4>1 DEF Taken, Words, Operations
      <4> QED
        BY <1>1, <4>1, <4>2
    <3> QED
      BY <3>1, <3>2
  <2> QED
    BY <2>1, <2>2
<1>7. CASE Parse_print
  <2>1. CASE Stop("threw") \/ Stop("asserted")
    BY <1>1, <2>1
  <2>2. CASE ~ (Stop("threw") \/ Stop("asserted"))
    <3> DEFINE pos == Pos(Ins.args)
    <3>1. /\ Ins.op = "print" /\ Ins.args # NoArgs /\ AllInFile(Ins.args) /\ ~ Len(Ins.args) > 7
          /\ Push(PrintWords(Ins.args, pos))
      <4> HIDE DEF pos
      <4>1. /\ Ins.op = "print" /\ Ins.args # NoArgs /\ AllInFile(Ins.args) /\ ~ Len(Ins.args) > 7
            /\ \E p \in {Pos(Ins.args)} :
                 Push(Saved(Ins.args, p) \o Moved(p) \o Call(Len(Ins.args))
                      \o Restored(Ins.args, p))
        BY <1>7, <2>2 DEF Parse_print
      <4> QED
        BY <4>1 DEF pos, PrintWords
    <3>2. Taken(Ins)
      BY <1>3, <3>1 DEF Taken, Operations
    <3>3. Words(Ins) = PrintWords(Ins.args, pos)
      BY <3>1 DEF Words
    <3> QED
      BY <1>1, <3>1, <3>2, <3>3, Zenon
  <2> QED
    BY <2>1, <2>2
<1>8. CASE Parse_label
  <2>1. ~ Regular /\ Stop("undef")
    BY <1>2, <1>8 DEF Parse_label, Regular, Ins
  <2> QED
    BY <1>1, <2>1
<1>9. CASE Parse_unsupported
  BY <1>1, <1>9 DEF Parse_unsupported
<1> QED
  BY <1>4, <1>5, <1>6, <1>7, <1>8, <1>9 DEF Parse

LEMMA PlaceKept ==
  ASSUME UNCHANGED <<prog, code, starts>>
  PROVE  \A n : /\ Place(n)' = Place(n) /\ (Laid(n)' <=> Laid(n))
<1> TAKE n
<1>1. \A i : Place(i)' = Place(i)
  BY DEF Place
<1>2. Laid(n)' <=> Laid(n)
  BY <1>1 DEF Laid
<1> QED
  BY <1>1, <1>2

\* The words of one more instruction.
LEMMA LaidNext ==
  ASSUME IInv, CodeInv, Parsing, Ins \in Instr, Taken(Ins), Push(Words(Ins)),
         NEW N, N = Len(starts), NEW L, L = Len(code)
  PROVE  /\ Len(starts') = N + 1 /\ Len(starts') <= Len(prog') /\ (Place(1) = 0)'
         /\ \A n \in 1 .. Len(starts') : Laid(n)'
<1> DEFINE words == Words(Ins)  W == Len(words)
<1>1. /\ N \in Nat /\ DOMAIN starts = 1 .. N /\ L \in Nat /\ starts \in Seq(Nat)
      /\ code \in Seq(Decoded) /\ Len(prog) \in Nat
  BY JitAssumption, LenProperties DEF IInv
<1>2. words \in Seq(Decoded) /\ W \in Nat \ {0}
  BY WordsTyped
<1>3. /\ code' = code \o words /\ starts' = Append(starts, Len(code)) /\ prog' = prog
      /\ prog[N + 1] = Ins
  BY DEF Push, Ins
<1>4. /\ Len(starts') = N + 1 /\ DOMAIN starts' = 1 .. N + 1 /\ starts'[N + 1] = L
      /\ \A i \in 1 .. N : starts'[i] = starts[i]
  BY <1>1, <1>3, AppendProperties
<1>5. /\ Len(code') = L + W
      /\ \A i \in 1 .. L + W : code'[i] = IF i <= L THEN code[i] ELSE words[i - L]
  <2> HIDE DEF words
  <2> QED
    BY <1>1, <1>2, <1>3, Concatenated
<1> HIDE DEF words, W
<1>6. Place(N + 1) = L /\ \A i \in 1 .. N : Place(i) = starts[i]
  <2>1. N + 1 \notin 1 .. N
    BY <1>1
  <2> QED
    BY <1>1, <2>1 DEF Place
<1>7. /\ \A i \in 1 .. N + 1 : Place(i)' = Place(i)
      /\ Place(N + 2)' = L + W
  <2>1. \A i \in 1 .. N + 1 : i \in DOMAIN starts' /\ (i = N + 1 \/ i \in 1 .. N)
    BY <1>1, <1>4
  <2>2. N + 2 \notin DOMAIN starts'
    BY <1>1, <1>4
  <2>3. \A i : Place(i)' = IF i \in DOMAIN starts' THEN starts'[i] ELSE Len(code')
    BY DEF Place
  <2> QED
    BY <1>4, <1>5, <1>6, <2>1, <2>2, <2>3
<1>8. \A i \in 1 .. N : Laid(i)
  BY DEF CodeInv
<1>9. \A i \in 1 .. N : Place(i) \in Nat /\ Len(Words(prog[i])) \in Nat \ {0}
                        /\ Place(i) + Len(Words(prog[i])) <= L
  <2> TAKE i \in 1 .. N
  <2>1. N \in 1 .. N /\ i \in 1 .. N
    BY <1>1
  <2>2. Place(i) + Len(Words(prog[i])) <= Place(N + 1)
    <3>1. \A j \in 1 .. N : Place(j) + Len(Words(prog[j])) <= Place(N + 1)
      BY <1>8, <2>1, Zenon DEF Laid
    <3> QED
      BY <2>1, <3>1
  <2> QED
    BY <1>6, <1>8, <2>1, <2>2 DEF Laid
<1>10. ASSUME NEW n \in 1 .. N
       PROVE  Laid(n)'
  <2> DEFINE V == Len(Words(prog[n]))
  <2>1. /\ Taken(prog[n]) /\ Place(n) \in Nat /\ V \in Nat \ {0} /\ Place(n + 1) = Place(n) + V
        /\ \A k \in 1 .. V : code[Place(n) + k] = Words(prog[n])[k]
        /\ \A i \in 1 .. n : Place(i) + Len(Words(prog[i])) <= Place(n + 1)
    BY <1>8, Zenon DEF Laid
  <2>2. Place(n)' = Place(n) /\ Place(n + 1)' = Place(n + 1)
    <3>1. n \in 1 .. N + 1 /\ n + 1 \in 1 .. N + 1
      BY <1>1
    <3> QED
      BY <1>7, <3>1
  <2>3. \A i \in 1 .. n : Place(i)' = Place(i)
    <3>1. \A i \in 1 .. n : i \in 1 .. N + 1
      BY <1>1
    <3> QED
      BY <1>7, <3>1
  <2>4. \A k \in 1 .. V : code'[Place(n) + k] = Words(prog[n])[k]
    <3> TAKE k \in 1 .. V
    <3>1. Place(n) + V <= L
      BY <1>9
    <3>2. Place(n) + k \in 1 .. L + W /\ Place(n) + k <= L
      <4>1. \A x, y, v \in Nat : \A w \in Nat \ {0} : \A z \in 1 .. v :
              x + v <= y => x + z \in 1 .. y + w /\ x + z <= y
        OBVIOUS
      <4>2. Place(n) \in Nat /\ V \in Nat
        BY <2>1
      <4> HIDE DEF V
      <4> QED
        BY <1>1, <1>2, <3>1, <4>1, <4>2
    <3>3. code'[Place(n) + k] = code[Place(n) + k]
      BY <1>5, <3>2
    <3> QED
      BY <2>1, <3>3
  <2> QED
    BY <1>3, <2>1, <2>2, <2>3, <2>4 DEF Laid
<1>11. Laid(N + 1)'
  <2>1. Place(N + 1)' = L /\ Place(N + 2)' = L + W
    <3>1. N + 1 \in 1 .. N + 1
      BY <1>1
    <3> QED
      BY <1>6, <1>7, <3>1
  <2>2. \A k \in 1 .. W : code'[L + k] = words[k]
    <3> TAKE k \in 1 .. W
    <3>1. L + k \in 1 .. L + W /\ ~ (L + k <= L) /\ (L + k) - L = k
      BY <1>1, <1>2
    <3> QED
      BY <1>5, <3>1
  <2>3. \A i \in 1 .. N + 1 : Place(i)' + Len(Words(prog[i])) <= L + W
    <3> TAKE i \in 1 .. N + 1
    <3>1. CASE i = N + 1
      <4>1. Place(i)' = L /\ Len(Words(prog[i])) = W
        BY <1>3, <2>1, <3>1 DEF W, words
      <4> QED
        BY <1>1, <1>2, <4>1
    <3>2. CASE i # N + 1
      <4>1. i \in 1 .. N
        BY <1>1, <3>2
      <4>2. Place(i)' = Place(i) /\ Place(i) + Len(Words(prog[i])) <= L
        BY <1>7, <1>9, <4>1
      <4>3. Place(i) \in Nat /\ Len(Words(prog[i])) \in Nat
        BY <1>9, <4>1
      <4> QED
        BY <1>1, <1>2, <4>2, <4>3
    <3> QED
      BY <3>1, <3>2
  <2>4. (N + 1) + 1 = N + 2
    BY <1>1
  <2>5. prog'[N + 1] = Ins /\ \A i : prog'[i] = prog[i]
    BY <1>3
  <2>6. Words(prog'[N + 1]) = words /\ Len(Words(prog'[N + 1])) = W
    BY <2>5 DEF words, W
  <2> QED
    BY <1>1, <1>2, <2>1, <2>2, <2>3, <2>4, <2>5, <2>6 DEF Laid
<1>12. \A n \in 1 .. N + 1 : n = N + 1 \/ n \in 1 .. N
  BY <1>1
<1>13. N + 1 <= Len(prog)
  BY <1>1 DEF Parsing
<1>14. (Place(1) = 0)'
  <2>1. 1 \in 1 .. N + 1
    BY <1>1
  <2> QED
    BY <1>7, <2>1 DEF CodeInv
<1> QED
  BY <1>3, <1>4, <1>10, <1>11, <1>12, <1>13, <1>14

LEMMA CodeStep ==
  ASSUME IInv, CodeInv, Next
  PROVE  CodeInv'
<1>1. CASE Parse
  <2>1. CASE \E how : Stop(how) /\ (how \in {"threw", "asserted"} \/ (how = "undef" /\ ~ Regular))
    <3>1. UNCHANGED <<prog, code, starts>> /\ status' \in {"threw", "asserted", "undef"}
      BY <2>1 DEF Stop, parser
    <3> QED
      BY <3>1, PlaceKept DEF CodeInv
  <2>2. CASE Taken(Ins) /\ Push(Words(Ins))
    <3>1. Parsing /\ Ins \in Instr
      BY <1>1, ParseTakes
    <3>2. /\ Len(starts') <= Len(prog') /\ (Place(1) = 0)'
          /\ \A n \in 1 .. Len(starts') : Laid(n)'
      <4> DEFINE N == Len(starts)  L == Len(code)
      <4>1. \E n, l : n = N /\ l = L
        OBVIOUS
      <4> QED
        BY <2>2, <3>1, <4>1, LaidNext
    <3>3. /\ status = "parse" /\ UNCHANGED <<status, reg, sp, stack, pc, out>>
      BY <2>2, <3>1 DEF Parsing, Push, machine
    <3> QED
      BY <3>2, <3>3 DEF CodeInv
  <2> QED
    BY <1>1, <2>1, <2>2, ParseTakes
<1>2. CASE Jit_bril
  <2>1. /\ UNCHANGED <<prog, code, starts>> /\ status' \in {"run", "fault"}
        /\ Len(starts) = Len(prog)
    BY <1>2 DEF Jit_bril, parser
  <2> QED
    BY <2>1, PlaceKept DEF CodeInv
<1>3. CASE Execute
  <2>1. /\ UNCHANGED <<prog, code, starts>> /\ status = "run"
        /\ status' \in {"run", "fault", "undef", "done"}
    BY <1>3, ExecuteKeeps
  <2> QED
    BY <2>1, PlaceKept DEF CodeInv
<1> QED
  BY <1>1, <1>2, <1>3 DEF Next

LEMMA CodeInit == Init => CodeInv
<1> SUFFICES ASSUME Init
             PROVE  CodeInv
  OBVIOUS
<1>1. code = << >> /\ starts = << >> /\ status = "parse" /\ prog \in Seq(Instr)
  BY JitAssumption DEF Init, JitAssumption
<1>2. Len(starts) = 0 /\ Len(code) = 0 /\ Len(prog) \in Nat /\ DOMAIN starts = {}
  BY <1>1, LenProperties
<1>3. Place(1) = 0
  BY <1>2 DEF Place
<1> QED
  BY <1>1, <1>2, <1>3 DEF CodeInv, Init

-----------------------------------------------------------------------------
(***************************************************************************)
(* Each word of print, run.                                                *)
(***************************************************************************)
Printable(args, m) ==
  args \in Seq(Names) /\ AllInFile(args) /\ Len(args) <= 7 /\ m = Len(Pos(args))
PrintWord(args, k) == PrintWords(args, Pos(args))[k]
Shot == status' = "fault" /\ build.checksSP

LEMMA RegsAre == Regs = 0 .. 31
  BY DEF Regs, Reg_size

LEMMA Slots ==
  /\ StackSlots \in Nat
  /\ \A m \in 0 .. 7 : 2 * m + 2 <= StackSlots /\ \A j \in 1 .. 2 * m + 2 : j \in 1 .. StackSlots
<1>1. StackSlots \in Nat /\ 16 <= StackSlots
  BY JitAssumption DEF JitAssumption
<1>2. \A s \in Nat : 16 <= s => \A m \in 0 .. 7 : 2 * m + 2 <= s /\ \A j \in 1 .. 2 * m + 2 : j \in 1 .. s
  OBVIOUS
<1> QED
  BY <1>1, <1>2

LEMMA PushedIs ==
  ASSUME NEW args, NEW m, Printable(args, m)
  PROVE  /\ m \in 0 .. 7 /\ 2 * m + 2 <= StackSlots
         /\ \A j \in 1 .. 2 * m : Pushed(args, j) \in 0 .. 31
         /\ \A j \in 1 .. m : /\ Pushed(args, j) = Pos(args)[j]
                              /\ Pushed(args, m + j) = Index[args[Pos(args)[j]]]
<1>1. /\ m \in 0 .. 7 /\ m = Len(Pos(args))
      /\ \A j \in 1 .. m : Pos(args)[j] \in 1 .. 7 /\ Pos(args)[j] \in DOMAIN args
  BY PosIs DEF Printable
<1>2. \A k \in DOMAIN args : Index[args[k]] \in 0 .. 31
  BY DEF Printable, AllInFile, InFile, Reg_size
<1> DEFINE pos == Pos(args)
<1>3. \A j : Pushed(args, j) = IF j <= m THEN pos[j] ELSE Index[args[pos[j - m]]]
  BY <1>1 DEF Pushed
<1> HIDE DEF pos
<1>4. \A j \in 1 .. m : pos[j] \in 1 .. 7 /\ pos[j] \in DOMAIN args
  BY <1>1 DEF pos
<1>5. ASSUME NEW j \in 1 .. m
      PROVE  Pushed(args, j) = pos[j] /\ Pushed(args, m + j) = Index[args[pos[j]]]
  <2>1. j <= m /\ ~ (m + j <= m) /\ (m + j) - m = j
    BY <1>1
  <2> QED
    BY <1>3, <2>1
<1>6. ASSUME NEW j \in 1 .. 2 * m
      PROVE  Pushed(args, j) \in 0 .. 31
  <2>1. CASE j <= m
    <3>1. j \in 1 .. m
      BY <1>1, <2>1
    <3> QED
      BY <1>4, <1>5, <3>1
  <2>2. CASE ~ (j <= m)
    <3>1. j - m \in 1 .. m /\ m + (j - m) = j
      BY <1>1, <2>2
    <3>2. Pushed(args, j) = Index[args[pos[j - m]]]
      BY <1>3, <2>2
    <3> QED
      BY <1>2, <1>4, <3>1, <3>2
  <2> QED
    BY <2>1, <2>2
<1>7. 2 * m + 2 <= StackSlots
  BY <1>1, Slots
<1> QED
  BY <1>1, <1>5, <1>6, <1>7 DEF pos

LEMMA PushingStep ==
  ASSUME Machine, Next, NEW args, NEW m, Printable(args, m), NEW r \in [Regs -> Int], NEW o,
         NEW k \in 0 .. 2 * m, k < 2 * m, Pushing(args, k, r, o), Facing(PrintWord(args, k + 1))
  PROVE  Shot \/ (Onwards /\ Machine' /\ Pushing(args, k + 1, r, o)')
<1> DEFINE q == Pushed(args, k + 1)
<1>1. m \in 0 .. 7 /\ k + 1 \in 1 .. 2 * m /\ k + 1 \in 1 .. StackSlots /\ k \in Nat
  BY PushedIs, JitAssumption DEF JitAssumption
<1>2. q \in 0 .. 31
  BY <1>1, PushedIs
<1>3. PrintWord(args, k + 1) = Emit_str_imm(SP, Int32(-8), Bits(q), Ls_mode.pre)
  BY <1>1, PrintWordsAre DEF Printable, PrintWord
<1>4. q \in Regs /\ Num(Bits(q)) = q /\ Bits(q) \in Reg5
  BY <1>2, RegisterNum DEF Regs, Reg_size
<1>5. reg = r /\ sp = -(8 * k) /\ out = o /\ Stored(args, r, k)
  BY DEF Pushing
<1> HIDE DEF q
<1>6. \/ Shot
      \/ /\ Onwards /\ UNCHANGED <<out, reg>> /\ sp' = -(8 * (k + 1))
         /\ stack' = [stack EXCEPT ![k + 1] = Read(q)]
  BY <1>1, <1>3, <1>4, <1>5, PushRuns DEF Shot
<1>7. SUFFICES ASSUME /\ Onwards /\ UNCHANGED <<out, reg>> /\ sp' = -(8 * (k + 1))
                      /\ stack' = [stack EXCEPT ![k + 1] = Read(q)]
               PROVE  Machine' /\ Pushing(args, k + 1, r, o)'
  BY <1>6
<1>8. Read(q) = Got(r, q) /\ Read(q) \in Int
  BY <1>4, <1>5 DEF Read, Got, Machine
<1>9. stack \in [1 .. StackSlots -> Int] /\ stack' \in [1 .. StackSlots -> Int]
  BY <1>1, <1>7, <1>8 DEF Machine
<1>10. \A j \in 1 .. k + 1 : stack'[j] = Got(r, Pushed(args, j))
  <2> TAKE j \in 1 .. k + 1
  <2>1. j \in 1 .. StackSlots
    BY <1>1, JitAssumption DEF JitAssumption
  <2>2. CASE j = k + 1
    BY <1>7, <1>8, <1>9, <2>1, <2>2 DEF q
  <2>3. CASE j # k + 1
    <3>1. j \in 1 .. k
      BY <1>1, <2>3
    <3> QED
      BY <1>5, <1>7, <1>9, <2>1, <2>3, <3>1 DEF Stored
  <2> QED
    BY <2>2, <2>3
<1>11. k + 1 \in 0 .. 2 * m
  BY <1>1
<1>12. Machine'
  BY <1>7, <1>9 DEF Machine
<1>13. m = Len(Pos(args))
  BY DEF Printable
<1>14. reg' = r /\ out' = o
  BY <1>5, <1>7
<1>15. Stored(args, r, k + 1)'
  BY <1>10 DEF Stored
<1> QED
  BY <1>7, <1>11, <1>12, <1>13, <1>14, <1>15 DEF Pushing

LEMMA LoadingStarts ==
  ASSUME NEW args, NEW m, Printable(args, m), NEW r \in [Regs -> Int], NEW o,
         Pushing(args, 2 * m, r, o)
  PROVE  Loading(args, 0, r, o)
<1>1. m = Len(Pos(args)) /\ m \in 0 .. 7
  BY PushedIs DEF Printable
<1>2. reg = r /\ sp = -(16 * m) /\ out = o /\ Stored(args, r, 2 * m)
  BY <1>1 DEF Pushing
<1>3. \A q : ~ \E j \in 1 .. 0 : Pos(args)[j] = q
  OBVIOUS
<1> QED
  BY <1>1, <1>2, <1>3 DEF Loading

LEMMA LoadingStep ==
  ASSUME Machine, Next, NEW args, NEW m, Printable(args, m), NEW r \in [Regs -> Int], NEW o,
         NEW k \in 0 .. m, k < m, Loading(args, k, r, o), Facing(PrintWord(args, 2 * m + (k + 1)))
  PROVE  Shot \/ (Onwards /\ Machine' /\ Loading(args, k + 1, r, o)')
<1> DEFINE pos == Pos(args)  q == pos[k + 1]
<1>1. /\ m \in 0 .. 7 /\ k + 1 \in 1 .. m /\ k \in Nat /\ m - (k + 1) \in 0 .. 31
      /\ 2 * m \in Nat /\ m + (k + 1) \in 1 .. 2 * m
      /\ 2 * m - (m - (k + 1)) = m + (k + 1) /\ m + (k + 1) \in 1 .. StackSlots
  <2>1. m \in 0 .. 7
    BY PushedIs
  <2>2. /\ k + 1 \in 1 .. m /\ k \in Nat /\ m - (k + 1) \in 0 .. 31
        /\ 2 * m \in Nat /\ m + (k + 1) \in 1 .. 2 * m
        /\ 2 * m - (m - (k + 1)) = m + (k + 1) /\ m + (k + 1) \in 1 .. 2 * m + 2
    BY <2>1
  <2> QED
    BY <2>1, <2>2, Slots
<1>2. /\ m = Len(pos) /\ q \in 1 .. 7 /\ q \in DOMAIN args
      /\ \A j \in 1 .. m : pos[j] \in 1 .. 7 /\ pos[j] \in DOMAIN args
  <2>1. m = Len(pos) /\ \A j \in 1 .. m : pos[j] \in 1 .. 7 /\ pos[j] \in DOMAIN args
    BY PosIs DEF Printable
  <2> HIDE DEF pos
  <2> QED
    BY <1>1, <2>1
<1>3. PrintWord(args, 2 * m + (k + 1))
        = Emit_ldr_imm(SP, Int32(8 * (m - (k + 1))), Bits(q), Ls_mode.offset)
  BY <1>1, PrintWordsAre DEF Printable, PrintWord
<1>4. q \in Regs /\ Num(Bits(q)) = q /\ Bits(q) \in Reg5 /\ q # 31
  <2>1. q \in 0 .. 31 /\ q # 31
    BY <1>2
  <2> QED
    BY <2>1, RegisterNum DEF Regs, Reg_size
<1>5. /\ sp = -(8 * (2 * m)) /\ out = o /\ Stored(args, r, 2 * m) /\ reg \in [Regs -> Int]
      /\ \A x \in Regs : IF \E j \in 1 .. k : pos[j] = x
                         THEN x \in DOMAIN args /\ reg[x] = Got(r, Index[args[x]])
                         ELSE reg[x] = r[x]
  BY <1>1, <1>2 DEF Loading
<1>6. Pushed(args, m + (k + 1)) = Index[args[q]]
  BY <1>1, PushedIs
<1> HIDE DEF pos, q
<1>7. \/ Shot
      \/ /\ Onwards /\ UNCHANGED <<out, stack, sp>>
         /\ reg' = Written(q, stack[m + (k + 1)])
  <2> DEFINE slot == 2 * m - (m - (k + 1))
  <2>1. slot \in 1 .. StackSlots /\ slot = m + (k + 1)
    BY <1>1
  <2> HIDE DEF slot
  <2>2. \/ Shot
        \/ Onwards /\ UNCHANGED <<out, stack, sp>> /\ reg' = Written(q, stack[slot])
    BY <1>1, <1>3, <1>4, <1>5, <2>1, LoadRuns DEF slot, Shot
  <2> QED
    BY <2>1, <2>2
<1>8. SUFFICES ASSUME /\ Onwards /\ UNCHANGED <<out, stack, sp>>
                      /\ reg' = Written(q, stack[m + (k + 1)])
               PROVE  Machine' /\ Loading(args, k + 1, r, o)'
  BY <1>7
<1>9. stack[m + (k + 1)] = Got(r, Index[args[q]]) /\ stack[m + (k + 1)] \in Int
  BY <1>1, <1>5, <1>6 DEF Stored, Machine
<1>10. /\ reg' \in [Regs -> Int] /\ reg'[q] = Got(r, Index[args[q]])
       /\ \A x \in Regs : x # q => reg'[x] = reg[x]
  BY <1>4, <1>5, <1>8, <1>9 DEF Written
<1>11. ASSUME NEW x \in Regs
       PROVE  IF \E j \in 1 .. k + 1 : pos[j] = x
              THEN x \in DOMAIN args /\ reg'[x] = Got(r, Index[args[x]])
              ELSE reg'[x] = r[x]
  <2>1. CASE x = q
    BY <1>1, <1>2, <1>10, <2>1 DEF q
  <2>2. CASE x # q
    <3>1. (\E j \in 1 .. k + 1 : pos[j] = x) <=> (\E j \in 1 .. k : pos[j] = x)
      <4>1. \A j : j \in 1 .. k + 1 <=> j \in 1 .. k \/ j = k + 1
        BY <1>1
      <4> QED
        BY <2>2, <4>1 DEF q
    <3> QED
      BY <1>5, <1>10, <2>2, <3>1
  <2> QED
    BY <2>1, <2>2
<1>12. /\ k + 1 \in 0 .. m /\ sp' = -(16 * m) /\ out' = o
  BY <1>1, <1>5, <1>8
<1>13. Stored(args, r, 2 * m)'
  BY <1>5, <1>8 DEF Stored
<1>14. Machine'
  BY <1>8, <1>10 DEF Machine
<1>15. Loading(args, k + 1, r, o)'
  BY <1>2, <1>10, <1>11, <1>12, <1>13 DEF Loading, pos
<1> QED
  BY <1>14, <1>15

LEMMA CallingStarts ==
  ASSUME NEW args, NEW m, Printable(args, m), NEW r \in [Regs -> Int], NEW o,
         Loading(args, m, r, o)
  PROVE  Calling(args, 0, r, o)
<1> DEFINE pos == Pos(args)
<1>1. /\ m = Len(pos) /\ m \in 0 .. 7 /\ \A j \in 1 .. m : pos[j] \in 1 .. 7
      /\ DOMAIN args = 1 .. Len(args) /\ Len(args) \in 0 .. 7
      /\ \A k \in DOMAIN args : Index[args[k]] # k => \E j \in 1 .. m : pos[j] = k
  BY PosIs DEF Printable
<1> HIDE DEF pos
<1>2. /\ sp = -(16 * m) /\ out = o /\ Stored(args, r, 2 * m) /\ reg \in [Regs -> Int]
      /\ \A x \in Regs : IF \E j \in 1 .. m : pos[j] = x
                         THEN x \in DOMAIN args /\ reg[x] = Got(r, Index[args[x]])
                         ELSE reg[x] = r[x]
  BY <1>1 DEF Loading, pos
<1>3. \A q \in DOMAIN args : reg[q] = Got(r, Index[args[q]])
  <2> TAKE q \in DOMAIN args
  <2>1. q \in Regs /\ q # 31
    <3>1. q \in 1 .. 7 /\ \A x \in 1 .. 7 : x \in 0 .. 31 /\ x # 31
      BY <1>1
    <3> QED
      BY <3>1, RegsAre
  <2>2. CASE \E j \in 1 .. m : pos[j] = q
    BY <1>2, <2>1, <2>2
  <2>3. CASE ~ \E j \in 1 .. m : pos[j] = q
    <3>1. Index[args[q]] = q /\ reg[q] = r[q]
      BY <1>1, <1>2, <2>1, <2>3
    <3> QED
      BY <2>1, <3>1 DEF Got
  <2> QED
    BY <2>2, <2>3
<1>4. \A q \in 19 .. 30 : reg[q] = r[q]
  <2> TAKE q \in 19 .. 30
  <2>1. q \in Regs /\ ~ \E j \in 1 .. m : pos[j] = q
    <3>1. q \in 0 .. 31 /\ q \notin 1 .. 7
      OBVIOUS
    <3> QED
      BY <1>1, <3>1, RegsAre
  <2> QED
    BY <1>2, <2>1
<1>5. \A q \in 19 .. 28 : q \in 19 .. 30
  OBVIOUS
<1>6. 29 \in 19 .. 30 /\ 30 \in 19 .. 30 /\ 0 \in 0 .. 7 /\ 0 < 6 /\ ~ (0 >= 1) /\ ~ (0 >= 5)
      /\ ~ (0 >= 6) /\ 0 \notin 2 .. 5
  OBVIOUS
<1> QED
  BY <1>1, <1>2, <1>3, <1>4, <1>5, <1>6 DEF Calling, pos

\* The nine words of the call.
LEMMA CallWordsAre ==
  ASSUME NEW args, NEW m, Printable(args, m)
  PROVE  /\ PrintWord(args, 3 * m + 1) = Emit_movz({}, Bits(Len(args)), {})
         /\ PrintWord(args, 3 * m + 2) = Emit_movz(Bits(16), Parts(PrintInt)[0], {})
         /\ PrintWord(args, 3 * m + 3) = Emit_movk(Bits(16), Parts(PrintInt)[1], Bits(1))
         /\ PrintWord(args, 3 * m + 4) = Emit_movk(Bits(16), Parts(PrintInt)[2], Bits(2))
         /\ PrintWord(args, 3 * m + 5) = Emit_movk(Bits(16), Parts(PrintInt)[3], Bits(3))
         /\ PrintWord(args, 3 * m + 6) = Emit_stp(SP, Int32(-16), Bits(29), Bits(30), Ls_mode.pre)
         /\ PrintWord(args, 3 * m + 7) = Emit_mov_sp(Bits(29), SP)
         /\ PrintWord(args, 3 * m + 8) = Emit_blr(Bits(16))
         /\ PrintWord(args, 3 * m + 9) = Emit_ldp(SP, Int32(16), Bits(29), Bits(30), Ls_mode.post)
<1> DEFINE n == Len(args)  part == Parts(PrintInt)
           w1 == Emit_movz({}, Bits(n), {})
           w2 == Emit_movz(Bits(16), part[0], {})
           w3 == Emit_movk(Bits(16), part[1], Bits(1))
           w4 == Emit_movk(Bits(16), part[2], Bits(2))
           w5 == Emit_movk(Bits(16), part[3], Bits(3))
           w6 == Emit_stp(SP, Int32(-16), Bits(29), Bits(30), Ls_mode.pre)
           w7 == Emit_mov_sp(Bits(29), SP)
           w8 == Emit_blr(Bits(16))
           w9 == Emit_ldp(SP, Int32(16), Bits(29), Bits(30), Ls_mode.post)
<1>1. Call(n) = <<w1, w2, w3, w4, w5, w6, w7, w8, w9>>
  BY Zenon DEF Call
<1>2. \A j \in 1 .. 9 : PrintWord(args, 3 * m + j) = Call(n)[j]
  BY PrintWordsAre DEF Printable, PrintWord
<1> HIDE DEF n, part, w1, w2, w3, w4, w5, w6, w7, w8, w9
<1>4. /\ PrintWord(args, 3 * m + 1) = w1 /\ PrintWord(args, 3 * m + 2) = w2
      /\ PrintWord(args, 3 * m + 3) = w3 /\ PrintWord(args, 3 * m + 4) = w4
      /\ PrintWord(args, 3 * m + 5) = w5 /\ PrintWord(args, 3 * m + 6) = w6
      /\ PrintWord(args, 3 * m + 7) = w7 /\ PrintWord(args, 3 * m + 8) = w8
      /\ PrintWord(args, 3 * m + 9) = w9
  BY <1>1, <1>2
<1> QED
  BY <1>4, Zenon DEF n, part, w1, w2, w3, w4, w5, w6, w7, w8, w9

LEMMA CallMovk ==
  ASSUME NEW args, NEW m, Printable(args, m), NEW k \in 1 .. 3
  PROVE  PrintWord(args, 3 * m + (k + 2)) = Emit_movk(Bits(16), Parts(PrintInt)[k], Bits(k))
<1>1. k = 1 \/ k = 2 \/ k = 3
  OBVIOUS
<1>2. 1 + 2 = 3 /\ 2 + 2 = 4 /\ 3 + 2 = 5
  OBVIOUS
<1> QED
  BY <1>1, <1>2, CallWordsAre, Zenon

\* What stays through the call's words but one register.
CallFrame(args, m, r, o) ==
  /\ out = o /\ Stored(args, r, 2 * m) /\ reg \in [Regs -> Int]
  /\ \A q \in DOMAIN args : reg[q] = Got(r, Index[args[q]])
  /\ \A q \in 19 .. 28 : reg[q] = r[q]
  /\ reg[30] = r[30]

LEMMA FrameSet ==
  ASSUME NEW args, NEW m, Printable(args, m), NEW r \in [Regs -> Int], NEW o, NEW q \in {0, 16, 29},
         NEW x \in Int, CallFrame(args, m, r, o), reg' = [reg EXCEPT ![q] = x],
         UNCHANGED <<stack, out>>
  PROVE  /\ CallFrame(args, m, r, o)' /\ reg'[q] = x
         /\ \A i \in Regs : i # q => reg'[i] = reg[i]
<1>1. DOMAIN args = 1 .. Len(args) /\ Len(args) \in 0 .. 7
  BY PosIs DEF Printable
<1>2. q \in Regs /\ reg \in [Regs -> Int] /\ reg' \in [Regs -> Int]
  BY RegsAre DEF CallFrame
<1>3. reg'[q] = x /\ \A i \in Regs : i # q => reg'[i] = reg[i]
  BY <1>2
<1>4. \A i \in DOMAIN args : i \in Regs /\ i # q
  <2>1. \A n \in 0 .. 7 : \A i \in 1 .. n : i \in 0 .. 31 /\ i # q
    OBVIOUS
  <2> QED
    BY <1>1, <2>1, RegsAre, Zenon
<1>5. \A i \in 19 .. 28 : i \in Regs /\ i # q
  BY RegsAre
<1>6. 30 \in Regs /\ 30 # q
  BY RegsAre
<1>7. Stored(args, r, 2 * m)'
  BY DEF CallFrame, Stored
<1> QED
  BY <1>2, <1>3, <1>4, <1>5, <1>6, <1>7 DEF CallFrame

LEMMA CallingStep ==
  ASSUME Machine, Next, NEW args, NEW m, Printable(args, m), NEW r \in [Regs -> Int], NEW o,
         NEW k \in 0 .. 6, Calling(args, k, r, o), Facing(PrintWord(args, 3 * m + (k + 1)))
  PROVE  Shot \/ (Onwards /\ Machine' /\ Calling(args, k + 1, r, o)')
<1>1. /\ m \in 0 .. 7 /\ m = Len(Pos(args)) /\ Len(args) \in 0 .. 7
      /\ DOMAIN args = 1 .. Len(args)
  BY PosIs DEF Printable
<1>2. CallFrame(args, m, r, o)
  BY <1>1 DEF CallFrame, Calling
<1>3. /\ sp = (IF k < 6 THEN -(16 * m) ELSE -(16 * m) - 16) /\ reg[29] = r[29]
      /\ k >= 1 => reg[0] = Len(args)
      /\ k \in 2 .. 5 => reg[16] = Address16(k - 1)
      /\ k >= 5 => reg[16] = PrintInt
      /\ k >= 6 => stack[2 * m + 2] = r[29] /\ stack[2 * m + 1] = r[30]
  <2>1. k < 7
    OBVIOUS
  <2> QED
    BY <1>1, <2>1, Zenon DEF Calling
<1>4. 0 \in Regs /\ 16 \in Regs /\ 29 \in Regs
  BY RegsAre
<1>5. CASE k = 0
  <2>1. /\ reg' = [reg EXCEPT ![0] = Len(args)] /\ Onwards /\ UNCHANGED <<sp, stack, out>>
    <3>1. 0 + 1 = 1
      OBVIOUS
    <3> QED
      BY <1>1, <1>5, <3>1, CallWordsAre, CountRuns
  <2>2. /\ CallFrame(args, m, r, o)' /\ reg'[0] = Len(args)
        /\ \A i \in Regs : i # 0 => reg'[i] = reg[i]
    <3>1. Len(args) \in Int /\ 0 \in {0, 16, 29}
      BY <1>1
    <3> QED
      BY <1>2, <2>1, <3>1, FrameSet
  <2>3. Machine'
    BY <2>1, <2>2 DEF CallFrame, Machine
  <2>4. reg'[29] = r[29] /\ sp' = -(16 * m)
    BY <1>3, <1>4, <1>5, <2>1, <2>2
  <2> QED
    BY <1>1, <1>5, <2>1, <2>2, <2>3, <2>4 DEF Calling, CallFrame
<1>6. CASE k \in 1 .. 4
  <2>1. /\ reg' = [reg EXCEPT ![16] = Address16(k)] /\ Onwards /\ UNCHANGED <<sp, stack, out>>
    <3>1. CASE k = 1
      <4>1. 1 + 1 = 2
        OBVIOUS
      <4> QED
        BY <3>1, <4>1, CallWordsAre, AddressRuns
    <3>2. CASE k # 1
      <4>1. k - 1 \in 1 .. 3 /\ (k - 1) + 2 = k + 1 /\ (k - 1) + 1 = k /\ k \in 2 .. 5
        BY <1>6, <3>2
      <4>2. Facing(Emit_movk(Bits(16), Parts(PrintInt)[k - 1], Bits(k - 1)))
        BY <4>1, CallMovk
      <4>3. /\ reg' = [reg EXCEPT ![16] = Address16((k - 1) + 1)]
            /\ Onwards /\ UNCHANGED <<sp, stack, out>>
        BY <1>3, <4>1, <4>2, AddressRuns
      <4> QED
        BY <4>1, <4>3
    <3> QED
      BY <3>1, <3>2
  <2>2. Address16(k) \in Int
    BY <1>6, AddressSums, WrapIs DEF Address16
  <2>3. /\ CallFrame(args, m, r, o)' /\ reg'[16] = Address16(k)
        /\ \A i \in Regs : i # 16 => reg'[i] = reg[i]
    <3>1. 16 \in {0, 16, 29}
      OBVIOUS
    <3> QED
      BY <1>2, <2>1, <2>2, <3>1, FrameSet
  <2>4. Machine'
    BY <2>1, <2>3 DEF CallFrame, Machine
  <2>5. reg'[29] = r[29] /\ sp' = -(16 * m) /\ reg'[0] = Len(args)
    BY <1>3, <1>4, <1>6, <2>1, <2>3
  <2>6. /\ k + 1 \in 2 .. 5 /\ (k + 1) - 1 = k /\ k + 1 < 6 /\ k + 1 \in 0 .. 7 /\ k + 1 < 7
        /\ k + 1 >= 5 => k = 4
    BY <1>6
  <2>7. k + 1 >= 5 => reg'[16] = PrintInt
    BY <2>3, <2>6, AddressIs
  <2>8. ~ (k + 1 >= 6)
    BY <1>6
  <2> QED
    BY <1>1, <2>1, <2>3, <2>4, <2>5, <2>6, <2>7, <2>8 DEF Calling, CallFrame
<1>7. CASE k = 5
  <2>1. 2 * m \in Nat /\ sp = -(8 * (2 * m)) /\ 2 * m + 2 \in 1 .. StackSlots
    <3>1. \A i \in 0 .. 7 : /\ 2 * i \in Nat /\ 2 * i + 2 \in 1 .. 2 * i + 2
                            /\ -(16 * i) = -(8 * (2 * i))
      OBVIOUS
    <3>2. sp = -(16 * m)
      BY <1>3, <1>7
    <3> QED
      BY <1>1, <3>1, <3>2, Slots, Zenon
  <2>2. Facing(Emit_stp(SP, Int32(-16), Bits(29), Bits(30), Ls_mode.pre))
    <3>1. 5 + 1 = 6
      OBVIOUS
    <3> QED
      BY <1>7, <3>1, CallWordsAre
  <2>3. \/ Shot
        \/ /\ Onwards /\ UNCHANGED <<out, reg>> /\ sp' = -(8 * (2 * m + 2))
           /\ stack' = [stack EXCEPT ![2 * m + 2] = reg[29], ![2 * m + 1] = reg[30]]
    BY <2>1, <2>2, StpRuns DEF Shot
  <2>4. SUFFICES ASSUME /\ Onwards /\ UNCHANGED <<out, reg>> /\ sp' = -(8 * (2 * m + 2))
                        /\ stack' = [stack EXCEPT ![2 * m + 2] = reg[29], ![2 * m + 1] = reg[30]]
                 PROVE  Machine' /\ Calling(args, k + 1, r, o)'
    BY <2>3
  <2>5. reg[29] = r[29] /\ reg[30] = r[30] /\ reg[29] \in Int /\ reg[30] \in Int
    BY <1>2, <1>3, RegsAre DEF CallFrame
  <2>6. /\ stack' \in [1 .. StackSlots -> Int]
        /\ stack'[2 * m + 2] = r[29] /\ stack'[2 * m + 1] = r[30]
        /\ \A j \in 1 .. 2 * m : stack'[j] = stack[j]
    <3>0. \A i \in 0 .. 7 : /\ 2 * i + 1 \in 1 .. 2 * i + 2 /\ 2 * i + 1 # 2 * i + 2
                            /\ \A j \in 1 .. 2 * i : /\ j \in 1 .. 2 * i + 2
                                                     /\ j # 2 * i + 1 /\ j # 2 * i + 2
      OBVIOUS
    <3>1. 2 * m + 1 \in 1 .. StackSlots /\ 2 * m + 1 # 2 * m + 2
      BY <1>1, <3>0, Slots, Zenon
    <3>2. \A j \in 1 .. 2 * m : j \in 1 .. StackSlots /\ j # 2 * m + 1 /\ j # 2 * m + 2
      BY <1>1, <3>0, Slots, Zenon
    <3> QED
      BY <2>1, <2>4, <2>5, <3>1, <3>2 DEF Machine
  <2>7. Stored(args, r, 2 * m)'
    BY <1>2, <2>6 DEF CallFrame, Stored
  <2>8. Machine'
    BY <2>4, <2>6 DEF Machine
  <2>9. sp' = -(16 * m) - 16
    BY <1>1, <2>4
  <2>10. reg' = reg /\ out' = out
    BY <2>4
  <2> QED
    BY <1>1, <1>2, <1>3, <1>7, <2>6, <2>7, <2>8, <2>9, <2>10 DEF Calling, CallFrame
<1>8. CASE k = 6
  <2>1. Facing(Emit_mov_sp(Bits(29), SP)) /\ sp \in Int /\ sp = -(16 * m) - 16
    <3>1. 6 + 1 = 7 /\ ~ (6 < 6) /\ -(16 * m) - 16 \in Int
      BY <1>1
    <3> QED
      BY <1>3, <1>8, <3>1, CallWordsAre
  <2>2. reg' = [reg EXCEPT ![29] = sp] /\ Onwards /\ UNCHANGED <<sp, stack, out>>
    BY <2>1, FrameRuns
  <2>3. CallFrame(args, m, r, o)' /\ \A i \in Regs : i # 29 => reg'[i] = reg[i]
    <3>1. 29 \in {0, 16, 29}
      OBVIOUS
    <3>2. \E x \in Int : x = sp
      BY <2>1
    <3> QED
      BY <1>2, <2>2, <3>1, <3>2, FrameSet
  <2>4. Machine'
    BY <2>2, <2>3 DEF CallFrame, Machine
  <2>5. reg'[0] = Len(args) /\ reg'[16] = PrintInt
    BY <1>3, <1>4, <1>8, <2>3
  <2> QED
    BY <1>1, <1>3, <1>8, <2>1, <2>2, <2>3, <2>4, <2>5 DEF Calling, CallFrame
<1> QED
  BY <1>5, <1>6, <1>7, <1>8

\* print_int returns, and prints what it was passed.
LEMMA CalledStep ==
  ASSUME Machine, Next, NEW args, NEW m, Printable(args, m), NEW r \in [Regs -> Int], NEW o,
         Calling(args, 7, r, o), Facing(PrintWord(args, 3 * m + 8)), pc \in Nat
  PROVE  \/ status' = "undef" /\ args = << >>
         \/ Onwards /\ Machine' /\ Called(args, r, o)'
<1>1. /\ m \in 0 .. 7 /\ m = Len(Pos(args)) /\ Len(args) \in 0 .. 7
      /\ DOMAIN args = 1 .. Len(args)
  BY PosIs DEF Printable
<1>2. /\ sp = -(16 * m) - 16 /\ out = o /\ Stored(args, r, 2 * m)
      /\ \A q \in DOMAIN args : reg[q] = Got(r, Index[args[q]])
      /\ \A q \in 19 .. 28 : reg[q] = r[q]
      /\ reg[0] = Len(args) /\ reg[16] = PrintInt
      /\ stack[2 * m + 2] = r[29] /\ stack[2 * m + 1] = r[30]
  BY <1>1 DEF Calling
<1>3. \/ status' = "undef" /\ reg[0] = 0
      \/ /\ out' = Append(out, Printed(reg[0]))
         /\ \E g \in Garbage :
              reg' = [q \in Regs |-> IF q \in CallerSaved THEN g
                                     ELSE IF q = 30 THEN 4 * pc ELSE reg[q]]
         /\ Onwards /\ UNCHANGED <<sp, stack>>
  <2>1. Facing(Emit_blr(Bits(16)))
    BY CallWordsAre
  <2> QED
    BY <1>2, <2>1, BlrRuns, Zenon
<1>4. CASE status' = "undef" /\ reg[0] = 0
  BY <1>1, <1>2, <1>4, EmptySeq DEF Printable
<1>5. CASE /\ out' = Append(out, Printed(reg[0]))
           /\ \E g \in Garbage :
                reg' = [q \in Regs |-> IF q \in CallerSaved THEN g
                                       ELSE IF q = 30 THEN 4 * pc ELSE reg[q]]
           /\ Onwards /\ UNCHANGED <<sp, stack>>
  <2>1. Printed(reg[0]) = Printing(args, r)
    BY <1>1, <1>2 DEF Printed, Printing
  <2>2. PICK g \in Garbage :
          reg' = [q \in Regs |-> IF q \in CallerSaved THEN g
                                 ELSE IF q = 30 THEN 4 * pc ELSE reg[q]]
    BY <1>5
  <2>3. g \in Int /\ 4 * pc \in Int
    <3>1. Garbage \subseteq Val /\ Val \subseteq Int
      BY JitAssumption, Widths DEF JitAssumption, Val
    <3> QED
      BY <3>1
  <2>4. reg' \in [Regs -> Int]
    BY <2>2, <2>3 DEF Machine
  <2>5. \A q \in 19 .. 28 : reg'[q] = r[q]
    <3> TAKE q \in 19 .. 28
    <3>1. q \in Regs /\ q \notin CallerSaved /\ q # 30
      BY RegsAre DEF CallerSaved
    <3> QED
      BY <1>2, <2>2, <3>1
  <2>6. Stored(args, r, 2 * m)'
    BY <1>2, <1>5 DEF Stored
  <2>7. Machine'
    BY <1>5, <2>4 DEF Machine
  <2> QED
    BY <1>1, <1>2, <1>5, <2>1, <2>4, <2>5, <2>6, <2>7 DEF Called
<1> QED
  BY <1>3, <1>4, <1>5

LEMMA PoppingStarts ==
  ASSUME Machine, Next, NEW args, NEW m, Printable(args, m), NEW r \in [Regs -> Int], NEW o,
         Called(args, r, o), Facing(PrintWord(args, 3 * m + 9))
  PROVE  Shot \/ (Onwards /\ Machine' /\ Popping(args, 0, r, o)')
<1>1. m \in 0 .. 7 /\ m = Len(Pos(args))
  BY PosIs DEF Printable
<1>2. /\ sp = -(16 * m) - 16
      /\ out = Append(o, Printing(args, r)) /\ Stored(args, r, 2 * m)
      /\ \A q \in 19 .. 28 : reg[q] = r[q]
      /\ stack[2 * m + 2] = r[29] /\ stack[2 * m + 1] = r[30]
  BY <1>1 DEF Called
<1>3. /\ 2 * m + 2 \in 2 .. StackSlots /\ sp = -(8 * (2 * m + 2)) /\ (2 * m + 2) - 1 = 2 * m + 1
      /\ (2 * m + 2) - 2 = 2 * m
  <2>1. \A i \in 0 .. 7 : /\ -(16 * i) - 16 = -(8 * (2 * i + 2)) /\ (2 * i + 2) - 1 = 2 * i + 1
                          /\ (2 * i + 2) - 2 = 2 * i
                          /\ \A n \in Nat : 2 * i + 2 <= n => 2 * i + 2 \in 2 .. n
    OBVIOUS
  <2>2. m \in 0 .. 7 /\ sp = -(16 * m) - 16
    BY <1>1, <1>2
  <2>3. StackSlots \in Nat /\ 2 * m + 2 <= StackSlots
    BY <2>2, Slots
  <2> QED
    BY <2>1, <2>2, <2>3, Zenon
<1>4. \/ Shot
      \/ /\ Onwards /\ UNCHANGED <<out, stack>> /\ sp' = -(8 * (2 * m))
         /\ reg' = [reg EXCEPT ![29] = stack[2 * m + 2], ![30] = stack[2 * m + 1]]
  <2> DEFINE k == 2 * m + 2
  <2>1. k \in 2 .. StackSlots /\ sp = -(8 * k) /\ k - 1 = 2 * m + 1 /\ k - 2 = 2 * m
    BY <1>3
  <2> HIDE DEF k
  <2>2. \/ Shot
        \/ /\ Onwards /\ UNCHANGED <<out, stack>> /\ sp' = -(8 * (k - 2))
           /\ reg' = [reg EXCEPT ![29] = stack[k], ![30] = stack[k - 1]]
    BY <2>1, CallWordsAre, LdpRuns DEF Shot
  <2> QED
    BY <2>1, <2>2, Zenon DEF k
<1>5. SUFFICES ASSUME /\ Onwards /\ UNCHANGED <<out, stack>> /\ sp' = -(8 * (2 * m))
                      /\ reg' = [reg EXCEPT ![29] = stack[2 * m + 2], ![30] = stack[2 * m + 1]]
               PROVE  Machine' /\ Popping(args, 0, r, o)'
  BY <1>4
<1>6. /\ reg' \in [Regs -> Int] /\ reg'[29] = r[29] /\ reg'[30] = r[30]
      /\ \A q \in 19 .. 28 : reg'[q] = r[q]
  <2>1. 29 \in Regs /\ 30 \in Regs /\ 29 # 30
    BY RegsAre
  <2>2. \A q \in 19 .. 28 : q \in Regs /\ q # 29 /\ q # 30
    BY RegsAre
  <2> QED
    BY <1>2, <1>5, <2>1, <2>2 DEF Machine
<1>7. \A q \in 19 .. 30 : reg'[q] = r[q]
  <2>1. \A q \in 19 .. 30 : q \in 19 .. 28 \/ q = 29 \/ q = 30
    OBVIOUS
  <2> QED
    BY <1>6, <2>1
<1>8. ~ \E j \in (2 * m - 0 + 1) .. 2 * m : TRUE
  BY <1>1
<1>9. /\ 0 \in 0 .. 2 * m /\ sp' = 8 * 0 - 16 * m /\ 2 * m - 0 = 2 * m
  BY <1>1, <1>5
<1>10. Stored(args, r, 2 * m - 0)'
  BY <1>2, <1>5, <1>9 DEF Stored
<1>11. Machine'
  BY <1>5, <1>6 DEF Machine
<1>12. out' = Append(o, Printing(args, r))
  BY <1>2, <1>5
<1>13. \A q \in 0 .. 30 :
         q \in 19 .. 30 \/ (\E j \in (2 * m - 0 + 1) .. 2 * m : Pushed(args, j) = q) => reg'[q] = r[q]
  BY <1>7, <1>8
<1> QED
  BY <1>1, <1>6, <1>9, <1>10, <1>11, <1>12, <1>13 DEF Popping

LEMMA PoppingStep ==
  ASSUME Machine, Next, NEW args, NEW m, Printable(args, m), NEW r \in [Regs -> Int], NEW o,
         NEW k \in 0 .. 2 * m, k < 2 * m, Popping(args, k, r, o),
         Facing(PrintWord(args, 3 * m + 9 + (k + 1)))
  PROVE  Shot \/ (Onwards /\ Machine' /\ Popping(args, k + 1, r, o)')
<1> DEFINE slot == 2 * m - k  q == Pushed(args, slot)
<1>1. /\ m \in 0 .. 7 /\ m = Len(Pos(args))
      /\ \A j \in 1 .. 2 * m : Pushed(args, j) \in 0 .. 31
  BY PushedIs DEF Printable
<1>2. /\ sp = 8 * k - 16 * m
      /\ out = Append(o, Printing(args, r)) /\ Stored(args, r, slot)
      /\ reg \in [Regs -> Int]
      /\ \A x \in 0 .. 30 :
           x \in 19 .. 30 \/ (\E j \in (slot + 1) .. 2 * m : Pushed(args, j) = x) => reg[x] = r[x]
  BY <1>1 DEF Popping
<1>3. /\ slot \in 1 .. 2 * m /\ slot \in 1 .. StackSlots /\ sp = -(8 * slot)
      /\ 2 * m + 1 - (k + 1) = slot /\ 2 * m - (k + 1) = slot - 1 /\ k + 1 \in 1 .. 2 * m
  <2>1. \A i \in 0 .. 7 : \A j \in 0 .. 2 * i : j < 2 * i =>
          /\ 2 * i - j \in 1 .. 2 * i /\ 2 * i - j \in 1 .. 2 * i + 2
          /\ 8 * j - 16 * i = -(8 * (2 * i - j))
          /\ 2 * i + 1 - (j + 1) = 2 * i - j /\ 2 * i - (j + 1) = (2 * i - j) - 1
          /\ j + 1 \in 1 .. 2 * i
    OBVIOUS
  <2>2. m \in 0 .. 7 /\ sp = 8 * k - 16 * m
    BY <1>1, <1>2
  <2>3. /\ slot \in 1 .. 2 * m /\ slot \in 1 .. 2 * m + 2 /\ sp = -(8 * slot)
        /\ 2 * m + 1 - (k + 1) = slot /\ 2 * m - (k + 1) = slot - 1 /\ k + 1 \in 1 .. 2 * m
    BY <2>1, <2>2, Zenon
  <2> HIDE DEF slot
  <2> QED
    BY <2>2, <2>3, Slots
<1>4. q \in 0 .. 31
  BY <1>1, <1>3
<1>5. PrintWord(args, 3 * m + 9 + (k + 1)) = Emit_ldr_imm(SP, Int32(8), Bits(q), Ls_mode.post)
  <2>1. PrintWord(args, 3 * m + 9 + (k + 1))
          = Emit_ldr_imm(SP, Int32(8), Bits(Pushed(args, 2 * m + 1 - (k + 1))), Ls_mode.post)
    BY <1>1, <1>3, PrintWordsAre DEF Printable, PrintWord
  <2> HIDE DEF slot
  <2> QED
    BY <1>3, <2>1
<1>6. q \in Regs /\ Num(Bits(q)) = q /\ Bits(q) \in Reg5
  BY <1>4, RegisterNum, RegsAre
<1> HIDE DEF q
<1>7. \/ Shot
      \/ /\ Onwards /\ UNCHANGED <<out, stack>> /\ sp' = -(8 * (slot - 1))
         /\ reg' = Written(q, stack[slot])
  <2> HIDE DEF slot
  <2> QED
    BY <1>3, <1>5, <1>6, PopRuns DEF Shot
<1>8. SUFFICES ASSUME /\ Onwards /\ UNCHANGED <<out, stack>> /\ sp' = -(8 * (slot - 1))
                      /\ reg' = Written(q, stack[slot])
               PROVE  Machine' /\ Popping(args, k + 1, r, o)'
  BY <1>7
<1>9. stack[slot] = Got(r, q) /\ stack[slot] \in Int
  <2> HIDE DEF slot
  <2>1. slot \in 1 .. slot
    BY <1>3
  <2> QED
    BY <1>2, <1>3, <2>1 DEF Stored, Machine, q
<1>10. /\ reg' \in [Regs -> Int]
       /\ q # 31 => reg'[q] = r[q]
       /\ \A x \in Regs : x # q => reg'[x] = reg[x]
  <2> HIDE DEF slot
  <2> QED
    BY <1>2, <1>6, <1>8, <1>9 DEF Written, Got
<1>11. ASSUME NEW x \in 0 .. 30,
              x \in 19 .. 30 \/ (\E j \in (2 * m - (k + 1) + 1) .. 2 * m : Pushed(args, j) = x)
       PROVE  reg'[x] = r[x]
  <2>1. CASE x = q
    BY <1>10, <2>1
  <2>2. CASE x # q
    <3>1. x \in 19 .. 30 \/ (\E j \in (slot + 1) .. 2 * m : Pushed(args, j) = x)
      <4>1. \A j \in (2 * m - (k + 1) + 1) .. 2 * m : j = slot \/ j \in (slot + 1) .. 2 * m
        <5>1. m \in Nat
          BY <1>1
        <5> QED
          BY <5>1
      <4> QED
        BY <1>11, <2>2, <4>1 DEF q
    <3>2. x \in Regs
      BY RegsAre
    <3> QED
      BY <1>2, <1>10, <2>2, <3>1, <3>2
  <2> QED
    BY <2>1, <2>2
<1>12. /\ k + 1 \in 0 .. 2 * m /\ sp' = 8 * (k + 1) - 16 * m
  BY <1>1, <1>8
<1>13. Stored(args, r, 2 * m - (k + 1))'
  <2>1. \A j \in 1 .. 2 * m - (k + 1) : j \in 1 .. slot
    BY <1>1
  <2>2. \A j \in 1 .. 2 * m - (k + 1) : stack'[j] = Got(r, Pushed(args, j))
    BY <1>2, <1>8, <2>1 DEF Stored
  <2> QED
    BY <2>2 DEF Stored
<1>14. Machine'
  BY <1>8, <1>10 DEF Machine
<1>15. out' = Append(o, Printing(args, r))
  BY <1>2, <1>8
<1> HIDE DEF slot
<1>16. \A x \in 0 .. 30 :
         x \in 19 .. 30 \/ (\E j \in (2 * m - (k + 1) + 1) .. 2 * m : Pushed(args, j) = x) => reg'[x] = r[x]
  BY <1>11
<1>17. reg' \in [Regs -> Int] /\ m = Len(Pos(args))
  BY <1>1, <1>10
<1> QED
  BY <1>12, <1>13, <1>14, <1>15, <1>16, <1>17, Zenon DEF Popping

LEMMA PrintSteps ==
  ASSUME Machine, Next, NEW args, NEW m, Printable(args, m), NEW r \in [Regs -> Int], NEW o,
         NEW k \in 0 .. 5 * m + 8, InPrint(args, k, r, o), Facing(PrintWord(args, k + 1)), pc \in Nat
  PROVE  \/ Shot
         \/ status' = "undef" /\ args = << >>
         \/ Onwards /\ Machine' /\ InPrint(args, k + 1, r, o)'
<1>1. m \in 0 .. 7 /\ m = Len(Pos(args))
  BY PosIs DEF Printable
<1> DEFINE Goal == \/ Shot
                   \/ status' = "undef" /\ args = << >>
                   \/ Onwards /\ Machine' /\ InPrint(args, k + 1, r, o)'
<1>2. ASSUME NEW j \in 0 .. m, k = 2 * m + j, j < m, Loading(args, j, r, o)
      PROVE  Goal
  <2>1. k + 1 = 2 * m + (j + 1) /\ k + 1 > 2 * m /\ (k + 1) - 2 * m = j + 1
    BY <1>1, <1>2
  <2>2. Shot \/ (Onwards /\ Machine' /\ Loading(args, j + 1, r, o)')
    BY <1>2, <2>1, LoadingStep
  <2> QED
    BY <1>1, <2>1, <2>2, Zenon DEF InPrint
<1>3. ASSUME NEW j \in 0 .. 7, k = 3 * m + j, Calling(args, j, r, o)
      PROVE  Goal
  <2>1. k + 1 = 3 * m + (j + 1) /\ k + 1 > 3 * m /\ (k + 1) - 3 * m = j + 1
    BY <1>1, <1>3
  <2>2. CASE j # 7
    <3>1. j \in 0 .. 6
      BY <2>2
    <3>2. Shot \/ (Onwards /\ Machine' /\ Calling(args, j + 1, r, o)')
      BY <1>3, <2>1, <3>1, CallingStep
    <3> QED
      BY <1>1, <2>1, <3>2, Zenon DEF InPrint
  <2>3. CASE j = 7
    <3>1. k + 1 = 3 * m + 8
      BY <2>1, <2>3
    <3>2. (status' = "undef" /\ args = << >>) \/ (Onwards /\ Machine' /\ Called(args, r, o)')
      BY <1>3, <2>3, <3>1, CalledStep
    <3> QED
      BY <1>1, <3>1, <3>2, Zenon DEF InPrint
  <2> QED
    BY <2>2, <2>3
<1>4. ASSUME NEW j \in 0 .. m, k = 2 * m + j, Loading(args, j, r, o)
      PROVE  Goal
  <2>1. CASE j < m
    BY <1>2, <1>4, <2>1
  <2>2. CASE ~ (j < m)
    <3>1. j = m /\ k = 3 * m + 0 /\ 0 \in 0 .. 7
      BY <1>1, <1>4, <2>2
    <3>2. Calling(args, 0, r, o)
      BY <1>4, <3>1, CallingStarts
    <3> QED
      BY <1>3, <3>1, <3>2, Zenon
  <2> QED
    BY <2>1, <2>2
<1>5. CASE Pushing(args, k, r, o)
  <2>1. CASE k < 2 * m
    <3>1. k \in 0 .. 2 * m
      BY <1>1, <2>1
    <3>2. Shot \/ (Onwards /\ Machine' /\ Pushing(args, k + 1, r, o)')
      BY <1>5, <2>1, <3>1, PushingStep
    <3> QED
      BY <3>2 DEF InPrint
  <2>2. CASE ~ (k < 2 * m)
    <3>1. k = 2 * m /\ k = 2 * m + 0 /\ 0 \in 0 .. m
      BY <1>1, <1>5, <2>2 DEF Pushing
    <3>2. Loading(args, 0, r, o)
      BY <1>5, <3>1, LoadingStarts
    <3> QED
      BY <1>4, <3>1, <3>2, Zenon
  <2> QED
    BY <2>1, <2>2
<1>6. CASE k > 2 * m /\ Loading(args, k - 2 * m, r, o)
  <2>1. k = 2 * m + (k - 2 * m)
    BY <1>1
  <2>2. k - 2 * m \in 0 .. m
    BY <1>1, <1>6 DEF Loading
  <2> QED
    BY <1>4, <1>6, <2>1, <2>2, Zenon
<1>7. CASE k > 3 * m /\ Calling(args, k - 3 * m, r, o)
  <2>1. k = 3 * m + (k - 3 * m)
    BY <1>1
  <2>2. k - 3 * m \in 0 .. 7
    BY <1>1, <1>7 DEF Calling
  <2> QED
    BY <1>3, <1>7, <2>1, <2>2, Zenon
<1>8. CASE k = 3 * m + 8 /\ Called(args, r, o)
  <2>1. k + 1 = 3 * m + 9 /\ (k + 1) - 3 * m - 9 = 0
    BY <1>1, <1>8
  <2>2. Shot \/ (Onwards /\ Machine' /\ Popping(args, 0, r, o)')
    BY <1>8, <2>1, PoppingStarts
  <2> QED
    BY <1>1, <2>1, <2>2, Zenon DEF InPrint
<1>9. CASE Popping(args, k - 3 * m - 9, r, o)
  <2> DEFINE j == k - 3 * m - 9
  <2>1. j \in 0 .. 2 * m
    BY <1>1, <1>9 DEF Popping
  <2>2. j < 2 * m /\ k + 1 = 3 * m + 9 + (j + 1) /\ (k + 1) - 3 * m - 9 = j + 1
    BY <1>1
  <2> HIDE DEF j
  <2>3. Shot \/ (Onwards /\ Machine' /\ Popping(args, j + 1, r, o)')
    BY <1>9, <2>1, <2>2, PoppingStep DEF j
  <2> QED
    BY <1>1, <2>2, <2>3, Zenon DEF InPrint
<1>10. \/ Pushing(args, k, r, o)
       \/ k > 2 * m /\ Loading(args, k - 2 * m, r, o)
       \/ k > 3 * m /\ Calling(args, k - 3 * m, r, o)
       \/ k = 3 * m + 8 /\ Called(args, r, o)
       \/ Popping(args, k - 3 * m - 9, r, o)
  BY <1>1, Zenon DEF InPrint
<1> QED
  BY <1>10, <1>5, <1>6, <1>7, <1>8, <1>9, Zenon

-----------------------------------------------------------------------------
(***************************************************************************)
(* From the meaning before an instruction to the one behind it.            *)
(***************************************************************************)
LEMMA ValIsInt == Val \subseteq Int /\ 0 \in Val
  BY Widths DEF Val

LEMMA Low32Int ==
  ASSUME NEW n \in Int
  PROVE  Low32(n) \in Int
<1>1. U32 \in Nat \ {0} /\ 2 \in Nat \ {0}
  BY Widths
<1>2. U32 \div 2 \in Int
  BY <1>1, DivMod
<1>3. n + U32 \div 2 \in Int
  BY <1>2
<1>4. (n + U32 \div 2) % U32 \in 0 .. U32 - 1
  BY <1>1, <1>3, DivMod
<1> QED
  BY <1>1, <1>2, <1>4 DEF Low32

LEMMA GotInt ==
  ASSUME NEW r \in [Regs -> Int], NEW q \in 0 .. 31
  PROVE  Got(r, q) \in Int
  BY RegsAre DEF Got

LEMMA QuotientInt ==
  ASSUME NEW a \in Int, NEW b \in Int
  PROVE  Quotient(a, b) \in Int
<1>1. CASE b = 0
  BY <1>1 DEF Quotient
<1>2. CASE b # 0
  <2>1. Abs(a) \in Int /\ Abs(b) \in Nat \ {0}
    BY <1>2 DEF Abs
  <2>2. Abs(a) \div Abs(b) \in Int
    BY <2>1, DivMod
  <2> DEFINE q == Abs(a) \div Abs(b)
  <2>3. Quotient(a, b) = IF (a < 0) = (b < 0) THEN q ELSE -q
    BY <1>2 DEF Quotient
  <2> HIDE DEF q
  <2>4. q \in Int /\ -q \in Int
    BY <2>2 DEF q
  <2> QED
    BY <2>3, <2>4
<1> QED
  BY <1>1, <1>2

LEMMA ComputedInt ==
  ASSUME NEW op \in Operations, NEW a \in Int, NEW b \in Int
  PROVE  Computed(op, a, b) \in Int
<1>1. a + b \in Int /\ a - b \in Int /\ a * b \in Int /\ Quotient(a, b) \in Int
  BY QuotientInt
<1>2. \E x \in Int : Computed(op, a, b) = Wrap(x)
  BY <1>1 DEF Computed
<1> QED
  BY <1>2, WrapIs

Overwritten(r, i, x) == IF i = 31 THEN r ELSE [r EXCEPT ![i] = x]

\* An assignment of x, which is v where it is sure, to d's register.
LEMMA AssignedMeant ==
  ASSUME NEW s, NEW r \in [Regs -> Int], NEW o, Meant(s, r, o),
         NEW d \in Names, Index[d] \in 0 .. 31, NEW v \in Val, NEW sure \in BOOLEAN,
         NEW x \in Int, sure = TRUE => x = v,
         NEW r2, r2 = Overwritten(r, Index[d], x)
  PROVE  /\ Meant(Assigned(s, d, v, sure), r2, o) /\ r2 \in [Regs -> Int]
         /\ Assigned(s, d, v, sure).over = s.over /\ Assigned(s, d, v, sure).ret = s.ret
         /\ \A q \in Regs : q # Index[d] => r2[q] = r[q]
<1> DEFINE t == Assigned(s, d, v, sure)
           kept == {n \in s.kept : Index[n] # Index[d]}
                     \union (IF sure /\ Index[d] # 31 THEN {d} ELSE {})
<1>1. s \in Meanings /\ (\A w \in s.kept : Index[w] \in 0 .. 30 /\ r[Index[w]] = s.env[w])
      /\ o \in Seq(Seq(Int)) /\ Agreeing(o, s.out)
  BY DEF Meant
<1>0. r2 = IF Index[d] = 31 THEN r ELSE [r EXCEPT ![Index[d]] = x]
  BY DEF Overwritten
<1>2. t = [s EXCEPT !.env[d] = v, !.kept = kept]
  BY DEF Assigned
<1>3. s.kept \subseteq Names /\ kept \subseteq Names
  BY <1>1 DEF Meanings
<1>4. /\ t \in Meanings /\ t.env = [s.env EXCEPT ![d] = v] /\ t.kept = kept /\ t.out = s.out
      /\ t.over = s.over /\ t.ret = s.ret
  <2> HIDE DEF t, kept
  <2> QED
    BY <1>1, <1>2, <1>3 DEF Meanings
<1>5. r2 \in [Regs -> Int] /\ (\A q \in Regs : q # Index[d] => r2[q] = r[q])
      /\ (Index[d] # 31 => r2[Index[d]] = x)
  BY <1>0, RegsAre
<1>6. ASSUME NEW w \in kept
      PROVE  Index[w] \in 0 .. 30 /\ r2[Index[w]] = t.env[w]
  <2>1. s.env \in [Names -> Val]
    BY <1>1 DEF Meanings
  <2> HIDE DEF t
  <2>2. CASE w \in s.kept /\ Index[w] # Index[d]
    <3>1. Index[w] \in 0 .. 30 /\ r[Index[w]] = s.env[w] /\ w # d /\ w \in Names
      BY <1>1, <1>3, <2>2
    <3>2. t.env[w] = s.env[w]
      BY <1>4, <2>1, <3>1
    <3>3. Index[w] \in Regs
      BY <3>1, RegsAre
    <3> QED
      BY <1>5, <2>2, <3>1, <3>2, <3>3
  <2>3. CASE w = d /\ sure /\ Index[d] # 31
    <3>1. t.env[d] = v /\ r2[Index[d]] = v
      BY <1>4, <1>5, <2>1, <2>3
    <3>2. Index[d] \in 0 .. 30
      BY <2>3
    <3> QED
      BY <2>3, <3>1, <3>2
  <2> QED
    BY <2>2, <2>3
<1> HIDE DEF t, kept
<1>7. Meant(t, r2, o)
  BY <1>1, <1>4, <1>6 DEF Meant
<1> QED
  BY <1>4, <1>5, <1>7 DEF t

LEMMA AssignedElse ==
  ASSUME NEW s \in Meanings, NEW d, NEW v, NEW sure
  PROVE  Assigned(s, d, v, sure).over = s.over /\ Assigned(s, d, v, sure).ret = s.ret
<1>1. \A a, b : LET t == [s EXCEPT !.env = a, !.kept = b] IN t.over = s.over /\ t.ret = s.ret
  BY DEF Meanings
<1> QED
  BY <1>1 DEF Assigned

LEMMA OverwrittenIs ==
  ASSUME NEW r \in [Regs -> Int], NEW i \in 0 .. 31, NEW x \in Int
  PROVE  /\ Overwritten(r, i, x) \in [Regs -> Int]
         /\ \A q \in Regs : q # i => Overwritten(r, i, x)[q] = r[q]
  BY RegsAre DEF Overwritten

\* The registers a print pushes hold every variable that it keeps.
LEMMA ShelteredArePushed ==
  ASSUME NEW args, NEW m, Printable(args, m), NEW q \in Sheltered(args)
  PROVE  \E j \in 1 .. 2 * m : Pushed(args, j) = q
<1>1. PICK k \in DOMAIN args : Index[args[k]] # k /\ q \in {k, Index[args[k]]}
  BY DEF Sheltered
<1>2. /\ m = Len(Pos(args)) /\ m \in 0 .. 7
      /\ \A i \in DOMAIN args : Index[args[i]] # i => \E j \in 1 .. m : Pos(args)[j] = i
  BY PosIs DEF Printable
<1>3. PICK j \in 1 .. m : Pos(args)[j] = k
  BY <1>1, <1>2
<1>4. Pushed(args, j) = k /\ Pushed(args, m + j) = Index[args[k]]
  BY <1>3, PushedIs
<1>5. j \in 1 .. 2 * m /\ m + j \in 1 .. 2 * m
  <2>1. m \in Nat
    BY <1>2
  <2> QED
    BY <2>1
<1> QED
  BY <1>1, <1>4, <1>5

LEMMA Appended ==
  ASSUME NEW S, NEW seq \in Seq(S), NEW elt \in S
  PROVE  /\ Append(seq, elt) \in Seq(S) /\ Len(Append(seq, elt)) = Len(seq) + 1
         /\ DOMAIN Append(seq, elt) = 1 .. Len(seq) + 1
         /\ \A j \in 1 .. Len(seq) : Append(seq, elt)[j] = seq[j]
         /\ Append(seq, elt)[Len(seq) + 1] = elt
  BY AppendProperties, LenProperties

LEMMA AppendedRow ==
  ASSUME NEW S, NEW seq \in Seq(Seq(S)), NEW elt \in Seq(S)
  PROVE  /\ Append(seq, elt) \in Seq(Seq(S)) /\ Len(Append(seq, elt)) = Len(seq) + 1
         /\ DOMAIN Append(seq, elt) = 1 .. Len(seq) + 1
         /\ \A j \in 1 .. Len(seq) : Append(seq, elt)[j] = seq[j]
         /\ Append(seq, elt)[Len(seq) + 1] = elt
  BY Appended, Zenon

LEMMA AgreeingMore ==
  ASSUME NEW o \in Seq(Seq(Int)), NEW out1 \in Seq(Seq(Outcome)), Agreeing(o, out1),
         NEW line \in Seq(Int), NEW outcome \in Seq(Outcome), Len(line) = Len(outcome),
         \A k \in DOMAIN line : outcome[k].known => line[k] = Low32(outcome[k].num)
  PROVE  Agreeing(Append(o, line), Append(out1, outcome)) /\ Append(o, line) \in Seq(Seq(Int))
<1>1. /\ Len(o) \in Nat /\ Len(o) = Len(out1) /\ DOMAIN o = 1 .. Len(o)
  BY LenProperties DEF Agreeing
<1>2. /\ Append(o, line) \in Seq(Seq(Int)) /\ Len(Append(o, line)) = Len(o) + 1
      /\ DOMAIN Append(o, line) = 1 .. Len(o) + 1
      /\ \A j \in 1 .. Len(o) : Append(o, line)[j] = o[j]
      /\ Append(o, line)[Len(o) + 1] = line
  BY Appended, Zenon
<1>3. /\ Len(Append(out1, outcome)) = Len(o) + 1
      /\ \A j \in 1 .. Len(o) : Append(out1, outcome)[j] = out1[j]
      /\ Append(out1, outcome)[Len(o) + 1] = outcome
  <2>1. /\ Append(out1, outcome) \in Seq(Seq(Outcome))
        /\ Len(Append(out1, outcome)) = Len(out1) + 1
        /\ DOMAIN Append(out1, outcome) = 1 .. Len(out1) + 1
        /\ \A j \in 1 .. Len(out1) : Append(out1, outcome)[j] = out1[j]
        /\ Append(out1, outcome)[Len(out1) + 1] = outcome
    BY AppendedRow
  <2> QED
    BY <1>1, <2>1, Zenon
<1> DEFINE o2 == Append(o, line)  out2 == Append(out1, outcome)
<1>4. ASSUME NEW j \in DOMAIN o2
      PROVE  /\ Len(o2[j]) = Len(out2[j])
             /\ \A k \in DOMAIN o2[j] : out2[j][k].known => o2[j][k] = Low32(out2[j][k].num)
  <2>1. j \in 1 .. Len(o) \/ j = Len(o) + 1
    BY <1>1, <1>2
  <2> HIDE DEF o2, out2
  <2>2. CASE j \in 1 .. Len(o)
    <3>1. o2[j] = o[j] /\ out2[j] = out1[j] /\ j \in DOMAIN o
      BY <1>1, <1>2, <1>3, <2>2 DEF o2, out2
    <3> QED
      BY <3>1 DEF Agreeing
  <2>3. CASE j = Len(o) + 1
    <3>1. o2[j] = line /\ out2[j] = outcome
      BY <1>2, <1>3, <2>3 DEF o2, out2
    <3> QED
      BY <3>1
  <2> QED
    BY <2>1, <2>2, <2>3
<1>5. Len(o2) = Len(out2)
  BY <1>2, <1>3
<1> HIDE DEF o2, out2
<1>6. Agreeing(o2, out2)
  BY <1>4, <1>5 DEF Agreeing
<1> QED
  BY <1>2, <1>6 DEF o2, out2

\* What a print leaves, in registers r2.
Spares(args, m, r, r2) ==
  \A q \in 0 .. 30 :
    q \in 19 .. 30 \/ (\E j \in 1 .. 2 * m : Pushed(args, j) = q) => r2[q] = r[q]
Shown(s, args) ==
  [s EXCEPT !.out = Append(s.out, [k \in DOMAIN args |-> Known(s, args[k])]),
            !.kept = {n \in s.kept : Index[n] \in CallerSaved => Index[n] \in Sheltered(args)}]

LEMMA PrintMeant ==
  ASSUME NEW s, NEW r \in [Regs -> Int], NEW o, Meant(s, r, o),
         NEW args, NEW m, Printable(args, m), NEW r2 \in [Regs -> Int],
         Spares(args, m, r, r2), NEW t, t = Shown(s, args)
  PROVE  /\ Meant(t, r2, Append(o, Printing(args, r)))
         /\ t.over = s.over /\ t.ret = s.ret
<1> DEFINE outcome == [k \in DOMAIN args |-> Known(s, args[k])]
           kept == {n \in s.kept : Index[n] \in CallerSaved => Index[n] \in Sheltered(args)}
           line == Printing(args, r)
<1>1. s \in Meanings /\ (\A w \in s.kept : Index[w] \in 0 .. 30 /\ r[Index[w]] = s.env[w])
      /\ o \in Seq(Seq(Int)) /\ Agreeing(o, s.out)
  BY DEF Meant
<1>2. t = [s EXCEPT !.out = Append(s.out, outcome), !.kept = kept]
  BY DEF Shown
<1>3. /\ args \in Seq(Names) /\ DOMAIN args = 1 .. Len(args) /\ Len(args) \in 0 .. 7
      /\ \A k \in DOMAIN args : args[k] \in Names /\ Index[args[k]] \in 0 .. 31
  <2>1. args \in Seq(Names) /\ DOMAIN args = 1 .. Len(args) /\ Len(args) \in 0 .. 7
    BY PosIs DEF Printable
  <2>2. \A k \in DOMAIN args : Index[args[k]] \in 0 .. 31
    BY DEF Printable, AllInFile, InFile, Reg_size
  <2>3. \A k \in DOMAIN args : args[k] \in Names
    BY <2>1, ElementOfSeq
  <2> QED
    BY <2>1, <2>2, <2>3
<1>4. s.env \in [Names -> Val] /\ s.kept \subseteq Names /\ s.out \in Seq(Seq(Outcome))
  BY <1>1 DEF Meanings
<1>5. \A k \in 1 .. Len(args) : Known(s, args[k]) \in Outcome
  BY <1>3, <1>4 DEF Known, Outcome
<1>6. outcome \in Seq(Outcome) /\ Len(outcome) = Len(args)
  BY <1>3, <1>5
<1>7. line \in Seq(Int) /\ Len(line) = Len(args) /\ DOMAIN line = 1 .. Len(args)
      /\ \A k \in 1 .. Len(args) : line[k] = Low32(Got(r, Index[args[k]]))
  <2>1. \A k \in 1 .. Len(args) : Low32(Got(r, Index[args[k]])) \in Int
    <3> TAKE k \in 1 .. Len(args)
    <3>1. Got(r, Index[args[k]]) \in Int
      <4>1. \A q \in 0 .. 31 : Got(r, q) \in Int
        BY GotInt
      <4> QED
        BY <1>3, <4>1, Zenon
    <3> QED
      BY <3>1, Low32Int
  <2> QED
    BY <1>3, <2>1 DEF Printing
<1>8. ASSUME NEW k \in DOMAIN line, outcome[k].known
      PROVE  line[k] = Low32(outcome[k].num)
  <2>1. k \in DOMAIN args /\ outcome[k] = Known(s, args[k])
    BY <1>3, <1>7
  <2>2. args[k] \in s.kept /\ outcome[k].num = s.env[args[k]]
    BY <1>8, <2>1 DEF Known
  <2>3. Index[args[k]] # 31 /\ r[Index[args[k]]] = s.env[args[k]]
    <3>1. \A q \in 0 .. 30 : q # 31
      OBVIOUS
    <3>2. \A w \in s.kept : Index[w] # 31 /\ r[Index[w]] = s.env[w]
      BY <1>1, <3>1, Zenon
    <3> QED
      BY <2>2, <3>2, Zenon
  <2> QED
    BY <1>3, <1>7, <2>1, <2>2, <2>3 DEF Got
<1>9. Agreeing(Append(o, line), Append(s.out, outcome)) /\ Append(o, line) \in Seq(Seq(Int))
  <2> HIDE DEF line, outcome
  <2> QED
    BY <1>1, <1>4, <1>6, <1>7, <1>8, AgreeingMore
<1>10. Append(s.out, outcome) \in Seq(Seq(Outcome))
  <2> HIDE DEF outcome
  <2> QED
    BY <1>4, <1>6, AppendProperties
<1>11. /\ t \in Meanings /\ t.env = s.env /\ t.kept = kept /\ t.out = Append(s.out, outcome)
       /\ t.over = s.over /\ t.ret = s.ret
  <2>1. kept \subseteq Names
    BY <1>4
  <2> HIDE DEF kept, outcome
  <2> QED
    BY <1>1, <1>2, <1>10, <2>1 DEF Meanings
<1>12. ASSUME NEW w \in kept
       PROVE  Index[w] \in 0 .. 30 /\ r2[Index[w]] = t.env[w]
  <2>1. Index[w] \in 0 .. 30 /\ r[Index[w]] = s.env[w]
    BY <1>1
  <2>2. Index[w] \in 19 .. 30 \/ Index[w] \in Sheltered(args)
    BY <2>1 DEF CallerSaved
  <2>3. r2[Index[w]] = r[Index[w]]
    BY <2>1, <2>2, ShelteredArePushed DEF Spares
  <2> QED
    BY <1>11, <2>1, <2>3
<1> HIDE DEF kept, outcome, line
<1>13. Meant(t, r2, Append(o, line))
  BY <1>9, <1>11, <1>12 DEF Meant
<1> QED
  BY <1>11, <1>13 DEF line

-----------------------------------------------------------------------------
(***************************************************************************)
(* From one instruction to the next.                                       *)
(***************************************************************************)
Base == IInv /\ CodeInv /\ stack \in [1 .. StackSlots -> Int]

Here(n, k, r, o) ==
  /\ Base /\ status = "run" /\ n \in 1 .. Len(prog) /\ Level(n, r, o)
  /\ k \in 0 .. Len(Words(prog[n])) - 1 /\ pc = Place(n) + k + 1 /\ Inside(prog[n], k, r, o)

LEMMA NoSlots == \A x : x = 0 => x = -(8 * 0)
<1>1. 8 * 0 = 0
  OBVIOUS
<1>2. \A e \in Int : e + e = 0 => e = -e
  OBVIOUS
<1>3. 0 \in Int /\ 0 + 0 = 0
  OBVIOUS
<1>4. 0 = -0
  BY <1>2, <1>3, Zenon
<1> QED
  BY <1>1, <1>4, Zenon

\* In a program whose code is laid out.
LEMMA Laying ==
  ASSUME IInv, CodeInv, Len(starts) = Len(prog), NEW L, L = Len(prog)
  PROVE  /\ L \in Nat /\ DOMAIN prog = 1 .. L /\ Place(1) = 0 /\ Place(L + 1) = Len(code)
         /\ Len(code) \in Nat /\ DOMAIN code = 1 .. Len(code)
         /\ \A n \in 1 .. L :
              /\ prog[n] \in Instr /\ Taken(prog[n]) /\ Place(n) \in Nat
              /\ Len(Words(prog[n])) \in Nat \ {0}
              /\ Place(n + 1) = Place(n) + Len(Words(prog[n]))
              /\ Place(n + 1) <= Len(code)
              /\ \A k \in 1 .. Len(Words(prog[n])) : code[Place(n) + k] = Words(prog[n])[k]
<1>1. prog \in Seq(Instr) /\ starts \in Seq(Nat) /\ code \in Seq(Decoded)
  BY JitAssumption DEF IInv, JitAssumption
<1>2. /\ L \in Nat /\ DOMAIN prog = 1 .. L /\ DOMAIN starts = 1 .. L
      /\ Len(code) \in Nat /\ DOMAIN code = 1 .. Len(code)
  BY <1>1, LenProperties
<1>3. Place(L + 1) = Len(code) /\ Place(1) = 0
  <2>1. L + 1 \notin 1 .. L
    BY <1>2
  <2> QED
    BY <1>2, <2>1 DEF Place, CodeInv
<1>4. ASSUME NEW n \in 1 .. L
      PROVE  /\ prog[n] \in Instr /\ Taken(prog[n]) /\ Place(n) \in Nat
             /\ Len(Words(prog[n])) \in Nat \ {0}
             /\ Place(n + 1) = Place(n) + Len(Words(prog[n]))
             /\ Place(n + 1) <= Len(code)
             /\ \A k \in 1 .. Len(Words(prog[n])) : code[Place(n) + k] = Words(prog[n])[k]
  <2>1. prog[n] \in Instr
    BY <1>1, <1>2, ElementOfSeq
  <2>2. \A i \in 1 .. L : Laid(i)
    BY DEF CodeInv
  <2>3. L \in 1 .. L
    BY <1>2
  <2>4. Place(n) + Len(Words(prog[n])) <= Place(L + 1)
    BY <2>2, <2>3, Zenon DEF Laid
  <2>5. /\ Taken(prog[n]) /\ Place(n) \in Nat
        /\ Len(Words(prog[n])) \in Nat \ {0}
        /\ Place(n + 1) = Place(n) + Len(Words(prog[n]))
        /\ \A k \in 1 .. Len(Words(prog[n])) : code[Place(n) + k] = Words(prog[n])[k]
    BY <2>2, Zenon DEF Laid
  <2> QED
    BY <1>3, <2>1, <2>4, <2>5, Zenon
<1> QED
  BY <1>2, <1>3, <1>4

LEMMA Locating ==
  ASSUME NEW n, NEW k, NEW r, NEW o, Here(n, k, r, o), NEW ins, ins = prog[n],
         NEW W, W = Len(Words(ins))
  PROVE  /\ ins \in Instr /\ Taken(ins) /\ Facing(Words(ins)[k + 1]) /\ pc \in Nat
         /\ W \in Nat \ {0} /\ k \in 0 .. W - 1 /\ Place(n) \in Nat
         /\ n \in Nat /\ n + 1 \in 1 .. Len(prog) + 1 /\ n \in DOMAIN prog
         /\ Place(n + 1) = Place(n) + W
<1>1. IInv /\ CodeInv /\ status = "run" /\ n \in 1 .. Len(prog) /\ k \in 0 .. W - 1
      /\ pc = Place(n) + k + 1
  BY DEF Here, Base
<1>2. PICK L : L = Len(prog)
  OBVIOUS
<1>3. Len(starts) = Len(prog)
  BY <1>1 DEF CodeInv
<1>4. /\ L \in Nat /\ DOMAIN prog = 1 .. L /\ Len(code) \in Nat /\ DOMAIN code = 1 .. Len(code)
      /\ ins \in Instr /\ Taken(ins) /\ Place(n) \in Nat /\ W \in Nat \ {0}
      /\ Place(n + 1) = Place(n) + W /\ Place(n + 1) <= Len(code)
      /\ \A i \in 1 .. W : code[Place(n) + i] = Words(ins)[i]
  BY <1>1, <1>2, <1>3, Laying
<1>5. /\ k + 1 \in 1 .. W /\ pc = Place(n) + (k + 1) /\ pc \in 1 .. Len(code) /\ pc \in Nat
      /\ n \in Nat /\ n + 1 \in 1 .. L + 1
  BY <1>1, <1>2, <1>4
<1>6. Facing(Words(ins)[k + 1])
  BY <1>1, <1>4, <1>5 DEF Facing
<1> QED
  BY <1>1, <1>2, <1>4, <1>5, <1>6

LEMMA LevelKept ==
  ASSUME NEW n, NEW r, NEW o, prog' = prog, Level(n, r, o)
  PROVE  Level(n, r, o)'
<1>1. After(n - 1)' = After(n - 1)
  BY AfterKept
<1> QED
  BY <1>1 DEF Level, Meant, Spared, Agreeing

\* The beginning of an instruction, or the end of the code.
LEMMA Entered ==
  ASSUME IInv, CodeInv, Len(starts) = Len(prog), UNCHANGED <<prog, code, starts>>,
         NEW n \in 1 .. Len(prog) + 1, NEW r, NEW o, Level(n, r, o),
         pc' = Place(n) + 1, reg' = r, sp' = 0, out' = o, stack' \in [1 .. StackSlots -> Int]
  PROVE  RunInv'
<1>1. PICK L : L = Len(prog)
  OBVIOUS
<1>2. /\ L \in Nat /\ Place(L + 1) = Len(code)
      /\ \A i \in 1 .. L : Len(Words(prog[i])) \in Nat \ {0} /\ Place(i) \in Nat
                           /\ prog[i] \in Instr /\ Taken(prog[i])
  BY <1>1, Laying
<1>3. Level(n, r, o)' /\ r \in [Regs -> Int] /\ o \in Seq(Seq(Int))
  BY LevelKept DEF Level, Meant
<1>4. Place(n)' = Place(n)
  BY PlaceKept
<1>5. CASE n = L + 1
  <2>1. At(n, r, o)'
    BY <1>1, <1>2, <1>3, <1>5 DEF At
  <2> QED
    BY <1>1, <1>3, <2>1 DEF RunInv
<1>6. CASE n # L + 1
  <2>1. n \in 1 .. L /\ n # Len(prog) + 1
    BY <1>1, <1>2, <1>6
  <2>2. PICK ins : ins = prog[n]
    OBVIOUS
  <2>3. Len(Words(ins)) \in Nat \ {0} /\ Place(n) \in Nat /\ ins \in Instr /\ Taken(ins)
    BY <1>2, <2>1, <2>2
  <2>4. Inside(ins, 0, r, o)'
    <3>1. CASE ins.op = "print"
      <4>1. ins.args \in Seq(Names) /\ Len(ins.args) <= 7
        BY <2>3, <3>1 DEF Taken
      <4>2. 0 \in 0 .. 2 * Len(Pos(ins.args))
        <5>1. Len(Pos(ins.args)) \in 0 .. 7
          BY <4>1, PosIs
        <5> QED
          BY <5>1
      <4>3. Stored(ins.args, r, 0)'
        BY DEF Stored
      <4>4. sp' = -(8 * 0)
        BY NoSlots, Zenon
      <4>5. Pushing(ins.args, 0, r, o)'
        BY <4>2, <4>3, <4>4 DEF Pushing
      <4> QED
        BY <3>1, <4>5 DEF Inside, InPrint
    <3>2. CASE ins.op # "print"
      BY <3>2 DEF Inside
    <3> QED
      BY <3>1, <3>2
  <2>5. 0 \in 0 .. Len(Words(ins)) - 1 /\ pc' = Place(n) + 0 + 1
    BY <2>3
  <2>6. prog'[n] = ins /\ Len(prog') = Len(prog)
    BY <2>2
  <2>7. At(n, r, o)'
    BY <1>3, <1>4, <2>1, <2>4, <2>5, <2>6 DEF At
  <2> QED
    BY <1>3, <2>7 DEF RunInv
<1> QED
  BY <1>5, <1>6

-----------------------------------------------------------------------------
(***************************************************************************)
(* What a step does from within an instruction.                            *)
(***************************************************************************)
Sound == RunInv /\ DoneInv /\ Regularly

LEMMA HereMachine ==
  ASSUME NEW n, NEW k, NEW r, NEW o, Here(n, k, r, o)
  PROVE  Machine
<1>1. PICK ins : ins = prog[n]
  OBVIOUS
<1>2. /\ stack \in [1 .. StackSlots -> Int] /\ r \in [Regs -> Int] /\ Inside(ins, k, r, o)
  BY <1>1 DEF Here, Base, Level
<1>3. ins \in Instr /\ Taken(ins)
  BY <1>1, Locating
<1>4. reg \in [Regs -> Int]
  <2>1. CASE ins.op = "print"
    BY <1>2, <2>1 DEF Inside, InPrint, Pushing, Loading, Calling, Called, Popping
  <2>2. CASE ins.op # "print" /\ reg = r
    BY <1>2, <2>2
  <2>3. CASE ins.op # "print" /\ reg # r
    <3>1. /\ ins.op = "ret" /\ Len(Words(ins)) = 2
          /\ reg = [r EXCEPT ![0] = Wrap(Got(r, Index[ins.args[1]]))]
      BY <1>2, <2>3 DEF Inside
    <3>2. ins.args # NoArgs /\ Len(ins.args) = 1
      <4>1. Len(<<Emit_ret>>) = 1
        OBVIOUS
      <4>2. CASE ~ (ins.args # NoArgs /\ Len(ins.args) = 1)
        <5>1. Words(ins) = <<Emit_ret>>
          BY <3>1, <4>2, Zenon DEF Words
        <5>2. Len(Words(ins)) = 1
          BY <4>1, <5>1, Zenon
        <5> QED
          BY <3>1, <5>2
      <4> QED
        BY <4>2
    <3>3. InFile(ins.args[1])
      BY <1>3, <3>1, <3>2 DEF Taken
    <3>4. Index[ins.args[1]] \in 0 .. 31
      BY <3>3 DEF InFile, Reg_size
    <3>5. Wrap(Got(r, Index[ins.args[1]])) \in Int
      BY <1>2, <3>4, GotInt, WrapIs
    <3> QED
      BY <1>2, <3>1, <3>5
  <2> QED
    BY <2>1, <2>2, <2>3
<1> QED
  BY <1>2, <1>4 DEF Machine

LEMMA LevelNext ==
  ASSUME NEW n \in Nat \ {0}, NEW r, NEW o, Level(n, r, o), NEW r2 \in [Regs -> Int], NEW o2,
         Meant(After(n), r2, o2), ~ After(n).over, ~ After(n).ret.known,
         \A q \in 19 .. 30 : q # Index[prog[n].dest] => r2[q] = r[q]
  PROVE  Level(n + 1, r2, o2)
<1>1. (n + 1) - 1 = n /\ n \in 1 .. n /\ \A i \in 1 .. n - 1 : i \in 1 .. n
  OBVIOUS
<1>2. Spared(n - 1, r)
  BY DEF Level
<1>3. Spared(n, r2)
  <2> SUFFICES ASSUME NEW q \in 19 .. 30, \A i \in 1 .. n : Index[prog[i].dest] # q
               PROVE  r2[q] = Host[q]
    BY DEF Spared
  <2>1. r2[q] = r[q]
    BY <1>1
  <2>2. r[q] = Host[q]
    BY <1>1, <1>2 DEF Spared
  <2> QED
    BY <2>1, <2>2
<1>4. After((n + 1) - 1) = After(n) /\ (Spared((n + 1) - 1, r2) <=> Spared(n, r2))
  BY <1>1
<1> QED
  BY <1>3, <1>4 DEF Level

\* The last word of an instruction.
LEMMA Through ==
  ASSUME NEW n, NEW k, NEW r, NEW o, Here(n, k, r, o), k + 1 = Len(Words(prog[n])), Onwards,
         NEW r2, NEW o2, Level(n + 1, r2, o2), reg' = r2, sp' = 0, out' = o2,
         stack' \in [1 .. StackSlots -> Int]
  PROVE  Sound'
<1>1. PICK ins : ins = prog[n]
  OBVIOUS
<1>2. /\ n + 1 \in 1 .. Len(prog) + 1 /\ Len(Words(ins)) \in Nat \ {0} /\ Place(n) \in Nat
      /\ Place(n + 1) = Place(n) + Len(Words(ins)) /\ k \in 0 .. Len(Words(ins)) - 1
  BY <1>1, Locating
<1>3. /\ IInv /\ CodeInv /\ status = "run" /\ pc = Place(n) + k + 1
      /\ status' = status /\ pc' = pc + 1 /\ UNCHANGED <<prog, code, starts>>
  BY DEF Here, Base, Onwards
<1>4. pc' = Place(n + 1) + 1
  BY <1>1, <1>2, <1>3
<1>5. Len(starts) = Len(prog)
  BY <1>3 DEF CodeInv
<1>6. RunInv'
  BY <1>2, <1>3, <1>4, <1>5, Entered
<1>7. DoneInv' /\ Regularly'
  BY <1>3 DEF DoneInv, Regularly
<1> QED
  BY <1>6, <1>7 DEF Sound

\* Another word.
LEMMA Inward ==
  ASSUME NEW n, NEW k, NEW r, NEW o, Here(n, k, r, o), k + 1 < Len(Words(prog[n])), Onwards,
         Inside(prog[n], k + 1, r, o)', stack' \in [1 .. StackSlots -> Int]
  PROVE  Sound'
<1>1. PICK ins : ins = prog[n]
  OBVIOUS
<1>2. /\ Len(Words(ins)) \in Nat \ {0} /\ Place(n) \in Nat
      /\ k \in 0 .. Len(Words(ins)) - 1 /\ n \in Nat
  BY <1>1, Locating
<1>3. /\ IInv /\ CodeInv /\ status = "run" /\ pc = Place(n) + k + 1 /\ n \in 1 .. Len(prog)
      /\ Level(n, r, o)
      /\ status' = status /\ pc' = pc + 1 /\ UNCHANGED <<prog, code, starts>>
  BY DEF Here, Base, Onwards
<1>4. PICK L : L = Len(prog)
  OBVIOUS
<1>5. L \in Nat
  <2>1. Len(starts) = Len(prog)
    BY <1>3 DEF CodeInv
  <2> QED
    BY <1>3, <1>4, <2>1, Laying
<1>6. n # L + 1 /\ n \in 1 .. L + 1
  BY <1>3, <1>4, <1>5
<1>7. k + 1 \in 0 .. Len(Words(ins)) - 1 /\ pc' = Place(n) + (k + 1) + 1
  BY <1>1, <1>2, <1>3
<1>8. Place(n)' = Place(n) /\ Level(n, r, o)' /\ prog'[n] = ins /\ Len(prog') = L
  BY <1>1, <1>3, <1>4, PlaceKept, LevelKept
<1>9. r \in [Regs -> Int] /\ o \in Seq(Seq(Int))
  BY <1>3 DEF Level, Meant
<1>10. Inside(ins, k + 1, r, o)'
  BY <1>1, <1>3
<1>11. At(n, r, o)'
  BY <1>6, <1>7, <1>8, <1>10 DEF At
<1>12. RunInv'
  BY <1>6, <1>8, <1>9, <1>11 DEF RunInv
<1>13. DoneInv' /\ Regularly'
  BY <1>3 DEF DoneInv, Regularly
<1> QED
  BY <1>12, <1>13 DEF Sound

-----------------------------------------------------------------------------
(***************************************************************************)
(* The instructions that assign.                                           *)
(***************************************************************************)

\* The meaning of the instruction at hand.
LEMMA Stepping ==
  ASSUME NEW n, NEW k, NEW r, NEW o, Here(n, k, r, o), NEW ins, ins = prog[n]
  PROVE  /\ After(n) = Step(After(n - 1), ins) /\ Meant(After(n - 1), r, o)
         /\ ~ After(n - 1).over /\ ~ After(n - 1).ret.known
         /\ r \in [Regs -> Int] /\ n \in Nat \ {0} /\ Level(n, r, o)
<1>1. PICK L : L = Len(prog)
  OBVIOUS
<1>2. L \in Nat /\ n \in 1 .. L
  <2>1. IInv /\ CodeInv /\ status = "run" /\ n \in 1 .. Len(prog)
    BY DEF Here, Base
  <2>2. Len(starts) = Len(prog)
    BY <2>1 DEF CodeInv
  <2> QED
    BY <1>1, <2>1, <2>2, Laying
<1>3. After(n) = Step(After(n - 1), ins)
  BY <1>1, <1>2, AfterIs
<1>4. Level(n, r, o)
  BY DEF Here
<1> QED
  BY <1>2, <1>3, <1>4 DEF Level

\* An instruction of one word, that assigns x to a register.
LEMMA Assigning ==
  ASSUME NEW n, NEW k, NEW r, NEW o, Here(n, k, r, o), NEW ins, ins = prog[n],
         ins.op \in Operations \union {"const"}, Onwards, UNCHANGED <<sp, stack, out>>,
         NEW v \in Val, NEW sure \in BOOLEAN, NEW x \in Int, sure = TRUE => x = v,
         Step(After(n - 1), ins) = Assigned(After(n - 1), ins.dest, v, sure),
         reg' = Written(Num(Get_register(ins.dest)), x)
  PROVE  Sound'
<1>1. /\ ins \in Instr /\ Taken(ins) /\ k \in 0 .. Len(Words(ins)) - 1
  BY Locating
<1>2. ins.op # "print" /\ ins.op # "ret"
  BY DEF Operations
<1>3. Len(Words(ins)) = 1
  <2>1. ins.op = "const" \/ ins.op \in Operations
    OBVIOUS
  <2>2. CASE ins.op = "const"
    BY <2>2 DEF Words
  <2>3. CASE ins.op # "const"
    BY <1>2, <2>3 DEF Words
  <2> QED
    BY <2>2, <2>3
<1>4. k = 0
  BY <1>1, <1>3
<1>5. Inside(ins, 0, r, o)
  BY <1>4 DEF Here
<1>6. sp = 0 /\ out = o /\ reg = r
  BY <1>2, <1>5 DEF Inside
<1>7. ins.dest \in Names /\ Index[ins.dest] \in 0 .. 31
  BY <1>1 DEF Taken, InFile, Reg_size, Instr
<1>8. Num(Get_register(ins.dest)) = Index[ins.dest]
  BY <1>7, RegisterNum DEF Get_register
<1>9. PICK r2 : r2 = reg'
  OBVIOUS
<1>10. r2 = Overwritten(r, Index[ins.dest], x)
  BY <1>6, <1>8, <1>9 DEF Written, Overwritten
<1>11. PICK s : s = After(n - 1)
  OBVIOUS
<1>12. /\ Meant(s, r, o) /\ ~ s.over /\ ~ s.ret.known /\ r \in [Regs -> Int]
       /\ n \in Nat \ {0} /\ Level(n, r, o) /\ After(n) = Assigned(s, ins.dest, v, sure)
  BY <1>11, Stepping
<1>13. /\ Meant(Assigned(s, ins.dest, v, sure), r2, o) /\ r2 \in [Regs -> Int]
       /\ Assigned(s, ins.dest, v, sure).over = s.over
       /\ Assigned(s, ins.dest, v, sure).ret = s.ret
       /\ \A q \in Regs : q # Index[ins.dest] => r2[q] = r[q]
  <2>1. PICK d : d = ins.dest
    OBVIOUS
  <2>2. /\ Meant(s, r, o) /\ r \in [Regs -> Int] /\ d \in Names /\ Index[d] \in 0 .. 31
        /\ r2 = Overwritten(r, Index[d], x)
    BY <1>7, <1>10, <1>12, <2>1
  <2>3. /\ Meant(Assigned(s, d, v, sure), r2, o) /\ r2 \in [Regs -> Int]
        /\ Assigned(s, d, v, sure).over = s.over
        /\ Assigned(s, d, v, sure).ret = s.ret
        /\ \A q \in Regs : q # Index[d] => r2[q] = r[q]
    <3>1. Meant(Assigned(s, d, v, sure), r2, o)
      BY <2>2, AssignedMeant, Zenon
    <3>2. s \in Meanings
      BY <2>2 DEF Meant
    <3>3. /\ Assigned(s, d, v, sure).over = s.over
          /\ Assigned(s, d, v, sure).ret = s.ret
      BY <3>2, AssignedElse
    <3> QED
      BY <2>2, <3>1, <3>3, OverwrittenIs
  <2> QED
    BY <2>1, <2>3, Zenon
<1>14. \A q \in 19 .. 30 : q \in Regs
  BY RegsAre
<1>15. Level(n + 1, r2, o)
  BY <1>12, <1>13, <1>14, LevelNext
<1>16. sp' = 0 /\ out' = o /\ stack' \in [1 .. StackSlots -> Int]
  BY <1>6 DEF Here, Base
<1>17. k + 1 = Len(Words(prog[n]))
  BY <1>3, <1>4
<1> QED
  BY <1>9, <1>15, <1>16, <1>17, Through

LEMMA ConstStep ==
  ASSUME NEW n, NEW k, NEW r, NEW o, Here(n, k, r, o), NEW ins, ins = prog[n],
         ins.op = "const", Next
  PROVE  Sound'
<1>1. /\ ins \in Instr /\ Taken(ins) /\ k \in 0 .. Len(Words(ins)) - 1
      /\ Facing(Words(ins)[k + 1])
  BY Locating
<1>2. Words(ins) = <<ConstWord(Get_register(ins.dest), ins.value)>>
  BY DEF Words
<1>3. k = 0 /\ Facing(ConstWord(Get_register(ins.dest), ins.value))
  BY <1>1, <1>2
<1>4. Machine
  BY HereMachine
<1>5. ins.dest \in Names /\ InFile(ins.dest) /\ ins.value \in Val /\ ins.value \in Int
  BY <1>1, ValIsInt DEF Taken, Instr
<1>6. Get_register(ins.dest) \in Reg5
  BY <1>5, Registers
<1>7. /\ Onwards /\ UNCHANGED <<sp, stack, out>>
      /\ \E x \in Val : /\ reg' = Written(Num(Get_register(ins.dest)), x)
                        /\ ins.value \in -U16 .. U16 - 1 => x = ins.value
  BY <1>3, <1>4, <1>5, <1>6, ConstRuns
<1>8. PICK x \in Val : /\ reg' = Written(Num(Get_register(ins.dest)), x)
                       /\ ins.value \in -U16 .. U16 - 1 => x = ins.value
  BY <1>7
<1>9. PICK sure : sure = (ins.value \in -U16 .. U16 - 1)
  OBVIOUS
<1>10. sure \in BOOLEAN
  BY <1>9
<1>11. Step(After(n - 1), ins) = Assigned(After(n - 1), ins.dest, ins.value, sure)
  <2>1. ~ After(n - 1).over
    BY Stepping
  <2> QED
    BY <1>9, <2>1 DEF Step
<1>12. x \in Int /\ (sure = TRUE => x = ins.value)
  BY <1>8, <1>9, ValIsInt
<1>13. ins.op \in Operations \union {"const"}
  OBVIOUS
<1> QED
  BY <1>5, <1>7, <1>8, <1>10, <1>11, <1>12, <1>13, Assigning

LEMMA BinopStep ==
  ASSUME NEW n, NEW k, NEW r, NEW o, Here(n, k, r, o), NEW ins, ins = prog[n],
         ins.op \in Operations, Next
  PROVE  Sound'
<1>1. /\ ins \in Instr /\ Taken(ins) /\ k \in 0 .. Len(Words(ins)) - 1
      /\ Facing(Words(ins)[k + 1])
  BY Locating
<1>2. ins.op # "const" /\ ins.op # "print" /\ ins.op # "ret"
  BY DEF Operations
<1>3. PICK d, a, b : d = Get_register(ins.dest) /\ a = Get_register(ins.args[1])
                     /\ b = Get_register(ins.args[2])
  OBVIOUS
<1>4. Words(ins) = <<BinopWord(ins.op, d, a, b)>>
  BY <1>2, <1>3 DEF Words
<1>5. k = 0 /\ Facing(BinopWord(ins.op, d, a, b))
  BY <1>1, <1>4
<1>6. PICK v1, v2 : v1 = ins.args[1] /\ v2 = ins.args[2]
  OBVIOUS
<1>7. /\ ins.dest \in Names /\ InFile(ins.dest) /\ InFile(v1) /\ InFile(v2)
      /\ ins.args \in Seq(Names) /\ Len(ins.args) >= 2
  BY <1>1, <1>6 DEF Taken, Instr
<1>8. v1 \in Names /\ v2 \in Names
  BY <1>6, <1>7, LenProperties, ElementOfSeq
<1>9. d \in Reg5 /\ a \in Reg5 /\ b \in Reg5
  BY <1>3, <1>6, <1>7, <1>8, Registers
<1>10. /\ reg' = Written(Num(d), Computed(ins.op, Read(Num(a)), Read(Num(b))))
       /\ Onwards /\ UNCHANGED <<sp, stack, out>>
  BY <1>5, <1>9, BinopRuns
<1>11. Index[v1] \in 0 .. 31 /\ Index[v2] \in 0 .. 31
  BY <1>7 DEF InFile, Reg_size
<1>12. Num(a) = Index[v1] /\ Num(b) = Index[v2]
  BY <1>3, <1>6, <1>11, RegisterNum DEF Get_register
<1>13. PICK s : s = After(n - 1)
  OBVIOUS
<1>14. /\ Meant(s, r, o) /\ ~ s.over /\ r \in [Regs -> Int]
  BY <1>13, Stepping
<1>15. reg = r
  <2>1. Inside(ins, 0, r, o)
    BY <1>5 DEF Here
  <2> QED
    BY <1>2, <2>1 DEF Inside
<1>16. PICK x1, x2 : x1 = Read(Num(a)) /\ x2 = Read(Num(b))
  OBVIOUS
<1>17. x1 = Got(r, Index[v1]) /\ x2 = Got(r, Index[v2])
  BY <1>12, <1>15, <1>16 DEF Read, Got
<1>18. x1 \in Int /\ x2 \in Int
  BY <1>11, <1>14, <1>17, GotInt
<1>19. s.env \in [Names -> Val] /\ s \in Meanings
  BY <1>14 DEF Meant, Meanings
<1>20. PICK n1, n2 : n1 = s.env[v1] /\ n2 = s.env[v2]
  OBVIOUS
<1>21. n1 \in Val /\ n2 \in Val /\ n1 \in Int /\ n2 \in Int
  BY <1>8, <1>19, <1>20, ValIsInt
<1>22. /\ v1 \in s.kept => x1 = n1
       /\ v2 \in s.kept => x2 = n2
  <2>1. \A v \in s.kept : Index[v] \in 0 .. 30 /\ r[Index[v]] = s.env[v]
    BY <1>14 DEF Meant
  <2>2. \A i \in 0 .. 30 : i # 31
    OBVIOUS
  <2> QED
    BY <1>17, <1>20, <2>1, <2>2 DEF Got
<1>23. PICK x, v : x = Computed(ins.op, x1, x2) /\ v = Meaning(ins.op, n1, n2)
  OBVIOUS
<1>24. x \in Int /\ v \in Val
  BY <1>18, <1>21, <1>23, ComputedInt, MeaningIs
<1>25. PICK sure : sure = (v1 \in s.kept /\ v2 \in s.kept /\ (ins.op = "div" => n2 # 0))
  OBVIOUS
<1>26. sure \in BOOLEAN
  BY <1>25
<1>27. sure = TRUE => x = v
  <2> SUFFICES ASSUME sure = TRUE
               PROVE  x = v
    OBVIOUS
  <2>1. x1 = n1 /\ x2 = n2 /\ (ins.op = "div" => n2 # 0)
    BY <1>22, <1>25
  <2>2. Computed(ins.op, n1, n2) = Meaning(ins.op, n1, n2)
    BY <1>21, <2>1, MeaningIs
  <2> QED
    BY <1>23, <2>1, <2>2
<1>28. Step(s, ins) = Assigned(s, ins.dest, v, sure)
  BY <1>2, <1>6, <1>14, <1>20, <1>23, <1>25, Zenon DEF Step
<1>29. reg' = Written(Num(Get_register(ins.dest)), x)
  BY <1>3, <1>10, <1>16, <1>23
<1>30. ins.op \in Operations \union {"const"}
  OBVIOUS
<1> QED
  BY <1>10, <1>13, <1>24, <1>26, <1>27, <1>28, <1>29, <1>30, Assigning

-----------------------------------------------------------------------------
(***************************************************************************)
(* print.                                                                  *)
(***************************************************************************)

\* What a run that stops leaves as it was.
LEMMA Stopped ==
  ASSUME status = "run", Next, status' \in {"fault", "undef"}, ~ Regular
  PROVE  Sound'
<1>1. UNCHANGED <<prog, build, code, starts>>
  <2>1. Execute
    BY DEF Next, Parse, Parsing, Jit_bril, Parse_label, Parse_unsupported, Parse_const, Parse_binop,
           Parse_ret, Parse_print
  <2> QED
    BY <2>1, ExecuteKeeps
<1>2. ~ Regular'
  BY <1>1 DEF Regular, Bytes
<1> QED
  BY <1>2 DEF Sound, RunInv, DoneInv, Regularly

AtPrint(ins, args, m, k, r, o) ==
  /\ Printable(args, m) /\ m \in 0 .. 7 /\ k \in 0 .. 5 * m + 8 /\ pc \in Nat
  /\ InPrint(args, k, r, o) /\ Facing(PrintWord(args, k + 1)) /\ Len(Words(ins)) = 5 * m + 9

LEMMA PrintAt ==
  ASSUME NEW n, NEW k, NEW r, NEW o, Here(n, k, r, o), NEW ins, ins = prog[n], ins.op = "print",
         NEW args, args = ins.args, NEW m, m = Len(Pos(args))
  PROVE  AtPrint(ins, args, m, k, r, o)
<1>1. /\ Taken(ins) /\ k \in 0 .. Len(Words(ins)) - 1 /\ pc \in Nat
      /\ Facing(Words(ins)[k + 1])
  BY Locating
<1>2. args \in Seq(Names) /\ AllInFile(args) /\ Len(args) <= 7
  BY <1>1 DEF Taken
<1>3. Printable(args, m)
  BY <1>2 DEF Printable
<1>4. Words(ins) = PrintWords(args, Pos(args))
  BY DEF Words
<1>5. Len(PrintWords(args, Pos(args))) = 5 * m + 9
  BY <1>2, PrintWordsAre
<1>6. m \in 0 .. 7
  BY <1>2, PosIs
<1>7. Len(Words(ins)) = 5 * m + 9
  BY <1>4, <1>5
<1>8. k \in 0 .. 5 * m + 8
  BY <1>1, <1>6, <1>7
<1>9. InPrint(args, k, r, o)
  BY DEF Here, Inside
<1>10. Facing(PrintWord(args, k + 1))
  BY <1>1, <1>4 DEF PrintWord
<1> QED
  BY <1>1, <1>3, <1>6, <1>7, <1>8, <1>9, <1>10 DEF AtPrint

\* After the last word of print.
LEMMA PrintedWhole ==
  ASSUME NEW args, NEW m \in 0 .. 7, m = Len(Pos(args)), NEW r, NEW o,
         InPrint(args, 5 * m + 9, r, o)'
  PROVE  Popping(args, 2 * m, r, o)'
<1>1. PICK k : k = 5 * m + 9
  OBVIOUS
<1>2. /\ k \notin 0 .. 2 * m /\ k - 2 * m \notin 0 .. m /\ k - 3 * m \notin 0 .. 7
      /\ k # 3 * m + 8 /\ k - 3 * m - 9 = 2 * m
  BY <1>1
<1>3. InPrint(args, k, r, o)'
  BY <1>1
<1>4. ~ (Pushing(args, k, r, o)')
  BY <1>2 DEF Pushing
<1>5. ~ (Loading(args, k - 2 * m, r, o)')
  BY <1>2 DEF Loading
<1>6. ~ (Calling(args, k - 3 * m, r, o)')
  BY <1>2 DEF Calling
<1>7. Popping(args, k - 3 * m - 9, r, o)'
  BY <1>2, <1>3, <1>4, <1>5, <1>6, Zenon DEF InPrint
<1> QED
  BY <1>2, <1>7

\* And where the next instruction starts from.
LEMMA PrintedLevel ==
  ASSUME NEW n, NEW k, NEW r, NEW o, Here(n, k, r, o), NEW ins, ins = prog[n], ins.op = "print",
         NEW args, args = ins.args, NEW m, Printable(args, m), NEW r2 \in [Regs -> Int],
         Spares(args, m, r, r2)
  PROVE  Level(n + 1, r2, Append(o, Printing(args, r)))
<1>1. PICK s : s = After(n - 1)
  OBVIOUS
<1>2. /\ After(n) = Step(s, ins) /\ Meant(s, r, o) /\ ~ s.over /\ ~ s.ret.known
      /\ r \in [Regs -> Int] /\ n \in Nat \ {0} /\ Level(n, r, o)
  BY <1>1, Stepping
<1>3. PICK t : t = Shown(s, args)
  OBVIOUS
<1>4. Meant(t, r2, Append(o, Printing(args, r))) /\ t.over = s.over /\ t.ret = s.ret
  <2>1. Meant(t, r2, Append(o, Printing(args, r)))
    BY <1>2, <1>3, PrintMeant, Zenon
  <2>2. s \in Meanings
    BY <1>2 DEF Meant
  <2> QED
    BY <1>3, <2>1, <2>2 DEF Meanings, Shown
<1>5. After(n) = t
  BY <1>2, <1>3 DEF Step, Shown
<1>6. \A q \in 19 .. 30 : q # Index[prog[n].dest] => r2[q] = r[q]
  <2>1. \A q \in 19 .. 30 : q \in 0 .. 30
    OBVIOUS
  <2> QED
    BY <2>1 DEF Spares
<1>7. Meant(After(n), r2, Append(o, Printing(args, r))) /\ ~ After(n).over /\ ~ After(n).ret.known
  BY <1>2, <1>4, <1>5
<1> QED
  BY <1>2, <1>6, <1>7, LevelNext

LEMMA PrintStep ==
  ASSUME NEW n, NEW k, NEW r, NEW o, Here(n, k, r, o), NEW ins, ins = prog[n],
         ins.op = "print", Next
  PROVE  Sound'
<1>1. PICK args, m : args = ins.args /\ m = Len(Pos(args))
  OBVIOUS
<1>2. /\ Printable(args, m) /\ Len(Words(ins)) = 5 * m + 9 /\ m \in 0 .. 7
      /\ k \in 0 .. 5 * m + 8 /\ pc \in Nat
      /\ InPrint(args, k, r, o) /\ Facing(PrintWord(args, k + 1))
  <2>1. AtPrint(ins, args, m, k, r, o)
    BY <1>1, PrintAt, Zenon
  <2> QED
    BY <2>1 DEF AtPrint
<1>3. Machine /\ r \in [Regs -> Int]
  BY HereMachine, Stepping
<1>4. \/ Shot
      \/ status' = "undef" /\ args = << >>
      \/ Onwards /\ Machine' /\ InPrint(args, k + 1, r, o)'
  BY <1>2, <1>3, PrintSteps
<1>5. status = "run" /\ n \in DOMAIN prog
  <2>1. n \in DOMAIN prog
    BY Locating
  <2> QED
    BY <2>1 DEF Here
<1>6. CASE Shot \/ (status' = "undef" /\ args = << >>)
  <2>1. build.checksSP \/ prog[n].args = << >>
    BY <1>1, <1>6 DEF Shot
  <2>2. ~ Regular
    BY <1>5, <2>1 DEF Regular
  <2>3. status' \in {"fault", "undef"}
    BY <1>6 DEF Shot
  <2> QED
    BY <1>5, <2>2, <2>3, Stopped
<1>7. CASE Onwards /\ Machine' /\ InPrint(args, k + 1, r, o)' /\ k + 1 # 5 * m + 9
  <2>1. k + 1 < Len(Words(prog[n]))
    BY <1>2, <1>7
  <2>2. prog' = prog
    BY <1>7 DEF Onwards
  <2>3. Inside(prog[n], k + 1, r, o)'
    <3>1. prog'[n] = ins
      BY <2>2
    <3> QED
      BY <1>1, <1>7, <3>1 DEF Inside
  <2>4. stack' \in [1 .. StackSlots -> Int]
    BY <1>7 DEF Machine
  <2> QED
    BY <1>7, <2>1, <2>3, <2>4, Inward
<1>8. CASE Onwards /\ Machine' /\ InPrint(args, k + 1, r, o)' /\ k + 1 = 5 * m + 9
  <2>1. InPrint(args, 5 * m + 9, r, o)'
    BY <1>8
  <2>2. Popping(args, 2 * m, r, o)'
    <3>1. m = Len(Pos(args))
      BY <1>1
    <3> QED
      BY <1>2, <2>1, <3>1, PrintedWhole
  <2>3. /\ sp' = 8 * (2 * m) - 16 * m /\ out' = Append(o, Printing(args, r))
        /\ reg' \in [Regs -> Int]
        /\ \A q \in 0 .. 30 :
             \/ q \notin 19 .. 30 /\ ~ \E j \in (2 * m - 2 * m + 1) .. 2 * m : Pushed(args, j) = q
             \/ reg'[q] = r[q]
    BY <1>1, <2>2 DEF Popping
  <2>4. sp' = 0 /\ 2 * m - 2 * m + 1 = 1
    BY <1>2, <2>3
  <2>5. \A q \in 0 .. 30 :
             q \in 19 .. 30 \/ (\E j \in 1 .. 2 * m : Pushed(args, j) = q) => reg'[q] = r[q]
    BY <2>3, <2>4
  <2>6. PICK r2 : r2 = reg'
    OBVIOUS
  <2>7. r2 \in [Regs -> Int] /\ Spares(args, m, r, r2)
    BY <2>3, <2>5, <2>6 DEF Spares
  <2>8. Level(n + 1, r2, Append(o, Printing(args, r)))
    BY <1>1, <1>2, <2>7, PrintedLevel
  <2>9. k + 1 = Len(Words(prog[n])) /\ stack' \in [1 .. StackSlots -> Int]
    BY <1>2, <1>8 DEF Machine
  <2> QED
    BY <1>8, <2>3, <2>4, <2>6, <2>8, <2>9, Through
<1> QED
  BY <1>4, <1>6, <1>7, <1>8

-----------------------------------------------------------------------------
(***************************************************************************)
(* What follows a ret means nothing.                                       *)
(***************************************************************************)

\* Nothing follows a ret.
LEMMA OverStays ==
  ASSUME NEW L \in Nat, L = Len(prog), NEW n \in 1 .. L, After(n).over
  PROVE  After(L) = After(n)
<1> DEFINE X == {j \in Nat : n + j <= L => After(n + j) = After(n)}
<1>1. 0 \in X
  <2>1. n + 0 = n
    OBVIOUS
  <2> QED
    BY <2>1
<1>2. ASSUME NEW j \in Nat, j \in X
      PROVE  j + 1 \in X
  <2> SUFFICES ASSUME n + (j + 1) <= L
               PROVE  After(n + (j + 1)) = After(n)
    OBVIOUS
  <2>1. n + j <= L /\ n + (j + 1) \in 1 .. L /\ (n + (j + 1)) - 1 = n + j
    OBVIOUS
  <2>2. After(n + j) = After(n)
    BY <1>2, <2>1
  <2>3. After(n + (j + 1)) = Step(After((n + (j + 1)) - 1), prog[n + (j + 1)])
    BY <2>1, AfterIs
  <2>4. After(n + (j + 1)) = Step(After(n), prog[n + (j + 1)])
    BY <2>1, <2>2, <2>3
  <2> QED
    BY <2>4 DEF Step
<1> HIDE DEF X
<1>3. L - n \in Nat /\ n + (L - n) = L
  OBVIOUS
<1>4. L - n \in X
  BY <1>1, <1>2, <1>3, Induction
<1> QED
  BY <1>3, <1>4 DEF X

\* What returns, in two words or in one.
Returns(ins) == ins.args # NoArgs /\ Len(ins.args) = 1

LEMMA RetWords ==
  ASSUME NEW ins \in Instr, Taken(ins), ins.op = "ret"
  PROVE  /\ Returns(ins) => /\ ins.args \in Seq(Names) /\ Index[ins.args[1]] \in 0 .. 31
                            /\ ins.args[1] \in Names
                            /\ Len(Words(ins)) = 2 /\ Words(ins)[2] = Emit_ret
                            /\ Words(ins)[1] = Emit_orr_sr({}, Get_register(ins.args[1]))
         /\ ~ Returns(ins) => /\ Len(Words(ins)) = 1 /\ Words(ins)[1] = Emit_ret
                              /\ ~ (ins.args \in Seq(Names) /\ Len(ins.args) = 1)
<1>1. CASE Returns(ins)
  <2>1. Words(ins) = <<Emit_orr_sr({}, Get_register(ins.args[1])), Emit_ret>>
    BY <1>1 DEF Words, Returns
  <2>2. ins.args \in Seq(Names)
    BY <1>1 DEF Returns, Instr
  <2>3. Len(ins.args) = 1 /\ InFile(ins.args[1])
    BY <1>1 DEF Returns, Taken
  <2>4. ins.args[1] \in Names
    BY <2>2, <2>3, LenProperties, ElementOfSeq
  <2> QED
    BY <1>1, <2>1, <2>2, <2>3, <2>4 DEF InFile, Reg_size
<1>2. CASE ~ Returns(ins)
  <2>1. Words(ins) = <<Emit_ret>>
    BY <1>2, Zenon DEF Words, Returns
  <2>2. ~ (ins.args \in Seq(Names) /\ Len(ins.args) = 1)
    BY <1>2, JitAssumption DEF Returns, JitAssumption
  <2> QED
    BY <1>2, <2>1, <2>2
<1> QED
  BY <1>1, <1>2

LEMMA RetMoves ==
  ASSUME NEW n, NEW k, NEW r, NEW o, Here(n, k, r, o), NEW ins, ins = prog[n],
         ins.op = "ret", Next, k + 1 # Len(Words(ins))
  PROVE  Sound'
<1>1. /\ ins \in Instr /\ Taken(ins) /\ k \in 0 .. Len(Words(ins)) - 1
      /\ Facing(Words(ins)[k + 1])
  BY Locating
<1>2. Returns(ins)
  <2>1. CASE ~ Returns(ins)
    <3>1. Len(Words(ins)) = 1
      BY <1>1, <2>1, RetWords
    <3> QED
      BY <1>1, <3>1
  <2> QED
    BY <2>1
<1>3. PICK v : v = ins.args[1]
  OBVIOUS
<1>4. /\ Index[v] \in 0 .. 31 /\ v \in Names /\ Len(Words(ins)) = 2
      /\ Words(ins)[1] = Emit_orr_sr({}, Get_register(v))
  BY <1>1, <1>2, <1>3, RetWords
<1>5. k = 0 /\ k + 1 = 1
  BY <1>1, <1>4
<1>6. sp = 0 /\ out = o /\ reg = r
  <2>1. Inside(ins, 0, r, o)
    BY <1>5 DEF Here
  <2> QED
    BY <2>1 DEF Inside
<1>7. PICK a : a = Get_register(v)
  OBVIOUS
<1>8. Num(a) = Index[v] /\ a \in Reg5 /\ {} \in Reg5 /\ Num({}) = 0
  BY <1>4, <1>7, RegisterNum, Registers, Numbers DEF Get_register
<1>9. Facing(Emit_orr_sr({}, a))
  BY <1>1, <1>4, <1>5, <1>7
<1>10. reg' = Written(Num({}), Wrap(Read(Num(a)))) /\ Onwards /\ UNCHANGED <<sp, stack, out>>
  BY <1>8, <1>9, OrrRuns
<1>11. reg' = [r EXCEPT ![0] = Wrap(Got(r, Index[v]))]
  <2>1. Read(Num(a)) = Got(r, Index[v])
    BY <1>6, <1>8 DEF Read, Got
  <2>2. Written(0, Wrap(Read(Num(a)))) = [reg EXCEPT ![0] = Wrap(Read(Num(a)))]
    BY DEF Written
  <2> QED
    BY <1>6, <1>8, <1>10, <2>1, <2>2
<1>12. Inside(prog[n], k + 1, r, o)'
  <2>1. prog'[n] = ins
    BY <1>10 DEF Onwards
  <2>2. Inside(ins, 1, r, o)'
    BY <1>3, <1>4, <1>6, <1>10, <1>11 DEF Inside
  <2> QED
    BY <1>5, <2>1, <2>2
<1>13. k + 1 < Len(Words(prog[n]))
  BY <1>4, <1>5
<1>14. stack' \in [1 .. StackSlots -> Int]
  BY <1>10 DEF Here, Base
<1> QED
  BY <1>10, <1>12, <1>13, <1>14, Inward

-----------------------------------------------------------------------------
(***************************************************************************)
(* The words of ret.                                                       *)
(***************************************************************************)

\* The machine at the ret word.
LEMMA AtRet ==
  ASSUME NEW n, NEW k, NEW r, NEW o, Here(n, k, r, o), NEW ins, ins = prog[n],
         ins.op = "ret", k + 1 = Len(Words(ins))
  PROVE  /\ Facing(Emit_ret) /\ sp = 0 /\ out = o
         /\ \A q \in 19 .. 30 : reg[q] = r[q]
         /\ Returns(ins) => reg[0] = Wrap(Got(r, Index[ins.args[1]]))
<1>1. /\ ins \in Instr /\ Taken(ins) /\ k \in 0 .. Len(Words(ins)) - 1
      /\ Facing(Words(ins)[k + 1])
  BY Locating
<1>2. Inside(ins, k, r, o) /\ r \in [Regs -> Int]
  BY DEF Here, Level
<1>3. /\ sp = 0 /\ out = o
      /\ \/ k = 0 /\ reg = r
         \/ k = 1 /\ reg = [r EXCEPT ![0] = Wrap(Got(r, Index[ins.args[1]]))]
  BY <1>2 DEF Inside
<1>4. CASE Returns(ins)
  <2>1. Len(Words(ins)) = 2 /\ Words(ins)[2] = Emit_ret
    BY <1>1, <1>4, RetWords
  <2>2. k = 1 /\ k + 1 = 2
    BY <1>1, <2>1
  <2>3. Facing(Emit_ret)
    BY <1>1, <2>1, <2>2
  <2>4. reg = [r EXCEPT ![0] = Wrap(Got(r, Index[ins.args[1]]))]
    BY <1>3, <2>2
  <2>5. 0 \in Regs /\ \A q \in 19 .. 30 : q \in Regs /\ q # 0
    BY RegsAre
  <2>6. reg[0] = Wrap(Got(r, Index[ins.args[1]])) /\ \A q \in 19 .. 30 : reg[q] = r[q]
    BY <1>2, <2>4, <2>5
  <2> QED
    BY <1>3, <2>3, <2>6
<1>5. CASE ~ Returns(ins)
  <2>1. Len(Words(ins)) = 1 /\ Words(ins)[1] = Emit_ret
    BY <1>1, <1>5, RetWords
  <2>2. k = 0 /\ k + 1 = 1
    BY <1>1, <2>1
  <2>3. Facing(Emit_ret)
    BY <1>1, <2>1, <2>2
  <2> QED
    BY <1>3, <1>5, <2>2, <2>3
<1> QED
  BY <1>4, <1>5

\* What ret means: the value that register 0 holds.
LEMMA RetMeant ==
  ASSUME NEW n, NEW k, NEW r, NEW o, Here(n, k, r, o), NEW ins, ins = prog[n], ins.op = "ret"
  PROVE  /\ After(n).over /\ After(n).out = After(n - 1).out
         /\ After(n).ret.known =>
              Returns(ins) /\ After(n).ret.num = Wrap(Got(r, Index[ins.args[1]]))
<1>1. ins \in Instr /\ Taken(ins)
  BY Locating
<1>2. PICK s : s = After(n - 1)
  OBVIOUS
<1>3. After(n) = Step(s, ins) /\ Meant(s, r, o) /\ ~ s.over /\ ~ s.ret.known
  BY <1>2, Stepping
<1>4. PICK ret : ret = IF ins.args \in Seq(Names) /\ Len(ins.args) = 1
                       THEN Known(s, ins.args[1]) ELSE s.ret
  OBVIOUS
<1>5. After(n) = [s EXCEPT !.over = TRUE, !.ret = ret]
  BY <1>3, <1>4 DEF Step
<1>6. s \in Meanings
  BY <1>3 DEF Meant
<1>7. After(n).over /\ After(n).out = s.out /\ After(n).ret = ret
  BY <1>5, <1>6 DEF Meanings
<1>8. ASSUME After(n).ret.known
      PROVE  Returns(ins) /\ ret.num = Wrap(Got(r, Index[ins.args[1]]))
  <2>1. ret.known
    BY <1>7, <1>8
  <2>2. ins.args \in Seq(Names) /\ Len(ins.args) = 1
    BY <1>3, <1>4, <2>1
  <2>3. Returns(ins)
    BY <1>1, <2>2, RetWords
  <2>4. PICK v : v = ins.args[1]
    OBVIOUS
  <2>5. v \in Names
    BY <1>1, <2>3, <2>4, RetWords
  <2>6. ret = Known(s, v)
    BY <1>4, <2>2, <2>4
  <2>7. v \in s.kept /\ ret.num = s.env[v]
    BY <2>1, <2>6 DEF Known
  <2>8. Index[v] \in 0 .. 30 /\ r[Index[v]] = s.env[v]
    BY <1>3, <2>7 DEF Meant
  <2>9. Got(r, Index[v]) = s.env[v]
    BY <2>8 DEF Got
  <2>10. s.env[v] \in Val /\ s.env[v] \in Int
    BY <1>6, <2>5, ValIsInt DEF Meanings
  <2>11. Wrap(s.env[v]) = s.env[v]
    BY <2>10, WrapIs
  <2> QED
    BY <2>3, <2>4, <2>7, <2>9, <2>11
<1> QED
  BY <1>2, <1>7, <1>8

LEMMA RetReturns ==
  ASSUME NEW n, NEW k, NEW r, NEW o, Here(n, k, r, o), NEW ins, ins = prog[n],
         ins.op = "ret", Next, k + 1 = Len(Words(ins))
  PROVE  Sound'
<1>1. /\ Facing(Emit_ret) /\ sp = 0 /\ out = o
      /\ \A q \in 19 .. 30 : reg[q] = r[q]
      /\ Returns(ins) => reg[0] = Wrap(Got(r, Index[ins.args[1]]))
  BY AtRet
<1>2. /\ status' = IF reg[30] = Host[30] THEN "done" ELSE "undef"
      /\ UNCHANGED <<prog, build, code, starts, machine>>
  BY <1>1, RetRuns
<1>3. PICK L : L = Len(prog)
  OBVIOUS
<1>4. L \in Nat /\ n \in 1 .. L /\ status = "run" /\ DOMAIN prog = 1 .. L
  <2>1. IInv /\ CodeInv /\ status = "run" /\ n \in 1 .. Len(prog)
    BY DEF Here, Base
  <2>2. Len(starts) = Len(prog)
    BY <2>1 DEF CodeInv
  <2> QED
    BY <1>3, <2>1, <2>2, Laying
<1>5. Spared(n - 1, r) /\ Meant(After(n - 1), r, o)
  BY DEF Here, Level
<1>6. CASE reg[30] # Host[30]
  <2>1. r[30] # Host[30] /\ 30 \in 19 .. 30
    BY <1>1, <1>6
  <2>2. PICK i \in 1 .. n - 1 : Index[prog[i].dest] = 30
    BY <1>5, <2>1 DEF Spared
  <2>3. i \in DOMAIN prog
    BY <1>4
  <2>4. ~ Regular
    BY <2>2, <2>3 DEF Regular
  <2>5. status' \in {"fault", "undef"}
    BY <1>2, <1>6
  <2> QED
    BY <1>4, <2>4, <2>5, Stopped
<1>7. CASE reg[30] = Host[30]
  <2>1. status' = "done"
    BY <1>2, <1>7
  <2>2. After(L) = After(n)
    <3>1. After(n).over
      BY RetMeant
    <3> QED
      BY <1>3, <1>4, <3>1, OverStays
  <2>3. PICK s : s = After(L)
    OBVIOUS
  <2>4. s.out = After(n - 1).out
    BY <2>2, <2>3, RetMeant
  <2>5. s.ret.known => reg[0] = s.ret.num
    BY <1>1, <2>2, <2>3, RetMeant
  <2>6. Agreeing(out, s.out)
    BY <1>1, <1>5, <2>4 DEF Meant
  <2>7. After(L)' = s
    BY <1>2, <2>3, AfterKept
  <2>8. UNCHANGED <<sp, out, reg, prog>>
    BY <1>2 DEF machine
  <2>9. SameOutput(s.out)'
    BY <2>6, <2>8 DEF Agreeing, SameOutput
  <2>10. Spared(L, reg)'
    <3> SUFFICES ASSUME NEW q \in 19 .. 30, \A i \in 1 .. L : Index[prog[i].dest] # q
                 PROVE  reg[q] = Host[q]
      BY <2>8 DEF Spared
    <3>1. \A i \in 1 .. n - 1 : i \in 1 .. L
      BY <1>4
    <3>2. r[q] = Host[q]
      BY <1>5, <3>1 DEF Spared
    <3> QED
      BY <1>1, <3>2
  <2>11. DoneInv'
    <3>1. Len(prog)' = L
      BY <1>3, <2>8
    <3>2. (After(Len(prog)))' = s
      BY <1>3, <1>2, <2>3, AfterKept
    <3> QED
      BY <1>1, <2>5, <2>8, <2>9, <2>10, <3>1, <3>2 DEF DoneInv
  <2> QED
    BY <2>1, <2>11 DEF Sound, RunInv, Regularly
<1> QED
  BY <1>6, <1>7

-----------------------------------------------------------------------------
(***************************************************************************)
(* The end of the code, and the call that starts it.                       *)
(***************************************************************************)

\* Behind the last word.
LEMMA OffEnd ==
  ASSUME status = "run", Next, prog \in Seq(Instr), NEW L \in Nat, L = Len(prog),
         NEW r, NEW o, Level(L + 1, r, o), pc = Len(code) + 1, Len(code) \in Nat,
         DOMAIN code = 1 .. Len(code)
  PROVE  Sound'
<1>1. pc \notin DOMAIN code
  OBVIOUS
<1>2. Execute
  BY DEF Next, Parse, Parsing, Jit_bril, Parse_label, Parse_unsupported, Parse_const, Parse_binop,
         Parse_ret, Parse_print
<1>3. \A ops : ~ Fetched(ops)
  BY <1>1 DEF Fetched
<1>4. RunsOff
  BY <1>2, <1>3 DEF Execute, MovWide, DataProcessing, AddImmediate, LoadStore, LoadStoreFault,
                    Blr, Ret
<1>5. status' = "undef"
  BY <1>4 DEF RunsOff, Stop
<1>6. PICK t : t = After(L)
  OBVIOUS
<1>7. Meant(t, r, o) /\ ~ t.over
  <2>1. (L + 1) - 1 = L
    OBVIOUS
  <2> QED
    BY <1>6, <2>1 DEF Level
<1>8. ASSUME Regular
      PROVE  FALSE
  <2>1. prog # << >> /\ prog[L].op = "ret"
    BY <1>8 DEF Regular
  <2>2. L # 0
    BY <2>1, EmptySeq
  <2>3. L \in 1 .. L
    BY <2>2
  <2>4. PICK s, ret : /\ s = After(L - 1)
                      /\ ret = IF prog[L].args \in Seq(Names) /\ Len(prog[L].args) = 1
                               THEN Known(s, prog[L].args[1]) ELSE s.ret
    OBVIOUS
  <2>5. t = Step(s, prog[L])
    BY <1>6, <2>3, <2>4, AfterIs
  <2>6. CASE s.over
    BY <1>7, <2>5, <2>6 DEF Step
  <2>7. CASE ~ s.over
    <3>1. t = [s EXCEPT !.over = TRUE, !.ret = ret]
      BY <2>1, <2>4, <2>5, <2>7 DEF Step
    <3>2. t \in Meanings
      BY <1>7 DEF Meant
    <3>3. "over" \in DOMAIN t
      BY <3>2 DEF Meanings
    <3>4. DOMAIN t = DOMAIN s
      BY <3>1
    <3>5. t.over = TRUE
      BY <3>1, <3>3, <3>4
    <3> QED
      BY <1>7, <3>5
  <2> QED
    BY <2>6, <2>7
<1> QED
  BY <1>5, <1>8, Stopped

\* The call of jit_bril.
LEMMA Starting ==
  ASSUME prog \in Seq(Instr)
  PROVE  Level(1, Host, << >>)
<1>1. PICK L : L = Len(prog)
  OBVIOUS
<1>2. L \in Nat
  BY <1>1, LenProperties
<1>3. After(1 - 1) = Start
  <2>1. 1 - 1 = 0
    OBVIOUS
  <2>2. After(0) = Start
    BY <1>1, <1>2, AfterIs
  <2> QED
    BY <2>1, <2>2
<1>4. Host \in [Regs -> Int]
  BY JitAssumption, ValIsInt DEF JitAssumption
<1>5. Start \in Meanings /\ Start.kept = {} /\ Start.out = << >>
      /\ ~ Start.over /\ ~ Start.ret.known
  <2>1. [n \in Names |-> 0] \in [Names -> Val]
    BY ValIsInt
  <2>2. << >> \in Seq(Seq(Outcome))
    OBVIOUS
  <2>3. [known |-> FALSE, num |-> 0] \in Outcome
    BY ValIsInt DEF Outcome
  <2> QED
    BY <2>1, <2>2, <2>3 DEF Start, Meanings
<1>6. Agreeing(<< >>, << >>) /\ << >> \in Seq(Seq(Int))
  BY DEF Agreeing
<1>7. Meant(Start, Host, << >>)
  BY <1>5, <1>6 DEF Meant
<1>8. Spared(1 - 1, Host)
  BY DEF Spared
<1> QED
  BY <1>3, <1>4, <1>5, <1>7, <1>8 DEF Level

LEMMA CallStep ==
  ASSUME IInv, CodeInv, Jit_bril
  PROVE  Sound'
<1>1. status = "parse" /\ Len(starts) = Len(prog)
      /\ UNCHANGED <<prog, build, code, starts, reg, sp, stack, pc, out>>
  BY DEF Jit_bril, parser, machine
<1>2. prog \in Seq(Instr)
  BY JitAssumption DEF IInv, JitAssumption
<1>3. /\ reg = Host /\ sp = 0 /\ stack = [s \in 1 .. StackSlots |-> 0]
      /\ pc = 1 /\ out = << >>
  BY <1>1 DEF CodeInv
<1>4. CASE status' = "run"
  <2>1. Place(1) = 0 /\ pc' = Place(1) + 1
    BY <1>1, <1>3 DEF CodeInv
  <2>2. PICK L : L = Len(prog)
    OBVIOUS
  <2>3. L \in Nat /\ 1 \in 1 .. L + 1
    BY <1>2, <2>2, LenProperties
  <2>4. stack' \in [1 .. StackSlots -> Int]
    BY <1>1, <1>3
  <2>5. RunInv'
    BY <1>1, <1>2, <1>3, <2>1, <2>2, <2>3, <2>4, Starting, Entered
  <2> QED
    BY <1>4, <2>5 DEF Sound, DoneInv, Regularly
<1>5. CASE status' = "fault" /\ CopiedBytes > PageBytes
  <2>1. Len(code) \in Nat
    BY LenProperties DEF IInv
  <2>2. PageBytes \in Nat
    BY JitAssumption DEF JitAssumption
  <2>3. 2 * (4 * Len(code)) = 8 * Len(code)
    BY <2>1
  <2>4. ~ (2 * Bytes <= PageBytes)
    BY <1>5, <2>1, <2>2, <2>3 DEF CopiedBytes, Bytes
  <2>5. ~ Regular
    BY <2>4 DEF Regular
  <2>6. ~ Regular'
    BY <1>1, <2>5 DEF Regular, Bytes
  <2> QED
    BY <1>5, <2>6 DEF Sound, RunInv, DoneInv, Regularly
<1> QED
  BY <1>4, <1>5 DEF Jit_bril

LEMMA TakingStep ==
  ASSUME IInv, Parse
  PROVE  Sound'
<1>1. /\ Parsing
      /\ \/ \E how : Stop(how) /\ (how \in {"threw", "asserted"} \/ (how = "undef" /\ ~ Regular))
         \/ Push(Words(Ins))
  BY ParseTakes
<1>2. CASE Push(Words(Ins))
  <2>1. status' = "parse"
    BY <1>1, <1>2 DEF Push, Parsing
  <2> QED
    BY <2>1 DEF Sound, RunInv, DoneInv, Regularly
<1>3. ASSUME NEW how, Stop(how), how \in {"threw", "asserted"} \/ (how = "undef" /\ ~ Regular)
      PROVE  Sound'
  <2>1. status' = how /\ UNCHANGED <<prog, build, code>>
    BY <1>3 DEF Stop, parser
  <2>2. ~ Regular => ~ Regular'
    BY <2>1 DEF Regular, Bytes
  <2> QED
    BY <1>3, <2>1, <2>2 DEF Sound, RunInv, DoneInv, Regularly
<1> QED
  BY <1>1, <1>2, <1>3

-----------------------------------------------------------------------------
(***************************************************************************)
(* Each step of the run keeps the invariant.                               *)
(***************************************************************************)

LEMMA RunStep ==
  ASSUME IInv, CodeInv, RunInv, status = "run", Next
  PROVE  Sound'
<1>1. Base
  BY DEF RunInv, Base
<1>2. PICK n \in 1 .. Len(prog) + 1, r \in [Regs -> Int], o \in Seq(Seq(Int)) : At(n, r, o)
  BY DEF RunInv
<1>3. PICK L : L = Len(prog)
  OBVIOUS
<1>4. /\ L \in Nat /\ prog \in Seq(Instr) /\ Len(code) \in Nat /\ DOMAIN code = 1 .. Len(code)
  <2>1. Len(starts) = Len(prog)
    BY DEF CodeInv
  <2>2. L \in Nat /\ Len(code) \in Nat /\ DOMAIN code = 1 .. Len(code)
    BY <1>3, <2>1, Laying
  <2>3. prog \in Seq(Instr)
    BY JitAssumption DEF IInv, JitAssumption
  <2> QED
    BY <2>2, <2>3
<1>5. CASE n = L + 1
  <2>1. Level(L + 1, r, o) /\ pc = Len(code) + 1
    BY <1>2, <1>3, <1>5 DEF At
  <2> QED
    BY <1>3, <1>4, <2>1, OffEnd
<1>6. CASE n # L + 1
  <2>1. PICK k \in 0 .. Len(Words(prog[n])) - 1 : pc = Place(n) + k + 1 /\ Inside(prog[n], k, r, o)
    BY <1>2, <1>3, <1>6 DEF At
  <2>2. n \in 1 .. Len(prog) /\ Level(n, r, o)
    <3>1. n \in 1 .. L
      BY <1>3, <1>4, <1>6
    <3> QED
      BY <1>2, <1>3, <3>1 DEF At
  <2>3. Here(n, k, r, o)
    BY <1>1, <2>1, <2>2 DEF Here
  <2>4. PICK ins : ins = prog[n]
    OBVIOUS
  <2>5. Taken(ins)
    BY <2>3, <2>4, Locating
  <2>6. CASE ins.op = "const"
    BY <2>3, <2>4, <2>6, ConstStep
  <2>7. CASE ins.op \in Operations
    BY <2>3, <2>4, <2>7, BinopStep
  <2>8. CASE ins.op = "print"
    BY <2>3, <2>4, <2>8, PrintStep
  <2>9. CASE ins.op = "ret"
    BY <2>3, <2>4, <2>9, RetMoves, RetReturns
  <2> QED
    BY <2>5, <2>6, <2>7, <2>8, <2>9 DEF Taken
<1> QED
  BY <1>5, <1>6

LEMMA SoundStep ==
  ASSUME IInv, CodeInv, Sound, Next
  PROVE  Sound'
<1>1. CASE Parse
  BY <1>1, TakingStep
<1>2. CASE Jit_bril
  BY <1>2, CallStep
<1>3. CASE Execute
  <2>1. status = "run"
    BY <1>3, ExecuteKeeps
  <2> QED
    BY <2>1, RunStep DEF Sound
<1> QED
  BY <1>1, <1>2, <1>3 DEF Next

LEMMA SoundStutters ==
  ASSUME Sound, UNCHANGED vars
  PROVE  Sound'
<1>1. UNCHANGED <<prog, build, code, starts, status, reg, sp, stack, pc, out>>
  BY DEF vars, parser, machine
<1>2. \A n, r, o : Level(n, r, o) => Level(n, r, o)'
  BY <1>1, LevelKept
<1>3. \A ins, k, r, o : Inside(ins, k, r, o) => Inside(ins, k, r, o)'
  <2>1. \A args, r, k : Stored(args, r, k)' = Stored(args, r, k)
    BY <1>1 DEF Stored
  <2>2. \A args, k, r, o : Pushing(args, k, r, o)' = Pushing(args, k, r, o)
    BY <1>1, <2>1 DEF Pushing
  <2>3. \A args, k, r, o : Loading(args, k, r, o)' = Loading(args, k, r, o)
    BY <1>1, <2>1 DEF Loading
  <2>4. \A args, k, r, o : Calling(args, k, r, o)' = Calling(args, k, r, o)
    BY <1>1, <2>1 DEF Calling
  <2>5. \A args, r, o : Called(args, r, o)' = Called(args, r, o)
    BY <1>1, <2>1 DEF Called
  <2>6. ASSUME NEW args, NEW k, NEW r, NEW o, Popping(args, k, r, o)
        PROVE  Popping(args, k, r, o)'
    <3>1. PICK m : m = Len(Pos(args))
      OBVIOUS
    <3>2. Stored(args, r, 2 * m - k)'
      BY <2>1, <2>6, <3>1 DEF Popping
    <3> QED
      BY <1>1, <2>6, <3>1, <3>2 DEF Popping
  <2>7. \A args, k, r, o : InPrint(args, k, r, o) => InPrint(args, k, r, o)'
    BY <2>2, <2>3, <2>4, <2>5, <2>6 DEF InPrint
  <2> QED
    BY <1>1, <2>7 DEF Inside
<1>4. \A n : Place(n)' = Place(n)
  BY <1>1, PlaceKept
<1>5. \A n, r, o : At(n, r, o) => At(n, r, o)'
  BY <1>1, <1>2, <1>3, <1>4 DEF At
<1>6. RunInv'
  BY <1>1, <1>5 DEF Sound, RunInv
<1>7. DoneInv'
  <2>1. PICK L : L = Len(prog)
    OBVIOUS
  <2>2. After(L)' = After(L)
    BY <1>1, AfterKept
  <2> QED
    BY <1>1, <2>1, <2>2 DEF Sound, DoneInv, SameOutput, Spared
<1>8. Regularly'
  BY <1>1 DEF Sound, Regularly, Regular, Bytes
<1> QED
  BY <1>6, <1>7, <1>8 DEF Sound

LEMMA RunInvariant == Spec => [](CodeInv /\ Sound)
<1>1. Init => CodeInv /\ Sound
  <2>1. Init => Sound
    BY DEF Init, Sound, RunInv, DoneInv, Regularly
  <2> QED
    BY <2>1, CodeInit
<1>2. IInv /\ CodeInv /\ Sound /\ [Next]_vars => CodeInv' /\ Sound'
  <2> SUFFICES ASSUME IInv, CodeInv, Sound, [Next]_vars
               PROVE  CodeInv' /\ Sound'
    OBVIOUS
  <2>1. CASE Next
    BY <2>1, CodeStep, SoundStep
  <2>2. CASE UNCHANGED vars
    <3>1. UNCHANGED <<prog, build, code, starts, status, reg, sp, stack, pc, out>>
      BY <2>2 DEF vars, parser, machine
    <3>2. \A n : Place(n)' = Place(n) /\ (Laid(n)' <=> Laid(n))
      BY <3>1, PlaceKept
    <3>3. CodeInv'
      BY <3>1, <3>2 DEF CodeInv
    <3> QED
      BY <2>2, <3>3, SoundStutters
  <2> QED
    BY <2>1, <2>2
<1> QED
  BY <1>1, <1>2, Invariant, PTL DEF Spec

\* A program whose main ends in ret, names no register that ret needs and fits in
\* the pages mapped is compiled and run to its return, or refused by an exception
\* or an assertion: neither a signal nor undefined behaviour meets it, whatever it
\* computes and however often it prints.
THEOREM RegularRuns == Spec => []Regularly
<1>1. Sound => Regularly
  BY DEF Sound
<1> QED
  BY <1>1, RunInvariant, PTL

-----------------------------------------------------------------------------
(***************************************************************************)
(* Agrees and ConventionKept.                                              *)
(***************************************************************************)

\* Where the run is.
LEMMA Whereabouts ==
  ASSUME IInv, CodeInv, RunInv, status = "run", pc \in DOMAIN code
  PROVE  \E n \in 1 .. Len(prog), r \in [Regs -> Int], o \in Seq(Seq(Int)) :
           \E k \in 0 .. Len(Words(prog[n])) - 1 : Here(n, k, r, o)
<1>1. Base
  BY DEF RunInv, Base
<1>2. PICK n \in 1 .. Len(prog) + 1, r \in [Regs -> Int], o \in Seq(Seq(Int)) : At(n, r, o)
  BY DEF RunInv
<1>3. PICK L : L = Len(prog)
  OBVIOUS
<1>4. L \in Nat /\ Len(code) \in Nat /\ DOMAIN code = 1 .. Len(code)
  <2>1. Len(starts) = Len(prog)
    BY DEF CodeInv
  <2> QED
    BY <1>3, <2>1, Laying
<1>5. n # L + 1
  <2>1. pc # Len(code) + 1
    BY <1>4
  <2> QED
    BY <1>2, <1>3, <2>1 DEF At
<1>6. PICK k \in 0 .. Len(Words(prog[n])) - 1 : pc = Place(n) + k + 1 /\ Inside(prog[n], k, r, o)
  BY <1>2, <1>3, <1>5 DEF At
<1>7. n \in 1 .. L
  BY <1>3, <1>4, <1>5
<1>8. Here(n, k, r, o)
  BY <1>1, <1>2, <1>3, <1>6, <1>7 DEF At, Here
<1> QED
  BY <1>3, <1>6, <1>7, <1>8

\* The start of an instruction is nowhere within another one.
LEMMA Placed ==
  ASSUME IInv, CodeInv, Len(starts) = Len(prog), NEW n \in 1 .. Len(prog), NEW i \in 1 .. Len(prog),
         NEW k \in 0 .. Len(Words(prog[n])) - 1, Place(i) = Place(n) + k
  PROVE  i = n /\ k = 0
<1>1. PICK L : L = Len(prog)
  OBVIOUS
<1>2. L \in Nat /\ \A j \in 1 .. L : Len(Words(prog[j])) \in Nat \ {0} /\ Place(j) \in Nat
  BY <1>1, Laying
<1>3. ASSUME NEW a \in 1 .. L, NEW b \in 1 .. L, a < b
      PROVE  Place(a) + Len(Words(prog[a])) <= Place(b)
  <2>1. b - 1 \in 1 .. L /\ a \in 1 .. b - 1 /\ (b - 1) + 1 = b
    BY <1>2, <1>3
  <2>2. Laid(b - 1)
    BY <1>1, <2>1 DEF CodeInv
  <2>3. Place(a) + Len(Words(prog[a])) <= Place((b - 1) + 1)
    BY <2>1, <2>2, Zenon DEF Laid
  <2> QED
    BY <2>1, <2>3
<1>4. n \in 1 .. L /\ i \in 1 .. L
  BY <1>1
<1>5. PICK wn, wi, pn, pi : /\ wn = Len(Words(prog[n])) /\ wi = Len(Words(prog[i]))
                            /\ pn = Place(n) /\ pi = Place(i)
  OBVIOUS
<1>6. /\ wn \in Nat \ {0} /\ wi \in Nat \ {0} /\ pn \in Nat /\ pi \in Nat
      /\ k \in 0 .. wn - 1 /\ pi = pn + k
  BY <1>2, <1>4, <1>5
<1>7. i < n => pi + wi <= pn
  BY <1>3, <1>4, <1>5
<1>8. n < i => pn + wn <= pi
  BY <1>3, <1>4, <1>5
<1>9. i = n
  BY <1>2, <1>4, <1>6, <1>7, <1>8
<1> QED
  BY <1>5, <1>6, <1>9

\* Before the first word of an instruction.
LEMMA AtFirst ==
  ASSUME NEW n, NEW r, NEW o, Here(n, 0, r, o)
  PROVE  reg = r /\ sp = 0 /\ out = o
<1>1. PICK ins : ins = prog[n]
  OBVIOUS
<1>2. Inside(ins, 0, r, o)
  BY <1>1 DEF Here
<1>3. CASE ins.op = "print"
  <2>1. PICK args, m : args = ins.args /\ m = Len(Pos(args))
    OBVIOUS
  <2>2. AtPrint(ins, args, m, 0, r, o)
    BY <1>1, <1>3, <2>1, PrintAt, Zenon
  <2>3. m \in 0 .. 7 /\ InPrint(args, 0, r, o)
    BY <2>2 DEF AtPrint
  <2>4. ~ 0 > 2 * m /\ ~ 0 > 3 * m /\ 0 # 3 * m + 8 /\ 0 - 3 * m - 9 \notin 0 .. 2 * m
    BY <2>3
  <2>5. ~ Popping(args, 0 - 3 * m - 9, r, o)
    BY <2>1, <2>4 DEF Popping
  <2>6. Pushing(args, 0, r, o)
    BY <2>1, <2>3, <2>4, <2>5, Zenon DEF InPrint
  <2>7. reg = r /\ sp = -(8 * 0) /\ out = o
    BY <2>6 DEF Pushing
  <2>8. 0 = -(8 * 0)
    BY NoSlots, Zenon
  <2> QED
    BY <2>7, <2>8, Zenon
<1>4. CASE ins.op # "print"
  BY <1>2, <1>4 DEF Inside
<1> QED
  BY <1>3, <1>4

\* Simple-jit's code computes what the Bril program means: at the first word of
\* every instruction the registers hold the variables that the compiled code is
\* held to, the output is the program's and the stack is level, through all the
\* pushes, loads and pops of every print before it; and when the code returns, it
\* has printed and returns what the program means.
THEOREM CodeAgrees == Spec => []Agrees
<1>1. ASSUME IInv, CodeInv, Sound
      PROVE  Agrees
  <2>1. ASSUME NEW n \in DOMAIN starts, status = "run", pc = starts[n] + 1
        PROVE  LET s == After(n - 1) IN
               /\ \A v \in s.kept : reg[Index[v]] = s.env[v]
               /\ SameOutput(s.out)
               /\ sp = 0
    <3>1. Len(starts) = Len(prog)
      BY <1>1, <2>1 DEF CodeInv
    <3>2. PICK L : L = Len(prog)
      OBVIOUS
    <3>3. /\ L \in Nat /\ Len(code) \in Nat /\ DOMAIN code = 1 .. Len(code)
          /\ \A i \in 1 .. L : /\ Len(Words(prog[i])) \in Nat \ {0} /\ Place(i) \in Nat
                               /\ Place(i + 1) = Place(i) + Len(Words(prog[i]))
                               /\ Place(i + 1) <= Len(code)
      BY <1>1, <3>1, <3>2, Laying
    <3>4. n \in 1 .. L /\ Place(n) = starts[n]
      <4>1. DOMAIN starts = 1 .. L
        BY <1>1, <3>1, <3>2, LenProperties DEF IInv
      <4> QED
        BY <4>1 DEF Place
    <3>5. pc \in DOMAIN code
      BY <2>1, <3>3, <3>4
    <3>6. RunInv
      BY <1>1 DEF Sound
    <3>7. PICK i \in 1 .. Len(prog), r \in [Regs -> Int], o \in Seq(Seq(Int)) :
            \E k \in 0 .. Len(Words(prog[i])) - 1 : Here(i, k, r, o)
      BY <1>1, <2>1, <3>5, <3>6, Whereabouts
    <3>8. PICK k \in 0 .. Len(Words(prog[i])) - 1 : Here(i, k, r, o)
      BY <3>7
    <3>9. Place(n) = Place(i) + k
      <4>1. pc = Place(i) + k + 1
        BY <3>8 DEF Here
      <4>2. Place(i) \in Nat /\ k \in Int
        BY <3>2, <3>3, <3>8
      <4>3. Place(n) \in Nat /\ pc = Place(n) + 1
        BY <2>1, <3>3, <3>4
      <4>4. \A a, b \in Nat, c \in Int : a + 1 = b + c + 1 => a = b + c
        OBVIOUS
      <4>5. Place(n) + 1 = Place(i) + k + 1
        BY <4>1, <4>3
      <4> QED
        BY <4>2, <4>3, <4>4, <4>5, Zenon
    <3>10. n = i /\ k = 0
      BY <1>1, <3>1, <3>2, <3>4, <3>8, <3>9, Placed
    <3>11. Here(n, 0, r, o)
      BY <3>8, <3>10
    <3>12. reg = r /\ sp = 0 /\ out = o
      BY <3>11, AtFirst
    <3>13. Meant(After(n - 1), r, o)
      BY <3>11 DEF Here, Level
    <3> QED
      BY <3>12, <3>13 DEF Meant, Agreeing, SameOutput
  <2>2. status = "done" =>
          /\ SameOutput(After(Len(prog)).out)
          /\ After(Len(prog)).ret.known => reg[0] = After(Len(prog)).ret.num
    BY <1>1 DEF Sound, DoneInv
  <2> QED
    BY <2>1, <2>2 DEF Agrees
<1> QED
  BY <1>1, Invariant, RunInvariant, PTL

\* The other words of print are no calls.
LEMMA SingleOps ==
  ASSUME NEW q \in 0 .. 31, NEW imm
  PROVE  /\ Op(Emit_str_imm(SP, imm, Bits(q), Ls_mode.pre)) # "blr"
         /\ Op(Emit_ldr_imm(SP, imm, Bits(q), Ls_mode.offset)) # "blr"
         /\ Op(Emit_ldr_imm(SP, imm, Bits(q), Ls_mode.post)) # "blr"
<1>1. Bits(q) \in Reg5 /\ SP \in Reg5
  BY Registers, RegisterBits
<1>2. PICK modes : modes = {Ls_mode.post, Ls_mode.offset, Ls_mode.pre}
  OBVIOUS
<1>3. \A mode \in modes :
        /\ Decodes(Emit_str_imm(SP, imm, Bits(q), mode),
                   IF mode = Ls_mode.offset THEN "str" ELSE "stru")
        /\ Decodes(Emit_ldr_imm(SP, imm, Bits(q), mode),
                   IF mode = Ls_mode.offset THEN "ldr" ELSE "ldru")
  BY <1>1, <1>2, SingleDecodes
<1>4. \A mode \in modes : /\ Op(Emit_str_imm(SP, imm, Bits(q), mode)) # "blr"
                          /\ Op(Emit_ldr_imm(SP, imm, Bits(q), mode)) # "blr"
  BY <1>3 DEF Decodes
<1>5. Ls_mode.post \in modes /\ Ls_mode.offset \in modes /\ Ls_mode.pre \in modes
  BY <1>2
<1> QED
  BY <1>4, <1>5

LEMMA CallOps ==
  /\ \A n : Op(Emit_movz({}, Bits(n), {})) = "movz"
  /\ Op(Emit_movz(Bits(16), Parts(PrintInt)[0], {})) = "movz"
  /\ Op(Emit_movk(Bits(16), Parts(PrintInt)[1], Bits(1))) = "movk"
  /\ Op(Emit_movk(Bits(16), Parts(PrintInt)[2], Bits(2))) = "movk"
  /\ Op(Emit_movk(Bits(16), Parts(PrintInt)[3], Bits(3))) = "movk"
  /\ Op(Emit_stp(SP, Int32(-16), Bits(29), Bits(30), Ls_mode.pre)) = "stp"
  /\ Op(Emit_mov_sp(Bits(29), SP)) = "addi"
  /\ Op(Emit_ldp(SP, Int32(16), Bits(29), Bits(30), Ls_mode.post)) = "ldp"
<1>1. /\ {} \in Reg5 /\ Bits(16) \in Reg5 /\ Bits(29) \in Reg5 /\ Bits(30) \in Reg5
      /\ SP \in Reg5 /\ {} \subseteq 0 .. 1
  BY Registers
<1>2. \A k \in 0 .. 3 : Parts(PrintInt)[k] \in Half
  BY BitsInHalf DEF Parts
<1>3. \A dest \in Reg5, imm \in Half, shift \in SUBSET (0 .. 1) :
        /\ Op(Emit_movz(dest, imm, shift)) = "movz"
        /\ Op(Emit_movk(dest, imm, shift)) = "movk"
  BY MovDecodes DEF Decodes
<1>4. \A n : Op(Emit_movz({}, Bits(n), {})) = "movz"
  BY <1>1, <1>3, BitsInHalf
<1>5. Op(Emit_movz(Bits(16), Parts(PrintInt)[0], {})) = "movz"
  BY <1>1, <1>2, <1>3
<1>6. \A k \in 1 .. 3 : Bits(k) \subseteq 0 .. 1
  <2>1. \A k \in 1 .. 3 : k = 1 \/ k = 2 \/ k = 3
    OBVIOUS
  <2> QED
    BY <2>1, ShiftBits
<1>7. \A k \in 1 .. 3 : Op(Emit_movk(Bits(16), Parts(PrintInt)[k], Bits(k))) = "movk"
  BY <1>1, <1>2, <1>3, <1>6
<1>8. 1 \in 1 .. 3 /\ 2 \in 1 .. 3 /\ 3 \in 1 .. 3
  OBVIOUS
<1>9. Op(Emit_mov_sp(Bits(29), SP)) = "addi"
  BY <1>1, MovRegisterDecodes DEF Decodes
<1>10. Ls_mode.pre \subseteq 0 .. 1 /\ Ls_mode.post \subseteq 0 .. 1
  BY Modes
<1>11. \A mode \in SUBSET (0 .. 1) : \A offset :
         /\ Op(Emit_stp(SP, offset, Bits(29), Bits(30), mode)) = "stp"
         /\ Op(Emit_ldp(SP, offset, Bits(29), Bits(30), mode)) = "ldp"
  <2>1. \A rn \in Reg5, rt1 \in Reg5, rt2 \in Reg5, mode \in SUBSET (0 .. 1) : \A offset :
          /\ Decodes(Emit_stp(rn, offset, rt1, rt2, mode), "stp")
          /\ Decodes(Emit_ldp(rn, offset, rt1, rt2, mode), "ldp")
    BY PairDecodes
  <2>2. \A mode \in SUBSET (0 .. 1) : \A offset :
          /\ Decodes(Emit_stp(SP, offset, Bits(29), Bits(30), mode), "stp")
          /\ Decodes(Emit_ldp(SP, offset, Bits(29), Bits(30), mode), "ldp")
    BY <1>1, <2>1, Zenon
  <2> QED
    BY <2>2, Zenon DEF Decodes
<1> QED
  BY <1>4, <1>5, <1>7, <1>8, <1>9, <1>10, <1>11

LEMMA PrintOps ==
  ASSUME NEW args, NEW m, Printable(args, m), NEW j \in 1 .. 5 * m + 9,
         Op(PrintWord(args, j)) = "blr"
  PROVE  j = 3 * m + 8
<1>1. PICK words, pos : words = PrintWords(args, pos) /\ pos = Pos(args)
  OBVIOUS
<1>2. /\ m = Len(pos) /\ \A i : PrintWord(args, i) = words[i]
  BY <1>1 DEF Printable, PrintWord
<1>3. /\ \A i \in 1 .. 2 * m :
           words[i] = Emit_str_imm(SP, Int32(-8), Bits(Pushed(args, i)), Ls_mode.pre)
      /\ \A i \in 1 .. m :
           words[2 * m + i] = Emit_ldr_imm(SP, Int32(8 * (m - i)), Bits(pos[i]), Ls_mode.offset)
      /\ \A i \in 1 .. 2 * m :
           words[3 * m + 9 + i] =
             Emit_ldr_imm(SP, Int32(8), Bits(Pushed(args, 2 * m + 1 - i)), Ls_mode.post)
  BY <1>1, <1>2, PrintWordsAre DEF Printable
<1>4. /\ m \in 0 .. 7 /\ \A i \in 1 .. 2 * m : Pushed(args, i) \in 0 .. 31
      /\ \A i \in 1 .. m : Pushed(args, i) = pos[i]
  BY <1>1, PushedIs
<1>7. CASE j \in 1 .. 2 * m
  <2>1. PICK q \in 0 .. 31 : words[j] = Emit_str_imm(SP, Int32(-8), Bits(q), Ls_mode.pre)
    BY <1>3, <1>4, <1>7
  <2>2. Op(Emit_str_imm(SP, Int32(-8), Bits(q), Ls_mode.pre)) # "blr"
    BY SingleOps, Zenon
  <2>3. PrintWord(args, j) = Emit_str_imm(SP, Int32(-8), Bits(q), Ls_mode.pre)
    BY <1>2, <2>1
  <2> QED
    BY <2>2, <2>3
<1>8. CASE j \in 2 * m + 1 .. 3 * m
  <2>1. PICK i \in 1 .. m : j = 2 * m + i
    <3>1. j - 2 * m \in 1 .. m /\ j = 2 * m + (j - 2 * m)
      BY <1>4, <1>8
    <3> QED
      BY <3>1
  <2>2. PICK q : q = pos[i]
    OBVIOUS
  <2>3. q \in 0 .. 31
    <3>1. i \in 1 .. 2 * m
      BY <1>4
    <3> QED
      BY <1>4, <2>2, <3>1
  <2>4. PICK imm : imm = Int32(8 * (m - i))
    OBVIOUS
  <2>5. words[j] = Emit_ldr_imm(SP, imm, Bits(q), Ls_mode.offset)
    BY <1>3, <2>1, <2>2, <2>4
  <2>6. Op(Emit_ldr_imm(SP, imm, Bits(q), Ls_mode.offset)) # "blr"
    BY <2>3, SingleOps, Zenon
  <2>7. PrintWord(args, j) = Emit_ldr_imm(SP, imm, Bits(q), Ls_mode.offset)
    BY <1>2, <2>5
  <2> QED
    BY <2>6, <2>7
<1>9. CASE j \in 3 * m + 1 .. 3 * m + 9
  <2>1. j - 3 * m \in 1 .. 9 /\ j = 3 * m + (j - 3 * m)
    BY <1>4, <1>9
  <2>2. \A i \in 1 .. 9 : i \in {1, 2, 3, 4, 5, 6, 7, 8, 9}
    OBVIOUS
  <2>3. PICK i \in {1, 2, 3, 4, 5, 6, 7, 8, 9} : j = 3 * m + i
    BY <2>1, <2>2
  <2>4. \A op \in {"movz", "movk", "stp", "addi", "ldp"} : op # "blr"
    OBVIOUS
  <2>5. ASSUME i # 8
        PROVE  Op(PrintWord(args, 3 * m + i)) \in {"movz", "movk", "stp", "addi", "ldp"}
    <3>1. CASE i \in {1, 2}
      BY <3>1, CallWordsAre, CallOps
    <3>2. CASE i = 3
      BY <3>2, CallWordsAre, CallOps
    <3>3. CASE i = 4
      BY <3>3, CallWordsAre, CallOps
    <3>4. CASE i = 5
      BY <3>4, CallWordsAre, CallOps
    <3>5. CASE i = 6
      BY <3>5, CallWordsAre, CallOps
    <3>6. CASE i = 7
      BY <3>6, CallWordsAre, CallOps
    <3>7. CASE i = 9
      BY <3>7, CallWordsAre, CallOps
    <3> QED
      BY <2>3, <2>5, <3>1, <3>2, <3>3, <3>4, <3>5, <3>6, <3>7
  <2> QED
    BY <2>3, <2>4, <2>5
<1>10. CASE j \in 3 * m + 10 .. 5 * m + 9
  <2>1. PICK i \in 1 .. 2 * m : j = 3 * m + 9 + i
    <3>1. j - 3 * m - 9 \in 1 .. 2 * m /\ j = 3 * m + 9 + (j - 3 * m - 9)
      BY <1>4, <1>10
    <3> QED
      BY <3>1
  <2>2. 2 * m + 1 - i \in 1 .. 2 * m
    BY <1>4
  <2>3. PICK q \in 0 .. 31 : q = Pushed(args, 2 * m + 1 - i)
    BY <1>4, <2>2
  <2>4. words[j] = Emit_ldr_imm(SP, Int32(8), Bits(q), Ls_mode.post)
    BY <1>3, <2>1, <2>3
  <2>5. Op(Emit_ldr_imm(SP, Int32(8), Bits(q), Ls_mode.post)) # "blr"
    BY SingleOps, Zenon
  <2>6. PrintWord(args, j) = Emit_ldr_imm(SP, Int32(8), Bits(q), Ls_mode.post)
    BY <1>2, <2>4
  <2> QED
    BY <2>5, <2>6
<1> QED
  BY <1>4, <1>7, <1>8, <1>9, <1>10

\* blr is the eighth word of print's call.
LEMMA BlrAt ==
  ASSUME NEW n, NEW k, NEW r, NEW o, Here(n, k, r, o), NEW ins, ins = prog[n],
         Op(code[pc]) = "blr"
  PROVE  ins.op = "print" /\ k = 3 * Len(Pos(ins.args)) + 7
<1>1. /\ ins \in Instr /\ Taken(ins) /\ k \in 0 .. Len(Words(ins)) - 1
      /\ Facing(Words(ins)[k + 1])
  BY Locating
<1>2. Op(Words(ins)[k + 1]) = "blr"
  BY <1>1 DEF Facing
<1>3. CASE ins.op = "const"
  <2>1. Words(ins) = <<ConstWord(Get_register(ins.dest), ins.value)>>
    BY <1>3 DEF Words
  <2>2. k + 1 = 1
    BY <1>1, <2>1
  <2>3. Op(ConstWord(Get_register(ins.dest), ins.value)) = "blr"
    BY <1>2, <2>1, <2>2
  <2>4. Get_register(ins.dest) \in Reg5
    BY <1>1, <1>3, Registers DEF Taken, Instr
  <2>5. Parts(ins.value)[0] \in Half
    BY BitsInHalf DEF Parts
  <2>6. {} \subseteq 0 .. 1
    OBVIOUS
  <2>7. Op(ConstWord(Get_register(ins.dest), ins.value)) \in {"movn", "movz"}
    BY <2>4, <2>5, <2>6, MovDecodes DEF ConstWord, Decodes
  <2> QED
    BY <2>3, <2>7
<1>4. CASE ins.op \in Operations
  <2>1. ins.op # "const" /\ ins.op # "print" /\ ins.op # "ret"
    BY <1>4 DEF Operations
  <2>2. PICK d, a, b : d = Get_register(ins.dest) /\ a = Get_register(ins.args[1])
                       /\ b = Get_register(ins.args[2])
    OBVIOUS
  <2>3. Words(ins) = <<BinopWord(ins.op, d, a, b)>>
    BY <2>1, <2>2 DEF Words
  <2>4. k + 1 = 1
    BY <1>1, <2>3
  <2>5. Op(BinopWord(ins.op, d, a, b)) = "blr"
    BY <1>2, <2>3, <2>4
  <2>6. ins.args \in Seq(Names) /\ Len(ins.args) >= 2 /\ InFile(ins.dest)
        /\ InFile(ins.args[1]) /\ InFile(ins.args[2]) /\ ins.dest \in Names
    BY <1>1, <1>4 DEF Taken, Instr
  <2>7. ins.args[1] \in Names /\ ins.args[2] \in Names
    BY <2>6, LenProperties, ElementOfSeq
  <2>8. d \in Reg5 /\ a \in Reg5 /\ b \in Reg5
    BY <2>2, <2>6, <2>7, Registers
  <2>9. Op(BinopWord(ins.op, d, a, b)) \in {"add", "sub", "mul", "sdiv"}
    BY <2>8, BinopDecodes DEF BinopWord, Decodes
  <2> QED
    BY <2>5, <2>9
<1>5. CASE ins.op = "ret"
  <2>1. Op(Emit_ret) = "ret"
    BY Registers, BranchDecodes DEF Decodes
  <2>2. CASE Returns(ins)
    <3>1. /\ Index[ins.args[1]] \in 0 .. 31 /\ Len(Words(ins)) = 2 /\ Words(ins)[2] = Emit_ret
          /\ Words(ins)[1] = Emit_orr_sr({}, Get_register(ins.args[1]))
      BY <1>1, <1>5, <2>2, RetWords
    <3>2. Get_register(ins.args[1]) \in Reg5 /\ {} \in Reg5
      BY <3>1, RegisterBits, Registers DEF Get_register
    <3>3. Op(Words(ins)[1]) = "mov"
      BY <3>1, <3>2, MovRegisterDecodes DEF Decodes
    <3>4. k + 1 = 1 \/ k + 1 = 2
      BY <1>1, <3>1
    <3> QED
      BY <1>2, <2>1, <3>1, <3>3, <3>4
  <2>3. CASE ~ Returns(ins)
    <3>1. Len(Words(ins)) = 1 /\ Words(ins)[1] = Emit_ret
      BY <1>1, <1>5, <2>3, RetWords
    <3>2. k + 1 = 1
      BY <1>1, <3>1
    <3> QED
      BY <1>2, <2>1, <3>1, <3>2
  <2> QED
    BY <2>2, <2>3
<1>6. CASE ins.op = "print"
  <2>1. PICK args, m : args = ins.args /\ m = Len(Pos(args))
    OBVIOUS
  <2>2. AtPrint(ins, args, m, k, r, o)
    BY <1>6, <2>1, PrintAt, Zenon
  <2>3. /\ Printable(args, m) /\ m \in 0 .. 7 /\ k \in 0 .. 5 * m + 8
        /\ Op(PrintWord(args, k + 1)) = "blr"
    BY <1>2, <1>6, <2>1, <2>2 DEF AtPrint, Words, PrintWord
  <2>4. k + 1 \in 1 .. 5 * m + 9 /\ (k + 1 = 3 * m + 8 => k = 3 * m + 7)
    BY <2>3
  <2>5. k + 1 = 3 * m + 8
    BY <2>3, <2>4, PrintOps, Zenon
  <2> QED
    BY <1>6, <2>1, <2>4, <2>5
<1> QED
  BY <1>1, <1>3, <1>4, <1>5, <1>6 DEF Taken

\* The convention of calls is kept on both sides: whenever simple-jit's code
\* reaches a blr, the stack is aligned and below the caller's frame, and when
\* jit_bril gets control back the stack is level and each callee-saved register
\* that the program does not name holds what it held.
THEOREM CallsConform == Spec => []ConventionKept
<1>1. ASSUME IInv, CodeInv, Sound
      PROVE  ConventionKept
  <2>1. ASSUME status = "run", pc \in DOMAIN code, Op(code[pc]) = "blr"
        PROVE  sp % 16 = 0 /\ sp < 0 /\ 1 \in DOMAIN stack
    <3>1. RunInv
      BY <1>1 DEF Sound
    <3>2. PICK n \in 1 .. Len(prog), r \in [Regs -> Int], o \in Seq(Seq(Int)) :
            \E k \in 0 .. Len(Words(prog[n])) - 1 : Here(n, k, r, o)
      BY <1>1, <2>1, <3>1, Whereabouts
    <3>3. PICK k \in 0 .. Len(Words(prog[n])) - 1 : Here(n, k, r, o)
      BY <3>2
    <3>4. PICK ins, args, m : ins = prog[n] /\ args = ins.args /\ m = Len(Pos(args))
      OBVIOUS
    <3>5. ins.op = "print" /\ k = 3 * m + 7
      BY <2>1, <3>3, <3>4, BlrAt
    <3>6. AtPrint(ins, args, m, k, r, o)
      BY <3>3, <3>4, <3>5, PrintAt, Zenon
    <3>7. m \in 0 .. 7 /\ InPrint(args, k, r, o)
      BY <3>6 DEF AtPrint
    <3>8. /\ k \notin 0 .. 2 * m /\ k - 2 * m \notin 0 .. m /\ k - 3 * m = 7 /\ k # 3 * m + 8
          /\ k - 3 * m - 9 \notin 0 .. 2 * m
      BY <3>5, <3>7
    <3>9. ~ Pushing(args, k, r, o)
      BY <3>4, <3>8 DEF Pushing
    <3>10. ~ Loading(args, k - 2 * m, r, o)
      BY <3>4, <3>8 DEF Loading
    <3>11. ~ Popping(args, k - 3 * m - 9, r, o)
      BY <3>4, <3>8 DEF Popping
    <3>12. Calling(args, k - 3 * m, r, o)
      BY <3>4, <3>7, <3>8, <3>9, <3>10, <3>11, Zenon DEF InPrint
    <3>13. Calling(args, 7, r, o)
      BY <3>8, <3>12
    <3>14. sp = -(16 * m) - 16
      BY <3>4, <3>13 DEF Calling
    <3>15. \A i \in 0 .. 7 : (-(16 * i) - 16) % 16 = 0 /\ -(16 * i) - 16 < 0
      OBVIOUS
    <3>16. 1 \in DOMAIN stack
      BY <2>1, <3>1, JitAssumption DEF RunInv, JitAssumption
    <3> QED
      BY <3>7, <3>14, <3>15, <3>16
  <2>2. ASSUME status = "done"
        PROVE  /\ sp = 0
               /\ \A r \in 19 .. 30 :
                    (\A n \in DOMAIN prog : Index[prog[n].dest] # r) => reg[r] = Host[r]
    <3>1. sp = 0 /\ Spared(Len(prog), reg)
      BY <1>1, <2>2 DEF Sound, DoneInv
    <3>2. DOMAIN prog = 1 .. Len(prog)
      BY <1>1, JitAssumption, LenProperties DEF IInv, JitAssumption
    <3> QED
      BY <3>1, <3>2 DEF Spared
  <2> QED
    BY <2>1, <2>2 DEF ConventionKept
<1> QED
  BY <1>1, Invariant, RunInvariant, PTL
=============================================================================
