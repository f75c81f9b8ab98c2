-------------------------------- MODULE A64 --------------------------------
(***************************************************************************)
(* The part of the AArch64 instruction set that simple-jit emits, as the   *)
(* architecture defines it.  A word, like every unsigned integer that the  *)
(* emitter shifts and ors together, is the set of its bits that are 1.     *)
(***************************************************************************)
EXTENDS Integers

Weight == <<1, 2, 4, 8, 16, 32, 64, 128, 256, 512, 1024, 2048, 4096, 8192,
            16384, 32768>>

\* The bits of an unsigned number of 16 bits, and the number of a set of bits.
Bits(n) == {i \in 0 .. 15 : (n \div Weight[i + 1]) % 2 = 1}
Num(S) ==
  LET low[k \in 0 .. 16] ==
        IF k = 0 THEN 0 ELSE low[k - 1] + (IF k - 1 \in S THEN Weight[k] ELSE 0)
  IN low[16]
Signed(S, width) == Num(S \ {width - 1})
                    - (IF width - 1 \in S THEN Weight[width] ELSE 0)

Shl(S, k) == {i \in 0 .. 31 : i - k \in S}
Field(w, lo, width) == {i \in 0 .. width - 1 : i + lo \in w}

(***************************************************************************)
(* The instructions: which bits are fixed, and which of these are 1.       *)
(***************************************************************************)
Fixed ==
  [movz |-> 23 .. 31, movn |-> 23 .. 31, movk |-> 23 .. 31,
   addi |-> 22 .. 31,
   add  |-> 21 .. 31 \union 10 .. 15, sub  |-> 21 .. 31 \union 10 .. 15,
   mul  |-> 21 .. 31 \union 10 .. 15, sdiv |-> 21 .. 31 \union 10 .. 15,
   mov  |-> 21 .. 31 \union 5 .. 15,
   ret  |-> 10 .. 31 \union 0 .. 4,   blr  |-> 10 .. 31 \union 0 .. 4,
   stp  |-> 25 .. 31 \union {22},     ldp  |-> 25 .. 31 \union {22},
   str  |-> 22 .. 31,                 ldr  |-> 22 .. 31,
   stru |-> 21 .. 31 \union {10},     ldru |-> 21 .. 31 \union {10}]

Ones ==
  [movz |-> {31, 30, 28, 25, 23},     movn |-> {31, 28, 25, 23},
   movk |-> {31, 30, 29, 28, 25, 23}, addi |-> {31, 28, 24},
   add  |-> {31, 27, 25, 24},         sub  |-> {31, 30, 27, 25, 24},
   mul  |-> {31, 28, 27, 25, 24} \union 10 .. 14,
   sdiv |-> {31, 28, 27, 25, 23, 22, 11, 10},
   mov  |-> {31, 29, 27, 25} \union 5 .. 9,
   ret  |-> {31, 30, 28, 26, 25, 22} \union 16 .. 20,
   blr  |-> {31, 30, 28, 26, 25} \union 16 .. 21,
   stp  |-> {31, 29, 27},             ldp  |-> {31, 29, 27, 22},
   str  |-> {31, 30, 29, 28, 27, 24}, ldr  |-> {31, 30, 29, 28, 27, 24, 22},
   stru |-> {31, 30, 29, 28, 27, 10}, ldru |-> {31, 30, 29, 28, 27, 22, 10}]

Mnemonics == DOMAIN Fixed
Is(w, op) == w \intersect Fixed[op] = Ones[op]

\* stru and ldru are the forms that write the base register, before (pre) or
\* after the access (post); stp and ldp have a bit for each of the two.
Op(w) == LET ops == {op \in Mnemonics : Is(w, op)} IN
         IF ops = {} THEN "udf" ELSE CHOOSE op \in ops : TRUE

Rd(w) == Num(Field(w, 0, 5))
Rn(w) == Num(Field(w, 5, 5))
Rm(w) == Num(Field(w, 16, 5))
Rt2(w) == Num(Field(w, 10, 5))
Hw(w) == Num(Field(w, 21, 2))
Imm12(w) == Num(Field(w, 10, 12))
Imm9(w) == Signed(Field(w, 12, 9), 9)
Imm7(w) == Signed(Field(w, 15, 7), 7)
=============================================================================
