----------------------------- MODULE MCUsesDefs -----------------------------
(* Instances of UsesDefsProperties: small functions over three registers.     *)
EXTENDS UsesDefsProperties

R(instr, a, b, c) == [instr |-> instr, op0 |-> a, op1 |-> b, op2 |-> c]
Lb(l) == R(l, "", "", "")
MCStem == (".L1:" :> ".L1") @@ (".L2:" :> ".L2") @@ (".L3:" :> ".L3")
          @@ ("ret" :> "re") @@ ("ecall" :> "ecal")
          @@ ("block0:" :> "block0") @@ ("entry:" :> "entry")
MCReads == {<<"a5", "a5">>, <<"a0", "a0">>, <<"s0", "s0">>, <<"s0", "-20(s0)">>,
            <<"a5", "%lo(g)(a5)">>, <<"ra", "ra">>, <<"s1", "s1">>, <<"s11", "s11">>}
MCDoubled == {"%lo(g)(a5)"}
MCMentions == MCReads \union {<<"s1", "s11">>}

Ld == R("lw", "a5", "-20(s0)", "")
St == R("sw", "a5", "-20(s0)", "")
Mv == R("mv", "a0", "a5", "")
Back == R("mv", "a5", "a0", "")
Inc == R("addi", "a5", "a5", "1")
Mul == R("mulw", "a0", "a5", "a0")
Sll == R("slliw", "a5", "a5", "1")
Frame == R("addi", "s0", "sp", "32")
J(l) == R("j", l, "", "")
Bne(l) == R("bne", "a5", "zero", l)
Jr == R("jr", "ra", "", "")

Straight == {Inc, Mv, Back, St}
Jump == {J(".L1"), J(".L2"), Bne(".L1"), Bne(".L2"), Jr, Mul, R("jal", "f", "", "")}
\* A head, a body .L1 and a tail .L2, each left by some jump or none.
Flows ==
  {<<w, x, j, Lb(".L1:"), y, Ld, k, Lb(".L2:"), z, m>> :
     w \in {Frame}, x \in Straight, y \in {Inc, Back, St}, z \in {Mv},
     j \in Jump, k \in Jump, m \in {Jr, J(".L1"), Bne(".L2"), Mv}}
Texts ==
  {<<x, j, Lb(".L1:"), y, Lb(".L2:"), z, Jr>> :
     x \in {Inc, Lb(".L1:"), R("ecall", "", "", ""), Sll}, j \in Jump,
     y \in {Mv, Lb(".L3:"), J(".L3"), Bne(".L3"), R("ret", "", "", "")},
     z \in {Inc, Bne(".L2"), Jr}}
  \union {<<Lb(".L1:")>>, <<Mv>>,
          <<R("addi", "s1", "s1", "1"), R("mv", "a0", "s11", ""), Jr>>,
          <<Inc, J("block0"), Lb("block0:"), Mv, J("entry"), Lb("entry:"), Ld, Jr>>,
          <<Inc, R("beqz", "a5", ".L1", ""), Mv, Lb(".L1:"), Inc, Jr>>,
          <<Back, Lb(".L1:"), Mv, Inc, Bne(".L1"), Jr>>}

\* Loops closed by j, of one, two and three blocks.
Loops ==
  {<<w, Lb(".L1:"), x, y, J(".L1"), Jr>> : w \in Straight, x \in Straight, y \in Straight}
  \union
  {<<w, Lb(".L1:"), x, J(".L2"), Lb(".L3:"), y, J(".L1"), Lb(".L2:"), z, J(".L3"), Jr>> :
     w \in Straight, x \in Straight, y \in Straight, z \in Straight}

\* More blocks than the recursion can hold: of the search behind Frame, and of
\* process_cfg only, as every Inc ends the search of the one before.
Deep ==
  {<<w, Bne(".L1"), x, Bne(".L1"), x, Bne(".L1"), x, Bne(".L1"), x, Bne(".L1"),
     x, Bne(".L1"), Lb(".L1:"), Mv, Jr>> : w \in {Frame, Inc}, x \in {Inc, Mv}}

Odd ==
  {<<Inc, R("lw", "a5", "%lo(g)(a5)", ""), x, Jr>> : x \in {Mv, St}}
  \union {<<Inc, x, Lb(".L1:"), Lb(".L2:"), Mv, y, Mv>> : x \in Jump, y \in Jump}
  \union {<<Back, St, Mv, Jr>>, <<Back, Lb(".L1:"), St, Ld, Mv, Bne(".L1"), Jr>>}

MCPrograms == Flows \union Texts \union Loops \union Deep \union Odd
=============================================================================
