-------------------------------- MODULE MCJit --------------------------------
(* Instances of JitProperties: programs, names, and a machine of 12-bit       *)
(* registers with immediates of 3 bits.                                       *)
EXTENDS JitProperties, JitReach

Named(k) == [letter |-> "v", number |-> k]
Other(k) == [letter |-> "w", number |-> k]
Bad == [letter |-> "v", number |-> -1]        \* "vx": stoul throws
MCNames == {Named(k) : k \in 0 .. 32} \union {Other(k) : k \in 0 .. 3} \union {Bad}
MCIndex == [n \in MCNames |-> n.number]
MCHost == [r \in 0 .. 31 |-> 1000 + r]
MCGarbage == {999, -7}

I(op, type, dest, args, value) ==
  [op |-> op, type |-> type, dest |-> dest, args |-> args, value |-> value]
Const(d, n) == I("const", "int", d, NoArgs, n)
Bin(op, d, a, b) == I(op, "int", d, <<a, b>>, 0)
Show(args) == I("print", "none", Named(0), args, 0)
RetVoid == I("ret", "none", Named(0), NoArgs, 0)
Return(a) == I("ret", "none", Named(0), <<a>>, 0)

V(k) == Named(k)
\* Four variables in places, out of places and above them, printed in every
\* order and with every repetition, and all of them read afterwards.
Few == {V(1), V(2), V(3), V(19)}
PrintArgs == UNION {[1 .. n -> Few] : n \in 1 .. 3}
Prints ==
  {<<Const(V(1), 5), Const(V(2), 2), Bin("sub", V(3), V(2), V(1)),
     Bin("mul", V(19), V(1), V(3)), Show(a), Show(<<V(19), V(3), V(2), V(1)>>),
     Return(V(3))>> : a \in PrintArgs}

\* Aliased names, x0, x16 and x31, mixed with two prints.
Mixed ==
  {<<Const(d, 6), Const(V(2), 3), Show(<<V(2), d>>), Bin(op, e, d, V(2)),
     Show(<<e, e, d>>), Return(e)>> :
     d \in {V(0), V(1), V(7), V(16), V(28), V(31), Other(2)},
     e \in {V(2), Other(2), V(0), V(31), V(15)}, op \in {"add", "div"}}

\* Programs the parser turns down, that run off their end, or that print nothing.
Odd ==
  {<<Const(V(1), n), x, RetVoid>> : n \in {-9, -8, -1, 0, 7, 8},
     x \in {I(Unnamed, "none", V(0), NoArgs, 0), I("eq", "bool", V(2), <<V(1), V(1)>>, 0),
            I("phi", "int", V(2), NoArgs, 0),
            I("const", "bool", V(2), NoArgs, 1), I("add", "ptr", V(2), <<V(1), V(1)>>, 0),
            I("add", "int", V(2), <<V(1)>>, 0), I("add", "int", V(2), NoArgs, 0),
            I("add", "int", V(2), <<V(1), V(1), V(1)>>, 0),
            I("sub", "int", V(2), <<V(1), V(32)>>, 0), Const(Bad, 1), Const(V(32), 1),
            I("ret", "none", V(0), << >>, 0), I("ret", "none", V(0), <<V(1), V(2)>>, 0),
            Return(V(32)), Return(V(1)), Show(NoArgs), Show(<<V(32)>>), Show(<< >>),
            Show(<<V(1), V(1), V(1), V(1), V(1), V(1), V(1), V(1)>>),
            Bin("div", V(2), V(1), V(5)), Show(<<V(1)>>), Const(V(30), 2)}}
  \union {<<Const(V(1), 3)>>, << >>}
  \union {<<Const(V(1), 3), Show(<<V(2)>>), Show(<<V(2), V(1)>>), Show(<<V(2), V(1)>>),
            Show(<<V(2), V(1), V(1)>>), RetVoid>>}

\* Immediates of either sign, each operation on them.
Arithmetic ==
  {<<Const(V(1), m), Const(V(5), n), Bin(op, V(8), V(1), V(5)), Show(<<V(8), V(1)>>),
     Bin(op, V(9), V(8), V(5)), Return(V(9))>> :
     m \in {-8, -3, -1, 0, 7}, n \in -8 .. 7, op \in {"add", "sub", "mul", "div"}}

\* test/test_emitter.cpp, in halves of a word.
W(high, low) == Bits(low) \union Shl(Bits(high), 16)
B(n) == Bits(n)
ASSUME EmitterTests ==
  /\ Emit_movz(B(1), B(\h8001), {}) = W(\hd290, \h0021)
  /\ Emit_movz(B(2), B(\hFFFF), {}) = W(\hd29f, \hffe2)
  /\ Emit_movz(B(5), B(\h03E9), B(3)) = W(\hd2e0, \h7d25)
  /\ Emit_movn(B(0), B(\hFFFF), {}) = W(\h9280, \h0000)
  /\ Emit_movn(B(1), B(\h7FFF), {}) = W(\h9290, \h0001)
  /\ Emit_movn(B(5), B(\hFC16), B(3)) = W(\h92e0, \h7d25)
  /\ Emit_add_sr(B(0), B(1), B(0)) = W(\h8b00, \h0020)
  /\ Emit_sub_sr(B(0), B(1), B(0)) = W(\hcb00, \h0020)
  /\ Emit_ldr_imm(SP, Int32(32), B(0), Ls_mode.offset) = W(\hf940, \h13e0)
  /\ Emit_ldr_imm(SP, Int32(-32), B(3), Ls_mode.pre) = W(\hf85e, \h0fe3)
  /\ Emit_ldr_imm(SP, Int32(-64), B(2), Ls_mode.post) = W(\hf85c, \h07e2)
  /\ Emit_str_imm(SP, Int32(40), B(0), Ls_mode.offset) = W(\hf900, \h17e0)
  /\ Emit_str_imm(SP, Int32(48), B(1), Ls_mode.pre) = W(\hf803, \h0fe1)
  /\ Emit_str_imm(SP, Int32(-64), B(2), Ls_mode.post) = W(\hf81c, \h07e2)

Built(asserts, checksSP, mapping) ==
  [asserts |-> asserts, checksSP |-> checksSP, mapping |-> mapping]
MCCases ==
  ((Prints \union Mixed) \X {Built(TRUE, FALSE, 0)})
  \union (Odd \X {Built(a, c, 0) : a \in BOOLEAN, c \in BOOLEAN})
  \union (Arithmetic \X {Built(FALSE, FALSE, 0)})
  \union ({<< >>} \X {Built(TRUE, FALSE, 32 * k) : k \in 0 .. 23})

\* Pages of 32 bytes, 32 values of a branch, 16 of pages; 24 mappings above.
MCFunctions == {4 * k : k \in 0 .. 191}
=============================================================================
