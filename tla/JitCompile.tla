----------------------------- MODULE JitCompile -----------------------------
(***************************************************************************)
(* simple-jit: get_code and the parse_ functions (parser.cpp), which turn  *)
(* the instructions of main into words, and jit_bril (main.cpp), which     *)
(* copies them to executable memory and calls them.  The processor and     *)
(* print_int's calling convention are external.                            *)
(***************************************************************************)
EXTENDS JitEmitter, SequencesExt

CONSTANTS
  Names, Index,     \* variables, and the number get_register reads from one
  NoArgs,           \* an absent "args"
  PartBits,         \* 16: the bits of an immediate; a register has four parts
  PrintInt,         \* the address of print_int
  Host,             \* the registers when jit_bril calls the code
  Garbage,          \* what a call may leave in a caller-saved register
  StackSlots,       \* the stack below the caller's frame, in registers
  PageBytes,        \* SIZE rounded to pages: what mmap maps
  Cases             \* pairs of a program and a build

Reg_size == 32
Regs == 0 .. Reg_size - 1
U16 == 2 * Weight[PartBits]
U32 == U16 * U16
U64 == U32 * U32
Unit == <<1, U16, U32, U32 * U16>>
Val == -(U64 \div 2) .. U64 \div 2 - 1
Wrap(n) == ((n + U64 \div 2) % U64) - U64 \div 2
Low32(n) == ((n + U32 \div 2) % U32) - U32 \div 2

Supported == {"add", "sub", "mul", "div", "ret", "const", "print"}
\* Whether assertions are compiled in (no NDEBUG), whether the system traps
\* accesses by a SP that is not aligned, and the address that mmap returns.
Build == [asserts : BOOLEAN, checksSP : BOOLEAN, mapping : Nat]
Instr == [op : STRING, type : STRING, dest : Names,
          args : Seq(Names) \union {NoArgs}, value : Val]

ASSUME JitAssumption ==
  /\ Index \in [Names -> Int] /\ PartBits \in 3 .. 16 /\ Host \in [Regs -> Val]
  /\ PrintInt \in Val /\ Garbage \subseteq Val /\ PageBytes \in Nat
  /\ StackSlots \in Nat /\ StackSlots >= 16
  /\ NoArgs \notin Seq(Names)
  /\ Cases \subseteq Seq(Instr) \X Build

VARIABLES
  prog,      \* the instructions of main
  build,     \* how the program was built, the system, and where mmap puts code
  status,    \* "parse", "run", or how it ended: "threw", "asserted", "done",
             \* "fault" (a signal), "undef" (undefined behaviour)
  code,      \* the words
  starts,    \* history: the length of code before each parsed instruction
  reg, sp, stack, pc, out

parser == <<prog, build, code, starts>>
machine == <<reg, sp, stack, pc, out>>
vars == <<parser, status, machine>>

Init ==
  /\ \E c \in Cases : prog = c[1] /\ build = c[2]
  /\ status = "parse"
  /\ code = << >> /\ starts = << >>
  /\ reg = Host /\ sp = 0 /\ stack = [s \in 1 .. StackSlots |-> 0]
  /\ pc = 1 /\ out = << >>

-----------------------------------------------------------------------------
(***************************************************************************)
(* get_code.                                                               *)
(***************************************************************************)
Parsing == status = "parse" /\ Len(starts) < Len(prog)
Ins == prog[Len(starts) + 1]

Push(words) ==
  /\ code' = code \o words
  /\ starts' = Append(starts, Len(code))
  /\ UNCHANGED <<prog, build, status, machine>>
Stop(how) == status' = how /\ UNCHANGED <<parser, machine>>

\* An int of the immediates' size, in two's complement.
Int32(n) == IF n < 0 THEN (0 .. 31) \ Bits(-n - 1) ELSE Bits(n)
Parts(n) == [k \in 0 .. 3 |-> Bits(((n % U64) \div Unit[k + 1]) % U16)]

Get_register(n) == Bits(Index[n])
\* Mutant: idx > REG_SIZE is tested.
InFileLax(n) == Index[n] \in 0 .. Reg_size
InFile(n) == Index[n] \in 0 .. Reg_size - 1
AllInFile(args) == \A k \in DOMAIN args : InFile(args[k])

\* A label has no "op": the empty optional is dereferenced.
Unnamed == "unnamed"
Parse_label ==
  /\ Parsing /\ Ins.op = Unnamed
  /\ Stop("undef")

\* An opcode without a parser, or one marked 0 in OPCODE_LIST.
Parse_unsupported ==
  /\ Parsing /\ Ins.op \notin Supported \union {Unnamed}
  /\ Stop("threw")

\* The assertion on a negative immediate compares (imm | ONES_16), sign-extended
\* to 64 bits, with ONES_32.
Or16(n) == ((n % U64) \div U16) * U16 + U16 - 1
Encodable(imm) == IF imm < 0 THEN Or16(imm) = U32 - 1 ELSE imm \div U16 = 0
ConstWord(dest, imm) ==
  IF imm < 0 THEN Emit_movn(dest, Parts(imm)[0], {})
             ELSE Emit_movz(dest, Parts(imm)[0], {})
Parse_const ==
  /\ Parsing /\ Ins.op = "const"
  /\ IF Ins.type # "int" \/ ~ InFile(Ins.dest) THEN Stop("threw")
     ELSE IF build.asserts /\ ~ Encodable(Ins.value) THEN Stop("asserted")
     ELSE Push(<<ConstWord(Get_register(Ins.dest), Ins.value)>>)

BinopWord(op, d, a, b) ==
  IF op = "add" THEN Emit_add_sr(d, a, b)
  ELSE IF op = "sub" THEN Emit_sub_sr(d, a, b)
  ELSE IF op = "mul" THEN Emit_mul(d, a, b)
  ELSE Emit_sdiv(d, a, b)
Srcs(args) == IF Len(args) < 2 THEN args ELSE SubSeq(args, 1, 2)
Parse_binop ==
  /\ Parsing /\ Ins.op \in {"add", "sub", "mul", "div"}
  /\ IF Ins.type # "int" \/ Ins.args = NoArgs THEN Stop("threw")
     ELSE IF Len(Ins.args) # 2 /\ build.asserts THEN Stop("asserted")
     ELSE IF ~ AllInFile(Srcs(Ins.args)) THEN Stop("threw")
     ELSE IF Len(Ins.args) < 2 THEN Stop("undef")
     ELSE IF ~ InFile(Ins.dest) THEN Stop("threw")
     ELSE Push(<<BinopWord(Ins.op, Get_register(Ins.dest),
                    Get_register(Ins.args[1]), Get_register(Ins.args[2]))>>)

Parse_ret ==
  /\ Parsing /\ Ins.op = "ret"
  /\ IF Ins.args = NoArgs THEN Push(<<Emit_ret>>)
     ELSE IF Len(Ins.args) > 1 /\ build.asserts THEN Stop("asserted")
     ELSE IF Len(Ins.args) # 1 THEN Push(<<Emit_ret>>)
     ELSE IF ~ InFile(Ins.args[1]) THEN Stop("threw")
     ELSE Push(<<Emit_orr_sr({}, Get_register(Ins.args[1])), Emit_ret>>)

\* The keys of the map pos, in its order: the arguments that are not in place.
Pos(args) ==
  LET out_of_place == {k \in DOMAIN args : Index[args[k]] # k}
  IN [j \in 1 .. Cardinality(out_of_place) |->
        CHOOSE k \in out_of_place : Cardinality({m \in out_of_place : m < k}) = j - 1]

Saved(args, pos) ==
  [j \in DOMAIN pos |-> Emit_str_imm(SP, Int32(-8), Bits(pos[j]), Ls_mode.pre)]
  \o [j \in DOMAIN pos |-> Emit_str_imm(SP, Int32(-8),
                                Get_register(args[pos[j]]), Ls_mode.pre)]
Moved(pos) ==
  [j \in DOMAIN pos |-> Emit_ldr_imm(SP, Int32(8 * (Len(pos) - j)),
                                     Bits(pos[j]), Ls_mode.offset)]
\* Mutant: only one register of the pair is made room for.
CallUnaligned(n) ==
  LET addr == Parts(PrintInt) IN
  <<Emit_movz({}, Bits(n), {}), Emit_movz(Bits(16), addr[0], {}),
    Emit_movk(Bits(16), addr[1], Bits(1)), Emit_movk(Bits(16), addr[2], Bits(2)),
    Emit_movk(Bits(16), addr[3], Bits(3)),
    Emit_stp(SP, Int32(-8), Bits(29), Bits(30), Ls_mode.pre),
    Emit_mov_sp(Bits(29), SP), Emit_blr(Bits(16)),
    Emit_ldp(SP, Int32(8), Bits(29), Bits(30), Ls_mode.post)>>
Call(n) ==
  LET addr == Parts(PrintInt) IN
  <<Emit_movz({}, Bits(n), {}), Emit_movz(Bits(16), addr[0], {}),
    Emit_movk(Bits(16), addr[1], Bits(1)), Emit_movk(Bits(16), addr[2], Bits(2)),
    Emit_movk(Bits(16), addr[3], Bits(3)),
    Emit_stp(SP, Int32(-16), Bits(29), Bits(30), Ls_mode.pre),
    Emit_mov_sp(Bits(29), SP), Emit_blr(Bits(16)),
    Emit_ldp(SP, Int32(16), Bits(29), Bits(30), Ls_mode.post)>>
\* Mutant: the loads in the order of the stores.
RestoredForward(args, pos) ==
  [j \in DOMAIN pos |-> Emit_ldr_imm(SP, Int32(8),
                             Get_register(args[pos[j]]), Ls_mode.post)]
  \o [j \in DOMAIN pos |-> Emit_ldr_imm(SP, Int32(8), Bits(pos[j]), Ls_mode.post)]
Restored(args, pos) ==
  LET rev == Reverse(pos) IN
  [j \in DOMAIN pos |-> Emit_ldr_imm(SP, Int32(8),
                             Get_register(args[rev[j]]), Ls_mode.post)]
  \o [j \in DOMAIN pos |-> Emit_ldr_imm(SP, Int32(8), Bits(rev[j]), Ls_mode.post)]

Parse_print ==
  /\ Parsing /\ Ins.op = "print"
  /\ IF Ins.args = NoArgs
     THEN Stop(IF build.asserts THEN "asserted" ELSE "threw")
     ELSE IF ~ AllInFile(Ins.args) \/ Len(Ins.args) > 7 THEN Stop("threw")
     ELSE \E pos \in {Pos(Ins.args)} :
          Push(Saved(Ins.args, pos) \o Moved(pos) \o Call(Len(Ins.args))
               \o Restored(Ins.args, pos))

(***************************************************************************)
(* jit_bril: memcpy is told to copy 8 bytes for every word of 4.           *)
(***************************************************************************)
CopiedBytes == 8 * Len(code)
Jit_bril ==
  /\ status = "parse" /\ Len(starts) = Len(prog)
  /\ \/ status' = "run"
     \/ CopiedBytes > PageBytes /\ status' = "fault"
  /\ UNCHANGED <<parser, machine>>

-----------------------------------------------------------------------------
(***************************************************************************)
(* The processor.                                                          *)
(***************************************************************************)
Word == code[pc]
Fetched(ops) == status = "run" /\ pc \in DOMAIN code /\ Op(Word) \in ops
Advance == pc' = pc + 1 /\ UNCHANGED <<parser, status>>

Read(r) == IF r = 31 THEN 0 ELSE reg[r]
Written(r, v) == IF r = 31 THEN reg ELSE [reg EXCEPT ![r] = v]

Part(w) == Num(Field(w, 5, PartBits))
MovWide ==
  LET unit == Unit[Hw(Word) + 1]
      old == reg[Rd(Word)] % U64 IN
  /\ Fetched({"movz", "movn", "movk"})
  /\ reg' = Written(Rd(Word), Wrap(
       IF Op(Word) = "movz" THEN Part(Word) * unit
       ELSE IF Op(Word) = "movn" THEN -(Part(Word) * unit) - 1
       ELSE old + (Part(Word) - ((old \div unit) % U16)) * unit))
  /\ Advance
  /\ UNCHANGED <<sp, stack, out>>

Abs(n) == IF n < 0 THEN -n ELSE n
Quotient(a, b) ==
  IF b = 0 THEN 0
  ELSE IF (a < 0) = (b < 0) THEN Abs(a) \div Abs(b) ELSE -(Abs(a) \div Abs(b))
Result(op, a, b) ==
  Wrap(IF op = "add" THEN a + b ELSE IF op = "sub" THEN a - b
       ELSE IF op = "mul" THEN a * b ELSE IF op = "mov" THEN b
       ELSE Quotient(a, b))
DataProcessing ==
  /\ Fetched({"add", "sub", "mul", "sdiv", "mov"})
  /\ reg' = Written(Rd(Word), Result(Op(Word), Read(Rn(Word)), Read(Rm(Word))))
  /\ Advance
  /\ UNCHANGED <<sp, stack, out>>

\* mov to or from SP: register 31 is SP here.
AddImmediate ==
  LET v == (IF Rn(Word) = 31 THEN sp ELSE reg[Rn(Word)]) + Imm12(Word) IN
  /\ Fetched({"addi"})
  /\ IF Rd(Word) = 31 THEN sp' = v /\ UNCHANGED reg
                      ELSE reg' = [reg EXCEPT ![Rd(Word)] = v] /\ UNCHANGED sp
  /\ Advance
  /\ UNCHANGED <<stack, out>>

Pairs == {"stp", "ldp"}
Offset ==
  IF Op(Word) \in Pairs THEN 8 * Imm7(Word)
  ELSE IF Op(Word) \in {"str", "ldr"} THEN 8 * Imm12(Word) ELSE Imm9(Word)
PreIndexed ==
  IF Op(Word) \in Pairs THEN 24 \in Word
  ELSE Op(Word) \in {"str", "ldr"} \/ 11 \in Word
WritesBack ==
  IF Op(Word) \in Pairs THEN 23 \in Word ELSE Op(Word) \in {"stru", "ldru"}
Transferred ==
  IF Op(Word) \in Pairs THEN <<Rd(Word), Rt2(Word)>> ELSE <<Rd(Word)>>
Address == IF PreIndexed THEN sp + Offset ELSE sp
SlotOf(j) == (-(Address + 8 * (j - 1))) \div 8
Faults ==
  \/ build.checksSP /\ sp % 16 # 0
  \/ \E j \in DOMAIN Transferred : SlotOf(j) \notin DOMAIN stack

LoadStore ==
  LET t == Transferred
      stores == Op(Word) \in {"str", "stru", "stp"} IN
  /\ Fetched({"str", "ldr", "stru", "ldru", "stp", "ldp"})
  /\ ~ Faults
  /\ IF stores
     THEN /\ stack' = [s \in DOMAIN stack |->
                         IF \E j \in DOMAIN t : SlotOf(j) = s
                         THEN Read(t[CHOOSE j \in DOMAIN t : SlotOf(j) = s])
                         ELSE stack[s]]
          /\ UNCHANGED reg
     ELSE /\ reg' = [r \in Regs |->
                       IF r # 31 /\ \E j \in DOMAIN t : t[j] = r
                       THEN stack[SlotOf(CHOOSE j \in DOMAIN t : t[j] = r)]
                       ELSE reg[r]]
          /\ UNCHANGED stack
  /\ sp' = IF WritesBack THEN sp + Offset ELSE sp
  /\ Advance
  /\ UNCHANGED out

LoadStoreFault ==
  /\ Fetched({"str", "ldr", "stru", "ldru", "stp", "ldp"})
  /\ Faults
  /\ Stop("fault")

\* print_int: it prints the low half of x1 and so on, with a loop of
\* count - 1 turns, which do not end for a count of 0.
CallerSaved == 0 .. 18
Printed(count) == [k \in 1 .. count |-> Low32(reg[k])]
Blr ==
  /\ Fetched({"blr"})
  /\ IF reg[Rn(Word)] # PrintInt \/ reg[0] = 0 THEN Stop("undef")
     ELSE /\ out' = Append(out, Printed(reg[0]))
          /\ \E g \in Garbage :
               reg' = [r \in Regs |-> IF r \in CallerSaved THEN g
                                      ELSE IF r = 30 THEN 4 * pc ELSE reg[r]]
          /\ Advance
          /\ UNCHANGED <<sp, stack>>

Ret ==
  /\ Fetched({"ret"})
  /\ Stop(IF reg[Rn(Word)] = Host[30] THEN "done" ELSE "undef")

\* After the last word come the bytes that memcpy read behind the vector.
RunsOff ==
  /\ status = "run"
  /\ pc \in DOMAIN code => Op(Word) = "udf"
  /\ Stop("undef")

Parse ==
  Parse_label \/ Parse_unsupported \/ Parse_const \/ Parse_binop \/ Parse_ret
  \/ Parse_print
Execute ==
  \/ MovWide \/ DataProcessing \/ AddImmediate \/ LoadStore \/ LoadStoreFault
  \/ Blr \/ Ret \/ RunsOff
Next == Parse \/ Jit_bril \/ Execute

Spec == Init /\ [][Next]_vars
=============================================================================
