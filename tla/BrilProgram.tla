--------------------------- MODULE BrilProgram ---------------------------
(***************************************************************************)
(* Bril programs as interpreter.cpp reads them from their JSON, the values *)
(* they compute with, and the operators of its arithmetic instructions.    *)
(***************************************************************************)
EXTENDS Integers, Sequences

CONSTANTS
  Vars, Labels, Functions,   \* the names programs use; "main" \in Functions
  NoVar,                     \* an absent "dest"
  IntMin, IntMax,            \* the range of int
  Programs                   \* the programs a run interprets

BaseTypes == {"bool", "char", "float", "int"}

\* Two characters and two floats are enough to tell equal from different.
Payload(b) == IF b = "int" THEN IntMin .. IntMax ELSE {0, 1}

\* The variant Value: a number of a base type, or a pointer to one, into block
\* blk at offset off.  index() + 4 of a base type is the pointer to it.
Value == [base : BaseTypes, ptr : BOOLEAN, num : IntMin .. IntMax,
          blk : Nat, off : Int]
Number(b, n) == [base |-> b, ptr |-> FALSE, num |-> n, blk |-> 0, off |-> 0]
Pointer(b, k, o) == [base |-> b, ptr |-> TRUE, num |-> 0, blk |-> k, off |-> o]
IsA(v, b) == v.base = b /\ ~ v.ptr
NoResult == [base |-> "none"]

\* What unordered_map's operator[] makes of a variable nobody assigned.
Default == Number("bool", 0)

(***************************************************************************)
(* IMPLEMENT_BINOP: the type of the operands, the operation, the type of   *)
(* the result.                                                             *)
(***************************************************************************)
BinOps ==
  [add |-> <<"int", "plus", "int">>,    sub |-> <<"int", "minus", "int">>,
   mul |-> <<"int", "times", "int">>,   div |-> <<"int", "over", "int">>,
   eq  |-> <<"int", "eq", "bool">>,     lt  |-> <<"int", "lt", "bool">>,
   gt  |-> <<"int", "gt", "bool">>,     le  |-> <<"int", "le", "bool">>,
   ge  |-> <<"int", "ge", "bool">>,
   fadd |-> <<"float", "some", "float">>, fsub |-> <<"float", "some", "float">>,
   fmul |-> <<"float", "some", "float">>, fdiv |-> <<"float", "some", "float">>,
   feq |-> <<"float", "eq", "bool">>,   flt |-> <<"float", "lt", "bool">>,
   fgt |-> <<"float", "gt", "bool">>,   fle |-> <<"float", "le", "bool">>,
   fge |-> <<"float", "ge", "bool">>,
   and |-> <<"bool", "and", "bool">>,   or  |-> <<"bool", "or", "bool">>,
   ceq |-> <<"char", "eq", "bool">>,    clt |-> <<"char", "lt", "bool">>,
   cgt |-> <<"char", "gt", "bool">>,    cle |-> <<"char", "le", "bool">>,
   cge |-> <<"char", "ge", "bool">>]

WrapNever(n) == n   \* mutant
Wrap(n) == IntMin + ((n - IntMin) % (IntMax - IntMin + 1))
Abs(n) == IF n < 0 THEN -n ELSE n
Quotient(a, b) == IF (a < 0) = (b < 0) THEN Abs(a) \div Abs(b)
                                       ELSE -(Abs(a) \div Abs(b))
Bit(p) == IF p THEN 1 ELSE 0

Traps(a, b) == b = 0 \/ (a = IntMin /\ b = -1)
Exact(f, a, b) == [plus |-> a + b, minus |-> a - b, times |-> a * b][f]
Holds(f, a, b) ==
  [eq |-> a = b, lt |-> a < b, gt |-> a > b, le |-> a <= b, ge |-> a >= b,
   and |-> a = 1 /\ b = 1, or |-> a = 1 \/ b = 1][f]

\* The numbers an operation may give: none where the division traps, any
\* float where floats are computed with.
Apply(f, a, b) ==
  IF f = "some" THEN Payload("float")
  ELSE IF f = "over" THEN IF Traps(a, b) THEN {} ELSE {Quotient(a, b)}
  ELSE IF f \in {"plus", "minus", "times"} THEN {Wrap(Exact(f, a, b))}
  ELSE {Bit(Holds(f, a, b))}

(***************************************************************************)
(* Programs.  An instruction without the key "args" has args = <<>>, a     *)
(* function without it params = <<>>; the JSON never holds an empty list.  *)
(***************************************************************************)
PlainOps == {"const", "id", "not", "print", "ret", "jmp", "br", "label", "call",
             "alloc", "free", "store", "load", "ptradd", "nop"}
Unsupported == {"set", "get", "speculate", "commit", "guard", "char2int",
                "int2char", "float2bits", "bits2float", "any"}
Opcodes == DOMAIN BinOps \union PlainOps \union Unsupported

\* base is the instruction's "type", or what its pointer type points to.
Instr == [op : Opcodes, dest : Vars \union {NoVar}, args : Seq(Vars),
          lbls : Seq(Labels), fn : Functions, base : BaseTypes, num : Int]
Function == [params : Seq([name : Vars, base : BaseTypes, ptr : BOOLEAN]),
             instrs : Seq(Instr)]

\* How many "args" and "labels" an instruction has, and whether a "dest": what
\* the macros at the top of interpreter.cpp take for granted.
Shaped(i) ==
  /\ i.op \in DOMAIN BinOps \union {"store", "ptradd"} => Len(i.args) >= 2
  /\ i.op \in {"id", "not", "br", "alloc", "free", "load"} => Len(i.args) >= 1
  /\ i.op = "br" => Len(i.lbls) >= 2
  /\ i.op \in {"jmp", "label"} => Len(i.lbls) >= 1
  /\ i.op \in DOMAIN BinOps \union {"const", "id", "not", "alloc", "load", "ptradd"}
       => i.dest # NoVar
  /\ i.op = "const" => i.num \in Payload(i.base)

IsProgram(p) ==
  /\ DOMAIN p \subseteq Functions
  /\ \A f \in DOMAIN p : p[f] \in Function
  /\ \A f \in DOMAIN p : \A k \in 1 .. Len(p[f].instrs) : Shaped(p[f].instrs[k])

ASSUME ProgramAssumption ==
  /\ NoVar \notin Vars
  /\ "main" \in Functions
  /\ IntMin \in Int /\ IntMax \in Int /\ 0 < IntMax /\ IntMin = -IntMax - 1
  /\ \A p \in Programs : IsProgram(p)

\* Where label l stands in a list of instructions, counting from 0 as ip does.
LabelAt(instrs, l) ==
  {k \in 0 .. Len(instrs) - 1 :
     instrs[k + 1].op = "label" /\ instrs[k + 1].lbls[1] = l}
==========================================================================
