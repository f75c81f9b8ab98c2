------------------------------ MODULE MCBril ------------------------------
(***************************************************************************)
(* Small families of Bril programs for BrilInterp.                         *)
(***************************************************************************)
EXTENDS BrilInterp

MinusFour == -4

Blank == [op |-> "nop", dest |-> NoVar, args |-> <<>>, lbls |-> <<>>,
          fn |-> "main", base |-> "int", num |-> 0]
Plain(o) == [Blank EXCEPT !.op = o]
Const(d, b, n) == [Blank EXCEPT !.op = "const", !.dest = d, !.base = b, !.num = n]
Op(o, d, args) == [Blank EXCEPT !.op = o, !.dest = d, !.args = args]
Do(o, args) == Op(o, NoVar, args)
Call(d, f, args) == [Op("call", d, args) EXCEPT !.fn = f]
Lab(l) == [Blank EXCEPT !.op = "label", !.lbls = <<l>>]
Jmp(l) == [Blank EXCEPT !.op = "jmp", !.lbls = <<l>>]
Br(x, l, m) == [Blank EXCEPT !.op = "br", !.args = <<x>>, !.lbls = <<l, m>>]

Param(x, b, p) == [name |-> x, base |-> b, ptr |-> p]
Fn(params, instrs) == [params |-> params, instrs |-> instrs]
N == Param("n", "int", FALSE)

(***************************************************************************)
(* Well-typed programs whose labels a compiler would emit: a loop is       *)
(* entered at its top, so that a jump back goes to a label already met.    *)
(***************************************************************************)
Loop(k, body) ==
  <<Const("z", "int", 0), Lab(k[1]), Op("gt", "b", <<"n", "z">>),
    Br("b", k[2], k[3]), Lab(k[2])>> \o body \o
  <<Const("y", "int", 1), Op("sub", "n", <<"n", "y">>), Jmp(k[1]), Lab(k[3])>>

If(k, then, else) ==
  <<Const("z", "int", 0), Op("gt", "b", <<"n", "z">>), Op("not", "b", <<"b">>),
    Br("b", k[2], k[1]), Lab(k[1])>> \o then \o
  <<Jmp(k[3]), Lab(k[2])>> \o else \o <<Lab(k[3])>>

A == <<"l", "m", "o">>
B == <<"o", "l", "m">>
C == <<"q", "r", "s">>

CallF == <<Call("x", "f", <<"n">>), Do("print", <<"x", "n">>)>>
\* The callee writes through the pointer it is given.
Through ==
  <<Const("y", "int", 2), Op("alloc", "p", <<"y">>), Const("y", "int", 1),
    Op("ptradd", "p", <<"p", "y">>), Call(NoVar, "put", <<"p", "n">>),
    Op("load", "x", <<"p">>), Const("y", "int", -1),
    Op("ptradd", "p", <<"p", "y">>), Do("free", <<"p">>), Do("print", <<"x">>)>>

Mains ==
  {Loop(A, CallF), If(B, CallF, Through), Loop(A, Through),
   If(A, CallF, <<Plain("nop")>>) \o Loop(C, CallF)}

\* f(n), by a loop, by recursion, through a function that returns nothing, and
\* with a call whose result nobody wants.
Down == Fn(<<N>>, Loop(B, <<>>) \o <<Do("ret", <<"n">>)>>)
Sum == Fn(<<N>>, If(A, <<Const("y", "int", 1), Op("sub", "x", <<"n", "y">>),
                         Call("x", "f", <<"x">>), Op("add", "n", <<"n", "x">>),
                         Do("ret", <<"n">>)>>,
                       <<Do("ret", <<"n">>), Plain("nop")>>))
ByVoid == Fn(<<N>>, <<Op("id", "x", <<"n">>), Call(NoVar, "g", <<"n">>),
                      Call(NoVar, "void", <<"n">>), Do("ret", <<"x">>)>>)
Void == Fn(<<N>>, Loop(C, <<Call("x", "g", <<"n">>)>>) \o <<Do("ret", <<>>)>>)
G == Fn(<<N>>, <<Const("y", "int", -2), Op("mul", "y", <<"n", "y">>), Do("ret", <<"y">>)>>)
Put == Fn(<<Param("q", "int", TRUE), N>>, <<Do("store", <<"q", "n">>)>>)

Structured ==
  {[main |-> Fn(<<N>>, m), f |-> f, g |-> G, void |-> Void, put |-> Put] :
     f \in {Down, Sum, ByVoid}, m \in Mains}

(***************************************************************************)
(* Any instructions in any order: what the JSON may hold all the same.     *)
(* main has the int x and a pointer p to two of them; f gets x.            *)
(***************************************************************************)
Any ==
  {Const("x", "int", 1), Const("x", "bool", 1), Op("div", "x", <<"x", "x">>),
   Op("mul", "x", <<"x", "x">>),
   Op("lt", "x", <<"x", "x">>), Op("not", "x", <<"x">>), Op("id", "p", <<"x">>),
   Do("print", <<"x">>), Do("print", <<>>),
   Plain("any"), Jmp("l"), Br("x", "l", "m"), Lab("l"), Lab("m"),
   Call("x", "f", <<"x">>), Call("x", "f", <<"p">>), Call("x", "f", <<>>),
   Do("ret", <<"p">>), Do("ret", <<>>),
   Op("alloc", "p", <<"x">>), [Op("alloc", "p", <<"x">>) EXCEPT !.base = "bool"],
   Do("free", <<"p">>), Do("store", <<"p", "x">>), Op("load", "x", <<"p">>),
   [Op("load", "x", <<"p">>) EXCEPT !.base = "bool"],
   Op("ptradd", "p", <<"p", "x">>)}
X == Param("x", "int", FALSE)

Wild ==
  {[main |-> Fn(<<X>>, <<Op("alloc", "p", <<"x">>), i, j, k>>),
    f |-> Fn(<<X>>, <<h, Do("ret", <<"x">>)>>)] :
     i \in Any, j \in Any,
     k \in {Call("x", "f", <<"x">>), Jmp("l"), Br("x", "l", "m"), Do("free", <<"p">>),
            Op("load", "x", <<"p">>), Do("store", <<"p", "x">>)},
     h \in {Call("x", "f", <<"x">>), Lab("l"), Jmp("l")}}

(***************************************************************************)
(* A loop rotated so that it is entered in its middle.                     *)
(***************************************************************************)
Rotated ==
  {[main |-> Fn(<<N>>, <<Const("y", "int", 1), Jmp("m"), Lab("l"),
                         Op("sub", "n", <<"n", "y">>), Lab("m"),
                         Op("gt", "b", <<"n", "y">>), Br("b", "l", "o"), Lab("o")>>)]}

\* What the theorem about the refinement supposes of a set of programs.
ASSUME ProgramsAreRegular == \A p \in Programs : Regular(p)
===========================================================================
