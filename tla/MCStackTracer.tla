--------------------------- MODULE MCStackTracer ---------------------------
(* Instances of StackTracer: main.c's functions and a few symbols more.       *)
EXTENDS StackTracer

S(a, n) == [address |-> a, symbol_name |-> n]
Image(fails, syms) == [fails |-> fails, syms |-> syms]
Demo == <<S(4, "foo"), S(0, ""), S(2, "test"), S(8, "main"), S(6, "bar")>>
Tables == {Demo, <<S(0, ""), S(2, "main")>>, <<S(2, "main")>>, <<S(0, ""), S(0, "")>>,
           <<S(4, "main"), S(2, "foo"), S(2, "alias"), S(6, "end")>>,
           <<S(4, "main"), S(4, "local"), S(0, ""), S(2, "foo")>>}
MCImages ==
  {Image("none", t) : t \in Tables}
  \union {Image(f, <<S(2, "foo"), S(4, "main")>>) :
            f \in {"fopen", "header", "type", "sections", "names", "symtab", "strtab",
                   "symbols", "strings"}}
MCStacks == {<<3>>, <<5>>, <<1, 4>>, <<2, 6>>, <<6, 4, 3>>}
=============================================================================
