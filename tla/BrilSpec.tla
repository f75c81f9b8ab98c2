----------------------------- MODULE BrilSpec -----------------------------
(***************************************************************************)
(* The meaning of a Bril program: a stack of activations, each with its    *)
(* environment, labels that name places in a function, and calls that      *)
(* carry the callee's own result to the caller's destination.  There is no *)
(* label cache and no shared return value.                                 *)
(***************************************************************************)
EXTENDS BrilProgram

CONSTANTS Inputs, MaxBlocks, MaxSize
VARIABLES prog, stack, memory, printed, state

vars == <<prog, stack, memory, printed, state>>

Init ==
  /\ prog \in Programs
  /\ stack = <<>> /\ memory = <<>> /\ printed = <<>> /\ state = "start"

Here == stack[Len(stack)]
Body == prog[Here.fn].instrs
Now == Body[Here.pc + 1]
Operand(k) == Here.env[Now.args[k]]
Readable(p) == /\ p.ptr /\ memory[p.blk].live
               /\ p.off \in 0 .. Len(memory[p.blk].cells) - 1

\* What an instruction may assign to its destination: nothing where Bril gives
\* it no meaning.
Only(ok, v) == IF ok THEN {v} ELSE {}
Values ==
  CASE Now.op = "const" -> {Number(Now.base, Now.num)}
    [] Now.op = "id" -> {Operand(1)}
    [] Now.op = "not" -> Only(IsA(Operand(1), "bool"),
                              Number("bool", 1 - Operand(1).num))
    [] Now.op = "load" ->
         Only(Operand(1).base = Now.base /\ Readable(Operand(1)),
              Number(Now.base, memory[Operand(1).blk].cells[Operand(1).off + 1]))
    [] Now.op = "ptradd" ->
         Only(/\ IsA(Operand(2), "int")
              /\ Operand(1).ptr /\ Operand(1).base = Now.base,
              Pointer(Now.base, Operand(1).blk, Operand(1).off + Operand(2).num))
    [] Now.op \in DOMAIN BinOps ->
         LET sig == BinOps[Now.op] IN
         IF IsA(Operand(1), sig[1]) /\ IsA(Operand(2), sig[1])
         THEN {Number(sig[3], n) : n \in Apply(sig[2], Operand(1).num, Operand(2).num)}
         ELSE {}

Go(pc) == stack' = [stack EXCEPT ![Len(stack)].pc = pc]
GoOn == Go(Here.pc + 1)
GoOnWith(v) == stack' = [stack EXCEPT ![Len(stack)].pc = @ + 1,
                                      ![Len(stack)].env[Now.dest] = v]
At(ops) == state = "running" /\ Here.pc < Len(Body) /\ Now.op \in ops

Assign ==
  /\ At({"const", "id", "not", "load", "ptradd"} \union DOMAIN BinOps)
  /\ \E v \in Values : GoOnWith(v)
  /\ UNCHANGED <<prog, memory, printed, state>>

Skip ==
  /\ At({"nop", "label"})
  /\ GoOn
  /\ UNCHANGED <<prog, memory, printed, state>>

Show ==
  /\ At({"print"})
  /\ printed' = [k \in DOMAIN Now.args |-> Operand(k)]
  /\ GoOn
  /\ UNCHANGED <<prog, memory, state>>

\* Execution goes on behind the label, before or after the jump.
Jump ==
  /\ At({"jmp", "br"})
  /\ Now.op = "br" => IsA(Operand(1), "bool")
  /\ \E k \in LabelAt(Body, Now.lbls[IF Now.op = "br" /\ Operand(1).num # 1
                                     THEN 2 ELSE 1]) : Go(k + 1)
  /\ UNCHANGED <<prog, memory, printed, state>>

Allocate ==
  /\ At({"alloc"})
  /\ IsA(Operand(1), "int") /\ Operand(1).num \in 0 .. MaxSize
  /\ \E junk \in Payload(Now.base) :
       memory' = Append(memory, [base |-> Now.base, live |-> TRUE,
                                 cells |-> [k \in 1 .. Operand(1).num |-> junk]])
  /\ GoOnWith(Pointer(Now.base, Len(memory) + 1, 0))
  /\ UNCHANGED <<prog, printed, state>>

Release ==
  /\ At({"free"})
  /\ Operand(1).ptr /\ memory[Operand(1).blk].live /\ Operand(1).off = 0
  /\ memory' = [memory EXCEPT ![Operand(1).blk].live = FALSE]
  /\ GoOn
  /\ UNCHANGED <<prog, printed, state>>

Write ==
  /\ At({"store"})
  /\ Readable(Operand(1)) /\ IsA(Operand(2), Operand(1).base)
  /\ memory' = [memory EXCEPT ![Operand(1).blk].cells[Operand(1).off + 1] =
                                Operand(2).num]
  /\ GoOn
  /\ UNCHANGED <<prog, printed, state>>

(***************************************************************************)
(* Activations.                                                            *)
(***************************************************************************)
Enter(fn, values) ==
  [fn |-> fn, pc |-> 0, result |-> NoResult,
   env |-> [x \in Vars |->
     IF \E k \in DOMAIN values : prog[fn].params[k].name = x
     THEN values[CHOOSE k \in DOMAIN values : prog[fn].params[k].name = x]
     ELSE Default]]

Typed(fn, values) ==
  /\ fn \in DOMAIN prog /\ Len(values) = Len(prog[fn].params)
  /\ \A k \in DOMAIN values : /\ values[k].base = prog[fn].params[k].base
                              /\ values[k].ptr = prog[fn].params[k].ptr

Begin ==
  /\ state = "start"
  /\ \E n \in [1 .. Len(prog["main"].params) -> Inputs] :
       LET values == [k \in DOMAIN n |-> Number(prog["main"].params[k].base, n[k])] IN
       /\ \A k \in DOMAIN n : n[k] \in Payload(values[k].base)
       /\ stack' = <<Enter("main", values)>>
  /\ state' = "running"
  /\ UNCHANGED <<prog, memory, printed>>

\* The user gave main fewer arguments than it has, or malformed ones.
Refuse ==
  /\ state = "start" /\ prog["main"].params # <<>>
  /\ state' = "wrong"
  /\ UNCHANGED <<prog, stack, memory, printed>>

Call ==
  LET values == [k \in DOMAIN Now.args |-> Operand(k)] IN
  /\ At({"call"})
  /\ Typed(Now.fn, values)
  /\ stack' = Append(stack, Enter(Now.fn, values))
  /\ UNCHANGED <<prog, memory, printed, state>>

Above == stack[Len(stack) - 1]
Site == prog[Above.fn].instrs[Above.pc + 1]
Wanted == Len(stack) > 1 /\ Site.dest # NoVar

Return ==
  /\ At({"ret"})
  /\ stack' = [stack EXCEPT
       ![Len(stack)].pc = Len(Body),
       ![Len(stack)].result = IF Wanted /\ Now.args # <<>> THEN Operand(1)
                                                         ELSE NoResult]
  /\ UNCHANGED <<prog, memory, printed, state>>

Leave ==
  /\ state = "running" /\ Here.pc = Len(Body)
  /\ Wanted => Here.result # NoResult
  /\ stack' = IF Len(stack) = 1 THEN <<>>
              ELSE Append(SubSeq(stack, 1, Len(stack) - 2),
                     IF Wanted
                     THEN [Above EXCEPT !.pc = @ + 1, !.env[Site.dest] = Here.result]
                     ELSE [Above EXCEPT !.pc = @ + 1])
  /\ state' = IF Len(stack) = 1 THEN "done" ELSE state
  /\ UNCHANGED <<prog, memory, printed>>

Next ==
  \/ Begin \/ Refuse \/ Assign \/ Skip \/ Show \/ Jump \/ Allocate \/ Release
  \/ Write \/ Call \/ Return \/ Leave

Spec == Init /\ [][Next]_vars
==========================================================================
