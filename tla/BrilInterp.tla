---------------------------- MODULE BrilInterp ----------------------------
(***************************************************************************)
(* bril-interpreter/src/interpreter.cpp: one step is one turn of the loop  *)
(* in interpret_function, the call that enters it or the pop that leaves   *)
(* it.                                                                     *)
(***************************************************************************)
EXTENDS BrilProgram

CONSTANTS
  Inputs,      \* the numbers main's arguments are parsed to
  MaxDepth,    \* frames the C++ stack has room for
  MaxBlocks,   \* blocks new can hand out before it throws bad_alloc
  MaxSize,     \* the largest array new can hand out
  MaxStray     \* how far outside its block a pointer is followed

ASSUME BoundAssumption ==
  /\ Inputs \subseteq Int
  /\ MaxDepth \in Nat \ {0} /\ MaxBlocks \in Nat /\ MaxSize \in Nat
  /\ MaxStray \in Nat

VARIABLES
  prog,     \* ctx.functions
  frames,   \* ctx.frames, the top last
  ret_val,  \* ctx.ret_val
  heap,     \* what new has handed out: [base, cells, live]
  out,      \* the last line printed
  status    \* "start", "running", "done", or how the process ended:
            \* "threw", "label" (find_label's throw), "undef" (assert, trap,
            \* undefined behaviour)

vars == <<prog, frames, ret_val, heap, out, status>>

NotCached == -1

Init ==
  /\ prog \in Programs
  /\ frames = <<>>
  /\ ret_val = Default
  /\ heap = <<>>
  /\ out = <<>>
  /\ status = "start"

Top == frames[Len(frames)]
Instrs == prog[Top.name].instrs
Cur == Instrs[Top.ip + 1]
Arg(k) == Top.variables[Cur.args[k]]

Runs(ops) ==
  /\ status = "running"
  /\ Top.ip < Len(Instrs)
  /\ Cur.op \in ops

Stop(how) ==
  /\ status' = how
  /\ UNCHANGED <<prog, frames, ret_val, heap, out>>

\* _inc_ip, and set_dest where there is a value to assign.
Next_ip == frames' = [frames EXCEPT ![Len(frames)].ip = @ + 1]
Set_dest(v) ==
  frames' = [frames EXCEPT ![Len(frames)].ip = @ + 1,
                           ![Len(frames)].variables[Cur.dest] = v]

(***************************************************************************)
(* setup_frame and the program's start.                                    *)
(***************************************************************************)
Params(fn) == prog[fn].params

Accepts(fn, v_args) ==
  /\ fn \in DOMAIN prog
  /\ Params(fn) # <<>> =>
       /\ Len(v_args) = Len(Params(fn))
       /\ \A k \in 1 .. Len(v_args) : v_args[k].base = Params(fn)[k].base
                                       /\ v_args[k].ptr = Params(fn)[k].ptr

\* emplace keeps the first of two parameters with one name.
Bound(fn, v_args, x) ==
  {k \in 1 .. Len(Params(fn)) :
     Params(fn)[k].name = x /\ \A j \in 1 .. k - 1 : Params(fn)[j].name # x}
\* Mutant: one label cache for all the frames.
Setup_frameSharing(fn, v_args) ==
  [name |-> fn, ip |-> 0,
   labels |-> IF frames = <<>> THEN [l \in Labels |-> NotCached] ELSE Top.labels,
   variables |-> [x \in Vars |->
     IF Bound(fn, v_args, x) = {} THEN Default
     ELSE v_args[CHOOSE k \in Bound(fn, v_args, x) : TRUE]]]
Setup_frame(fn, v_args) ==
  [name |-> fn, ip |-> 0, labels |-> [l \in Labels |-> NotCached],
   variables |-> [x \in Vars |->
     IF Bound(fn, v_args, x) = {} THEN Default
     ELSE v_args[CHOOSE k \in Bound(fn, v_args, x) : TRUE]]]

\* get_main_args parses bool, int and float; anything else throws, as do a
\* missing argument, a malformed one and a program without main.
Start ==
  /\ status = "start"
  /\ "main" \in DOMAIN prog
  /\ \A k \in 1 .. Len(Params("main")) :
       ~ Params("main")[k].ptr /\ Params("main")[k].base # "char"
  /\ \E n \in [1 .. Len(Params("main")) -> Inputs] :
       LET v_args == [k \in DOMAIN n |-> Number(Params("main")[k].base, n[k])] IN
       /\ \A k \in DOMAIN n : n[k] \in Payload(Params("main")[k].base)
       /\ frames' = <<Setup_frame("main", v_args)>>
  /\ status' = "running"
  /\ UNCHANGED <<prog, ret_val, heap, out>>

StartThrows ==
  /\ status = "start"
  /\ "main" \in DOMAIN prog => Params("main") # <<>>
  /\ Stop("threw")

(***************************************************************************)
(* Values.                                                                 *)
(***************************************************************************)
Interpret_const ==
  /\ Runs({"const"})
  /\ Set_dest(Number(Cur.base, Cur.num))
  /\ UNCHANGED <<prog, ret_val, heap, out, status>>

\* std::get throws unless the variant holds the operation's type.
Interpret_binop ==
  LET sig == BinOps[Cur.op]
      typed == IsA(Arg(1), sig[1]) /\ IsA(Arg(2), sig[1])
      results == Apply(sig[2], Arg(1).num, Arg(2).num) IN
  /\ Runs(DOMAIN BinOps)
  /\ \/ /\ typed
        /\ \E n \in results : Set_dest(Number(sig[3], n))
        /\ UNCHANGED <<prog, ret_val, heap, out, status>>
     \/ typed /\ results = {} /\ Stop("undef")
     \/ ~ typed /\ Stop("threw")

Interpret_not ==
  /\ Runs({"not"})
  /\ \/ /\ IsA(Arg(1), "bool")
        /\ Set_dest(Number("bool", 1 - Arg(1).num))
        /\ UNCHANGED <<prog, ret_val, heap, out, status>>
     \/ ~ IsA(Arg(1), "bool") /\ Stop("threw")

Interpret_id ==
  /\ Runs({"id"})
  /\ Set_dest(Arg(1))
  /\ UNCHANGED <<prog, ret_val, heap, out, status>>

Interpret_nop ==
  /\ Runs({"nop"})
  /\ Next_ip
  /\ UNCHANGED <<prog, ret_val, heap, out, status>>

\* args_size of an absent "args" dereferences an empty optional.
Interpret_print ==
  /\ Runs({"print"})
  /\ \/ /\ Cur.args # <<>>
        /\ out' = [k \in DOMAIN Cur.args |-> Arg(k)]
        /\ Next_ip
        /\ UNCHANGED <<prog, ret_val, heap, status>>
     \/ Cur.args = <<>> /\ Stop("undef")

\* An opcode of OPCODE_LIST marked 0.
Interpret_unsupported == Runs(Unsupported) /\ Stop("threw")

(***************************************************************************)
(* Control flow.  find_label looks only past ip; a label before it is      *)
(* known only if this frame has executed it or found it earlier.           *)
(***************************************************************************)
Found(l) == {k \in LabelAt(Instrs, l) : k > Top.ip}
Find_label(l) == CHOOSE k \in Found(l) : \A j \in Found(l) : k <= j

Jmp_to_label(l) ==
  \/ /\ Top.labels[l] # NotCached
     /\ frames' = [frames EXCEPT ![Len(frames)].ip = Top.labels[l] + 1]
     /\ UNCHANGED <<prog, ret_val, heap, out, status>>
  \/ /\ Top.labels[l] = NotCached /\ Found(l) # {}
     /\ frames' = [frames EXCEPT ![Len(frames)].labels[l] = Find_label(l),
                                 ![Len(frames)].ip = Find_label(l) + 1]
     /\ UNCHANGED <<prog, ret_val, heap, out, status>>
  \/ Top.labels[l] = NotCached /\ Found(l) = {} /\ Stop("label")

Interpret_jmp == Runs({"jmp"}) /\ Jmp_to_label(Cur.lbls[1])

Interpret_br ==
  /\ Runs({"br"})
  /\ \/ /\ IsA(Arg(1), "bool")
        /\ Jmp_to_label(IF Arg(1).num = 1 THEN Cur.lbls[1] ELSE Cur.lbls[2])
     \/ ~ IsA(Arg(1), "bool") /\ Stop("threw")

\* Mutant: the ip is not advanced.
Interpret_labelStuck ==
  /\ Runs({"label"})
  /\ frames' = [frames EXCEPT ![Len(frames)].labels[Cur.lbls[1]] = Top.ip]
  /\ UNCHANGED <<prog, ret_val, heap, out, status>>
Interpret_label ==
  /\ Runs({"label"})
  /\ frames' = [frames EXCEPT ![Len(frames)].labels[Cur.lbls[1]] = Top.ip,
                              ![Len(frames)].ip = @ + 1]
  /\ UNCHANGED <<prog, ret_val, heap, out, status>>

(***************************************************************************)
(* Calls.  The frame of the caller stays at its call until the callee's    *)
(* loop has ended; ret_val is the context's, and ret without a value does  *)
(* not touch it.                                                           *)
(***************************************************************************)
\* Mutant: the caller's ip is advanced before the callee runs.
Interpret_callAdvancing ==
  LET v_args == [k \in DOMAIN Cur.args |-> Arg(k)] IN
  /\ Runs({"call"})
  /\ \/ /\ Cur.args # <<>> /\ Accepts(Cur.fn, v_args) /\ Len(frames) < MaxDepth
        /\ frames' = Append([frames EXCEPT ![Len(frames)].ip = @ + 1],
                            Setup_frame(Cur.fn, v_args))
        /\ UNCHANGED <<prog, ret_val, heap, out, status>>
     \/ Cur.args # <<>> /\ ~ Accepts(Cur.fn, v_args) /\ Stop("threw")
     \/ (Cur.args = <<>> \/ Len(frames) = MaxDepth) /\ Stop("undef")
Interpret_call ==
  LET v_args == [k \in DOMAIN Cur.args |-> Arg(k)] IN
  /\ Runs({"call"})
  /\ \/ /\ Cur.args # <<>> /\ Accepts(Cur.fn, v_args) /\ Len(frames) < MaxDepth
        /\ frames' = Append(frames, Setup_frame(Cur.fn, v_args))
        /\ UNCHANGED <<prog, ret_val, heap, out, status>>
     \/ Cur.args # <<>> /\ ~ Accepts(Cur.fn, v_args) /\ Stop("threw")
     \/ (Cur.args = <<>> \/ Len(frames) = MaxDepth) /\ Stop("undef")

\* Mutant: execution goes on behind the ret.
Interpret_retGoingOn ==
  /\ Runs({"ret"})
  /\ ret_val' = IF Cur.args # <<>> THEN Arg(1) ELSE ret_val
  /\ Next_ip
  /\ UNCHANGED <<prog, heap, out, status>>
Interpret_ret ==
  /\ Runs({"ret"})
  /\ ret_val' = IF Cur.args # <<>> THEN Arg(1) ELSE ret_val
  /\ frames' = [frames EXCEPT ![Len(frames)].ip = Len(Instrs)]
  /\ UNCHANGED <<prog, heap, out, status>>

\* The end of interpret_function's loop, and of interpret_call if there is a
\* caller.
Caller == frames[Len(frames) - 1]
CallOf(f) == prog[f.name].instrs[f.ip + 1]
Back(f) ==
  [f EXCEPT !.ip = @ + 1,
            !.variables = IF CallOf(f).dest = NoVar THEN @
                          ELSE [@ EXCEPT ![CallOf(f).dest] = ret_val]]

Return ==
  /\ status = "running"
  /\ Top.ip >= Len(Instrs)
  /\ \/ /\ Len(frames) = 1
        /\ frames' = <<>>
        /\ status' = "done"
     \/ /\ Len(frames) > 1
        /\ frames' = Append(SubSeq(frames, 1, Len(frames) - 2), Back(Caller))
        /\ UNCHANGED status
  /\ UNCHANGED <<prog, ret_val, heap, out>>

(***************************************************************************)
(* Memory: new t[size], delete, and accesses through a pointer.            *)
(***************************************************************************)
Interpret_alloc ==
  LET size == Arg(1).num IN
  /\ Runs({"alloc"})
  /\ \/ /\ IsA(Arg(1), "int") /\ size \in 0 .. MaxSize /\ Len(heap) < MaxBlocks
        /\ \E junk \in Payload(Cur.base) :
             heap' = Append(heap, [base |-> Cur.base, live |-> TRUE,
                                   cells |-> [k \in 1 .. size |-> junk]])
        /\ Set_dest(Pointer(Cur.base, Len(heap) + 1, 0))
        /\ UNCHANGED <<prog, ret_val, out, status>>
     \/ /\ ~ (IsA(Arg(1), "int") /\ size \in 0 .. MaxSize /\ Len(heap) < MaxBlocks)
        /\ Stop("threw")

\* A pointer that may be dereferenced, and one that may be deleted.
Points(v) ==
  v.ptr /\ heap[v.blk].live /\ v.off \in 0 .. Len(heap[v.blk].cells) - 1
Owned(v) == v.ptr /\ heap[v.blk].live /\ v.off = 0

Interpret_free ==
  /\ Runs({"free"})
  /\ \/ /\ Owned(Arg(1))
        /\ heap' = [heap EXCEPT ![Arg(1).blk].live = FALSE]
        /\ Next_ip
        /\ UNCHANGED <<prog, ret_val, out, status>>
     \/ Arg(1).ptr /\ ~ Owned(Arg(1)) /\ Stop("undef")
     \/ ~ Arg(1).ptr /\ Stop("threw")

\* val.index() + 4 = ptr.index().
\* Mutant: any pointer takes any value.
MatchesAny(p, v) == p.ptr /\ ~ v.ptr
Matches(p, v) == p.ptr /\ ~ v.ptr /\ p.base = v.base

Interpret_store ==
  LET p == Arg(1) IN
  /\ Runs({"store"})
  /\ \/ /\ Matches(p, Arg(2)) /\ Points(p)
        /\ heap' = [heap EXCEPT ![p.blk].cells =
                                  [@ EXCEPT ![p.off + 1] = Arg(2).num]]
        /\ Next_ip
        /\ UNCHANGED <<prog, ret_val, out, status>>
     \/ Matches(p, Arg(2)) /\ ~ Points(p) /\ Stop("undef")
     \/ ~ Matches(p, Arg(2)) /\ Stop("threw")

Interpret_load ==
  LET p == Arg(1)
      typed == p.ptr /\ p.base = Cur.base IN
  /\ Runs({"load"})
  /\ \/ /\ typed /\ Points(p)
        /\ Set_dest(Number(p.base, heap[p.blk].cells[p.off + 1]))
        /\ UNCHANGED <<prog, ret_val, heap, out, status>>
     \/ typed /\ ~ Points(p) /\ Stop("undef")
     \/ ~ typed /\ Stop("threw")

Interpret_ptradd ==
  LET p == Arg(1)
      typed == p.ptr /\ p.base = Cur.base IN
  /\ Runs({"ptradd"})
  /\ \/ /\ IsA(Arg(2), "int") /\ typed
        /\ p.off + Arg(2).num \in -MaxStray .. MaxSize + MaxStray
        /\ Set_dest(Pointer(p.base, p.blk, p.off + Arg(2).num))
        /\ UNCHANGED <<prog, ret_val, heap, out, status>>
     \/ IsA(Arg(2), "int") /\ ~ typed /\ Stop("undef")
     \/ ~ IsA(Arg(2), "int") /\ Stop("threw")

Next ==
  \/ Start \/ StartThrows \/ Return
  \/ Interpret_const \/ Interpret_binop \/ Interpret_not \/ Interpret_id
  \/ Interpret_nop \/ Interpret_print \/ Interpret_unsupported
  \/ Interpret_jmp \/ Interpret_br \/ Interpret_label
  \/ Interpret_call \/ Interpret_ret
  \/ Interpret_alloc \/ Interpret_free \/ Interpret_store \/ Interpret_load
  \/ Interpret_ptradd

Spec == Init /\ [][Next]_vars
FairSpec == Spec /\ WF_vars(Next)

(***************************************************************************)
(* Properties                                                              *)
(***************************************************************************)
Frame == [name : Functions, ip : Nat, labels : [Labels -> Int],
          variables : [Vars -> Value]]
Block == [base : BaseTypes, live : BOOLEAN, cells : Seq(Int)]

\* Every variable has the type its declaration in interpreter.cpp gives it.
TypeOK ==
  /\ IsProgram(prog)
  /\ frames \in Seq(Frame)
  /\ ret_val \in Value
  /\ heap \in Seq(Block)
  /\ out \in Seq(Value)
  /\ status \in {"start", "running", "done", "threw", "label", "undef"}

\* Each frame's label cache agrees with its own function, whatever functions
\* ran in between and share the label's name: an entry is where find_label or
\* the loop met that label.
CacheSound ==
  \A d \in 1 .. Len(frames) : \A l \in Labels :
    frames[d].labels[l] # NotCached =>
      frames[d].labels[l] \in LabelAt(prog[frames[d].name].instrs, l)

\* Every frame below the top stands at the call it is waiting for, so that the
\* pop resumes a call, and no ip runs past the end.
StackSound ==
  /\ status = "running" => frames # <<>>
  /\ \A d \in 1 .. Len(frames) :
       /\ frames[d].name \in DOMAIN prog
       /\ frames[d].ip <= Len(prog[frames[d].name].instrs)
       /\ d < Len(frames) =>
            /\ frames[d].ip < Len(prog[frames[d].name].instrs)
            /\ CallOf(frames[d]).op = "call"

\* A number fits its type, and a pointer of any type that survives in a
\* variable or in ret_val is into a block allocated for that type: copies,
\* casts by load, ptradd and calls never confuse two.
Fits(v) ==
  IF v.ptr THEN v.blk \in 1 .. Len(heap) /\ heap[v.blk].base = v.base
           ELSE v.num \in Payload(v.base)
ValuesSound ==
  /\ \A d \in 1 .. Len(frames) : \A x \in Vars : Fits(frames[d].variables[x])
  /\ Fits(ret_val)
  /\ \A b \in 1 .. Len(heap) : \A k \in 1 .. Len(heap[b].cells) :
       heap[b].cells[k] \in Payload(heap[b].base)

\* Every jump to a label the function has finds it.
LabelsFound ==
  status = "label" => \A l \in {Cur.lbls[k] : k \in DOMAIN Cur.lbls} :
                        LabelAt(Instrs, l) = {}

\* The semantics of Bril this interpreter implements: see BrilSpec.
Wants(d) == d > 1 /\ CallOf(frames[d - 1]).dest # NoVar
Ended(d) == frames[d].ip >= Len(prog[frames[d].name].instrs)
Activations ==
  [d \in 1 .. Len(frames) |->
     [fn |-> frames[d].name, pc |-> frames[d].ip, env |-> frames[d].variables,
      result |-> IF Wants(d) /\ Ended(d) THEN ret_val ELSE NoResult]]
State == IF status \in {"threw", "label", "undef"} THEN "wrong" ELSE status
Bril == INSTANCE BrilSpec WITH
          stack <- Activations, memory <- heap, printed <- out, state <- State

\* Each instruction does what Bril says: jumps go to the label wherever it
\* stands, a call's dest gets the value its own callee returned and no stale
\* one, and a program goes wrong only where Bril gives it no meaning.
ImplementsBril == Bril!Spec

\* What Bril asks of a program and what this interpreter does not check: a main,
\* parameters with names of their own, no arguments to a function without any.
Regular(p) ==
  /\ "main" \in DOMAIN p
  /\ \A f \in DOMAIN p :
       /\ \A j, k \in 1 .. Len(p[f].params) :
            p[f].params[j].name = p[f].params[k].name => j = k
       /\ \A k \in 1 .. Len(p[f].instrs) :
            LET i == p[f].instrs[k] IN
            i.op = "call" /\ i.args # <<>> /\ i.fn \in DOMAIN p => p[i.fn].params # <<>>

\* A step to which Bril gives a meaning: the process goes on, and a function whose
\* result its caller wants comes to its end by a ret that has one.
Meaningful ==
  /\ status = "running" => status' \in {"running", "done"}
  /\ (frames # <<>> /\ Wants(Len(frames)) /\ Ended(Len(frames)))' =>
       Interpret_ret /\ Cur.args # <<>>

\* Whatever the program, each such step is the step of BrilSpec it should be, in
\* every frame and after any mixture of calls, jumps and stray pointers.
StepsAreBril == [][Meaningful => Bril!Next \/ UNCHANGED Bril!vars]_vars

\* A program whose loops and recursion end is interpreted to its end.
Terminates == <>(status \in {"done", "threw"})
==========================================================================
