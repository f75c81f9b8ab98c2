------------------------------ MODULE UsesDefs ------------------------------
(***************************************************************************)
(* uses-and-defs (main.py): a RISC-V function is cut into blocks, the      *)
(* blocks are linked, every definition searches its uses along the links,  *)
(* and the result is drawn and answers clicks.                             *)
(***************************************************************************)
EXTENDS Integers, FiniteSets, TLC, SequencesExt

CONSTANTS
  None,         \* an operand that is absent
  Stem,         \* of a line without operands: its text but the last character
  Mentions,     \* pairs of a register and an operand whose text contains it
  Doubled,      \* the operands with two '(' and a ')', like %lo(g)(a5)
  MaxDepth,     \* how deep Python lets find_uses and process_cfg recurse
  Programs      \* sequences of [instr, op0, op1, op2], a label being an instr

conditional_jumps_riscv ==
  {"beq", "bne", "blt", "bge", "bltu", "bgeu", "bgt", "ble", "bgtu", "bleu",
   "beqz", "bnez", "bltz", "bgez", "bgtz", "blez"}
\* 'ret' 'call' is one string in Python.
unconditional_jumps_riscv ==
  {"jal", "jalr", "retcall", "ecall", "ebreak", "j", "jr"}
block_terminators_riscv == conditional_jumps_riscv \union unconditional_jumps_riscv

TwoOperands == {"sd", "mv", "sw", "lw", "sext.w", "ld"}
ThreeOperands == {"addi", "mulw", "andi"}
Defining == {"addi", "mv", "sw", "lw", "andi", "mulw", "sext.w", "ld", "slliw"}

Numbered(n) == "block" \o ToString(n)

ASSUME UsesDefsAssumption ==
  /\ MaxDepth \in Nat
  /\ None \notin Doubled
  /\ \A p \in Programs :
       /\ p \in Seq(Range(p))
       /\ \A k \in DOMAIN p :
            /\ p[k].instr \in TwoOperands \union ThreeOperands => p[k].op1 # None
            /\ p[k].instr \in ThreeOperands => p[k].op2 # None
            /\ p[k].op0 = None => p[k].instr \in DOMAIN Stem
       /\ \A m, n \in 0 .. Len(p) : Numbered(m) = Numbered(n) => m = n
       /\ \A n \in 0 .. Len(p) : Numbered(n) # "entry"

VARIABLES
  prog,
  phase,     \* "blocks", "cfg", "uses", "search", "show", "draw", "shown", or how
             \* Python ended it
  pos,       \* the loop variable of the phase: a line, then a block
  at,        \* the inner loop of "uses": an index of the block's lines
  bb,        \* the blocks: a name and line numbers of prog
  cblock, i, \* the block being filled, and the number of the next one
  succ,      \* of each block, the indexes of its successors
  links,     \* pairs of a definition and a use: uses of one, defs of the other
  todo,      \* the calls of find_uses or process_cfg still to make: the block,
             \* the index to start from and the depth of the recursion
  done,      \* the names they have met, with the depth for process_cfg
  tags       \* the lines of the text under h0, h1, h2

vars == <<prog, phase, pos, at, bb, cblock, i, succ, links, todo, done, tags>>

Block(name) == [name |-> name, instrs |-> << >>]
NoTags == [h0 |-> {}, h1 |-> {}, h2 |-> {}]

Init ==
  /\ prog \in Programs
  /\ phase = "blocks" /\ pos = 1 /\ at = 1
  /\ bb = << >> /\ cblock = Block("entry") /\ i = 0
  /\ succ = << >> /\ links = {} /\ todo = << >> /\ done = << >>
  /\ tags = NoTags

Fail(how) == phase' = how /\ UNCHANGED <<prog, pos, at, bb, cblock, i, succ,
                                         links, todo, done, tags>>

-----------------------------------------------------------------------------
(***************************************************************************)
(* get_bb, one line at a time.                                             *)
(***************************************************************************)
Line == prog[pos]
Reading == phase = "blocks" /\ pos <= Len(prog)
With(block, line) == [block EXCEPT !.instrs = Append(@, line)]
NextLine == pos' = pos + 1 /\ UNCHANGED <<prog, phase, at, succ, links, todo, done, tags>>

\* Mutant: the next block keeps the instructions of this one.
TerminatorKeeping ==
  /\ Reading /\ Line.instr \in block_terminators_riscv
  /\ bb' = Append(bb, With(cblock, pos))
  /\ cblock' = With(cblock, pos)
  /\ i' = i + 1
  /\ NextLine
Terminator ==
  /\ Reading /\ Line.instr \in block_terminators_riscv
  /\ bb' = Append(bb, With(cblock, pos))
  /\ cblock' = Block(Numbered(i))
  /\ i' = i + 1
  /\ NextLine

Label ==
  /\ Reading /\ Line.instr \notin block_terminators_riscv /\ Line.op0 = None
  /\ IF cblock.instrs = << >>
     THEN cblock' = Block(Stem[Line.instr]) /\ UNCHANGED bb
     ELSE cblock' = Block(Stem[Line.instr]) /\ bb' = Append(bb, cblock)
  /\ NextLine /\ UNCHANGED i

Ordinary ==
  /\ Reading /\ Line.instr \notin block_terminators_riscv /\ Line.op0 # None
  /\ cblock' = With(cblock, pos)
  /\ NextLine /\ UNCHANGED <<bb, i>>

\* The block that was being filled is not among the result.
Get_bb_return ==
  /\ phase = "blocks" /\ pos > Len(prog)
  /\ IF bb = << >> THEN Fail("exited")
     ELSE /\ phase' = "cfg" /\ pos' = 1
          /\ succ' = [b \in DOMAIN bb |-> << >>]
          /\ UNCHANGED <<prog, at, bb, cblock, i, links, todo, done, tags>>

-----------------------------------------------------------------------------
(***************************************************************************)
(* build_cfg, one block at a time.  imap keeps the last block of a name.   *)
(***************************************************************************)
Linking == phase = "cfg" /\ pos <= Len(bb)
Final(b) == prog[Last(bb[b].instrs)]
Called(name) == {b \in DOMAIN bb : bb[b].name = name}
Imap(name) == Max(Called(name))
Insert_nodes(targets) ==
  /\ succ' = [succ EXCEPT ![pos] = targets]
  /\ pos' = pos + 1
  /\ UNCHANGED <<prog, phase, at, bb, cblock, i, links, todo, done, tags>>

\* Mutants: the block before the target is linked; the end of the text is no error.
ConditionalLenient ==
  /\ Linking /\ Final(pos).instr \in conditional_jumps_riscv
  /\ IF Called(Final(pos).op2) = {} THEN Fail("KeyError")
     ELSE IF pos = Len(bb) THEN Insert_nodes(<<Imap(Final(pos).op2)>>)
     ELSE Insert_nodes(<<Imap(Final(pos).op2), pos + 1>>)
ConditionalBefore ==
  /\ Linking /\ Final(pos).instr \in conditional_jumps_riscv
  /\ IF Called(Final(pos).op2) = {} THEN Fail("KeyError")
     ELSE IF pos = Len(bb) THEN Fail("AssertionError")
     ELSE Insert_nodes(<<Max({1, Imap(Final(pos).op2) - 1}), pos + 1>>)
Conditional ==
  /\ Linking /\ Final(pos).instr \in conditional_jumps_riscv
  /\ IF Called(Final(pos).op2) = {} THEN Fail("KeyError")
     ELSE IF pos = Len(bb) THEN Fail("AssertionError")
     ELSE Insert_nodes(<<Imap(Final(pos).op2), pos + 1>>)

\* 'call' ends no block; the jumps but j have no successor.
Unconditional ==
  /\ Linking /\ Final(pos).instr \in unconditional_jumps_riscv
  /\ IF Final(pos).instr # "j" THEN Insert_nodes(<< >>)
     ELSE IF Called(Final(pos).op0) = {} THEN Fail("KeyError")
     ELSE Insert_nodes(<<Imap(Final(pos).op0)>>)

FallThrough ==
  /\ Linking /\ Final(pos).instr \notin block_terminators_riscv
  /\ IF pos = Len(bb) THEN Fail("AssertionError") ELSE Insert_nodes(<<pos + 1>>)

Build_cfg_return ==
  /\ phase = "cfg" /\ pos > Len(bb)
  /\ phase' = "uses" /\ pos' = 1
  /\ UNCHANGED <<prog, at, bb, cblock, i, succ, links, todo, done, tags>>

-----------------------------------------------------------------------------
(***************************************************************************)
(* build_uses_and_defs, and find_uses with its recursion in todo.          *)
(***************************************************************************)
Scanning == phase = "uses" /\ pos <= Len(bb)
Def == bb[pos].instrs[at]
Defines == at <= Len(bb[pos].instrs) /\ prog[Def].instr \in Defining

NoDefinition ==
  /\ Scanning /\ at <= Len(bb[pos].instrs) /\ ~ Defines
  /\ at' = at + 1
  /\ UNCHANGED <<prog, phase, pos, bb, cblock, i, succ, links, todo, done, tags>>
NextBlock ==
  /\ Scanning /\ at > Len(bb[pos].instrs)
  /\ pos' = pos + 1 /\ at' = 1
  /\ UNCHANGED <<prog, phase, bb, cblock, i, succ, links, todo, done, tags>>

Call(b, arg, deep) == [block |-> b, arg |-> arg, deep |-> deep]
\* Mutant: one dictionary serves all the searches.
SearchSharing ==
  /\ Scanning /\ Defines
  /\ phase' = "search"
  /\ todo' = <<Call(pos, at + 1, 0)>>
  /\ UNCHANGED <<prog, pos, at, bb, cblock, i, succ, links, done, tags>>
Search ==
  /\ Scanning /\ Defines
  /\ phase' = "search"
  /\ todo' = <<Call(pos, at + 1, 0)>> /\ done' = << >>
  /\ UNCHANGED <<prog, pos, at, bb, cblock, i, succ, links, tags>>

In(r, operand) == <<r, operand>> \in Mentions
Uses(ins, other) ==
  \/ other.instr \in TwoOperands /\ In(ins.op0, other.op1)
  \/ other.instr \in ThreeOperands /\ (In(ins.op0, other.op1) \/ In(ins.op0, other.op2))
Kills(ins, other) == other.op0 = ins.op0

\* The indexes that the loop of find_uses comes to: up to a line that redefines.
Scanned(call) ==
  LET ls == bb[call.block].instrs IN
  {k \in call.arg .. Len(ls) : \A j \in call.arg .. k - 1 : ~ Kills(prog[Def], prog[ls[j]])}
Goes_on(call) ==
  LET ls == bb[call.block].instrs IN
  \A k \in call.arg .. Len(ls) : ~ Kills(prog[Def], prog[ls[k]])

\* The calls for the successors of a block.
Pushed(call) ==
  [k \in DOMAIN succ[call.block] |-> Call(succ[call.block][k], 1, call.deep + 1)]
TooDeep == Head(todo).deep > MaxDepth
Found(call) ==
  LET ls == bb[call.block].instrs IN
  {<<Def, ls[k]>> : k \in {k \in Scanned(call) : Uses(prog[Def], prog[ls[k]])}}
Searched(call) ==
  /\ links' = links \union Found(call)
  /\ todo' = (IF Goes_on(call) THEN Pushed(call) ELSE << >>) \o Tail(todo)

\* Mutants: the block is not marked; the search goes on behind a redefinition.
Find_usesUnmarked ==
  /\ phase = "search" /\ todo # << >>
  /\ IF TooDeep THEN Fail("RecursionError")
     ELSE /\ Searched(Head(todo))
          /\ UNCHANGED <<prog, phase, pos, at, bb, cblock, i, succ, done, tags>>
Find_usesBeyond ==
  /\ phase = "search" /\ todo # << >>
  /\ LET call == Head(todo)
         name == bb[call.block].name
     IN IF TooDeep THEN Fail("RecursionError")
        ELSE /\ IF name \in Range(done)
                THEN todo' = Tail(todo) /\ UNCHANGED <<links, done>>
                ELSE /\ links' = links \union Found(call)
                     /\ todo' = Pushed(call) \o Tail(todo)
                     /\ done' = Append(done, name)
             /\ UNCHANGED <<prog, phase, pos, at, bb, cblock, i, succ, tags>>
Find_uses ==
  /\ phase = "search" /\ todo # << >>
  /\ LET name == bb[Head(todo).block].name IN
     IF TooDeep THEN Fail("RecursionError")
     ELSE /\ IF name \in Range(done)
             THEN todo' = Tail(todo) /\ UNCHANGED <<links, done>>
             ELSE Searched(Head(todo)) /\ done' = Append(done, name)
          /\ UNCHANGED <<prog, phase, pos, at, bb, cblock, i, succ, tags>>

Find_uses_return ==
  /\ phase = "search" /\ todo = << >>
  /\ phase' = "uses" /\ at' = at + 1
  /\ UNCHANGED <<prog, pos, bb, cblock, i, succ, links, todo, done, tags>>

Build_uses_and_defs_return ==
  /\ phase = "uses" /\ pos > Len(bb)
  /\ phase' = "show"
  /\ UNCHANGED <<prog, pos, at, bb, cblock, i, succ, links, todo, done, tags>>

-----------------------------------------------------------------------------
(***************************************************************************)
(* show splits an operand with parentheses at its '('.                     *)
(* draw_cfg: process_cfg gives every block it reaches a depth; the layout  *)
(* divides by the number of blocks of each depth and looks every arrow's   *)
(* ends up by name.                                                        *)
(***************************************************************************)
Unsplit(ins) == ins.op0 # None /\ ins.op1 # None /\ {ins.op1, ins.op2} \intersect Doubled # {}

Show ==
  /\ phase = "show"
  /\ IF \E l \in DOMAIN prog : Unsplit(prog[l]) THEN Fail("ValueError")
     ELSE /\ phase' = "draw"
          /\ todo' = <<Call(1, 1, 0)>> /\ done' = << >>
          /\ UNCHANGED <<prog, pos, at, bb, cblock, i, succ, links, tags>>

Depths == {d.depth : d \in Range(done)}
Placed == {d.name : d \in Range(done)}

Process_cfg ==
  /\ phase = "draw" /\ todo # << >>
  /\ LET call == Head(todo)
         name == bb[call.block].name
     IN IF TooDeep THEN Fail("RecursionError")
        ELSE /\ IF name \in Placed
                THEN todo' = Tail(todo) /\ UNCHANGED done
                ELSE /\ done' = Append(done, [name |-> name, depth |-> call.deep])
                     /\ todo' = Pushed(call) \o Tail(todo)
             /\ UNCHANGED <<prog, phase, pos, at, bb, cblock, i, succ, links, tags>>

Layout ==
  /\ phase = "draw" /\ todo = << >>
  /\ IF ~ (0 .. Cardinality(Depths) - 1 \subseteq Depths) THEN Fail("ZeroDivisionError")
     ELSE IF \E b \in DOMAIN bb : \E s \in Range(succ[b]) :
               ~ {bb[b].name, bb[s].name} \subseteq Placed THEN Fail("KeyError")
     ELSE Fail("shown")

-----------------------------------------------------------------------------
(***************************************************************************)
(* handle_click: line 1 of the text is the name of the function, and -1    *)
(* is a Python index.                                                      *)
(***************************************************************************)
\* Mutant: the text's lines are counted from 0.
Handle_clickFromZero(line) ==
  LET ln == line - 1
      ins == ln + 1
  IN /\ phase = "shown"
     /\ tags' = IF ln >= Len(prog) THEN NoTags
                ELSE [h0 |-> {l[1] + 1 : l \in {l \in links : l[2] = ins}},
                      h1 |-> {line},
                      h2 |-> {l[2] + 1 : l \in {l \in links : l[1] = ins}}]
     /\ UNCHANGED <<prog, phase, pos, at, bb, cblock, i, succ, links, todo, done>>
Handle_click(line) ==
  LET ln == line - 2
      ins == IF ln = -1 THEN Len(prog) ELSE ln + 1
  IN /\ phase = "shown"
     /\ tags' = IF ln >= Len(prog) THEN NoTags
                ELSE [h0 |-> {l[1] + 1 : l \in {l \in links : l[2] = ins}},
                      h1 |-> {line},
                      h2 |-> {l[2] + 1 : l \in {l \in links : l[1] = ins}}]
     /\ UNCHANGED <<prog, phase, pos, at, bb, cblock, i, succ, links, todo, done>>

Next ==
  \/ Terminator \/ Label \/ Ordinary \/ Get_bb_return
  \/ Conditional \/ Unconditional \/ FallThrough \/ Build_cfg_return
  \/ NoDefinition \/ NextBlock \/ Search \/ Find_uses \/ Find_uses_return
  \/ Build_uses_and_defs_return
  \/ Show \/ Process_cfg \/ Layout
  \/ \E line \in 1 .. Len(prog) + 2 : Handle_click(line)

Spec == Init /\ [][Next]_vars /\ WF_vars(Next)
=============================================================================
