------------------------- MODULE UsesDefsProperties -------------------------
(***************************************************************************)
(* What uses-and-defs should find: the flow of control of the function,    *)
(* and the definitions that reach each use along it.                       *)
(***************************************************************************)
EXTENDS UsesDefs

CONSTANT Reads     \* pairs of a register and an operand that names it

\* An operand that names a register contains its name.
ASSUME ReadsAssumption ==
  /\ Reads \subseteq Mentions /\ \A m \in Mentions : m[2] # None
  /\ \A p \in Programs : \A k \in DOMAIN p : p[k].instr \in TwoOperands => p[k].op2 = None

IsLabel(ins) == ins.op0 = None /\ ins.instr \notin block_terminators_riscv \union {"ret"}
Names(ins, name) == IsLabel(ins) /\ Stem[ins.instr] = name
Code(p) == {l \in DOMAIN p : ~ IsLabel(p[l])}
From(p, line) == {l \in Code(p) : l >= line /\ \A k \in line .. l - 1 : IsLabel(p[k])}
At(p, name) == UNION {From(p, l) : l \in {l \in DOMAIN p : Names(p[l], name)}}

\* The operand of a jump that is its target.
Target(ins) ==
  IF ins.instr = "j" THEN ins.op0 ELSE IF ins.op2 # None THEN ins.op2 ELSE ins.op1

\* Where RISC-V goes from a line, within the function.
Flow(p, line) ==
  LET ins == p[line] IN
  IF ins.instr \in conditional_jumps_riscv THEN At(p, Target(ins)) \union From(p, line + 1)
  ELSE IF ins.instr = "j" THEN At(p, Target(ins))
  ELSE IF ins.instr \in {"jr", "ret"} THEN {} ELSE From(p, line + 1)

\* A call by jal or jalr comes back; the analysis takes it for an exit.
Leaves == {"jal", "jalr", "ecall", "ebreak"}

\* The lines that control comes to from S when it ends at the lines of stops, and
\* the lines that a definition reaches: every line on the way there keeps it.
Onward(p, S, stops) ==
  LET on[n \in Nat] ==
        IF n = 0 THEN S
        ELSE LET T == on[n - 1] IN T \union UNION {Flow(p, l) : l \in T \ stops}
  IN on[Len(p)]

\* What RISC-V writes and reads: a store, a branch and jr read their first operand.
Stores == {"sb", "sh", "sw", "sd", "fsw", "fsd"}
ReadsFirst == Stores \union conditional_jumps_riscv \union {"jr"}
Writes(ins) ==
  ins.op0 # None /\ ins.instr \notin Stores \union block_terminators_riscv \union {"ret"}
Redefines(ins, other) == Writes(other) /\ other.op0 = ins.op0
Reached(p, def) == Onward(p, Flow(p, def), {l \in Code(p) : Redefines(p[def], p[l])})

NamedBy(ins, operand) == <<ins.op0, operand>> \in Reads
Read(ins, other) ==
  \/ NamedBy(ins, other.op1) \/ NamedBy(ins, other.op2)
  \/ other.instr \in ReadsFirst /\ NamedBy(ins, other.op0)

Lines(b) == Range(bb[b].instrs)
Covered == UNION {Lines(b) : b \in DOMAIN bb}

-----------------------------------------------------------------------------
\* Once the blocks and arrows, and once the links are complete: nothing changes
\* them afterwards.
Built == phase = "uses" /\ pos = 1 /\ at = 1
Analysed == phase = "show"
Ended == {"shown", "exited", "KeyError", "AssertionError", "ZeroDivisionError",
          "ValueError", "RecursionError"}

\* main.py can read the function: it has no ret, which the set of jumps misspells,
\* no call, which may write any register of the caller's, and no branch of two
\* operands, whose target is looked for in the third, though README.md lists all
\* three; no label is there twice, and none, nor the target of a jump, has a name
\* that main.py makes up for a block; and no register's name is in an operand that
\* does not name it (s1 in s11).
MadeUp(p) == {"entry"} \union {Numbered(n) : n \in 0 .. Len(p)}
Legible(p) ==
  /\ \A l \in Code(p) :
       /\ p[l].instr \notin {"ret", "retcall", "call"}
       /\ p[l].instr \in conditional_jumps_riscv => p[l].op2 # None
       /\ p[l].instr \in conditional_jumps_riscv \union {"j"} => Target(p[l]) \notin MadeUp(p)
  /\ \A l \in DOMAIN p : IsLabel(p[l]) =>
       /\ Stem[p[l].instr] \notin MadeUp(p)
       /\ \A k \in DOMAIN p : Names(p[k], Stem[p[l].instr]) => k = l
  /\ \A d, u \in Code(p) : Uses(p[d], p[u]) => Read(p[d], p[u])
\* The blocks are the function, cut: every instruction is in one block, in the
\* order of the text, but for those after the last jump or label; control leaves
\* a block at its end only and enters it at its beginning only.
BlocksPartition ==
  Built /\ Legible(prog) =>
    /\ Covered = {l \in Code(prog) : l <= Last(Last(bb).instrs)}
    /\ \A b, c \in DOMAIN bb : b < c => \A x \in Lines(b), y \in Lines(c) : x < y
    /\ \A b \in DOMAIN bb :
         LET ls == bb[b].instrs IN
         /\ \A k \in 1 .. Len(ls) - 1 : ls[k] < ls[k + 1] /\ Flow(prog, ls[k]) = {ls[k + 1]}
         /\ \A l \in Covered : \A k \in 2 .. Len(ls) :
              ls[k] \in Flow(prog, l) => l = ls[k - 1]

\* The arrows between the blocks are the flow of control, calls aside.
FlowAgrees ==
  Built /\ Legible(prog) =>
    \A b \in DOMAIN bb :
      LET end == Last(bb[b].instrs) IN
      {Head(bb[s].instrs) : s \in Range(succ[b])}
        = IF prog[end].instr \in Leaves THEN {} ELSE Flow(prog, end)

\* A link from an instruction that writes a register is right: the use reads the
\* register, and control can come from the one to the other with no write between.
\* It says nothing of the links from an sw: find_uses takes sw for a definition of
\* the register it stores (main.py:107), so a link from one is never right.
LinksSound ==
  Analysed /\ Legible(prog) =>
    \A l \in links : Writes(prog[l[1]]) =>
      Read(prog[l[1]], prog[l[2]]) /\ l[2] \in Reached(prog, l[1])

\* What find_uses can see.  It asks the second operand of six instructions and the
\* second and third of three: not the register that sw and sd store, nor any of
\* slliw, of a branch or of jr.  It stops at a line that has the register first,
\* which a store or a branch only reads.
Asked(ins, other) ==
  \/ other.instr \in TwoOperands /\ NamedBy(ins, other.op1)
  \/ other.instr \in ThreeOperands /\ (NamedBy(ins, other.op1) \/ NamedBy(ins, other.op2))
Unhidden(p, def) == Onward(p, Flow(p, def), {l \in Code(p) : p[l].op0 = p[def].op0})

\* No link is missing from an instruction of its nine that writes a register to a
\* line that reads the register and is reached with no write between, but: to an
\* operand that find_uses does not ask, to a line that every way to comes by a
\* store or branch of the register, and to the definition itself or a line before
\* it in its block, which only a loop reaches.
LinksFound ==
  Analysed /\ Legible(prog) /\ (\A l \in Code(prog) : prog[l].instr \notin Leaves) =>
    \A b \in DOMAIN bb : \A d \in Lines(b) :
      prog[d].instr \in Defining /\ Writes(prog[d]) =>
        \A u \in Reached(prog, d) \intersect Covered :
          Read(prog[d], prog[u]) =>
            \/ <<d, u>> \in links
            \/ ~ Asked(prog[d], prog[u])
            \/ u \notin Unhidden(prog, d)
            \/ u \in Lines(b) /\ u <= d

\* A legible function whose lines are all reached, that is not left by its end, has
\* no label before another, no operand with two '(' and no more blocks than Python
\* recurses is shown: no lookup of a block by its name fails and no row of the
\* drawing is empty.
Fit(p) ==
  /\ Legible(p) /\ Code(p) # {} /\ ~ IsLabel(p[Len(p)])
  /\ Code(p) = Onward(p, {Min(Code(p))}, {})
  /\ \A l \in DOMAIN p : IsLabel(p[l]) /\ l > 1 => ~ IsLabel(p[l - 1])
  /\ \A l \in Code(p) :
       /\ p[l].instr \notin Leaves
       /\ p[l].instr \in conditional_jumps_riscv \union {"j"} => At(p, Target(p[l])) # {}
       /\ p[l].instr \notin {"j", "jr"} => From(p, l + 1) # {}
       /\ ~ Unsplit(p[l])
ReachableIsShown ==
  phase \in Ended /\ Fit(prog) /\ Len(bb) <= MaxDepth => phase = "shown"

\* A function that is shown is shown whole: get_bb drops the lines behind the last
\* jump or label and the first of two labels, but never a line that control comes to.
ShownIsComplete ==
  /\ phase = "shown" /\ Legible(prog) /\ Code(prog) # {}
  /\ \A l \in Code(prog) : prog[l].instr \notin Leaves
  => Onward(prog, {Min(Code(prog))}, {}) \subseteq Covered

\* What a click highlights in green defines something in the line it selects; the
\* line of the name selects the last instruction, a jump, which has no links.
GreenDefines ==
  \A g \in tags.h0 : \E l \in tags.h1 : <<g - 1, l - 1>> \in links

\* Every search ends, cycles of blocks or not, and only a function of more blocks
\* than Python recurses is ended by the limit.
Ends == <>(phase \in Ended /\ (phase = "RecursionError" => Len(bb) > MaxDepth))

=============================================================================
