--------------------------- MODULE UsesDefsProofs ---------------------------
(***************************************************************************)
(* What uses-and-defs promises for every function it can read, proved:     *)
(* the blocks, the arrows, the links and the clicks.                       *)
(***************************************************************************)
EXTENDS UsesDefsProperties, Iteration, SequenceTheorems, TLAPS

NameSet == {"entry"} \union {Numbered(n) : n \in Nat} \union Range(Stem)
Blk == [name : NameSet, instrs : Seq(Nat)]
Phases == {"blocks", "cfg", "uses", "search", "show", "draw"} \union Ended

TypeInv ==
  /\ prog \in Programs /\ phase \in Phases
  /\ pos \in Nat \ {0} /\ at \in Nat \ {0} /\ i \in Nat
  /\ bb \in Seq(Blk) /\ cblock \in Blk

LEMMA ProgramFacts ==
  ASSUME NEW p \in Programs
  PROVE  Len(p) \in Nat /\ DOMAIN p = 1 .. Len(p)
BY UsesDefsAssumption, LenProperties

(***************************************************************************)
(* How get_bb cuts the function p.  A line is dropped if it is a label.    *)
(***************************************************************************)
Jumps(p, l) == p[l].instr \in block_terminators_riscv
Dropped(p, l) == ~ Jumps(p, l) /\ p[l].op0 = None
Gap(p, m, n) == m < n /\ \A l \in m + 1 .. n - 1 : Dropped(p, l)

\* The lines of a block, and of one that is complete.
Piece(p, ls) ==
  /\ Len(ls) >= 1
  /\ \A k \in 1 .. Len(ls) : ls[k] = ls[1] + k - 1 /\ ls[k] \in DOMAIN p /\ ~ Dropped(p, ls[k])
  /\ \A k \in 1 .. Len(ls) - 1 : ~ Jumps(p, ls[k])
Closed(p, ls) ==
  Jumps(p, ls[Len(ls)]) \/ (ls[Len(ls)] < Len(p) /\ Dropped(p, ls[Len(ls)] + 1))
EndOf(B, b) == IF b = 0 THEN 0 ELSE B[b].instrs[Len(B[b].instrs)]
Rising(B) == \A b, c \in 0 .. Len(B) : b < c => EndOf(B, b) < EndOf(B, c)
Cut(p, B) ==
  /\ \A b \in 1 .. Len(B) : /\ Piece(p, B[b].instrs) /\ Closed(p, B[b].instrs)
                            /\ Gap(p, EndOf(B, b - 1), B[b].instrs[1])
  /\ Rising(B)

\* The block being filled, when the next line is n.
Filling(p, end, ls, n) ==
  IF ls = << >> THEN Gap(p, end, n)
  ELSE /\ Piece(p, ls) /\ ~ Jumps(p, ls[Len(ls)])
       /\ Gap(p, end, ls[1]) /\ ls[Len(ls)] = n - 1

\* The name of the block whose first line is h.
NamedAt(p, name, h) ==
  IF h = 1 THEN name = "entry"
  ELSE IF Dropped(p, h - 1) THEN name = Stem[p[h - 1].instr]
  ELSE \E j \in 0 .. Len(p) : name = Numbered(j)
Named(p, B) == \A b \in 1 .. Len(B) : NamedAt(p, B[b].name, B[b].instrs[1])
HeadOf(ls, n) == IF ls = << >> THEN n ELSE ls[1]

\* Names differ, and those of the next blocks will.
Distinct(B) == \A b, c \in 1 .. Len(B) : B[b].name = B[c].name => b = c
Unused(p, name, m) == \A j \in m .. Len(p) : name # Numbered(j)
Fresh(p, B, name, m) ==
  /\ Distinct(B) /\ Unused(p, name, m)
  /\ \A b \in 1 .. Len(B) : B[b].name # name /\ Unused(p, B[b].name, m)

LinesRead == IF phase = "blocks" THEN pos ELSE Len(prog) + 1
CutInv ==
  /\ LinesRead <= Len(prog) + 1 /\ i < LinesRead
  /\ Cut(prog, bb) /\ Named(prog, bb)
  /\ Filling(prog, EndOf(bb, Len(bb)), cblock.instrs, LinesRead)
  /\ NamedAt(prog, cblock.name, HeadOf(cblock.instrs, LinesRead))
  /\ Legible(prog) => Fresh(prog, bb, cblock.name, i)

-----------------------------------------------------------------------------
LEMMA BlockType ==
  ASSUME NEW name \in NameSet
  PROVE  Block(name) \in Blk /\ Block(name).instrs = << >> /\ Block(name).name = name
BY EmptySeq DEF Blk, Block

LEMMA WithType ==
  ASSUME NEW c \in Blk, NEW l \in Nat
  PROVE  /\ With(c, l) \in Blk /\ With(c, l).name = c.name
         /\ With(c, l).instrs = Append(c.instrs, l)
         /\ Len(With(c, l).instrs) = Len(c.instrs) + 1
         /\ With(c, l).instrs[Len(c.instrs) + 1] = l
         /\ \A k \in 1 .. Len(c.instrs) : With(c, l).instrs[k] = c.instrs[k]
<1>1. c.instrs \in Seq(Nat)
  BY DEF Blk
<1>2. Append(c.instrs, l) \in Seq(Nat)
  BY <1>1, AppendProperties
<1>3. With(c, l).instrs = Append(c.instrs, l) /\ With(c, l).name = c.name /\ With(c, l) \in Blk
  BY <1>2 DEF With, Blk
<1> QED
  BY <1>1, <1>3, AppendProperties

\* What get_bb does to bb: it appends a block, or nothing.
LEMMA AppendBlock ==
  ASSUME NEW B \in Seq(Blk), NEW c \in Blk
  PROVE  /\ Append(B, c) \in Seq(Blk) /\ Len(Append(B, c)) = Len(B) + 1
         /\ Append(B, c)[Len(B) + 1] = c /\ Len(B) \in Nat
         /\ \A b \in 1 .. Len(B) : Append(B, c)[b] = B[b]
BY AppendProperties, LenProperties

LEMMA TypeInit == Init => TypeInv
<1> SUFFICES ASSUME Init PROVE TypeInv
  OBVIOUS
<1>1. "entry" \in NameSet
  BY DEF NameSet
<1> QED
  BY <1>1, BlockType, EmptySeq DEF Init, TypeInv, Phases

LEMMA TypeStep == TypeInv /\ [Next]_vars => TypeInv'
<1> SUFFICES ASSUME TypeInv, [Next]_vars PROVE TypeInv'
  OBVIOUS
<1> USE DEF TypeInv
<1>1. CASE UNCHANGED vars
  BY <1>1 DEF vars
<1>2. CASE \/ Get_bb_return \/ Conditional \/ Unconditional \/ FallThrough \/ Build_cfg_return
           \/ NoDefinition \/ NextBlock \/ Search \/ Find_uses \/ Find_uses_return
           \/ Build_uses_and_defs_return \/ Show \/ Process_cfg \/ Layout
           \/ \E line \in 1 .. Len(prog) + 2 : Handle_click(line)
  <2>1. prog' = prog /\ bb' = bb /\ cblock' = cblock /\ i' = i
    BY <1>2 DEF Get_bb_return, Conditional, Unconditional, FallThrough, Build_cfg_return,
       NoDefinition, NextBlock, Search, Find_uses, Find_uses_return,
       Build_uses_and_defs_return, Show, Process_cfg, Layout, Handle_click, Fail, Insert_nodes
  <2>2. phase' \in Phases
    BY <1>2 DEF Get_bb_return, Conditional, Unconditional, FallThrough, Build_cfg_return,
       NoDefinition, NextBlock, Search, Find_uses, Find_uses_return,
       Build_uses_and_defs_return, Show, Process_cfg, Layout, Handle_click, Fail, Insert_nodes,
       Phases, Ended
  <2>3. pos' \in {pos, pos + 1, 1} /\ at' \in {at, at + 1, 1}
    BY <1>2 DEF Get_bb_return, Conditional, Unconditional, FallThrough, Build_cfg_return,
       NoDefinition, NextBlock, Search, Find_uses, Find_uses_return,
       Build_uses_and_defs_return, Show, Process_cfg, Layout, Handle_click, Fail, Insert_nodes
  <2> QED
    BY <2>1, <2>2, <2>3
<1>3. CASE Terminator \/ Label \/ Ordinary
  <2>1. prog' = prog /\ phase' = phase /\ pos' = pos + 1 /\ at' = at /\ i' \in {i, i + 1}
    BY <1>3 DEF Terminator, Label, Ordinary, NextLine
  <2>2. pos \in DOMAIN prog
    BY <1>3, ProgramFacts DEF Terminator, Label, Ordinary, Reading
  <2>3. With(cblock, pos) \in Blk
    BY WithType
  <2>4. Block(Numbered(i)) \in Blk
    BY BlockType DEF NameSet
  <2>5. Line.op0 = None => Block(Stem[Line.instr]) \in Blk
    BY <2>2, BlockType, UsesDefsAssumption DEF NameSet, Range, Line
  <2>6. cblock' \in Blk
    BY <1>3, <2>3, <2>4, <2>5 DEF Terminator, Label, Ordinary
  <2>7. bb' \in {bb, Append(bb, cblock), Append(bb, With(cblock, pos))}
    BY <1>3 DEF Terminator, Label, Ordinary
  <2>8. bb' \in Seq(Blk)
    BY <2>3, <2>7, AppendBlock
  <2> QED
    BY <2>1, <2>6, <2>8
<1> QED
  BY <1>1, <1>2, <1>3 DEF Next

-----------------------------------------------------------------------------
(***************************************************************************)
(* get_bb.                                                                 *)
(***************************************************************************)
LEMMA PieceGrows ==
  ASSUME NEW p \in Programs, NEW c \in Blk, NEW n \in 1 .. Len(p), NEW end \in Nat,
         Filling(p, end, c.instrs, n), ~ Dropped(p, n)
  PROVE  LET ls == With(c, n).instrs IN
         /\ Piece(p, ls) /\ ls[Len(ls)] = n /\ Len(ls) >= 1 /\ ls # << >>
         /\ Gap(p, end, ls[1]) /\ ls[1] = HeadOf(c.instrs, n)
<1> DEFINE ls == With(c, n).instrs
           m == Len(c.instrs)
<1>1. c.instrs \in Seq(Nat) /\ m \in Nat /\ n \in Nat /\ n \in DOMAIN p
  BY ProgramFacts, LenProperties DEF Blk
<1>2. /\ Len(ls) = m + 1 /\ ls[m + 1] = n
      /\ \A k \in 1 .. m : ls[k] = c.instrs[k]
  BY <1>1, WithType
<1> HIDE DEF ls
<1>3. CASE c.instrs = << >>
  <2>1. m = 0 /\ Gap(p, end, n)
    BY <1>3 DEF Filling
  <2>2. Len(ls) = 1 /\ ls[1] = n
    BY <1>2, <2>1
  <2>3. Piece(p, ls)
    BY <1>1, <2>2 DEF Piece
  <2> QED
    BY <1>3, <2>1, <2>2, <2>3 DEF HeadOf, ls
<1>4. CASE c.instrs # << >>
  <2>1. /\ Piece(p, c.instrs) /\ ~ Jumps(p, c.instrs[m]) /\ Gap(p, end, c.instrs[1])
        /\ c.instrs[m] = n - 1
    BY <1>4 DEF Filling
  <2>2. m >= 1 /\ ls[1] = c.instrs[1]
    BY <1>1, <1>2, <2>1 DEF Piece
  <2>3. n - 1 = c.instrs[1] + m - 1 /\ c.instrs[1] \in Nat
    <3>1. m \in 1 .. m /\ 1 \in 1 .. m
      BY <1>1, <2>2
    <3>2. c.instrs[m] = c.instrs[1] + m - 1
      BY <2>1, <3>1 DEF Piece
    <3>3. c.instrs[1] \in Nat
      BY <1>1, <3>1, ElementOfSeq
    <3> QED
      BY <2>1, <3>2, <3>3
  <2>4. \A k \in 1 .. m : ls[k] = ls[1] + k - 1 /\ ls[k] \in DOMAIN p /\ ~ Dropped(p, ls[k])
    BY <1>2, <2>1, <2>2 DEF Piece
  <2>5. \A k \in 1 .. m : ~ Jumps(p, ls[k])
    <3>1. \A k \in 1 .. m : k \in 1 .. m - 1 \/ k = m
      BY <1>1
    <3>2. \A k \in 1 .. m - 1 : ~ Jumps(p, c.instrs[k])
      BY <2>1 DEF Piece
    <3> QED
      BY <1>2, <2>1, <3>1, <3>2
  <2>6. ls[m + 1] = ls[1] + (m + 1) - 1
    BY <1>1, <1>2, <2>2, <2>3
  <2>7. Piece(p, ls)
    <3>1. \A k \in 1 .. Len(ls) : k \in 1 .. m \/ k = m + 1
      BY <1>1, <1>2
    <3>2. \A k \in 1 .. Len(ls) : ls[k] = ls[1] + k - 1 /\ ls[k] \in DOMAIN p /\ ~ Dropped(p, ls[k])
      BY <1>1, <1>2, <2>4, <2>6, <3>1
    <3>3. 1 .. Len(ls) - 1 = 1 .. m
      BY <1>1, <1>2
    <3> QED
      BY <1>1, <1>2, <2>5, <3>2, <3>3 DEF Piece
  <2> QED
    BY <1>1, <1>2, <1>4, <2>1, <2>2, <2>7 DEF HeadOf, ls
<1> QED
  BY <1>3, <1>4

LEMMA PieceFacts ==
  ASSUME NEW p \in Programs, NEW ls \in Seq(Nat), Piece(p, ls)
  PROVE  /\ Len(ls) \in Nat /\ Len(ls) >= 1
         /\ \A k \in 1 .. Len(ls) : ls[k] = ls[1] + k - 1 /\ ls[k] \in 1 .. Len(p)
         /\ \A k \in 1 .. Len(ls) : ls[1] <= ls[k] /\ ls[k] <= ls[Len(ls)]
         /\ ls[1] \in Nat /\ ls[Len(ls)] \in Nat
<1>1. Len(ls) \in Nat /\ Len(ls) >= 1 /\ 1 \in 1 .. Len(ls) /\ Len(ls) \in 1 .. Len(ls)
  BY LenProperties DEF Piece
<1>2. Len(p) \in Nat /\ DOMAIN p = 1 .. Len(p)
  BY ProgramFacts
<1>3. \A k \in 1 .. Len(ls) : ls[k] = ls[1] + k - 1 /\ ls[k] \in 1 .. Len(p)
  BY <1>2 DEF Piece
<1>4. ls[1] \in 1 .. Len(p) /\ ls[Len(ls)] = ls[1] + Len(ls) - 1
  BY <1>1, <1>3
<1>5. ls[1] \in Nat
  BY <1>2, <1>4
<1> QED
  BY <1>1, <1>3, <1>4, <1>5

(* The first and the last line of a piece, for lists that are not a name. *)
LEMMA PieceEnds ==
  \A p \in Programs : \A ls \in Seq(Nat) : Piece(p, ls) =>
    ls[1] <= ls[Len(ls)] /\ ls[1] \in Nat /\ ls[Len(ls)] \in Nat
<1> SUFFICES ASSUME NEW p \in Programs, NEW ls \in Seq(Nat), Piece(p, ls)
             PROVE  ls[1] <= ls[Len(ls)] /\ ls[1] \in Nat /\ ls[Len(ls)] \in Nat
  OBVIOUS
<1>1. Len(ls) \in 1 .. Len(ls)
  BY PieceFacts
<1> QED
  BY <1>1, PieceFacts

LEMMA BlockLines ==
  ASSUME NEW p \in Programs, NEW B \in Seq(Blk), Cut(p, B), NEW b \in 1 .. Len(B)
  PROVE  /\ B[b].instrs \in Seq(Nat) /\ Piece(p, B[b].instrs)
         /\ EndOf(B, b) = B[b].instrs[Len(B[b].instrs)]
         /\ EndOf(B, b) \in Nat /\ EndOf(B, b) \in 1 .. Len(p)
<1>1. B[b] \in Blk
  BY ElementOfSeq
<1>2. B[b].instrs \in Seq(Nat) /\ Piece(p, B[b].instrs)
  BY <1>1 DEF Blk, Cut
<1>3. Len(B) \in Nat /\ b # 0
  BY LenProperties
<1>4. EndOf(B, b) = B[b].instrs[Len(B[b].instrs)]
  BY <1>3 DEF EndOf
<1> QED
  BY <1>2, <1>4, PieceFacts

LEMMA EndIsLine ==
  ASSUME NEW p \in Programs, NEW B \in Seq(Blk), Cut(p, B)
  PROVE  \A b \in 0 .. Len(B) : EndOf(B, b) \in Nat /\ EndOf(B, b) <= EndOf(B, Len(B))
<1>1. Len(B) \in Nat
  BY LenProperties
<1>2. ASSUME NEW b \in 0 .. Len(B)
      PROVE  EndOf(B, b) \in Nat
  <2>1. b = 0 \/ b \in 1 .. Len(B)
    BY <1>1
  <2>2. EndOf(B, 0) = 0
    BY DEF EndOf
  <2> QED
    BY <2>1, <2>2, BlockLines
<1>3. ASSUME NEW b \in 0 .. Len(B)
      PROVE  EndOf(B, b) <= EndOf(B, Len(B))
  <2>1. Len(B) \in 0 .. Len(B) /\ (b < Len(B) \/ b = Len(B))
    BY <1>1
  <2>2. b < Len(B) => EndOf(B, b) < EndOf(B, Len(B))
    BY <2>1 DEF Cut, Rising
  <2>3. EndOf(B, b) \in Nat /\ EndOf(B, Len(B)) \in Nat
    BY <1>2, <2>1
  <2> QED
    BY <2>1, <2>2, <2>3
<1> QED
  BY <1>2, <1>3

LEMMA CutAppend ==
  ASSUME NEW p \in Programs, NEW B \in Seq(Blk), NEW c \in Blk, Cut(p, B), Piece(p, c.instrs),
         Closed(p, c.instrs), Gap(p, EndOf(B, Len(B)), c.instrs[1])
  PROVE  /\ Cut(p, Append(B, c))
         /\ EndOf(Append(B, c), Len(Append(B, c))) = c.instrs[Len(c.instrs)]
<1> DEFINE C == Append(B, c)
<1>1. /\ Len(C) = Len(B) + 1 /\ C[Len(B) + 1] = c /\ Len(B) \in Nat
      /\ \A b \in 1 .. Len(B) : C[b] = B[b]
  BY AppendBlock
<1> HIDE DEF C
<1>2. EndOf(C, Len(C)) = c.instrs[Len(c.instrs)]
  BY <1>1 DEF EndOf
<1>3. \A b \in 0 .. Len(B) : EndOf(C, b) = EndOf(B, b)
  BY <1>1 DEF EndOf
<1>4. ASSUME NEW b \in 1 .. Len(C)
      PROVE  /\ Piece(p, C[b].instrs) /\ Closed(p, C[b].instrs)
             /\ Gap(p, EndOf(C, b - 1), C[b].instrs[1])
  <2>1. CASE b \in 1 .. Len(B)
    <3>1. b - 1 \in 0 .. Len(B)
      BY <2>1, <1>1
    <3> QED
      BY <1>1, <1>3, <2>1, <3>1 DEF Cut
  <2>2. CASE b = Len(B) + 1
    <3>1. b - 1 = Len(B) /\ b - 1 \in 0 .. Len(B)
      BY <2>2, <1>1
    <3> QED
      BY <1>1, <1>3, <2>2, <3>1
  <2> QED
    BY <1>1, <2>1, <2>2
<1>5. \A b \in 0 .. Len(B) : EndOf(B, b) \in Nat /\ EndOf(B, b) < EndOf(C, Len(C))
  <2>1. c.instrs \in Seq(Nat)
    BY DEF Blk
  <2>2. c.instrs[1] <= c.instrs[Len(c.instrs)] /\ c.instrs[1] \in Nat
        /\ c.instrs[Len(c.instrs)] \in Nat
    BY <2>1, PieceFacts
  <2>3. EndOf(B, Len(B)) < c.instrs[1]
    BY DEF Gap
  <2>4. \A b \in 0 .. Len(B) : EndOf(B, b) \in Nat /\ EndOf(B, b) <= EndOf(B, Len(B))
    BY EndIsLine
  <2>5. EndOf(B, Len(B)) \in Nat
    BY <1>1, <2>4
  <2> QED
    BY <1>2, <2>2, <2>3, <2>4, <2>5
<1>6. ASSUME NEW a \in 0 .. Len(C), NEW b \in 0 .. Len(C), a < b
      PROVE  EndOf(C, a) < EndOf(C, b)
  <2>1. a \in 0 .. Len(B) /\ (b \in 0 .. Len(B) \/ b = Len(C))
    BY <1>1, <1>6
  <2>2. b \in 0 .. Len(B) => EndOf(B, a) < EndOf(B, b)
    BY <1>6, <2>1 DEF Cut, Rising
  <2> QED
    BY <1>3, <1>5, <2>1, <2>2
<1> QED
  BY <1>2, <1>4, <1>6 DEF Cut, Rising, C

LEMMA NamedAppend ==
  ASSUME NEW p, NEW B \in Seq(Blk), NEW c \in Blk, Named(p, B),
         NamedAt(p, c.name, c.instrs[1])
  PROVE  Named(p, Append(B, c))
<1> DEFINE C == Append(B, c)
<1>1. /\ Len(C) = Len(B) + 1 /\ C[Len(B) + 1] = c /\ Len(B) \in Nat
      /\ \A b \in 1 .. Len(B) : C[b] = B[b]
  BY AppendBlock
<1> HIDE DEF C
<1>2. ASSUME NEW b \in 1 .. Len(C)
      PROVE  NamedAt(p, C[b].name, C[b].instrs[1])
  <2>1. b \in 1 .. Len(B) \/ b = Len(B) + 1
    BY <1>1
  <2> QED
    BY <1>1, <2>1 DEF Named
<1> QED
  BY <1>2 DEF Named, C

LEMMA FreshAppend ==
  ASSUME NEW p \in Programs, NEW B \in Seq(Blk), NEW c \in Blk, NEW m \in Nat, NEW k \in Nat,
         Fresh(p, B, c.name, m), k >= m,
         NEW name, Unused(p, name, k), name # c.name,
         \A b \in 1 .. Len(B) : B[b].name # name
  PROVE  Fresh(p, Append(B, c), name, k)
<1> DEFINE C == Append(B, c)
<1>1. /\ Len(C) = Len(B) + 1 /\ C[Len(B) + 1] = c /\ Len(B) \in Nat
      /\ \A b \in 1 .. Len(B) : C[b] = B[b]
  BY AppendBlock
<1>2. Len(p) \in Nat
  BY ProgramFacts
<1> HIDE DEF C
<1>3. \A b \in 1 .. Len(C) : b \in 1 .. Len(B) \/ b = Len(B) + 1
  BY <1>1
<1>4. ASSUME NEW a \in 1 .. Len(C), NEW b \in 1 .. Len(C), C[a].name = C[b].name
      PROVE  a = b
  BY <1>1, <1>3, <1>4 DEF Fresh, Distinct
<1>5. \A n : Unused(p, n, m) => Unused(p, n, k)
  BY <1>2 DEF Unused
<1>6. \A b \in 1 .. Len(C) : C[b].name # name /\ Unused(p, C[b].name, k)
  BY <1>1, <1>3, <1>5 DEF Fresh
<1> QED
  BY <1>4, <1>6 DEF Fresh, Distinct, C

\* A line is dropped just if it is a label, in a function that can be read.
LEMMA DroppedIsLabel ==
  ASSUME NEW p, Legible(p), NEW l \in DOMAIN p
  PROVE  Dropped(p, l) <=> IsLabel(p[l])
<1>1. p[l].instr = "ret" => ~ IsLabel(p[l])
  BY DEF IsLabel
<1>2. p[l].instr # "ret" \/ IsLabel(p[l])
  BY DEF Legible, Code
<1> QED
  BY <1>1, <1>2 DEF Dropped, Jumps, IsLabel

\* A label's name is none of the names given before it.
LEMMA StemsAreNew ==
  ASSUME NEW p \in Programs, Legible(p), NEW n \in 1 .. Len(p), Dropped(p, n)
  PROVE  /\ Unused(p, Stem[p[n].instr], 0)
         /\ \A name : \A h \in 1 .. n : NamedAt(p, name, h) => name # Stem[p[n].instr]
<1>1. DOMAIN p = 1 .. Len(p) /\ Len(p) \in Nat
  BY ProgramFacts
<1>2. IsLabel(p[n])
  BY <1>1, DroppedIsLabel
<1>3. Stem[p[n].instr] \notin MadeUp(p)
  BY <1>1, <1>2 DEF Legible
<1>4. Unused(p, Stem[p[n].instr], 0)
  BY <1>3 DEF Unused, MadeUp
<1>5. ASSUME NEW name, NEW h \in 1 .. n, NamedAt(p, name, h), name = Stem[p[n].instr]
      PROVE  FALSE
  <2>1. CASE h = 1
    BY <1>3, <1>5, <2>1 DEF NamedAt, MadeUp
  <2>2. CASE h # 1 /\ Dropped(p, h - 1)
    <3>1. h - 1 \in DOMAIN p /\ h - 1 # n
      BY <1>1, <2>2
    <3>2. Names(p[h - 1], Stem[p[n].instr])
      BY <1>5, <2>2, <3>1, DroppedIsLabel DEF NamedAt, Names
    <3> QED
      BY <1>1, <1>2, <3>1, <3>2 DEF Legible
  <2>3. CASE h # 1 /\ ~ Dropped(p, h - 1)
    BY <1>3, <1>5, <2>3 DEF NamedAt, MadeUp
  <2> QED
    BY <2>1, <2>2, <2>3
<1> QED
  BY <1>4, <1>5

LEMMA CutInit == Init => CutInv
<1> SUFFICES ASSUME Init PROVE CutInv
  OBVIOUS
<1>1. /\ bb = << >> /\ cblock.instrs = << >> /\ cblock.name = "entry" /\ i = 0 /\ LinesRead = 1
      /\ prog \in Programs
  BY DEF Init, Block, LinesRead
<1>2. Len(prog) \in Nat /\ Len(bb) = 0
  BY <1>1, ProgramFacts
<1>3. Cut(prog, bb) /\ Named(prog, bb) /\ EndOf(bb, Len(bb)) = 0
  BY <1>1, <1>2 DEF Cut, Rising, Named, EndOf
<1>4. Filling(prog, 0, << >>, 1)
  BY DEF Filling, Gap
<1>5. NamedAt(prog, "entry", 1)
  BY DEF NamedAt
<1>6. Fresh(prog, bb, "entry", 0)
  BY <1>1, <1>2, UsesDefsAssumption DEF Fresh, Distinct, Unused
<1> QED
  BY <1>1, <1>2, <1>3, <1>4, <1>5, <1>6 DEF CutInv, HeadOf

LEMMA CutTerminator == TypeInv /\ CutInv /\ Terminator => CutInv'
<1> SUFFICES ASSUME TypeInv, CutInv, Terminator PROVE CutInv'
  OBVIOUS
<1> DEFINE p == prog
           c == With(cblock, pos)
           name == Numbered(i)
<1>1. /\ phase = "blocks" /\ phase' = "blocks" /\ p' = p /\ pos' = pos + 1 /\ i' = i + 1
      /\ bb' = Append(bb, c) /\ cblock' = Block(name) /\ Jumps(p, pos) /\ pos <= Len(p)
  BY DEF Terminator, Reading, NextLine, Line, Jumps
<1>2. p \in Programs /\ pos \in 1 .. Len(p) /\ Len(p) \in Nat /\ bb \in Seq(Blk) /\ cblock \in Blk
  BY <1>1, ProgramFacts DEF TypeInv
<1>3. LinesRead = pos /\ LinesRead' = pos + 1 /\ i \in Nat /\ i < pos /\ i \in 0 .. Len(p)
  BY <1>1, <1>2 DEF LinesRead, CutInv, TypeInv
<1>4. c \in Blk /\ c.name = cblock.name
  BY <1>2, WithType
<1>5. Len(bb) \in Nat /\ EndOf(bb, Len(bb)) \in Nat
  BY <1>2, EndIsLine, LenProperties DEF CutInv
<1>6. /\ Piece(p, c.instrs) /\ c.instrs[Len(c.instrs)] = pos
      /\ Gap(p, EndOf(bb, Len(bb)), c.instrs[1]) /\ c.instrs[1] = HeadOf(cblock.instrs, pos)
  BY <1>1, <1>2, <1>3, <1>5, PieceGrows DEF CutInv, Dropped
<1>7. Closed(p, c.instrs)
  BY <1>1, <1>6 DEF Closed
<1>8. Cut(p, bb') /\ EndOf(bb', Len(bb')) = pos
  BY <1>1, <1>2, <1>4, <1>6, <1>7, CutAppend DEF CutInv
<1>9. Named(p, bb')
  BY <1>1, <1>2, <1>3, <1>4, <1>6, NamedAppend DEF CutInv
<1>10. cblock'.instrs = << >> /\ cblock'.name = name
  BY <1>1 DEF Block
<1>11. Filling(p, pos, << >>, pos + 1)
  BY <1>2 DEF Filling, Gap
<1>12. NamedAt(p, name, pos + 1)
  BY <1>1, <1>2, <1>3 DEF NamedAt, Dropped
<1>13. ASSUME Legible(p)
       PROVE  Fresh(p, bb', name, i + 1)
  <2>1. Fresh(p, bb, c.name, i)
    BY <1>4, <1>13 DEF CutInv
  <2>2. Unused(p, name, i + 1)
    BY <1>2, <1>3, UsesDefsAssumption DEF Unused
  <2>3. name # c.name /\ \A b \in 1 .. Len(bb) : bb[b].name # name
    BY <1>2, <1>3, <2>1 DEF Fresh, Unused
  <2> HIDE DEF c, name
  <2> QED
    BY <1>1, <1>2, <1>3, <1>4, <2>1, <2>2, <2>3, FreshAppend
<1>14. CutInv'
  <2> HIDE DEF name, c
  <2>1. LinesRead' <= Len(prog') + 1 /\ i' < LinesRead'
    BY <1>1, <1>2, <1>3
  <2>2. HeadOf(cblock'.instrs, LinesRead') = pos + 1
    BY <1>3, <1>10 DEF HeadOf
  <2>3. NamedAt(prog', cblock'.name, HeadOf(cblock'.instrs, LinesRead'))
    BY <1>1, <1>10, <1>12, <2>2
  <2>4. Filling(prog', EndOf(bb', Len(bb')), cblock'.instrs, LinesRead')
    BY <1>1, <1>3, <1>8, <1>10, <1>11
  <2>5. Legible(prog') => Fresh(prog', bb', cblock'.name, i')
    BY <1>1, <1>10, <1>13
  <2>6. Cut(prog', bb') /\ Named(prog', bb')
    BY <1>1, <1>8, <1>9
  <2> QED
    BY <2>1, <2>3, <2>4, <2>5, <2>6 DEF CutInv
<1> QED
  BY <1>14

LEMMA CutLabel == TypeInv /\ CutInv /\ Label => CutInv'
<1> SUFFICES ASSUME TypeInv, CutInv, Label PROVE CutInv'
  OBVIOUS
<1> DEFINE p == prog
           c == cblock
           n == pos
           name == Stem[p[pos].instr]
<1>1. /\ phase = "blocks" /\ phase' = "blocks" /\ p' = p /\ pos' = n + 1 /\ i' = i
      /\ cblock' = Block(name) /\ Dropped(p, n) /\ n <= Len(p)
      /\ bb' = IF c.instrs = << >> THEN bb ELSE Append(bb, c)
  BY DEF Label, Reading, NextLine, Line, Dropped, Jumps
<1>2. p \in Programs /\ n \in 1 .. Len(p) /\ Len(p) \in Nat /\ bb \in Seq(Blk) /\ c \in Blk
  BY <1>1, ProgramFacts DEF TypeInv
<1>3. LinesRead = n /\ LinesRead' = n + 1 /\ i \in Nat /\ i < n /\ n \in Nat
  BY <1>1, <1>2 DEF LinesRead, CutInv, TypeInv
<1>4. Len(bb) \in Nat /\ \A b \in 0 .. Len(bb) : EndOf(bb, b) \in Nat /\ EndOf(bb, b) <= EndOf(bb, Len(bb))
  BY <1>2, EndIsLine, LenProperties DEF CutInv
<1>5. Filling(p, EndOf(bb, Len(bb)), c.instrs, n) /\ Cut(p, bb) /\ Named(p, bb)
      /\ NamedAt(p, c.name, HeadOf(c.instrs, n))
  BY <1>3 DEF CutInv
<1>6. EndOf(bb, Len(bb)) < n /\ HeadOf(c.instrs, n) \in 1 .. n
  <2>1. EndOf(bb, Len(bb)) \in Nat
    BY <1>4
  <2>2. CASE c.instrs = << >>
    BY <1>2, <1>5, <2>2 DEF Filling, Gap, HeadOf
  <2>3. CASE c.instrs # << >>
    <3>1. Piece(p, c.instrs) /\ EndOf(bb, Len(bb)) < c.instrs[1] /\ c.instrs[Len(c.instrs)] = n - 1
      BY <1>5, <2>3 DEF Filling, Gap
    <3>2. c.instrs \in Seq(Nat)
      BY <1>2 DEF Blk
    <3> HIDE DEF p, c, n
    <3>3. /\ c.instrs[1] <= c.instrs[Len(c.instrs)] /\ c.instrs[1] \in Nat
          /\ c.instrs[Len(c.instrs)] \in Nat
      <4>1. p \in Programs /\ c.instrs \in Seq(Nat) /\ Piece(p, c.instrs)
        BY <1>2, <3>1, <3>2
      <4> QED
        BY ONLY <4>1, PieceEnds
    <3> QED
      BY <1>3, <2>1, <2>3, <3>1, <3>3 DEF HeadOf
  <2> QED
    BY <2>2, <2>3
<1>7. cblock'.instrs = << >> /\ cblock'.name = name
  BY <1>1 DEF Block
<1>8. /\ Cut(p, bb') /\ Named(p, bb')
      /\ Filling(p, EndOf(bb', Len(bb')), << >>, n + 1)
  <2>1. CASE c.instrs = << >>
    <3>1. bb' = bb /\ Gap(p, EndOf(bb, Len(bb)), n)
      BY <1>1, <1>5, <2>1 DEF Filling
    <3>2. Gap(p, EndOf(bb, Len(bb)), n + 1)
      BY <1>1, <1>3, <1>4, <3>1 DEF Gap
    <3> QED
      BY <1>5, <3>1, <3>2 DEF Filling
  <2>2. CASE c.instrs # << >>
    <3>1. /\ bb' = Append(bb, c) /\ Piece(p, c.instrs) /\ Gap(p, EndOf(bb, Len(bb)), c.instrs[1])
          /\ c.instrs[Len(c.instrs)] = n - 1
      BY <1>1, <1>5, <2>2 DEF Filling
    <3>2. Closed(p, c.instrs)
      BY <1>1, <1>2, <1>3, <3>1 DEF Closed
    <3>3. Cut(p, bb') /\ EndOf(bb', Len(bb')) = n - 1
      BY <1>2, <1>5, <3>1, <3>2, CutAppend
    <3>4. Named(p, bb')
      BY <1>2, <1>5, <2>2, <3>1, NamedAppend DEF HeadOf
    <3>5. Gap(p, n - 1, n + 1)
      BY <1>1, <1>3 DEF Gap
    <3> QED
      BY <3>3, <3>4, <3>5 DEF Filling
  <2> QED
    BY <2>1, <2>2
<1>9. NamedAt(p, name, n + 1)
  BY <1>1, <1>3 DEF NamedAt
<1>10. ASSUME Legible(p)
       PROVE  Fresh(p, bb', name, i)
  <2>1. Fresh(p, bb, c.name, i)
    BY <1>10 DEF CutInv
  <2>2. Unused(p, name, 0) /\ \A x : \A h \in 1 .. n : NamedAt(p, x, h) => x # name
    BY <1>1, <1>2, <1>10, StemsAreNew
  <2>3. Unused(p, name, i)
    BY <1>3, <2>2 DEF Unused
  <2>4. c.name # name
    BY <1>5, <1>6, <2>2
  <2>5. ASSUME NEW b \in 1 .. Len(bb)
        PROVE  bb[b].name # name
    <3>1. /\ bb[b].instrs \in Seq(Nat) /\ Piece(p, bb[b].instrs)
          /\ EndOf(bb, b) = bb[b].instrs[Len(bb[b].instrs)]
      BY <1>2, <1>5, BlockLines
    <3>2. /\ bb[b].instrs[1] <= EndOf(bb, b) /\ bb[b].instrs[1] \in 1 .. Len(p)
      BY <1>2, <3>1, PieceFacts
    <3>3. EndOf(bb, b) <= EndOf(bb, Len(bb)) /\ EndOf(bb, b) \in Nat /\ EndOf(bb, Len(bb)) \in Nat
      BY <1>4
    <3>4. bb[b].instrs[1] \in 1 .. n
      BY <1>3, <1>6, <3>2, <3>3
    <3> QED
      BY <1>5, <2>2, <3>4 DEF Named
  <2> HIDE DEF c, name
  <2>6. CASE c.instrs = << >>
    BY <1>1, <2>1, <2>3, <2>5, <2>6 DEF Fresh
  <2>7. CASE c.instrs # << >>
    BY <1>1, <1>2, <1>3, <2>1, <2>3, <2>4, <2>5, <2>7, FreshAppend
  <2> QED
    BY <2>6, <2>7
<1> HIDE DEF name, c
<1>11. LinesRead' <= Len(prog') + 1 /\ i' < LinesRead'
  BY <1>1, <1>2, <1>3
<1>12. HeadOf(cblock'.instrs, LinesRead') = n + 1
  BY <1>3, <1>7 DEF HeadOf
<1>13. NamedAt(prog', cblock'.name, HeadOf(cblock'.instrs, LinesRead'))
  BY <1>1, <1>7, <1>9, <1>12
<1>14. Filling(prog', EndOf(bb', Len(bb')), cblock'.instrs, LinesRead')
  BY <1>1, <1>3, <1>7, <1>8
<1>15. Legible(prog') => Fresh(prog', bb', cblock'.name, i')
  BY <1>1, <1>7, <1>10
<1>16. Cut(prog', bb') /\ Named(prog', bb')
  BY <1>1, <1>8
<1> QED
  BY <1>11, <1>13, <1>14, <1>15, <1>16 DEF CutInv

LEMMA CutOrdinary == TypeInv /\ CutInv /\ Ordinary => CutInv'
<1> SUFFICES ASSUME TypeInv, CutInv, Ordinary PROVE CutInv'
  OBVIOUS
<1> DEFINE p == prog
           c == With(cblock, pos)
<1>1. /\ phase = "blocks" /\ phase' = "blocks" /\ p' = p /\ pos' = pos + 1 /\ i' = i
      /\ bb' = bb /\ cblock' = c /\ ~ Jumps(p, pos) /\ ~ Dropped(p, pos) /\ pos <= Len(p)
  BY DEF Ordinary, Reading, NextLine, Line, Dropped, Jumps
<1>2. p \in Programs /\ pos \in 1 .. Len(p) /\ Len(p) \in Nat /\ bb \in Seq(Blk) /\ cblock \in Blk
  BY <1>1, ProgramFacts DEF TypeInv
<1>3. LinesRead = pos /\ LinesRead' = pos + 1 /\ i \in Nat /\ i < pos
  BY <1>1, <1>2 DEF LinesRead, CutInv, TypeInv
<1>4. c.name = cblock.name
  BY <1>2, WithType
<1>5. EndOf(bb, Len(bb)) \in Nat
  BY <1>2, EndIsLine, LenProperties DEF CutInv
<1>6. /\ Piece(p, c.instrs) /\ c.instrs[Len(c.instrs)] = pos /\ c.instrs # << >>
      /\ Gap(p, EndOf(bb, Len(bb)), c.instrs[1]) /\ c.instrs[1] = HeadOf(cblock.instrs, pos)
  BY <1>1, <1>2, <1>3, <1>5, PieceGrows DEF CutInv
<1> HIDE DEF c
<1>7. Filling(p, EndOf(bb, Len(bb)), c.instrs, pos + 1)
  BY <1>1, <1>2, <1>6 DEF Filling
<1>8. NamedAt(p, c.name, HeadOf(c.instrs, pos + 1))
  BY <1>3, <1>4, <1>6 DEF HeadOf, CutInv
<1>9. Cut(p, bb) /\ Named(p, bb) /\ (Legible(p) => Fresh(p, bb, c.name, i))
  BY <1>4 DEF CutInv
<1>10. LinesRead' <= Len(p) + 1 /\ i < LinesRead'
  BY <1>1, <1>2, <1>3
<1> QED
  BY <1>1, <1>3, <1>7, <1>8, <1>9, <1>10 DEF CutInv

LEMMA CutStep == TypeInv /\ CutInv /\ [Next]_vars => CutInv'
<1> SUFFICES ASSUME TypeInv, CutInv, [Next]_vars PROVE CutInv'
  OBVIOUS
<1>1. CASE \/ UNCHANGED vars
           \/ Get_bb_return \/ Conditional \/ Unconditional \/ FallThrough \/ Build_cfg_return
           \/ NoDefinition \/ NextBlock \/ Search \/ Find_uses \/ Find_uses_return
           \/ Build_uses_and_defs_return \/ Show \/ Process_cfg \/ Layout
           \/ \E line \in 1 .. Len(prog) + 2 : Handle_click(line)
  <2>1. prog' = prog /\ bb' = bb /\ cblock' = cblock /\ i' = i
    BY <1>1 DEF Get_bb_return, Conditional, Unconditional, FallThrough, Build_cfg_return,
       NoDefinition, NextBlock, Search, Find_uses, Find_uses_return,
       Build_uses_and_defs_return, Show, Process_cfg, Layout, Handle_click, Fail, Insert_nodes, vars
  <2>2. LinesRead' = LinesRead
    <3>1. CASE UNCHANGED vars
      BY <3>1 DEF vars, LinesRead
    <3>2. CASE Get_bb_return
      <4>1. phase = "blocks" /\ pos > Len(prog) /\ phase' \in {"cfg", "exited"}
        BY <3>2 DEF Get_bb_return, Fail
      <4>2. pos <= Len(prog) + 1 /\ pos \in Nat /\ Len(prog) \in Nat
        BY <4>1, ProgramFacts DEF CutInv, LinesRead, TypeInv
      <4> QED
        BY <2>1, <4>1, <4>2 DEF LinesRead
    <3>3. CASE \/ Conditional \/ Unconditional \/ FallThrough \/ Build_cfg_return
               \/ NoDefinition \/ NextBlock \/ Search \/ Find_uses \/ Find_uses_return
               \/ Build_uses_and_defs_return \/ Show \/ Process_cfg \/ Layout
               \/ \E line \in 1 .. Len(prog) + 2 : Handle_click(line)
      <4>1. phase # "blocks" /\ phase' # "blocks"
        BY <3>3 DEF Conditional, Unconditional, FallThrough, Build_cfg_return,
           NoDefinition, NextBlock, Search, Find_uses, Find_uses_return,
           Build_uses_and_defs_return, Show, Process_cfg, Layout, Handle_click, Fail, Insert_nodes,
           Linking, Scanning
      <4> QED
        BY <2>1, <4>1 DEF LinesRead
    <3> QED
      BY <1>1, <3>1, <3>2, <3>3
  <2> QED
    BY <2>1, <2>2 DEF CutInv
<1> QED
  BY <1>1, CutTerminator, CutLabel, CutOrdinary DEF Next

-----------------------------------------------------------------------------
(***************************************************************************)
(* The flow of control between the lines that get_bb has cut.              *)
(***************************************************************************)
LEMMA FromIs ==
  ASSUME NEW p \in Programs, Legible(p), NEW m \in Nat, NEW n \in 1 .. Len(p),
         Gap(p, m, n), ~ Dropped(p, n)
  PROVE  From(p, m + 1) = {n} /\ n \in Code(p)
<1>1. DOMAIN p = 1 .. Len(p) /\ Len(p) \in Nat /\ n \in Nat
  BY ProgramFacts
<1>2. \A l \in 1 .. Len(p) : Dropped(p, l) <=> IsLabel(p[l])
  BY <1>1, DroppedIsLabel
<1>3. n \in Code(p)
  BY <1>1, <1>2 DEF Code
<1>4. m < n /\ \A l \in m + 1 .. n - 1 : Dropped(p, l)
  BY DEF Gap
<1>5. \A l \in m + 1 .. n - 1 : l \in 1 .. Len(p) /\ IsLabel(p[l])
  BY <1>1, <1>2, <1>4
<1>6. n \in From(p, m + 1)
  BY <1>1, <1>3, <1>4, <1>5 DEF From
<1>7. ASSUME NEW l \in From(p, m + 1)
      PROVE  l = n
  <2>1. l \in Code(p) /\ l >= m + 1 /\ \A k \in m + 1 .. l - 1 : IsLabel(p[k])
    BY DEF From
  <2>2. l \in Nat /\ ~ IsLabel(p[l])
    BY <1>1, <2>1 DEF Code
  <2>3. ~ (l < n)
    BY <1>1, <1>5, <2>1, <2>2
  <2>4. ~ (n < l)
    BY <1>1, <1>3, <1>4, <2>1, <2>2 DEF Code
  <2> QED
    BY <1>1, <2>2, <2>3, <2>4
<1> QED
  BY <1>3, <1>6, <1>7

\* From a label, and from nowhere else, a jump by its name gets to the first line
\* of the block that is called so.
CalledIn(B, name) == {b \in 1 .. Len(B) : B[b].name = name}
LEMMA CalledIsAt ==
  ASSUME NEW p \in Programs, NEW B \in Seq(Blk), Legible(p), Cut(p, B), Named(p, B), Distinct(B),
         NEW name, name \notin MadeUp(p), NEW b \in CalledIn(B, name)
  PROVE  CalledIn(B, name) = {b} /\ At(p, name) = {B[b].instrs[1]}
<1> DEFINE h == B[b].instrs[1]
<1>1. b \in 1 .. Len(B) /\ B[b].name = name
  BY DEF CalledIn
<1>2. CalledIn(B, name) = {b}
  BY <1>1 DEF CalledIn, Distinct
<1>3. /\ h \in 1 .. Len(p) /\ ~ Dropped(p, h)
  <2>1. B[b].instrs \in Seq(Nat) /\ Piece(p, B[b].instrs)
    BY <1>1, BlockLines
  <2>2. 1 \in 1 .. Len(B[b].instrs) /\ h \in 1 .. Len(p)
    BY <2>1, PieceFacts
  <2> QED
    BY <2>1, <2>2 DEF Piece
<1>4. NamedAt(p, name, h)
  BY <1>1 DEF Named
<1> HIDE DEF h
<1>5. h # 1 /\ Dropped(p, h - 1) /\ name = Stem[p[h - 1].instr]
  BY <1>4 DEF NamedAt, MadeUp
<1>6. DOMAIN p = 1 .. Len(p) /\ Len(p) \in Nat /\ h - 1 \in 1 .. Len(p) /\ h - 2 \in Nat
  BY <1>3, <1>5, ProgramFacts
<1>7. IsLabel(p[h - 1]) /\ Names(p[h - 1], name)
  BY <1>5, <1>6, DroppedIsLabel DEF Names
<1>8. \A k \in DOMAIN p : Names(p[k], name) <=> k = h - 1
  BY <1>5, <1>6, <1>7 DEF Legible
<1>9. From(p, h - 1) = {h}
  <2>1. Gap(p, h - 2, h)
    BY <1>3, <1>5, <1>6 DEF Gap
  <2>2. From(p, (h - 2) + 1) = {h}
    BY <1>3, <1>6, <2>1, FromIs
  <2>3. (h - 2) + 1 = h - 1
    BY <1>3, <1>6
  <2> QED
    BY <2>2, <2>3
<1>10. {l \in DOMAIN p : Names(p[l], name)} = {h - 1}
  BY <1>6, <1>8
<1> QED
  BY <1>2, <1>9, <1>10 DEF At, h

LEMMA LinesAre ==
  ASSUME NEW p \in Programs, NEW B \in Seq(Blk), Cut(p, B), NEW b \in 1 .. Len(B)
  PROVE  Range(B[b].instrs) = B[b].instrs[1] .. EndOf(B, b)
<1> DEFINE ls == B[b].instrs
           m == Len(ls)
<1>1. ls \in Seq(Nat) /\ Piece(p, ls) /\ EndOf(B, b) = ls[m]
  BY BlockLines
<1>2. m \in Nat /\ m >= 1 /\ ls[1] \in Nat /\ DOMAIN ls = 1 .. m
      /\ \A k \in 1 .. m : ls[k] = ls[1] + k - 1
  BY <1>1, PieceFacts, LenProperties
<1> HIDE DEF ls, m
<1>3. m \in 1 .. m /\ ls[m] = ls[1] + m - 1
  BY <1>2
<1>4. ASSUME NEW x \in ls[1] .. ls[m]
      PROVE  x \in Range(ls)
  <2>1. x - ls[1] + 1 \in 1 .. m
    BY <1>2, <1>3
  <2>2. ls[x - ls[1] + 1] = ls[1] + (x - ls[1] + 1) - 1
    BY <1>2, <2>1
  <2>3. ls[x - ls[1] + 1] = x
    BY <1>2, <2>2
  <2> QED
    BY <1>2, <2>1, <2>3 DEF Range
<1>5. ASSUME NEW k \in 1 .. m
      PROVE  ls[k] \in ls[1] .. ls[m]
  BY <1>2, <1>3
<1>6. Range(ls) = ls[1] .. ls[m]
  BY <1>2, <1>4, <1>5 DEF Range
<1> QED
  BY <1>1, <1>6 DEF ls

\* Each line that is no label, up to the end of the last block, is in a block.
LEMMA HomeOf ==
  ASSUME NEW p \in Programs, NEW B \in Seq(Blk), Cut(p, B), NEW l \in Nat \ {0},
         l <= EndOf(B, Len(B)), ~ Dropped(p, l)
  PROVE  \E b \in 1 .. Len(B) : l \in Range(B[b].instrs)
<1> DEFINE S == {b \in 0 .. Len(B) : l <= EndOf(B, b)}
<1>1. Len(B) \in Nat /\ EndOf(B, 0) = 0
  BY LenProperties DEF EndOf
<1>2. S \subseteq Nat /\ Len(B) \in S
  BY <1>1
<1>3. PICK b \in S : \A a \in S : b <= a
  BY <1>2, Least
<1>4. b \in 1 .. Len(B) /\ b - 1 \in 0 .. Len(B) /\ l <= EndOf(B, b) /\ ~ (l <= EndOf(B, b - 1))
  <2>1. b # 0 /\ b \in 0 .. Len(B) /\ l <= EndOf(B, b)
    BY <1>1
  <2>2. b - 1 \in 0 .. Len(B) /\ ~ (b <= b - 1)
    BY <1>1, <2>1
  <2>3. b - 1 \notin S
    BY <1>3, <2>2
  <2> QED
    BY <1>1, <2>1, <2>2, <2>3
<1>5. EndOf(B, b - 1) \in Nat /\ EndOf(B, b) \in Nat
  BY <1>4, EndIsLine
<1>6. EndOf(B, b - 1) < l
  BY <1>4, <1>5
<1>7. Gap(p, EndOf(B, b - 1), B[b].instrs[1])
  BY <1>4 DEF Cut
<1>8. B[b].instrs[1] \in Nat
  BY <1>4, BlockLines, PieceFacts
<1>9. ~ (l < B[b].instrs[1])
  <2>1. SUFFICES ASSUME l < B[b].instrs[1] PROVE FALSE
    OBVIOUS
  <2>2. l \in EndOf(B, b - 1) + 1 .. B[b].instrs[1] - 1
    BY <1>5, <1>6, <1>8, <2>1
  <2> QED
    BY <1>7, <2>2 DEF Gap
<1>10. l \in B[b].instrs[1] .. EndOf(B, b)
  BY <1>4, <1>5, <1>8, <1>9
<1> QED
  BY <1>4, <1>10, LinesAre

LEMMA BlocksInOrder ==
  ASSUME NEW p \in Programs, NEW B \in Seq(Blk), Cut(p, B),
         NEW b \in 1 .. Len(B), NEW c \in 1 .. Len(B), b < c,
         NEW x \in Range(B[b].instrs), NEW y \in Range(B[c].instrs)
  PROVE  x < y
<1>1. Len(B) \in Nat
  BY LenProperties
<1>2. c - 1 \in 0 .. Len(B) /\ b \in 0 .. Len(B) /\ (b < c - 1 \/ b = c - 1)
  BY <1>1
<1>3. EndOf(B, b) \in Nat /\ EndOf(B, c - 1) \in Nat
  BY <1>2, EndIsLine
<1>4. EndOf(B, b) <= EndOf(B, c - 1)
  BY <1>2, <1>3 DEF Cut, Rising
<1>5. EndOf(B, c - 1) < B[c].instrs[1]
  BY DEF Cut, Gap
<1>6. B[c].instrs[1] \in Nat /\ B[b].instrs[1] \in Nat
  BY BlockLines, PieceFacts
<1>7. x \in B[b].instrs[1] .. EndOf(B, b) /\ y \in B[c].instrs[1] .. EndOf(B, c)
  BY LinesAre
<1>8. EndOf(B, c) \in Nat
  BY BlockLines
<1> QED
  BY <1>3, <1>4, <1>5, <1>6, <1>7, <1>8

LEMMA CodeOfBlock ==
  ASSUME NEW p \in Programs, Legible(p), NEW ls \in Seq(Nat), Piece(p, ls),
         NEW k \in 1 .. Len(ls)
  PROVE  ls[k] \in Code(p) /\ ls[k] \in 1 .. Len(p) /\ ls[k] \in Nat
<1>1. ls[k] \in 1 .. Len(p) /\ ~ Dropped(p, ls[k]) /\ DOMAIN p = 1 .. Len(p) /\ Len(p) \in Nat
  BY PieceFacts, ProgramFacts DEF Piece
<1> QED
  BY <1>1, DroppedIsLabel DEF Code

LEMMA FlowInside ==
  ASSUME NEW p \in Programs, Legible(p), NEW ls \in Seq(Nat), Piece(p, ls),
         NEW k \in 1 .. Len(ls) - 1
  PROVE  Flow(p, ls[k]) = {ls[k + 1]} /\ ls[k + 1] = ls[k] + 1
<1>1. Len(ls) \in Nat /\ ls[1] \in Nat
  BY PieceFacts
<1>2. k \in 1 .. Len(ls) /\ k + 1 \in 1 .. Len(ls) /\ k \in Nat
  BY <1>1
<1>3. ls[k] = ls[1] + k - 1 /\ ls[k + 1] = ls[1] + (k + 1) - 1
  BY <1>2, PieceFacts
<1>4. ls[k + 1] = ls[k] + 1
  BY <1>1, <1>2, <1>3
<1>5. /\ ls[k] \in Code(p) /\ ls[k] \in Nat /\ ls[k + 1] \in 1 .. Len(p) /\ ls[k + 1] \in Nat
  BY <1>2, CodeOfBlock
<1>6. ~ Jumps(p, ls[k]) /\ ~ Dropped(p, ls[k + 1])
  BY <1>2 DEF Piece
<1>7. Gap(p, ls[k], ls[k + 1])
  BY <1>4, <1>5 DEF Gap
<1>8. From(p, ls[k] + 1) = {ls[k + 1]}
  BY <1>5, <1>6, <1>7, FromIs
<1>9. p[ls[k]].instr # "ret"
  BY <1>5 DEF Legible
<1>10. Flow(p, ls[k]) = From(p, ls[k] + 1)
  BY <1>6, <1>9 DEF Flow, Jumps, block_terminators_riscv, unconditional_jumps_riscv
<1> QED
  BY <1>4, <1>8, <1>10

LEMMA EntersAtHead ==
  ASSUME NEW p \in Programs, Legible(p), NEW ls \in Seq(Nat), Piece(p, ls),
         NEW k \in 2 .. Len(ls), NEW l \in Nat, ls[k] \in Flow(p, l)
  PROVE  l = ls[k - 1]
<1>1. Len(ls) \in Nat
  BY PieceFacts
<1>2. k - 1 \in 1 .. Len(ls) - 1 /\ k - 1 \in 1 .. Len(ls) /\ k \in 1 .. Len(ls) /\ (k - 1) + 1 = k
  BY <1>1
<1>3. ls[k] = ls[k - 1] + 1
  BY <1>2, FlowInside
<1>4. ls[k - 1] \in Code(p) /\ ls[k - 1] \in Nat /\ ls[k] \in Code(p) /\ ls[k] \in Nat
  BY <1>2, CodeOfBlock
<1>5. ASSUME NEW m \in Nat, ls[k] \in From(p, m)
      PROVE  m = ls[k]
  <2>1. ls[k] >= m /\ \A j \in m .. ls[k] - 1 : IsLabel(p[j])
    BY <1>5 DEF From
  <2>2. ~ IsLabel(p[ls[k - 1]])
    BY <1>4 DEF Code
  <2> QED
    BY <1>3, <1>4, <2>1, <2>2
<1>6. \A name : ls[k] \notin At(p, name)
  <2>1. SUFFICES ASSUME NEW name, ls[k] \in At(p, name) PROVE FALSE
    OBVIOUS
  <2>2. PICK m \in DOMAIN p : Names(p[m], name) /\ ls[k] \in From(p, m)
    BY <2>1 DEF At
  <2>3. m \in Nat
    BY ProgramFacts
  <2>4. m = ls[k] /\ IsLabel(p[m])
    BY <1>5, <2>2, <2>3 DEF Names
  <2> QED
    BY <1>4, <2>4 DEF Code
<1>7. ls[k] \in From(p, l + 1)
  BY <1>6 DEF Flow
<1> QED
  BY <1>3, <1>4, <1>5, <1>7

NonEmpty == phase \notin {"blocks", "exited"} => bb # << >>

LEMMA NonEmptyStep == NonEmpty /\ [Next]_vars => NonEmpty'
<1> SUFFICES ASSUME NonEmpty, [Next]_vars PROVE NonEmpty'
  OBVIOUS
<1>1. CASE UNCHANGED vars
  BY <1>1 DEF vars, NonEmpty
<1>2. CASE Terminator \/ Label \/ Ordinary
  BY <1>2 DEF Terminator, Label, Ordinary, Reading, NextLine, NonEmpty
<1>3. CASE Get_bb_return
  BY <1>3 DEF Get_bb_return, Fail, NonEmpty
<1>4. CASE \/ Conditional \/ Unconditional \/ FallThrough \/ Build_cfg_return
           \/ NoDefinition \/ NextBlock \/ Search \/ Find_uses \/ Find_uses_return
           \/ Build_uses_and_defs_return \/ Show \/ Process_cfg \/ Layout
           \/ \E line \in 1 .. Len(prog) + 2 : Handle_click(line)
  <2>1. phase \notin {"blocks", "exited"} /\ bb' = bb
    BY <1>4 DEF Conditional, Unconditional, FallThrough, Build_cfg_return,
       NoDefinition, NextBlock, Search, Find_uses, Find_uses_return,
       Build_uses_and_defs_return, Show, Process_cfg, Layout, Handle_click, Fail, Insert_nodes,
       Linking, Scanning
  <2> QED
    BY <2>1 DEF NonEmpty
<1> QED
  BY <1>1, <1>2, <1>3, <1>4 DEF Next

BlocksInv == TypeInv /\ CutInv /\ NonEmpty
LEMMA BlocksInvariant == Spec => []BlocksInv
<1>1. Init => BlocksInv
  BY TypeInit, CutInit DEF BlocksInv, NonEmpty, Init
<1>2. BlocksInv /\ [Next]_vars => BlocksInv'
  BY TypeStep, CutStep, NonEmptyStep DEF BlocksInv
<1> QED
  BY <1>1, <1>2, PTL DEF Spec

\* For every function that main.py can read, whatever its jumps and labels: the
\* blocks of get_bb are the function, cut where control can leave or enter.
THEOREM FunctionIsCut == Spec => []BlocksPartition
<1>1. BlocksInv => BlocksPartition
  <2> SUFFICES ASSUME BlocksInv, Built, Legible(prog)
               PROVE  BlocksPartition
    BY DEF BlocksPartition
  <2> DEFINE p == prog
  <2>1. p \in Programs /\ bb \in Seq(Blk) /\ Cut(p, bb) /\ bb # << >>
    BY DEF BlocksInv, TypeInv, CutInv, NonEmpty, Built
  <2>2. Len(bb) \in Nat /\ DOMAIN bb = 1 .. Len(bb) /\ Len(bb) \in 1 .. Len(bb)
    BY <2>1, LenProperties, EmptySeq
  <2>3. EndOf(bb, Len(bb)) = Last(Last(bb).instrs)
    BY <2>2 DEF EndOf, Last
  <2>4. DOMAIN p = 1 .. Len(p) /\ Len(p) \in Nat
    BY <2>1, ProgramFacts
  <2>5. ASSUME NEW x \in Covered
        PROVE  x \in Code(p) /\ x <= EndOf(bb, Len(bb)) /\ x \in Nat
    <3>1. PICK b \in 1 .. Len(bb) : x \in Range(bb[b].instrs)
      BY <2>2 DEF Covered, Lines
    <3>2. bb[b].instrs \in Seq(Nat) /\ Piece(p, bb[b].instrs)
      BY <2>1, BlockLines
    <3>3. PICK k \in 1 .. Len(bb[b].instrs) : x = bb[b].instrs[k]
      BY <3>1, <3>2, LenProperties DEF Range
    <3>4. x \in Code(p) /\ x \in Nat
      BY <2>1, <3>2, <3>3, CodeOfBlock
    <3>5. x \in bb[b].instrs[1] .. EndOf(bb, b)
      BY <2>1, <3>1, LinesAre
    <3>6. EndOf(bb, b) <= EndOf(bb, Len(bb)) /\ EndOf(bb, b) \in Nat /\ EndOf(bb, Len(bb)) \in Nat
      BY <2>1, <2>2, EndIsLine
    <3> QED
      BY <3>4, <3>5, <3>6
  <2>6. ASSUME NEW x \in Code(p), x <= EndOf(bb, Len(bb))
        PROVE  x \in Covered
    <3>1. x \in Nat \ {0} /\ ~ Dropped(p, x)
      BY <2>4, DroppedIsLabel DEF Code
    <3> QED
      BY <2>1, <2>2, <2>6, <3>1, HomeOf DEF Covered, Lines
  <2>7. Covered = {l \in Code(p) : l <= Last(Last(bb).instrs)}
    BY <2>3, <2>5, <2>6
  <2>8. \A b, c \in DOMAIN bb : b < c => \A x \in Lines(b), y \in Lines(c) : x < y
    BY <2>1, <2>2, BlocksInOrder DEF Lines
  <2>9. ASSUME NEW b \in DOMAIN bb
        PROVE  LET ls == bb[b].instrs IN
               /\ \A k \in 1 .. Len(ls) - 1 : ls[k] < ls[k + 1] /\ Flow(p, ls[k]) = {ls[k + 1]}
               /\ \A l \in Covered : \A k \in 2 .. Len(ls) : ls[k] \in Flow(p, l) => l = ls[k - 1]
    <3> DEFINE ls == bb[b].instrs
    <3>1. ls \in Seq(Nat) /\ Piece(p, ls)
      BY <2>1, <2>2, BlockLines
    <3> HIDE DEF ls
    <3>2. ASSUME NEW k \in 1 .. Len(ls) - 1
          PROVE  ls[k] < ls[k + 1] /\ Flow(p, ls[k]) = {ls[k + 1]}
      <4>1. k \in 1 .. Len(ls)
        BY <3>1, PieceFacts
      <4>2. ls[k] \in Nat
        BY <2>1, <3>1, <4>1, CodeOfBlock
      <4>3. Flow(p, ls[k]) = {ls[k + 1]} /\ ls[k + 1] = ls[k] + 1
        BY <2>1, <3>1, FlowInside
      <4> QED
        BY <4>2, <4>3
    <3>3. ASSUME NEW l \in Covered, NEW k \in 2 .. Len(ls), ls[k] \in Flow(p, l)
          PROVE  l = ls[k - 1]
      BY <2>1, <2>5, <3>1, <3>3, EntersAtHead
    <3> QED
      BY <3>2, <3>3 DEF ls
  <2> QED
    BY <2>7, <2>8, <2>9 DEF BlocksPartition
<1> QED
  BY <1>1, BlocksInvariant, PTL

-----------------------------------------------------------------------------
(***************************************************************************)
(* build_cfg.                                                              *)
(***************************************************************************)
EndIns(p, B, b) == p[EndOf(B, b)]
SuccOf(p, B, b) ==
  LET ins == EndIns(p, B, b) IN
  IF ins.instr \in conditional_jumps_riscv THEN <<Max(CalledIn(B, ins.op2)), b + 1>>
  ELSE IF ins.instr = "j" THEN <<Max(CalledIn(B, ins.op0))>>
  ELSE IF ins.instr \in unconditional_jumps_riscv THEN << >> ELSE <<b + 1>>
Linkable(p, B, b) ==
  LET ins == EndIns(p, B, b) IN
  /\ ins.instr \in conditional_jumps_riscv => CalledIn(B, ins.op2) # {}
  /\ ins.instr = "j" => CalledIn(B, ins.op0) # {}
  /\ ins.instr \notin unconditional_jumps_riscv => b < Len(B)

Later == {"uses", "search", "show", "draw", "shown"}
Linked(b) == (phase = "cfg" /\ b < pos) \/ phase \in Later
ArrowInv ==
  /\ phase \in {"cfg"} \union Later => DOMAIN succ = 1 .. Len(bb)
  /\ \A b \in 1 .. Len(bb) : Linked(b) => succ[b] = SuccOf(prog, bb, b) /\ Linkable(prog, bb, b)

LEMMA ArrowStep == BlocksInv /\ ArrowInv /\ [Next]_vars => ArrowInv'
<1> SUFFICES ASSUME BlocksInv, ArrowInv, [Next]_vars PROVE ArrowInv'
  OBVIOUS
<1>1. /\ bb \in Seq(Blk) /\ Len(bb) \in Nat /\ DOMAIN bb = 1 .. Len(bb) /\ pos \in Nat \ {0}
  BY LenProperties DEF BlocksInv, TypeInv
<1>2. CASE UNCHANGED vars
  BY <1>2 DEF vars, ArrowInv, Linked, Later
<1>3. CASE Terminator \/ Label \/ Ordinary
  <2>1. phase' = "blocks"
    BY <1>3 DEF Terminator, Label, Ordinary, Reading, NextLine
  <2> QED
    BY <2>1 DEF ArrowInv, Linked, Later
<1>4. CASE Get_bb_return
  <2>1. CASE bb = << >>
    <3>1. phase' = "exited"
      BY <1>4, <2>1 DEF Get_bb_return, Fail
    <3> QED
      BY <3>1 DEF ArrowInv, Linked, Later
  <2>2. CASE bb # << >>
    <3>1. phase' = "cfg" /\ pos' = 1 /\ DOMAIN succ' = DOMAIN bb /\ bb' = bb
      BY <1>4, <2>2 DEF Get_bb_return
    <3> QED
      BY <1>1, <3>1 DEF ArrowInv, Linked, Later
  <2> QED
    BY <2>1, <2>2
<1>5. CASE Conditional \/ Unconditional \/ FallThrough
  <2> DEFINE ins == EndIns(prog, bb, pos)
  <2>1. phase = "cfg" /\ pos \in 1 .. Len(bb)
    <3>1. Linking
      BY <1>5, Zenon DEF Conditional, Unconditional, FallThrough
    <3>2. phase = "cfg" /\ pos <= Len(bb)
      BY <3>1, Zenon DEF Linking
    <3> QED
      BY ONLY <1>1, <3>2
  <2>2. Final(pos) = ins
    BY <2>1 DEF Final, EndIns, EndOf, Last
  <2>3. \A name : Called(name) = CalledIn(bb, name)
    BY <1>1 DEF Called, CalledIn
  <2>4. CASE phase' # phase
    <3>1. phase' \in {"KeyError", "AssertionError"}
      BY <1>5, <2>4 DEF Conditional, Unconditional, FallThrough, Insert_nodes, Fail
    <3> QED
      BY <3>1 DEF ArrowInv, Linked, Later
  <2>5. CASE phase' = phase
    <3>1. \/ /\ Conditional /\ ins.instr \in conditional_jumps_riscv
             /\ CalledIn(bb, ins.op2) # {} /\ pos # Len(bb)
             /\ Insert_nodes(<<Max(CalledIn(bb, ins.op2)), pos + 1>>)
          \/ /\ Unconditional /\ ins.instr \in unconditional_jumps_riscv /\ ins.instr # "j"
             /\ Insert_nodes(<< >>)
          \/ /\ Unconditional /\ ins.instr = "j" /\ CalledIn(bb, ins.op0) # {}
             /\ Insert_nodes(<<Max(CalledIn(bb, ins.op0))>>)
          \/ /\ FallThrough /\ ins.instr \notin block_terminators_riscv /\ pos # Len(bb)
             /\ Insert_nodes(<<pos + 1>>)
      BY <1>5, <2>1, <2>2, <2>3, <2>5 DEF Conditional, Unconditional, FallThrough, Fail, Imap
    <3>2. Insert_nodes(SuccOf(prog, bb, pos)) /\ Linkable(prog, bb, pos)
      <4>0. \A m, n \in Nat : m \in 1 .. n /\ m # n => m < n
        OBVIOUS
      <4>1. pos # Len(bb) => pos < Len(bb)
        BY ONLY <1>1, <2>1, <4>0, Zenon
      <4>2. "j" \in unconditional_jumps_riscv
        BY DEF unconditional_jumps_riscv
      <4>3. ins.instr \in conditional_jumps_riscv => ins.instr \notin unconditional_jumps_riscv
        BY DEF unconditional_jumps_riscv, conditional_jumps_riscv
      <4> HIDE DEF ins
      <4> QED
        BY <3>1, <4>1, <4>2, <4>3 DEF SuccOf, Linkable, block_terminators_riscv, ins
    <3>3. /\ succ' = [succ EXCEPT ![pos] = SuccOf(prog, bb, pos)] /\ pos' = pos + 1
          /\ prog' = prog /\ bb' = bb /\ DOMAIN succ = 1 .. Len(bb)
      BY <2>1, <3>2 DEF Insert_nodes, ArrowInv
    <3>4. ASSUME NEW b \in 1 .. Len(bb), b < pos'
          PROVE  succ'[b] = SuccOf(prog, bb, b) /\ Linkable(prog, bb, b)
      <4>1. b = pos \/ (b # pos /\ b < pos)
        BY <1>1, <3>3, <3>4
      <4>2. b # pos => Linked(b)
        BY <2>1, <4>1 DEF Linked
      <4> QED
        BY <2>1, <3>2, <3>3, <4>1, <4>2 DEF ArrowInv
    <3> QED
      BY <2>1, <2>5, <3>3, <3>4 DEF ArrowInv, Linked, Later
  <2> QED
    BY <2>4, <2>5
<1>6. CASE Build_cfg_return
  <2>1. phase = "cfg" /\ pos > Len(bb) /\ phase' = "uses" /\ succ' = succ /\ bb' = bb /\ prog' = prog
    BY <1>6 DEF Build_cfg_return
  <2>2. \A b \in 1 .. Len(bb) : Linked(b)
    BY <1>1, <2>1 DEF Linked
  <2> QED
    BY <2>1, <2>2 DEF ArrowInv, Linked, Later
<1>7. CASE \/ NoDefinition \/ NextBlock \/ Search \/ Find_uses \/ Find_uses_return
           \/ Build_uses_and_defs_return \/ Show \/ Process_cfg \/ Layout
           \/ \E line \in 1 .. Len(prog) + 2 : Handle_click(line)
  <2>1. phase \in Later /\ bb' = bb /\ succ' = succ /\ prog' = prog /\ phase' # "cfg"
    BY <1>7 DEF NoDefinition, NextBlock, Search, Find_uses, Find_uses_return, Scanning,
       Build_uses_and_defs_return, Show, Process_cfg, Layout, Handle_click, Fail, Later
  <2> QED
    BY <2>1 DEF ArrowInv, Linked
<1> QED
  BY <1>2, <1>3, <1>4, <1>5, <1>6, <1>7 DEF Next

LEMMA NextHead ==
  ASSUME NEW p \in Programs, NEW B \in Seq(Blk), Legible(p), Cut(p, B), NEW b \in 1 .. Len(B),
         b < Len(B)
  PROVE  From(p, EndOf(B, b) + 1) = {B[b + 1].instrs[1]}
<1>1. Len(B) \in Nat
  BY LenProperties
<1>2. b + 1 \in 1 .. Len(B) /\ (b + 1) - 1 = b
  BY <1>1
<1>3. Gap(p, EndOf(B, b), B[b + 1].instrs[1])
  BY <1>2 DEF Cut
<1>4. B[b + 1].instrs \in Seq(Nat) /\ Piece(p, B[b + 1].instrs) /\ EndOf(B, b) \in Nat
  BY <1>2, BlockLines
<1>5. 1 \in 1 .. Len(B[b + 1].instrs) /\ B[b + 1].instrs[1] \in 1 .. Len(p)
  BY <1>4, PieceFacts
<1>6. ~ Dropped(p, B[b + 1].instrs[1])
  BY <1>4, <1>5 DEF Piece
<1> QED
  BY <1>3, <1>4, <1>5, <1>6, FromIs

LEMMA EndIsCode ==
  ASSUME NEW p \in Programs, NEW B \in Seq(Blk), Legible(p), Cut(p, B), NEW b \in 1 .. Len(B)
  PROVE  EndOf(B, b) \in Code(p) /\ EndOf(B, b) \in Nat /\ EndOf(B, b) \in 1 .. Len(p)
<1>1. /\ B[b].instrs \in Seq(Nat) /\ Piece(p, B[b].instrs)
      /\ EndOf(B, b) = B[b].instrs[Len(B[b].instrs)]
  BY BlockLines
<1>2. Len(B[b].instrs) \in 1 .. Len(B[b].instrs)
  BY <1>1, PieceFacts
<1> QED
  BY <1>1, <1>2, CodeOfBlock

\* A jump by name arrives at the block that imap gives for the name.
LEMMA TargetHead ==
  ASSUME NEW p \in Programs, NEW B \in Seq(Blk), Legible(p), Cut(p, B), Named(p, B), Distinct(B),
         NEW name, name \notin MadeUp(p), CalledIn(B, name) # {}
  PROVE  /\ At(p, name) = {B[Max(CalledIn(B, name))].instrs[1]}
         /\ Max(CalledIn(B, name)) \in 1 .. Len(B)
<1>1. PICK b \in CalledIn(B, name) : TRUE
  OBVIOUS
<1>2. CalledIn(B, name) = {b} /\ At(p, name) = {B[b].instrs[1]} /\ b \in 1 .. Len(B)
  BY CalledIsAt DEF CalledIn
<1>3. Max(CalledIn(B, name)) = b
  BY <1>2 DEF Max
<1> QED
  BY <1>2, <1>3

HeadsOf(B, t) == {B[s].instrs[1] : s \in Range(t)}
LEMMA ArrowsFlow ==
  ASSUME NEW p \in Programs, NEW B \in Seq(Blk), Legible(p), Cut(p, B), Named(p, B), Distinct(B),
         NEW b \in 1 .. Len(B), Linkable(p, B, b)
  PROVE  /\ Range(SuccOf(p, B, b)) \subseteq 1 .. Len(B)
         /\ HeadsOf(B, SuccOf(p, B, b))
              = IF EndIns(p, B, b).instr \in Leaves THEN {} ELSE Flow(p, EndOf(B, b))
<1> DEFINE e == EndOf(B, b)
           ins == EndIns(p, B, b)
<1>1. e \in Code(p) /\ ins = p[e] /\ Len(B) \in Nat
  BY EndIsCode, LenProperties DEF EndIns
<1>2. b < Len(B) => From(p, e + 1) = {B[b + 1].instrs[1]} /\ b + 1 \in 1 .. Len(B)
  BY <1>1, NextHead
<1> HIDE DEF e, ins
<1>3. CASE ins.instr \in conditional_jumps_riscv
  <2> DEFINE c == Max(CalledIn(B, ins.op2))
  <2>1. ins.instr \notin unconditional_jumps_riscv /\ ins.instr # "j" /\ ins.instr \notin Leaves
    BY <1>3 DEF conditional_jumps_riscv, unconditional_jumps_riscv, Leaves
  <2>2. b < Len(B) /\ CalledIn(B, ins.op2) # {}
    BY <1>3, <2>1 DEF Linkable, ins
  <2>3. Target(ins) = ins.op2 /\ ins.op2 \notin MadeUp(p)
    BY <1>1, <1>3, <2>1 DEF Legible, Target
  <2>4. At(p, ins.op2) = {B[c].instrs[1]} /\ c \in 1 .. Len(B)
    BY <2>2, <2>3, TargetHead
  <2>5. SuccOf(p, B, b) = <<c, b + 1>>
    BY <1>3 DEF SuccOf, ins
  <2>6. Flow(p, e) = At(p, ins.op2) \union From(p, e + 1)
    BY <1>1, <1>3, <2>3 DEF Flow
  <2> HIDE DEF c
  <2>7. Range(<<c, b + 1>>) = {c, b + 1}
    BY DEF Range
  <2> QED
    BY <1>2, <2>1, <2>2, <2>4, <2>5, <2>6, <2>7 DEF HeadsOf, e, ins
<1>4. CASE ins.instr = "j"
  <2> DEFINE c == Max(CalledIn(B, ins.op0))
  <2>1. ins.instr \notin conditional_jumps_riscv /\ ins.instr \notin Leaves
    BY <1>4 DEF conditional_jumps_riscv, Leaves
  <2>2. CalledIn(B, ins.op0) # {}
    BY <1>4 DEF Linkable, ins
  <2>3. Target(ins) = ins.op0 /\ ins.op0 \notin MadeUp(p)
    BY <1>1, <1>4 DEF Legible, Target
  <2>4. At(p, ins.op0) = {B[c].instrs[1]} /\ c \in 1 .. Len(B)
    BY <2>2, <2>3, TargetHead
  <2>5. SuccOf(p, B, b) = <<c>>
    BY <1>4, <2>1 DEF SuccOf, ins
  <2>6. Flow(p, e) = At(p, ins.op0)
    BY <1>1, <1>4, <2>1, <2>3 DEF Flow
  <2> HIDE DEF c
  <2>7. Range(<<c>>) = {c}
    BY DEF Range
  <2> QED
    BY <2>1, <2>4, <2>5, <2>6, <2>7 DEF HeadsOf, e, ins
<1>5. CASE ins.instr \in unconditional_jumps_riscv /\ ins.instr # "j"
  <2>1. ins.instr \notin conditional_jumps_riscv
    BY <1>5 DEF conditional_jumps_riscv, unconditional_jumps_riscv
  <2>2. SuccOf(p, B, b) = << >>
    BY <1>5, <2>1 DEF SuccOf, ins
  <2>3. ins.instr # "retcall"
    BY <1>1 DEF Legible
  <2>4. ins.instr \in Leaves \/ ins.instr = "jr"
    BY <1>5, <2>3 DEF Leaves, unconditional_jumps_riscv
  <2>5. ins.instr = "jr" => Flow(p, e) = {}
    BY <1>1, <1>5, <2>1 DEF Flow
  <2>6. Range(<< >>) = {}
    BY DEF Range
  <2> QED
    BY <2>2, <2>4, <2>5, <2>6 DEF HeadsOf, e, ins
<1>6. CASE ins.instr \notin conditional_jumps_riscv /\ ins.instr \notin unconditional_jumps_riscv
  <2>1. ins.instr # "j" /\ ins.instr # "jr" /\ ins.instr \notin Leaves
    BY <1>6 DEF unconditional_jumps_riscv, Leaves
  <2>2. b < Len(B)
    BY <1>6 DEF Linkable, ins
  <2>3. SuccOf(p, B, b) = <<b + 1>>
    BY <1>6, <2>1 DEF SuccOf, ins
  <2>4. ins.instr # "ret"
    BY <1>1 DEF Legible
  <2>5. Flow(p, e) = From(p, e + 1)
    BY <1>1, <1>6, <2>1, <2>4 DEF Flow
  <2>6. Range(<<b + 1>>) = {b + 1}
    BY DEF Range
  <2> QED
    BY <1>2, <2>1, <2>2, <2>3, <2>5, <2>6 DEF HeadsOf, e, ins
<1> QED
  BY <1>3, <1>4, <1>5, <1>6

LinkedInv == BlocksInv /\ ArrowInv
LEMMA LinkedInvariant == Spec => []LinkedInv
<1>1. Init => ArrowInv
  BY DEF Init, ArrowInv, Linked, Later
<1>2. LinkedInv /\ [Next]_vars => LinkedInv'
  BY ArrowStep, TypeStep, CutStep, NonEmptyStep DEF LinkedInv, BlocksInv
<1> QED
  BY <1>1, <1>2, BlocksInvariant, PTL DEF Spec, LinkedInv

\* What the blocks of a legible function are, once they are linked.
LEMMA Blocks ==
  ASSUME LinkedInv, Legible(prog), phase \in Later
  PROVE  /\ prog \in Programs /\ bb \in Seq(Blk) /\ bb # << >>
         /\ Cut(prog, bb) /\ Named(prog, bb) /\ Distinct(bb)
         /\ Len(bb) \in Nat /\ DOMAIN bb = 1 .. Len(bb) /\ DOMAIN succ = 1 .. Len(bb)
         /\ \A b \in 1 .. Len(bb) : succ[b] = SuccOf(prog, bb, b) /\ Linkable(prog, bb, b)
<1>1. phase # "blocks" /\ phase # "exited"
  BY DEF Later
<1>2. prog \in Programs /\ bb \in Seq(Blk) /\ bb # << >> /\ Cut(prog, bb) /\ Named(prog, bb)
  BY <1>1 DEF LinkedInv, BlocksInv, TypeInv, CutInv, NonEmpty
<1>3. Distinct(bb)
  BY DEF LinkedInv, BlocksInv, CutInv, Fresh
<1>4. Len(bb) \in Nat /\ DOMAIN bb = 1 .. Len(bb)
  BY <1>2, LenProperties
<1> QED
  BY <1>2, <1>3, <1>4 DEF LinkedInv, ArrowInv, Linked

\* For every function that main.py can read: the successors that build_cfg gives a
\* block begin at the lines where control goes from its last one, none being
\* missing and none being wrong, calls aside.
THEOREM ArrowsAreFlow == Spec => []FlowAgrees
<1>1. LinkedInv => FlowAgrees
  <2> SUFFICES ASSUME LinkedInv, Built, Legible(prog), NEW b \in DOMAIN bb
               PROVE  LET end == Last(bb[b].instrs) IN
                      {Head(bb[s].instrs) : s \in Range(succ[b])}
                        = IF prog[end].instr \in Leaves THEN {} ELSE Flow(prog, end)
    BY DEF FlowAgrees
  <2>1. phase \in Later
    BY DEF Built, Later
  <2>2. /\ prog \in Programs /\ bb \in Seq(Blk) /\ Cut(prog, bb) /\ Named(prog, bb)
        /\ Distinct(bb) /\ b \in 1 .. Len(bb)
        /\ succ[b] = SuccOf(prog, bb, b) /\ Linkable(prog, bb, b)
    BY <2>1, Blocks
  <2>3. EndOf(bb, b) = Last(bb[b].instrs)
    BY <2>2, BlockLines DEF Last
  <2>4. /\ Range(succ[b]) \subseteq 1 .. Len(bb)
        /\ HeadsOf(bb, succ[b])
             = IF EndIns(prog, bb, b).instr \in Leaves THEN {} ELSE Flow(prog, EndOf(bb, b))
    BY <2>2, ArrowsFlow
  <2>5. \A s \in Range(succ[b]) : Head(bb[s].instrs) = bb[s].instrs[1]
    BY DEF Head
  <2> QED
    BY <2>3, <2>4, <2>5 DEF HeadsOf, EndIns
<1> QED
  BY <1>1, LinkedInvariant, PTL

-----------------------------------------------------------------------------
(***************************************************************************)
(* The flow of control: the lines that control comes to are the least set  *)
(* that holds the first ones and is closed under Flow.                     *)
(***************************************************************************)
Wider(p, stops, T) == T \union UNION {Flow(p, l) : l \in T \ stops}
ClosedBut(p, stops, T) == \A l \in T \ stops : Flow(p, l) \subseteq T

LEMMA FlowIsCode == \A p, l : Flow(p, l) \subseteq Code(p)
<1>1. \A p, l : From(p, l) \subseteq Code(p)
  BY DEF From
<1>2. \A p, name : At(p, name) \subseteq Code(p)
  BY <1>1 DEF At
<1> QED
  BY <1>1, <1>2 DEF Flow

Walks(p, S, stops, on) ==
  /\ on \in [Nat -> SUBSET Code(p)] /\ on[0] = S
  /\ \A k \in Nat : on[k + 1] = Wider(p, stops, on[k])
LEMMA OnwardWalk ==
  ASSUME NEW p \in Programs, NEW S \in SUBSET Code(p), NEW stops
  PROVE  \E on : Onward(p, S, stops) = on[Len(p)] /\ Walks(p, S, stops, on)
<1> DEFINE D == SUBSET Code(p)
           Walk(f) == [n \in Nat |->
             IF n = 0 THEN S
             ELSE LET T == f[n - 1] IN T \union UNION {Flow(p, l) : l \in T \ stops}]
           Step == [q \in Nat \X D |-> Wider(p, stops, q[2])]
           W == CHOOSE f : f = Walk(f)
<1>1. Onward(p, S, stops) = W[Len(p)]
  BY DEF Onward
<1>2. PICK g : Iterated(g, D, S, Step)
  <2>1. \A T \in D : Wider(p, stops, T) \in D
    BY FlowIsCode DEF Wider
  <2>2. Step \in [Nat \X D -> D]
    BY <2>1
  <2>3. Steps(D, S, Step)
    BY <2>2 DEF Steps
  <2> QED
    BY <2>3, Iterates
<1>3. \A f : Walk(f) = [k \in Nat |-> IF k = 0 THEN S ELSE Wider(p, stops, f[k - 1])]
  BY DEF Wider
<1>4. g = Walk(g)
  <2>1. ASSUME NEW k \in Nat
        PROVE  g[k] = IF k = 0 THEN S ELSE Wider(p, stops, g[k - 1])
    <3>1. CASE k = 0
      BY <1>2, <3>1 DEF Iterated
    <3>2. CASE k # 0
      <4>1. k - 1 \in Nat /\ g[k - 1] \in D /\ (k - 1) + 1 = k
        BY <1>2, <3>2 DEF Iterated
      <4>2. g[(k - 1) + 1] = Step[<<k - 1, g[k - 1]>>]
        BY <1>2, <4>1 DEF Iterated
      <4>3. Step[<<k - 1, g[k - 1]>>] = Wider(p, stops, g[k - 1])
        BY <4>1
      <4> QED
        BY <3>2, <4>1, <4>2, <4>3
    <3> QED
      BY <3>1, <3>2
  <2>2. g = [k \in Nat |-> g[k]]
    BY <1>2 DEF Iterated
  <2>3. Walk(g) = [k \in Nat |-> IF k = 0 THEN S ELSE Wider(p, stops, g[k - 1])]
    BY <1>3
  <2> HIDE DEF Walk
  <2>4. Walk(g) = [k \in Nat |-> g[k]]
    BY <2>1, <2>3
  <2> QED
    BY <2>2, <2>4
<1>5. W = Walk(W)
  <2> HIDE DEF Walk
  <2> QED
    BY <1>4
<1> HIDE DEF W, Walk
<1>6. W = [k \in Nat |-> IF k = 0 THEN S ELSE Wider(p, stops, W[k - 1])]
  BY <1>3, <1>5
<1>7. W[0] = S /\ \A k \in Nat : W[k + 1] = Wider(p, stops, W[k])
  BY <1>6
<1>8. \A k \in Nat : W[k] \in SUBSET Code(p)
  <2> DEFINE X == {k \in Nat : W[k] \in SUBSET Code(p)}
  <2>1. 0 \in X
    BY <1>7
  <2>2. ASSUME NEW k \in Nat, k \in X
        PROVE  k + 1 \in X
    BY <1>7, <2>2, FlowIsCode DEF Wider
  <2> HIDE DEF X
  <2>3. \A k \in Nat : k \in X
    BY <2>1, <2>2, Induction
  <2> QED
    BY <2>3 DEF X
<1>9. W \in [Nat -> SUBSET Code(p)]
  BY <1>6, <1>8
<1> QED
  BY <1>1, <1>7, <1>9 DEF Walks

LEMMA OnwardClosed ==
  ASSUME NEW p \in Programs, NEW S \in SUBSET Code(p), NEW stops
  PROVE  /\ S \subseteq Onward(p, S, stops) /\ Onward(p, S, stops) \subseteq Code(p)
         /\ ClosedBut(p, stops, Onward(p, S, stops))
<1>0. PICK on : Onward(p, S, stops) = on[Len(p)] /\ Walks(p, S, stops, on)
  BY OnwardWalk
<1>1. /\ on \in [Nat -> SUBSET Code(p)] /\ Onward(p, S, stops) = on[Len(p)] /\ on[0] = S
      /\ \A k \in Nat : on[k + 1] = Wider(p, stops, on[k])
  BY <1>0 DEF Walks
<1> DEFINE N == Len(p)
<1>2. N \in Nat /\ Code(p) \subseteq 1 .. N
  BY ProgramFacts DEF Code
<1>3. IsFiniteSet(Code(p)) /\ Cardinality(Code(p)) <= N
  <2> HIDE DEF N
  <2>1. IsFiniteSet(1 .. N) /\ Cardinality(1 .. N) = N
    BY <1>2, FS_Interval
  <2> QED
    BY <1>2, <2>1, FS_Subset
<1> HIDE DEF N
<1>4. \A k \in Nat : on[k] \subseteq on[k + 1]
  BY <1>1 DEF Wider
<1>5. ASSUME NEW k \in Nat, on[k + 1] = on[k]
      PROVE  on[k + 2] = on[k + 1]
  <2>1. k + 1 \in Nat /\ (k + 1) + 1 = k + 2
    OBVIOUS
  <2> QED
    BY <1>1, <1>5, <2>1
<1>6. on[N + 1] = on[N]
  <2>1. \A k \in Nat : on[k + 1] = on[k] => on[k + 2] = on[k + 1]
    BY <1>5
  <2>2. on \in [Nat -> SUBSET Code(p)] /\ N \in Nat
    BY <1>1, <1>2
  <2> QED
    BY <1>3, <1>4, <2>1, <2>2, Saturates
<1>7. on[N] = Wider(p, stops, on[N])
  BY <1>1, <1>2, <1>6
<1>8. S \subseteq on[N]
  <2> DEFINE X == {k \in Nat : S \subseteq on[k]}
  <2>1. 0 \in X
    BY <1>1
  <2>2. ASSUME NEW k \in Nat, k \in X
        PROVE  k + 1 \in X
    BY <1>4, <2>2
  <2> HIDE DEF X
  <2>3. N \in X
    BY <1>2, <2>1, <2>2, Induction
  <2> QED
    BY <2>3 DEF X
<1> QED
  BY <1>1, <1>2, <1>7, <1>8 DEF N, Wider, ClosedBut

LEMMA OnwardWithin ==
  ASSUME NEW p \in Programs, NEW S \in SUBSET Code(p), NEW stops,
         NEW T, S \subseteq T, ClosedBut(p, stops, T)
  PROVE  Onward(p, S, stops) \subseteq T
<1>0. PICK on : Onward(p, S, stops) = on[Len(p)] /\ Walks(p, S, stops, on)
  BY OnwardWalk
<1>1. /\ on \in [Nat -> SUBSET Code(p)] /\ Onward(p, S, stops) = on[Len(p)] /\ on[0] = S
      /\ \A k \in Nat : on[k + 1] = Wider(p, stops, on[k])
  BY <1>0 DEF Walks
<1> DEFINE X == {k \in Nat : on[k] \subseteq T}
<1>2. 0 \in X
  BY <1>1
<1>3. ASSUME NEW k \in Nat, k \in X
      PROVE  k + 1 \in X
  BY <1>1, <1>3 DEF Wider, ClosedBut
<1> HIDE DEF X
<1>4. Len(p) \in X
  BY <1>2, <1>3, Induction, ProgramFacts
<1> QED
  BY <1>1, <1>4 DEF X

\* The lines that a definition reaches, with what ends its way: a redefinition.
Redefined(p, def) == {l \in Code(p) : Kills(p[def], p[l])}
LEMMA UnhiddenClosed ==
  ASSUME NEW p \in Programs, NEW def
  PROVE  /\ Flow(p, def) \subseteq Unhidden(p, def) /\ Unhidden(p, def) \subseteq Code(p)
         /\ \A l \in Unhidden(p, def) : ~ Kills(p[def], p[l]) => Flow(p, l) \subseteq Unhidden(p, def)
<1>1. Flow(p, def) \in SUBSET Code(p)
  BY FlowIsCode
<1>2. Unhidden(p, def) = Onward(p, Flow(p, def), Redefined(p, def))
  BY DEF Unhidden, Redefined, Kills
<1>3. /\ Flow(p, def) \subseteq Unhidden(p, def) /\ Unhidden(p, def) \subseteq Code(p)
      /\ ClosedBut(p, Redefined(p, def), Unhidden(p, def))
  BY <1>1, <1>2, OnwardClosed
<1> QED
  BY <1>3 DEF ClosedBut, Redefined

-----------------------------------------------------------------------------
(***************************************************************************)
(* build_uses_and_defs and the clicks: what a link is, of any program.     *)
(***************************************************************************)
Calls(n) == [block : 1 .. n, arg : Nat, deep : Nat]
LinesOf(B) == UNION {Range(B[b].instrs) : b \in DOMAIN B}
LinksIn(p, B, L) ==
  \A l \in L : \E d, u \in LinesOf(B) : l = <<d, u>> /\ Uses(p[d], p[u])
SearchInv ==
  /\ phase \in Later => todo \in Seq(Calls(Len(bb)))
  /\ phase = "search" => /\ pos \in 1 .. Len(bb) /\ at \in 1 .. Len(bb[pos].instrs)
                         /\ prog[Def].instr \in Defining
                         /\ \A c \in Range(todo) : c.arg >= 1
  /\ phase = "blocks" => links = {}
  /\ phase \in {"blocks", "cfg"} => todo = << >>
  /\ LinksIn(prog, bb, links)
  /\ phase # "shown" => tags = NoTags
  /\ GreenDefines

LEMMA RangeOfConcat ==
  ASSUME NEW S, NEW s \in Seq(S), NEW t \in Seq(S)
  PROVE  Range(s \o t) = Range(s) \union Range(t)
<1>1. /\ Len(s) \in Nat /\ DOMAIN s = 1 .. Len(s)
      /\ Len(t) \in Nat /\ DOMAIN t = 1 .. Len(t)
  BY LenProperties
<1>2. /\ DOMAIN (s \o t) = 1 .. Len(s) + Len(t)
      /\ \A k \in 1 .. Len(s) + Len(t) : (s \o t)[k] = IF k <= Len(s) THEN s[k] ELSE t[k - Len(s)]
  BY ConcatProperties, LenProperties
<1>3. \A k \in DOMAIN s : k \in DOMAIN (s \o t) /\ (s \o t)[k] = s[k]
  BY <1>1, <1>2
<1>4. ASSUME NEW k \in DOMAIN t
      PROVE  Len(s) + k \in DOMAIN (s \o t) /\ (s \o t)[Len(s) + k] = t[k]
  BY <1>1, <1>2
<1>5. ASSUME NEW k \in DOMAIN (s \o t)
      PROVE  \/ k \in DOMAIN s /\ (s \o t)[k] = s[k]
             \/ k - Len(s) \in DOMAIN t /\ (s \o t)[k] = t[k - Len(s)]
  BY <1>1, <1>2
<1>6. Range(s) \subseteq Range(s \o t)
  BY <1>3, Zenon DEF Range
<1>7. Range(t) \subseteq Range(s \o t)
  BY <1>4, Zenon DEF Range
<1>8. Range(s \o t) \subseteq Range(s) \union Range(t)
  BY <1>5, Zenon DEF Range
<1> QED
  BY <1>6, <1>7, <1>8

LEMMA Ranges ==
  ASSUME NEW S, NEW s \in Seq(S)
  PROVE  /\ \A x \in S : Range(Append(s, x)) = Range(s) \union {x}
         /\ s # << >> => Range(s) = {Head(s)} \union Range(Tail(s))
<1>1. Len(s) \in Nat /\ DOMAIN s = 1 .. Len(s)
  BY LenProperties
<1>3. ASSUME NEW x \in S
      PROVE  Range(Append(s, x)) = Range(s) \union {x}
  <2>1. /\ DOMAIN Append(s, x) = 1 .. Len(s) + 1 /\ Append(s, x)[Len(s) + 1] = x
        /\ \A k \in 1 .. Len(s) : Append(s, x)[k] = s[k]
    BY AppendProperties, LenProperties
  <2>2. 1 .. Len(s) + 1 = (1 .. Len(s)) \union {Len(s) + 1}
    BY <1>1
  <2> QED
    BY <1>1, <2>1, <2>2 DEF Range
<1>4. ASSUME s # << >>
      PROVE  Range(s) = {Head(s)} \union Range(Tail(s))
  <2>1. /\ Tail(s) \in Seq(S) /\ Len(Tail(s)) = Len(s) - 1 /\ Head(s) = s[1] /\ Len(s) > 0
        /\ \A k \in 1 .. Len(Tail(s)) : Tail(s)[k] = s[k + 1]
    BY <1>4, HeadTailProperties, EmptySeq
  <2>2. DOMAIN Tail(s) = 1 .. Len(s) - 1
    BY <2>1, LenProperties
  <2>3. \A k \in DOMAIN Tail(s) : k + 1 \in DOMAIN s /\ Tail(s)[k] = s[k + 1]
    BY <1>1, <2>1, <2>2
  <2>4. \A k \in DOMAIN s : k = 1 \/ (k - 1 \in DOMAIN Tail(s) /\ Tail(s)[k - 1] = s[k])
    BY <1>1, <2>1, <2>2
  <2>5. 1 \in DOMAIN s
    BY <1>1, <2>1
  <2>6. Range(Tail(s)) \subseteq Range(s) /\ Head(s) \in Range(s)
    BY <2>1, <2>3, <2>5, Zenon DEF Range
  <2>7. \A k \in DOMAIN s : s[k] \in {Head(s)} \union Range(Tail(s))
    <3> TAKE k \in DOMAIN s
    <3>1. CASE k = 1
      BY <2>1, <3>1
    <3>2. CASE k - 1 \in DOMAIN Tail(s) /\ Tail(s)[k - 1] = s[k]
      BY <3>2 DEF Range
    <3> QED
      BY <2>4, <3>1, <3>2
  <2>8. Range(s) \subseteq {Head(s)} \union Range(Tail(s))
    BY <2>7, Zenon DEF Range
  <2> QED
    BY <2>6, <2>8
<1> QED
  BY <1>3, <1>4

LEMMA ShortRanges == Range(<< >>) = {} /\ \A x : Range(<<x>>) = {x}
BY DEF Range

LEMMA MaxIsIn ==
  ASSUME NEW n \in Nat, NEW S, S \subseteq 1 .. n, S # {}
  PROVE  Max(S) \in S
<1>1. S \subseteq 0 .. n
  OBVIOUS
<1>2. \E m \in S : \A k \in S : m >= k
  BY <1>1, Greatest
<1> QED
  BY <1>2 DEF Max

LEMMA SuccType ==
  ASSUME NEW p, NEW B \in Seq(Blk), NEW b \in 1 .. Len(B), Linkable(p, B, b)
  PROVE  SuccOf(p, B, b) \in Seq(1 .. Len(B))
<1> DEFINE ins == EndIns(p, B, b)
<1>1. Len(B) \in Nat /\ DOMAIN B = 1 .. Len(B)
  BY LenProperties
<1>2. \A name : CalledIn(B, name) # {} => Max(CalledIn(B, name)) \in 1 .. Len(B)
  <2> TAKE name
  <2>1. CalledIn(B, name) \subseteq 1 .. Len(B)
    BY <1>1 DEF CalledIn
  <2> QED
    BY <1>1, <2>1, MaxIsIn
<1>3. ins.instr \in conditional_jumps_riscv => ins.instr \notin unconditional_jumps_riscv
  BY DEF conditional_jumps_riscv, unconditional_jumps_riscv
<1>4. ins.instr \notin unconditional_jumps_riscv => b + 1 \in 1 .. Len(B)
  BY <1>1 DEF Linkable, ins
<1>5. \A x, y \in 1 .. Len(B) : <<x, y>> \in Seq(1 .. Len(B)) /\ <<x>> \in Seq(1 .. Len(B))
  OBVIOUS
<1>6. << >> \in Seq(1 .. Len(B))
  OBVIOUS
<1>7. /\ ins.instr \in conditional_jumps_riscv => CalledIn(B, ins.op2) # {}
      /\ ins.instr = "j" => CalledIn(B, ins.op0) # {}
  BY DEF Linkable, ins
<1>8. SuccOf(p, B, b) =
        IF ins.instr \in conditional_jumps_riscv THEN <<Max(CalledIn(B, ins.op2)), b + 1>>
        ELSE IF ins.instr = "j" THEN <<Max(CalledIn(B, ins.op0))>>
        ELSE IF ins.instr \in unconditional_jumps_riscv THEN << >> ELSE <<b + 1>>
  BY DEF SuccOf, ins
<1> HIDE DEF ins
<1> QED
  BY <1>2, <1>3, <1>4, <1>5, <1>6, <1>7, <1>8

LEMMA FunctionIsSeq ==
  ASSUME NEW n \in Nat, NEW S, NEW f \in [1 .. n -> S]
  PROVE  f \in Seq(S)
OBVIOUS

LEMMA PushedType ==
  ASSUME NEW n \in Nat, NEW call \in Calls(n), succ[call.block] \in Seq(1 .. n)
  PROVE  /\ Pushed(call) \in Seq(Calls(n)) /\ Range(succ[call.block]) \subseteq 1 .. n
         /\ Range(Pushed(call)) = {Call(s, 1, call.deep + 1) : s \in Range(succ[call.block])}
<1> DEFINE b == call.block
           next == call.deep + 1
<1>1. Len(succ[b]) \in Nat /\ DOMAIN succ[b] = 1 .. Len(succ[b]) /\ next \in Nat
  BY LenProperties DEF Calls
<1>2. \A k \in 1 .. Len(succ[b]) : succ[b][k] \in 1 .. n
  BY ElementOfSeq
<1>3. \A x \in 1 .. n : Call(x, 1, next) \in Calls(n)
  BY <1>1 DEF Call, Calls
<1>4. \A k \in DOMAIN succ[b] : Pushed(call)[k] = Call(succ[b][k], 1, next)
  BY DEF Pushed
<1>5. DOMAIN Pushed(call) = DOMAIN succ[b]
  BY DEF Pushed
<1>6. Pushed(call) \in [1 .. Len(succ[b]) -> Calls(n)]
  <2>1. Pushed(call) = [k \in 1 .. Len(succ[b]) |-> Call(succ[b][k], 1, next)]
    BY <1>1 DEF Pushed
  <2> QED
    BY <1>2, <1>3, <2>1
<1> HIDE DEF next, b
<1>7. Pushed(call) \in Seq(Calls(n))
  BY <1>1, <1>6, FunctionIsSeq
<1>8. Range(Pushed(call)) = {Call(s, 1, next) : s \in Range(succ[b])}
  BY <1>4, <1>5 DEF Range
<1> QED
  BY <1>1, <1>2, <1>7, <1>8 DEF Range, b, next

\* The last line of the text is a jump if it is in a block.
LEMMA LastIsJump ==
  ASSUME NEW p \in Programs, NEW B \in Seq(Blk), Cut(p, B), Len(p) \in LinesOf(B)
  PROVE  Jumps(p, Len(p))
<1>1. DOMAIN B = 1 .. Len(B)
  BY LenProperties
<1>2. PICK b \in 1 .. Len(B) : Len(p) \in Range(B[b].instrs)
  BY <1>1 DEF LinesOf
<1>3. /\ B[b].instrs \in Seq(Nat) /\ EndOf(B, b) = B[b].instrs[Len(B[b].instrs)]
      /\ EndOf(B, b) \in 1 .. Len(p) /\ Closed(p, B[b].instrs) /\ Len(p) \in Nat
  BY BlockLines, ProgramFacts DEF Cut
<1>4. Len(p) \in B[b].instrs[1] .. EndOf(B, b)
  BY <1>2, LinesAre
<1>5. EndOf(B, b) = Len(p)
  BY <1>3, <1>4
<1> QED
  BY <1>3, <1>5 DEF Closed

\* One call of find_uses: what it leaves to do, and what it links.
LEMMA FindUses ==
  ASSUME LinkedInv, SearchInv, phase = "search", todo # << >>
  PROVE  LET call == Head(todo)
             ls == bb[call.block].instrs IN
         /\ call \in Calls(Len(bb)) /\ call.arg >= 1 /\ call \in Range(todo)
         /\ Tail(todo) \in Seq(Calls(Len(bb)))
         /\ Range(todo) = {call} \union Range(Tail(todo))
         /\ ls \in Seq(Nat) /\ Len(ls) \in Nat
         /\ \A l \in Found(call) : \E k \in Scanned(call) :
              k \in 1 .. Len(ls) /\ l = <<Def, ls[k]>> /\ Uses(prog[Def], prog[ls[k]])
         /\ Searched(call) =>
              /\ todo' \in Seq(Calls(Len(bb)))
              /\ Range(todo') = Range(Tail(todo)) \union
                   (IF Goes_on(call)
                    THEN {Call(s, 1, call.deep + 1) : s \in Range(succ[call.block])} ELSE {})
              /\ Range(succ[call.block]) \subseteq 1 .. Len(bb)
<1> DEFINE call == Head(todo)
           ls == bb[call.block].instrs
           n == Len(bb)
<1>1. bb \in Seq(Blk) /\ n \in Nat /\ todo \in Seq(Calls(n))
  BY LenProperties DEF LinkedInv, BlocksInv, TypeInv, SearchInv, Later
<1>2. call \in Calls(n) /\ Tail(todo) \in Seq(Calls(n))
  BY <1>1, HeadTailProperties
<1>3. Range(todo) = {call} \union Range(Tail(todo))
  BY <1>1, <1>2, Ranges
<1>4. call.arg >= 1 /\ call.arg \in Nat /\ call.block \in 1 .. n
  BY <1>2, <1>3 DEF SearchInv, Calls
<1>5. ls \in Seq(Nat) /\ Len(ls) \in Nat
  <2>1. bb[call.block] \in Blk
    BY <1>1, <1>4, ElementOfSeq
  <2> QED
    BY <2>1, LenProperties DEF Blk
<1>6. Scanned(call) \subseteq 1 .. Len(ls)
  BY <1>4, <1>5 DEF Scanned
<1>7. \A l \in Found(call) : \E k \in Scanned(call) :
        k \in 1 .. Len(ls) /\ l = <<Def, ls[k]>> /\ Uses(prog[Def], prog[ls[k]])
  BY <1>6 DEF Found
<1>8. succ[call.block] \in Seq(1 .. n)
  <2>1. succ[call.block] = SuccOf(prog, bb, call.block) /\ Linkable(prog, bb, call.block)
    BY <1>4 DEF LinkedInv, ArrowInv, Linked, Later
  <2> QED
    BY <1>1, <1>4, <2>1, SuccType
<1>9. ASSUME Searched(call)
      PROVE  /\ todo' \in Seq(Calls(n))
             /\ Range(todo') = Range(Tail(todo)) \union
                   (IF Goes_on(call)
                    THEN {Call(s, 1, call.deep + 1) : s \in Range(succ[call.block])} ELSE {})
  <2> DEFINE more == IF Goes_on(call) THEN Pushed(call) ELSE << >>
  <2>1. todo' = more \o Tail(todo)
    BY <1>9 DEF Searched
  <2>2. /\ Pushed(call) \in Seq(Calls(n))
        /\ Range(Pushed(call)) = {Call(s, 1, call.deep + 1) : s \in Range(succ[call.block])}
    BY <1>1, <1>2, <1>8, PushedType
  <2>3. << >> \in Seq(Calls(n)) /\ Range(<< >>) = {}
    BY EmptySeq, ShortRanges
  <2>4. /\ more \in Seq(Calls(n))
        /\ Range(more)
             = IF Goes_on(call)
               THEN {Call(s, 1, call.deep + 1) : s \in Range(succ[call.block])} ELSE {}
    BY <2>2, <2>3
  <2> HIDE DEF more, call, n
  <2>5. more \o Tail(todo) \in Seq(Calls(n))
    BY <1>2, <2>4, ConcatProperties
  <2>6. Range(more \o Tail(todo)) = Range(more) \union Range(Tail(todo))
    <3>1. \A S : \A t, u \in Seq(S) : Range(t \o u) = Range(t) \union Range(u)
      BY RangeOfConcat
    <3>2. more \in Seq(Calls(n)) /\ Tail(todo) \in Seq(Calls(n))
      BY <1>2, <2>4
    <3> QED
      BY ONLY <3>1, <3>2
  <2> QED
    BY <2>1, <2>4, <2>5, <2>6
<1>10. Range(succ[call.block]) \subseteq 1 .. n
  BY <1>1, <1>2, <1>8, PushedType
<1> HIDE DEF call, ls, n
<1> QED
  BY <1>2, <1>3, <1>4, <1>5, <1>7, <1>9, <1>10 DEF call, ls, n

LEMMA SearchStep == LinkedInv /\ LinkedInv' /\ SearchInv /\ [Next]_vars => SearchInv'
<1> SUFFICES ASSUME LinkedInv, LinkedInv', SearchInv, [Next]_vars PROVE SearchInv'
  OBVIOUS
<1>1. /\ prog \in Programs /\ bb \in Seq(Blk) /\ Len(bb) \in Nat /\ DOMAIN bb = 1 .. Len(bb)
      /\ pos \in Nat \ {0} /\ at \in Nat \ {0} /\ Cut(prog, bb)
  BY LenProperties DEF LinkedInv, BlocksInv, TypeInv, CutInv
<1>2. CASE UNCHANGED vars
  BY <1>2 DEF vars, SearchInv, LinksIn, LinesOf, GreenDefines, Def, Later
<1>3. ASSUME phase # "shown", tags' = tags
      PROVE  tags' = NoTags /\ GreenDefines'
  BY <1>3 DEF SearchInv, GreenDefines, NoTags
<1>4. CASE Terminator \/ Label \/ Ordinary
  <2>1. /\ phase = "blocks" /\ phase' = "blocks" /\ links' = links /\ tags' = tags
        /\ todo' = todo
    BY <1>4 DEF Terminator, Label, Ordinary, Reading, NextLine
  <2>2. links = {} /\ todo = << >>
    BY <2>1 DEF SearchInv
  <2> QED
    BY <1>3, <2>1, <2>2 DEF SearchInv, LinksIn, Later
<1>5. ASSUME prog' = prog, bb' = bb, links' = links
      PROVE  LinksIn(prog, bb, links)'
  BY <1>5 DEF SearchInv
<1>6. CASE Get_bb_return \/ Conditional \/ Unconditional \/ FallThrough
  <2>1. /\ phase' \notin {"search", "shown", "blocks"} \union Later
        /\ phase \notin {"shown"} \union Later /\ prog' = prog /\ bb' = bb
        /\ links' = links /\ tags' = tags /\ todo' = todo /\ phase \in {"blocks", "cfg"}
    BY <1>6 DEF Get_bb_return, Conditional, Unconditional, FallThrough, Fail, Insert_nodes,
       Linking, Later
  <2>2. todo = << >>
    BY <2>1 DEF SearchInv
  <2> QED
    BY <1>3, <1>5, <2>1, <2>2 DEF SearchInv, Later
<1>7. CASE Build_cfg_return \/ NoDefinition \/ NextBlock \/ Find_uses_return
  <2>1. /\ phase' = "uses" /\ phase # "shown" /\ prog' = prog /\ bb' = bb /\ links' = links
        /\ tags' = tags /\ todo' = todo /\ phase \in {"cfg"} \union Later
    BY <1>7 DEF Build_cfg_return, NoDefinition, NextBlock, Find_uses_return, Scanning, Later
  <2>2. todo \in Seq(Calls(Len(bb)))
    BY <2>1, EmptySeq DEF SearchInv
  <2> QED
    BY <1>3, <1>5, <2>1, <2>2 DEF SearchInv
<1>8. CASE Search
  <2>1. /\ phase' = "search" /\ phase = "uses" /\ prog' = prog /\ bb' = bb /\ links' = links
        /\ tags' = tags /\ todo' = <<Call(pos, at + 1, 0)>> /\ pos' = pos /\ at' = at
        /\ pos <= Len(bb) /\ at <= Len(bb[pos].instrs) /\ prog[Def].instr \in Defining
    BY <1>8 DEF Search, Scanning, Defines
  <2>2. pos \in 1 .. Len(bb)
    BY <1>1, <2>1
  <2>3. Len(bb[pos].instrs) \in Nat
    BY <1>1, <2>2, BlockLines, LenProperties
  <2>4. at \in 1 .. Len(bb[pos].instrs)
    BY <1>1, <2>1, <2>3
  <2>5. Call(pos, at + 1, 0) \in Calls(Len(bb)) /\ Call(pos, at + 1, 0).arg = at + 1
    BY <1>1, <2>2 DEF Call, Calls
  <2>6. todo' \in Seq(Calls(Len(bb))) /\ Range(todo') = {Call(pos, at + 1, 0)}
    BY <2>1, <2>5, ShortRanges
  <2>7. \A c \in Range(todo') : c.arg >= 1
    BY <1>1, <2>5, <2>6
  <2>8. Def' = Def
    BY <2>1 DEF Def
  <2> QED
    BY <1>3, <1>5, <2>1, <2>2, <2>4, <2>6, <2>7, <2>8 DEF SearchInv, Later
<1>9. CASE Find_uses
  <2> DEFINE call == Head(todo)
  <2>0. CASE TooDeep
    <3>1. /\ phase = "search" /\ phase' = "RecursionError" /\ prog' = prog /\ bb' = bb
          /\ links' = links /\ tags' = tags
      BY <1>9, <2>0 DEF Find_uses, Fail
    <3> QED
      BY <1>3, <1>5, <3>1 DEF SearchInv, Later
  <2> SUFFICES ASSUME ~ TooDeep PROVE SearchInv'
    BY <2>0
  <2>1. /\ phase' = "search" /\ phase = "search" /\ prog' = prog /\ bb' = bb /\ tags' = tags
        /\ pos' = pos /\ at' = at /\ todo # << >>
        /\ \/ todo' = Tail(todo) /\ links' = links
           \/ Searched(call)
    BY <1>9 DEF Find_uses
  <2>2. Tail(todo) \in Seq(Calls(Len(bb))) /\ Range(Tail(todo)) \subseteq Range(todo)
    BY <2>1, FindUses
  <2>3. \A c \in Range(todo) : c.arg >= 1
    BY <2>1 DEF SearchInv
  <2>4. todo' \in Seq(Calls(Len(bb))) /\ \A c \in Range(todo') : c.arg >= 1
    <3>1. CASE todo' = Tail(todo)
      BY <2>2, <2>3, <3>1
    <3>2. CASE Searched(call)
      <4>1. /\ todo' \in Seq(Calls(Len(bb)))
            /\ Range(todo') \subseteq Range(Tail(todo)) \union
                 {Call(s, 1, call.deep + 1) : s \in Range(succ[call.block])}
        BY <2>1, <3>2, FindUses
      <4>2. \A s : Call(s, 1, call.deep + 1).arg >= 1
        BY DEF Call
      <4> QED
        BY <2>2, <2>3, <4>1, <4>2
    <3> QED
      BY <2>1, <3>1, <3>2
  <2>5. pos \in 1 .. Len(bb) /\ at \in 1 .. Len(bb[pos].instrs) /\ prog[Def].instr \in Defining
    BY <2>1 DEF SearchInv
  <2>6. LinksIn(prog, bb, links')
    <3>1. CASE links' = links
      BY <3>1 DEF SearchInv
    <3>2. CASE Searched(call)
      <4>1. ASSUME NEW l \in Found(call)
            PROVE  \E d, u \in LinesOf(bb) : l = <<d, u>> /\ Uses(prog[d], prog[u])
        <5> DEFINE ls == bb[call.block].instrs
        <5>1. call.block \in 1 .. Len(bb) /\ ls \in Seq(Nat)
          BY <2>1, FindUses DEF Calls
        <5>2. PICK k \in 1 .. Len(ls) : l = <<Def, ls[k]>> /\ Uses(prog[Def], prog[ls[k]])
          BY <2>1, FindUses
        <5>3. ls[k] \in LinesOf(bb)
          BY <1>1, <5>1, LenProperties DEF LinesOf, Range
        <5>4. bb[pos].instrs \in Seq(Nat)
          BY <1>1, <2>5, BlockLines
        <5>5. Def \in LinesOf(bb)
          BY <1>1, <2>5, <5>4, LenProperties DEF LinesOf, Range, Def
        <5> QED
          BY <5>2, <5>3, <5>5
      <4>2. links' = links \union Found(call)
        BY <3>2 DEF Searched
      <4> QED
        BY <4>1, <4>2 DEF SearchInv, LinksIn
    <3> QED
      BY <2>1, <3>1, <3>2
  <2>7. Def' = Def
    BY <2>1 DEF Def
  <2> QED
    BY <1>3, <2>1, <2>4, <2>5, <2>6, <2>7 DEF SearchInv, Later
<1>10. CASE Build_uses_and_defs_return
  <2>1. /\ phase' = "show" /\ phase = "uses" /\ prog' = prog /\ bb' = bb /\ links' = links
        /\ tags' = tags /\ todo' = todo
    BY <1>10 DEF Build_uses_and_defs_return
  <2> QED
    BY <1>3, <1>5, <2>1 DEF SearchInv, Later
<1>14. CASE Show
  <2>1. /\ phase = "show" /\ prog' = prog /\ bb' = bb /\ links' = links /\ tags' = tags
        /\ \/ phase' = "ValueError"
           \/ phase' = "draw" /\ todo' = <<Call(1, 1, 0)>>
    BY <1>14 DEF Show, Fail
  <2>2. 1 \in 1 .. Len(bb)
    BY <1>1, <2>1, EmptySeq DEF LinkedInv, BlocksInv, NonEmpty
  <2>3. <<Call(1, 1, 0)>> \in Seq(Calls(Len(bb)))
    BY <2>2 DEF Call, Calls
  <2> QED
    BY <1>3, <1>5, <2>1, <2>3 DEF SearchInv, Later
<1>11. CASE Process_cfg
  <2> DEFINE call == Head(todo)
  <2>1. /\ phase = "draw" /\ prog' = prog /\ bb' = bb /\ links' = links
        /\ tags' = tags /\ todo # << >>
        /\ \/ phase' = "RecursionError"
           \/ phase' = "draw" /\ (todo' = Tail(todo) \/ todo' = Pushed(call) \o Tail(todo))
    BY <1>11 DEF Process_cfg, Fail
  <2>2. todo \in Seq(Calls(Len(bb)))
    BY <2>1 DEF SearchInv, Later
  <2>3. Tail(todo) \in Seq(Calls(Len(bb))) /\ call \in Calls(Len(bb))
    BY <2>1, <2>2, HeadTailProperties
  <2>4. call.block \in 1 .. Len(bb)
    BY <2>3 DEF Calls
  <2>5. succ[call.block] \in Seq(1 .. Len(bb))
    <3>1. succ[call.block] = SuccOf(prog, bb, call.block) /\ Linkable(prog, bb, call.block)
      BY <2>1, <2>4 DEF LinkedInv, ArrowInv, Linked, Later
    <3> QED
      BY <1>1, <2>4, <3>1, SuccType
  <2> HIDE DEF call
  <2>6. Pushed(call) \in Seq(Calls(Len(bb)))
    BY <1>1, <2>3, <2>5, PushedType
  <2>7. phase' = "draw" => todo' \in Seq(Calls(Len(bb)))
    BY <2>1, <2>3, <2>6, ConcatProperties
  <2> QED
    BY <1>3, <1>5, <2>1, <2>7 DEF SearchInv, Later
<1>12. CASE Layout
  <2>1. /\ phase' \in {"shown", "ZeroDivisionError", "KeyError"} /\ phase = "draw"
        /\ prog' = prog /\ bb' = bb /\ links' = links /\ tags' = tags /\ todo' = todo
    BY <1>12 DEF Layout, Fail
  <2> QED
    BY <1>3, <1>5, <2>1 DEF SearchInv, Later
<1>13. ASSUME NEW line \in 1 .. Len(prog) + 2, Handle_click(line)
       PROVE  SearchInv'
  <2>1. /\ phase' = "shown" /\ phase = "shown" /\ prog' = prog /\ bb' = bb /\ links' = links
        /\ todo' = todo
    BY <1>13 DEF Handle_click
  <2>2. Len(prog) \in Nat
    BY <1>1, ProgramFacts
  <2>3. ASSUME NEW g \in tags'.h0
        PROVE  \E l \in tags'.h1 : <<g - 1, l - 1>> \in links
    <3> DEFINE ins == IF line - 2 = -1 THEN Len(prog) ELSE line - 2 + 1
    <3>1. tags' # NoTags
      BY <2>3 DEF NoTags
    <3>2. tags' = [h0 |-> {l[1] + 1 : l \in {l \in links : l[2] = ins}},
                   h1 |-> {line},
                   h2 |-> {l[2] + 1 : l \in {l \in links : l[1] = ins}}]
      BY <1>13, <3>1 DEF Handle_click
    <3> HIDE DEF ins
    <3>3. PICK l \in links : l[2] = ins /\ g = l[1] + 1
      BY <2>3, <3>2
    <3>4. PICK d \in LinesOf(bb), u \in LinesOf(bb) : l = <<d, u>> /\ Uses(prog[d], prog[u])
      BY <3>3 DEF SearchInv, LinksIn
    <3>5. d \in Nat
      <4>1. PICK b \in 1 .. Len(bb) : d \in Range(bb[b].instrs)
        BY <1>1 DEF LinesOf
      <4>2. bb[b].instrs \in Seq(Nat)
        BY <1>1, BlockLines
      <4> QED
        BY <4>1, <4>2, LenProperties DEF Range
    <3>6. ~ Jumps(prog, u)
      BY <3>4 DEF Uses, Jumps, TwoOperands, ThreeOperands, block_terminators_riscv,
         conditional_jumps_riscv, unconditional_jumps_riscv
    <3>7. u # Len(prog)
      BY <1>1, <3>4, <3>6, LastIsJump
    <3>8. u = ins
      BY <3>3, <3>4
    <3>9. u = line - 1
      BY <2>2, <3>7, <3>8 DEF ins
    <3>10. g - 1 = d /\ line \in tags'.h1
      BY <3>2, <3>3, <3>4, <3>5
    <3> QED
      BY <3>3, <3>4, <3>9, <3>10
  <2>4. GreenDefines'
    BY <2>1, <2>3 DEF GreenDefines
  <2> QED
    BY <1>5, <2>1, <2>4 DEF SearchInv, Later
<1> QED
  BY <1>2, <1>4, <1>6, <1>7, <1>8, <1>9, <1>10, <1>11, <1>12, <1>13, <1>14 DEF Next

SearchedInv == LinkedInv /\ SearchInv
LEMMA SearchedInvariant == Spec => []SearchedInv
<1>1. Init => SearchInv
  BY DEF Init, SearchInv, Later, LinksIn, GreenDefines, NoTags
<1> QED
  BY <1>1, SearchStep, LinkedInvariant, PTL DEF Spec, SearchedInv

\* For every program, whatever its names: what a click highlights in green defines
\* something in the line that it selects, that of the name selecting no use, since
\* the last line of the text ends the last block only if it is a jump.
THEOREM ClicksAreTrue == Spec => []GreenDefines
<1>1. SearchedInv => GreenDefines
  BY DEF SearchedInv, SearchInv
<1> QED
  BY <1>1, SearchedInvariant, PTL

-----------------------------------------------------------------------------
(***************************************************************************)
(* find_uses follows the flow of control: it comes to lines that the       *)
(* definition reaches.                                                     *)
(***************************************************************************)
Begins(p, B, def, c) ==
  LET ls == B[c.block].instrs IN
  IF c.arg <= Len(ls) THEN ls[c.arg] \in Unhidden(p, def) ELSE EndOf(B, c.block) = def
Unkilled(p, ls, def, m, n) == \A j \in m .. n : ~ Kills(p[def], p[ls[j]])

LEMMA ScanUnhidden ==
  ASSUME NEW p \in Programs, NEW B \in Seq(Blk), Legible(p), Cut(p, B), NEW def,
         NEW c \in Calls(Len(B)), c.arg >= 1, Begins(p, B, def, c),
         NEW k \in c.arg .. Len(B[c.block].instrs),
         Unkilled(p, B[c.block].instrs, def, c.arg, k - 1)
  PROVE  B[c.block].instrs[k] \in Unhidden(p, def)
<1> DEFINE ls == B[c.block].instrs
           a == c.arg
           X == {m \in Nat : a + m <= k => ls[a + m] \in Unhidden(p, def)}
<1>1. a \in Nat /\ a >= 1 /\ c.block \in 1 .. Len(B)
  BY DEF Calls
<1>2. ls \in Seq(Nat) /\ Piece(p, ls) /\ Len(ls) \in Nat
  BY <1>1, BlockLines, LenProperties
<1>3. k \in Nat /\ a <= k /\ k <= Len(ls)
  BY <1>1, <1>2
<1>4. 0 \in X
  <2>1. ls[a] \in Unhidden(p, def)
    BY <1>1, <1>2, <1>3 DEF Begins
  <2>2. a + 0 = a
    BY <1>1
  <2> QED
    BY <2>1, <2>2
<1>5. ASSUME NEW m \in Nat, m \in X
      PROVE  m + 1 \in X
  <2> SUFFICES ASSUME a + (m + 1) <= k
               PROVE  ls[a + (m + 1)] \in Unhidden(p, def)
    OBVIOUS
  <2>5. Unkilled(p, ls, def, a, k - 1)
    OBVIOUS
  <2> HIDE DEF ls, a
  <2>0. a + m \in Nat /\ a + m < k /\ a <= a + m
    BY <1>1, <1>3
  <2>1. /\ a + m \in 1 .. Len(ls) - 1 /\ (a + m) + 1 = a + (m + 1) /\ a + m <= k
        /\ a + m \in a .. k - 1
    BY <1>1, <1>2, <1>3, <2>0
  <2>2. ls[a + m] \in Unhidden(p, def)
    BY <1>5, <2>1
  <2>3. Flow(p, ls[a + m]) = {ls[(a + m) + 1]}
    BY <1>2, <2>1, FlowInside
  <2>4. ~ Kills(p[def], p[ls[a + m]])
    BY <2>1, <2>5 DEF Unkilled
  <2> HIDE DEF X
  <2> QED
    BY <2>1, <2>2, <2>3, <2>4, UnhiddenClosed
<1> HIDE DEF X
<1>6. k - a \in X
  <2>1. k - a \in Nat
    BY <1>1, <1>3
  <2> QED
    BY <1>4, <1>5, <2>1, Induction
<1>7. a + (k - a) = k
  BY <1>1, <1>3
<1>8. a + (k - a) <= k
  BY <1>1, <1>3
<1>9. ls[a + (k - a)] \in Unhidden(p, def)
  BY <1>6, <1>8 DEF X
<1> QED
  BY <1>7, <1>9

LEMMA ScanOn ==
  ASSUME NEW p \in Programs, NEW B \in Seq(Blk), Legible(p), Cut(p, B), Named(p, B), Distinct(B),
         NEW def, NEW c \in Calls(Len(B)), c.arg >= 1, Begins(p, B, def, c),
         Linkable(p, B, c.block),
         Unkilled(p, B[c.block].instrs, def, c.arg, Len(B[c.block].instrs)),
         NEW s \in Range(SuccOf(p, B, c.block)), NEW deep
  PROVE  Begins(p, B, def, Call(s, 1, deep))
<1> DEFINE ls == B[c.block].instrs
           n == Len(ls)
           e == EndOf(B, c.block)
<1>1. c.block \in 1 .. Len(B) /\ c.arg \in Nat /\ c.arg >= 1
  BY DEF Calls
<1>2. ls \in Seq(Nat) /\ Piece(p, ls) /\ n \in Nat /\ e = ls[n]
  BY <1>1, BlockLines, LenProperties
<1>3. /\ Range(SuccOf(p, B, c.block)) \subseteq 1 .. Len(B)
      /\ HeadsOf(B, SuccOf(p, B, c.block)) \subseteq Flow(p, e)
  BY <1>1, ArrowsFlow
<1>4. B[s].instrs[1] \in Flow(p, e) /\ s \in 1 .. Len(B)
  BY <1>3 DEF HeadsOf
<1>5. Flow(p, e) \subseteq Unhidden(p, def)
  <2>1. CASE c.arg <= n
    <3>1. n \in c.arg .. n
      BY <1>1, <1>2, <2>1
    <3>2. Unkilled(p, ls, def, c.arg, n - 1) /\ ~ Kills(p[def], p[ls[n]])
      <4>1. \A j \in c.arg .. n - 1 : j \in c.arg .. n
        BY <1>1, <1>2
      <4> QED
        BY <3>1, <4>1 DEF Unkilled
    <3>3. ls[n] \in Unhidden(p, def)
      BY <3>1, <3>2, ScanUnhidden
    <3> QED
      BY <1>2, <3>2, <3>3, UnhiddenClosed
  <2>2. CASE ~ (c.arg <= n)
    <3>1. e = def
      BY <2>2 DEF Begins
    <3> QED
      BY <3>1, UnhiddenClosed
  <2> QED
    BY <2>1, <2>2
<1>6. 1 <= Len(B[s].instrs)
  BY <1>4, BlockLines DEF Piece
<1>7. Call(s, 1, deep).block = s /\ Call(s, 1, deep).arg = 1
  BY DEF Call
<1> HIDE DEF e
<1> QED
  BY <1>4, <1>5, <1>6, <1>7 DEF Begins

LEMMA ProgramStays == [Next]_vars => prog' = prog
<1> SUFFICES ASSUME [Next]_vars PROVE prog' = prog
  OBVIOUS
<1>1. CASE UNCHANGED vars
  BY <1>1 DEF vars
<1>2. CASE \/ Terminator \/ Label \/ Ordinary \/ Get_bb_return
           \/ Conditional \/ Unconditional \/ FallThrough
  BY <1>2 DEF Terminator, Label, Ordinary, NextLine, Get_bb_return, Conditional,
     Unconditional, FallThrough, Fail, Insert_nodes
<1>3. CASE \/ Build_cfg_return \/ NoDefinition \/ NextBlock \/ Search \/ Find_uses
           \/ Find_uses_return \/ Build_uses_and_defs_return \/ Show \/ Process_cfg \/ Layout
           \/ \E line \in 1 .. Len(prog) + 2 : Handle_click(line)
  BY <1>3 DEF Build_cfg_return, NoDefinition, NextBlock, Search, Find_uses, Find_uses_return,
     Build_uses_and_defs_return, Show, Process_cfg, Layout, Handle_click, Fail
<1> QED
  BY <1>1, <1>2, <1>3 DEF Next

SoundInv ==
  Legible(prog) =>
    /\ \A l \in links : l[2] \in Unhidden(prog, l[1])
    /\ phase = "search" => \A c \in Range(todo) : Begins(prog, bb, Def, c)

LEMMA SoundStep == SearchedInv /\ SoundInv /\ [Next]_vars => SoundInv'
<1> SUFFICES ASSUME SearchedInv, SoundInv, [Next]_vars, Legible(prog)
             PROVE  /\ prog' = prog
                    /\ \A l \in links' : l[2] \in Unhidden(prog, l[1])
                    /\ phase' = "search" => \A c \in Range(todo') : Begins(prog, bb', Def', c)
  BY ProgramStays DEF SoundInv
<1>1. LinkedInv /\ SearchInv
  BY DEF SearchedInv
<1>2. CASE UNCHANGED vars
  BY <1>2 DEF vars, SoundInv, Def
<1>3. CASE \/ Terminator \/ Label \/ Ordinary \/ Get_bb_return
           \/ Conditional \/ Unconditional \/ FallThrough \/ Build_cfg_return
           \/ NoDefinition \/ NextBlock \/ Find_uses_return
           \/ Build_uses_and_defs_return \/ Show \/ Process_cfg \/ Layout
           \/ \E line \in 1 .. Len(prog) + 2 : Handle_click(line)
  <2>1. prog' = prog /\ links' = links /\ phase' # "search"
    BY <1>3 DEF Terminator, Label, Ordinary, Reading, NextLine, Get_bb_return, Conditional,
       Unconditional, FallThrough, Linking, Build_cfg_return, NoDefinition, NextBlock, Scanning,
       Find_uses_return, Build_uses_and_defs_return, Show, Process_cfg, Layout, Handle_click, Fail,
       Insert_nodes
  <2> QED
    BY <2>1 DEF SoundInv
<1>4. CASE Search
  <2>1. /\ phase = "uses" /\ prog' = prog /\ bb' = bb /\ links' = links /\ Def' = Def
        /\ todo' = <<Call(pos, at + 1, 0)>>
        /\ pos <= Len(bb) /\ at <= Len(bb[pos].instrs)
    BY <1>4 DEF Search, Scanning, Defines, Def
  <2>2. /\ prog \in Programs /\ bb \in Seq(Blk) /\ Cut(prog, bb)
        /\ pos \in 1 .. Len(bb) /\ at \in Nat \ {0}
    BY <1>1, <2>1, Blocks DEF Later, LinkedInv, BlocksInv, TypeInv
  <2> DEFINE ls == bb[pos].instrs
  <2>3. ls \in Seq(Nat) /\ Piece(prog, ls) /\ Len(ls) \in Nat /\ EndOf(bb, pos) = ls[Len(ls)]
    BY <2>2, BlockLines, LenProperties
  <2>4. at < Len(ls) => ls[at + 1] \in Unhidden(prog, Def)
    <3>1. ASSUME at < Len(ls)
          PROVE  Flow(prog, ls[at]) = {ls[at + 1]}
      <4>1. at \in 1 .. Len(ls) - 1
        BY <2>2, <2>3, <3>1
      <4> QED
        BY <2>2, <2>3, <4>1, FlowInside
    <3> QED
      BY <2>2, <3>1, UnhiddenClosed DEF Def
  <2>5. Call(pos, at + 1, 0).block = pos /\ Call(pos, at + 1, 0).arg = at + 1
    BY DEF Call
  <2>6. at < Len(ls) <=> at + 1 <= Len(ls)
    BY <2>2, <2>3
  <2>7. at + 1 > Len(ls) => EndOf(bb, pos) = Def
    <3>1. at + 1 > Len(ls) => at = Len(ls)
      BY <2>1, <2>2, <2>3
    <3> QED
      BY <2>3, <3>1 DEF Def
  <2>8. ~ (at + 1 <= Len(ls)) => at + 1 > Len(ls)
    BY <2>2, <2>3
  <2>9. Begins(prog, bb, Def, Call(pos, at + 1, 0))
    BY <2>4, <2>5, <2>6, <2>7, <2>8 DEF Begins
  <2>10. Range(todo') = {Call(pos, at + 1, 0)}
    BY <2>1, ShortRanges
  <2> HIDE DEF ls
  <2> QED
    BY <2>1, <2>9, <2>10 DEF SoundInv
<1>5. CASE Find_uses
  <2> DEFINE call == Head(todo)
             ls == bb[call.block].instrs
  <2>0. CASE TooDeep
    <3>1. prog' = prog /\ links' = links /\ phase' # "search"
      BY <1>5, <2>0 DEF Find_uses, Fail
    <3> QED
      BY <3>1 DEF SoundInv
  <2> SUFFICES ASSUME ~ TooDeep
               PROVE  /\ prog' = prog
                      /\ \A l \in links' : l[2] \in Unhidden(prog, l[1])
                      /\ phase' = "search" => \A c \in Range(todo') : Begins(prog, bb', Def', c)
    BY <2>0
  <2>1. /\ phase = "search" /\ prog' = prog /\ bb' = bb /\ Def' = Def /\ todo # << >>
        /\ \/ todo' = Tail(todo) /\ links' = links
           \/ Searched(call)
    BY <1>5 DEF Find_uses, Def
  <2>2. /\ call \in Calls(Len(bb)) /\ call.arg >= 1 /\ call \in Range(todo)
        /\ Range(todo) = {call} \union Range(Tail(todo))
        /\ \A l \in Found(call) : \E k \in Scanned(call) :
             k \in 1 .. Len(ls) /\ l = <<Def, ls[k]>> /\ Uses(prog[Def], prog[ls[k]])
    BY <1>1, <2>1, FindUses
  <2>3. \A c \in Range(todo) : Begins(prog, bb, Def, c)
    BY <2>1 DEF SoundInv
  <2>4. CASE todo' = Tail(todo) /\ links' = links
    BY <2>1, <2>2, <2>3, <2>4 DEF SoundInv
  <2>5. CASE Searched(call)
    <3>1. /\ prog \in Programs /\ bb \in Seq(Blk) /\ Cut(prog, bb) /\ Named(prog, bb)
          /\ Distinct(bb) /\ call.block \in 1 .. Len(bb)
          /\ succ[call.block] = SuccOf(prog, bb, call.block) /\ Linkable(prog, bb, call.block)
      BY <1>1, <2>1, <2>2, Blocks DEF Later, Calls
    <3>2. Begins(prog, bb, Def, call)
      BY <2>2, <2>3
    <3>3. ASSUME NEW l \in Found(call)
          PROVE  l[2] \in Unhidden(prog, l[1])
      <4>1. PICK k \in Scanned(call) : l = <<Def, ls[k]>>
        BY <2>2
      <4>2. k \in call.arg .. Len(ls) /\ Unkilled(prog, ls, Def, call.arg, k - 1)
        BY <4>1 DEF Scanned, Unkilled
      <4>3. ls[k] \in Unhidden(prog, Def)
        BY <2>2, <3>1, <3>2, <4>2, ScanUnhidden
      <4> QED
        BY <4>1, <4>3
    <3>4. ASSUME NEW c \in Range(todo')
          PROVE  Begins(prog, bb, Def, c)
      <4>1. Range(todo') = Range(Tail(todo)) \union
              (IF Goes_on(call)
               THEN {Call(s, 1, call.deep + 1) : s \in Range(succ[call.block])} ELSE {})
        BY <1>1, <2>1, <2>5, FindUses
      <4>2. CASE c \in Range(Tail(todo))
        BY <2>2, <2>3, <4>2
      <4>3. CASE c \notin Range(Tail(todo))
        <5>1. Goes_on(call) /\ \E s \in Range(succ[call.block]) : c = Call(s, 1, call.deep + 1)
          BY <4>1, <4>3
        <5>2. Unkilled(prog, ls, Def, call.arg, Len(ls))
          BY <5>1 DEF Goes_on, Unkilled
        <5> QED
          BY <2>2, <3>1, <3>2, <5>1, <5>2, ScanOn
      <4> QED
        BY <4>2, <4>3
    <3>5. links' = links \union Found(call)
      BY <2>5 DEF Searched
    <3> QED
      BY <2>1, <3>3, <3>4, <3>5 DEF SoundInv
  <2> QED
    BY <2>1, <2>4, <2>5
<1> QED
  BY <1>2, <1>3, <1>4, <1>5 DEF Next

\* What find_uses takes for a way is one: it stops at every write, and not only there.
LEMMA UnhiddenIsReached ==
  ASSUME NEW p \in Programs, NEW def
  PROVE  Unhidden(p, def) \subseteq Reached(p, def)
<1> DEFINE writes == {l \in Code(p) : Redefines(p[def], p[l])}
           T == Reached(p, def)
<1>1. Flow(p, def) \in SUBSET Code(p)
  BY FlowIsCode
<1>2. T = Onward(p, Flow(p, def), writes)
  BY DEF Reached
<1> HIDE DEF T
<1>3. Flow(p, def) \subseteq T /\ ClosedBut(p, writes, T)
  <2> HIDE DEF writes
  <2> QED
    BY <1>1, <1>2, OnwardClosed
<1>4. writes \subseteq Redefined(p, def)
  BY DEF Redefined, Redefines, Kills
<1>5. ClosedBut(p, Redefined(p, def), T)
  BY <1>3, <1>4 DEF ClosedBut
<1>6. Unhidden(p, def) = Onward(p, Flow(p, def), Redefined(p, def))
  BY DEF Unhidden, Redefined, Kills
<1>7. Onward(p, Flow(p, def), Redefined(p, def)) \subseteq T
  BY <1>1, <1>3, <1>5, OnwardWithin
<1> QED
  BY <1>6, <1>7 DEF T

\* For every function that main.py can read: a link of the analysis from an
\* instruction that writes a register is right, a line that reads the register and
\* that control comes to with no other write of it on the way.
THEOREM LinksAreSound == Spec => []LinksSound
<1>1. Init => SoundInv
  BY DEF Init, SoundInv
<1>2. SearchedInv /\ SoundInv => LinksSound
  <2> SUFFICES ASSUME SearchedInv, SoundInv, Legible(prog), phase = "show", NEW l \in links
               PROVE  Read(prog[l[1]], prog[l[2]]) /\ l[2] \in Reached(prog, l[1])
    BY DEF LinksSound, Analysed
  <2>1. /\ prog \in Programs /\ bb \in Seq(Blk) /\ Cut(prog, bb) /\ DOMAIN bb = 1 .. Len(bb)
    BY Blocks DEF SearchedInv, Later
  <2>2. PICK d \in LinesOf(bb), u \in LinesOf(bb) : l = <<d, u>> /\ Uses(prog[d], prog[u])
    BY DEF SearchedInv, SearchInv, LinksIn
  <2>3. LinesOf(bb) \subseteq Code(prog)
    <3> SUFFICES ASSUME NEW b \in 1 .. Len(bb), NEW x \in Range(bb[b].instrs)
                 PROVE  x \in Code(prog)
      BY <2>1 DEF LinesOf
    <3>1. bb[b].instrs \in Seq(Nat) /\ Piece(prog, bb[b].instrs)
      BY <2>1, BlockLines
    <3>2. PICK k \in 1 .. Len(bb[b].instrs) : x = bb[b].instrs[k]
      BY <3>1, LenProperties DEF Range
    <3> QED
      BY <2>1, <3>1, <3>2, CodeOfBlock
  <2>4. Read(prog[d], prog[u])
    BY <2>2, <2>3 DEF Legible
  <2>5. l[2] \in Unhidden(prog, l[1])
    BY DEF SoundInv
  <2> QED
    BY <2>1, <2>2, <2>4, <2>5, UnhiddenIsReached
<1> QED
  BY <1>1, <1>2, SoundStep, SearchedInvariant, PTL DEF Spec

-----------------------------------------------------------------------------
(***************************************************************************)
(* find_uses misses nothing: what a search from line a of block s has seen *)
(* when it ends is closed under the flow of control.  Entry is the index   *)
(* where it comes into a block, M the blocks that it has met.              *)
(***************************************************************************)
Straight(p) == \A l \in Code(p) : p[l].instr \notin Leaves
Entry(b, s, a) == IF b = s THEN a + 1 ELSE 1
Scans(p, ls, def, m) == {k \in m .. Len(ls) : Unkilled(p, ls, def, m, k - 1)}
Answered(p, ls, L, def, m) ==
  \A k \in Scans(p, ls, def, m) : Uses(p[def], p[ls[k]]) => <<def, ls[k]>> \in L
Passes(p, ls, def, m) == Unkilled(p, ls, def, m, Len(ls))

Complete(p, B, L, s, a) ==
  LET d == B[s].instrs[a] IN
  \A u \in Unhidden(p, d) \intersect LinesOf(B) :
    /\ Asked(p[d], p[u])
    /\ ~ (u \in Range(B[s].instrs) /\ u <= d)
    => <<d, u>> \in L

Shaped(p, B) ==
  /\ p \in Programs /\ B \in Seq(Blk) /\ Legible(p) /\ Straight(p)
  /\ Cut(p, B) /\ Named(p, B) /\ Distinct(B)
  /\ \A b \in 1 .. Len(B) : Linkable(p, B, b)

SeenLines(p, B, M, s, a) ==
  {B[s].instrs[k] : k \in 1 .. a} \union
  UNION {{B[b].instrs[k] : k \in Scans(p, B[b].instrs, B[s].instrs[a], Entry(b, s, a))} : b \in M}
Roams(p, B, M, s, a) ==
  /\ s \in 1 .. Len(B) /\ a \in 1 .. Len(B[s].instrs) /\ s \in M /\ M \subseteq 1 .. Len(B)
  /\ \A b \in M : Passes(p, B[b].instrs, B[s].instrs[a], Entry(b, s, a))
                    => Range(SuccOf(p, B, b)) \subseteq M

LEMMA BlockSize ==
  ASSUME NEW p, NEW B, Shaped(p, B), NEW b \in 1 .. Len(B)
  PROVE  /\ B[b].instrs \in Seq(Nat) /\ Piece(p, B[b].instrs) /\ Len(B[b].instrs) \in Nat
         /\ Len(B[b].instrs) >= 1 /\ EndOf(B, b) = B[b].instrs[Len(B[b].instrs)]
BY BlockLines, PieceFacts DEF Shaped

LEMMA LeavesBlock ==
  ASSUME NEW p, NEW B, NEW M, NEW s, NEW a, Shaped(p, B), Roams(p, B, M, s, a),
         NEW b \in M, Passes(p, B[b].instrs, B[s].instrs[a], Entry(b, s, a))
  PROVE  Flow(p, EndOf(B, b)) \subseteq SeenLines(p, B, M, s, a)
<1> DEFINE def == B[s].instrs[a]
<1>1. /\ b \in 1 .. Len(B) /\ s \in 1 .. Len(B) /\ a \in 1 .. Len(B[s].instrs)
      /\ Range(SuccOf(p, B, b)) \subseteq M
  BY DEF Roams
<1>2. EndIns(p, B, b).instr \notin Leaves
  BY <1>1, EndIsCode DEF Shaped, Straight, EndIns
<1>3. Flow(p, EndOf(B, b)) = HeadsOf(B, SuccOf(p, B, b))
  BY <1>1, <1>2, ArrowsFlow DEF Shaped
<1>4. ASSUME NEW c \in M
      PROVE  B[c].instrs[1] \in SeenLines(p, B, M, s, a)
  <2>1. c \in 1 .. Len(B)
    BY DEF Roams
  <2>2. CASE c = s
    <3>1. 1 \in 1 .. a
      BY <1>1, BlockSize
    <3> QED
      BY <2>2, <3>1 DEF SeenLines
  <2>3. CASE c # s
    <3>1. Entry(c, s, a) = 1
      BY <2>3 DEF Entry
    <3>2. 1 \in Scans(p, B[c].instrs, def, 1)
      <4>1. 1 \in 1 .. Len(B[c].instrs)
        BY <2>1, BlockSize
      <4> QED
        BY <4>1 DEF Scans, Unkilled
    <3> QED
      BY <3>1, <3>2 DEF SeenLines
  <2> QED
    BY <2>2, <2>3
<1> QED
  BY <1>1, <1>3, <1>4 DEF HeadsOf

LEMMA SeenIsClosed ==
  ASSUME NEW p, NEW B, NEW M, NEW s, NEW a, Shaped(p, B), Roams(p, B, M, s, a)
  PROVE  /\ Flow(p, B[s].instrs[a]) \subseteq SeenLines(p, B, M, s, a)
         /\ ClosedBut(p, Redefined(p, B[s].instrs[a]), SeenLines(p, B, M, s, a))
<1> DEFINE def == B[s].instrs[a]
           T == SeenLines(p, B, M, s, a)
           own == B[s].instrs
<1>1. /\ s \in 1 .. Len(B) /\ a \in 1 .. Len(own) /\ s \in M /\ M \subseteq 1 .. Len(B)
      /\ p \in Programs /\ Legible(p)
  BY DEF Roams, Shaped
<1>2. own \in Seq(Nat) /\ Piece(p, own) /\ Len(own) \in Nat /\ EndOf(B, s) = own[Len(own)]
  BY <1>1, BlockSize
<1>3. a \in Nat /\ a <= Len(own)
  BY <1>1, <1>2
<1>4. ASSUME NEW k \in 1 .. a
      PROVE  Flow(p, own[k]) \subseteq T
  <2>1. CASE k < Len(own)
    <3>1. k \in 1 .. Len(own) - 1 /\ k + 1 \in 1 .. Len(own) /\ k \in Nat
      BY <1>2, <1>3, <2>1
    <3>2. Flow(p, own[k]) = {own[k + 1]}
      BY <1>1, <1>2, <3>1, FlowInside
    <3>3. CASE k # a
      <4>1. k + 1 \in 1 .. a
        BY <1>3, <3>3
      <4> QED
        BY <3>2, <4>1 DEF SeenLines
    <3>4. CASE k = a
      <4>1. Entry(s, s, a) = a + 1
        BY DEF Entry
      <4>2. a + 1 \in Scans(p, own, def, a + 1)
        <5>1. a + 1 \in (a + 1) .. Len(own) /\ (a + 1) .. (a + 1) - 1 = {}
          BY <1>3, <3>1, <3>4
        <5> QED
          BY <5>1 DEF Scans, Unkilled
      <4> QED
        BY <1>1, <3>2, <3>4, <4>1, <4>2 DEF SeenLines
    <3> QED
      BY <3>3, <3>4
  <2>2. CASE ~ (k < Len(own))
    <3>1. k = Len(own) /\ a = Len(own)
      BY <1>2, <1>3, <2>2
    <3>2. Passes(p, own, def, Entry(s, s, a))
      <4>1. (a + 1) .. Len(own) = {}
        BY <1>3, <3>1
      <4> QED
        BY <4>1 DEF Passes, Unkilled, Entry
    <3> QED
      BY <1>1, <1>2, <3>1, <3>2, LeavesBlock
  <2> QED
    BY <2>1, <2>2
<1>5. ASSUME NEW b \in M, NEW k \in Scans(p, B[b].instrs, def, Entry(b, s, a)),
             B[b].instrs[k] \notin Redefined(p, def)
      PROVE  Flow(p, B[b].instrs[k]) \subseteq T
  <2> DEFINE ls == B[b].instrs
             m == Entry(b, s, a)
  <2>1. b \in 1 .. Len(B) /\ m \in Nat /\ m >= 1
    BY <1>1, <1>3 DEF Entry
  <2>2. ls \in Seq(Nat) /\ Piece(p, ls) /\ Len(ls) \in Nat /\ EndOf(B, b) = ls[Len(ls)]
    BY <2>1, BlockSize
  <2> HIDE DEF m, ls
  <2>3. k \in m .. Len(ls) /\ Unkilled(p, ls, def, m, k - 1)
    BY DEF Scans, ls, m
  <2>4. k \in 1 .. Len(ls) /\ k \in Nat
    BY <2>1, <2>2, <2>3
  <2>5. ~ Kills(p[def], p[ls[k]])
    <3>1. ls[k] \in Code(p)
      BY <1>1, <2>2, <2>4, CodeOfBlock
    <3> QED
      BY <1>5, <3>1 DEF Redefined, ls
  <2>6. Unkilled(p, ls, def, m, k)
    <3>1. \A j \in m .. k : j \in m .. k - 1 \/ j = k
      BY <2>1, <2>4
    <3> QED
      BY <2>3, <2>5, <3>1 DEF Unkilled
  <2>7. CASE k < Len(ls)
    <3>1. k \in 1 .. Len(ls) - 1 /\ k + 1 \in m .. Len(ls) /\ (k + 1) - 1 = k
      BY <2>1, <2>2, <2>3, <2>4, <2>7
    <3>2. Flow(p, ls[k]) = {ls[k + 1]}
      BY <1>1, <2>2, <3>1, FlowInside
    <3>3. k + 1 \in Scans(p, ls, def, m)
      BY <2>6, <3>1 DEF Scans
    <3> QED
      BY <3>2, <3>3 DEF SeenLines, ls, m
  <2>8. CASE ~ (k < Len(ls))
    <3>1. k = Len(ls)
      BY <2>2, <2>4, <2>8
    <3>2. Passes(p, ls, def, m)
      BY <2>6, <3>1 DEF Passes
    <3>3. Flow(p, EndOf(B, b)) \subseteq T
      BY <3>2, LeavesBlock DEF ls, m
    <3> QED
      BY <2>2, <3>1, <3>3 DEF ls
  <2> QED
    BY <2>7, <2>8 DEF ls
<1>6. a \in 1 .. a
  BY <1>1, <1>2
<1>7. ASSUME NEW l \in T \ Redefined(p, def)
      PROVE  Flow(p, l) \subseteq T
  <2>1. \/ \E k \in 1 .. a : l = own[k]
        \/ \E b \in M : \E k \in Scans(p, B[b].instrs, def, Entry(b, s, a)) : l = B[b].instrs[k]
    BY <1>7 DEF SeenLines
  <2> HIDE DEF T, own, def
  <2> QED
    BY <1>4, <1>5, <1>7, <2>1
<1> QED
  BY <1>4, <1>6, <1>7 DEF ClosedBut

LEMMA SearchIsComplete ==
  ASSUME NEW p, NEW B, NEW M, NEW s, NEW a, NEW L, Shaped(p, B), Roams(p, B, M, s, a),
         \A b \in M : Answered(p, B[b].instrs, L, B[s].instrs[a], Entry(b, s, a))
  PROVE  Complete(p, B, L, s, a)
<1> DEFINE def == B[s].instrs[a]
           own == B[s].instrs
<1>1. /\ s \in 1 .. Len(B) /\ a \in 1 .. Len(own) /\ p \in Programs /\ Legible(p)
  BY DEF Roams, Shaped
<1>2. own \in Seq(Nat) /\ Piece(p, own) /\ Len(own) \in Nat
  BY <1>1, BlockSize
<1>3. Unhidden(p, def) \subseteq SeenLines(p, B, M, s, a)
  <2>1. Flow(p, def) \in SUBSET Code(p)
    BY FlowIsCode
  <2>2. Unhidden(p, def) = Onward(p, Flow(p, def), Redefined(p, def))
    BY DEF Unhidden, Redefined, Kills
  <2> QED
    BY <1>1, <2>1, <2>2, SeenIsClosed, OnwardWithin
<1>4. ASSUME NEW u \in Unhidden(p, def), Asked(p[def], p[u])
      PROVE  Uses(p[def], p[u])
  BY <1>4, ReadsAssumption DEF Uses, Asked, NamedBy, In
<1>5. ASSUME NEW k \in 1 .. a
      PROVE  own[k] \in Range(own) /\ own[k] <= def
  <2>1. k \in 1 .. Len(own) /\ k <= a /\ k \in Nat /\ a \in Nat
    BY <1>1, <1>2
  <2>2. own[k] = own[1] + k - 1 /\ own[a] = own[1] + a - 1 /\ own[1] \in Nat
    BY <1>1, <1>2, <2>1, PieceFacts
  <2>3. own[k] \in Range(own)
    BY <1>2, <2>1, LenProperties DEF Range
  <2> QED
    BY <2>1, <2>2, <2>3
<1> SUFFICES ASSUME NEW u \in Unhidden(p, def) \intersect LinesOf(B),
                    Asked(p[def], p[u]), ~ (u \in Range(own) /\ u <= def)
             PROVE  <<def, u>> \in L
  BY DEF Complete
<1>6. \A k \in 1 .. a : u # own[k]
  BY <1>5
<1>7. PICK b \in M : \E k \in Scans(p, B[b].instrs, def, Entry(b, s, a)) : u = B[b].instrs[k]
  BY <1>3, <1>6 DEF SeenLines
<1>8. Uses(p[def], p[u])
  BY <1>4
<1> QED
  BY <1>7, <1>8 DEF Answered

\* The search from line a of block s: D the names it has met, T the calls to make.
Met(B, D) == {b \in 1 .. Len(B) : B[b].name \in Range(D)}
Progress(p, B, L, D, T, s, a) ==
  LET def == B[s].instrs[a] IN
  /\ D \in Seq(NameSet)
  /\ \/ D = << >> /\ T = <<Call(s, a + 1, 0)>>
     \/ s \in Met(B, D) /\ \A c \in Range(T) : c.arg = 1
  /\ \A b \in Met(B, D) :
       /\ Answered(p, B[b].instrs, L, def, Entry(b, s, a))
       /\ Passes(p, B[b].instrs, def, Entry(b, s, a))
            => \A t \in Range(SuccOf(p, B, b)) :
                 t \in Met(B, D) \/ \E c \in Range(T) : c.block = t

Past(b, k) ==
  \/ phase \in {"uses", "search"} /\ (b < pos \/ (b = pos /\ k < at))
  \/ phase = "show"
Completed ==
  \A b \in 1 .. Len(bb) : \A k \in 1 .. Len(bb[b].instrs) :
    Past(b, k) /\ prog[bb[b].instrs[k]].instr \in Defining => Complete(prog, bb, links, b, k)
FoundInv ==
  /\ phase \in {"blocks", "cfg"} => at = 1
  /\ Legible(prog) /\ Straight(prog) =>
       /\ phase = "search" => Progress(prog, bb, links, done, todo, pos, at)
       /\ Completed

LEMMA CompleteGrows ==
  ASSUME NEW p, NEW B, NEW K, NEW L, K \subseteq L, NEW s, NEW a, Complete(p, B, K, s, a)
  PROVE  Complete(p, B, L, s, a)
BY DEF Complete

LEMMA ShapedNow ==
  ASSUME LinkedInv, Legible(prog), Straight(prog), phase \in Later
  PROVE  Shaped(prog, bb) /\ Len(bb) \in Nat /\ \A b \in 1 .. Len(bb) : succ[b] = SuccOf(prog, bb, b)
BY Blocks DEF Shaped

LEMMA ProgressStep ==
  ASSUME LinkedInv, SearchInv, Legible(prog), Straight(prog), phase = "search",
         Progress(prog, bb, links, done, todo, pos, at), Find_uses, ~ TooDeep
  PROVE  Progress(prog, bb, links', done', todo', pos, at)
<1> DEFINE call == Head(todo)
           b == call.block
           ls == bb[b].instrs
           name == bb[b].name
<1>1. todo # << >> /\ phase \in Later
  BY DEF Find_uses, Later
<1>2. /\ call \in Calls(Len(bb)) /\ call.arg >= 1 /\ call \in Range(todo)
      /\ Range(todo) = {call} \union Range(Tail(todo))
  BY <1>1, FindUses
<1>3. /\ Shaped(prog, bb) /\ b \in 1 .. Len(bb) /\ succ[b] = SuccOf(prog, bb, b)
      /\ pos \in 1 .. Len(bb)
  BY <1>1, <1>2, ShapedNow DEF Calls, SearchInv
<1>4. done \in Seq(NameSet) /\ name \in NameSet
  <2>1. bb[b] \in Blk
    BY <1>3, ElementOfSeq DEF Shaped
  <2> QED
    BY <2>1 DEF Progress, Blk
<1>5. /\ \/ done = << >> /\ todo = <<Call(pos, at + 1, 0)>>
         \/ pos \in Met(bb, done) /\ \A c \in Range(todo) : c.arg = 1
      /\ \A m \in Met(bb, done) :
           /\ Answered(prog, bb[m].instrs, links, Def, Entry(m, pos, at))
           /\ Passes(prog, bb[m].instrs, Def, Entry(m, pos, at))
                => \A t \in Range(SuccOf(prog, bb, m)) :
                     t \in Met(bb, done) \/ \E c \in Range(todo) : c.block = t
  BY DEF Progress, Def
<1>6. CASE name \in Range(done)
  <2>1. todo' = Tail(todo) /\ links' = links /\ done' = done
    BY <1>6 DEF Find_uses
  <2>2. done # << >>
    BY <1>6, ShortRanges
  <2>3. b \in Met(bb, done)
    BY <1>3, <1>6 DEF Met
  <2>4. pos \in Met(bb, done) /\ \A c \in Range(todo') : c.arg = 1
    BY <1>2, <1>5, <2>1, <2>2
  <2>5. \A t : (\E c \in Range(todo) : c.block = t)
                 => t \in Met(bb, done) \/ \E c \in Range(todo') : c.block = t
    BY <1>2, <2>1, <2>3
  <2> HIDE DEF call, b, ls, name
  <2> QED
    BY <1>4, <1>5, <2>1, <2>4, <2>5 DEF Progress, Def
<1>7. CASE name \notin Range(done)
  <2>1. Searched(call) /\ done' = Append(done, name)
    BY <1>7 DEF Find_uses
  <2>2. /\ Range(todo') = Range(Tail(todo)) \union
             (IF Goes_on(call)
              THEN {Call(s, 1, call.deep + 1) : s \in Range(succ[b])} ELSE {})
        /\ links' = links \union Found(call)
    BY <1>1, <2>1, FindUses DEF Searched
  <2>3. done' \in Seq(NameSet) /\ Range(done') = Range(done) \union {name}
    BY <1>4, <2>1, Ranges, AppendProperties
  <2>4. Met(bb, done') = Met(bb, done) \union {b}
    BY <1>3, <2>3 DEF Met, Shaped, Distinct
  <2>5. b \notin Met(bb, done)
    BY <1>7 DEF Met
  <2>6. /\ pos \in Met(bb, done') /\ Entry(b, pos, at) = call.arg
        /\ \A c \in Range(Tail(todo)) : c.arg = 1
    <3>1. CASE done = << >> /\ todo = <<Call(pos, at + 1, 0)>>
      <4>1. call = Call(pos, at + 1, 0) /\ Tail(todo) = << >>
        BY <3>1
      <4>2. b = pos /\ call.arg = at + 1
        BY <4>1 DEF Call
      <4> QED
        BY <2>4, <4>1, <4>2, ShortRanges DEF Entry
    <3>2. CASE pos \in Met(bb, done) /\ \A c \in Range(todo) : c.arg = 1
      <4>1. b # pos
        BY <2>5, <3>2
      <4> QED
        BY <1>2, <2>4, <3>2, <4>1 DEF Entry
    <3> QED
      BY <1>5, <3>1, <3>2
  <2>7. \A c \in Range(todo') : c.arg = 1
    <3>1. \A s : Call(s, 1, call.deep + 1).arg = 1
      BY DEF Call
    <3> QED
      BY <2>2, <2>6, <3>1
  <2>8. Answered(prog, ls, links', Def, call.arg)
    <3>1. Scans(prog, ls, Def, call.arg) = Scanned(call)
      BY DEF Scans, Scanned, Unkilled
    <3>2. ASSUME NEW k \in Scanned(call), Uses(prog[Def], prog[ls[k]])
          PROVE  <<Def, ls[k]>> \in Found(call)
      BY <3>2 DEF Found
    <3> HIDE DEF call, ls
    <3> QED
      BY <2>2, <3>1, <3>2 DEF Answered
  <2>9. Passes(prog, ls, Def, call.arg) =>
          \A t \in Range(SuccOf(prog, bb, b)) : \E c \in Range(todo') : c.block = t
    <3>1. Passes(prog, ls, Def, call.arg) => Goes_on(call)
      BY DEF Passes, Goes_on, Unkilled
    <3>2. \A s : Call(s, 1, call.deep + 1).block = s
      BY DEF Call
    <3> HIDE DEF call, ls, b
    <3> QED
      BY <1>3, <2>2, <3>1, <3>2
  <2>10. ASSUME NEW m \in Met(bb, done)
         PROVE  /\ Answered(prog, bb[m].instrs, links', Def, Entry(m, pos, at))
                /\ Passes(prog, bb[m].instrs, Def, Entry(m, pos, at))
                     => \A t \in Range(SuccOf(prog, bb, m)) :
                          t \in Met(bb, done') \/ \E c \in Range(todo') : c.block = t
    <3>1. Answered(prog, bb[m].instrs, links', Def, Entry(m, pos, at))
      BY <1>5, <2>2 DEF Answered
    <3>2. \A t : (\E c \in Range(todo) : c.block = t) =>
                   t = b \/ \E c \in Range(todo') : c.block = t
      BY <1>2, <2>2
    <3> HIDE DEF call, ls, b
    <3> QED
      BY <1>5, <2>4, <3>1, <3>2
  <2> HIDE DEF call, name
  <2>11. ASSUME NEW m \in Met(bb, done')
         PROVE  /\ Answered(prog, bb[m].instrs, links', Def, Entry(m, pos, at))
                /\ Passes(prog, bb[m].instrs, Def, Entry(m, pos, at))
                     => \A t \in Range(SuccOf(prog, bb, m)) :
                          t \in Met(bb, done') \/ \E c \in Range(todo') : c.block = t
    BY <2>4, <2>6, <2>8, <2>9, <2>10
  <2> QED
    BY <2>3, <2>6, <2>7, <2>11 DEF Progress, Def
<1> QED
  BY <1>6, <1>7

LEMMA SearchEnds ==
  ASSUME LinkedInv, SearchInv, Legible(prog), Straight(prog), phase = "search", todo = << >>,
         Progress(prog, bb, links, done, todo, pos, at)
  PROVE  Complete(prog, bb, links, pos, at)
<1> DEFINE M == Met(bb, done)
<1>1. /\ Shaped(prog, bb) /\ pos \in 1 .. Len(bb) /\ at \in 1 .. Len(bb[pos].instrs)
  BY ShapedNow DEF SearchInv, Later
<1>2. todo # <<Call(pos, at + 1, 0)>> /\ Range(todo) = {}
  BY ShortRanges
<1>3. /\ pos \in M
      /\ \A b \in M :
           /\ Answered(prog, bb[b].instrs, links, bb[pos].instrs[at], Entry(b, pos, at))
           /\ Passes(prog, bb[b].instrs, bb[pos].instrs[at], Entry(b, pos, at))
                => Range(SuccOf(prog, bb, b)) \subseteq M
  BY <1>2 DEF Progress
<1>4. Roams(prog, bb, M, pos, at)
  BY <1>1, <1>3 DEF Roams, Met
<1> HIDE DEF M
<1> QED
  BY <1>1, <1>3, <1>4, SearchIsComplete

LEMMA FoundStep == SearchedInv /\ SearchedInv' /\ FoundInv /\ [Next]_vars => FoundInv'
<1> SUFFICES ASSUME SearchedInv, SearchedInv', FoundInv, [Next]_vars PROVE FoundInv'
  OBVIOUS
<1>1. /\ LinkedInv /\ SearchInv /\ Len(bb) \in Nat /\ pos \in Nat \ {0} /\ at \in Nat \ {0}
      /\ prog' = prog
  BY LenProperties, ProgramStays DEF SearchedInv, LinkedInv, BlocksInv, TypeInv
<1>2. CASE UNCHANGED vars
  BY <1>2 DEF vars, FoundInv, Completed, Past
<1>3. CASE \/ Terminator \/ Label \/ Ordinary \/ Get_bb_return
           \/ Conditional \/ Unconditional \/ FallThrough
  <2>1. /\ at' = at /\ phase \in {"blocks", "cfg"}
        /\ phase' \in {"blocks", "cfg", "exited", "KeyError", "AssertionError"}
    BY <1>3 DEF Terminator, Label, Ordinary, Reading, NextLine, Get_bb_return, Conditional,
       Unconditional, FallThrough, Linking, Fail, Insert_nodes
  <2> QED
    BY <2>1 DEF FoundInv, Completed, Past
<1>4. CASE \/ Show \/ Process_cfg \/ Layout
           \/ \E line \in 1 .. Len(prog) + 2 : Handle_click(line)
  <2>1. phase' \in {"draw"} \union Ended
    BY <1>4 DEF Show, Process_cfg, Layout, Fail, Handle_click, Ended
  <2> QED
    BY <2>1 DEF FoundInv, Completed, Past, Ended
\* The other actions keep the blocks and links that there are, and get further.
<1>5. ASSUME bb' = bb, links \subseteq links',
             \A b \in 1 .. Len(bb) : \A k \in 1 .. Len(bb[b].instrs) :
               /\ Past(b, k)' /\ prog[bb[b].instrs[k]].instr \in Defining
               /\ Legible(prog) /\ Straight(prog)
               => Past(b, k) \/ Complete(prog, bb, links, b, k)
      PROVE  Legible(prog) /\ Straight(prog) => Completed'
  <2> SUFFICES ASSUME Legible(prog), Straight(prog), NEW b \in 1 .. Len(bb),
                      NEW k \in 1 .. Len(bb[b].instrs),
                      Past(b, k)', prog[bb[b].instrs[k]].instr \in Defining
               PROVE  Complete(prog, bb, links', b, k)
    BY <1>1, <1>5 DEF Completed
  <2>1. Complete(prog, bb, links, b, k)
    BY <1>5 DEF FoundInv, Completed
  <2> QED
    BY <1>5, <2>1, CompleteGrows
<1>6. ASSUME phase' \notin {"blocks", "cfg"},
             Legible(prog) /\ Straight(prog) => Completed',
             Legible(prog) /\ Straight(prog) /\ phase' = "search" =>
               Progress(prog, bb', links', done', todo', pos', at')
      PROVE  FoundInv'
  BY <1>1, <1>6 DEF FoundInv
<1>7. CASE Build_cfg_return
  <2>1. /\ phase' = "uses" /\ pos' = 1 /\ at' = at /\ bb' = bb /\ links' = links
        /\ phase = "cfg"
    BY <1>7 DEF Build_cfg_return
  <2>2. at = 1
    BY <2>1 DEF FoundInv
  <2>3. ASSUME NEW b \in 1 .. Len(bb), NEW k \in 1 .. Len(bb[b].instrs)
        PROVE  ~ Past(b, k)'
    <3>1. ~ (b < 1) /\ (b = 1 => k >= 1)
      BY <1>1
    <3>2. ~ (k < 1)
      OBVIOUS
    <3> QED
      BY <2>1, <2>2, <3>1, <3>2 DEF Past
  <2> QED
    BY <1>5, <1>6, <2>1, <2>3
<1>8. CASE NoDefinition
  <2>1. /\ phase' = "uses" /\ phase = "uses" /\ pos' = pos /\ at' = at + 1 /\ bb' = bb
        /\ links' = links /\ at <= Len(bb[pos].instrs)
        /\ ~ (prog[bb[pos].instrs[at]].instr \in Defining)
    BY <1>8 DEF NoDefinition, Scanning, Defines, Def
  <2>2. ASSUME NEW b \in 1 .. Len(bb), NEW k \in 1 .. Len(bb[b].instrs), Past(b, k)',
               prog[bb[b].instrs[k]].instr \in Defining
        PROVE  Past(b, k)
    <3>1. b < pos \/ (b = pos /\ k < at + 1)
      BY <2>1, <2>2 DEF Past
    <3>2. ~ (b = pos /\ k = at)
      BY <2>1, <2>2
    <3>3. k < at + 1 => k < at \/ k = at
      BY <1>1
    <3> QED
      BY <2>1, <3>1, <3>2, <3>3 DEF Past
  <2> QED
    BY <1>5, <1>6, <2>1, <2>2
<1>9. CASE NextBlock
  <2>1. /\ phase' = "uses" /\ phase = "uses" /\ pos' = pos + 1 /\ at' = 1 /\ bb' = bb
        /\ links' = links /\ at > Len(bb[pos].instrs) /\ pos <= Len(bb)
    BY <1>9 DEF NextBlock, Scanning
  <2>2. ASSUME NEW b \in 1 .. Len(bb), NEW k \in 1 .. Len(bb[b].instrs), Past(b, k)'
        PROVE  Past(b, k)
    <3>1. b < pos + 1 \/ (b = pos + 1 /\ k < 1)
      BY <2>1, <2>2 DEF Past
    <3>2. ~ (k < 1)
      OBVIOUS
    <3>3. b < pos \/ b = pos
      BY <1>1, <3>1, <3>2
    <3>4. b = pos => k < at
      <4>1. Len(bb[b].instrs) \in Nat
        BY <1>1, BlockLines, LenProperties DEF LinkedInv, BlocksInv, TypeInv, CutInv
      <4> QED
        BY <1>1, <2>1, <4>1
    <3> QED
      BY <2>1, <3>3, <3>4 DEF Past
  <2> QED
    BY <1>5, <1>6, <2>1, <2>2
<1>10. CASE Search
  <2>1. /\ phase' = "search" /\ phase = "uses" /\ pos' = pos /\ at' = at /\ bb' = bb
        /\ links' = links /\ done' = << >> /\ todo' = <<Call(pos, at + 1, 0)>>
    BY <1>10 DEF Search, Scanning
  <2>2. \A b, k : Past(b, k)' => Past(b, k)
    BY <2>1 DEF Past
  <2>3. done' \in Seq(NameSet) /\ Met(bb, done') = {}
    BY <2>1, ShortRanges DEF Met
  <2>4. Progress(prog, bb, links, done', todo', pos, at)
    BY <2>1, <2>3 DEF Progress
  <2> QED
    BY <1>5, <1>6, <2>1, <2>2, <2>4
<1>11. CASE Find_uses
  <2>0. CASE TooDeep
    <3>1. phase' = "RecursionError"
      BY <1>11, <2>0 DEF Find_uses, Fail
    <3> QED
      BY <3>1 DEF FoundInv, Completed, Past
  <2> SUFFICES ASSUME ~ TooDeep PROVE FoundInv'
    BY <2>0
  <2>1. /\ phase' = "search" /\ phase = "search" /\ pos' = pos /\ at' = at /\ bb' = bb
        /\ links \subseteq links'
    BY <1>11 DEF Find_uses, Searched
  <2>2. \A b, k : Past(b, k)' => Past(b, k)
    BY <2>1 DEF Past
  <2>3. Legible(prog) /\ Straight(prog) => Progress(prog, bb, links', done', todo', pos, at)
    BY <1>1, <1>11, <2>1, ProgressStep DEF FoundInv
  <2> QED
    BY <1>5, <1>6, <2>1, <2>2, <2>3
<1>12. CASE Find_uses_return
  <2>1. /\ phase' = "uses" /\ phase = "search" /\ pos' = pos /\ at' = at + 1 /\ bb' = bb
        /\ links' = links /\ todo = << >>
    BY <1>12 DEF Find_uses_return
  <2>2. Legible(prog) /\ Straight(prog) => Complete(prog, bb, links, pos, at)
    BY <1>1, <2>1, SearchEnds DEF FoundInv
  <2>3. ASSUME NEW b \in 1 .. Len(bb), NEW k \in 1 .. Len(bb[b].instrs), Past(b, k)'
        PROVE  Past(b, k) \/ (b = pos /\ k = at)
    <3>1. b < pos \/ (b = pos /\ k < at + 1)
      BY <2>1, <2>3 DEF Past
    <3>2. k < at + 1 => k < at \/ k = at
      BY <1>1
    <3> QED
      BY <2>1, <3>1, <3>2 DEF Past
  <2> QED
    BY <1>5, <1>6, <2>1, <2>2, <2>3
<1>13. CASE Build_uses_and_defs_return
  <2>1. /\ phase' = "show" /\ phase = "uses" /\ pos > Len(bb) /\ bb' = bb /\ links' = links
    BY <1>13 DEF Build_uses_and_defs_return
  <2>2. \A b \in 1 .. Len(bb) : b < pos
    BY <1>1, <2>1
  <2>3. \A b \in 1 .. Len(bb) : \A k : Past(b, k)
    BY <2>1, <2>2 DEF Past
  <2> QED
    BY <1>5, <1>6, <2>1, <2>3
<1> QED
  BY <1>2, <1>3, <1>4, <1>7, <1>8, <1>9, <1>10, <1>11, <1>12, <1>13 DEF Next

\* For every function that main.py can read and no call or trap interrupts: the
\* search, which marks a block when it comes to it and never returns, links every
\* use that find_uses asks and no first operand hides, but those that a loop brings
\* it back to in the definition's own block.
THEOREM LinksAreFound == Spec => []LinksFound
<1>1. Init => FoundInv
  BY DEF Init, FoundInv, Completed, Past
<1>2. SearchedInv /\ FoundInv => LinksFound
  <2> SUFFICES ASSUME SearchedInv, FoundInv, Legible(prog), Straight(prog), phase = "show",
                      NEW b \in DOMAIN bb, NEW d \in Lines(b), prog[d].instr \in Defining,
                      NEW u \in Unhidden(prog, d) \intersect Covered,
                      Read(prog[d], prog[u]), Asked(prog[d], prog[u]),
                      ~ (u \in Lines(b) /\ u <= d)
               PROVE  <<d, u>> \in links
    BY DEF LinksFound, Analysed, Straight
  <2>1. /\ prog \in Programs /\ bb \in Seq(Blk) /\ Cut(prog, bb) /\ DOMAIN bb = 1 .. Len(bb)
    BY Blocks DEF SearchedInv, Later
  <2>2. bb[b].instrs \in Seq(Nat)
    BY <2>1, BlockLines
  <2>3. PICK k \in 1 .. Len(bb[b].instrs) : d = bb[b].instrs[k]
    BY <2>2, LenProperties DEF Lines, Range
  <2>4. Complete(prog, bb, links, b, k)
    BY <2>1, <2>3 DEF FoundInv, Completed, Past
  <2>5. u \in LinesOf(bb)
    BY DEF Covered, LinesOf, Lines
  <2> QED
    BY <2>3, <2>4, <2>5 DEF Complete, Lines
<1> QED
  BY <1>1, <1>2, FoundStep, SearchedInvariant, PTL DEF Spec

-----------------------------------------------------------------------------
(***************************************************************************)
(* The lines that the blocks hold: what get_bb drops is not come to.       *)
(***************************************************************************)
\* Blocks with all the blocks behind their arrows hold all that control comes to.
LEMMA HeldIsClosed ==
  ASSUME NEW p, NEW B, Shaped(p, B), NEW M, M \subseteq 1 .. Len(B),
         \A b \in M : Range(SuccOf(p, B, b)) \subseteq M,
         NEW l \in UNION {Range(B[b].instrs) : b \in M}
  PROVE  Flow(p, l) \subseteq UNION {Range(B[b].instrs) : b \in M}
<1>1. p \in Programs /\ B \in Seq(Blk) /\ Legible(p) /\ Cut(p, B) /\ Straight(p)
  BY DEF Shaped
<1>2. PICK b \in M : b \in 1 .. Len(B) /\ l \in Range(B[b].instrs)
  OBVIOUS
<1> DEFINE ls == B[b].instrs
<1>3. /\ ls \in Seq(Nat) /\ Piece(p, ls) /\ Len(ls) \in Nat /\ EndOf(B, b) = ls[Len(ls)]
  BY BlockSize
<1>4. PICK k \in 1 .. Len(ls) : l = ls[k]
  BY <1>2, <1>3, LenProperties DEF Range
<1>5. CASE k < Len(ls)
  <2>1. k \in 1 .. Len(ls) - 1 /\ k + 1 \in 1 .. Len(ls)
    BY <1>3, <1>5
  <2>2. Flow(p, l) = {ls[k + 1]}
    BY <1>1, <1>3, <1>4, <2>1, FlowInside
  <2>3. ls[k + 1] \in Range(ls)
    BY <1>3, <2>1, LenProperties DEF Range
  <2> QED
    BY <1>2, <2>2, <2>3
<1>6. CASE ~ (k < Len(ls))
  <2>1. l = EndOf(B, b)
    <3>1. k = Len(ls)
      BY <1>3, <1>6
    <3> QED
      BY <1>3, <1>4, <3>1
  <2>2. EndIns(p, B, b).instr \notin Leaves
    BY <1>1, <1>2, EndIsCode DEF Straight, EndIns
  <2>3. Flow(p, l) = HeadsOf(B, SuccOf(p, B, b)) /\ Range(SuccOf(p, B, b)) \subseteq M
    BY <1>2, <2>1, <2>2, ArrowsFlow DEF Shaped
  <2>4. \A s \in 1 .. Len(B) : B[s].instrs[1] \in Range(B[s].instrs)
    <3> TAKE s \in 1 .. Len(B)
    <3>1. 1 \in 1 .. Len(B[s].instrs) /\ B[s].instrs \in Seq(Nat)
      BY BlockSize
    <3> QED
      BY <3>1, LenProperties DEF Range
  <2> QED
    BY <2>3, <2>4 DEF HeadsOf
<1> QED
  BY <1>5, <1>6

LEMMA EntryIsHeld ==
  ASSUME NEW p, NEW B, Shaped(p, B), B # << >>
  PROVE  Min(Code(p)) \in LinesOf(B) /\ Min(Code(p)) \in Code(p)
<1> DEFINE h == B[1].instrs[1]
<1>1. /\ p \in Programs /\ B \in Seq(Blk) /\ Legible(p) /\ Cut(p, B)
      /\ DOMAIN B = 1 .. Len(B) /\ 1 \in 1 .. Len(B) /\ DOMAIN p = 1 .. Len(p) /\ Len(p) \in Nat
  BY LenProperties, ProgramFacts DEF Shaped
<1>2. 1 \in 1 .. Len(B[1].instrs) /\ B[1].instrs \in Seq(Nat) /\ Piece(p, B[1].instrs)
  BY <1>1, BlockSize
<1>3. h \in Code(p) /\ h \in Range(B[1].instrs) /\ h \in 1 .. Len(p)
  BY <1>1, <1>2, CodeOfBlock, LenProperties DEF Range, Code
<1>4. \A l \in 1 .. h - 1 : Dropped(p, l)
  BY <1>1 DEF Cut, Gap, EndOf
<1> HIDE DEF h
<1>5. ASSUME NEW l \in Code(p)
      PROVE  l \in Nat /\ h <= l
  <2>1. l \in 1 .. Len(p) /\ ~ IsLabel(p[l])
    BY <1>1 DEF Code
  <2>2. ~ Dropped(p, l)
    BY <1>1, <2>1, DroppedIsLabel
  <2> QED
    BY <1>1, <1>3, <1>4, <2>1, <2>2
<1>6. Min(Code(p)) \in Code(p) /\ \A l \in Code(p) : Min(Code(p)) <= l
  BY <1>3, <1>5 DEF Min
<1>7. Min(Code(p)) = h
  <2>1. \A m \in Nat : h <= m /\ m <= h => m = h
    BY <1>3, <1>5
  <2> QED
    BY <1>3, <1>5, <1>6, <2>1, Zenon
<1> QED
  BY <1>1, <1>3, <1>7 DEF LinesOf

\* For every legible function without calls and traps, with labels before others and
\* lines behind its last jump too: once it is shown, the blocks hold every line that
\* control comes to.
THEOREM ShownIsWhole == Spec => []ShownIsComplete
<1>1. LinkedInv => ShownIsComplete
  <2> SUFFICES ASSUME LinkedInv, phase = "shown", Legible(prog), Straight(prog)
               PROVE  Onward(prog, {Min(Code(prog))}, {}) \subseteq Covered
    BY DEF ShownIsComplete, Straight
  <2>1. Shaped(prog, bb) /\ bb # << >> /\ prog \in Programs
    BY ShapedNow DEF Later, LinkedInv, BlocksInv, NonEmpty, TypeInv
  <2>2. Min(Code(prog)) \in LinesOf(bb) /\ {Min(Code(prog))} \in SUBSET Code(prog)
    BY <2>1, EntryIsHeld
  <2>3. ClosedBut(prog, {}, LinesOf(bb))
    <3>1. Len(bb) \in Nat /\ DOMAIN bb = 1 .. Len(bb)
      BY <2>1, LenProperties DEF Shaped
    <3>2. \A b \in 1 .. Len(bb) : Range(SuccOf(prog, bb, b)) \subseteq 1 .. Len(bb)
      BY <2>1, ArrowsFlow DEF Shaped
    <3> QED
      BY <2>1, <3>1, <3>2, HeldIsClosed DEF ClosedBut, LinesOf
  <2>4. LinesOf(bb) = Covered
    BY DEF LinesOf, Covered, Lines
  <2> QED
    BY <2>1, <2>2, <2>3, <2>4, OnwardWithin
<1> QED
  BY <1>1, LinkedInvariant, PTL

-----------------------------------------------------------------------------
(***************************************************************************)
(* draw_cfg: a fit function is shown.                                      *)
(***************************************************************************)
Whole(p, B) == EndOf(B, Len(B)) = Len(p)

LEMMA LastOfFit ==
  ASSUME NEW p \in Programs, Fit(p)
  PROVE  /\ Len(p) \in Nat \ {0} /\ Len(p) \in Code(p) /\ p[Len(p)].instr \in {"j", "jr"}
         /\ Legible(p) /\ Straight(p) /\ ~ Dropped(p, Len(p))
<1>1. Len(p) \in Nat /\ DOMAIN p = 1 .. Len(p) /\ Code(p) # {} /\ Legible(p)
  BY ProgramFacts DEF Fit
<1>2. Len(p) # 0
  <2>1. \E l \in 1 .. Len(p) : TRUE
    BY <1>1 DEF Code
  <2> QED
    BY <1>1, <2>1
<1>3. Len(p) \in Code(p)
  BY <1>1, <1>2 DEF Fit, Code
<1>4. From(p, Len(p) + 1) = {}
  <2>1. \A l \in 1 .. Len(p) : ~ (l >= Len(p) + 1)
    BY <1>1
  <2> QED
    BY <1>1, <2>1 DEF From, Code
<1>5. p[Len(p)].instr \in {"j", "jr"}
  BY <1>3, <1>4 DEF Fit
<1>6. Jumps(p, Len(p))
  BY <1>5 DEF Jumps, block_terminators_riscv, unconditional_jumps_riscv
<1> QED
  BY <1>1, <1>2, <1>3, <1>5, <1>6 DEF Dropped, Fit, Straight

\* When get_bb ends, nothing is left in the block that it was filling.
LEMMA FitIsWhole ==
  ASSUME BlocksInv, Fit(prog), LinesRead = Len(prog) + 1
  PROVE  Whole(prog, bb) /\ bb # << >>
<1>1. /\ prog \in Programs /\ bb \in Seq(Blk) /\ Cut(prog, bb) /\ Len(bb) \in Nat
      /\ Filling(prog, EndOf(bb, Len(bb)), cblock.instrs, Len(prog) + 1)
  BY LenProperties DEF BlocksInv, TypeInv, CutInv
<1>2. /\ Len(prog) \in Nat \ {0} /\ ~ Dropped(prog, Len(prog)) /\ Jumps(prog, Len(prog))
  BY <1>1, LastOfFit DEF Jumps, block_terminators_riscv, unconditional_jumps_riscv
<1>3. (Len(prog) + 1) - 1 = Len(prog)
  BY <1>2
<1>4. cblock.instrs = << >>
  BY <1>1, <1>2, <1>3 DEF Filling
<1>5. Gap(prog, EndOf(bb, Len(bb)), Len(prog) + 1)
  BY <1>1, <1>4 DEF Filling
<1>6. Len(bb) \in 0 .. Len(bb)
  BY <1>1
<1>7. EndOf(bb, Len(bb)) \in Nat
  BY <1>1, <1>6, EndIsLine
<1>8. EndOf(bb, Len(bb)) = Len(prog)
  BY <1>2, <1>5, <1>7 DEF Gap
<1>9. bb # << >>
  <2>1. bb = << >> => EndOf(bb, Len(bb)) = 0
    BY EmptySeq DEF EndOf
  <2> QED
    BY <1>2, <1>8, <2>1
<1> QED
  BY <1>8, <1>9 DEF Whole

\* A label whose code is in a block gives the block its name.
LEMMA AtIsCalled ==
  ASSUME NEW p \in Programs, NEW B \in Seq(Blk), Fit(p), Cut(p, B), Named(p, B), Whole(p, B),
         NEW name, At(p, name) # {}
  PROVE  CalledIn(B, name) # {}
<1>1. DOMAIN p = 1 .. Len(p) /\ Len(p) \in Nat /\ DOMAIN B = 1 .. Len(B) /\ Legible(p)
  BY ProgramFacts, LenProperties DEF Fit
<1>2. PICK l \in 1 .. Len(p) : Names(p[l], name) /\ From(p, l) # {}
  BY <1>1 DEF At
<1>3. PICK x \in Code(p) : x >= l /\ \A k \in l .. x - 1 : IsLabel(p[k])
  BY <1>2 DEF From
<1>4. IsLabel(p[l]) /\ Stem[p[l].instr] = name /\ x \in 1 .. Len(p) /\ ~ IsLabel(p[x])
  BY <1>1, <1>2 DEF Names, Code
<1>5. x = l + 1
  <2>1. x # l
    BY <1>4
  <2>2. ASSUME x > l + 1
        PROVE  FALSE
    <3>1. l + 1 \in l .. x - 1 /\ l + 1 \in 1 .. Len(p) /\ l + 1 > 1 /\ (l + 1) - 1 = l
      BY <1>1, <1>3, <1>4, <2>2
    <3>2. IsLabel(p[l + 1])
      BY <1>3, <3>1
    <3> QED
      BY <1>1, <1>4, <3>1, <3>2 DEF Fit
  <2> QED
    BY <1>1, <1>3, <1>4, <2>1, <2>2
<1>6. ~ Dropped(p, x) /\ Dropped(p, l)
  BY <1>1, <1>4, DroppedIsLabel
<1>7. PICK b \in 1 .. Len(B) : x \in Range(B[b].instrs)
  <2>1. x \in Nat \ {0} /\ x <= EndOf(B, Len(B))
    BY <1>1, <1>4 DEF Whole
  <2> QED
    BY <1>6, <2>1, HomeOf
<1> DEFINE ls == B[b].instrs
<1>8. ls \in Seq(Nat) /\ Piece(p, ls) /\ Len(ls) \in Nat /\ ls[1] \in Nat
  BY BlockLines, PieceFacts
<1>9. PICK k \in 1 .. Len(ls) : x = ls[k]
  BY <1>7, <1>8, LenProperties DEF Range
<1>10. k = 1
  <2>1. ASSUME k # 1
        PROVE  FALSE
    <3>1. k - 1 \in 1 .. Len(ls) /\ k \in Nat
      BY <1>8, <2>1
    <3>2. ls[k] = ls[1] + k - 1 /\ ls[k - 1] = ls[1] + (k - 1) - 1 /\ ~ Dropped(p, ls[k - 1])
      BY <1>8, <3>1 DEF Piece
    <3>3. ls[k - 1] = l
      <4> HIDE DEF ls
      <4>1. l \in Nat /\ l + 1 = ls[1] + k - 1 /\ ls[k - 1] = ls[1] + k - 2
        BY <1>1, <1>5, <1>8, <1>9, <3>1, <3>2
      <4>2. \A h, m, n \in Nat : m + 1 = h + n - 1 => h + n - 2 = m
        OBVIOUS
      <4>3. ls[1] + k - 2 = l
        BY <1>8, <3>1, <4>1, <4>2
      <4> QED
        BY <4>1, <4>3, Zenon
    <3> QED
      BY <1>6, <3>2, <3>3
  <2> QED
    BY <2>1
<1>11. NamedAt(p, B[b].name, l + 1) /\ l + 1 # 1 /\ (l + 1) - 1 = l
  BY <1>1, <1>5, <1>9, <1>10 DEF Named
<1>12. B[b].name = name
  BY <1>4, <1>6, <1>11 DEF NamedAt
<1> QED
  BY <1>1, <1>12 DEF CalledIn

\* build_cfg finds the successors of every block of a fit function.
LEMMA FitLinks ==
  ASSUME NEW p \in Programs, NEW B \in Seq(Blk), Fit(p), Cut(p, B), Named(p, B), Whole(p, B),
         NEW b \in 1 .. Len(B)
  PROVE  Linkable(p, B, b)
<1> DEFINE e == EndOf(B, b)
           ins == EndIns(p, B, b)
<1>1. Legible(p) /\ Len(B) \in Nat /\ p[Len(p)].instr \in {"j", "jr"}
  BY LastOfFit, LenProperties
<1>2. e \in Code(p) /\ ins = p[e]
  BY <1>1, EndIsCode DEF EndIns
<1>3. ins.instr \in conditional_jumps_riscv => CalledIn(B, ins.op2) # {}
  <2> SUFFICES ASSUME ins.instr \in conditional_jumps_riscv
               PROVE  CalledIn(B, ins.op2) # {}
    OBVIOUS
  <2> HIDE DEF ins, e
  <2>1. ins.instr # "j" /\ ins.op2 # None
    BY <1>1, <1>2 DEF conditional_jumps_riscv, Legible
  <2>2. At(p, ins.op2) # {}
    BY <1>2, <2>1 DEF Fit, Target
  <2> QED
    BY <1>1, <2>2, AtIsCalled
<1>4. ins.instr = "j" => CalledIn(B, ins.op0) # {}
  <2> SUFFICES ASSUME ins.instr = "j"
               PROVE  CalledIn(B, ins.op0) # {}
    OBVIOUS
  <2> HIDE DEF ins, e
  <2>1. At(p, ins.op0) # {}
    BY <1>2 DEF Fit, Target
  <2> QED
    BY <1>1, <2>1, AtIsCalled
<1>5. ins.instr \notin unconditional_jumps_riscv => b < Len(B)
  <2>1. b = Len(B) => ins.instr \in {"j", "jr"}
    BY <1>1 DEF EndIns, Whole
  <2>2. "j" \in unconditional_jumps_riscv /\ "jr" \in unconditional_jumps_riscv
    BY DEF unconditional_jumps_riscv
  <2>3. b # Len(B) => b < Len(B)
    BY <1>1
  <2> QED
    BY <2>1, <2>2, <2>3
<1> QED
  BY <1>3, <1>4, <1>5 DEF Linkable

\* Of the depths that process_cfg has given, none is without the one before.
LEMMA NoGaps ==
  ASSUME NEW S, S \subseteq Nat, IsFiniteSet(S), \A n \in S : n > 0 => n - 1 \in S
  PROVE  0 .. Cardinality(S) - 1 \subseteq S
<1>1. Cardinality(S) \in Nat
  BY FS_CardinalityType
<1> SUFFICES ASSUME NEW m \in 0 .. Cardinality(S) - 1, m \notin S
             PROVE  FALSE
  OBVIOUS
<1>2. m \in Nat /\ m < Cardinality(S)
  BY <1>1
<1>3. ASSUME NEW n \in S, n >= m
      PROVE  FALSE
  <2> DEFINE X == {j \in Nat : n - j >= m => n - j \in S}
  <2>1. n \in Nat
    OBVIOUS
  <2>2. 0 \in X
    BY <2>1
  <2>3. ASSUME NEW j \in Nat, j \in X
        PROVE  j + 1 \in X
    <3> SUFFICES ASSUME n - (j + 1) >= m
                 PROVE  n - (j + 1) \in S
      OBVIOUS
    <3>1. n - j >= m /\ n - j > 0 /\ (n - j) - 1 = n - (j + 1)
      BY <1>2, <2>1
    <3> QED
      BY <2>3, <3>1
  <2> HIDE DEF X
  <2>4. n - m \in Nat
    BY <1>2, <1>3, <2>1
  <2>5. n - m \in X
    BY <2>2, <2>3, <2>4, Induction
  <2>6. n - (n - m) = m
    BY <1>2, <2>1
  <2> QED
    BY <1>2, <2>5, <2>6 DEF X
<1>4. S \subseteq 0 .. m - 1
  <2> SUFFICES ASSUME NEW n \in S
               PROVE  n \in 0 .. m - 1
    OBVIOUS
  <2>1. n \in Nat /\ ~ (n >= m)
    BY <1>3
  <2> QED
    BY <1>2, <2>1
<1>5. IsFiniteSet(0 .. m - 1) /\ Cardinality(0 .. m - 1) = m
  <2>1. 0 \in Int /\ m - 1 \in Int
    BY <1>2
  <2>2. Cardinality(0 .. m - 1) = IF 0 > m - 1 THEN 0 ELSE (m - 1) - 0 + 1
    BY <2>1, FS_Interval
  <2> QED
    BY <1>2, <2>1, <2>2, FS_Interval
<1>6. Cardinality(S) <= m
  BY <1>4, <1>5, FS_Subset
<1> QED
  BY <1>1, <1>2, <1>6

Marks == [name : NameSet, depth : Nat]
NamesOf(D) == {d.name : d \in Range(D)}
DepthsOf(D) == {d.depth : d \in Range(D)}
Drawn(B, D) == {b \in 1 .. Len(B) : B[b].name \in NamesOf(D)}
Drawing(p, B, D, T) ==
  /\ D \in Seq(Marks)
  /\ (D = << >> /\ T = <<Call(1, 1, 0)>>) \/ 1 \in Drawn(B, D)
  /\ \A b \in Drawn(B, D) : \A t \in Range(SuccOf(p, B, b)) :
       t \in Drawn(B, D) \/ \E c \in Range(T) : c.block = t
  /\ \A n \in DepthsOf(D) : n > 0 => n - 1 \in DepthsOf(D)
  /\ \A c \in Range(T) : c.deep > 0 => c.deep - 1 \in DepthsOf(D)

LEMMA DepthsFinite ==
  ASSUME NEW D \in Seq(Marks)
  PROVE  DepthsOf(D) \subseteq Nat /\ IsFiniteSet(DepthsOf(D))
<1> DEFINE f == [k \in 1 .. Len(D) |-> D[k].depth]
<1>1. Len(D) \in Nat /\ DOMAIN D = 1 .. Len(D)
  BY LenProperties
<1>2. \A k \in 1 .. Len(D) : D[k] \in Marks
  BY ElementOfSeq
<1>3. DepthsOf(D) \subseteq Nat
  BY <1>1, <1>2 DEF DepthsOf, Range, Marks
<1>4. f \in Surjection(1 .. Len(D), DepthsOf(D))
  <2>1. \A k \in 1 .. Len(D) : f[k] \in DepthsOf(D)
    BY <1>1 DEF DepthsOf, Range
  <2>2. \A n \in DepthsOf(D) : \E k \in 1 .. Len(D) : f[k] = n
    BY <1>1 DEF DepthsOf, Range
  <2>3. f \in [1 .. Len(D) -> DepthsOf(D)]
    BY <2>1
  <2> HIDE DEF f
  <2> QED
    BY <2>2, <2>3 DEF Surjection
<1>5. IsFiniteSet(1 .. Len(D))
  BY <1>1, FS_Interval
<1> QED
  BY <1>3, <1>4, <1>5, FS_Surjection

\* What is drawn when no call is left is closed under the flow of control.
LEMMA AllDrawn ==
  ASSUME NEW p, NEW B, Shaped(p, B), Fit(p), Whole(p, B), B # << >>,
         NEW M, M \subseteq 1 .. Len(B), 1 \in M,
         \A b \in M : Range(SuccOf(p, B, b)) \subseteq M
  PROVE  M = 1 .. Len(B)
<1> DEFINE T == UNION {Range(B[b].instrs) : b \in M}
           first == Min(Code(p))
<1>1. /\ p \in Programs /\ B \in Seq(Blk) /\ Legible(p) /\ Cut(p, B) /\ Straight(p)
      /\ Len(B) \in Nat /\ 1 \in 1 .. Len(B)
  BY LenProperties DEF Shaped
<1>2. Code(p) \subseteq Nat \ {0} /\ Code(p) # {} /\ \A l \in Code(p) : l <= EndOf(B, Len(B))
  BY <1>1, ProgramFacts DEF Code, Fit, Whole
<1>3. ASSUME NEW l \in Code(p)
      PROVE  \E b \in 1 .. Len(B) : l \in Range(B[b].instrs)
  <2>1. ~ Dropped(p, l)
    BY <1>1, DroppedIsLabel DEF Code
  <2> QED
    BY <1>1, <1>2, <2>1, HomeOf
<1>4. \A b \in 1 .. Len(B) : B[b].instrs[1] \in Code(p) /\ B[b].instrs[1] \in Range(B[b].instrs)
  <2> TAKE b \in 1 .. Len(B)
  <2>1. 1 \in 1 .. Len(B[b].instrs) /\ B[b].instrs \in Seq(Nat) /\ Piece(p, B[b].instrs)
    BY BlockSize
  <2> QED
    BY <1>1, <2>1, CodeOfBlock, LenProperties DEF Range
<1>5. first \in T
  <2>1. first \in Code(p) /\ \A l \in Code(p) : first <= l
    <3>1. Code(p) \subseteq Nat
      BY <1>2
    <3>2. \E l \in Code(p) : \A x \in Code(p) : l <= x
      BY <1>2, <3>1, Least
    <3> QED
      BY <3>2 DEF Min
  <2>2. PICK b \in 1 .. Len(B) : first \in Range(B[b].instrs)
    BY <1>3, <2>1
  <2>3. b = 1
    <3>1. ASSUME b # 1
          PROVE  FALSE
      <4>1. 1 < b
        BY <1>1, <3>1
      <4>2. B[1].instrs[1] < first
        BY <1>1, <1>4, <2>2, <4>1, BlocksInOrder
      <4>3. first <= B[1].instrs[1]
        BY <1>1, <1>4, <2>1
      <4>4. first \in Nat /\ B[1].instrs[1] \in Nat
        BY <1>1, <1>2, <1>4, <2>1
      <4> QED
        BY <4>2, <4>3, <4>4
    <3> QED
      BY <3>1
  <2> QED
    BY <2>2, <2>3
<1>6. ASSUME NEW l \in T
      PROVE  Flow(p, l) \subseteq T
  BY HeldIsClosed
<1>7. Code(p) \subseteq T
  <2>1. {first} \in SUBSET Code(p)
    <3>1. Code(p) \subseteq Nat
      BY <1>2
    <3>2. \E l \in Code(p) : \A x \in Code(p) : l <= x
      BY <1>2, <3>1, Least
    <3> QED
      BY <3>2 DEF Min
  <2>2. Code(p) = Onward(p, {first}, {})
    BY DEF Fit
  <2>3. ClosedBut(p, {}, T)
    BY <1>6 DEF ClosedBut
  <2>4. {first} \subseteq T
    BY <1>5
  <2> HIDE DEF first, T
  <2>5. Onward(p, {first}, {}) \subseteq T
    BY <1>1, <2>1, <2>3, <2>4, OnwardWithin
  <2> QED
    BY <2>2, <2>5
<1>8. ASSUME NEW b \in 1 .. Len(B)
      PROVE  b \in M
  <2>1. B[b].instrs[1] \in T
    BY <1>4, <1>7
  <2>2. PICK c \in M : B[b].instrs[1] \in Range(B[c].instrs)
    BY <2>1
  <2>3. ~ (b < c) /\ ~ (c < b)
    <3> DEFINE h == B[b].instrs[1]
    <3>1. h \in Range(B[b].instrs) /\ h \in Nat /\ c \in 1 .. Len(B)
      BY <1>2, <1>4
    <3> HIDE DEF h
    <3>2. (b < c => h < h) /\ (c < b => h < h)
      BY <1>1, <2>2, <3>1, BlocksInOrder DEF h
    <3> QED
      BY <3>1, <3>2
  <2>4. b = c
    BY <1>1, <2>3
  <2> QED
    BY <2>4
<1> QED
  BY <1>8

ShownInv ==
  Fit(prog) => /\ phase \notin Ended \ {"shown", "RecursionError"}
               /\ phase = "draw" => Drawing(prog, bb, done, todo)

LEMMA DrawStep ==
  ASSUME LinkedInv, SearchInv, Legible(prog), Straight(prog), phase = "draw",
         Drawing(prog, bb, done, todo), Process_cfg, ~ TooDeep
  PROVE  Drawing(prog, bb, done', todo')
<1> DEFINE call == Head(todo)
           b == call.block
           new == [name |-> bb[b].name, depth |-> call.deep]
<1>1. todo # << >> /\ phase \in Later
  BY DEF Process_cfg, Later
<1>2. Shaped(prog, bb) /\ Len(bb) \in Nat /\ \A c \in 1 .. Len(bb) : succ[c] = SuccOf(prog, bb, c)
  BY <1>1, ShapedNow
<1>3. todo \in Seq(Calls(Len(bb)))
  BY <1>1 DEF SearchInv
<1>4. /\ call \in Calls(Len(bb)) /\ Tail(todo) \in Seq(Calls(Len(bb)))
      /\ Range(todo) = {call} \union Range(Tail(todo))
  BY <1>1, <1>3, HeadTailProperties, Ranges
<1>5. b \in 1 .. Len(bb) /\ call.deep \in Nat
  BY <1>4 DEF Calls
<1>6. bb[b].name \in NameSet
  <2>1. bb[b] \in Blk
    BY <1>2, <1>5, ElementOfSeq DEF Shaped
  <2> QED
    BY <2>1 DEF Blk
<1>7. CASE bb[b].name \in Placed
  <2>1. todo' = Tail(todo) /\ done' = done
    BY <1>7 DEF Process_cfg
  <2>2. b \in Drawn(bb, done)
    BY <1>5, <1>7 DEF Drawn, NamesOf, Placed
  <2>3. done # << >>
    BY <2>2, ShortRanges DEF Drawn, NamesOf
  <2>4. \A t : (\E c \in Range(todo) : c.block = t)
                 => t \in Drawn(bb, done) \/ \E c \in Range(todo') : c.block = t
    BY <1>4, <2>1, <2>2
  <2>5. Range(todo') \subseteq Range(todo)
    BY <1>4, <2>1
  <2> HIDE DEF call, b, new
  <2> QED
    BY <2>1, <2>3, <2>4, <2>5 DEF Drawing
<1>8. CASE bb[b].name \notin Placed
  <2>1. done' = Append(done, new) /\ todo' = Pushed(call) \o Tail(todo)
    BY <1>8 DEF Process_cfg
  <2>2. done \in Seq(Marks) /\ new \in Marks
    BY <1>5, <1>6 DEF Drawing, Marks
  <2>3. done' \in Seq(Marks) /\ Range(done') = Range(done) \union {new}
    BY <2>1, <2>2, Ranges, AppendProperties
  <2>3a. new.name = bb[b].name /\ new.depth = call.deep
    OBVIOUS
  <2> HIDE DEF new
  <2>4. Drawn(bb, done') = Drawn(bb, done) \union {b}
    <3>1. NamesOf(done') = NamesOf(done) \union {bb[b].name}
      BY <2>3, <2>3a, Zenon DEF NamesOf
    <3> QED
      BY <1>2, <1>5, <3>1 DEF Drawn, Shaped, Distinct
  <2>5. DepthsOf(done') = DepthsOf(done) \union {call.deep}
    BY <2>3, <2>3a, Zenon DEF DepthsOf
  <2>6. /\ Pushed(call) \in Seq(Calls(Len(bb)))
        /\ Range(Pushed(call)) = {Call(s, 1, call.deep + 1) : s \in Range(succ[b])}
    <3>1. succ[call.block] \in Seq(1 .. Len(bb))
      BY <1>2, <1>5, SuccType DEF Shaped
    <3> HIDE DEF call
    <3> QED
      BY <1>2, <1>4, <3>1, PushedType
  <2> HIDE DEF call, b
  <2>7. Range(todo') = {Call(s, 1, call.deep + 1) : s \in Range(SuccOf(prog, bb, b))}
                         \union Range(Tail(todo))
    <3>1. \A S : \A t, u \in Seq(S) : Range(t \o u) = Range(t) \union Range(u)
      BY RangeOfConcat
    <3>2. /\ Tail(todo) \in Seq(Calls(Len(bb)))
          /\ Pushed(call) \in Seq(Calls(Len(bb)))
      BY <1>4, <2>6
    <3>3. Range(Pushed(call) \o Tail(todo))
            = Range(Pushed(call)) \union Range(Tail(todo))
      BY ONLY <3>1, <3>2
    <3> QED
      BY <1>2, <1>5, <2>1, <2>6, <3>3
  <2>8. 1 \in Drawn(bb, done')
    <3>1. CASE done = << >> /\ todo = <<Call(1, 1, 0)>>
      <4>1. b = 1
        BY <3>1 DEF b, call, Call
      <4> QED
        BY <2>4, <4>1
    <3>2. CASE 1 \in Drawn(bb, done)
      BY <2>4, <3>2
    <3> QED
      BY <3>1, <3>2 DEF Drawing
  <2>9. \A s : Call(s, 1, call.deep + 1).block = s /\ Call(s, 1, call.deep + 1).deep = call.deep + 1
    BY DEF Call
  <2>10. ASSUME NEW c \in Drawn(bb, done'), NEW t \in Range(SuccOf(prog, bb, c))
         PROVE  t \in Drawn(bb, done') \/ \E x \in Range(todo') : x.block = t
    <3>1. CASE c = b
      BY <2>7, <2>9, <2>10, <3>1
    <3>2. CASE c \in Drawn(bb, done)
      <4>1. t \in Drawn(bb, done) \/ \E x \in Range(todo) : x.block = t
        BY <2>10, <3>2 DEF Drawing
      <4>2. \A x \in Range(todo) : x.block = b \/ x \in Range(todo')
        BY <1>4, <2>7 DEF b
      <4> QED
        BY <2>4, <4>1, <4>2
    <3> QED
      BY <2>4, <3>1, <3>2
  <2>11. \A n \in DepthsOf(done') : n > 0 => n - 1 \in DepthsOf(done')
    <3>1. call.deep > 0 => call.deep - 1 \in DepthsOf(done)
      BY <1>4 DEF Drawing
    <3> QED
      BY <2>5, <3>1 DEF Drawing
  <2>12. \A c \in Range(todo') : c.deep > 0 => c.deep - 1 \in DepthsOf(done')
    <3>1. (call.deep + 1) - 1 = call.deep
      BY <1>5
    <3>2. \A c \in Range(Tail(todo)) : c.deep > 0 => c.deep - 1 \in DepthsOf(done)
      BY <1>4 DEF Drawing
    <3> QED
      BY <2>5, <2>7, <2>9, <3>1, <3>2
  <2> QED
    BY <2>3, <2>8, <2>10, <2>11, <2>12 DEF Drawing
<1> QED
  BY <1>7, <1>8

\* The drawing of a fit function divides by no empty row and looks no block up in vain.
LEMMA DrawEnds ==
  ASSUME LinkedInv, Fit(prog), phase = "draw", todo = << >>,
         Drawing(prog, bb, done, todo)
  PROVE  /\ 0 .. Cardinality(Depths) - 1 \subseteq Depths
         /\ \A b \in DOMAIN bb : bb[b].name \in Placed
         /\ \A b \in DOMAIN bb : Range(succ[b]) \subseteq DOMAIN bb
<1> DEFINE M == Drawn(bb, done)
<1>1. prog \in Programs /\ phase \in Later /\ BlocksInv /\ LinesRead = Len(prog) + 1
  BY DEF LinkedInv, BlocksInv, TypeInv, Later, LinesRead
<1>2. Legible(prog) /\ Straight(prog) /\ Whole(prog, bb) /\ bb # << >>
  BY <1>1, LastOfFit, FitIsWhole
<1>3. /\ Shaped(prog, bb) /\ Len(bb) \in Nat /\ DOMAIN bb = 1 .. Len(bb)
      /\ \A b \in 1 .. Len(bb) : succ[b] = SuccOf(prog, bb, b)
  BY <1>1, <1>2, ShapedNow, Blocks
<1>4. 0 .. Cardinality(Depths) - 1 \subseteq Depths
  <2>1. Depths = DepthsOf(done)
    BY DEF Depths, DepthsOf
  <2>2. DepthsOf(done) \subseteq Nat /\ IsFiniteSet(DepthsOf(done))
    BY DepthsFinite DEF Drawing
  <2>3. \A n \in DepthsOf(done) : n > 0 => n - 1 \in DepthsOf(done)
    BY DEF Drawing
  <2> QED
    BY <2>1, <2>2, <2>3, NoGaps
<1>5. todo # <<Call(1, 1, 0)>> /\ Range(todo) = {}
  BY ShortRanges
<1>6. 1 \in M /\ M \subseteq 1 .. Len(bb) /\ \A b \in M : Range(SuccOf(prog, bb, b)) \subseteq M
  BY <1>5 DEF Drawing, Drawn
<1> HIDE DEF M
<1>7. M = 1 .. Len(bb)
  BY <1>2, <1>3, <1>6, AllDrawn
<1>8. \A b \in DOMAIN bb : bb[b].name \in Placed
  BY <1>3, <1>7 DEF M, Drawn, NamesOf, Placed
<1> QED
  BY <1>3, <1>4, <1>6, <1>7, <1>8

LEMMA ShownStep == SearchedInv /\ SearchedInv' /\ ShownInv /\ [Next]_vars => ShownInv'
<1> SUFFICES ASSUME SearchedInv, SearchedInv', ShownInv, [Next]_vars, Fit(prog)
             PROVE  /\ phase' \notin Ended \ {"shown", "RecursionError"}
                    /\ phase' = "draw" => Drawing(prog, bb', done', todo')
  BY ProgramStays DEF ShownInv
<1>1. /\ LinkedInv /\ SearchInv /\ BlocksInv /\ prog \in Programs /\ bb \in Seq(Blk)
      /\ Len(bb) \in Nat /\ DOMAIN bb = 1 .. Len(bb) /\ pos \in Nat \ {0}
  BY LenProperties DEF SearchedInv, LinkedInv, BlocksInv, TypeInv
<1>2. Legible(prog) /\ Straight(prog)
  BY <1>1, LastOfFit
<1>3. phase # "blocks" => LinesRead = Len(prog) + 1 /\ Whole(prog, bb) /\ bb # << >>
  BY <1>1, FitIsWhole DEF LinesRead
<1>4. CASE UNCHANGED vars
  BY <1>4 DEF vars, ShownInv
<1>5. CASE \/ Terminator \/ Label \/ Ordinary \/ Build_cfg_return
           \/ NoDefinition \/ NextBlock \/ Search \/ Find_uses \/ Find_uses_return
           \/ Build_uses_and_defs_return \/ \E line \in 1 .. Len(prog) + 2 : Handle_click(line)
  <2>1. phase' \in {"blocks", "uses", "search", "show", "shown", "RecursionError"}
    BY <1>5 DEF Terminator, Label, Ordinary, Reading, NextLine, Build_cfg_return, NoDefinition,
       NextBlock, Search, Scanning, Find_uses, Find_uses_return, Build_uses_and_defs_return,
       Handle_click, Fail
  <2> QED
    BY <2>1 DEF Ended
<1>6. CASE Get_bb_return
  <2>1. LinesRead = Len(prog) + 1
    <3>1. phase = "blocks" /\ pos > Len(prog) /\ pos <= Len(prog) + 1 /\ Len(prog) \in Nat
      BY <1>1, <1>6, ProgramFacts DEF Get_bb_return, BlocksInv, CutInv, LinesRead
    <3>2. pos = Len(prog) + 1
      BY <1>1, <3>1
    <3> QED
      BY <3>1, <3>2 DEF LinesRead
  <2>2. bb # << >>
    BY <1>1, <2>1, FitIsWhole
  <2>3. phase' = "cfg"
    BY <1>6, <2>2 DEF Get_bb_return
  <2> QED
    BY <2>3 DEF Ended
<1>7. CASE Conditional \/ Unconditional \/ FallThrough
  <2> DEFINE ins == EndIns(prog, bb, pos)
  <2>1. phase = "cfg" /\ pos \in 1 .. Len(bb)
    <3>1. Linking
      BY <1>7, Zenon DEF Conditional, Unconditional, FallThrough
    <3>2. phase = "cfg" /\ pos <= Len(bb)
      BY <3>1, Zenon DEF Linking
    <3> QED
      BY ONLY <1>1, <3>2
  <2>2. Cut(prog, bb) /\ Named(prog, bb) /\ Whole(prog, bb)
    BY <1>1, <1>3, <2>1 DEF BlocksInv, CutInv
  <2>3. Linkable(prog, bb, pos)
    BY <1>1, <2>1, <2>2, FitLinks
  <2>4. Final(pos) = ins
    BY <2>1 DEF Final, EndIns, EndOf, Last
  <2>5. \A name : Called(name) = CalledIn(bb, name)
    BY <1>1 DEF Called, CalledIn
  <2>6. /\ ins.instr \in conditional_jumps_riscv =>
             /\ Called(ins.op2) # {} /\ ins.instr \notin unconditional_jumps_riscv
        /\ ins.instr = "j" => Called(ins.op0) # {}
        /\ ins.instr \notin unconditional_jumps_riscv => pos # Len(bb)
    <3>1. ins.instr \in conditional_jumps_riscv => ins.instr \notin unconditional_jumps_riscv
      BY DEF conditional_jumps_riscv, unconditional_jumps_riscv
    <3>2. pos < Len(bb) => pos # Len(bb)
      <4>1. \A n \in Nat : ~ (n < n)
        OBVIOUS
      <4> QED
        BY <1>1, <4>1, Zenon
    <3> QED
      BY <2>3, <2>5, <3>1, <3>2 DEF Linkable
  <2> HIDE DEF ins
  <2>7. phase' = "cfg"
    BY <1>7, <2>1, <2>4, <2>6
       DEF Conditional, Unconditional, FallThrough, Insert_nodes, block_terminators_riscv
  <2> QED
    BY <2>7 DEF Ended
<1>8. CASE Show
  <2>0. \A l \in DOMAIN prog : ~ Unsplit(prog[l])
    <3>1. \A l \in Code(prog) : ~ Unsplit(prog[l])
      BY DEF Fit
    <3>2. \A l \in DOMAIN prog : l \in Code(prog) \/ prog[l].op0 = None
      BY DEF Code, IsLabel
    <3> QED
      BY <3>1, <3>2 DEF Unsplit
  <2>1. /\ phase' = "draw" /\ bb' = bb /\ done' = << >>
        /\ todo' = <<Call(1, 1, 0)>>
    BY <1>8, <2>0 DEF Show
  <2>2. done' \in Seq(Marks) /\ NamesOf(done') = {} /\ DepthsOf(done') = {}
    BY <2>1, ShortRanges DEF NamesOf, DepthsOf
  <2>3. \A c \in Range(todo') : ~ (c.deep > 0)
    <3>1. Range(todo') = {Call(1, 1, 0)} /\ Call(1, 1, 0).deep = 0
      BY <2>1, ShortRanges DEF Call
    <3> QED
      BY <3>1
  <2>4. Drawing(prog, bb, done', todo')
    BY <2>1, <2>2, <2>3 DEF Drawing, Drawn
  <2> QED
    BY <2>1, <2>4 DEF Ended
<1>9. CASE Process_cfg
  <2>0. CASE TooDeep
    <3>1. phase' = "RecursionError"
      BY <1>9, <2>0 DEF Process_cfg, Fail
    <3> QED
      BY <3>1
  <2> SUFFICES ASSUME ~ TooDeep
               PROVE  /\ phase' \notin Ended \ {"shown", "RecursionError"}
                      /\ phase' = "draw" => Drawing(prog, bb', done', todo')
    BY <2>0
  <2>1. phase' = "draw" /\ phase = "draw" /\ bb' = bb
    BY <1>9 DEF Process_cfg
  <2>2. Drawing(prog, bb, done', todo')
    BY <1>1, <1>2, <1>9, <2>1, DrawStep DEF ShownInv
  <2> QED
    BY <2>1, <2>2 DEF Ended
<1>10. CASE Layout
  <2>1. phase = "draw" /\ todo = << >>
    BY <1>10 DEF Layout
  <2>2. /\ 0 .. Cardinality(Depths) - 1 \subseteq Depths
        /\ \A b \in DOMAIN bb : bb[b].name \in Placed
        /\ \A b \in DOMAIN bb : Range(succ[b]) \subseteq DOMAIN bb
    BY <1>1, <2>1, DrawEnds DEF ShownInv
  <2>3. ~ \E b \in DOMAIN bb : \E s \in Range(succ[b]) :
            ~ {bb[b].name, bb[s].name} \subseteq Placed
    BY <2>2
  <2>4. phase' = "shown"
    BY <1>10, <2>2, <2>3 DEF Layout, Fail
  <2> QED
    BY <2>4
<1> QED
  BY <1>4, <1>5, <1>6, <1>7, <1>8, <1>9, <1>10 DEF Next

-----------------------------------------------------------------------------
(***************************************************************************)
(* The recursion.  N is the names of the n blocks that have been met: they *)
(* differ, and no call is deeper than there are.                           *)
(***************************************************************************)
Deepening(B, N, n, T) ==
  /\ \A k \in 1 .. n : \E b \in 1 .. Len(B) : B[b].name = N[k]
  /\ \A j, k \in 1 .. n : N[j] = N[k] => j = k
  /\ \A c \in Range(T) : c.deep <= n

LEMMA BlocksMet ==
  ASSUME NEW B, Len(B) \in Nat, NEW N, NEW n \in Nat, NEW T, Deepening(B, N, n, T)
  PROVE  n <= Len(B)
<1> DEFINE f == [k \in 1 .. n |-> CHOOSE b \in 1 .. Len(B) : B[b].name = N[k]]
<1>1. \A k \in 1 .. n : f[k] \in 1 .. Len(B) /\ B[f[k]].name = N[k]
  BY DEF Deepening
<1>2. f \in Injection(1 .. n, 1 .. Len(B))
  <2>1. f \in [1 .. n -> 1 .. Len(B)]
    BY <1>1
  <2>2. \A j, k \in 1 .. n : f[j] = f[k] => j = k
    <3> HIDE DEF f
    <3> QED
      BY <1>1 DEF Deepening
  <2> HIDE DEF f
  <2> QED
    BY <2>1, <2>2 DEF Injection, IsInjective
<1>3. /\ IsFiniteSet(1 .. Len(B)) /\ Cardinality(1 .. n) = n
      /\ Cardinality(1 .. Len(B)) = Len(B)
  <2>1. ASSUME NEW m \in Nat
        PROVE  IsFiniteSet(1 .. m) /\ Cardinality(1 .. m) = m
    <3>1. /\ IsFiniteSet(1 .. m)
          /\ Cardinality(1 .. m) = IF 1 > m THEN 0 ELSE m - 1 + 1
      <4>1. 1 \in Int /\ m \in Int
        OBVIOUS
      <4> QED
        BY ONLY <4>1, FS_Interval
    <3>2. (1 > m => m = 0) /\ m - 1 + 1 = m
      OBVIOUS
    <3> QED
      BY <3>1, <3>2
  <2> QED
    BY <2>1
<1> HIDE DEF f
<1> QED
  BY <1>2, <1>3, FS_Injection

LEMMA DeepeningGrows ==
  ASSUME NEW B, NEW N, NEW n \in Nat, NEW T, Deepening(B, N, n, T), NEW m \in Calls(Len(B)),
         m \in Range(T), \A k \in 1 .. n : N[k] # B[m.block].name,
         NEW M, M[n + 1] = B[m.block].name, \A k \in 1 .. n : M[k] = N[k],
         NEW U, \A c \in Range(U) : c \in Range(T) \/ c.deep = m.deep + 1,
         \A c \in Range(T) : c.deep \in Nat
  PROVE  Deepening(B, M, n + 1, U)
<1>1. m.block \in 1 .. Len(B) /\ m.deep \in Nat /\ m.deep <= n
  BY DEF Calls, Deepening
<1>2. \A k \in 1 .. n + 1 : k = n + 1 \/ k \in 1 .. n
  OBVIOUS
<1>3. \A k \in 1 .. n + 1 : \E b \in 1 .. Len(B) : B[b].name = M[k]
  BY <1>1, <1>2 DEF Deepening
<1>4. \A j, k \in 1 .. n + 1 : M[j] = M[k] => j = k
  BY <1>2 DEF Deepening
<1>5. \A c \in Range(U) : c.deep <= n + 1
  <2> TAKE c \in Range(U)
  <2>1. CASE c \in Range(T)
    BY <2>1 DEF Deepening
  <2>2. CASE c.deep = m.deep + 1
    BY <1>1, <2>2
  <2> QED
    BY <2>1, <2>2
<1> QED
  BY <1>3, <1>4, <1>5 DEF Deepening

NamesIn(D) == [k \in 1 .. Len(D) |-> D[k].name]
LimitInv ==
  /\ phase = "search" => done \in Seq(NameSet) /\ Deepening(bb, done, Len(done), todo)
  /\ phase = "draw" => done \in Seq(Marks) /\ Deepening(bb, NamesIn(done), Len(done), todo)
  /\ phase = "RecursionError" => Len(bb) > MaxDepth

LEMMA LimitStep == SearchedInv /\ SearchedInv' /\ LimitInv /\ [Next]_vars => LimitInv'
<1> SUFFICES ASSUME SearchedInv, SearchedInv', LimitInv, [Next]_vars PROVE LimitInv'
  OBVIOUS
<1>1. LinkedInv /\ SearchInv /\ bb \in Seq(Blk) /\ Len(bb) \in Nat /\ MaxDepth \in Nat
  BY LenProperties, UsesDefsAssumption DEF SearchedInv, LinkedInv, BlocksInv, TypeInv
<1>2. CASE UNCHANGED vars
  BY <1>2 DEF vars, LimitInv
<1>3. CASE \/ Terminator \/ Label \/ Ordinary \/ Get_bb_return
           \/ Conditional \/ Unconditional \/ FallThrough \/ Build_cfg_return
           \/ NoDefinition \/ NextBlock \/ Find_uses_return
           \/ Build_uses_and_defs_return \/ Layout
           \/ \E line \in 1 .. Len(prog) + 2 : Handle_click(line)
  <2>1. phase' \notin {"search", "draw", "RecursionError"}
    BY <1>3 DEF Terminator, Label, Ordinary, Reading, NextLine, Get_bb_return, Conditional,
       Unconditional, FallThrough, Linking, Build_cfg_return, NoDefinition, NextBlock, Scanning,
       Find_uses_return, Build_uses_and_defs_return, Layout, Handle_click, Fail, Insert_nodes
  <2> QED
    BY <2>1 DEF LimitInv
<1>4. CASE Search \/ Show
  <2>1. /\ bb' = bb
        /\ \/ phase' = "ValueError"
           \/ /\ phase' \in {"search", "draw"} /\ done' = << >>
              /\ \E b, arg : todo' = <<Call(b, arg, 0)>>
    BY <1>4 DEF Search, Show, Fail
  <2> SUFFICES ASSUME done' = << >>, NEW b, NEW arg, todo' = <<Call(b, arg, 0)>>,
                      phase' \in {"search", "draw"}
               PROVE  LimitInv'
    BY <2>1 DEF LimitInv
  <2>2. Range(todo') = {Call(b, arg, 0)} /\ Call(b, arg, 0).deep = 0
    BY ShortRanges DEF Call
  <2>3. Len(done') = 0 /\ done' \in Seq(NameSet) /\ done' \in Seq(Marks)
    OBVIOUS
  <2>4. \A N : Deepening(bb', N, Len(done'), todo')
    BY <2>2, <2>3 DEF Deepening
  <2> QED
    BY <2>3, <2>4 DEF LimitInv
\* A call that comes too deep has met more blocks than that.
<1>5. ASSUME phase \in {"search", "draw"}, todo # << >>
      PROVE  /\ Head(todo) \in Calls(Len(bb)) /\ Head(todo) \in Range(todo)
             /\ Range(todo) = {Head(todo)} \union Range(Tail(todo))
             /\ \A c \in Range(todo) : c.deep \in Nat
             /\ TooDeep => Len(bb) > MaxDepth
  <2>1. todo \in Seq(Calls(Len(bb)))
    BY <1>1, <1>5 DEF SearchInv, Later
  <2>2. Head(todo) \in Calls(Len(bb)) /\ Range(todo) = {Head(todo)} \union Range(Tail(todo))
    BY <1>5, <2>1, HeadTailProperties, Ranges
  <2>3. \A c \in Range(todo) : c \in Calls(Len(bb))
    BY <2>1, LenProperties, ElementOfSeq DEF Range
  <2>4. PICK N : Deepening(bb, N, Len(done), todo) /\ Len(done) \in Nat
    BY <1>5, LenProperties DEF LimitInv
  <2>5. Len(done) <= Len(bb)
    BY <1>1, <2>4, BlocksMet
  <2>6. Head(todo).deep <= Len(done) /\ Head(todo).deep \in Nat
    BY <2>2, <2>4 DEF Deepening, Calls
  <2>7. TooDeep => Len(bb) > MaxDepth
    BY <1>1, <2>4, <2>5, <2>6 DEF TooDeep
  <2> QED
    BY <2>2, <2>3, <2>7 DEF Calls
<1>6. CASE (Find_uses \/ Process_cfg) /\ TooDeep
  <2>1. /\ phase' = "RecursionError" /\ bb' = bb /\ phase \in {"search", "draw"}
        /\ todo # << >>
    BY <1>6 DEF Find_uses, Process_cfg, Fail
  <2> QED
    BY <1>5, <1>6, <2>1 DEF LimitInv
<1>7. CASE Find_uses /\ ~ TooDeep
  <2> DEFINE call == Head(todo)
             name == bb[call.block].name
  <2>1. phase = "search" /\ phase' = "search" /\ bb' = bb /\ todo # << >>
    BY <1>7 DEF Find_uses
  <2>2. done \in Seq(NameSet) /\ Deepening(bb, done, Len(done), todo) /\ Len(done) \in Nat
    BY <2>1, LenProperties DEF LimitInv
  <2>3. CASE name \in Range(done)
    <3>1. todo' = Tail(todo) /\ done' = done
      BY <1>7, <2>3 DEF Find_uses
    <3>2. Range(todo') \subseteq Range(todo)
      BY <1>5, <2>1, <3>1
    <3> QED
      BY <2>1, <2>2, <3>1, <3>2 DEF LimitInv, Deepening
  <2>4. CASE name \notin Range(done)
    <3>1. Searched(call) /\ done' = Append(done, name)
      BY <1>7, <2>4 DEF Find_uses
    <3>2. \A c \in Range(todo') : c \in Range(todo) \/ c.deep = call.deep + 1
      <4>1. \A s : Call(s, 1, call.deep + 1).deep = call.deep + 1
        BY DEF Call
      <4> QED
        BY <1>1, <1>5, <2>1, <3>1, <4>1, FindUses
    <3>3. name \in NameSet
      <4>1. call.block \in 1 .. Len(bb)
        BY <1>5, <2>1 DEF Calls
      <4>2. bb[call.block] \in Blk
        BY <1>1, <4>1, ElementOfSeq
      <4> QED
        BY <4>2 DEF Blk
    <3> HIDE DEF name
    <3>4. /\ done' \in Seq(NameSet) /\ Len(done') = Len(done) + 1
          /\ done'[Len(done) + 1] = name /\ \A k \in 1 .. Len(done) : done'[k] = done[k]
      BY <2>2, <3>1, <3>3, AppendProperties
    <3>5. \A k \in 1 .. Len(done) : done[k] # name
      BY <2>2, <2>4, LenProperties DEF Range
    <3>6. Deepening(bb, done', Len(done) + 1, todo')
      BY <1>5, <2>1, <2>2, <3>2, <3>4, <3>5, DeepeningGrows DEF name
    <3> QED
      BY <2>1, <3>4, <3>6 DEF LimitInv
  <2> QED
    BY <2>3, <2>4
<1>8. CASE Process_cfg /\ ~ TooDeep
  <2> DEFINE call == Head(todo)
             name == bb[call.block].name
             new == [name |-> name, depth |-> call.deep]
  <2>1. phase = "draw" /\ phase' = "draw" /\ bb' = bb /\ todo # << >>
    BY <1>8 DEF Process_cfg
  <2>2. /\ done \in Seq(Marks) /\ Deepening(bb, NamesIn(done), Len(done), todo)
        /\ Len(done) \in Nat
    BY <2>1, LenProperties DEF LimitInv
  <2>3. CASE name \in Placed
    <3>1. todo' = Tail(todo) /\ done' = done
      BY <1>8, <2>3 DEF Process_cfg
    <3>2. Range(todo') \subseteq Range(todo)
      BY <1>5, <2>1, <3>1
    <3> QED
      BY <2>1, <2>2, <3>1, <3>2 DEF LimitInv, Deepening
  <2>4. CASE name \notin Placed
    <3>1. todo' = Pushed(call) \o Tail(todo) /\ done' = Append(done, new)
      BY <1>8, <2>4 DEF Process_cfg
    <3>2. call \in Calls(Len(bb)) /\ call.block \in 1 .. Len(bb)
      BY <1>5, <2>1 DEF Calls
    <3>3. \A c \in Range(todo') : c \in Range(todo) \/ c.deep = call.deep + 1
      <4>1. succ[call.block] \in Seq(1 .. Len(bb))
        <5>1. /\ succ[call.block] = SuccOf(prog, bb, call.block)
              /\ Linkable(prog, bb, call.block)
          BY <1>1, <2>1, <3>2 DEF LinkedInv, ArrowInv, Linked, Later
        <5> QED
          BY <1>1, <3>2, <5>1, SuccType
      <4> HIDE DEF call
      <4>2. /\ Pushed(call) \in Seq(Calls(Len(bb)))
            /\ Range(Pushed(call)) = {Call(s, 1, call.deep + 1) : s \in Range(succ[call.block])}
        BY <1>1, <3>2, <4>1, PushedType
      <4>3. Tail(todo) \in Seq(Calls(Len(bb)))
        BY <1>1, <2>1, HeadTailProperties DEF SearchInv, Later
      <4>4. Range(Pushed(call) \o Tail(todo)) = Range(Pushed(call)) \union Range(Tail(todo))
        <5>1. \A S : \A t, u \in Seq(S) : Range(t \o u) = Range(t) \union Range(u)
          BY RangeOfConcat
        <5> QED
          BY ONLY <4>2, <4>3, <5>1
      <4>5. \A s : Call(s, 1, call.deep + 1).deep = call.deep + 1
        BY DEF Call
      <4> QED
        BY <1>5, <2>1, <3>1, <4>2, <4>4, <4>5
    <3>4. new \in Marks /\ new.name = name
      <4>1. bb[call.block] \in Blk /\ call.deep \in Nat
        BY <1>1, <3>2, ElementOfSeq DEF Calls
      <4>2. name \in NameSet
        BY <4>1 DEF Blk
      <4> QED
        BY <4>1, <4>2 DEF Marks
    <3> HIDE DEF new, name
    <3>5. /\ done' \in Seq(Marks) /\ Len(done') = Len(done) + 1
          /\ done'[Len(done) + 1] = new /\ \A k \in 1 .. Len(done) : done'[k] = done[k]
      BY <2>2, <3>1, <3>4, AppendProperties
    <3>6. /\ NamesIn(done')[Len(done) + 1] = name
          /\ \A k \in 1 .. Len(done) : NamesIn(done')[k] = NamesIn(done)[k]
      BY <2>2, <3>4, <3>5 DEF NamesIn
    <3>7. \A k \in 1 .. Len(done) : NamesIn(done)[k] # name
      BY <2>2, <2>4, LenProperties DEF Range, Placed, NamesIn
    <3>8. Deepening(bb, NamesIn(done'), Len(done) + 1, todo')
      BY <1>5, <2>1, <2>2, <3>3, <3>6, <3>7, DeepeningGrows DEF name
    <3> QED
      BY <2>1, <3>5, <3>8 DEF LimitInv
  <2> QED
    BY <2>3, <2>4
<1> QED
  BY <1>2, <1>3, <1>4, <1>6, <1>7, <1>8 DEF Next

\* For every function that is legible, all reached, not left by its end and without
\* an operand that show cannot split, and every limit of the recursion that is no
\* less than its number of blocks: main.py ends neither with a name it does not
\* find, nor with a row that is empty, nor at the limit, so that, since it ends
\* (which TLC checks), it shows the function.
THEOREM FitIsShown == Spec => []ReachableIsShown
<1>1. Init => ShownInv /\ LimitInv
  BY DEF Init, ShownInv, LimitInv, Ended
<1>2. SearchedInv /\ ShownInv /\ LimitInv => ReachableIsShown
  <2> SUFFICES ASSUME SearchedInv, ShownInv, LimitInv, phase \in Ended, Fit(prog),
                      Len(bb) <= MaxDepth
               PROVE  phase = "shown"
    BY DEF ReachableIsShown
  <2>1. Len(bb) \in Nat /\ MaxDepth \in Nat
    BY LenProperties, UsesDefsAssumption DEF SearchedInv, LinkedInv, BlocksInv, TypeInv
  <2>2. ~ (Len(bb) > MaxDepth)
    BY <2>1
  <2> QED
    BY <2>2 DEF ShownInv, LimitInv
<1> QED
  BY <1>1, <1>2, ShownStep, LimitStep, SearchedInvariant, PTL DEF Spec
==========================================================================
