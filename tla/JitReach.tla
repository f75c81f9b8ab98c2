------------------------------ MODULE JitReach ------------------------------
(***************************************************************************)
(* simple-jit's jit_simple_add (main.cpp): the words it emits to call      *)
(* simple_add, at address f, from an executable mapping at m, by the       *)
(* shortest instructions that reach it.  The fields' numbers of values are *)
(* parameters; what the processor does with the words is external.         *)
(***************************************************************************)
EXTENDS JitCompile

CONSTANTS
  BranchRange,    \* 2^26: the bytes taken for the reach of bl, whose field counts words
  PageSize,       \* 2^12
  PageRange,      \* 2^21: the pages that adrp reaches
  MovRange,       \* 2^16: the values of the field of movz and movk
  Functions       \* where simple_add may be

MovWeight == <<1, MovRange, MovRange * MovRange, MovRange * MovRange * MovRange>>

\* Instructions are words of 4 bytes, and addresses have four parts.
ASSUME ReachAssumption ==
  /\ {BranchRange, PageSize, PageRange, MovRange} \subseteq Nat \ {0}
  /\ BranchRange % 2 = 0 /\ PageRange % 2 = 0
  /\ \A f \in Functions : f \in Nat /\ f % 4 = 0 /\ f < MovWeight[4] * MovRange
  /\ \A c \in Cases : c[2].mapping % 4 = 0

PageOf(a) == a - (a % PageSize)
Within(n, range) == n \in -(range \div 2) .. range \div 2 - 1

\* The stack frame and the arguments take four words before the call.
CallPc(m) == m + 16
Off(m, f) == f - CallPc(m)
\* Mutant: pc is not rounded to its page.
PagesUnrounded(m, f) == (PageOf(f) - CallPc(m)) \div PageSize
Pages(m, f) == (PageOf(f) - PageOf(CallPc(m))) \div PageSize

Bl(m, f) == <<[op |-> "bl", imm |-> (Off(m, f) \div 4) % BranchRange]>>
AdrpAddBlr(m, f) ==
  LET count == Pages(m, f) % PageRange IN
  <<[op |-> "adrp", immlo |-> count % 4, immhi |-> count \div 4],
    [op |-> "add", imm |-> f % PageSize], [op |-> "blr"]>>
MovsBlr(f) ==
  [k \in 1 .. 4 |-> [op |-> IF k = 1 THEN "movz" ELSE "movk", part |-> k,
                     imm |-> (f \div MovWeight[k]) % MovRange]]
  \o <<[op |-> "blr"]>>

CallWords(m, f) ==
  IF Within(Off(m, f), BranchRange) THEN Bl(m, f)
  ELSE IF Within(Pages(m, f), PageRange) THEN AdrpAddBlr(m, f) ELSE MovsBlr(f)

-----------------------------------------------------------------------------
(***************************************************************************)
(* The processor: pc and x2 after each word.                               *)
(***************************************************************************)
SignExtended(n, range) == IF n >= range \div 2 THEN n - range ELSE n

Executed(s, w) ==
  LET to(place, x2) == [pc |-> place, x2 |-> x2] IN
  IF w.op = "adrp"
  THEN to(s.pc + 4, PageOf(s.pc) + PageSize
                      * SignExtended(w.immhi * 4 + w.immlo, PageRange))
  ELSE IF w.op = "add"  THEN to(s.pc + 4, s.x2 + w.imm)
  ELSE IF w.op = "movz" THEN to(s.pc + 4, w.imm)
  ELSE IF w.op = "movk" THEN to(s.pc + 4, s.x2 + w.imm * MovWeight[w.part])
  ELSE IF w.op = "blr"  THEN to(s.x2, s.x2)
  ELSE to(s.pc + 4 * SignExtended(w.imm, BranchRange), s.x2)

\* The states before the words and after each of them.
Running(s, words) ==
  LET after[n \in 0 .. Len(words)] ==
        IF n = 0 THEN s ELSE Executed(after[n - 1], words[n])
  IN after

-----------------------------------------------------------------------------
\* Wherever the mapping that is called into and the function are, on either side
\* of every limit of a field, the call arrives at simple_add.
CallReaches ==
  status = "run" /\ pc = 1 =>
    \A f \in Functions :
      LET m == build.mapping
          words == CallWords(m, f)
      IN Running([pc |-> CallPc(m), x2 |-> 0], words)[Len(words)].pc = f
=============================================================================
