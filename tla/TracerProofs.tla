---------------------------- MODULE TracerProofs ----------------------------
(***************************************************************************)
(* Proofs about StackTracer for every executable, every stack and any      *)
(* number of rounds of init, traces and deinit.                            *)
(***************************************************************************)
EXTENDS StackTracer, SequenceTheorems, NaturalsInduction, WellFoundedInduction, TLAPS

Loads == [address : Nat, symbol_name : STRING, ends : BOOLEAN]

-----------------------------------------------------------------------------
(***************************************************************************)
(* find_name on a sorted table.                                            *)
(***************************************************************************)
\* A set of naturals has a least member.
LEMMA LeastIn ==
  ASSUME NEW S, S \subseteq Nat, S # {}
  PROVE  \E k \in S : \A j \in S : k <= j
<1>1. S \subseteq Nat
  OBVIOUS
<1>2. PICK k \in S : \A j \in S : ~ (<<j, k>> \in OpToRel(<, Nat))
  BY <1>1, NatLessThanWellFounded, WFMin
<1>3. \A j \in S : ~ (j < k)
  BY <1>1, <1>2 DEF OpToRel
<1> QED
  BY <1>1, <1>3

LEMMA Rows ==
  ASSUME NEW t \in Seq(Loads)
  PROVE  Len(t) \in Nat /\ \A k \in 1 .. Len(t) : t[k] \in Loads /\ t[k].address \in Nat
<1>1. \A k \in 1 .. Len(t) : t[k] \in Loads
  BY ElementOfSeq
<1>2. \A r \in Loads : r.address \in Nat
  BY DEF Loads
<1> QED
  BY <1>1, <1>2, LenProperties

\* What Sorted says of neighbours holds of any two rows.
LEMMA SortedAll ==
  ASSUME NEW t \in Seq(Loads), Sorted(t),
         NEW a \in 1 .. Len(t), NEW b \in 1 .. Len(t), a <= b
  PROVE  t[a].address <= t[b].address
<1> DEFINE n == Len(t)
           v(k) == t[k].address
           S == {k \in 1 .. n : a <= k /\ v(k) < v(a)}
<1>1. n \in Nat /\ \A k \in 1 .. n : v(k) \in Nat
  BY Rows
<1>2. \A k \in 1 .. n - 1 : v(k) <= v(k + 1)
  BY DEF Sorted
<1> HIDE DEF v, n
<1>3. S = {}
  <2> SUFFICES ASSUME S # {}
               PROVE  FALSE
    OBVIOUS
  <2>1. S \subseteq Nat
    BY <1>1
  <2>2. PICK k \in S : \A j \in S : k <= j
    BY <2>1, LeastIn
  <2>3. k \in 1 .. n /\ a <= k /\ v(k) < v(a) /\ k # a
    BY <1>1
  <2>4. k - 1 \in 1 .. n /\ a <= k - 1 /\ k - 1 \in 1 .. n - 1 /\ k - 1 + 1 = k
    BY <1>1, <2>3 DEF n
  <2>5. ~ v(k - 1) < v(a)
    BY <1>1, <2>1, <2>2, <2>4
  <2>6. v(k - 1) <= v(k)
    BY <1>2, <2>4
  <2> QED
    BY <1>1, <2>3, <2>4, <2>5, <2>6 DEF n
<1>4. v(b) \in Nat /\ v(a) \in Nat /\ ~ v(b) < v(a)
  BY <1>1, <1>3 DEF n
<1> QED
  BY <1>4 DEF v

\* Before a row that is beyond the address, find_name finds one to return.
LEMMA HitBefore ==
  ASSUME NEW t \in Seq(Loads), Sorted(t), NEW addr \in Nat, Known(t, addr),
         NEW m \in 1 .. Len(t), t[m].address > addr
  PROVE  \E i \in 1 .. m - 1 : Hit(t, addr, i)
<1> DEFINE S == {k \in 1 .. Len(t) : t[k].address > addr}
<1>1. Len(t) \in Nat /\ \A k \in 1 .. Len(t) : t[k].address \in Nat
  BY Rows
<1>2. PICK z \in 1 .. Len(t) : t[z].address # 0 /\ t[z].address <= addr
  BY DEF Known
<1>3. m \in S /\ S \subseteq Nat
  BY <1>1
<1>4. PICK j \in S : \A k \in S : j <= k
  BY <1>3, LeastIn
<1>5. j \in 1 .. Len(t) /\ t[j].address > addr /\ j <= m
  BY <1>3, <1>4
<1>6. z < j
  <2> SUFFICES ASSUME j <= z
               PROVE  FALSE
    BY <1>1, <1>5
  <2> QED
    BY <1>1, <1>2, <1>5, SortedAll
<1> DEFINE i == j - 1
<1>7. i \in 1 .. Len(t) - 1 /\ i \in 1 .. Len(t) /\ i + 1 = j /\ z <= i /\ i \in 1 .. m - 1
  BY <1>1, <1>5, <1>6
<1>8. i \notin S
  BY <1>3, <1>4, <1>7
<1>9. t[i].address <= addr /\ t[z].address <= t[i].address
  BY <1>1, <1>7, <1>8, SortedAll
<1> QED
  BY <1>1, <1>2, <1>5, <1>7, <1>9 DEF Hit

\* find_name returns a row that the address belongs to, when there is one.
LEMMA FindCovers ==
  ASSUME NEW t \in Seq(Loads), Len(t) > 0, Sorted(t), NEW addr \in Nat, Known(t, addr)
  PROVE  Find_name(t, addr) \in 1 .. Len(t) /\ Covers(t, Find_name(t, addr), addr)
<1>1. Len(t) \in Nat /\ \A k \in 1 .. Len(t) : t[k].address \in Nat
  BY Rows
<1>2. CASE \E i \in 1 .. Len(t) : Hit(t, addr, i)
  <2> DEFINE S == {i \in 1 .. Len(t) : Hit(t, addr, i)}
  <2>1. \E i \in S : \A j \in S : i <= j
    <3>1. S \subseteq Nat /\ S # {}
      BY <1>2
    <3> HIDE DEF S
    <3> QED
      BY <3>1, LeastIn
  <2>2. \E i \in 1 .. Len(t) : Hit(t, addr, i) /\ \A j \in 1 .. i - 1 : ~ Hit(t, addr, j)
    BY <1>1, <2>1
  <2> DEFINE f == Find_name(t, addr)
  <2>3. f = CHOOSE i \in 1 .. Len(t) :
              Hit(t, addr, i) /\ \A j \in 1 .. i - 1 : ~ Hit(t, addr, j)
    BY <1>2 DEF Find_name
  <2> HIDE DEF f
  <2>4. f \in 1 .. Len(t) /\ Hit(t, addr, f) /\ \A j \in 1 .. f - 1 : ~ Hit(t, addr, j)
    BY <2>2, <2>3
  <2>5. f \in 1 .. Len(t) - 1 /\ f + 1 \in 1 .. Len(t) /\ t[f + 1].address > addr
    BY <1>1, <2>4 DEF Hit
  <2>6. t[f].address <= addr
    BY <1>1, <2>4, HitBefore
  <2>7. ASSUME NEW k \in 1 .. Len(t), t[k].address <= addr
        PROVE  t[k].address <= t[f].address
    <3>1. k <= f
      <4> SUFFICES ASSUME f + 1 <= k
                   PROVE  FALSE
        BY <1>1, <2>4
      <4>1. t[f + 1].address <= t[k].address
        BY <2>5, SortedAll
      <4> QED
        BY <1>1, <2>5, <2>7, <4>1
    <3> QED
      BY <2>4, <3>1, SortedAll
  <2> QED
    BY <2>4, <2>6, <2>7 DEF Covers, f
<1>3. CASE ~ \E i \in 1 .. Len(t) : Hit(t, addr, i)
  <2>1. Find_name(t, addr) = Len(t) /\ Len(t) \in 1 .. Len(t)
    BY <1>1, <1>3 DEF Find_name
  <2>2. t[Len(t)].address <= addr
    <3> SUFFICES ASSUME t[Len(t)].address > addr
                 PROVE  FALSE
      BY <1>1, <2>1
    <3>1. \E i \in 1 .. Len(t) - 1 : Hit(t, addr, i)
      BY <2>1, HitBefore
    <3> QED
      BY <1>1, <1>3, <3>1
  <2>3. \A k \in 1 .. Len(t) : t[k].address <= t[Len(t)].address
    BY <1>1, <2>1, SortedAll
  <2> QED
    BY <2>1, <2>2, <2>3 DEF Covers
<1> QED
  BY <1>2, <1>3

\* With or without a symbol before the address, it returns a row of the table.
LEMMA FindInTable ==
  ASSUME NEW t \in Seq(Loads), Len(t) > 0, NEW addr \in Nat
  PROVE  Find_name(t, addr) \in 1 .. Len(t)
<1>1. Len(t) \in Nat
  BY LenProperties
<1>2. CASE \E i \in 1 .. Len(t) : Hit(t, addr, i)
  <2> DEFINE S == {i \in 1 .. Len(t) : Hit(t, addr, i)}
  <2>1. \E i \in S : \A j \in S : i <= j
    <3>1. S \subseteq Nat /\ S # {}
      BY <1>2
    <3> HIDE DEF S
    <3> QED
      BY <3>1, LeastIn
  <2>2. \E i \in 1 .. Len(t) : Hit(t, addr, i) /\ \A j \in 1 .. i - 1 : ~ Hit(t, addr, j)
    BY <1>1, <2>1
  <2> QED
    BY <1>2, <2>2 DEF Find_name
<1>3. CASE ~ \E i \in 1 .. Len(t) : Hit(t, addr, i)
  BY <1>1, <1>3 DEF Find_name
<1> QED
  BY <1>2, <1>3
-----------------------------------------------------------------------------
(***************************************************************************)
(* The inductive invariant: the shape of the state, who owns which block,  *)
(* the order of the table, the lines printed, and, while every file can be *)
(* read, the count of every kind of block.                                 *)
(***************************************************************************)
Shape ==
  /\ pc \in Pcs /\ inited \in BOOLEAN /\ image \in Images /\ rounds \in 0 .. MaxRounds
  /\ readable \in BOOLEAN /\ (readable => image.fails = "none")
  /\ pfile \in {"null", "open", "closed"} /\ pointer \in {"null", "live", "freed"}
  /\ heap \in [Kinds -> Int] /\ len \in Nat /\ table \in Seq(Loads)
  /\ stack \in Stacks /\ at \in 1 .. Len(stack) + 1 /\ printed \in Seq(Loads)

Owned ==
  /\ pointer = "live" => Len(table) = len /\ len > 0
  /\ ~ inited \/ pc \in {"header", "sections", "indexes", "symbols"} => pointer # "live"
  /\ pc \notin {"idle", "undef"} => inited
  /\ rounds = 0 => pointer = "null" /\ ~ inited
  /\ inited /\ rounds <= 1 => pointer # "freed"

\* What is to be freed is there: in the first round, and while files are readable.
Counted ==
  rounds <= 1 \/ readable =>
    /\ \A k \in Kinds : heap[k] >= 0
    /\ pointer = "live" => heap["table"] >= 1 /\ heap["name"] >= len
    /\ pc \in {"indexes", "symbols", "qsort"} => heap["shdr"] >= 1

InOrder == pc \in {"idle", "trace"} /\ pointer = "live" => Sorted(table)

Lines ==
  pc = "trace" =>
    /\ Len(printed) = at - 1
    /\ pointer = "live" \/ printed = << >>
    /\ \A k \in 1 .. Len(printed) :
         printed[k] = table[Find_name(table, stack[k])] /\ ~ IsMain(printed[k])

Loaded1 == pc \in {"qsort", "trace"} \/ (pc = "idle" /\ inited)
Ledger ==
  readable /\ pc # "undef" =>
    /\ heap["elf_symbols"] = 0
    /\ heap["shdr"] = IF pc \in {"indexes", "symbols", "qsort"} THEN 1 ELSE 0
    /\ heap["table"] = (IF Loaded1 THEN 1 ELSE 0)
    /\ heap["name"] = (IF Loaded1 THEN len ELSE 0)
    /\ Loaded1 => pointer = "live"
    /\ pfile = IF pc \in {"header", "sections", "indexes", "symbols", "qsort"}
               THEN "open" ELSE "closed"

IInv == Shape /\ Owned /\ Counted /\ InOrder /\ Lines /\ Ledger /\ DefinedUse

LEMMA StackShape ==
  ASSUME NEW s \in Stacks
  PROVE  s \in Seq(Nat) /\ Len(s) \in Nat \ {0} /\ \A k \in 1 .. Len(s) : s[k] \in Nat
<1>1. s \in Seq(Nat) /\ s # << >>
  BY StackTracerAssumption
<1> QED
  BY <1>1, EmptySeq, LenProperties, ElementOfSeq

\* The steps that leave the trace, the table and its pointer alone.
LEMMA OpenStep ==
  ASSUME IInv, Fopen \/ Read_header \/ Read_section_header \/ Get_symtab_strtab_idx
  PROVE  IInv'
<1>0. MaxRounds \in Nat /\ (readable => image.fails = "none")
  BY StackTracerAssumption DEF IInv, Shape
<1>1. CASE Fopen
  <2>1. /\ pc = "idle" /\ ~ inited /\ rounds < MaxRounds /\ rounds' = rounds + 1
        /\ inited' = TRUE /\ image' \in Images /\ pc' = "header"
        /\ readable' = (readable /\ image'.fails = "none")
        /\ pfile' = IF image'.fails = "fopen" THEN "null" ELSE "open"
        /\ UNCHANGED <<heap, pointer, table, len, stack, at, printed>>
    BY <1>1 DEF Fopen, memory, walk
  <2>2. Shape'
    BY <1>0, <2>1 DEF IInv, Shape, Pcs
  <2>3. Owned' /\ InOrder' /\ Lines' /\ DefinedUse'
    <3>1. rounds' # 0 /\ (rounds' <= 1 => rounds = 0)
      BY <1>0, <2>1 DEF IInv, Shape
    <3> QED
      BY <2>1, <3>1 DEF IInv, Owned, InOrder, Lines, DefinedUse
  <2>5. Counted'
    <3>1. rounds' <= 1 => rounds <= 1
      BY <1>0, <2>1 DEF IInv, Shape
    <3> QED
      BY <2>1, <3>1 DEF IInv, Owned, Counted
  <2>4. Ledger'
    BY <1>0, <2>1 DEF IInv, Ledger, Loaded1
  <2> QED
    BY <2>2, <2>3, <2>4, <2>5 DEF IInv
<1>2. CASE Read_header
  <2>1. /\ pc = "header" /\ UNCHANGED <<inited, image, readable, rounds, heap, pointer, table, len>>
        /\ UNCHANGED <<stack, at, printed>>
        /\ \/ pfile = "null" /\ pc' = "undef" /\ pfile' = pfile
           \/ pfile # "null" /\ pc' = "sections"
              /\ pfile' = IF image.fails \in {"header", "type"} THEN "closed" ELSE pfile
    BY <1>2 DEF Read_header, Undefined, Goto, Fails, memory, walk
  <2>2. readable => pfile = "open" /\ image.fails = "none"
    BY <1>0, <2>1 DEF IInv, Ledger, Shape
  <2>3. Shape'
    BY <2>1 DEF IInv, Shape, Pcs
  <2>4. Owned' /\ Counted' /\ InOrder' /\ Lines'
    BY <2>1 DEF IInv, Owned, Counted, InOrder, Lines
  <2>5. DefinedUse'
    BY <2>1, <2>2 DEF DefinedUse
  <2>6. Ledger'
    BY <2>1, <2>2 DEF IInv, Ledger, Loaded1
  <2> QED
    BY <2>3, <2>4, <2>5, <2>6 DEF IInv
<1>3. CASE Read_section_header
  <2>1. /\ pc = "sections" /\ UNCHANGED <<inited, image, readable, rounds, pointer, table, len>>
        /\ UNCHANGED <<stack, at, printed>>
        /\ heap' = [heap EXCEPT !["shdr"] = @ + 1]
        /\ pfile' = IF image.fails = "sections" THEN "closed" ELSE pfile
        /\ pc' = IF pfile = "closed" THEN "undef" ELSE "indexes"
    BY <1>3 DEF Read_section_header, Goto, Fails, memory, walk
  <2>2. readable => pfile = "open" /\ image.fails = "none"
    BY <1>0, <2>1 DEF IInv, Ledger, Shape
  <2>7. /\ heap \in [Kinds -> Int] /\ heap' \in [Kinds -> Int]
        /\ heap'["shdr"] = heap["shdr"] + 1
        /\ \A k \in Kinds : k # "shdr" => heap'[k] = heap[k]
        /\ {"shdr", "elf_symbols", "table", "name"} = Kinds
    BY <2>1 DEF IInv, Shape, Kinds
  <2>3. Shape'
    BY <2>1, <2>7 DEF IInv, Shape, Pcs
  <2>4. Owned' /\ Counted' /\ InOrder' /\ Lines'
    BY <2>1, <2>7 DEF IInv, Owned, Counted, InOrder, Lines
  <2>5. DefinedUse'
    BY <2>1, <2>2 DEF DefinedUse
  <2>6. Ledger'
    BY <2>1, <2>2, <2>7 DEF IInv, Ledger, Loaded1
  <2> QED
    BY <2>3, <2>4, <2>5, <2>6 DEF IInv
<1>4. CASE Get_symtab_strtab_idx
  <2>1. /\ pc = "indexes" /\ UNCHANGED <<inited, image, readable, rounds, pfile, heap, pointer>>
        /\ UNCHANGED <<table, len, stack, at, printed>>
        /\ \/ pfile = "closed" /\ pc' = "undef"
           \/ pfile # "closed" /\ image.fails \in {"names", "symtab", "strtab"} /\ pc' = "idle"
           \/ pfile # "closed" /\ image.fails \notin {"names", "symtab", "strtab"}
              /\ pc' = "symbols"
    BY <1>4 DEF Get_symtab_strtab_idx, Undefined, Goto, Fails, memory, walk
  <2>2. readable => pfile = "open" /\ image.fails = "none"
    BY <1>0, <2>1 DEF IInv, Ledger, Shape
  <2>3. Shape'
    BY <2>1 DEF IInv, Shape, Pcs
  <2>4. Owned' /\ Counted' /\ InOrder' /\ Lines'
    BY <2>1 DEF IInv, Owned, Counted, InOrder, Lines
  <2>5. DefinedUse'
    BY <2>1, <2>2 DEF DefinedUse
  <2>6. Ledger'
    BY <2>1, <2>2 DEF IInv, Ledger, Loaded1
  <2> QED
    BY <2>3, <2>4, <2>5, <2>6 DEF IInv
<1> QED
  BY <1>1, <1>2, <1>3, <1>4

\* A table made of rows is a sequence of them.
LEMMA RowsAre ==
  ASSUME NEW n \in Nat, NEW t \in [1 .. n -> Loads]
  PROVE  t \in Seq(Loads) /\ Len(t) = n
<1>1. DOMAIN t = 1 .. n
  OBVIOUS
<1>2. t \in Seq(Loads)
  BY SeqDef
<1>3. Len(t) = n
  BY <1>1, <1>2, LenProperties
<1> QED
  BY <1>2, <1>3

LEMMA LoadStep ==
  ASSUME IInv, Read_symbol_table \/ Read_symbol_tableFails
  PROVE  IInv'
<1>0. /\ image \in Images /\ image.syms \in Seq(Symbol) /\ image.syms # << >>
      /\ readable => image.fails = "none"
  BY StackTracerAssumption DEF IInv, Shape
<1>9. /\ heap \in [Kinds -> Int] /\ {"shdr", "elf_symbols", "table", "name"} = Kinds
      /\ len \in Nat
  BY DEF IInv, Shape, Kinds
<1>1. CASE Read_symbol_table
  <2> DEFINE n == Len(image.syms)
  <2>1. PICK ends \in [DOMAIN image.syms -> BOOLEAN] : table' = Loaded(ends)
    BY <1>1 DEF Read_symbol_table
  <2>2. /\ pc = "symbols" /\ pc' = "qsort" /\ pointer' = "live" /\ len' = n
        /\ heap' = [heap EXCEPT !["table"] = @ + 1, !["name"] = @ + n]
        /\ UNCHANGED <<inited, image, readable, rounds, pfile, stack, at, printed>>
    BY <1>1 DEF Read_symbol_table, Goto, walk
  <2>3. n \in Nat \ {0} /\ DOMAIN image.syms = 1 .. n
    BY <1>0, EmptySeq, LenProperties
  <2>4. \A k \in 1 .. n : image.syms[k] \in Symbol
    BY <1>0, ElementOfSeq
  <2> DEFINE row(k) == [address |-> image.syms[k].address,
                        symbol_name |-> image.syms[k].symbol_name, ends |-> ends[k]]
  <2>5. \A k \in 1 .. n : row(k) \in Loads
    BY <2>3, <2>4 DEF Loads, Symbol
  <2>6. table' \in [1 .. n -> Loads]
    BY <2>1, <2>3, <2>5 DEF Loaded
  <2> HIDE DEF n, row
  <2>7. table' \in Seq(Loads) /\ Len(table') = n
    BY <2>3, <2>6, RowsAre
  <2>8. /\ heap' \in [Kinds -> Int] /\ heap'["table"] = heap["table"] + 1
        /\ heap'["name"] = heap["name"] + n /\ heap'["shdr"] = heap["shdr"]
        /\ heap'["elf_symbols"] = heap["elf_symbols"]
    <3>1. heap' = [heap EXCEPT !["table"] = @ + 1, !["name"] = @ + n] /\ n \in Nat
      BY <2>2, <2>3
    <3> QED
      BY <1>9, <3>1
  <2>9. Shape'
    BY <2>2, <2>3, <2>7, <2>8 DEF IInv, Shape, Pcs
  <2>10. Owned' /\ Counted' /\ InOrder' /\ Lines' /\ DefinedUse'
    BY <1>9, <2>2, <2>3, <2>7, <2>8 DEF IInv, Owned, Counted, InOrder, Lines, DefinedUse
  <2>11. Ledger'
    BY <1>9, <2>2, <2>3, <2>8 DEF IInv, Ledger, Loaded1
  <2> QED
    BY <2>9, <2>10, <2>11 DEF IInv
<1>2. CASE Read_symbol_tableFails
  <2>2. /\ pc = "symbols" /\ pc' = "qsort" /\ pointer' = "null"
        /\ image.fails \in {"symbols", "strings"}
        /\ heap' = [heap EXCEPT !["elf_symbols"] =
                      IF image.fails = "strings" THEN @ + 1 ELSE @]
        /\ UNCHANGED <<inited, image, readable, rounds, pfile, table, len, stack, at, printed>>
    BY <1>2 DEF Read_symbol_tableFails, Goto, Fails, walk
  <2>3. /\ heap' \in [Kinds -> Int] /\ heap'["shdr"] = heap["shdr"]
        /\ heap'["table"] = heap["table"] /\ heap'["name"] = heap["name"]
        /\ heap'["elf_symbols"] \in {heap["elf_symbols"], heap["elf_symbols"] + 1}
        /\ heap["elf_symbols"] \in Int
    BY <1>9, <2>2
  <2>4. Shape'
    BY <2>2, <2>3 DEF IInv, Shape, Pcs
  <2>5. Owned' /\ InOrder' /\ Lines' /\ DefinedUse'
    BY <2>2, <2>3 DEF IInv, Owned, InOrder, Lines, DefinedUse
  <2>8. Counted'
    BY <1>9, <2>2, <2>3 DEF IInv, Counted
  <2>6. ~ readable
    BY <1>0, <2>2
  <2>7. Ledger'
    BY <2>2, <2>6 DEF Ledger
  <2> QED
    BY <2>4, <2>5, <2>7, <2>8 DEF IInv
<1> QED
  BY <1>1, <1>2

LEMMA QsortStep ==
  ASSUME IInv, Qsort
  PROVE  IInv'
<1>1. pc = "qsort" /\ image \in Images
  BY DEF Qsort, IInv, Shape
<1>2. UNCHANGED <<inited, image, readable, rounds, pointer, len, stack, at, printed>>
  BY DEF Qsort, Undefined, Goto, memory, walk
<1>3. CASE pointer = "null" /\ len > 0
  <2>1. pc' = "undef" /\ UNCHANGED <<pfile, heap, table>>
    BY <1>3 DEF Qsort, Undefined, Goto, memory
  <2>2. ~ readable
    BY <1>1, <1>3 DEF IInv, Ledger, Loaded1
  <2>3. Shape'
    BY <1>2, <2>1 DEF IInv, Shape, Pcs
  <2>4. Owned' /\ Counted' /\ InOrder' /\ Lines'
    BY <1>1, <1>2, <2>1 DEF IInv, Owned, Counted, InOrder, Lines
  <2>5. DefinedUse' /\ Ledger'
    BY <1>2, <2>2 DEF DefinedUse, Ledger
  <2> QED
    BY <2>3, <2>4, <2>5 DEF IInv
<1>4. CASE ~ (pointer = "null" /\ len > 0)
  <2>1. pc' = "idle" /\ pfile' = "closed" /\ heap' = [heap EXCEPT !["shdr"] = @ - 1]
    BY <1>4 DEF Qsort, Closed, Goto
  <2>2. /\ table \in Seq(Loads) /\ heap["shdr"] \in Int
        /\ heap \in [Kinds -> Int] /\ {"shdr", "elf_symbols", "table", "name"} = Kinds
    BY <1>1 DEF IInv, Shape, Owned, Kinds
  <2>3. table' \in Seq(Loads) /\ (pointer # "null" => Len(table') = Len(table) /\ Sorted(table'))
    <3>1. CASE pointer = "null"
      BY <1>4, <2>2, <3>1 DEF Qsort
    <3>2. CASE pointer # "null"
      <4>1. PICK p \in Orders(table) :
              Sorted(Reordered(table, p)) /\ table' = Reordered(table, p)
        BY <1>4, <3>2 DEF Qsort
      <4>2. DOMAIN table = 1 .. Len(table) /\ Len(table) \in Nat
        BY <2>2, LenProperties
      <4>3. \A k \in 1 .. Len(table) : p[k] \in 1 .. Len(table)
        BY <4>1, <4>2 DEF Orders
      <4>4. \A k \in 1 .. Len(table) : table[p[k]] \in Loads
        BY <2>2, <4>3, Rows
      <4>5. table' \in [1 .. Len(table) -> Loads]
        BY <4>1, <4>2, <4>4 DEF Reordered
      <4>6. table' \in Seq(Loads) /\ Len(table') = Len(table)
        BY <4>2, <4>5, RowsAre
      <4> QED
        BY <4>1, <4>6
    <3> QED
      BY <3>1, <3>2
  <2>4. /\ heap' \in [Kinds -> Int] /\ heap'["shdr"] = heap["shdr"] - 1
        /\ \A k \in Kinds : k # "shdr" => heap'[k] = heap[k]
    BY <2>1, <2>2
  <2>5. Shape'
    BY <1>2, <2>1, <2>3, <2>4 DEF IInv, Shape, Pcs
  <2>6. Owned' /\ Counted' /\ InOrder' /\ Lines' /\ DefinedUse'
    BY <1>1, <1>2, <2>1, <2>2, <2>3, <2>4 DEF IInv, Owned, Counted, InOrder, Lines, DefinedUse
  <2>8. inited
    BY <1>1 DEF IInv, Owned
  <2>7. Ledger'
    BY <1>1, <1>2, <2>1, <2>2, <2>4, <2>8 DEF IInv, Ledger, Loaded1
  <2> QED
    BY <2>5, <2>6, <2>7 DEF IInv
<1> QED
  BY <1>3, <1>4

\* What the lines printed say of main when the frames end without it.
LEMMA MainMissed ==
  ASSUME table \in Seq(Loads), Len(table) > 0, Sorted(table), stack \in Stacks,
         NEW k \in 1 .. Len(stack), ~ IsMain(table[Find_name(table, stack[k])])
  PROVE  ~ \E i \in 1 .. Len(table) :
             /\ IsMain(table[i]) /\ table[i].address # 0 /\ Covers(table, i, stack[k])
             /\ \A j \in 1 .. Len(table) : j # i => table[j].address # table[i].address
<1> SUFFICES ASSUME NEW i \in 1 .. Len(table), IsMain(table[i]), table[i].address # 0,
                    Covers(table, i, stack[k]),
                    \A j \in 1 .. Len(table) : j # i => table[j].address # table[i].address
             PROVE  FALSE
  OBVIOUS
<1> DEFINE f == Find_name(table, stack[k])
<1>1. stack[k] \in Nat /\ \A j \in 1 .. Len(table) : table[j].address \in Nat
  BY StackShape, Rows
<1>2. Known(table, stack[k])
  BY DEF Known, Covers
<1>3. f \in 1 .. Len(table) /\ Covers(table, f, stack[k])
  BY <1>1, <1>2, FindCovers
<1> HIDE DEF f
<1>4. table[f].address = table[i].address
  BY <1>1, <1>3 DEF Covers
<1> QED
  BY <1>3, <1>4 DEF f

LEMMA TraceStep ==
  ASSUME IInv, StartTrace \/ Print_stack_trace
  PROVE  IInv'
<1>1. CASE StartTrace
  <2>1. /\ pc = "idle" /\ inited /\ pc' = "trace" /\ stack' \in Stacks /\ at' = 1
        /\ printed' = << >>
        /\ UNCHANGED <<inited, image, readable, rounds, pfile, heap, pointer, table, len>>
    BY <1>1 DEF StartTrace, memory
  <2>2. Len(stack') \in Nat \ {0}
    BY <2>1, StackShape
  <2>3. << >> \in Seq(Loads) /\ Len(<< >>) = 0
    BY EmptySeq
  <2>4. Shape'
    BY <2>1, <2>2, <2>3 DEF IInv, Shape, Pcs
  <2>5. Owned' /\ Counted' /\ InOrder' /\ DefinedUse'
    BY <2>1 DEF IInv, Owned, Counted, InOrder, DefinedUse
  <2>6. Lines'
    BY <2>1, <2>3 DEF Lines
  <2>7. Ledger'
    BY <2>1 DEF IInv, Ledger, Loaded1
  <2> QED
    BY <2>4, <2>5, <2>6, <2>7 DEF IInv
<1>2. CASE Print_stack_trace
  <2>0. /\ pc = "trace" /\ UNCHANGED <<inited, image, readable, rounds, pfile, heap, pointer, table>>
        /\ UNCHANGED <<len, stack>>
    BY <1>2 DEF Print_stack_trace, Undefined, Goto, memory, walk
  <2>1. /\ table \in Seq(Loads) /\ stack \in Stacks /\ at \in 1 .. Len(stack) + 1
        /\ printed \in Seq(Loads) /\ Len(printed) = at - 1 /\ Len(stack) \in Nat
        /\ \A k \in 1 .. Len(printed) :
             printed[k] = table[Find_name(table, stack[k])] /\ ~ IsMain(printed[k])
        /\ pointer = "live" => Len(table) = len /\ len > 0 /\ Sorted(table)
    BY <2>0, StackShape DEF IInv, Shape, Lines, Owned, InOrder
  <2>2. CASE NoTable \/ at > Len(stack)
    <3>1. pc' = "undef" /\ at' = at /\ printed' = printed
      BY <1>2, <2>2 DEF Print_stack_trace, Undefined, Goto, walk
    <3>2. DefinedUse'
      <4> SUFFICES ASSUME readable
                   PROVE  DefinedUse'
        BY <2>0 DEF DefinedUse
      <4>1. pointer = "live" /\ at > Len(stack)
        BY <2>0, <2>1, <2>2 DEF IInv, Ledger, Loaded1, NoTable
      <4>2. \A k \in 1 .. Len(stack) : ~ IsMain(table[Find_name(table, stack[k])])
        BY <2>1, <4>1
      <4>3. \A k \in 1 .. Len(stack) :
              ~ \E i \in 1 .. Len(table) :
                  /\ IsMain(table[i]) /\ table[i].address # 0 /\ Covers(table, i, stack[k])
                  /\ \A j \in 1 .. Len(table) : j # i => table[j].address # table[i].address
        BY <2>1, <4>1, <4>2, MainMissed
      <4> QED
        BY <2>0, <3>1, <4>1, <4>3 DEF DefinedUse
    <3>3. Shape'
      BY <2>0, <3>1 DEF IInv, Shape, Pcs
    <3>4. Owned' /\ Counted' /\ InOrder' /\ Lines' /\ Ledger'
      BY <2>0, <3>1 DEF IInv, Owned, Counted, InOrder, Lines, Ledger
    <3> QED
      BY <3>2, <3>3, <3>4 DEF IInv
  <2>3. CASE ~ (NoTable \/ at > Len(stack))
    <3> DEFINE f == Find_name(table, stack[at])
               symbol == table[f]
    <3>1. pointer = "live" /\ at \in 1 .. Len(stack) /\ stack[at] \in Nat
      BY <2>1, <2>3, StackShape DEF NoTable
    <3>2. f \in 1 .. Len(table) /\ symbol \in Loads
      BY <2>1, <3>1, FindInTable, Rows
    <3>3. /\ printed' = Append(printed, symbol)
          /\ \/ IsMain(symbol) /\ pc' = "idle" /\ at' = at
             \/ ~ IsMain(symbol) /\ at' = at + 1 /\ pc' = "trace"
             \/ ~ symbol.ends /\ at' = at /\ pc' = "undef"
      BY <1>2, <2>0, <2>3 DEF Print_stack_trace
    <3> HIDE DEF f, symbol
    <3>4. /\ printed' \in Seq(Loads) /\ Len(printed') = Len(printed) + 1
          /\ \A k \in 1 .. Len(printed) : printed'[k] = printed[k]
          /\ printed'[Len(printed) + 1] = symbol /\ Len(printed) \in Nat
      BY <2>1, <3>2, <3>3, AppendProperties, LenProperties
    <3>5. Shape'
      BY <2>0, <2>1, <3>1, <3>3, <3>4 DEF IInv, Shape, Pcs
    <3>6. Lines'
      <4> SUFFICES ASSUME pc' = "trace"
                   PROVE  Lines'
        BY DEF Lines
      <4>1. ~ IsMain(symbol) /\ at' = at + 1
        BY <3>3
      <4>2. symbol = table[Find_name(table, stack[Len(printed) + 1])]
        BY <2>1, <3>1 DEF f, symbol
      <4>3. ASSUME NEW k \in 1 .. Len(printed')
            PROVE  printed'[k] = table[Find_name(table, stack[k])] /\ ~ IsMain(printed'[k])
        <5>1. CASE k = Len(printed) + 1
          BY <3>4, <4>1, <4>2, <5>1
        <5>2. CASE k # Len(printed) + 1
          BY <2>1, <3>4, <5>2
        <5> QED
          BY <5>1, <5>2
      <4> QED
        BY <2>0, <2>1, <3>1, <3>4, <4>1, <4>3 DEF Lines
    <3>7. Owned' /\ Counted' /\ InOrder'
      BY <2>0, <2>1, <3>1, <3>3 DEF IInv, Owned, Counted, InOrder
    <3>10. DefinedUse'
      <4> SUFFICES ASSUME pc' = "undef"
                   PROVE  at' <= Len(stack') /\ ~ printed'[at'].ends
        BY DEF DefinedUse
      <4>1. ~ symbol.ends /\ at' = at
        BY <3>3
      <4>2. at = Len(printed) + 1
        BY <2>1, <3>1, <3>4
      <4> QED
        BY <2>0, <2>1, <3>1, <3>4, <4>1, <4>2
    <3>9. inited
      BY <2>0 DEF IInv, Owned
    <3>8. Ledger'
      BY <2>0, <3>3, <3>9 DEF IInv, Ledger, Loaded1
    <3> QED
      BY <3>5, <3>6, <3>7, <3>8, <3>10 DEF IInv
  <2> QED
    BY <2>2, <2>3
<1> QED
  BY <1>1, <1>2

LEMMA DeinitStep ==
  ASSUME IInv, Deinit_stack_tracer
  PROVE  IInv'
<1>1. pc = "idle" /\ inited /\ UNCHANGED <<image, readable, rounds, pfile, table, len, stack, at, printed>>
  BY DEF Deinit_stack_tracer, Undefined, Goto, memory, walk
<1>2. CASE pc' = "undef" /\ UNCHANGED <<inited, heap, pointer>>
           /\ (pointer = "freed" \/ (pointer = "null" /\ len > 0))
  <2>2. ~ readable
    BY <1>1, <1>2 DEF IInv, Ledger, Loaded1
  <2>3. Shape'
    BY <1>1, <1>2 DEF IInv, Shape, Pcs
  <2>4. Owned' /\ Counted' /\ InOrder' /\ Lines'
    BY <1>1, <1>2 DEF IInv, Owned, Counted, InOrder, Lines
  <2>5. DefinedUse' /\ Ledger'
    BY <1>1, <2>2 DEF DefinedUse, Ledger
  <2> QED
    BY <2>3, <2>4, <2>5 DEF IInv
<1>3. CASE /\ pc' = pc /\ inited' = FALSE
           /\ \/ pointer = "null" /\ pointer' = "null" /\ heap' = heap
              \/ pointer # "null" /\ pointer' = "freed"
                 /\ heap' = [heap EXCEPT !["table"] = @ - 1, !["name"] = @ - len]
  <2>2. /\ pointer \in {"null", "live", "freed"} /\ heap \in [Kinds -> Int] /\ len \in Nat
        /\ {"shdr", "elf_symbols", "table", "name"} = Kinds
    BY DEF IInv, Shape, Kinds
  <2>5. rounds <= 1 \/ readable => pointer # "freed"
    BY <1>1 DEF IInv, Owned, Ledger, Loaded1
  <2>6. rounds # 0
    BY <1>1 DEF IInv, Owned
  <2>3. CASE pointer = "null"
    <3>1. pointer' = "null" /\ heap' = heap
      BY <1>3, <2>3
    <3>2. Shape'
      BY <1>1, <1>3, <3>1 DEF IInv, Shape, Pcs
    <3>3. Owned' /\ Counted' /\ InOrder' /\ Lines' /\ DefinedUse'
      BY <1>1, <1>3, <2>6, <3>1 DEF IInv, Owned, Counted, InOrder, Lines, DefinedUse
    <3>4. ~ readable
      BY <1>1, <2>3 DEF IInv, Ledger, Loaded1
    <3>5. Ledger'
      BY <1>1, <3>4 DEF Ledger
    <3> QED
      BY <3>2, <3>3, <3>5 DEF IInv
  <2>4. CASE pointer # "null"
    <3>1. pointer' = "freed" /\ heap' = [heap EXCEPT !["table"] = @ - 1, !["name"] = @ - len]
      BY <1>3, <2>4
    <3>3. /\ heap' \in [Kinds -> Int] /\ heap'["table"] = heap["table"] - 1
          /\ heap'["name"] = heap["name"] - len
          /\ heap'["shdr"] = heap["shdr"] /\ heap'["elf_symbols"] = heap["elf_symbols"]
          /\ heap["table"] \in Int /\ heap["name"] \in Int
      BY <2>2, <3>1
    <3>4. Shape'
      BY <1>1, <1>3, <3>1, <3>3 DEF IInv, Shape, Pcs
    <3>5. Owned' /\ InOrder' /\ Lines' /\ DefinedUse'
      BY <1>1, <1>3, <2>6, <3>1 DEF IInv, Owned, InOrder, Lines, DefinedUse
    <3>7. Counted'
      <4> SUFFICES ASSUME rounds <= 1 \/ readable
                   PROVE  \A k \in Kinds : heap'[k] >= 0
        BY <1>1, <1>3, <3>1 DEF Counted
      <4>1. pointer = "live"
        BY <2>2, <2>4, <2>5
      <4>2. heap["table"] >= 1 /\ heap["name"] >= len /\ heap["shdr"] >= 0 /\ heap["elf_symbols"] >= 0
        BY <2>2, <4>1 DEF IInv, Counted
      <4> QED
        BY <2>2, <3>3, <4>2
    <3>6. Ledger'
      BY <1>1, <1>3, <2>2, <3>3 DEF IInv, Ledger, Loaded1
    <3> QED
      BY <3>4, <3>5, <3>6, <3>7 DEF IInv
  <2> QED
    BY <2>3, <2>4
<1>4. \/ pc' = "undef" /\ UNCHANGED <<inited, heap, pointer>>
         /\ (pointer = "freed" \/ (pointer = "null" /\ len > 0))
      \/ /\ pc' = pc /\ inited' = FALSE
         /\ \/ pointer = "null" /\ pointer' = "null" /\ heap' = heap
            \/ pointer # "null" /\ pointer' = "freed"
               /\ heap' = [heap EXCEPT !["table"] = @ - 1, !["name"] = @ - len]
  BY DEF Deinit_stack_tracer, Undefined, Goto, memory
<1> QED
  BY <1>2, <1>3, <1>4

LEMMA InitInvariant == Init => IInv
<1> SUFFICES ASSUME Init
             PROVE  IInv
  OBVIOUS
<1>1. << >> \in Seq(Loads) /\ MaxRounds \in Nat /\ Len(stack) \in Nat \ {0}
  BY EmptySeq, StackShape, StackTracerAssumption DEF Init
<1>2. Shape
  <2>1. rounds \in 0 .. MaxRounds /\ at \in 1 .. Len(stack) + 1 /\ heap \in [Kinds -> Int]
    BY <1>1 DEF Init
  <2> QED
    BY <1>1, <2>1 DEF Init, Shape, Pcs
<1>3. Owned /\ Counted /\ InOrder /\ Lines /\ DefinedUse
  BY DEF Init, Owned, Counted, InOrder, Lines, DefinedUse
<1>4. Ledger
  BY DEF Init, Ledger, Loaded1, Kinds
<1> QED
  BY <1>2, <1>3, <1>4 DEF IInv

LEMMA NextInvariant == IInv /\ [Next]_vars => IInv'
<1> SUFFICES ASSUME IInv, [Next]_vars
             PROVE  IInv'
  OBVIOUS
<1>1. CASE UNCHANGED vars
  BY <1>1 DEF vars, memory, walk, IInv, Shape, Owned, Counted, InOrder, Lines, Ledger, Loaded1,
     DefinedUse
<1>2. CASE Next
  BY <1>2, OpenStep, LoadStep, QsortStep, TraceStep, DeinitStep DEF Next, InitSteps
<1> QED
  BY <1>1, <1>2

LEMMA Invariant == Spec => []IInv
  BY InitInvariant, NextInvariant, PTL DEF Spec

(***************************************************************************)
(* The theorems.                                                           *)
(***************************************************************************)
\* Type correctness, for every executable and any number of rounds.
THEOREM TracerTypes == Spec => []TypeOK
<1>1. IInv => TypeOK
  BY DEF IInv, Shape, Owned, TypeOK
<1> QED
  BY <1>1, Invariant, PTL

\* Nothing is freed that is not live in a first round, whichever step of init fails,
\* and in any round while every file is readable.
THEOREM FreesOnce == Spec => []FreedOnce
<1>1. IInv => FreedOnce
  BY DEF IInv, Counted, FreedOnce
<1> QED
  BY <1>1, Invariant, PTL

\* Every line of a trace names the function of its address, for every symbol table
\* that has one, whatever order qsort leaves equal addresses in.
THEOREM TraceNames == Spec => []NamesRight
<1>1. IInv => NamesRight
  <2> SUFFICES ASSUME IInv, pc = "trace", NEW k \in 1 .. Len(printed),
                      Known(table, stack[k])
               PROVE  \E i \in 1 .. Len(table) : table[i] = printed[k]
                                                 /\ Covers(table, i, stack[k])
    BY LenProperties DEF NamesRight, IInv, Shape
  <2>1. /\ table \in Seq(Loads) /\ stack \in Stacks /\ at \in 1 .. Len(stack) + 1
        /\ printed \in Seq(Loads) /\ Len(printed) = at - 1
        /\ pointer = "live" \/ printed = << >>
        /\ printed[k] = table[Find_name(table, stack[k])]
    BY DEF IInv, Shape, Lines
  <2>2. Len(printed) \in Nat /\ Len(<< >>) = 0
    BY <2>1, EmptySeq, LenProperties
  <2>3. pointer = "live"
    BY <2>1, <2>2
  <2>4. Len(table) > 0 /\ Sorted(table)
    BY <2>3 DEF IInv, Owned, Counted, InOrder
  <2>5. k \in 1 .. Len(stack) /\ stack[k] \in Nat
    BY <2>1, <2>2, StackShape
  <2> QED
    BY <2>1, <2>4, <2>5, FindCovers
<1> QED
  BY <1>1, Invariant, PTL

\* While every file is readable, no round of init and deinit leaves a block behind.
THEOREM RoundsBalance == Spec => []Balanced
<1>1. IInv => Balanced
  <2> SUFFICES ASSUME IInv, pc = "idle", ~ inited, readable
               PROVE  heap = [k \in Kinds |-> 0] /\ pfile = "closed"
    BY DEF Balanced
  <2>1. heap \in [Kinds -> Int] /\ \A k \in Kinds : heap[k] = 0
    BY DEF IInv, Shape, Ledger, Loaded1, Kinds
  <2>2. pfile = "closed"
    BY DEF IInv, Ledger
  <2> QED
    BY <2>1, <2>2
<1> QED
  BY <1>1, Invariant, PTL

\* While every file is readable, only the printing of a name that lacks its end, and
\* a stack without a main that can be found by its name, are undefined behaviour.
THEOREM UseIsDefined == Spec => []DefinedUse
<1>1. IInv => DefinedUse
  BY DEF IInv
<1> QED
  BY <1>1, Invariant, PTL
=============================================================================
