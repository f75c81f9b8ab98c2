---------------------------- MODULE StackTracer ----------------------------
(***************************************************************************)
(* simple-stack-tracer (read_elf.c, PRINT_STACK_TRACE): the symbol table   *)
(* of the running program, from its file to the names of a trace.          *)
(***************************************************************************)
EXTENDS Integers, Sequences

CONSTANTS
  Images,      \* what the file may be: see ASSUME
  Stacks,      \* return addresses from the caller of the trace outwards
  MaxRounds    \* bound on the calls of init_stack_tracer

Symbol == [address : Nat, symbol_name : STRING]
ASSUME StackTracerAssumption ==
  /\ MaxRounds \in Nat
  /\ \A im \in Images :
       /\ im.fails \in {"none", "fopen", "header", "type", "sections", "names",
                        "symtab", "strtab", "symbols", "strings"}
       /\ im.syms \in Seq(Symbol) /\ im.syms # << >>
  /\ \A s \in Stacks : s \in Seq(Nat) /\ s # << >>

VARIABLES
  pc,          \* the next step, "idle" between calls, "undef" at undefined behaviour
  inited,      \* the program is between init and deinit
  image, readable,   \* the file, and history: whether every one so far could be read
  rounds,
  pfile,       \* "null", "open", "closed"
  heap,        \* how many blocks of each kind are live: less than 0 if freed twice
  pointer,     \* symbols.symbols: "null", "live" or "freed"
  table,       \* what it points to
  len,         \* symbols.len
  stack, at,   \* the stack walked, and the frame of addr
  printed      \* the symbols of this trace

memory == <<heap, pointer, table, len>>
walk == <<stack, at, printed>>
vars == <<pc, inited, image, readable, rounds, pfile, memory, walk>>

Kinds == {"shdr", "elf_symbols", "table", "name"}

Init ==
  /\ pc = "idle" /\ inited = FALSE
  /\ image \in Images /\ readable = (image.fails = "none") /\ rounds = 0 /\ pfile = "closed"
  /\ heap = [k \in Kinds |-> 0] /\ pointer = "null" /\ table = << >> /\ len = 0
  /\ stack \in Stacks /\ at = 1 /\ printed = << >>

-----------------------------------------------------------------------------
(***************************************************************************)
(* init_stack_tracer.  A step that fails says so on stderr; the function   *)
(* goes on.                                                                *)
(***************************************************************************)
Fails(what) == image.fails = what
Goto(step) == pc' = step /\ UNCHANGED <<inited, image, readable, rounds, walk>>
Undefined == Goto("undef") /\ UNCHANGED <<pfile, memory>>

Fopen ==
  /\ pc = "idle" /\ ~ inited /\ rounds < MaxRounds
  /\ rounds' = rounds + 1 /\ inited' = TRUE
  /\ image' \in Images /\ readable' = (readable /\ image'.fails = "none")
  /\ pfile' = IF image'.fails = "fopen" THEN "null" ELSE "open"
  /\ pc' = "header"
  /\ UNCHANGED <<memory, walk>>

\* fseek on NULL; a header that is short or not of an x86-64 executable.
Read_header ==
  /\ pc = "header"
  /\ IF pfile = "null" THEN Undefined
     ELSE /\ pfile' = IF Fails("header") \/ Fails("type") THEN "closed" ELSE pfile
          /\ Goto("sections")
          /\ UNCHANGED memory

\* fseek on a FILE that is closed.
Read_section_header ==
  /\ pc = "sections"
  /\ heap' = [heap EXCEPT !["shdr"] = @ + 1]
  /\ pfile' = IF Fails("sections") THEN "closed" ELSE pfile
  /\ Goto(IF pfile = "closed" THEN "undef" ELSE "indexes")
  /\ UNCHANGED <<pointer, table, len>>

\* Without an index init returns, with shdr and pfile as they are.
Get_symtab_strtab_idx ==
  /\ pc = "indexes"
  /\ IF pfile = "closed" THEN Undefined
     ELSE /\ Goto(IF \E w \in {"names", "symtab", "strtab"} : Fails(w)
                  THEN "idle" ELSE "symbols")
          /\ UNCHANGED <<pfile, memory>>

\* A name is copied without its end: whether a 0 follows it is chance.
Loaded(ends) == [k \in DOMAIN image.syms |->
                   [address |-> image.syms[k].address,
                    symbol_name |-> image.syms[k].symbol_name, ends |-> ends[k]]]
\* Mutant: elf_symbols is not freed.
Read_symbol_tableKeeping ==
  /\ pc = "symbols" /\ ~ Fails("symbols") /\ ~ Fails("strings")
  /\ \E ends \in [DOMAIN image.syms -> BOOLEAN] : table' = Loaded(ends)
  /\ pointer' = "live" /\ len' = Len(image.syms)
  /\ heap' = [heap EXCEPT !["table"] = @ + 1, !["name"] = @ + Len(image.syms),
                          !["elf_symbols"] = @ + 1]
  /\ Goto("qsort") /\ UNCHANGED pfile
Read_symbol_table ==
  /\ pc = "symbols" /\ ~ Fails("symbols") /\ ~ Fails("strings")
  /\ \E ends \in [DOMAIN image.syms -> BOOLEAN] : table' = Loaded(ends)
  /\ pointer' = "live" /\ len' = Len(image.syms)
  /\ heap' = [heap EXCEPT !["table"] = @ + 1, !["name"] = @ + Len(image.syms)]
  /\ Goto("qsort") /\ UNCHANGED pfile

\* NULL is returned, len is left; elf_symbols leaks with the string table.
Read_symbol_tableFails ==
  /\ pc = "symbols" /\ (Fails("symbols") \/ Fails("strings"))
  /\ pointer' = "null"
  /\ heap' = [heap EXCEPT !["elf_symbols"] = IF Fails("strings") THEN @ + 1 ELSE @]
  /\ Goto("qsort") /\ UNCHANGED <<pfile, table, len>>

\* qsort is not stable: any order of equal addresses.
Sorted(t) == \A k \in 1 .. Len(t) - 1 : t[k].address <= t[k + 1].address
Orders(t) == {p \in [DOMAIN t -> DOMAIN t] : \A a, b \in DOMAIN t : p[a] = p[b] => a = b}
Reordered(t, p) == [k \in DOMAIN t |-> t[p[k]]]
Closed == pfile' = "closed" /\ heap' = [heap EXCEPT !["shdr"] = @ - 1]
\* Mutant: the table stays as it was in the file.
QsortNot ==
  /\ pc = "qsort" /\ Goto("idle") /\ Closed /\ UNCHANGED <<pointer, table, len>>
Qsort ==
  /\ pc = "qsort"
  /\ IF pointer = "null" /\ len > 0 THEN Undefined
     ELSE /\ IF pointer = "null" THEN UNCHANGED table
             ELSE \E p \in Orders(table) :
                    Sorted(Reordered(table, p)) /\ table' = Reordered(table, p)
          /\ Closed /\ Goto("idle") /\ UNCHANGED <<pointer, len>>

-----------------------------------------------------------------------------
(***************************************************************************)
(* find_name and PRINT_STACK_TRACE.                                        *)
(***************************************************************************)
\* Mutant: >= in the last comparison.
HitLate(t, addr, i) ==
  /\ i \in 1 .. Len(t) - 1
  /\ t[i].address # 0
  /\ t[i].address # t[i + 1].address
  /\ t[i + 1].address >= addr
Hit(t, addr, i) ==
  /\ i \in 1 .. Len(t) - 1
  /\ t[i].address # 0
  /\ t[i].address # t[i + 1].address
  /\ t[i + 1].address > addr
Find_name(t, addr) ==
  IF \E i \in 1 .. Len(t) : Hit(t, addr, i)
  THEN CHOOSE i \in 1 .. Len(t) :
         Hit(t, addr, i) /\ \A j \in 1 .. i - 1 : ~ Hit(t, addr, j)
  ELSE Len(t)

StartTrace ==
  /\ pc = "idle" /\ inited
  /\ stack' \in Stacks /\ at' = 1 /\ printed' = << >>
  /\ pc' = "trace"
  /\ UNCHANGED <<inited, image, readable, rounds, pfile, memory>>

\* No table, or len - 1 wraps.
NoTable == pointer # "live" \/ len = 0
IsMain(symbol) == symbol.symbol_name = "main" /\ symbol.ends

\* printf reads a name that lacks its end beyond its block, which is undefined
\* behaviour: it prints what is there and goes on, or does not.
Print_stack_trace ==
  /\ pc = "trace"
  /\ IF NoTable \/ at > Len(stack) THEN Undefined
     ELSE LET symbol == table[Find_name(table, stack[at])] IN
          /\ printed' = Append(printed, symbol)
          /\ \/ IsMain(symbol) /\ pc' = "idle" /\ UNCHANGED at
             \/ ~ IsMain(symbol) /\ pc' = "trace" /\ at' = at + 1
             \/ ~ symbol.ends /\ pc' = "undef" /\ UNCHANGED at
          /\ UNCHANGED <<inited, image, readable, rounds, pfile, memory, stack>>

(***************************************************************************)
(* deinit_stack_tracer: symbols keeps its pointer and its length, so that  *)
(* a round whose init returns before it reads a table frees the one of the *)
(* round before again: malloc notices, or the count goes below zero.       *)
(***************************************************************************)
\* Mutant: i <= symbols.len.
Deinit_stack_tracerOneMore ==
  /\ pc = "idle" /\ inited
  /\ IF pointer = "null" /\ len > 0 THEN Undefined
     ELSE /\ inited' = FALSE
          /\ IF pointer = "null" THEN UNCHANGED <<pointer, heap>>
             ELSE /\ pointer' = "freed"
                  /\ heap' = [heap EXCEPT !["table"] = @ - 1, !["name"] = @ - (len + 1)]
          /\ UNCHANGED <<pc, image, readable, rounds, pfile, table, len, walk>>
Deinit_stack_tracer ==
  /\ pc = "idle" /\ inited
  /\ \/ /\ pointer = "freed" \/ (pointer = "null" /\ len > 0)
        /\ Undefined
     \/ /\ ~ (pointer = "null" /\ len > 0)
        /\ inited' = FALSE
        /\ IF pointer = "null" THEN UNCHANGED <<pointer, heap>>
           ELSE /\ pointer' = "freed"
                /\ heap' = [heap EXCEPT !["table"] = @ - 1, !["name"] = @ - len]
        /\ UNCHANGED <<pc, image, readable, rounds, pfile, table, len, walk>>

InitSteps ==
  \/ Fopen \/ Read_header \/ Read_section_header \/ Get_symtab_strtab_idx
  \/ Read_symbol_table \/ Read_symbol_tableFails \/ Qsort
Next == InitSteps \/ StartTrace \/ Print_stack_trace \/ Deinit_stack_tracer

Spec == Init /\ [][Next]_vars

-----------------------------------------------------------------------------
(***************************************************************************)
(* Properties.                                                             *)
(***************************************************************************)
Pcs == {"idle", "undef", "header", "sections", "indexes", "symbols", "qsort", "trace"}

\* The state has the shape that C gives it; a table is live between init and deinit.
TypeOK ==
  /\ pc \in Pcs /\ inited \in BOOLEAN /\ readable \in BOOLEAN
  /\ image \in Images /\ rounds \in 0 .. MaxRounds
  /\ pfile \in {"null", "open", "closed"} /\ pointer \in {"null", "live", "freed"}
  /\ heap \in [Kinds -> Int] /\ len \in Nat
  /\ pointer = "live" => inited /\ Len(table) = len
  /\ stack \in Stacks /\ at \in 1 .. Len(stack) + 1

\* The symbol of an address is one of those with the greatest address that is not
\* beyond it.
Covers(t, i, addr) ==
  /\ t[i].address <= addr
  /\ \A k \in 1 .. Len(t) : t[k].address <= addr => t[k].address <= t[i].address
Known(t, addr) == \E k \in 1 .. Len(t) : t[k].address # 0 /\ t[k].address <= addr

\* Every line of a trace names the function that its address is in, in the order
\* of the calls, when the table has a symbol before the address.
NamesRight ==
  pc = "trace" =>
    \A k \in DOMAIN printed :
      Known(table, stack[k]) =>
        \E i \in 1 .. Len(table) : table[i] = printed[k] /\ Covers(table, i, stack[k])

\* As long as every file could be read, what init takes is what deinit gives back, over
\* any number of rounds: no block and no file is left.
Balanced ==
  pc = "idle" /\ ~ inited /\ readable =>
    heap = [k \in Kinds |-> 0] /\ pfile = "closed"

\* No block is freed twice: in the first round, whichever step of init fails, and
\* in the later ones as long as every file could be read.  (A round that finds no
\* symbol table after one that did frees the first one's again.)
FreedOnce == rounds <= 1 \/ readable => \A k \in Kinds : heap[k] >= 0

\* As long as every file could be read, no call meets undefined behaviour but
\* printf, by a name that lacks its end, and a trace of a stack that main is not
\* on, or that main's name, which may lack its end too, does not stop.
DefinedUse ==
  pc = "undef" /\ readable =>
    \/ at <= Len(stack) /\ ~ printed[at].ends
    \/ /\ at > Len(stack)
       /\ ~ \E k \in 1 .. Len(stack), i \in 1 .. Len(table) :
              /\ IsMain(table[i]) /\ table[i].address # 0 /\ Covers(table, i, stack[k])
              /\ \A j \in 1 .. Len(table) : j # i => table[j].address # table[i].address

=============================================================================
