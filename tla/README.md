# Verification of simple-tools

`simple-tools` is a collection of six independent programs. This directory
models them in TLA+, checks the models with TLC on small instances, and proves
the main invariants with TLAPS for every value of the constants.
`PROJECT.json` lists the components, the runs, the mutants that show each
property can fail, the source lines behind every definition, the hazards and
the theorems.

## 1. Inventory

The programs share no state and do not talk to each other.

### simple-fs (C, libfuse): a read-only FAT16 file system

*State.* One `fat_fuse`, made by `fat_init` and shared by all handlers: the
open image `fp` **with its file position**, a copy of the first FAT, a copy of
the root directory, and the geometry. libc adds a second piece of shared state,
the static pointer inside `strtok`. Everything else is local to a handler.
*Operations.* `fat_init`, `fat_destroy`; `fat_getattr`, `fat_readdir`,
`fat_open` (each: `parse_path`, then `get_dir`, which walks one directory per
path component), and `fat_read` (one cluster at a time).
*Interaction.* The kernel calls the handlers through libfuse, one at a time
with `-s` (as `run.sh` does) or from several threads (the `README.md` way of
mounting by hand). It looks a path up component by component and opens and
reads only what it has looked up.
*Hard.* Interleaved handlers on `fp` and `strtok`; the chain of a directory is
walked twice, to size a buffer and to fill it; buffers change owner along a
recursion; images may be corrupt.
*Correct when* each answer is the one the image determines, no buffer is
overrun, freed twice or lost, and every request is answered.

### bril-interpreter (C++)

*State.* A `Context`: the functions, a stack of frames (variables, a **cache of
label positions**, instruction pointer) and one `ret_val` shared by all calls;
plus the memory its `alloc` hands out.
*Operations.* One function per opcode, `setup_frame`, `get_main_args` and the
loop `interpret_function`, which `interpret_call` enters recursively.
*Hard.* Long instruction sequences: the label cache is filled partly by
executing labels and partly by a forward search; `ret_val` outlives the call
that set it; pointers and values are told apart by variant indices.
*Correct when* each step does what Bril says, and programs that go wrong are
stopped rather than continued with an inconsistent frame, cache or pointer.

### simple-jit (C++)

Translates `main` of a Bril program to AArch64 words and runs them.
*State.* A vector of words while compiling; registers, stack and SP while
running. *Operations.* One `parse_` function per opcode, one `emit_` function per
instruction form, the driver that maps the code and calls it.
*Hard.* `print` permutes registers through the stack around a call that may
clobber half of them; immediates and register numbers are packed into fields;
the call of a function far away needs other instructions than that of a near one.
*Correct when* the words decode to the intended instructions and their
execution computes what the program means.

### simple-shell (C++)

A loop that reads a line and runs `exit`, `pwd`, `cd` or a program.
*State.* stdin's and stdout's buffers, the working directory, at most one child;
with the child, and the program it becomes, it shares the open file on standard
input **and its offset**.
*Operations.* The loop of `main`, `func_exit`, `func_pwd`, `func_cd`,
`func_external` (fork, execvp, waitpid). *Interaction.* With its child, and with
the environment: signals stop, continue and kill either. The shell installs no
handler, so that no signal interrupts `waitpid`.
*Hard.* A child whose `execvp` failed leaves by `exit()` with the shell's
buffers; `waitpid` also reports that a child was stopped or continued, in any
order with its end; SIGCHLD may be ignored. *Correct when* each line that no
program has read runs its command once, output appears once, and the prompt returns when the command has
ended.

### simple-stack-tracer (C)

Reads its own ELF symbol table and names the frames of a backtrace.
*State.* A static table of symbols with its length, a file handle; they outlive
a round of `init`, traces, `deinit`. *Operations.* `init_stack_tracer` and its
five steps, `find_name`, the macro `PRINT_STACK_TRACE`, `deinit_stack_tracer`.
*Hard.* Every failure branch of `init_stack_tracer`, most of which go on with what
a failed step has closed or left; equal and zero addresses; empty tables.
*Correct when* an address gets the name of the symbol that covers it and
everything is freed once.

### uses-and-defs (Python)

Cuts a RISC-V function into basic blocks, links them to a control-flow graph,
searches the uses of every definition along it, and draws the result.
*State.* The blocks, their successors, the links; while a search runs, the
recursion and the set of blocks met. *Operations.* `get_bb`, `build_cfg`,
`build_uses_and_defs` with `find_uses`, `process_cfg`, `handle_click`.
*Hard.* Loops in the graph, fall-through blocks, labels that rename a block,
operands compared as text, lookups by name and unpackings that raise, Python's limit
of recursion. *Correct when* the blocks
and arrows are the flow of control and the links are the def-use chains along it.

## 2. Plan

| step | modules | what | state |
|---|---|---|---|
| 1 | `FatVolume`, `FatFsSpec`, `FatFuse`, `MCFatFuse` | the handlers of simple-fs, one and several workers, refinement of an abstract file system | done |
| 2 | `FatFuseProofs` | types, buffer ownership, buffer bounds, the serial mount's freedom from races and aborts | done |
| 3 | `BrilProgram`, `BrilSpec`, `BrilInterp`, `MCBril` | the interpreter and its refinement of the language's meaning | done |
| 4 | `BrilProofs` | types, stack discipline, label caches, pointer typing | done |
| 5 | `FatMount`, `MCFatMount`, `FatMountProofs` | `fat_init`, `fat_destroy`: boot sector arithmetic with its widths, failure paths, double free | done |
| 6 | `A64`, `JitEmitter`, `JitCompile`, `JitProperties`, `JitReach`, `MCJit`, `JitProofs` | the emitters bit by bit, the compiled code against the program's meaning, the reach of the calls | done |
| 7 | `UsesDefs`, `UsesDefsProperties`, `MCUsesDefs` | blocks, graph and links against the flow of control line by line | done |
| 8 | `StackTracer`, `MCStackTracer`, `TracerProofs`; `Shell`, `MCShell`, `ShellProofs` | life of the tables and the file; the shell, its child and signals | done |
| 9 | `Iteration`; the proof modules again | that a serial `FatFuse` implements `FatFsSpec`; that `BrilInterp` implements `BrilSpec` step by step; the walks of chains; that sound images are mounted | done |
| 10 | `UsesDefsProofs` | blocks, arrows, links and drawing for every function | done |
| 11 | `JitProofs` again | that every call sequence of `jit_simple_add` arrives | done |
| 12 | `JitProofs` again | the run of the compiled code: `Regularly`, `Agrees`, `ConventionKept` | done |

Abstract specifications: `FatFsSpec` (a request, then the answer the on-disk format
determines) and `BrilSpec` (activations with labels that name places, no cache
and no shared return value).

## 3. The modules

### FatVolume, FatFuse (src/simple-fs/fat)

`FatVolume` is the image after a successful `fat_init`, and the pure helpers.
Sizes are counted in slots of 32 bytes, the size of a `dir_t`, so that one unit
serves for directories and file data. A name is a base and an extension (`full`
when it uses all 8 + 3 characters). An entry's `kind` is its attribute: "dir" is
exactly 0x10, what the code compares with; "marked" is a directory with further bits
set, "label" a volume label or a piece of a long name, both of which the code takes
for files. `Volumes` ranges over any set of images;
a table entry past the end of `fat_dir` is any of `HeapValues`.

`FatFuse` runs the handlers in `Workers`. `th[w]` holds the locals of worker
`w`'s handler and its `pc`; a step is the handler's work up to and including its
next access to shared state, so that every order of `strtok`, `fseek` and
`fread` calls of different workers is a behaviour.

| code | actions |
|---|---|
| the kernel's calls (external) | `Submit`, limited by `KernelAsks` to what a kernel that has looked a path up sends |
| `parse_path` | `StrtokFirst`, `StrtokNext`, `StrtokStale` (the pointer is into a freed string) |
| handlers on "/" | `DispatchRoot` |
| `get_dir`, `search_dirs` | `DispatchDir`, `SearchMiss`, `SearchHit`, `LoadedSearch` |
| `get_num_clusters` | `CountStart`, `CountNext`, `CountEnd`, `CountBadLookup`, `CountBadList` |
| `read_dir_entries`, `read_dir` | `Seek`, `Fread`; after a short read `FreadShort`, or `FreadShortLookup`, `FreadShortList` |
| the ends of the handlers | `FoundAnswer`, `FoundDir`, `LoadedList` |
| `fat_read` | `ReadStart`, `ReadSeek`, `ReadFread`, `ReadShort`, `ReadDone` |

`held` counts the directory buffers a handler owns. Memory that is used after
being freed, or freed without having been allocated (`free(dirs)`, fat.c:106), is a
choice between going on with unknown contents, the buffer lost, and the end of the
process (`proc = "aborted"`). `dcache` and `handles` are the kernel's: what it was told
of a path, and the files it has open.

`FatFsSpec` is the promise: a busy worker answers with a member of
`Promise(vol, request)`, which it computes from the image by the rules of the format
and not by those of the code: the chain of a directory and all of its members (labels
and pieces of long names are none), names with a dot where there is an extension, the
directory attribute whatever other bits say, and of a read the bytes from its offset,
as many as were asked for and `DIR_FileSize` counts. The mapping to it (`Fs`) is what a
client sees: `Seen` cuts the data of a read at the size that `getattr` gave the kernel
for the file, as the kernel does; `fat_read` itself, which has no size, returns the
bytes of the last cluster beyond it.

### FatMount (src/simple-fs/fat/main.c)

The program around the handlers. `pc` says how far it is: `Main` (options,
`realpath`), then `fat_init` as `InitOpen`, `InitBoot`, `InitRoot`, `InitFat`,
each with its way to `set_err`, the session (`"loop"`, and `session` turns
`FALSE` by `fuse_exit` or `Unmount`), `FatDestroy` and `Exit`. `ff` is the
`fat_fuse` with each pointer `"null"`, a `"block"` of its own or `"wild"`, what
`malloc` left there; `live` is what the process has acquired. A failed
`fat_init` returns such an `ff`, and `fat_destroy` may free its wild pointers:
that crash, the divisions by a zero sector or cluster size, and the `int` size
of the table that overflows are steps of the model (`Crash`). The arithmetic
keeps its widths, as the constants `U8` to `U64`; `root_off` and `fat_off` are
locals of the code kept in `ff` for the properties. `malloc` is taken to succeed
but for a size close to all of `size_t`. Where `InitFat` succeeds, `FatFuse`
begins.

### BrilProgram, BrilInterp (src/bril-interpreter/src)

`BrilProgram` gives the shape of a program as the JSON accessors see it, the
variant `Value` (a number of a base type, or a pointer as block and offset) and
the operators behind `IMPLEMENT_BINOP`. Integers are `IntMin .. IntMax` and
wrap, as the build's signed arithmetic does; a division that traps has no result. Floats and
characters are two values each; a float operation may give either.

`BrilInterp` has one action per `interpret_` function (`Interpret_binop` stands
for the 26 made by the macro, `Interpret_unsupported` for the ten opcodes marked
0), `Start` and `StartThrows` for `get_main_args` with `setup_frame`, and
`Return` for the end of `interpret_function`'s loop together with the rest of
`interpret_call`. `status` says how the process ended: an exception ("threw",
or "label" for that of `find_label`), or "undef" for an assertion, a trap or
undefined behaviour: a bad access, `args_size` of an instruction without
arguments, the C++ stack used up. `labels` is the frame's cache, `NotCached` for
an absent key.

`BrilSpec` is the language: labels are places, a call's result is its own
callee's. `BrilInterp!Bril` is the refinement mapping (`Activations`, `State`): the
label cache disappears, and `ret_val` becomes the result of the activation on top
when that activation is over and its caller wants a value.

`StepsAreBril` is the refinement one step at a time. `Meaningful` says which
steps Bril speaks of: the process goes on, and a function whose result is wanted ends
in a `ret` that has one. Where the interpreter stops (a label not found, an
undefined variable, a bad access) the step is outside, before and after it they
are all held to `BrilSpec`, whatever stray pointers and left-over results there
are. `Regular` is what Bril asks of a program and the interpreter never checks.

### A64, JitEmitter, JitCompile, JitProperties, JitReach (src/simple-jit/src)

A word is the set of its one-bits, so that `|` is union and a shift moves the
members: a field that is too wide runs over into its neighbour in the model as
in the code. `A64` holds the architecture's side (external): the fixed bits of
the fifteen instructions, `Op`, and the fields. `JitEmitter` has one operator
per `emit_` function.

`JitCompile` first translates, one action per `parse_` function, then runs what
it made. `prog`, `build`, `code` belong to the parser; `reg`, `sp`, `stack`,
`pc` to the processor, which is external and decodes the words. `build` says whether assertions
are compiled in, whether the system traps accesses by a misaligned SP, and
where `mmap` puts code. A register has four parts of `PartBits` bits, 16 in the
code (`Unit` holds what one of each part is worth). `Jit_bril` copies the words and calls them; the call of `print_int` leaves
any of `Garbage` in the caller-saved registers (`Blr`).

`JitProperties` gives the program's meaning, `After(n)` behind its first n instructions.
`kept` are the variables the code is held to: not those under a second name of the
same register, not register 31, not caller-saved ones that a `print` neither
moved nor moved to, not what comes from an undefined division or a constant
wider than an immediate.

`JitReach` is the other function of the driver, `jit_simple_add`, whose call in
`main` is commented out (main.cpp:187): the choice among `bl`, `adrp; add; blr`
and four moves with `blr`, and what the processor makes of each (`Running`). How many
values a field has (`BranchRange`, `PageRange`, `MovRange`) and the size of a page are
parameters.

| code | definitions |
|---|---|
| `get_code` and the `parse_` functions | `Parse_label`, `Parse_unsupported`, `Parse_const`, `Parse_binop` (four of them), `Parse_ret`, `Parse_print` |
| the parts of `parse_print` | `Saved`, `Moved`, `Call`, `Restored` |
| `jit_bril` | `Jit_bril` |
| the processor (external) | `MovWide`, `DataProcessing`, `AddImmediate`, `LoadStore`, `LoadStoreFault`, `Blr`, `Ret`, `RunsOff` |
| `jit_simple_add` | `CallPc`, `Off`, `Pages`, `Bl`, `AdrpAddBlr`, `MovsBlr`, `CallWords` |

### UsesDefs, UsesDefsProperties (src/uses-and-defs/main.py)

A line is an instruction with up to three operands, as `parse_instr` makes them;
a label is a line without operands. `phase` follows `draw_cfg`: "blocks" is
`get_bb` (`Terminator`, `Label`, `Ordinary`, `Get_bb_return`), "cfg" is
`build_cfg` (`Conditional`, `Unconditional`, `FallThrough`, `Build_cfg_return`),
"uses" and "search" are `build_uses_and_defs` and `find_uses` with its recursion
as a list of calls (`NoDefinition`, `NextBlock`, `Search`, `Find_uses`,
`Find_uses_return`; `pos` is the block and `at` the line of the two loops), "show" is
the text with its operands split at '(' (`Show`), "draw" is `process_cfg`
(`Process_cfg`) and the layout's lookups and divisions (`Layout`), "shown" waits for
clicks (`Handle_click`). Each exception is a way for Python to end: KeyError,
AssertionError, ZeroDivisionError, the ValueError of an operand with two '('
(`Unsplit`; `Doubled` are those operands) and, where a call is deeper than `MaxDepth`,
RecursionError (`TooDeep`).

`UsesDefsProperties` defines the flow of control line by line from what RISC-V
does, not from blocks, and the lines a definition reaches along it
(`Reached`). What an instruction writes and reads is RISC-V's: a store, a branch and
`jr` write no register and read their first operand (`Writes`, `Read`, `Redefines`);
`Asked` and `Unhidden` say where `find_uses` looks. The operators take the program as a
parameter. `Legible` and `Fit` name what main.py can read; see the findings.

### Shell (src/simple-shell/src)

`mode` is where the shell is: "prompt", "dispatch", "wait", or how it ended.
`Getline` reads `BufferLines` at once, as stdio does; `ran` records the lines.
The commands are `NoWords` (front() of an empty vector), `Func_exit`,
`Func_pwd`, `Func_cd`, and `func_external` as `Fork`, `ForkFails`, `Waitpid`,
`WaitpidFails` in the shell and `Execvp`, `ExecvpFails` in the child. A program may
read lines of the input it shares with the shell (`ProgramReads`), which are then
`taken`; what it reads ahead and gives back is left out. It may be given more
arguments than the line has (`Jumbled`): the array for `execvp` has no null pointer at its
end, which is undefined behaviour on every external command, and of which the model has
only that outcome. `ProgramEnds`, `StopSignal`, `ContinueSignal`, `KillChild`, `Interrupt` and `RemoveDirectory`
are the environment. `report` is the change of the child's state that the kernel
has yet to report; a newer one replaces it. `GivenBack` is what `exit()` does to
the shared offset of a file; `back` records that it did.

### StackTracer (src/simple-stack-tracer)

`init_stack_tracer` is a chain of actions, `Fopen` to `Qsort`, and `image` says
which step fails; each failing step leaves what the code leaves and goes on where
the code goes on. `heap` counts the live blocks of each kind. A name's last byte
is copied without its terminator, so whether it ends is chance (`ends`); to print one
that does not is undefined behaviour, which goes on or ends the run (`pc = "undef"`). A
second `deinit` of a table that a failed round left in `symbols` frees it twice: the
counts go below zero, or malloc notices. `Qsort`
leaves equal addresses in any order. `StartTrace` and `Print_stack_trace` are the
macro, one line of the trace a step, `Find_name` the search. `readable` records
whether every file so far could be read.

## 4. The runs

| run | instance | shows |
|---|---|---|
| `fat_serial` | one worker; two sound images with nested directories, scattered and shared-length chains, deleted entries; reads of less, as much and more than a file has | `ImplementsFs` |
| `fat_corrupt` | one worker; images with cyclic chains, chains into free, bad, and out-of-range clusters, a directory of two clusters, a full name, a label, a marked directory; reads longer than the chain and from another offset | `BufferOwnership`, `BufferBounds`, `ReadsLinked`, `AbortsOnBroken`, `AnsweredUnlessCyclic` |
| `fat_parallel` | two workers that look up and list a directory of two clusters and a file, with lists of up to three tokens of either path | `BufferOwnership`, `AnsweredUnlessCyclic` under every race |
| `fat_shared_position` | two workers that read two files | finding 1 |
| `fat_mount` | 103680 images: boot sectors around every limit, times four file lengths; `unsigned char` of 2 bits, `uint16_t` of 4, `uint32_t` of 8, `size_t` of 12 | `TypeOK`, `ServesIntact`, `Released`, `AreasOrdered`, `SoundIsMounted` |
| `bril_structured` | 12 well-typed programs: loops, a loop with calls in it, recursion, void calls between a `ret` and its use, pointers passed down; same label names in all functions; three inputs | `ImplementsBril`, `Terminates` |
| `bril_wild` | 12168 programs: an `alloc` and three instructions in `main`, one and a `ret` in `f`, out of 26 | `StepsAreBril`, `CacheSound`, `StackSound`, `ValuesSound` |
| `bril_rotated` | one loop entered at its test | finding 2 |
| `jit` | prints of up to three of four variables in every order and repetition; aliased names and registers 0, 16, 31; every operation on immediates of either sign without assertions; programs to be turned down in all four builds; 24 mappings times 192 places of `simple_add` | `Agrees`, `ConventionKept`, `CodeDecodes`, `CallReaches` |
| `uses` | three blocks with every pair of jumps between them; loops of one to three blocks; stores of the register searched for; labels twice, in a row, missing, last; the jumps and operands main.py misreads; seven blocks against a recursion of five | `BlocksPartition`, `FlowAgrees`, `LinksSound`, `LinksFound`, `ReachableIsShown`, `ShownIsComplete`, `GreenDefines`, `Ends` |
| `shell` | every script of up to three of seven lines, four and five of programs; from a pipe and from a file; SIGCHLD ignored or not; programs that read of it; up to three signals at any moment | `LinesOnce`, `OutputOnce`, `PromptAlone`, `WaitsForSomething`, `Reaped` |
| `tracer` | six readable tables with zero, equal and unordered addresses and a file for each of nine failures, in any order over two rounds; five stacks | `NamesRight`, `Balanced`, `FreedOnce`, `DefinedUse` |

*Bounds.* Four slots to a cluster and six clusters give chains of length one to
four, a full and a half-empty directory, and a partial last cluster. Nothing in
the handlers depends on a number beyond "one more cluster", "one more
component", "one more token". `MaxCount` stops `n_clusters` only on a cycle.
`MaxTokens` is longer than any path (`RequestAssumption`), so that `plist` reaches it
only where two workers feed `strtok` each other's strings: each starts a new request
before the other has met the end of its path, and the other's list grows without end.
The model stops such a worker at the bound, and `AnsweredUnlessCyclic` names it (`Fed`).
In `fat_parallel` the bound is three, one more than it takes for a handler to descend by
a list of two paths. For Bril, `MaxDepth` is the C++ stack, `MaxBlocks` and `MaxSize` the memory,
`MaxStray` the distance a pointer that left its block is followed; integers of
three bits meet every sign, overflow and division case. For the mount the
integers are so narrow that small boot sectors reach every wrap; they keep the
relations between the C types (`MountAssumption`), on which the proofs rest.
For the jit `PartBits = 3` makes registers of 12 bits and immediates of 3, so
that all immediates and every wrap are met; nothing in the code depends on the
width but the assertion of `parse_const`, which is written with the widths.
`StackSlots = 16` is more than print's longest list pushes; `PageBytes = 1024` is
SIZE scaled so that a program of four prints runs out of it. The fields of `bl`,
`adrp` and `movz` have 32, 16 and 8 values, so that every limit is met from both sides.
The words of test/test_emitter.cpp are an assumption of `MCJit` (`EmitterTests`)
that TLC evaluates. Blocks of one to three lines are enough for `UsesDefs`, whose
code asks only for the first, the last and "another" line of a block; `MaxDepth = 5`
stands for Python's limit, about a thousand. For the shell
`BufferLines = 4` is less than the longest script, `MaxLines = 6` stops the
re-reading of a file, and `MaxSignals = 3` allows stop, continue and kill in any
order. `MaxRounds = 2` shows the tracer what a round leaves to the next.

The hypotheses of the theorems of section 5 are assumptions of the MC modules, so
that TLC evaluates them on the instances: `ImagesAreSound` (the images of `fat_serial`)
and `ProgramsAreRegular` (the programs of all three Bril runs);
so are the named assumptions of the other modules.

*Deadlock.* It is checked in `fat_serial`, where the worker can always take the next
request. Elsewhere the process may end: by an abort, an exception or a signal,
or because a program or a script is over (`CHECK_DEADLOCK FALSE`).

*Fairness.* A worker whose handler can take a step takes one (`WF` of
`Handle(w)`): threads are scheduled, and no handler waits for another. Nothing
is assumed of the kernel. The interpreter and uses-and-defs are one thread: `WF`
of `Next`. For the shell, `WF` of its own steps only: a program need not end, and
no signal need come.

### Findings

1. Without `-s`, two handlers share the position of `fp`: a read can return
   another file's bytes (`fat_shared_position`).
2. `find_label` searches forward only: a jump back to a label that the frame
   has not executed throws "not found" (`bril_rotated`).

The properties of the passing runs name, as conditions, where the code does not do
what one would expect of it. These are disagreements too; they are recorded here
and in the hazards, and not each with a run of its own:

- simple-fs, offsets: a read from any offset but 0 is answered by EPERM, with a TODO
  (main.c:240). `FatFsSpec` promises the bytes, so that `ImplementsFs` is checked
  (`Offsets = {0}`), and proved (`Offsets \subseteq {0}`), for reads from the start.
- simple-fs, sizes: `fat_read` does not know `DIR_FileSize` and returns what the last
  cluster holds beyond it; that a client does not see it is the kernel's doing (`Seen`).
  A short read returns `-errno`, which `fread` may have left at 0: an empty read.
- simple-fs, names and attributes: a volume label is listed as a file, a directory with
  any further attribute bit is taken for a file, a directory's extension is left
  out, a file without an extension gets a dot at its end (fat.c:78-81,
  main.c:131, 155), and a name of 8 + 3 characters leaves `name[12]` (fat.c:74) without
  its terminator. `Plain` excludes such entries; `fat_corrupt` has each.
- simple-fs, directories of several clusters: `*dirs + i` (fat.c:105) advances by one
  entry, so that clusters overwrite each other, entries are lost and the rest of the
  buffer is what `malloc` left. `SoundEntry` asks for one cluster below the root.
- simple-fs, table values: a value of 1 ends the second walk of a chain and not the
  first (fat.c:13, 26), which counts on in the table's entry 1: the walks agree on
  chains that end in a mark (`Countable`).
- simple-fs, several workers: they share `strtok`'s pointer too (fat.c:65), so that a
  lookup can fail, find another file, use a freed string, or never end; listings can be
  wrong by the shared position. `ImplementsFs` is about one worker.
- bril-interpreter: `ImplementsBril` is checked on programs that enter loops at
  their first label.
- simple-jit: a negative constant fails the assertion on 16-bit immediates
  (parser.cpp:109), so that `Agrees` meets negative immediates in the build without
  assertions; register 31 is accepted (parser.cpp:63) and reads as zero, and a
  `print` clobbers the caller-saved variables it neither moves nor moves to (`kept`);
  pushes of single registers (parser.cpp:183) trap where SP must be aligned, a print
  without arguments and code longer than half the mapping are undefined (`Regular`).
- uses-and-defs, text: `'ret' 'call'` lacks its comma (main.py:17), so that neither ends a
  block; the target of `beqz` and its like is looked for in the third operand
  (main.py:124); `s1` is found in `s11` (main.py:88); a label or target that has a
  name main.py makes up for a block, "entry" or "block0", is taken for that block
  (main.py:144, 152); these are kept out by `Legible`.
- uses-and-defs, links: `sw` is among the definitions (main.py:107), so that
  `sw a5,-20(s0)` is linked to later reads of `a5`, which it does not define, against
  its README.md:106; `LinksSound` is about instructions that write a register. The register
  that `sw` and `sd` store is not asked for (main.py:88), so that in README.md:48-49
  `mv a5,a0` has no link to `sw a5,-20(s0)`; nor are the operands of `slliw`, of branches
  and of `jr`; and a store or branch of the register ends a search as a redefinition
  (main.py:97). `LinksFound` names each (`Asked`, `Unhidden`), and that `find_uses` never
  returns to the lines of a block before the definition (main.py:81).
- uses-and-defs, ends: `show` raises ValueError on an operand with two '(', as in
  `lw a5,%lo(g)(a5)` (main.py:212), and `find_uses` and `process_cfg` recurse once for
  each block on a path (main.py:101, 263), so that a long function ends in
  RecursionError; `ReachableIsShown` excludes both, and calls, dropped lines and two
  labels in a row. `ShownIsComplete` covers the last two: what is lost was not reached,
  or main.py does not come to show the function.
- simple-shell: an empty line, the end of the input, and `pwd` in a removed directory
  are undefined behaviour (`NoWords`, `Func_pwd`), and so is execvp's array without a null
  pointer (builtins.cpp:68), on every external command. A program that reads its
  standard input takes lines of the script, and with a file the lines in the buffer run
  again after a command that does not exist: `LinesOnce` is about the lines that no
  program took, until input was given back.
- simple-stack-tracer: after a file that could not be read, position-independent
  executables among them (read_elf.c:46), a closed file is used and a trace has no
  table (`readable`). A round whose file has no `.symtab` after one that had it frees the
  first one's table again (read_elf.c:171, 187; `FreedOnce` leaves it out). Names are
  copied without their terminator (read_elf.c:98-100) and printed with `%s`
  (read_elf.h:40, 44): an over-read of every such name, and `main` may not be
  recognised (`DefinedUse` names both). README.md:54 shows `test` as the first line of
  a trace that `test` prints; the code begins with the return address, and so with its
  caller, `foo`.

## 5. The proofs

`FatFuseProofs` proves for every set of images that are well-formed
(`VolumeAssumption`: table values of 16 bits, entries of the right shape; they
may be as corrupt as they like), every set of workers and every bound:

- `TypesHold`: `Spec => []TypeOK`;
- `BuffersAreOwned`: `Spec => []BufferOwnership`;
- `BuffersAreBounded`: `Spec => []BufferBounds`;
- `WalksAgree`: `Spec => []ChainAgreement`;
- `OnlyBrokenAborts`: with one worker, on any image, `Spec => []AbortsOnBroken`;
- `SerialReadsAreLinked`: with one worker, on any image, `Spec => []ReadsLinked`;
- `SerialMountImplementsFs`: with one worker, on images that are `Sound`, for reads from
  offset 0, `Spec => ImplementsFs`;
- `SerialReadsAreRight`: there, a client sees of every read what the format promises
  (`ReadsRight`).

The invariant that carries them is `IInv`. `BufferBounds` is not inductive: that
index `i` stays inside the buffer follows from the buffer having `n` clusters
and `i < n` between the reads, which `Shape` adds; that `search` has a token to
look for needs `idx <= Len(plist)`, which `Shape` adds too. `BufferOwnership`
is kept as it is (`Owns`), because `held` is tied to `pc` and `idx` at every
step. With a single worker strtok's pointer and the file position are the handler's own
(`SharedStateHeld`, the lemma `SerialMountIsSafe`): every step that moves them is its own.

The others are about chains, which `FatFsSpec` defines by recursive functions.
`Iteration` has the inductions they need, stated over sets of naturals because the
provers cannot instantiate an operator: `Iterates` (a function given by its value at
0 and by a step exists and is as given) and `Saturates` (a set that grows in a finite
one is closed after as many steps as the whole has members).

- `WalksAgree` has no hypothesis: `ChainAgreement` itself is about the chains that end
  in a mark (`Countable`). Races make the handlers follow entries that only occur in file
  data or in old memory; the invariant `WalkInv` puts `n` and `cluster` on the chain of
  the entry the walk began with, whichever it is.
- `OnlyBrokenAborts` adds to it where an abort comes from: the assertion on the first
  cluster (a chain that is empty), a short read (on a chain that is `Countable` and with
  the position held, `WalkInv` and `SharedStateHeld` put the read inside the image), and
  a freed string, which `SharedStateHeld` excludes.
- `SerialReadsAreLinked` has no hypothesis on the image. A chain may be cyclic, so the
  invariant cannot count along it: `Linking` says that while `fat_read` walks,
  a cluster inside the image is in `Near`, a set that `Linked` includes and the table
  does not leave. That there is such a set is what `Saturates` shows: `Linked` takes
  as many steps as the image has slots, and so cannot grow further inside it.
- `SerialMountImplementsFs`: `Sound` says of each entry the paths name that a file has a
  chain that ends, stays in the image and is as long as its size, and a directory plain
  entries, of names that differ, and, below the root, one cluster (section 4, Findings,
  gives the reasons). The inductive invariant is `SerialInv`: at each `pc`, how far the
  lookup is (the directory in `dirs` is the one `FatFsSpec` resolves for the components
  met so far), how far the walk or the read is, and that what is still to come gives the
  promised answer (`FsInv`, `ServeInv`); `Remembered` says that what the kernel was told
  of a path, its size too, is what the image has, without which the cut of a read would
  not be the promised one. Each handler step either keeps the abstract state or is
  `Answer` with a member of `Promise`. TLC found `ImplementsFs` to hold on
  `fat_serial` first, and the hypothesis on its images (`ImagesAreSound`).

`FatMountProofs` proves for every boot sector, every file length and every width
of the integers that satisfies `MountAssumption` (as 8, 16, 32 and 64 bits do):

- `MountTypes`: `Spec => []TypeOK`;
- `MountIsIntact`: `Spec => []ServesIntact`;
- `MountIsReleased`: `Spec => []Released`;
- `MountIsOrdered`: `Spec => []AreasOrdered`;
- `SoundImagesMount`: `Spec => SoundIsMounted`.

The invariant says what each stage has set and holds (`Checked` for the geometry).
The argument of `MountIsOrdered` is `NoWrap`: where the tables of a volume take
more sectors than it has, the `size_t` difference wraps to a number whose quotient
by any `SecPerClus` is above 65525, so that the upper bound of the cluster count,
and not only the lower, keeps such an image out; then no 32-bit product of an
image of at most 4 GiB wraps. Above 4 GiB `RootDirOffset` does wrap, and whether
the table covers all clusters is checked nowhere: both are outside the property.
`SoundImagesMount` is an action property: its invariant `SInv` follows a sound image
through the stages, with the values each of them has read.

`BrilProofs` proves for every set of well-formed programs (`ProgramAssumption`:
each instruction has the arguments its macro reads, each constant fits its type;
any control flow and any use of pointers), every range of `int`, every depth of
the stack and every heap:

- `InterpreterTypes`: `Spec => []TypeOK`;
- `StackIsSound`: `Spec => []StackSound`;
- `CachesAreSound`: `Spec => []CacheSound`;
- `ValuesAreSound`: `Spec => []ValuesSound`;
- `MeaningfulSteps`: where all programs are `Regular`, `Spec => StepsAreBril`;
- `InterpreterImplementsBril`: there, `Spec /\ [][Meaningful]_vars => ImplementsBril`.

The invariant is `IInv`, the same four facts with the program and the heap as
parameters: a frame that is good for a heap is good for every heap that grows
from it (`GrowsFrame`), so that `alloc` need not look at the frames. The four
need each other. The pop writes `ret_val` to the caller's `dest`, so `ValuesSound`
covers `ret_val`, whichever call left it there; that the caller's instruction is
a call is `Waits`, which `StackSound` needs to survive a `call` that recurses;
a cached jump stays inside the function because `CacheSound` says the label is
in it. The arithmetic lemmas (`WrapRange`, `QuotientRange`) say that the modelled
operations stay in `int`, the division only because `Traps` excludes
`INT_MIN / -1`. `LeastFound` (from well-foundedness) is what makes `find_label`'s
first match exist.

The refinement rests on the same invariant: there is one lemma for each action,
which maps the step to the action of `BrilSpec` of that name. The jumps need
`CacheSound` (a cached index is where the label stands, so that jumping there is
jumping to the place), the calls and returns `StackSound` (the frame below waits at
the call whose `dest` the result goes to), with `StackTop`, `StackPush` and
`StackPop` for how the mapping sees the stack. `Regular` is needed as stated: of two
parameters of one name the frame keeps the first (`emplace`, interpreter.cpp:182) where `BrilSpec`
chooses any; the arguments of a call are counted only if the function has "args"
(interpreter.cpp:167). `Meaningful` cannot be
dropped, as the finding shows; TLC found `ImplementsBril` without it, and
`[][Meaningful]_vars`, on `bril_structured`, and `StepsAreBril` on the programs of
`bril_wild`, most of which leave Bril's meaning somewhere.

`JitProofs` proves for every program, every set of names, every build and every
address of `print_int`: `WordsDecode`, `Spec => []CodeDecodes`. The invariant adds
to `CodeDecodes` only what `starts` and `code` are. The work is in two families of
lemmas: each emitter's arguments stay in the bits of their fields, so that the fixed
bits decide what the word is; and `Pos`, the arguments of `print` that must move,
lists each of them (`Ranked`: there is a j-th member for every j), so that the
registers it names are those of x1 to x7 and fit 5 bits. `Told` adds that no word is two
instructions, so that what the processor decodes is what the emitter meant.

Three theorems are about the run of those words, for every program, regular or not:

- `CodeAgrees`: `Spec => []Agrees`;
- `CallsConform`: `Spec => []ConventionKept`;
- `RegularRuns`: `Spec => []Regularly`.

None of the three properties is inductive: `Agrees` speaks of the places between two
instructions, `ConventionKept` of the call and the end. The invariant, which TLC checked
on `jit` before it was proved, follows the processor word by word. Each part needs the
others:

- `CodeInv`: an instruction that was taken (`Taken`: with what its `parse_` function
  asks for) has its words (`Words`, from the text of the parser) at `Place(n)`, the
  next one's follow them, and until `jit_bril`'s call the machine is untouched. From this the
  word at `pc` is known.
- `RunInv`: the machine is inside some instruction n. There are registers r and an
  output o, those at the instruction's start, which agree with `After(n - 1)` (`Level`:
  `Meant`, and `Spared` for callee-saved registers that are no variables); after k of
  its words the machine is where they have brought r and o (`Inside`). For `print` this is
  `InPrint`: the two rounds of pushes (`Pushing`), the loads of the arguments
  (`Loading`), the count, the four parts of the address and the pushed frame
  (`Calling`), what `print_int` leaves (`Called`), the pops (`Popping`).
- `DoneInv` is the same behind `ret`, and `Regularly` is carried along (`Sound`).

What a word does is followed from its bits: the processor gets from a field the number
that was packed into it, a negative one too (section "Fields"), and a number put
together from four 16-bit parts is that number (section "The width of registers"). The
argument for `print` is about the list `Pushed`, the moved registers and then those of
the arguments they take: the loads read the second half of it, `Loading` holds because
`Pos` is in order and names no register twice, and the pops undo the list from its end,
where a register that was pushed twice was pushed with the same value. Hence every variable `kept` across a print
has its register in the list or is callee-saved (section "From the meaning before an
instruction to the one behind it"). A `mov` of an immediate that does not fit, an
undefined division and a variable of a shared register are left out by `kept` alone, not
by a hypothesis. What the theorems assume is `JitAssumption`: parts of 3 to 16
bits, 16 being the code's; at least 16 slots of stack (seven arguments, pushed twice, and
the frame); that `print_int` is at an address and leaves values in
the registers it may clobber; that the mark for "no args" is not a list of names. They
say nothing of when the code ends.

`CallArrives`, `Spec => []CallReaches`, is a fact of arithmetic, as the invariant it needs
is only that `build` is one of `Cases`. For each sequence the words' effect is followed
(`Effects`, `Runs`) and shown to be the address by uniqueness of quotient and remainder
(`DivModUnique`): a distance inside the range comes back from its residue
(`Extended`), pages differ by whole pages and the low bits make up the rest (`PagesApart`),
and the four parts of an address sum up to it (`FourParts`). It rests on
`ReachAssumption`: the ranges are positive and even, instructions are at multiples of 4, and
an address has four parts.

`ShellProofs` proves for every script, buffer, and number of signals: `ShellTypes`,
`PromptIsAlone`, `WaitsAreSound`, `LinesRunOnce` and `OutputIsOnce`.
The invariant is `IInv`: the types, `Lines` (the lines run and those buffered are, in
order, those before the offset that no program took), `Kin` (how `mode`, `child`,
`report` and `stopped` go together, by which a report of "stopped" is never left at
the prompt) and `Flushed` (nothing is unflushed but at the prompt).

`TracerProofs` proves for every image, stack and number of rounds: `TracerTypes`,
`FreesOnce`, `TraceNames`, `RoundsBalance` and `UseIsDefined`. The invariant is `Shape`,
`Owned` (where the pointer may be live or freed), `Counted` (in a first round, and while
all files are readable, what is to be freed is there), `InOrder` (the table
is sorted between calls), `Lines`, `Ledger` (what each step of init holds) and
`DefinedUse`. `FindCovers` is the argument of `TraceNames`: on a sorted table the
first hit, or the last row, is a symbol with the greatest address that is not beyond
the one looked up; the comparison with the next row's address skips all but the last
of equal ones.

`UsesDefsProofs` proves for every set of programs, `Mentions` and `Reads` that satisfy
`UsesDefsAssumption` and `ReadsAssumption` (the operands an instruction must have; the
names made up for blocks differ; an operand that names a register mentions it):

- `FunctionIsCut`: `Spec => []BlocksPartition`;
- `ArrowsAreFlow`: `Spec => []FlowAgrees`;
- `LinksAreSound`: `Spec => []LinksSound`;
- `LinksAreFound`: `Spec => []LinksFound`;
- `ShownIsWhole`: `Spec => []ShownIsComplete`;
- `FitIsShown`: `Spec => []ReachableIsShown`;
- `ClicksAreTrue`: `Spec => []GreenDefines`.

The invariants follow the phases, each resting on the one before.

- `CutInv` says of `get_bb` in the middle of the text how blocks and the block that is
  being filled lie on the lines read so far: each is a run of lines with only labels in
  the gap before it (`Gap`, `Filling`), its name is the one of the gap or is made up
  (`Named`), and no made-up name comes twice (`Fresh`), without which `imap` would
  not lead to the block of the name.
- `ArrowInv`: the successors given so far are those that the names stand for.
- `SearchInv`: what a search has still to do is in the function, and links join lines of
  blocks. `GreenDefines` follows for all programs: its one hard case is the line
  of the name, index -1, and the last line of the text, if a block has it at all, is a
  jump (`LastIsJump`), which is no use and no definition.
- `SoundInv`: every pending call of `find_uses` begins at a line that the definition
  reaches with no line on the way that has its register first (`Unhidden`), and so with
  no write of it (`LinksSound`). One call scans a stretch of lines, so that `ScanReached` carries "reached" from
  line to line through the block.
- `FoundInv` is what makes a search complete that marks blocks when it enters them, and
  keeps calls pending: the successors of every block that is met, and not left early
  by a redefinition, are met or pending (`Progress`). When nothing is pending, the blocks
  met are closed (`SeenIsClosed`), and so include all that is reached, which is the least
  closed set (`SearchIsComplete`). `LinksFound` excepts the definition's own block up to
  the definition, the one place where "met" is not "scanned".
- `ShownInv` is the same for `process_cfg`, with the depths in addition (`NoGaps`: each
  depth but 0 has one less than it among those of the blocks met), by which no row of
  the drawing is empty.

- `LimitInv` bounds the recursion: the blocks marked on the way to a pending call differ
  (`Deepening`), so that its depth is at most their number, and RecursionError means more
  blocks than `MaxDepth`. `ShownIsWhole` needs no more than the arrows: a line behind the
  last block that is kept is reached only by a jump to it or from the line before it,
  which `build_cfg` would have refused.

That `Onward`, defined by a count of steps, is the least set with these closures is
`OnwardClosed` and `OnwardWithin`, from `Iterates`, `Saturates` and `Induction` of `Iteration`.

Model-checked only: liveness (`AnsweredUnlessCyclic`, `Terminates`, `Ends`, `Reaped`),
which needs `ENABLED`. Every other property of the passing runs is a theorem.

`TypesHold`, `InterpreterTypes`, `ShellTypes`, `TracerTypes`, `WalksAgree`, `RegularRuns`
and `SerialReadsAreRight` are proved and their properties in no passing run.

## 6. Not modelled

- libsjp, the JSON library, and the build scripts hold no state of interest;
  programs are taken as the values the library parses.
- uses-and-defs: `read_assembly` and `parse_instr` split text; the models start from
  the instructions. Colours, coordinates and the formatting of the canvas.
- simple-jit: `mmap` is taken to succeed; the fixed frame and arguments that
  `jit_simple_add` puts around its call.
- simple-stack-tracer: the demangling of a C++ build.
- simple-fs: what libfuse and the kernel do beyond calling the handlers, remembering
  kinds and sizes and cutting a read at the size.
- simple-shell: what programs read ahead of the shared input and give back.
