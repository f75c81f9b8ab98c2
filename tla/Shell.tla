------------------------------- MODULE Shell -------------------------------
(***************************************************************************)
(* simple-shell: the loop of main.cpp and the commands of builtins.cpp,    *)
(* with the child process, the signals and the standard input that the     *)
(* shell shares with it.                                                   *)
(***************************************************************************)
EXTENDS Integers, Sequences, Functions

CONSTANTS
  Scripts,       \* what standard input holds: lines, which are sequences of words
  Installed,     \* the words that execvp finds
  Chdir,         \* the words that chdir accepts
  BufferLines,   \* how many lines stdio reads at once
  MaxSignals,    \* bound on the signals sent to the shell and its child
  MaxLines,      \* bound on the lines run: a file may be read again for ever
  Jumbled        \* execvp's array has no end: what it may read behind it

ASSUME ShellAssumption ==
  /\ BufferLines \in Nat \ {0} /\ MaxSignals \in Nat /\ MaxLines \in Nat
  /\ \A s \in Scripts : s \in Seq(Seq(STRING))

VARIABLES
  script, seekable,   \* standard input, and whether it is a file
  sigchld,            \* "default", or "ignored" as inherited
  mode,               \* "prompt", "dispatch", "wait", or how the shell ended:
                      \* "exited", "failed" (EXIT_FAILURE of fork), "childless"
                      \* (of waitpid), "killed", "undef"
  offset,             \* of the open file, which the shell shares with its children
  buffer,             \* of stdin, which each has to itself: the numbers of lines
  cmds, ran,          \* the line; history: the numbers of the lines so far
  taken, back,        \* history: lines that programs read; input was given back
  unflushed,          \* output in stdout's buffer
  cwd,                \* "there", or "removed" by another process
  child,              \* "none", "forked", "running", "ended" (not waited for)
  copied,             \* the child has a copy of unflushed output
  argv,               \* history: what the last program was given
  report,             \* the change of the child that waitpid has yet to report
  stopped,            \* of "shell" and "child"
  signals

input == <<script, seekable, sigchld>>
history == <<taken, back>>
process == <<child, copied, argv, report>>
vars == <<input, mode, offset, buffer, cmds, ran, history, unflushed, cwd, process,
          stopped, signals>>

Init ==
  /\ script \in Scripts /\ seekable \in BOOLEAN /\ sigchld \in {"default", "ignored"}
  /\ mode = "prompt" /\ offset = 0 /\ buffer = << >>
  /\ cmds = << >> /\ ran = << >> /\ taken = {} /\ back = FALSE /\ unflushed = FALSE /\ cwd = "there"
  /\ child = "none" /\ copied = FALSE /\ argv = << >> /\ report = "none"
  /\ stopped = {} /\ signals = 0

Least(a, b) == IF a < b THEN a ELSE b

\* exit() gives unread input back to a file: lseek moves the shared offset back
\* from where it is, but not before the beginning.  Lines are of one length.
GivenBack ==
  IF seekable /\ Len(buffer) <= offset THEN offset - Len(buffer) ELSE offset

\* What one read of stdio gets: the next lines, as many as its buffer holds.
Block == [k \in 1 .. Least(BufferLines, Len(script) - offset) |-> offset + k]

Running == "shell" \notin stopped
Stay == UNCHANGED <<input, cwd, stopped, signals>>

-----------------------------------------------------------------------------
(***************************************************************************)
(* The loop of main: the prompt, the line, its words.  cin is tied to cout *)
(* and synchronised with stdio, so that reading flushes.                   *)
(***************************************************************************)
\* Mutants: nothing is flushed; each line is read from a stream of its own.
GetlineUntied ==
  LET block == IF buffer # << >> THEN buffer ELSE Block
  IN /\ mode = "prompt" /\ Running /\ Len(ran) < MaxLines
     /\ mode' = "dispatch" /\ unflushed' = TRUE
     /\ offset' = IF buffer # << >> THEN offset ELSE offset + Len(block)
     /\ IF block = << >> THEN cmds' = << >> /\ UNCHANGED <<buffer, ran>>
        ELSE cmds' = script[Head(block)] /\ buffer' = Tail(block) /\ ran' = Append(ran, Head(block))
     /\ Stay /\ UNCHANGED <<history, process>>
GetlineAfresh ==
  LET block == Block
  IN /\ mode = "prompt" /\ Running /\ Len(ran) < MaxLines
     /\ mode' = "dispatch" /\ unflushed' = FALSE
     /\ offset' = offset + Len(block)
     /\ IF block = << >> THEN cmds' = << >> /\ UNCHANGED <<buffer, ran>>
        ELSE cmds' = script[Head(block)] /\ buffer' = << >> /\ ran' = Append(ran, Head(block))
     /\ Stay /\ UNCHANGED <<history, process>>
Getline ==
  LET block == IF buffer # << >> THEN buffer ELSE Block
  IN /\ mode = "prompt" /\ Running /\ Len(ran) < MaxLines
     /\ mode' = "dispatch" /\ unflushed' = FALSE
     /\ offset' = IF buffer # << >> THEN offset ELSE offset + Len(block)
     /\ IF block = << >> THEN cmds' = << >> /\ UNCHANGED <<buffer, ran>>
        ELSE cmds' = script[Head(block)] /\ buffer' = Tail(block) /\ ran' = Append(ran, Head(block))
     /\ Stay /\ UNCHANGED <<history, process>>

Dispatching == mode = "dispatch" /\ Running
Command(word) == Dispatching /\ cmds # << >> /\ cmds[1] = word
Back(printed) ==
  /\ mode' = "prompt" /\ unflushed' = printed
  /\ Stay /\ UNCHANGED <<offset, buffer, cmds, ran, history, process>>
Leave(how) ==
  /\ mode' = how /\ unflushed' = FALSE
  /\ offset' = IF how = "undef" THEN offset ELSE GivenBack
  /\ back' = (back \/ offset' # offset)
  /\ Stay /\ UNCHANGED <<buffer, cmds, ran, taken, process>>

\* The end of the input, and a line without words: front() of an empty vector.
NoWords == Dispatching /\ cmds = << >> /\ Leave("undef")

Func_exit == Command("exit") /\ Leave("exited")

\* get_current_dir_name returns NULL in a directory that is gone.
Func_pwd ==
  /\ Command("pwd")
  /\ IF Len(cmds) = 1 /\ cwd = "removed" THEN Leave("undef") ELSE Back(TRUE)

Func_cd ==
  /\ Command("cd")
  /\ IF Len(cmds) # 2 \/ cmds[2] \notin Chdir THEN Back(TRUE)
     ELSE /\ cwd' = "there" /\ mode' = "prompt"
          /\ UNCHANGED <<input, unflushed, offset, buffer, cmds, ran, history, process,
                         stopped, signals>>

-----------------------------------------------------------------------------
(***************************************************************************)
(* func_external, and its child.                                           *)
(***************************************************************************)
External == Dispatching /\ cmds # << >> /\ cmds[1] \notin {"exit", "pwd", "cd"}

ForkFails == External /\ Leave("failed")

Fork ==
  /\ External
  /\ mode' = "wait" /\ child' = "forked" /\ copied' = unflushed
  /\ Stay /\ UNCHANGED <<offset, buffer, cmds, ran, history, unflushed, argv, report>>

ChildMoves == "child" \notin stopped /\ Stay /\ UNCHANGED <<mode, buffer, cmds, ran, unflushed>>

\* The kernel keeps a child that ended for waitpid, unless SIGCHLD is ignored:
\* then it is gone without a report.
Ends == {"exited", "signaled"}
Gone == IF sigchld = "ignored" THEN "none" ELSE "ended"
Noticed(end) == IF sigchld = "ignored" THEN "none" ELSE end

\* The array given to execvp ends where the vector does, without a null pointer:
\* undefined behaviour, of which the model has the outcome that the program gets
\* what follows in memory as well, up to a zero.
Execvp ==
  /\ child = "forked" /\ cmds[1] \in Installed
  /\ child' = "running" /\ copied' = FALSE
  /\ \E more \in Jumbled : argv' = cmds \o more
  /\ ChildMoves /\ UNCHANGED <<offset, history, report>>

\* execvp returns, and the child leaves by exit() with the buffers of the shell.
ExecvpFails ==
  /\ child = "forked"
  /\ child' = Gone /\ report' = Noticed("exited")
  /\ offset' = GivenBack /\ back' = (back \/ offset' # offset)
  /\ ChildMoves /\ UNCHANGED <<taken, argv, copied>>

\* A program reads lines of the input it shares with the shell (what it reads
\* ahead and gives back left out): the shell does not get them.
ProgramReads ==
  /\ child = "running"
  /\ \E last \in offset + 1 .. Len(script) :
       offset' = last /\ taken' = taken \union offset + 1 .. last
  /\ ChildMoves /\ UNCHANGED <<back, child, argv, copied, report>>

ProgramEnds ==
  /\ child = "running"
  /\ child' = Gone /\ report' = Noticed("exited")
  /\ ChildMoves /\ UNCHANGED <<offset, history, argv, copied>>

\* The loop around waitpid: it leaves when the child exited or was killed.
\* Mutants: when it reports anything; when the child exited only.
Reports == mode = "wait" /\ Running /\ report # "none" /\ report' = "none"
WaitpidOnce ==
  /\ Reports
  /\ mode' = "prompt" /\ child' = IF report \in Ends THEN "none" ELSE child
  /\ Stay /\ UNCHANGED <<offset, buffer, cmds, ran, history, unflushed, copied, argv>>
WaitpidExitOnly ==
  /\ Reports
  /\ mode' = IF report = "exited" THEN "prompt" ELSE mode
  /\ child' = IF report \in Ends THEN "none" ELSE child
  /\ Stay /\ UNCHANGED <<offset, buffer, cmds, ran, history, unflushed, copied, argv>>
Waitpid ==
  /\ Reports
  /\ IF report \in Ends THEN mode' = "prompt" /\ child' = "none"
                       ELSE UNCHANGED <<mode, child>>
  /\ Stay /\ UNCHANGED <<offset, buffer, cmds, ran, history, unflushed, copied, argv>>

\* No child is left to wait for: ECHILD.
WaitpidFails == mode = "wait" /\ Running /\ child = "none" /\ Leave("childless")

-----------------------------------------------------------------------------
(***************************************************************************)
(* The environment: signals to the child, or to both from the terminal     *)
(* whose foreground group they are; another process removes the directory. *)
(* The shell installs no handler, so that no signal interrupts waitpid.    *)
(***************************************************************************)
Alive == child \in {"forked", "running"}
ShellAlive == mode \in {"prompt", "dispatch", "wait"}
Quiet == UNCHANGED <<input, offset, buffer, cmds, ran, history, unflushed, copied, argv>>

StopSignal(who) ==
  /\ signals < MaxSignals /\ signals' = signals + 1 /\ ShellAlive
  /\ who # {} /\ who \intersect stopped = {} /\ ("child" \in who => Alive)
  /\ stopped' = stopped \union who
  /\ report' = IF "child" \in who THEN "stopped" ELSE report
  /\ Quiet /\ UNCHANGED <<mode, cwd, child>>
ContinueSignal(who) ==
  /\ signals < MaxSignals /\ signals' = signals + 1 /\ ShellAlive
  /\ who # {} /\ who \subseteq stopped
  /\ stopped' = stopped \ who
  /\ report' = IF "child" \in who THEN "continued" ELSE report
  /\ Quiet /\ UNCHANGED <<mode, cwd, child>>
KillChild ==
  /\ signals < MaxSignals /\ signals' = signals + 1 /\ ShellAlive /\ Alive
  /\ child' = Gone /\ report' = Noticed("signaled") /\ stopped' = stopped \ {"child"}
  /\ Quiet /\ UNCHANGED <<mode, cwd>>
\* SIGINT from the terminal: the shell dies of it, a program may ignore it.
Interrupt ==
  /\ signals < MaxSignals /\ signals' = signals + 1 /\ ShellAlive /\ Running
  /\ mode' = "killed"
  /\ \/ UNCHANGED <<child, report>>
     \/ Alive /\ child' = "none" /\ report' = "none"
  /\ Quiet /\ UNCHANGED <<cwd, stopped>>
RemoveDirectory ==
  /\ ShellAlive /\ cwd = "there" /\ signals < MaxSignals
  /\ cwd' = "removed" /\ signals' = signals + 1
  /\ Quiet /\ UNCHANGED <<mode, child, report, stopped>>

Shell ==
  \/ Getline \/ NoWords \/ Func_exit \/ Func_pwd \/ Func_cd
  \/ Fork \/ Waitpid \/ WaitpidFails
Environment ==
  \/ ForkFails \/ KillChild \/ Interrupt \/ RemoveDirectory
  \/ \E who \in SUBSET {"shell", "child"} : StopSignal(who) \/ ContinueSignal(who)
Next == Shell \/ Execvp \/ ExecvpFails \/ ProgramReads \/ ProgramEnds \/ Environment

\* The kernel runs the shell whenever it can run; programs need not end.
Spec == Init /\ [][Next]_vars /\ WF_vars(Shell)

-----------------------------------------------------------------------------
(***************************************************************************)
(* Properties.                                                             *)
(***************************************************************************)
\* The state has the shape that C++ and the kernel give it.
TypeOK ==
  /\ script \in Scripts /\ seekable \in BOOLEAN /\ sigchld \in {"default", "ignored"}
  /\ mode \in {"prompt", "dispatch", "wait", "exited", "failed", "childless", "killed",
              "undef"}
  /\ offset \in 0 .. Len(script) /\ Len(buffer) < BufferLines
  /\ Range(buffer) \subseteq DOMAIN script /\ Range(ran) \subseteq DOMAIN script
  /\ taken \subseteq DOMAIN script /\ back \in BOOLEAN
  /\ unflushed \in BOOLEAN /\ copied \in BOOLEAN /\ cwd \in {"there", "removed"}
  /\ child \in {"none", "forked", "running", "ended"}
  /\ report \in {"none", "stopped", "continued"} \union Ends
  /\ stopped \subseteq {"shell", "child"} /\ signals \in 0 .. MaxSignals

\* At the prompt and while a line is looked at, no child of the shell is left,
\* whatever was stopped, continued or killed on the way, and no report of one
\* that could be taken for the next child's.
PromptAlone ==
  mode \in {"prompt", "dispatch"} => child = "none" /\ report = "none" /\ "child" \notin stopped

\* The loop around waitpid does not wait again for a child whose end it was told,
\* by exit or by a signal: ECHILD ends the shell only where SIGCHLD is ignored.
WaitsForSomething == mode = "childless" => sigchld = "ignored"

\* Of the input that was read so far, each line was run, or waits in the shell's
\* buffer, once and in order, but for the lines that programs took, which the
\* shell never sees: as long as no exit() gave input of a file back, which makes
\* the shell run lines again.
LinesOnce ==
  LET got == ran \o buffer
  IN ~ back => /\ \A k \in 1 .. Len(got) - 1 : got[k] < got[k + 1]
               /\ Range(got) = (1 .. offset) \ taken

\* Nothing printed before a fork is printed again by the child.
OutputOnce == ~ copied

\* A child that has ended is waited for, and the shell prompts again, unless the
\* shell is killed or stopped.
Reaped ==
  child = "ended" ~> \/ mode = "prompt" /\ child = "none"
                     \/ mode = "killed" \/ ~ Running

=============================================================================
