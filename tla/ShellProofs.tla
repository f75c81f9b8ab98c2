---------------------------- MODULE ShellProofs ----------------------------
(***************************************************************************)
(* Proofs about Shell for every input, every size of stdio's buffer and    *)
(* any number of lines and signals.                                        *)
(***************************************************************************)
EXTENDS Shell, SequenceTheorems, TLAPS

Words == Seq(STRING)

(***************************************************************************)
(* The inductive invariant: what the input has become, what is known of    *)
(* the child, and what is in the buffers.                                  *)
(***************************************************************************)
Numbers == 1 .. Len(script)
InputTypes ==
  /\ script \in Scripts /\ script \in Seq(Words)
  /\ seekable \in BOOLEAN /\ sigchld \in {"default", "ignored"}
  /\ offset \in 0 .. Len(script)
  /\ buffer \in Seq(Numbers) /\ Len(buffer) < BufferLines
  /\ cmds \in Words /\ ran \in Seq(Numbers)
  /\ taken \subseteq Numbers /\ back \in BOOLEAN

ProcessTypes ==
  /\ mode \in {"prompt", "dispatch", "wait", "exited", "failed", "childless", "killed",
              "undef"}
  /\ unflushed \in BOOLEAN /\ cwd \in {"there", "removed"}
  /\ child \in {"none", "forked", "running", "ended"}
  /\ report \in {"none", "stopped", "continued", "exited", "signaled"}
  /\ stopped \subseteq {"shell", "child"} /\ signals \in 0 .. MaxSignals

\* The child is alive, or its end is known to waitpid, as long as the shell waits.
Kin ==
  /\ PromptAlone
  /\ mode = "wait" =>
       \/ Alive /\ report \in {"none", "stopped", "continued"}
       \/ child = "ended" /\ report \in Ends
       \/ child = "none" /\ report = "none" /\ sigchld = "ignored"
  /\ ShellAlive /\ "child" \in stopped => Alive
  /\ WaitsForSomething

Flushed == (mode \in {"dispatch", "wait"} => ~ unflushed) /\ copied = FALSE

\* Until input is given back, what programs took is behind the offset.
Lines == LinesOnce /\ (~ back => taken \subseteq 1 .. offset)

IInv == InputTypes /\ ProcessTypes /\ Lines /\ Kin /\ Flushed

-----------------------------------------------------------------------------
(***************************************************************************)
(* The lines.                                                              *)
(***************************************************************************)
\* Taking a line moves it from the buffer behind the lines that were run.
LEMMA Regrouped ==
  ASSUME NEW S, NEW s \in Seq(S), NEW b \in Seq(S), b # << >>
  PROVE  Append(s, Head(b)) \o Tail(b) = s \o b
<1>1. Head(b) \in S /\ Tail(b) \in Seq(S)
  BY HeadTailProperties
<1>2. <<Head(b)>> \in Seq(S) /\ Append(s, Head(b)) = s \o <<Head(b)>>
  BY <1>1, AppendIsConcat
<1>3. b = <<Head(b)>> \o Tail(b)
  BY <1>1
<1>4. (s \o <<Head(b)>>) \o Tail(b) = s \o (<<Head(b)>> \o Tail(b))
  BY <1>1, <1>2, ConcatAssociative
<1> QED
  BY <1>2, <1>3, <1>4

\* A new block continues the lines there are.
Rising(s) == \A k \in 1 .. Len(s) - 1 : s[k] < s[k + 1]
Got(s, o, t) == Rising(s) /\ t \subseteq 1 .. o /\ Range(s) = (1 .. o) \ t
LEMMA Continued ==
  ASSUME NEW s \in Seq(Nat), NEW o \in Nat, NEW t, NEW b \in Seq(Nat),
         \A k \in 1 .. Len(b) : b[k] = o + k, Got(s, o, t)
  PROVE  Got(s \o b, o + Len(b), t)
<1> DEFINE c == s \o b  l == Len(s)  n == Len(b)
<1>0. n \in Nat /\ \A k \in 1 .. n : b[k] = o + k
  BY LenProperties
<1>7. Rising(s) /\ t \subseteq 1 .. o /\ Range(s) = (1 .. o) \ t
  BY DEF Got
<1>1. /\ c \in Seq(Nat) /\ Len(c) = l + n /\ l \in Nat
      /\ \A k \in 1 .. l + n : c[k] = IF k <= l THEN s[k] ELSE b[k - l]
  BY ConcatProperties, LenProperties
<1> HIDE DEF n
<1>2. DOMAIN c = 1 .. l + n /\ DOMAIN s = 1 .. l
  BY <1>0, <1>7, <1>1, LenProperties
<1>3. \A k \in 1 .. l : c[k] = s[k] /\ s[k] \in (1 .. o) \ t
  <2> TAKE k \in 1 .. l
  <2>1. k \in 1 .. l + n /\ k <= l
    BY <1>0, <1>7, <1>1
  <2>2. s[k] \in Range(s)
    BY <1>7, <1>2 DEF Range
  <2> QED
    BY <1>0, <1>7, <1>1, <2>1, <2>2
<1>4. \A k \in 1 .. n : c[l + k] = o + k
  <2> TAKE k \in 1 .. n
  <2>1. l + k \in 1 .. l + n /\ ~ (l + k <= l) /\ (l + k) - l = k
    BY <1>0, <1>7, <1>1
  <2> QED
    BY <1>0, <1>7, <1>1, <2>1
<1> HIDE DEF c, n
<1>5. Rising(c)
  <2> SUFFICES ASSUME NEW k \in 1 .. l + n - 1
               PROVE  c[k] < c[k + 1]
    BY <1>0, <1>7, <1>1 DEF Rising
  <2>1. CASE k < l
    BY <1>0, <1>7, <1>1, <1>3, <2>1 DEF Rising
  <2>2. CASE k = l
    <3>1. c[l] \in 1 .. o /\ c[l + 1] = o + 1
      BY <1>0, <1>7, <1>1, <1>3, <1>4, <2>2
    <3> QED
      BY <2>2, <3>1
  <2>3. CASE k > l
    <3>1. k - l \in 1 .. n /\ k + 1 - l \in 1 .. n /\ l + (k - l) = k /\ l + (k + 1 - l) = k + 1
      BY <1>0, <1>7, <1>1, <2>3
    <3>2. c[k] = o + (k - l) /\ c[k + 1] = o + (k + 1 - l)
      BY <1>4, <3>1
    <3> QED
      BY <1>0, <1>7, <1>1, <3>2
  <2> QED
    BY <1>0, <1>7, <1>1, <2>1, <2>2, <2>3
<1>6. Range(c) = (1 .. o + n) \ t
  <2>1. ASSUME NEW x \in Range(c)
        PROVE  x \in (1 .. o + n) \ t
    <3>1. PICK k \in 1 .. l + n : x = c[k]
      BY <1>7, <1>2 DEF Range
    <3>2. CASE k <= l
      <4>1. k \in 1 .. l
        BY <1>0, <1>7, <1>1, <3>2
      <4>2. x \in (1 .. o) \ t
        BY <1>3, <3>1, <4>1
      <4> QED
        BY <1>0, <1>7, <4>2
    <3>3. CASE k > l
      <4>1. k - l \in 1 .. n /\ l + (k - l) = k
        BY <1>0, <1>7, <1>1, <3>3
      <4>2. x = o + (k - l)
        BY <1>4, <3>1, <4>1
      <4> QED
        BY <1>0, <1>7, <4>1, <4>2
    <3> QED
      BY <1>0, <1>7, <1>1, <3>2, <3>3
  <2>2. ASSUME NEW x \in (1 .. o + n) \ t
        PROVE  x \in Range(c)
    <3>1. CASE x <= o
      <4>1. x \in Range(s)
        BY <1>7, <3>1
      <4>2. PICK k \in 1 .. l : x = s[k]
        BY <1>7, <1>2, <4>1 DEF Range
      <4>3. k \in 1 .. l + n /\ c[k] = x
        BY <1>0, <1>7, <1>1, <1>3, <4>2
      <4> QED
        BY <1>7, <1>2, <4>3 DEF Range
    <3>2. CASE x > o
      <4>1. x - o \in 1 .. n /\ o + (x - o) = x /\ l + (x - o) \in 1 .. l + n
        BY <1>0, <1>7, <1>1, <3>2
      <4>2. l + (x - o) \in 1 .. l + n /\ c[l + (x - o)] = x
        BY <1>4, <4>1
      <4> QED
        BY <1>7, <1>2, <4>2 DEF Range
    <3> QED
      BY <3>1, <3>2
  <2> QED
    BY <2>1, <2>2
<1> QED
  BY <1>0, <1>5, <1>6, <1>7 DEF Got, c, n

\* A block is made of the lines behind the offset.
LEMMA BlockRead ==
  ASSUME InputTypes
  PROVE  /\ Block \in Seq(Numbers) /\ Len(Block) <= BufferLines
         /\ offset + Len(Block) \in 0 .. Len(script)
         /\ \A k \in 1 .. Len(Block) : Block[k] = offset + k
<1>1. BufferLines \in Nat \ {0} /\ Len(script) \in Nat
  BY ShellAssumption, LenProperties DEF InputTypes
<1> DEFINE n == Least(BufferLines, Len(script) - offset)
<1>2. n \in Nat /\ n <= BufferLines /\ offset + n <= Len(script)
  BY <1>1 DEF InputTypes, Least
<1>3. Block = [k \in 1 .. n |-> offset + k]
  BY DEF Block
<1> HIDE DEF n
<1>4. \A k \in 1 .. n : offset + k \in Numbers
  BY <1>1, <1>2 DEF InputTypes, Numbers
<1>5. Block \in Seq(Numbers) /\ Len(Block) = n
  <2>1. Block \in [1 .. n -> Numbers]
    BY <1>3, <1>4
  <2>2. Block \in Seq(Numbers)
    BY <1>2, <2>1, SeqDef
  <2>3. DOMAIN Block = 1 .. n /\ DOMAIN Block = 1 .. Len(Block) /\ Len(Block) \in Nat
    BY <2>1, <2>2, LenProperties
  <2> QED
    BY <1>2, <2>2, <2>3
<1>6. \A k \in 1 .. n : Block[k] = offset + k
  BY <1>3
<1> QED
  BY <1>1, <1>2, <1>5, <1>6 DEF InputTypes

LEMMA GetlineStep ==
  ASSUME IInv, Getline
  PROVE  IInv'
<1> DEFINE block == IF buffer # << >> THEN buffer ELSE Block
<1>0. /\ BufferLines \in Nat \ {0} /\ Len(script) \in Nat /\ Len(<< >>) = 0
      /\ << >> \in Words
  BY ShellAssumption, LenProperties, EmptySeq DEF IInv, InputTypes, Words
<1>1. /\ Block \in Seq(Numbers) /\ Len(Block) <= BufferLines
      /\ offset + Len(Block) \in 0 .. Len(script)
      /\ \A k \in 1 .. Len(Block) : Block[k] = offset + k
  BY BlockRead DEF IInv
<1>2. /\ mode = "prompt" /\ mode' = "dispatch" /\ unflushed' = FALSE
      /\ offset' = IF buffer # << >> THEN offset ELSE offset + Len(block)
      /\ block = << >> => cmds' = << >> /\ UNCHANGED <<buffer, ran>>
      /\ block # << >> => /\ cmds' = script[Head(block)] /\ buffer' = Tail(block)
                          /\ ran' = Append(ran, Head(block))
      /\ UNCHANGED <<script, seekable, sigchld, cwd, stopped, signals, child, copied,
                     argv, report, taken, back>>
  BY DEF Getline, Stay, input, process, history
<1>3. block \in Seq(Numbers) /\ Len(block) <= BufferLines
  BY <1>0, <1>1 DEF IInv, InputTypes
<1>4. offset' \in 0 .. Len(script) /\ offset <= offset' /\ offset \in 0 .. Len(script)
  <2>1. offset \in 0 .. Len(script) /\ Len(Block) \in Nat
    BY <1>1, LenProperties DEF IInv, InputTypes
  <2> QED
    BY <1>0, <1>1, <1>2, <2>1
<1>5. ProcessTypes' /\ Kin' /\ Flushed'
  BY <1>2 DEF IInv, ProcessTypes, Kin, Flushed, PromptAlone, Alive, ShellAlive,
     WaitsForSomething
<1>6. buffer # << >> => block = buffer /\ offset' = offset
  BY <1>2
<1>7. buffer = << >> => block = Block /\ offset' = offset + Len(Block)
  BY <1>2
<1> HIDE DEF block
<1>8. Numbers' = Numbers
  BY <1>2 DEF Numbers
<1>9. taken' \subseteq Numbers'
  BY <1>2, <1>8 DEF IInv, InputTypes
<1>10. InputTypes'
  <2>1. CASE block = << >>
    BY <1>0, <1>2, <1>4, <1>8, <1>9, <2>1 DEF IInv, InputTypes
  <2>2. CASE block # << >>
    <3>1. /\ Head(block) \in Numbers /\ Tail(block) \in Seq(Numbers)
          /\ Len(Tail(block)) = Len(block) - 1 /\ Len(block) \in Nat
      BY <1>3, <2>2, HeadTailProperties, EmptySeq, LenProperties
    <3>2. Append(ran, Head(block)) \in Seq(Numbers)
      BY <3>1, AppendProperties DEF IInv, InputTypes
    <3>3. script[Head(block)] \in Words
      BY <3>1, ElementOfSeq DEF IInv, InputTypes, Numbers
    <3>4. Len(Tail(block)) < BufferLines
      BY <1>0, <1>3, <3>1
    <3> QED
      BY <1>2, <1>4, <1>8, <1>9, <2>2, <3>1, <3>2, <3>3, <3>4 DEF IInv, InputTypes
  <2> QED
    BY <2>1, <2>2
<1>12. ~ back => taken' \subseteq 1 .. offset'
  BY <1>2, <1>4 DEF IInv, Lines
<1>11. LinesOnce'
  <2> SUFFICES ASSUME ~ back
               PROVE  Rising(ran' \o buffer') /\ Range(ran' \o buffer') = (1 .. offset') \ taken
    BY <1>2 DEF LinesOnce, Rising
  <2>1. /\ ran \in Seq(Nat) /\ buffer \in Seq(Nat) /\ block \in Seq(Nat)
        /\ Block \in Seq(Nat)
    <3>1. Numbers \subseteq Nat
      BY <1>0 DEF Numbers
    <3>2. ran \in Seq(Numbers) /\ buffer \in Seq(Numbers)
      BY DEF IInv, InputTypes
    <3> QED
      BY <1>1, <1>3, <3>1, <3>2, SeqMonotonic
  <2>2. Rising(ran \o buffer) /\ Range(ran \o buffer) = (1 .. offset) \ taken
    BY DEF IInv, Lines, LinesOnce, Rising
  <2>3. ran' \o buffer' = ran \o block
    <3>1. CASE block = << >>
      <4>1. buffer = << >>
        BY <1>6, <3>1
      <4> QED
        BY <1>2, <3>1, <4>1
    <3>2. CASE block # << >>
      BY <1>2, <2>1, <3>2, Regrouped
    <3> QED
      BY <3>1, <3>2
  <2>4. CASE buffer # << >>
    BY <1>6, <2>2, <2>3, <2>4
  <2>5. CASE buffer = << >>
    <3>1. ran \o buffer = ran
      BY <2>1, <2>5, ConcatEmptySeq
    <3>2. offset \in Nat /\ Len(Block) \in Nat /\ taken \in SUBSET (1 .. offset)
      BY <1>4, <2>1, LenProperties DEF IInv, Lines
    <3>4. /\ Rising(ran) /\ Range(ran) = (1 .. offset) \ taken
          /\ \A k \in 1 .. Len(Block) : Block[k] = offset + k
      BY <1>1, <2>2, <3>1
    <3>3. Got(ran, offset, taken)
      BY <3>2, <3>4 DEF Got
    <3>5. Got(ran \o Block, offset + Len(Block), taken)
      BY <2>1, <3>2, <3>3, <3>4, Continued
    <3> QED
      BY <1>7, <2>3, <2>5, <3>5 DEF Got
  <2> QED
    BY <2>4, <2>5
<1> QED
  BY <1>2, <1>5, <1>10, <1>11, <1>12 DEF IInv, Lines

\* exit() moves a file back inside itself.
LEMMA GivenBackInside ==
  ASSUME InputTypes
  PROVE  GivenBack \in 0 .. Len(script)
<1>1. Len(buffer) \in Nat /\ Len(script) \in Nat
  BY LenProperties DEF InputTypes
<1> QED
  BY <1>1 DEF InputTypes, GivenBack

\* The shell ends, whichever way.
LEMMA LeaveStep ==
  ASSUME IInv, NEW how \in {"exited", "failed", "childless", "undef"}, Leave(how),
         how = "childless" => sigchld = "ignored"
  PROVE  IInv'
<1>1. /\ mode' = how /\ unflushed' = FALSE
      /\ offset' = IF how = "undef" THEN offset ELSE GivenBack
      /\ back' = (back \/ offset' # offset)
      /\ UNCHANGED <<script, seekable, sigchld, cwd, stopped, signals, buffer, cmds, ran,
                     taken, child, copied, argv, report>>
  BY DEF Leave, Stay, input, process
<1>2. offset' \in 0 .. Len(script)
  BY <1>1, GivenBackInside DEF IInv, InputTypes
<1>3. InputTypes'
  BY <1>1, <1>2 DEF IInv, InputTypes, Numbers
<1>4. Lines'
  BY <1>1 DEF IInv, Lines, LinesOnce
<1> QED
  BY <1>1, <1>3, <1>4 DEF IInv, ProcessTypes, Kin, Flushed, PromptAlone, Alive, ShellAlive,
     WaitsForSomething

\* The steps that leave the lines alone.
LEMMA SameLines ==
  ASSUME IInv, UNCHANGED <<script, seekable, sigchld, offset, buffer, cmds, ran, taken, back>>
  PROVE  InputTypes' /\ Lines'
  BY DEF IInv, InputTypes, Lines, LinesOnce, Numbers

(***************************************************************************)
(* The invariant is inductive.                                             *)
(***************************************************************************)
LEMMA BuiltinStep ==
  ASSUME IInv, NoWords \/ Func_exit \/ Func_pwd \/ Func_cd
  PROVE  IInv'
<1>1. CASE NoWords
  BY <1>1, LeaveStep DEF NoWords
<1>2. CASE Func_exit
  BY <1>2, LeaveStep DEF Func_exit
<1>3. CASE Func_pwd
  <2>1. CASE Leave("undef")
    BY <2>1, LeaveStep
  <2>2. CASE Back(TRUE)
    <3>1. UNCHANGED <<script, seekable, sigchld, offset, buffer, cmds, ran, taken, back>>
      BY <2>2 DEF Back, Stay, input, history
    <3>2. ProcessTypes' /\ Kin' /\ Flushed'
      BY <1>3, <2>2 DEF Back, Stay, input, process, Func_pwd, Command, Dispatching, IInv,
         ProcessTypes, Kin, Flushed, PromptAlone, Alive, ShellAlive, WaitsForSomething
    <3> QED
      BY <3>1, <3>2, SameLines DEF IInv
  <2> QED
    BY <1>3, <2>1, <2>2 DEF Func_pwd
<1>4. CASE Func_cd
  <2>1. UNCHANGED <<script, seekable, sigchld, offset, buffer, cmds, ran, taken, back>>
    BY <1>4 DEF Func_cd, Back, Stay, input, history
  <2>2. ProcessTypes' /\ Kin' /\ Flushed'
    BY <1>4 DEF Func_cd, Back, Stay, input, process, Command, Dispatching, IInv,
       ProcessTypes, Kin, Flushed, PromptAlone, Alive, ShellAlive, WaitsForSomething
  <2> QED
    BY <2>1, <2>2, SameLines DEF IInv
<1> QED
  BY <1>1, <1>2, <1>3, <1>4

LEMMA ChildStep ==
  ASSUME IInv, Fork \/ Execvp \/ ExecvpFails \/ ProgramReads \/ ProgramEnds
  PROVE  IInv'
<1>1. CASE Fork
  <2>1. ProcessTypes' /\ Kin' /\ Flushed'
    BY <1>1 DEF Fork, External, Dispatching, Stay, input, IInv,
       ProcessTypes, Kin, Flushed, PromptAlone, Alive, ShellAlive, WaitsForSomething
  <2> QED
    BY <1>1, <2>1, SameLines DEF Fork, Stay, input, history, IInv
<1>2. CASE Execvp
  <2>1. ProcessTypes' /\ Kin' /\ Flushed'
    BY <1>2 DEF Execvp, ChildMoves, Stay, input, IInv,
       ProcessTypes, Kin, Flushed, PromptAlone, Alive, ShellAlive, WaitsForSomething
  <2> QED
    BY <1>2, <2>1, SameLines DEF Execvp, ChildMoves, Stay, input, history, IInv
<1>3. CASE ExecvpFails
  <2>1. ProcessTypes' /\ Kin' /\ Flushed'
    BY <1>3 DEF ExecvpFails, ChildMoves, Gone, Noticed, Ends, Stay, input, IInv, InputTypes,
       ProcessTypes, Kin, Flushed, PromptAlone, Alive, ShellAlive, WaitsForSomething
  <2>2. offset' \in 0 .. Len(script)
    BY <1>3, GivenBackInside DEF ExecvpFails, IInv
  <2>3. /\ UNCHANGED <<script, seekable, sigchld, buffer, cmds, ran, taken>>
        /\ back' = (back \/ offset' # offset)
    BY <1>3 DEF ExecvpFails, ChildMoves, Stay, input
  <2>4. InputTypes'
    BY <2>2, <2>3 DEF IInv, InputTypes, Numbers
  <2>5. Lines'
    BY <2>3 DEF IInv, Lines, LinesOnce
  <2> QED
    BY <2>1, <2>4, <2>5 DEF IInv
<1>4. CASE ProgramEnds
  <2>1. ProcessTypes' /\ Kin' /\ Flushed'
    BY <1>4 DEF ProgramEnds, ChildMoves, Gone, Noticed, Ends, Stay, input, IInv, InputTypes,
       ProcessTypes, Kin, Flushed, PromptAlone, Alive, ShellAlive, WaitsForSomething
  <2> QED
    BY <1>4, <2>1, SameLines DEF ProgramEnds, ChildMoves, Stay, input, history, IInv
<1>5. CASE ProgramReads
  <2>1. PICK last \in offset + 1 .. Len(script) :
          offset' = last /\ taken' = taken \union offset + 1 .. last
    BY <1>5 DEF ProgramReads
  <2>2. UNCHANGED <<script, seekable, sigchld, cwd, stopped, signals, buffer, cmds, ran,
                    mode, unflushed, child, copied, argv, report, back>>
    BY <1>5 DEF ProgramReads, ChildMoves, Stay, input
  <2>3. offset \in Nat /\ Len(script) \in Nat /\ last \in Nat /\ offset <= last
        /\ last <= Len(script)
    BY <2>1, LenProperties DEF IInv, InputTypes
  <2>4. ProcessTypes' /\ Kin' /\ Flushed'
    BY <2>2 DEF IInv, ProcessTypes, Kin, Flushed, PromptAlone, Alive, ShellAlive,
       WaitsForSomething
  <2>5. InputTypes'
    BY <2>1, <2>2, <2>3 DEF IInv, InputTypes, Numbers
  <2>6. Lines'
    <3> SUFFICES ASSUME ~ back
                 PROVE  /\ (1 .. offset) \ taken = (1 .. offset') \ taken'
                        /\ taken' \subseteq 1 .. offset'
      BY <2>2 DEF IInv, Lines, LinesOnce
    <3> QED
      BY <2>1, <2>3 DEF IInv, Lines
  <2> QED
    BY <2>4, <2>5, <2>6 DEF IInv
<1> QED
  BY <1>1, <1>2, <1>3, <1>4, <1>5

LEMMA WaitStep ==
  ASSUME IInv, Waitpid \/ WaitpidFails \/ ForkFails
  PROVE  IInv'
<1>1. CASE Waitpid
  <2>1. ProcessTypes' /\ Kin' /\ Flushed'
    BY <1>1 DEF Waitpid, Reports, Ends, Stay, input, IInv,
       ProcessTypes, Kin, Flushed, PromptAlone, Alive, ShellAlive, WaitsForSomething
  <2> QED
    BY <1>1, <2>1, SameLines DEF Waitpid, Stay, input, history, IInv
<1>2. CASE WaitpidFails
  <2>1. sigchld = "ignored"
    BY <1>2 DEF WaitpidFails, IInv, Kin, Alive
  <2> QED
    BY <1>2, <2>1, LeaveStep DEF WaitpidFails
<1>3. CASE ForkFails
  BY <1>3, LeaveStep DEF ForkFails
<1> QED
  BY <1>1, <1>2, <1>3

LEMMA SignalStep ==
  ASSUME IInv,
         \/ KillChild \/ Interrupt \/ RemoveDirectory
         \/ \E who \in SUBSET {"shell", "child"} : StopSignal(who) \/ ContinueSignal(who)
  PROVE  IInv'
<1>0. MaxSignals \in Nat
  BY ShellAssumption
<1>1. CASE KillChild
  <2>1. ProcessTypes' /\ Kin' /\ Flushed'
    BY <1>0, <1>1 DEF KillChild, Gone, Noticed, Ends, Quiet, input, IInv, InputTypes,
       ProcessTypes, Kin, Flushed, PromptAlone, Alive, ShellAlive, WaitsForSomething
  <2> QED
    BY <1>1, <2>1, SameLines DEF KillChild, Quiet, input, history, IInv
<1>2. CASE Interrupt
  <2>1. ProcessTypes' /\ Kin' /\ Flushed'
    BY <1>0, <1>2 DEF Interrupt, Quiet, input, IInv,
       ProcessTypes, Kin, Flushed, PromptAlone, Alive, ShellAlive, WaitsForSomething
  <2> QED
    BY <1>2, <2>1, SameLines DEF Interrupt, Quiet, input, history, IInv
<1>3. CASE RemoveDirectory
  <2>1. ProcessTypes' /\ Kin' /\ Flushed'
    BY <1>0, <1>3 DEF RemoveDirectory, Quiet, input, IInv,
       ProcessTypes, Kin, Flushed, PromptAlone, Alive, ShellAlive, WaitsForSomething
  <2> QED
    BY <1>3, <2>1, SameLines DEF RemoveDirectory, Quiet, input, history, IInv
<1>4. ASSUME NEW who \in SUBSET {"shell", "child"}, StopSignal(who)
      PROVE  IInv'
  <2>1. ProcessTypes' /\ Kin' /\ Flushed'
    BY <1>0, <1>4 DEF StopSignal, Quiet, input, IInv,
       ProcessTypes, Kin, Flushed, PromptAlone, Alive, ShellAlive, WaitsForSomething
  <2> QED
    BY <1>4, <2>1, SameLines DEF StopSignal, Quiet, input, history, IInv
<1>5. ASSUME NEW who \in SUBSET {"shell", "child"}, ContinueSignal(who)
      PROVE  IInv'
  <2>1. ProcessTypes' /\ Kin' /\ Flushed'
    BY <1>0, <1>5 DEF ContinueSignal, Quiet, input, IInv,
       ProcessTypes, Kin, Flushed, PromptAlone, Alive, ShellAlive, WaitsForSomething
  <2> QED
    BY <1>5, <2>1, SameLines DEF ContinueSignal, Quiet, input, history, IInv
<1> QED
  BY <1>1, <1>2, <1>3, <1>4, <1>5

LEMMA InitInvariant == Init => IInv
<1> SUFFICES ASSUME Init
             PROVE  IInv
  OBVIOUS
<1>1. /\ << >> \in Words /\ << >> \in Seq(Numbers) /\ Len(<< >>) = 0
  BY EmptySeq DEF Words
<1>2. script \in Seq(Words) /\ Len(script) \in Nat /\ BufferLines \in Nat \ {0}
      /\ MaxSignals \in Nat
  BY ShellAssumption, LenProperties DEF Init, Words
<1>3. InputTypes
  <2>1. taken \subseteq Numbers /\ offset \in 0 .. Len(script) /\ Len(buffer) < BufferLines
    BY <1>1, <1>2 DEF Init
  <2> QED
    BY <1>1, <1>2, <2>1 DEF Init, InputTypes
<1>4. ProcessTypes
  <2>1. signals \in 0 .. MaxSignals /\ stopped \subseteq {"shell", "child"}
    BY <1>2 DEF Init
  <2> QED
    BY <2>1 DEF Init, ProcessTypes
<1>5. Kin /\ Flushed
  BY DEF Init, Kin, Flushed, PromptAlone, Alive, ShellAlive, WaitsForSomething
<1>6. Lines
  <2>1. ran \o buffer = << >>
    BY ConcatEmptySeq, EmptySeq DEF Init
  <2>2. Range(<< >>) = {} /\ 1 .. 0 = {}
    BY EmptySeq DEF Range
  <2> QED
    BY <1>1, <2>1, <2>2 DEF Init, Lines, LinesOnce
<1> QED
  BY <1>3, <1>4, <1>5, <1>6 DEF IInv

LEMMA NextInvariant == IInv /\ [Next]_vars => IInv'
<1> SUFFICES ASSUME IInv, [Next]_vars
             PROVE  IInv'
  OBVIOUS
<1>1. CASE UNCHANGED vars
  <2>1. InputTypes' /\ Lines'
    BY <1>1, SameLines DEF vars, input, history
  <2> QED
    BY <1>1, <2>1 DEF vars, input, process, IInv, ProcessTypes, Kin, Flushed,
       PromptAlone, Alive, ShellAlive, WaitsForSomething
<1>2. CASE Next
  BY <1>2, GetlineStep, BuiltinStep, ChildStep, WaitStep, SignalStep
     DEF Next, Shell, Environment
<1> QED
  BY <1>1, <1>2

LEMMA Invariant == Spec => []IInv
  BY InitInvariant, NextInvariant, PTL DEF Spec

(***************************************************************************)
(* The theorems.                                                           *)
(***************************************************************************)
\* Type correctness for every input and every buffer of stdio.
THEOREM ShellTypes == Spec => []TypeOK
<1>1. IInv => TypeOK
  <2> SUFFICES ASSUME IInv
               PROVE  TypeOK
    OBVIOUS
  <2>1. Range(buffer) \subseteq DOMAIN script /\ Range(ran) \subseteq DOMAIN script
        /\ DOMAIN script = Numbers
    BY LenProperties, RangeOfSeq DEF IInv, InputTypes, Numbers
  <2> QED
    BY <2>1 DEF IInv, InputTypes, ProcessTypes, Flushed, TypeOK, Ends
<1> QED
  BY <1>1, Invariant, PTL

\* Whatever signals stop, continue or kill the shell's child, and whenever they do,
\* the prompt finds no child and no report of one left.
THEOREM PromptIsAlone == Spec => []PromptAlone
<1>1. IInv => PromptAlone
  BY DEF IInv, Kin
<1> QED
  BY <1>1, Invariant, PTL

\* The shell never waits again for a child whose end waitpid has told it.
THEOREM WaitsAreSound == Spec => []WaitsForSomething
<1>1. IInv => WaitsForSomething
  BY DEF IInv, Kin
<1> QED
  BY <1>1, Invariant, PTL

\* The lines that programs leave are run once each and in order, however much stdio
\* reads ahead and whenever programs read, until input is given back to a file.
THEOREM LinesRunOnce == Spec => []LinesOnce
<1>1. IInv => LinesOnce
  BY DEF IInv, Lines
<1> QED
  BY <1>1, Invariant, PTL

\* No child inherits output that the shell has printed and not yet written.
THEOREM OutputIsOnce == Spec => []OutputOnce
<1>1. IInv => OutputOnce
  BY DEF IInv, Flushed, OutputOnce
<1> QED
  BY <1>1, Invariant, PTL
=============================================================================
