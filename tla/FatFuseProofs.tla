-------------------------- MODULE FatFuseProofs --------------------------
(***************************************************************************)
(* What holds of FatFuse for every image, every set of workers and every   *)
(* request.                                                                *)
(***************************************************************************)
EXTENDS FatFuse, Iteration, SequenceTheorems, TLAPS

(***************************************************************************)
(* The helpers return what their callers take them for.                    *)
(***************************************************************************)
LEMMA SequenceType ==
  ASSUME NEW S, NEW m \in Int, NEW f \in [1 .. m -> S]
  PROVE  f \in Seq(S)
<1>1. CASE m \in Nat
  BY <1>1
<1>2. CASE m \notin Nat
  <2>1. 1 .. m = 1 .. 0
    BY <1>2
  <2>2. f \in [1 .. 0 -> S]
    BY <2>1
  <2> QED
    BY <2>2
<1> QED
  BY <1>1, <1>2

LEMMA VolumeType ==
  ASSUME NEW v \in Volumes
  PROVE  /\ \A c : FatDir(v, c) \subseteq U16
         /\ v.root \in Seq(Entry) /\ v.disk \in Seq(Entry)
BY VolumeAssumption DEF IsVolume, FatDir

LEMMA NextOfType ==
  ASSUME NEW x \in U16
  PROVE  NextOf(x) \in U16
BY DEF NextOf, U16, EndClus

LEMMA NameOfType ==
  ASSUME NEW dir \in Seq(Entry)
  PROVE  Names(dir) \subseteq Component
<1> SUFFICES ASSUME NEW i \in Listed(dir)
             PROVE  NameOf(dir[i]) \in Component
  BY DEF Names
<1>1. dir[i] \in Entry
  BY DEF Listed
<1> QED
  BY <1>1 DEF NameOf, Entry, Component

LEMMA SearchDirsType ==
  ASSUME NEW dir \in Seq(Entry), NEW dname,
         NEW hit \in SearchDirs(dir, dname) \ {0}
  PROVE  dir[hit] \in Entry
BY DEF SearchDirs, Listed

LEMMA NoEntryType == NoEntry \in Entry
<1>1. Bases # {} /\ Exts # {}
  BY RequestAssumption DEF Entry
<1> QED
  BY <1>1 DEF NoEntry, Entry, U16

LEMMA AnswerType ==
  /\ NoAnswer \in Answer
  /\ \A e \in {"ENOENT", "EPERM", "errno", "ok", "one"} : Error(e) \in Answer
<1>1. <<>> \in Seq(Int) /\ {} \in SUBSET Component /\ 0 \in U16
  BY DEF U16
<1>2. NoAnswer \in Answer
  BY <1>1 DEF NoAnswer, Answer
<1>3. ASSUME NEW e \in {"ENOENT", "EPERM", "errno", "ok", "one"}
      PROVE  Error(e) \in Answer
  BY <1>1 DEF NoAnswer, Error, Answer
<1> QED
  BY <1>2, <1>3

LEMMA FreshType ==
  ASSUME NEW r \in Request
  PROVE  Fresh(r) \in Local
<1>1. /\ <<>> \in Seq(Tokens)
      /\ <<>> \in Seq(Entry)
      /\ <<>> \in Seq(Int)
  OBVIOUS
<1> QED
  BY <1>1, NoEntryType, AnswerType DEF Fresh, Local, Pcs, U16
(***************************************************************************)
(* The inductive invariant: types, buffer ownership and the shape of the   *)
(* buffer a directory is read into, one worker at a time.                  *)
(***************************************************************************)
SharedType ==
  /\ vol \in Volumes
  /\ proc \in {"up", "aborted"}
  /\ fpos \in Int
  /\ strtokp \in [own : Workers, path : Seq(Component), at : Nat \ {0},
                  live : BOOLEAN]
  /\ dcache \subseteq [path : Seq(Component), kind : {"dir", "file"}, size : Nat]
  /\ handles \subseteq [path : Seq(Component), fh : U16]

Owns(t) ==
  t.held \in CASE t.pc \in {"seek", "fread", "loaded"} -> {1}
               [] t.pc = "search" -> IF t.idx > 1 THEN {1} ELSE {0}
               [] t.pc = "idle" /\ t.ans.err \in {"ENOENT", "one"} -> {0, 1}
               [] OTHER -> {0}

Shape(t) ==
  /\ t.pc \in {"count", "seek", "fread"} => t.n >= 1
  /\ t.pc \in {"seek", "fread"} =>
       t.i < t.n /\ DOMAIN t.dir = 1 .. t.n * ClusterSize

LocalInv(t) == t \in Local /\ Owns(t) /\ Shape(t)

IInv ==
  /\ SharedType
  /\ th \in [Workers -> Local]
  /\ \A w \in Workers : Owns(th[w]) /\ Shape(th[w])

\* A worker that moves alone: its new local state is all there is to check.
LEMMA OneWorker ==
  ASSUME IInv, NEW w \in Workers, NEW t, LocalInv(t),
         th' = [th EXCEPT ![w] = t], SharedType'
  PROVE  IInv'
<1>1. th' \in [Workers -> Local]
  BY DEF IInv, LocalInv
<1>2. ASSUME NEW u \in Workers
      PROVE  Owns(th'[u]) /\ Shape(th'[u])
  <2>1. CASE u = w
    BY <2>1 DEF IInv, LocalInv
  <2>2. CASE u # w
    BY <2>2 DEF IInv
  <2> QED
    BY <2>1, <2>2
<1> QED
  BY <1>1, <1>2 DEF IInv

\* Losing the text of tokens leaves a worker's invariant alone.
LEMMA LosingTokens ==
  ASSUME NEW t \in Local, Owns(t), Shape(t), NEW u \in Workers, NEW w
  PROVE  LocalInv([t EXCEPT !.plist = Lose(@, u, w)])
<1>1. Lose(t.plist, u, w) \in Seq(Tokens)
  <2>1. t.plist \in Seq(Tokens) /\ Len(t.plist) \in Int
    BY DEF Local
  <2>2. ASSUME NEW k \in 1 .. Len(t.plist)
        PROVE  Lose(t.plist, u, w)[k] \in Tokens
    <3>1. t.plist[k] \in Tokens /\ k \in DOMAIN t.plist
      BY <2>1
    <3>2. [name |-> Freed, own |-> u] \in Tokens
      BY DEF Tokens
    <3> QED
      BY <3>1, <3>2 DEF Lose
  <2>3. Lose(t.plist, u, w) \in [1 .. Len(t.plist) -> Tokens]
    <3>1. DOMAIN t.plist = 1 .. Len(t.plist)
      BY <2>1
    <3>2. /\ DOMAIN Lose(t.plist, u, w) = 1 .. Len(t.plist)
          /\ Lose(t.plist, u, w) = [k \in 1 .. Len(t.plist) |-> Lose(t.plist, u, w)[k]]
      BY <3>1 DEF Lose
    <3> QED
      BY <2>2, <3>2
  <2> QED
    BY <2>1, <2>3, SequenceType
<1>2. [t EXCEPT !.plist = Lose(@, u, w)] \in Local
  BY <1>1 DEF Local
<1> QED
  BY <1>2 DEF LocalInv, Owns, Shape, Local

\* A handler that returns holds nothing, or the one buffer of a failed lookup or
\* listing.
LEMMA ReturnedInv ==
  ASSUME NEW t \in Local, NEW a \in Answer, NEW f \in {0, 1},
         t.held - f \in IF a.err \in {"ENOENT", "one"} THEN {0, 1} ELSE {0}
  PROVE  LocalInv(Returned(t, a, f))
<1>1. Fresh(t.req) \in Local /\ Fresh(t.req).pc = "idle"
  <2>1. t.req \in Request
    BY DEF Local
  <2> QED
    BY <2>1, FreshType DEF Fresh
<1>2. Returned(t, a, f) \in Local
  <2>1. t.held - f \in Nat
    OBVIOUS
  <2> QED
    BY <1>1, <2>1 DEF Returned, Local
<1>3. Returned(t, a, f).pc = "idle" /\ Returned(t, a, f).ans = a
      /\ Returned(t, a, f).held = t.held - f
  BY DEF Returned, Fresh
<1> QED
  BY <1>2, <1>3 DEF LocalInv, Owns, Shape

LEMMA FinishInv ==
  ASSUME IInv, NEW w \in Workers, NEW a \in Answer, NEW f \in {0, 1},
         th[w].held - f \in IF a.err \in {"ENOENT", "one"} THEN {0, 1} ELSE {0},
         Finish(w, a, f), UNCHANGED <<vol, proc>>, fpos' \in Int
  PROVE  IInv'
<1>1. \A u \in Workers : LocalInv(th'[u])
  <2> SUFFICES ASSUME NEW u \in Workers
               PROVE  LocalInv(th'[u])
    OBVIOUS
  <2>1. CASE u = w
    BY <2>1, ReturnedInv DEF Finish, IInv
  <2>2. CASE u # w
    BY <2>2, LosingTokens DEF Finish, IInv
  <2> QED
    BY <2>1, <2>2
<1>2. th' \in [Workers -> Local]
  BY <1>1 DEF Finish, LocalInv
<1>3. SharedType'
  <2>1. th[w].req \in Request
    BY DEF IInv, Local
  <2>2. strtokp' \in [own : Workers, path : Seq(Component), at : Nat \ {0},
                      live : BOOLEAN]
    BY DEF Finish, IInv, SharedType
  <2>3. dcache' \subseteq [path : Seq(Component), kind : {"dir", "file"}, size : Nat]
    <3>1. a.kind # "none" =>
            [path |-> th[w].req.path, kind |-> a.kind, size |-> a.size]
              \in [path : Seq(Component), kind : {"dir", "file"}, size : Nat]
      BY <2>1 DEF Request, Answer
    <3> QED
      BY <3>1 DEF Finish, IInv, SharedType
  <2>4. handles' \subseteq [path : Seq(Component), fh : U16]
    BY <2>1 DEF Finish, IInv, SharedType, Request, Answer
  <2> QED
    BY <2>2, <2>3, <2>4 DEF SharedType, IInv
<1> QED
  BY <1>1, <1>2, <1>3 DEF IInv, LocalInv

(***************************************************************************)
(* One lemma per group of actions.                                         *)
(***************************************************************************)
LEMMA SubmitInv ==
  ASSUME IInv, NEW w \in Workers, Submit(w)
  PROVE  IInv'
<1>1. PICK r \in Inputs : th' = [th EXCEPT ![w] =
            [Fresh(r) EXCEPT !.pc = IF r.op = "read" THEN "rd0" ELSE "tok0"]]
  BY DEF Submit
<1>2. r \in Request
  <2>1. {h.fh : h \in handles} \union {0} \subseteq U16
    <3>1. \A h \in handles : h.fh \in U16
      BY DEF IInv, SharedType
    <3>2. 0 \in U16
      BY DEF U16
    <3> QED
      BY <3>1, <3>2
  <2>2. /\ Sizes \union {0} \subseteq Nat /\ Offsets \union {0} \subseteq Nat
        /\ Paths \subseteq Seq(Component)
    BY RequestAssumption
  <2> QED
    BY <2>1, <2>2 DEF Inputs, Request
<1> DEFINE t == [Fresh(r) EXCEPT !.pc = IF r.op = "read" THEN "rd0" ELSE "tok0"]
<1>3. LocalInv(t)
  <2>1. Fresh(r) \in Local
    BY <1>2, FreshType
  <2>2. t \in Local
    BY <2>1 DEF Local, Pcs
  <2>3. t.held = 0 /\ t.pc \in {"rd0", "tok0"}
    BY DEF Fresh
  <2> QED
    BY <2>2, <2>3 DEF LocalInv, Owns, Shape
<1>4. SharedType'
  BY DEF Submit, IInv, SharedType
<1> QED
  BY <1>1, <1>3, <1>4, OneWorker

LEMMA AbortInv ==
  ASSUME IInv, Abort
  PROVE  IInv'
BY DEF IInv, SharedType, Abort

LEMMA StrtokFirstInv ==
  ASSUME IInv, NEW w \in Workers, StrtokFirst(w)
  PROVE  IInv'
<1> DEFINE p == th[w].req.path
<1>1. th[w] \in Local /\ p \in Seq(Component) /\ Owns(th[w])
  BY DEF IInv, Local, Request
<1>2. SharedType'
  BY <1>1 DEF StrtokFirst, IInv, SharedType
<1>3. CASE p = <<>>
  <2> DEFINE t == [th[w] EXCEPT !.pc = "dispatch"]
  <2>1. LocalInv(t)
    BY <1>1 DEF StrtokFirst, LocalInv, Local, Pcs, Owns, Shape
  <2>2. th' = [th EXCEPT ![w] = t]
    BY <1>3 DEF StrtokFirst
  <2> QED
    BY <1>2, <2>1, <2>2, OneWorker
<1>4. CASE p # <<>>
  <2> DEFINE t == [th[w] EXCEPT !.pc = "tok", !.plist = <<Token(w, p[1])>>]
  <2>1. <<Token(w, p[1])>> \in Seq(Tokens)
    <3>1. p[1] \in Component
      BY <1>1, <1>4
    <3>2. Token(w, p[1]) \in Tokens
      BY <3>1 DEF Token, Tokens
    <3> QED
      BY <3>2
  <2>2. LocalInv(t)
    BY <1>1, <2>1 DEF StrtokFirst, LocalInv, Local, Pcs, Owns, Shape
  <2>3. th' = [th EXCEPT ![w] = t]
    BY <1>4 DEF StrtokFirst, IInv
  <2> QED
    BY <1>2, <2>2, <2>3, OneWorker
<1> QED
  BY <1>3, <1>4

LEMMA StrtokNextInv ==
  ASSUME IInv, NEW w \in Workers, StrtokNext(w)
  PROVE  IInv'
<1> DEFINE more == strtokp.at <= Len(strtokp.path)
           tok == Token(strtokp.own, strtokp.path[strtokp.at])
<1>1. th[w] \in Local /\ Owns(th[w]) /\ th[w].pc = "tok"
  BY DEF IInv, StrtokNext
<1>2. SharedType'
  BY DEF StrtokNext, IInv, SharedType
<1>3. CASE more
  <2> DEFINE t == [th[w] EXCEPT !.plist = Append(@, tok)]
  <2>1. tok \in Tokens
    <3>1. strtokp.path[strtokp.at] \in Component
      BY <1>3 DEF IInv, SharedType
    <3> QED
      BY <3>1 DEF Token, Tokens, IInv, SharedType
  <2>2. Append(th[w].plist, tok) \in Seq(Tokens)
    BY <1>1, <2>1 DEF Local
  <2>3. t \in Local /\ t.held = th[w].held /\ t.pc = "tok"
    BY <1>1, <2>2 DEF Local
  <2>4. LocalInv(t)
    BY <1>1, <2>3 DEF LocalInv, Owns, Shape
  <2>5. th' = [th EXCEPT ![w] = t]
    BY <1>3 DEF StrtokNext, IInv
  <2> QED
    BY <1>2, <2>4, <2>5, OneWorker
<1>4. CASE ~ more
  <2> DEFINE t == [th[w] EXCEPT !.pc = "dispatch"]
  <2>1. LocalInv(t)
    BY <1>1 DEF LocalInv, Local, Pcs, Owns, Shape
  <2>2. th' = [th EXCEPT ![w] = t]
    BY <1>4 DEF StrtokNext, IInv
  <2> QED
    BY <1>2, <2>1, <2>2, OneWorker
<1> QED
  BY <1>3, <1>4

LEMMA StrtokStaleInv ==
  ASSUME IInv, NEW w \in Workers, StrtokStale(w)
  PROVE  IInv'
<1>1. CASE Abort
  BY <1>1, AbortInv
<1>2. CASE ~ Abort
  <2>1. PICK more \in {<<>>, <<Token(w, Freed)>>} :
          th' = [th EXCEPT ![w].pc = "dispatch", ![w].plist = @ \o more]
    BY <1>2 DEF StrtokStale
  <2> DEFINE t == [th[w] EXCEPT !.pc = "dispatch", !.plist = @ \o more]
  <2>2. th[w] \in Local /\ Owns(th[w]) /\ th[w].pc = "tok"
    BY DEF IInv, StrtokStale
  <2>3. th[w].plist \o more \in Seq(Tokens)
    <3>1. Token(w, Freed) \in Tokens
      BY DEF Token, Tokens
    <3>2. more \in Seq(Tokens)
      <4>1. <<>> \in Seq(Tokens) /\ <<Token(w, Freed)>> \in Seq(Tokens)
        BY <3>1
      <4> QED
        BY <4>1
    <3>3. th[w].plist \in Seq(Tokens)
      BY <2>2 DEF Local
    <3> QED
      BY <3>2, <3>3, ConcatProperties
  <2>4. LocalInv(t)
    BY <2>2, <2>3 DEF LocalInv, Local, Pcs, Owns, Shape
  <2>5. th' = [th EXCEPT ![w] = t]
    BY <2>1 DEF IInv
  <2>6. SharedType'
    BY <1>2 DEF StrtokStale, IInv, SharedType
  <2> QED
    BY <2>4, <2>5, <2>6, OneWorker
<1> QED
  BY <1>1, <1>2

LEMMA DispatchInv ==
  ASSUME IInv, NEW w \in Workers, DispatchRoot(w) \/ DispatchDir(w)
  PROVE  IInv'
<1>1. /\ th[w] \in Local /\ Owns(th[w]) /\ th[w].pc = "dispatch"
      /\ vol.root \in Seq(Entry)
  BY VolumeType DEF IInv, SharedType, DispatchRoot, DispatchDir
<1>2. th[w].held = 0
  BY <1>1 DEF Owns
<1>3. CASE DispatchRoot(w)
  <2> DEFINE a == CASE th[w].req.op = "getattr" ->
                         [NoAnswer EXCEPT !.err = "ok", !.kind = "dir"]
                    [] th[w].req.op = "readdir" ->
                         [NoAnswer EXCEPT !.err = "ok", !.names = Names(vol.root)]
                    [] OTHER -> Error("ENOENT")
  <2>1. a \in Answer
    <3>1. Names(vol.root) \in SUBSET Component
      BY <1>1, NameOfType
    <3> QED
      BY <3>1, AnswerType DEF Answer
  <2>2. Finish(w, a, 0) /\ UNCHANGED <<vol, proc>> /\ fpos' \in Int
    BY <1>3 DEF DispatchRoot, IInv, SharedType
  <2>3. th[w].held - 0 \in IF a.err \in {"ENOENT", "one"} THEN {0, 1} ELSE {0}
    BY <1>2
  <2> HIDE DEF a
  <2> QED
    BY <2>1, <2>2, <2>3, FinishInv
<1>4. CASE DispatchDir(w)
  <2> DEFINE t == [th[w] EXCEPT !.pc = "search", !.idx = 1, !.dir = vol.root]
  <2>1. t \in Local
    <3> DEFINE r == vol.root
    <3>1. "search" \in Pcs /\ 1 \in Nat \ {0} /\ r \in Seq(Entry)
      BY <1>1 DEF Pcs
    <3> HIDE DEF r
    <3>2. [th[w] EXCEPT !.pc = "search", !.idx = 1, !.dir = r] \in Local
      BY <1>1, <3>1 DEF Local
    <3> QED
      BY <3>2 DEF r
  <2>2. t.pc = "search" /\ t.idx = 1 /\ t.held = 0
    BY <1>1, <1>2 DEF Local
  <2>3. LocalInv(t)
    BY <2>1, <2>2 DEF LocalInv, Owns, Shape
  <2>4. th' = [th EXCEPT ![w] = t]
    BY <1>4 DEF DispatchDir, IInv
  <2>5. SharedType'
    BY <1>4 DEF DispatchDir, IInv, SharedType
  <2> QED
    BY <2>3, <2>4, <2>5, OneWorker
<1> QED
  BY <1>3, <1>4

LEMMA SearchMissInv ==
  ASSUME IInv, NEW w \in Workers, SearchMiss(w)
  PROVE  IInv'
<1>1. th[w] \in Local /\ Owns(th[w]) /\ th[w].pc = "search"
  BY DEF IInv, SearchMiss
<1>2. th[w].held - 0 \in {0, 1}
  BY <1>1 DEF Owns
<1>3. Error("ENOENT") \in Answer /\ Error("ENOENT").err = "ENOENT"
  BY AnswerType DEF Error, NoAnswer
<1> QED
  BY <1>2, <1>3, FinishInv DEF SearchMiss, IInv, SharedType

LEMMA SearchHitInv ==
  ASSUME IInv, NEW w \in Workers, SearchHit(w)
  PROVE  IInv'
<1> DEFINE dname == th[w].plist[th[w].idx].name
           t(hit) == [th[w] EXCEPT
                        !.rval = th[w].dir[hit],
                        !.held = IF th[w].idx > 1 THEN @ - 1 ELSE @,
                        !.dir = <<>>,
                        !.pc = IF th[w].idx = Len(th[w].plist)
                               THEN "found" ELSE "count0"]
<1>1. PICK hit \in SearchDirs(th[w].dir, dname) \ {0} :
        th' = [th EXCEPT ![w] = t(hit)]
  BY DEF SearchHit, IInv
<1>2. th[w] \in Local /\ Owns(th[w]) /\ th[w].pc = "search"
  BY DEF IInv, SearchHit
<1>3. th[w].dir[hit] \in Entry
  BY <1>2, SearchDirsType DEF Local
<1>4. (IF th[w].idx > 1 THEN th[w].held - 1 ELSE th[w].held) = 0
  BY <1>2 DEF Owns
<1>5. /\ t(hit).held = 0 /\ t(hit).pc \in {"found", "count0"}
      /\ t(hit) \in Local
  <2>1. t(hit).held = 0 /\ t(hit).pc \in {"found", "count0"}
    BY <1>2, <1>4 DEF Local
  <2>2. <<>> \in Seq(Entry)
    OBVIOUS
  <2> DEFINE h == IF th[w].idx > 1 THEN th[w].held - 1 ELSE th[w].held
             p == IF th[w].idx = Len(th[w].plist) THEN "found" ELSE "count0"
  <2>3. h \in Nat /\ p \in Pcs
    BY <1>4 DEF Pcs
  <2>4. t(hit) = [th[w] EXCEPT !.rval = th[w].dir[hit], !.held = h,
                               !.dir = <<>>, !.pc = p]
    BY <1>2 DEF Local
  <2> HIDE DEF h, p
  <2>5. [th[w] EXCEPT !.rval = th[w].dir[hit], !.held = h,
                      !.dir = <<>>, !.pc = p] \in Local
    BY <1>2, <1>3, <2>2, <2>3 DEF Local
  <2> QED
    BY <2>1, <2>4, <2>5
<1>6. LocalInv(t(hit))
  BY <1>5 DEF LocalInv, Owns, Shape
<1>7. SharedType'
  BY DEF SearchHit, IInv, SharedType
<1> QED
  BY <1>1, <1>6, <1>7, OneWorker

LEMMA FoundInv ==
  ASSUME IInv, NEW w \in Workers, FoundAnswer(w) \/ FoundDir(w)
  PROVE  IInv'
<1> DEFINE e == th[w].rval
<1>1. th[w] \in Local /\ Owns(th[w]) /\ th[w].pc = "found" /\ e \in Entry
  BY DEF IInv, FoundAnswer, FoundDir, Local
<1>2. th[w].held = 0
  BY <1>1 DEF Owns
<1>3. CASE FoundAnswer(w)
  <2> DEFINE a == IF th[w].req.op = "open"
                  THEN [NoAnswer EXCEPT !.err = "ok", !.fh = e.clus]
                  ELSE IF e.kind = "dir"
                  THEN [NoAnswer EXCEPT !.err = "ok", !.kind = "dir"]
                  ELSE [NoAnswer EXCEPT !.err = "ok", !.kind = "file",
                                        !.size = e.size]
  <2>1. a \in Answer
    <3>1. e.clus \in U16 /\ e.size \in Nat
      BY <1>1 DEF Entry
    <3> QED
      BY <3>1, AnswerType DEF Answer
  <2>2. Finish(w, a, 0) /\ UNCHANGED <<vol, proc>> /\ fpos' \in Int
    BY <1>3 DEF FoundAnswer, IInv, SharedType
  <2>3. th[w].held - 0 \in IF a.err \in {"ENOENT", "one"} THEN {0, 1} ELSE {0}
    BY <1>2
  <2> HIDE DEF a
  <2> QED
    BY <2>1, <2>2, <2>3, FinishInv
<1>4. CASE FoundDir(w)
  <2> DEFINE t == [th[w] EXCEPT !.pc = "count0"]
  <2>1. LocalInv(t)
    BY <1>1, <1>2 DEF LocalInv, Local, Pcs, Owns, Shape
  <2>2. th' = [th EXCEPT ![w] = t]
    BY <1>4 DEF FoundDir, IInv
  <2>3. SharedType'
    BY <1>4 DEF FoundDir, IInv, SharedType
  <2> QED
    BY <2>1, <2>2, <2>3, OneWorker
<1> QED
  BY <1>3, <1>4

LEMMA CountStartInv ==
  ASSUME IInv, NEW w \in Workers, CountStart(w)
  PROVE  IInv'
<1>1. th[w] \in Local /\ Owns(th[w]) /\ th[w].pc = "count0"
  BY DEF IInv, CountStart
<1>2. CASE Abort
  BY <1>2, AbortInv
<1>3. CASE ~ Abort
  <2> DEFINE c == th[w].rval.clus
             t == [th[w] EXCEPT !.pc = "count", !.n = 1, !.clus = c]
  <2>1. c \in U16
    BY <1>1 DEF Local, Entry
  <2> HIDE DEF c
  <2>2. t \in Local
    BY <1>1, <2>1 DEF Local, Pcs
  <2>3. LocalInv(t)
    BY <1>1, <2>2 DEF LocalInv, Local, Owns, Shape
  <2>4. th' = [th EXCEPT ![w] = t]
    BY <1>3 DEF CountStart, IInv, c
  <2>5. SharedType'
    BY <1>3 DEF CountStart, IInv, SharedType
  <2> QED
    BY <2>3, <2>4, <2>5, OneWorker
<1> QED
  BY <1>2, <1>3

LEMMA CountNextInv ==
  ASSUME IInv, NEW w \in Workers, CountNext(w)
  PROVE  IInv'
<1> DEFINE m == IF th[w].n < MaxCount THEN th[w].n + 1 ELSE th[w].n
<1>1. PICK x \in FatDir(vol, th[w].clus) :
        th' = [th EXCEPT ![w].clus = x, ![w].n = m]
  BY DEF CountNext, IInv, Local
<1>2. /\ th[w] \in Local /\ Owns(th[w]) /\ th[w].pc = "count"
      /\ th[w].n >= 1
  BY DEF IInv, Shape, CountNext
<1>3. x \in U16
  BY VolumeType DEF IInv, SharedType
<1>4. m \in Nat /\ m >= 1
  BY <1>2, RequestAssumption DEF Local
<1> HIDE DEF m
<1> DEFINE t == [th[w] EXCEPT !.clus = x, !.n = m]
<1>5. t \in Local
  BY <1>2, <1>3, <1>4 DEF Local
<1>6. LocalInv(t)
  BY <1>2, <1>4, <1>5 DEF LocalInv, Local, Owns, Shape
<1>7. th' = [th EXCEPT ![w] = t]
  BY <1>1 DEF IInv
<1>8. SharedType'
  BY DEF CountNext, IInv, SharedType
<1> QED
  BY <1>6, <1>7, <1>8, OneWorker

LEMMA CountEndInv ==
  ASSUME IInv, NEW w \in Workers, CountEnd(w)
  PROVE  IInv'
<1> DEFINE m == th[w].n * ClusterSize
           c == th[w].rval.clus
<1>1. PICK junk \in Leftovers :
        th' = [th EXCEPT ![w].pc = "seek", ![w].held = @ + 1, ![w].i = 0,
                         ![w].clus = c, ![w].dir = [k \in 1 .. m |-> junk]]
  BY DEF CountEnd
<1>2. /\ th[w] \in Local /\ Owns(th[w]) /\ th[w].pc = "count"
      /\ th[w].n >= 1
  BY DEF IInv, Shape, CountEnd
<1>3. th[w].held = 0
  BY <1>2 DEF Owns
<1>4. m \in Int /\ c \in U16
  BY <1>2, VolumeAssumption DEF Local, Entry
<1> DEFINE d == [k \in 1 .. m |-> junk]
<1>5. d \in Seq(Entry) /\ DOMAIN d = 1 .. m
  <2>1. junk \in Entry
    BY RequestAssumption
  <2>2. d \in [1 .. m -> Entry]
    BY <2>1
  <2> HIDE DEF m, d
  <2>3. d \in Seq(Entry)
    BY <1>4, <2>2, SequenceType
  <2> QED
    BY <2>3 DEF d
<1> DEFINE h == th[w].held + 1
<1>11. h = 1
  BY <1>3
<1> HIDE DEF h
<1> DEFINE t == [th[w] EXCEPT !.pc = "seek", !.held = h, !.i = 0,
                              !.clus = c, !.dir = d]
<1> HIDE DEF d, c
<1>6. t \in Local
  BY <1>2, <1>4, <1>5, <1>11 DEF Local, Pcs
<1>7. /\ t.held = 1 /\ t.pc = "seek" /\ t.i = 0 /\ t.dir = d
      /\ t.n = th[w].n /\ t.n \in Nat
  BY <1>2, <1>11 DEF Local
<1>8. LocalInv(t)
  BY <1>2, <1>5, <1>6, <1>7 DEF LocalInv, Owns, Shape
<1>9. th' = [th EXCEPT ![w] = t]
  BY <1>1 DEF IInv, d, c, h
<1>10. SharedType'
  BY DEF CountEnd, IInv, SharedType
<1> QED
  BY <1>8, <1>9, <1>10, OneWorker

LEMMA CountBadInv ==
  ASSUME IInv, NEW w \in Workers, CountBadLookup(w) \/ CountBadList(w)
  PROVE  IInv'
<1>1. th[w] \in Local /\ Owns(th[w]) /\ th[w].pc = "count"
  BY DEF IInv, CountBadLookup, CountBadList
<1>2. th[w].held - 0 = 0
  BY <1>1 DEF Owns
<1>3. CASE CountBadLookup(w)
  <2>1. Error("ENOENT") \in Answer
    BY AnswerType
  <2>2. th[w].held - 0 \in IF Error("ENOENT").err \in {"ENOENT", "one"}
                           THEN {0, 1} ELSE {0}
    BY <1>2
  <2> QED
    BY <1>3, <2>1, <2>2, FinishInv DEF CountBadLookup, IInv, SharedType
<1>4. CASE CountBadList(w)
  <2>1. Error("one") \in Answer
    BY AnswerType
  <2>2. LocalInv(Returned(th[w], Error("one"), 0))
    BY <1>1, <1>2, <2>1, ReturnedInv
  <2>3. SharedType'
    BY <1>4 DEF CountBadList, IInv, SharedType
  <2>4. th' = [th EXCEPT ![w] = Returned(th[w], Error("one"), 0)]
    BY <1>4 DEF CountBadList
  <2> QED
    BY <2>2, <2>3, <2>4, OneWorker
<1> QED
  BY <1>3, <1>4

LEMMA SlotOfType ==
  ASSUME NEW c \in U16
  PROVE  SlotOf(c) \in Int
BY VolumeAssumption DEF SlotOf, SlotFrom, U16

LEMMA SeekInv ==
  ASSUME IInv, NEW w \in Workers, Seek(w)
  PROVE  IInv'
<1>1. th[w] \in Local /\ Owns(th[w]) /\ Shape(th[w]) /\ th[w].pc = "seek"
  BY DEF IInv, Seek
<1> DEFINE t == [th[w] EXCEPT !.pc = "fread"]
<1>2. t \in Local
  BY <1>1 DEF Local, Pcs
<1>3. LocalInv(t)
  BY <1>1, <1>2 DEF LocalInv, Local, Owns, Shape
<1>4. th' = [th EXCEPT ![w] = t]
  BY DEF Seek
<1>5. SharedType'
  <2>1. SlotOf(th[w].clus) \in Int
    BY <1>1, SlotOfType DEF Local
  <2> QED
    BY <2>1 DEF Seek, IInv, SharedType
<1> QED
  BY <1>3, <1>4, <1>5, OneWorker

LEMMA FreadInv ==
  ASSUME IInv, NEW w \in Workers, Fread(w)
  PROVE  IInv'
<1> DEFINE d == [k \in DOMAIN th[w].dir |->
                   IF k - ReadTarget(th[w]) \in 1 .. ClusterSize
                   THEN vol.disk[fpos + k - ReadTarget(th[w])]
                   ELSE th[w].dir[k]]
           m == th[w].n * ClusterSize
           j == th[w].i + 1
           p == IF j = th[w].n THEN "loaded" ELSE "seek"
<1>1. PICK x \in FatDir(vol, th[w].clus) :
        th' = [th EXCEPT ![w].dir = d, ![w].clus = NextOf(x),
                         ![w].i = j, ![w].pc = p]
  BY DEF Fread
<1>2. /\ th[w] \in Local /\ Owns(th[w]) /\ th[w].pc = "fread"
      /\ th[w].n >= 1 /\ th[w].i < th[w].n
      /\ DOMAIN th[w].dir = 1 .. m
  BY DEF IInv, Shape, Fread
<1>3. NextOf(x) \in U16
  BY VolumeType, NextOfType DEF IInv, SharedType
<1>4. d \in Seq(Entry) /\ DOMAIN d = 1 .. m
  <2>1. /\ th[w].dir \in Seq(Entry) /\ th[w].i \in Nat /\ m \in Int
        /\ ClusterSize \in Nat /\ fpos \in Int
    BY <1>2, VolumeAssumption DEF Local, IInv, SharedType
  <2>2. vol.disk \in Seq(Entry) /\ Inside(vol, fpos, ClusterSize)
    BY VolumeType DEF IInv, SharedType, Fread
  <2>3. ASSUME NEW k \in 1 .. m
        PROVE  d[k] \in Entry
    <3>1. CASE k - ReadTarget(th[w]) \in 1 .. ClusterSize
      <4>1. fpos + k - ReadTarget(th[w]) \in 1 .. Len(vol.disk)
        BY <2>1, <2>2, <3>1 DEF Inside, ReadTarget
      <4>2. d[k] = vol.disk[fpos + k - ReadTarget(th[w])]
        BY <1>2, <3>1
      <4> HIDE DEF d
      <4> QED
        BY <2>2, <4>1, <4>2
    <3>2. CASE k - ReadTarget(th[w]) \notin 1 .. ClusterSize
      <4>1. d[k] = th[w].dir[k]
        BY <1>2, <3>2
      <4>2. th[w].dir[k] \in Entry
        BY <1>2, <2>1
      <4> QED
        BY <4>1, <4>2
    <3> QED
      BY <3>1, <3>2
  <2>4. DOMAIN d = 1 .. m
    BY <1>2
  <2>5. d = [k \in 1 .. m |-> d[k]]
    BY <1>2
  <2> HIDE DEF d, m
  <2>6. d \in [1 .. m -> Entry]
    BY <2>3, <2>5
  <2> QED
    BY <2>1, <2>4, <2>6, SequenceType
<1>5. /\ j \in Nat /\ p \in {"loaded", "seek"}
      /\ p = "seek" => j < th[w].n
  BY <1>2 DEF Local
<1> HIDE DEF d, j, p
<1> DEFINE t == [th[w] EXCEPT !.dir = d, !.clus = NextOf(x), !.i = j, !.pc = p]
<1>6. t \in Local
  BY <1>2, <1>3, <1>4, <1>5 DEF Local, Pcs
<1>7. /\ t.dir = d /\ t.i = j /\ t.pc = p
      /\ t.n = th[w].n /\ t.held = th[w].held
  BY <1>2 DEF Local
<1>8. t.held = 1
  BY <1>2, <1>7 DEF Owns
<1>9. Owns(t)
  BY <1>5, <1>7, <1>8 DEF Owns
<1>10. Shape(t)
  BY <1>2, <1>4, <1>5, <1>7 DEF Shape
<1>11. th' = [th EXCEPT ![w] = t]
  BY <1>1 DEF IInv
<1>12. SharedType'
  <2>1. fpos \in Int /\ ClusterSize \in Int
    BY VolumeAssumption DEF IInv, SharedType
  <2>2. fpos' = fpos + ClusterSize
    BY DEF Fread
  <2>3. fpos' \in Int
    BY <2>1, <2>2
  <2> QED
    BY <2>3 DEF Fread, IInv, SharedType
<1> QED
  BY <1>6, <1>9, <1>10, <1>11, <1>12, OneWorker DEF LocalInv

LEMMA LoadedSearchInv ==
  ASSUME IInv, NEW w \in Workers, LoadedSearch(w)
  PROVE  IInv'
<1> DEFINE j == th[w].idx + 1
           t == [th[w] EXCEPT !.pc = "search", !.idx = j]
<1>1. th[w] \in Local /\ Owns(th[w]) /\ th[w].pc = "loaded"
  BY DEF IInv, LoadedSearch
<1>2. j \in Nat \ {0} /\ j > 1 /\ th[w].held = 1
  BY <1>1 DEF Local, Owns
<1> HIDE DEF j
<1>3. t \in Local
  BY <1>1, <1>2 DEF Local, Pcs
<1>4. t.pc = "search" /\ t.idx = j /\ t.held = th[w].held
  BY <1>1 DEF Local
<1>5. LocalInv(t)
  BY <1>2, <1>3, <1>4 DEF LocalInv, Owns, Shape
<1>6. th' = [th EXCEPT ![w] = t]
  BY DEF LoadedSearch, IInv, j
<1>7. SharedType'
  BY DEF LoadedSearch, IInv, SharedType
<1> QED
  BY <1>5, <1>6, <1>7, OneWorker

LEMMA LoadedListInv ==
  ASSUME IInv, NEW w \in Workers, LoadedList(w)
  PROVE  IInv'
<1> DEFINE a == [NoAnswer EXCEPT !.err = "ok", !.names = Names(th[w].dir)]
<1>1. th[w] \in Local /\ Owns(th[w]) /\ th[w].pc = "loaded"
  BY DEF IInv, LoadedList
<1>2. th[w].held - 1 = 0
  BY <1>1 DEF Owns
<1>3. a \in Answer
  <2>1. Names(th[w].dir) \in SUBSET Component
    BY <1>1, NameOfType DEF Local
  <2> QED
    BY <2>1, AnswerType DEF Answer
<1>4. Finish(w, a, 1) /\ UNCHANGED <<vol, proc>> /\ fpos' \in Int
  BY DEF LoadedList, IInv, SharedType
<1> HIDE DEF a
<1>5. th[w].held - 1 \in IF a.err \in {"ENOENT", "one"} THEN {0, 1} ELSE {0}
  BY <1>2
<1> QED
  BY <1>3, <1>4, <1>5, FinishInv

LEMMA ToTheEndType ==
  ASSUME IInv, ToTheEnd
  PROVE  fpos' \in Int
<1>1. vol.disk \in Seq(Entry) /\ fpos \in Int
  BY VolumeType DEF IInv, SharedType
<1>2. Len(vol.disk) \in Int
  BY <1>1
<1> QED
  BY <1>1, <1>2 DEF ToTheEnd

LEMMA FreadShortInv ==
  ASSUME IInv, NEW w \in Workers,
         FreadShort(w) \/ FreadShortLookup(w) \/ FreadShortList(w)
  PROVE  IInv'
<1>1. th[w] \in Local /\ Owns(th[w]) /\ th[w].pc = "fread"
  BY DEF IInv, FreadShort, FreadShortLookup, FreadShortList
<1>2. th[w].held - 0 = 1
  BY <1>1 DEF Owns
<1>3. CASE FreadShort(w)
  BY <1>3, AbortInv DEF FreadShort
<1>4. CASE FreadShortLookup(w)
  <2>1. Error("ENOENT") \in Answer /\ Error("ENOENT").err = "ENOENT"
    BY AnswerType DEF Error, NoAnswer
  <2>2. fpos' \in Int
    BY <1>4, ToTheEndType DEF FreadShortLookup
  <2> QED
    BY <1>2, <1>4, <2>1, <2>2, FinishInv DEF FreadShortLookup
<1>5. CASE FreadShortList(w)
  <2>1. Error("one") \in Answer /\ Error("one").err = "one"
    BY AnswerType DEF Error, NoAnswer
  <2>2. LocalInv(Returned(th[w], Error("one"), 0))
    BY <1>1, <1>2, <2>1, ReturnedInv
  <2>3. fpos' \in Int
    BY <1>5, ToTheEndType DEF FreadShortList
  <2>4. SharedType'
    BY <1>5, <2>3 DEF FreadShortList, IInv, SharedType
  <2>5. th' = [th EXCEPT ![w] = Returned(th[w], Error("one"), 0)]
    BY <1>5 DEF FreadShortList
  <2> QED
    BY <2>2, <2>4, <2>5, OneWorker
<1> QED
  BY <1>3, <1>4, <1>5

LEMMA ReadStartInv ==
  ASSUME IInv, NEW w \in Workers, ReadStart(w)
  PROVE  IInv'
<1>1. th[w] \in Local /\ Owns(th[w]) /\ th[w].pc = "rd0"
  BY DEF IInv, ReadStart
<1>2. th[w].held = 0
  BY <1>1 DEF Owns
<1>3. SharedType'
  BY DEF ReadStart, IInv, SharedType
<1>4. CASE th[w].req.off # 0
  <2>1. LocalInv(Returned(th[w], Error("EPERM"), 0))
    <3>1. Error("EPERM") \in Answer
      BY AnswerType
    <3> QED
      BY <1>1, <1>2, <3>1, ReturnedInv
  <2> QED
    BY <1>3, <1>4, <2>1, OneWorker DEF ReadStart
<1>5. CASE th[w].req.off = 0
  <2> DEFINE c == th[w].req.fh
             t == [th[w] EXCEPT !.pc = "rdseek", !.clus = c]
  <2>1. c \in U16
    BY <1>1 DEF Local, Request
  <2> HIDE DEF c
  <2>2. t \in Local
    BY <1>1, <2>1 DEF Local, Pcs
  <2>3. LocalInv(t)
    BY <1>1, <1>2, <2>2 DEF LocalInv, Local, Owns, Shape
  <2>4. th' = [th EXCEPT ![w] = t]
    BY <1>5 DEF ReadStart, IInv, c
  <2> QED
    BY <1>3, <2>3, <2>4, OneWorker
<1> QED
  BY <1>4, <1>5

LEMMA ReadSeekInv ==
  ASSUME IInv, NEW w \in Workers, ReadSeek(w)
  PROVE  IInv'
<1>1. th[w] \in Local /\ Owns(th[w]) /\ th[w].pc = "rdseek"
  BY DEF IInv, ReadSeek
<1> DEFINE t == [th[w] EXCEPT !.pc = "rdread"]
<1>2. t \in Local
  BY <1>1 DEF Local, Pcs
<1>3. LocalInv(t)
  BY <1>1, <1>2 DEF LocalInv, Local, Owns, Shape
<1>4. th' = [th EXCEPT ![w] = t]
  BY DEF ReadSeek
<1>5. SharedType'
  <2>1. SlotOf(th[w].clus) \in Int
    BY <1>1, SlotOfType DEF Local
  <2> QED
    BY <2>1 DEF ReadSeek, IInv, SharedType
<1> QED
  BY <1>3, <1>4, <1>5, OneWorker

LEMMA ChunkType ==
  ASSUME NEW t \in Local
  PROVE  Chunk(t) \in Int
BY VolumeAssumption DEF Chunk, Remaining, Local, Request

LEMMA ReadFreadInv ==
  ASSUME IInv, NEW w \in Workers, ReadFread(w)
  PROVE  IInv'
<1> DEFINE m == Chunk(th[w])
           more == [k \in 1 .. m |-> fpos + k - 1]
           g == th[w].got \o more
<1>1. PICK x \in FatDir(vol, th[w].clus) :
        th' = [th EXCEPT ![w].got = g, ![w].clus = NextOf(x), ![w].pc = "rdseek"]
  BY DEF ReadFread
<1>2. th[w] \in Local /\ Owns(th[w]) /\ th[w].pc = "rdread"
  BY DEF IInv, ReadFread
<1>3. NextOf(x) \in U16
  BY VolumeType, NextOfType DEF IInv, SharedType
<1>4. m \in Int /\ fpos \in Int
  BY <1>2, ChunkType DEF IInv, SharedType
<1>5. g \in Seq(Int)
  <2> HIDE DEF m
  <2>1. more \in [1 .. m -> Int]
    BY <1>4
  <2> HIDE DEF more
  <2>2. more \in Seq(Int)
    BY <1>4, <2>1, SequenceType
  <2>3. th[w].got \in Seq(Int)
    BY <1>2 DEF Local
  <2> QED
    BY <2>2, <2>3, ConcatProperties
<1> HIDE DEF g
<1> DEFINE t == [th[w] EXCEPT !.got = g, !.clus = NextOf(x), !.pc = "rdseek"]
<1>6. t \in Local
  BY <1>2, <1>3, <1>5 DEF Local, Pcs
<1>7. LocalInv(t)
  BY <1>2, <1>6 DEF LocalInv, Local, Owns, Shape
<1>8. th' = [th EXCEPT ![w] = t]
  BY <1>1 DEF IInv
<1>9. SharedType'
  <2>1. fpos' = fpos + m
    BY DEF ReadFread
  <2> HIDE DEF m
  <2>2. fpos' \in Int
    BY <1>4, <2>1
  <2> QED
    BY <2>2 DEF ReadFread, IInv, SharedType
<1> QED
  BY <1>7, <1>8, <1>9, OneWorker

LEMMA ReadReturnsInv ==
  ASSUME IInv, NEW w \in Workers, ReadShort(w) \/ ReadDone(w)
  PROVE  IInv'
<1>1. /\ th[w] \in Local /\ Owns(th[w]) /\ th[w].pc \in {"rdread", "rdseek"}
      /\ vol.disk \in Seq(Entry)
  BY VolumeType DEF IInv, SharedType, ReadShort, ReadDone
<1>2. th[w].held - 0 = 0
  BY <1>1 DEF Owns
<1>3. CASE ReadShort(w)
  <2>1. PICK a \in {Error("errno"), Error("ok")} :
          th' = [th EXCEPT ![w] = Returned(th[w], a, 0)]
    BY <1>3 DEF ReadShort
  <2>2. a \in Answer
    BY AnswerType
  <2>3. LocalInv(Returned(th[w], a, 0))
    BY <1>1, <1>2, <2>2, ReturnedInv
  <2>4. SharedType'
    <3>1. fpos' \in Int
      BY <1>3, ToTheEndType DEF ReadShort
    <3> QED
      BY <1>3, <3>1 DEF ReadShort, IInv, SharedType
  <2> QED
    BY <2>1, <2>3, <2>4, OneWorker
<1>4. CASE ReadDone(w)
  <2> DEFINE a == [NoAnswer EXCEPT !.err = "ok", !.data = th[w].got]
  <2>1. a \in Answer
    BY <1>1, AnswerType DEF Answer, Local
  <2>2. th' = [th EXCEPT ![w] = Returned(th[w], a, 0)]
    BY <1>4 DEF ReadDone
  <2> HIDE DEF a
  <2>3. LocalInv(Returned(th[w], a, 0))
    BY <1>1, <1>2, <2>1, ReturnedInv
  <2>4. SharedType'
    BY <1>4 DEF ReadDone, IInv, SharedType
  <2> QED
    BY <2>2, <2>3, <2>4, OneWorker
<1> QED
  BY <1>3, <1>4

(***************************************************************************)
(* The invariant holds throughout.                                         *)
(***************************************************************************)
LEMMA InitInv == Init => IInv
<1> SUFFICES ASSUME Init
             PROVE  IInv
  OBVIOUS
<1>1. NoRequest \in Request
  <2>1. <<>> \in Seq(Component) /\ 0 \in U16
    BY DEF U16
  <2> QED
    BY <2>1 DEF NoRequest, Request, Ops
<1>2. Fresh(NoRequest) \in Local
  BY <1>1, FreshType
<1>3. th \in [Workers -> Local]
  BY <1>2 DEF Init
<1>4. Owns(Fresh(NoRequest)) /\ Shape(Fresh(NoRequest))
  BY DEF Fresh, NoAnswer, Owns, Shape
<1>5. SharedType
  <2>1. (CHOOSE w \in Workers : TRUE) \in Workers
    BY RequestAssumption
  <2> DEFINE first == CHOOSE w \in Workers : TRUE
  <2>2. strtokp \in [own : Workers, path : Seq(Component), at : Nat \ {0},
                     live : BOOLEAN]
    <3>1. strtokp = [own |-> first, path |-> <<>>, at |-> 1, live |-> FALSE]
      BY DEF Init
    <3> HIDE DEF first
    <3>2. <<>> \in Seq(Component) /\ first \in Workers
      BY <2>1 DEF first
    <3> QED
      BY <3>1, <3>2
  <2>3. dcache \subseteq [path : Seq(Component), kind : {"dir", "file"}, size : Nat]
    BY DEF Init
  <2> QED
    BY <2>2, <2>3 DEF Init, SharedType
<1> QED
  BY <1>3, <1>4, <1>5 DEF IInv, Init

LEMMA NextInv == IInv /\ [Next]_vars => IInv'
<1> SUFFICES ASSUME IInv, [Next]_vars
             PROVE  IInv'
  OBVIOUS
<1>1. CASE UNCHANGED vars
  BY <1>1 DEF vars, IInv, SharedType
<1>2. ASSUME NEW w \in Workers, Submit(w)
      PROVE  IInv'
  BY <1>2, SubmitInv
<1>3. ASSUME NEW w \in Workers, Handle(w)
      PROVE  IInv'
  <2>1. CASE StrtokFirst(w) \/ StrtokNext(w) \/ StrtokStale(w)
    BY <2>1, StrtokFirstInv, StrtokNextInv, StrtokStaleInv
  <2>2. CASE DispatchRoot(w) \/ DispatchDir(w)
    BY <2>2, DispatchInv
  <2>3. CASE SearchMiss(w) \/ SearchHit(w)
    BY <2>3, SearchMissInv, SearchHitInv
  <2>4. CASE FoundAnswer(w) \/ FoundDir(w)
    BY <2>4, FoundInv
  <2>5. CASE CountStart(w) \/ CountNext(w) \/ CountEnd(w)
    BY <2>5, CountStartInv, CountNextInv, CountEndInv
  <2>6. CASE CountBadLookup(w) \/ CountBadList(w)
    BY <2>6, CountBadInv
  <2>7. CASE \/ Seek(w) \/ Fread(w)
             \/ FreadShort(w) \/ FreadShortLookup(w) \/ FreadShortList(w)
    BY <2>7, SeekInv, FreadInv, FreadShortInv
  <2>8. CASE LoadedSearch(w) \/ LoadedList(w)
    BY <2>8, LoadedSearchInv, LoadedListInv
  <2>9. CASE ReadStart(w) \/ ReadSeek(w) \/ ReadFread(w)
    BY <2>9, ReadStartInv, ReadSeekInv, ReadFreadInv
  <2>10. CASE ReadShort(w) \/ ReadDone(w)
    BY <2>10, ReadReturnsInv
  <2> QED
    BY <1>3, <2>1, <2>2, <2>3, <2>4, <2>5, <2>6, <2>7, <2>8, <2>9, <2>10
       DEF Handle
<1> QED
  BY <1>1, <1>2, <1>3 DEF Next

LEMMA InvariantHolds == Spec => []IInv
BY InitInv, NextInv, PTL DEF Spec

\* Type correctness, for every image, path set and number of workers: no
\* interleaving of the handlers gives a variable or a local a value outside
\* the structure fat.h and main.c declare for it.
THEOREM TypesHold == Spec => []TypeOK
<1>1. IInv => TypeOK
  BY DEF IInv, SharedType, TypeOK
<1> QED
  BY <1>1, InvariantHolds, PTL

\* However many workers race on strtok and on the file position, and however
\* corrupt the image, get_dir and fat_readdir free each directory buffer at
\* most once and lose one only where a lookup below the root misses or a read
\* of a directory is short.
THEOREM BuffersAreOwned == Spec => []BufferOwnership
<1>1. IInv => BufferOwnership
  BY DEF IInv, Owns, BufferOwnership
<1> QED
  BY <1>1, InvariantHolds, PTL

\* read_dir_entries writes inside the buffer it allocated: cluster i goes to
\* dir_t i .. i + n_entries - 1, and i < n_cluster.
THEOREM BuffersAreBounded == Spec => []BufferBounds
<1>1. IInv => BufferBounds
  <2> SUFFICES ASSUME IInv, NEW w \in Workers, th[w].pc = "fread",
                      NEW k \in 1 .. ClusterSize
               PROVE  ReadTarget(th[w]) + k \in DOMAIN th[w].dir
    BY DEF BufferBounds
  <2> DEFINE n == th[w].n
             i == th[w].i
  <2>1. /\ n \in Nat /\ i \in Nat /\ i < n
        /\ DOMAIN th[w].dir = 1 .. n * ClusterSize
    BY DEF IInv, Shape, Local
  <2>2. ClusterSize \in Nat \ {0}
    BY VolumeAssumption
  <2> HIDE DEF n, i
  <2>3. i + k \in 1 .. n * ClusterSize
    <3>1. (n - 1) * ClusterSize >= n - 1
      BY <2>1, <2>2
    <3>2. n * ClusterSize = (n - 1) * ClusterSize + ClusterSize
      BY <2>1, <2>2
    <3> QED
      BY <2>1, <2>2, <3>1, <3>2
  <2> QED
    BY <2>1, <2>3 DEF ReadTarget, i
<1> QED
  BY <1>1, InvariantHolds, PTL

(***************************************************************************)
(* With one worker, fuse_main -s, the position of ff->fp and the pointer   *)
(* inside strtok are as private as locals.                                 *)
(***************************************************************************)
\* A handler that has called fseek finds the position where it left it when it
\* calls fread, and one that has called strtok finds its own string there when
\* it calls strtok again.
SharedStateHeld ==
  \A w \in Workers :
    /\ th[w].pc \in {"fread", "rdread"} => fpos = SlotOf(th[w].clus)
    /\ th[w].pc = "tok" => strtokp.own = w /\ strtokp.live

Held(t, w) ==
  /\ t.pc \in {"fread", "rdread"} => fpos = SlotOf(t.clus)
  /\ t.pc = "tok" => strtokp.own = w /\ strtokp.live

LEMMA SerialStep ==
  ASSUME NEW w, Workers = {w}, IInv, SharedStateHeld, [Next]_vars
  PROVE  SharedStateHeld'
<1>1. th[w] \in Local /\ w \in Workers
  BY DEF IInv
<1> SUFFICES Held(th[w], w)'
  BY DEF SharedStateHeld, Held
<1>2. Held(th[w], w)
  BY DEF SharedStateHeld, Held
<1>3. CASE UNCHANGED vars
  BY <1>2, <1>3 DEF vars, Held
<1>4. CASE th'[w].pc \notin {"fread", "rdread", "tok"}
  BY <1>4 DEF Held
<1>5. ASSUME NEW a, NEW f, Finish(w, a, f)
      PROVE  th'[w].pc = "idle"
  <2>1. th'[w] = Returned(th[w], a, f)
    BY <1>1, <1>5 DEF Finish
  <2> QED
    BY <2>1 DEF Returned, Fresh
<1>6. CASE Submit(w)
  <2>1. PICK r \in Inputs : th' = [th EXCEPT ![w] =
            [Fresh(r) EXCEPT !.pc = IF r.op = "read" THEN "rd0" ELSE "tok0"]]
    BY <1>6 DEF Submit
  <2>2. th'[w] = [Fresh(r) EXCEPT !.pc = IF r.op = "read" THEN "rd0" ELSE "tok0"]
    BY <1>1, <2>1 DEF IInv
  <2>3. th'[w].pc \in {"rd0", "tok0"}
    BY <2>2 DEF Fresh
  <2> QED
    BY <1>4, <2>3
<1>7. CASE Abort
  BY <1>2, <1>7 DEF Abort, Held
<1>8. CASE StrtokFirst(w)
  <2>1. strtokp'.own = w /\ strtokp'.live /\ th'[w].pc \in {"tok", "dispatch"}
    BY <1>1, <1>8 DEF StrtokFirst, IInv, Local
  <2> QED
    BY <2>1 DEF Held
<1>9. CASE StrtokNext(w)
  <2>1. strtokp'.own = strtokp.own /\ strtokp'.live
    BY <1>9 DEF StrtokNext, IInv, SharedType
  <2>2. th[w].pc = "tok" /\ th'[w].pc \in {"tok", "dispatch"}
    BY <1>1, <1>9 DEF StrtokNext, IInv, Local
  <2> QED
    BY <1>2, <2>1, <2>2 DEF Held
<1>10. CASE StrtokStale(w)
  BY <1>2, <1>10 DEF StrtokStale, Held
<1>11. CASE Seek(w) \/ ReadSeek(w)
  <2>1. /\ fpos' = SlotOf(th[w].clus) /\ th'[w].clus = th[w].clus
        /\ th'[w].pc \in {"fread", "rdread"}
    BY <1>1, <1>11 DEF Seek, ReadSeek, IInv, Local
  <2> QED
    BY <2>1 DEF Held
<1>12. CASE \/ DispatchRoot(w) \/ SearchMiss(w) \/ FoundAnswer(w)
            \/ CountBadLookup(w) \/ LoadedList(w) \/ FreadShortLookup(w)
  <2>1. th'[w].pc = "idle"
    BY <1>5, <1>12 DEF DispatchRoot, SearchMiss, FoundAnswer, CountBadLookup,
                       LoadedList, FreadShortLookup
  <2> QED
    BY <1>4, <2>1
<1>13. CASE \/ CountBadList(w) \/ FreadShortList(w)
            \/ ReadShort(w) \/ ReadDone(w)
  <2>1. PICK a : th' = [th EXCEPT ![w] = Returned(th[w], a, 0)]
    BY <1>13 DEF CountBadList, FreadShortList, ReadShort, ReadDone
  <2>2. th'[w].pc = "idle"
    BY <1>1, <2>1 DEF Returned, Fresh, IInv
  <2> QED
    BY <1>4, <2>2
<1>14. CASE ReadStart(w)
  <2>1. th'[w].pc \in {"idle", "rdseek"}
    BY <1>1, <1>14 DEF ReadStart, Returned, Fresh, IInv, Local
  <2> QED
    BY <1>4, <2>1
<1>15. CASE \/ DispatchDir(w) \/ SearchHit(w) \/ FoundDir(w) \/ CountNext(w)
            \/ CountEnd(w) \/ Fread(w) \/ LoadedSearch(w) \/ ReadFread(w)
            \/ (CountStart(w) /\ ~ Abort)
  <2>1. CASE DispatchDir(w) \/ FoundDir(w) \/ LoadedSearch(w)
    BY <1>1, <1>4, <2>1 DEF DispatchDir, FoundDir, LoadedSearch, IInv, Local
  <2>2. CASE SearchHit(w)
    BY <1>1, <1>4, <2>2 DEF SearchHit, IInv, Local
  <2>3. CASE CountNext(w)
    BY <1>1, <1>4, <2>3 DEF CountNext, IInv, Local
  <2>4. CASE CountEnd(w)
    <3>1. PICK d, h, c : th' = [th EXCEPT ![w].pc = "seek", ![w].held = h,
                                  ![w].i = 0, ![w].clus = c, ![w].dir = d]
      BY <2>4 DEF CountEnd
    <3>2. th'[w].pc = "seek"
      BY <1>1, <3>1 DEF IInv, Local
    <3> QED
      BY <1>4, <3>2
  <2>5. CASE Fread(w)
    <3> DEFINE d == [k \in DOMAIN th[w].dir |->
                       IF k - ReadTarget(th[w]) \in 1 .. ClusterSize
                       THEN vol.disk[fpos + k - ReadTarget(th[w])]
                       ELSE th[w].dir[k]]
               j == th[w].i + 1
               p == IF j = th[w].n THEN "loaded" ELSE "seek"
    <3>1. PICK x \in FatDir(vol, th[w].clus) :
            th' = [th EXCEPT ![w].dir = d, ![w].clus = NextOf(x),
                             ![w].i = j, ![w].pc = p]
      BY <2>5 DEF Fread
    <3> HIDE DEF d, j
    <3>2. th'[w].pc = p
      BY <1>1, <3>1 DEF IInv, Local
    <3> QED
      BY <1>4, <3>2
  <2>6. CASE ReadFread(w)
    <3>1. PICK g, c :
            th' = [th EXCEPT ![w].got = g, ![w].clus = c, ![w].pc = "rdseek"]
      BY <2>6 DEF ReadFread
    <3>2. th'[w].pc = "rdseek"
      BY <1>1, <3>1 DEF IInv, Local
    <3> QED
      BY <1>4, <3>2
  <2>7. CASE CountStart(w) /\ ~ Abort
    BY <1>1, <1>4, <2>7 DEF CountStart, IInv, Local
  <2> QED
    BY <1>15, <2>1, <2>2, <2>3, <2>4, <2>5, <2>6, <2>7
<1>16. FreadShort(w) => Abort
  BY DEF FreadShort
<1> QED
  BY <1>3, <1>6, <1>7, <1>8, <1>9, <1>10, <1>11, <1>12, <1>13, <1>14, <1>15,
     <1>16 DEF Next, Handle

\* Mounted with -s, as run.sh does, every fread follows its own fseek and
\* every strtok(NULL) its own strtok(path), on any image and for any requests.
LEMMA SerialMountIsSafe ==
  ASSUME NEW w, Workers = {w}
  PROVE  Spec => []SharedStateHeld
<1>1. Init => SharedStateHeld
  BY DEF Init, SharedStateHeld, Fresh
<1>2. IInv /\ SharedStateHeld /\ [Next]_vars => SharedStateHeld'
  BY SerialStep
<1> QED
  BY <1>1, <1>2, InvariantHolds, PTL DEF Spec

(***************************************************************************)
(* The chain of clusters that FatFsSpec reads off the table.               *)
(***************************************************************************)
Next1(v, s) == v.fat[s[Len(s)]]
Longer(v, s) == IF s # <<>> /\ Fs!DataCluster(v, Next1(v, s))
                THEN Append(s, Next1(v, s)) ELSE s
First1(v, c) == IF Fs!DataCluster(v, c) THEN <<c>> ELSE <<>>

LEMMA LongerType ==
  ASSUME NEW v \in Volumes, NEW s \in Seq(DOMAIN v.fat)
  PROVE  Longer(v, s) \in Seq(DOMAIN v.fat)
<1> DEFINE D == DOMAIN v.fat
           x == Next1(v, s)
<1>1. CASE s # <<>> /\ Fs!DataCluster(v, x)
  <2>1. x \in D
    BY <1>1 DEF Fs!DataCluster
  <2>2. Longer(v, s) = Append(s, x)
    BY <1>1 DEF Longer
  <2> HIDE DEF D, x
  <2> QED
    BY <2>1, <2>2 DEF D
<1>2. CASE ~ (s # <<>> /\ Fs!DataCluster(v, x))
  BY <1>2 DEF Longer
<1> QED
  BY <1>1, <1>2

LEMMA ChainWalk ==
  ASSUME NEW v \in Volumes, NEW c
  PROVE  \E walk \in [Nat -> Seq(DOMAIN v.fat)] :
           /\ Fs!Chain(v, c) = walk[Len(v.disk)]
           /\ walk[0] = First1(v, c)
           /\ \A k \in Nat : walk[k + 1] = Longer(v, walk[k])
<1> DEFINE S == Seq(DOMAIN v.fat)
           Walk(f) == [k \in Nat |->
             IF k = 0 THEN IF Fs!DataCluster(v, c) THEN <<c>> ELSE <<>>
             ELSE LET s == f[k - 1] IN
                  IF s # <<>> /\ Fs!DataCluster(v, v.fat[s[Len(s)]])
                  THEN Append(s, v.fat[s[Len(s)]]) ELSE s]
           Step == [p \in Nat \X S |-> Longer(v, p[2])]
           W == CHOOSE f : f = Walk(f)
<1>1. Fs!Chain(v, c) = W[Len(v.disk)]
  BY DEF Fs!Chain
<1>2. First1(v, c) \in S
  <2> DEFINE D == DOMAIN v.fat
  <2>1. Fs!DataCluster(v, c) => c \in D
    BY DEF Fs!DataCluster
  <2> HIDE DEF D
  <2>2. First1(v, c) \in Seq(D)
    BY <2>1 DEF First1
  <2> QED
    BY <2>2 DEF D
<1>3. Step \in [Nat \X S -> S]
  BY LongerType
<1>4. PICK g : Iterated(g, S, First1(v, c), Step)
  <2>1. Steps(S, First1(v, c), Step)
    BY <1>2, <1>3 DEF Steps
  <2> QED
    BY <2>1, Iterates
<1>5. \A f : Walk(f) = [k \in Nat |-> IF k = 0 THEN First1(v, c) ELSE Longer(v, f[k - 1])]
  BY DEF First1, Longer, Next1
<1>6. g = Walk(g)
  <2>1. ASSUME NEW k \in Nat
        PROVE  g[k] = IF k = 0 THEN First1(v, c) ELSE Longer(v, g[k - 1])
    <3>1. CASE k = 0
      BY <1>4, <3>1 DEF Iterated
    <3>2. CASE k # 0
      <4>1. k - 1 \in Nat /\ g[k - 1] \in S
        BY <1>4, <3>2 DEF Iterated
      <4>2. g[(k - 1) + 1] = Step[<<k - 1, g[k - 1]>>]
        BY <1>4, <4>1 DEF Iterated
      <4>3. Step[<<k - 1, g[k - 1]>>] = Longer(v, g[k - 1])
        BY <4>1
      <4> QED
        BY <3>2, <4>2, <4>3
    <3> QED
      BY <3>1, <3>2
  <2>2. g = [k \in Nat |-> g[k]]
    BY <1>4 DEF Iterated
  <2> QED
    BY <1>5, <2>1, <2>2
<1>7. W = Walk(W)
  <2> HIDE DEF Walk
  <2> QED
    BY <1>6
<1> HIDE DEF W, Walk
<1>8. W = [k \in Nat |-> IF k = 0 THEN First1(v, c) ELSE Longer(v, W[k - 1])]
  BY <1>5, <1>7
<1>9. W[0] = First1(v, c) /\ \A k \in Nat : W[k + 1] = Longer(v, W[k])
  BY <1>8
<1>10. \A k \in Nat : W[k] \in S
  <2> DEFINE X == {k \in Nat : W[k] \in S}
  <2>1. 0 \in X
    BY <1>2, <1>9
  <2>2. ASSUME NEW n \in Nat, n \in X
        PROVE  n + 1 \in X
    BY <1>9, <2>2, LongerType
  <2> HIDE DEF X
  <2>3. \A n \in Nat : n \in X
    BY <2>1, <2>2, Induction
  <2> QED
    BY <2>3 DEF X
<1>11. W \in [Nat -> S]
  BY <1>8, <1>10
<1> QED
  BY <1>1, <1>9, <1>11

\* A chain is the file's clusters in the order of the table.
IsChain(v, c, s) ==
  /\ s \in Seq(DOMAIN v.fat)
  /\ s # <<>> <=> Fs!DataCluster(v, c)
  /\ s # <<>> => s[1] = c
  /\ \A k \in 1 .. Len(s) : Fs!DataCluster(v, s[k])
  /\ \A k \in 1 .. Len(s) - 1 : s[k + 1] = v.fat[s[k]]

LEMMA AppendFacts ==
  ASSUME NEW D, NEW s \in Seq(D), NEW x \in D
  PROVE  /\ Append(s, x) \in Seq(D) /\ Append(s, x) # <<>>
         /\ Len(s) \in Nat /\ Len(Append(s, x)) = Len(s) + 1
         /\ Append(s, x)[Len(s) + 1] = x
         /\ \A k \in 1 .. Len(s) : Append(s, x)[k] = s[k]
OBVIOUS

LEMMA ChainGrows ==
  ASSUME NEW v \in Volumes, NEW c, NEW s, IsChain(v, c, s), s # <<>>,
         NEW x, x = v.fat[s[Len(s)]], Fs!DataCluster(v, x)
  PROVE  IsChain(v, c, Append(s, x))
<1> DEFINE D == DOMAIN v.fat
<1>1. s \in Seq(D) /\ x \in D
  BY DEF IsChain, Fs!DataCluster
<1> HIDE DEF D
<1>2. PICK m \in Nat : m = Len(s) /\ m > 0
  BY <1>1
<1>3. PICK t : /\ t = Append(s, x) /\ t \in Seq(D) /\ t # <<>>
               /\ Len(t) = m + 1 /\ t[m + 1] = x
               /\ \A k \in 1 .. m : t[k] = s[k]
  <2> DEFINE a == Append(s, x)
  <2>1. /\ a \in Seq(D) /\ a # <<>> /\ Len(a) = Len(s) + 1
        /\ a[Len(s) + 1] = x /\ \A k \in 1 .. Len(s) : a[k] = s[k]
    BY <1>1, AppendFacts
  <2>2. /\ a = Append(s, x) /\ a \in Seq(D) /\ a # <<>>
        /\ Len(a) = m + 1 /\ a[m + 1] = x /\ \A k \in 1 .. m : a[k] = s[k]
    BY <1>2, <2>1
  <2> HIDE DEF a
  <2> QED
    BY <2>2
<1>4. /\ s[1] = c /\ Fs!DataCluster(v, c)
      /\ \A k \in 1 .. m : Fs!DataCluster(v, s[k])
      /\ \A k \in 1 .. m - 1 : s[k + 1] = v.fat[s[k]]
  BY <1>2 DEF IsChain
<1>5. ASSUME NEW k \in 1 .. m + 1
      PROVE  Fs!DataCluster(v, t[k])
  <2>1. k \in 1 .. m \/ k = m + 1
    BY <1>2
  <2> QED
    BY <1>3, <1>4, <2>1
<1>6. ASSUME NEW k \in 1 .. m
      PROVE  t[k + 1] = v.fat[t[k]]
  <2>1. CASE k = m
    BY <1>2, <1>3, <2>1
  <2>2. CASE k # m
    <3>1. k \in 1 .. m - 1 /\ k + 1 \in 1 .. m
      BY <1>2, <2>2
    <3> QED
      BY <1>3, <1>4, <3>1
  <2> QED
    BY <2>1, <2>2
<1>7. t[1] = c /\ Len(t) - 1 = m
  BY <1>2, <1>3, <1>4
<1> QED
  BY <1>3, <1>4, <1>5, <1>6, <1>7 DEF IsChain, D

LEMMA ChainIsChain ==
  ASSUME NEW v \in Volumes, NEW c
  PROVE  IsChain(v, c, Fs!Chain(v, c))
<1>1. PICK walk \in [Nat -> Seq(DOMAIN v.fat)] :
           /\ Fs!Chain(v, c) = walk[Len(v.disk)]
           /\ walk[0] = First1(v, c)
           /\ \A k \in Nat : walk[k + 1] = Longer(v, walk[k])
  BY ChainWalk
<1> DEFINE X == {k \in Nat : IsChain(v, c, walk[k])}
<1>2. 0 \in X
  <2>1. CASE Fs!DataCluster(v, c)
    <3>1. walk[0] = <<c>> /\ walk[0] \in Seq(DOMAIN v.fat)
      BY <1>1, <2>1 DEF First1
    <3>2. <<c>> # <<>> /\ Len(<<c>>) = 1 /\ <<c>>[1] = c /\ 1 .. 1 = {1}
      OBVIOUS
    <3>3. IsChain(v, c, walk[0])
      BY <2>1, <3>1, <3>2 DEF IsChain
    <3> QED
      BY <3>3
  <2>2. CASE ~ Fs!DataCluster(v, c)
    <3>1. walk[0] = <<>> /\ walk[0] \in Seq(DOMAIN v.fat)
      BY <1>1, <2>2 DEF First1
    <3>2. IsChain(v, c, walk[0])
      BY <2>2, <3>1 DEF IsChain
    <3> QED
      BY <3>2
  <2> QED
    BY <2>1, <2>2
<1>3. ASSUME NEW n \in Nat, n \in X
      PROVE  n + 1 \in X
  <2> DEFINE s == walk[n]
             x == Next1(v, s)
  <2>1. IsChain(v, c, s)
    BY <1>3
  <2>2. CASE s # <<>> /\ Fs!DataCluster(v, x)
    <3>1. walk[n + 1] = Append(s, x)
      BY <1>1, <2>2 DEF Longer
    <3>2. IsChain(v, c, Append(s, x))
      BY <2>1, <2>2, ChainGrows DEF Next1
    <3>3. IsChain(v, c, walk[n + 1])
      BY <3>1, <3>2
    <3> HIDE DEF s, x
    <3> QED
      BY <3>3
  <2>3. CASE ~ (s # <<>> /\ Fs!DataCluster(v, x))
    BY <1>1, <2>1, <2>3 DEF Longer
  <2> QED
    BY <2>2, <2>3
<1> HIDE DEF X
<1>4. \A n \in Nat : n \in X
  BY <1>2, <1>3, Induction
<1>5. Len(v.disk) \in Nat
  BY VolumeType
<1> QED
  BY <1>1, <1>4, <1>5 DEF X

(***************************************************************************)
(* The two walks of a chain, by any number of workers at once: where a     *)
(* worker is on the chain of the entry it holds, if that can be counted.   *)
(***************************************************************************)
OnChain(v, t, k) ==
  LET ch == Fs!Chain(v, t.rval.clus) IN k \in 1 .. Len(ch) /\ t.clus = ch[k]

Walking(v, t) ==
  Countable(v, t.rval.clus) =>
    /\ t.pc = "count" => OnChain(v, t, t.n)
    /\ t.pc \in {"seek", "fread"} =>
         t.n = Len(Fs!Chain(v, t.rval.clus)) /\ OnChain(v, t, t.i + 1)
WalkInv == \A w \in Workers : Walking(vol, th[w])

LEMMA ChainFacts ==
  ASSUME NEW v \in Volumes, NEW c, Readable(v, c)
  PROVE  LET ch == Fs!Chain(v, c) IN
         /\ Len(ch) \in Nat /\ Len(ch) >= 1 /\ ch[1] = c
         /\ \A k \in 1 .. Len(ch) :
              /\ ch[k] \in DOMAIN v.fat /\ ch[k] \in Nat /\ ch[k] >= 2 /\ ch[k] < BadClus
              /\ SlotOf(ch[k]) + ClusterSize <= Len(v.disk)
         /\ \A k \in 1 .. Len(ch) - 1 : v.fat[ch[k]] = ch[k + 1]
         /\ ~ ValidCluster(v.fat[ch[Len(ch)]])
<1> DEFINE ch == Fs!Chain(v, c)
<1>1. IsChain(v, c, ch)
  BY ChainIsChain
<1>2. /\ ch # <<>> /\ ~ ValidCluster(v.fat[ch[Len(ch)]])
      /\ \A k \in DOMAIN ch : ch[k] < BadClus /\ (ch[k] - 1) * ClusterSize <= Len(v.disk)
  BY DEF Readable, LastValue
<1> HIDE DEF ch
<1>3. ch \in Seq(DOMAIN v.fat)
  BY <1>1 DEF IsChain
<1>4. Len(ch) \in Nat /\ Len(ch) >= 1 /\ DOMAIN ch = 1 .. Len(ch)
  BY <1>2, <1>3
<1>5. DOMAIN v.fat \subseteq Nat
  BY VolumeAssumption DEF IsVolume
<1>6. \A k \in 1 .. Len(ch) : ch[k] \in DOMAIN v.fat /\ ch[k] \in Nat /\ ch[k] >= 2
  BY <1>1, <1>5 DEF IsChain, Fs!DataCluster
<1>7. \A x \in Nat : (x - 1) * ClusterSize = SlotOf(x) + ClusterSize
  BY VolumeAssumption DEF SlotOf, SlotFrom
<1>8. \A k \in 1 .. Len(ch) : SlotOf(ch[k]) + ClusterSize <= Len(v.disk)
  BY <1>2, <1>4, <1>6, <1>7
<1> QED
  BY <1>1, <1>2, <1>4, <1>6, <1>8 DEF IsChain, ch

LEMMA OtherWorkers ==
  ASSUME IInv, NEW w \in Workers, Submit(w) \/ Handle(w),
         NEW u \in Workers, u # w
  PROVE  vol' = vol /\ \E p : th'[u] = [th[u] EXCEPT !.plist = p]
<1>1. th[u] \in Local /\ th \in [Workers -> Local]
  BY DEF IInv
<1>2. th[u] = [th[u] EXCEPT !.plist = th[u].plist]
  BY <1>1 DEF Local
<1>3. ASSUME th'[u] = th[u]
      PROVE  \E p : th'[u] = [th[u] EXCEPT !.plist = p]
  BY <1>2, <1>3
<1>4. ASSUME NEW t, th' = [th EXCEPT ![w] = t]
      PROVE  th'[u] = th[u]
  BY <1>1, <1>4
<1>5. ASSUME NEW a, NEW f, Finish(w, a, f)
      PROVE  \E p : th'[u] = [th[u] EXCEPT !.plist = p]
  BY <1>5 DEF Finish
<1>6. vol' = vol
  BY DEF Submit, Handle, StrtokFirst, StrtokNext, StrtokStale, Abort,
     DispatchRoot, DispatchDir, SearchMiss, SearchHit, FoundAnswer, FoundDir,
     CountStart, CountNext, CountEnd, CountBadLookup, CountBadList, Seek, Fread,
     FreadShort, FreadShortLookup, FreadShortList, LoadedSearch, LoadedList,
     ReadStart, ReadSeek, ReadFread, ReadShort, ReadDone
<1>7. CASE Abort
  BY <1>3, <1>7 DEF Abort
<1>8. CASE Submit(w) \/ StrtokFirst(w) \/ StrtokNext(w) \/ (StrtokStale(w) /\ ~ Abort)
  BY <1>1, <1>3, <1>8 DEF Submit, StrtokFirst, StrtokNext, StrtokStale
<1>9. CASE DispatchRoot(w) \/ SearchMiss(w) \/ FoundAnswer(w) \/ CountBadLookup(w)
           \/ LoadedList(w) \/ FreadShortLookup(w)
  BY <1>5, <1>9 DEF DispatchRoot, SearchMiss, FoundAnswer, CountBadLookup,
                    LoadedList, FreadShortLookup
<1>10. CASE DispatchDir(w) \/ SearchHit(w) \/ FoundDir(w) \/ (CountStart(w) /\ ~ Abort)
            \/ CountNext(w) \/ CountEnd(w) \/ CountBadList(w)
  BY <1>1, <1>3, <1>10 DEF DispatchDir, SearchHit, FoundDir, CountStart, CountNext,
                           CountEnd, CountBadList
<1>11. CASE Seek(w) \/ Fread(w) \/ LoadedSearch(w) \/ FreadShortList(w)
  BY <1>1, <1>3, <1>11 DEF Seek, Fread, LoadedSearch, FreadShortList
<1>12. CASE ReadStart(w) \/ ReadSeek(w) \/ ReadFread(w) \/ ReadShort(w) \/ ReadDone(w)
  BY <1>1, <1>3, <1>12 DEF ReadStart, ReadSeek, ReadFread, ReadShort, ReadDone
<1>13. FreadShort(w) => Abort
  BY DEF FreadShort
<1> QED
  BY <1>6, <1>7, <1>8, <1>9, <1>10, <1>11, <1>12, <1>13 DEF Handle

\* The new local state of the worker that moves, field by field.
LEMMA Moved ==
  ASSUME IInv, NEW w \in Workers, NEW t, th' = [th EXCEPT ![w] = t]
  PROVE  th'[w] = t
BY DEF IInv

LEMMA FatDirType ==
  ASSUME IInv, NEW c, NEW x \in FatDir(vol, c)
  PROVE  x \in U16 /\ x \in Int /\ (c \in DOMAIN vol.fat => x = vol.fat[c])
<1>1. vol \in Volumes
  BY DEF IInv, SharedType
<1>2. x \in U16
  BY <1>1, VolumeType
<1> QED
  BY <1>2 DEF U16, FatDir

LEMMA CountSteps ==
  ASSUME IInv, NEW w \in Workers, Walking(vol, th[w]),
         Countable(vol, th[w].rval.clus),
         (CountStart(w) /\ ~ Abort) \/ CountNext(w) \/ CountEnd(w)
  PROVE  Walking(vol, th'[w])
<1> DEFINE t == th[w]
           c == t.rval.clus
           ch == Fs!Chain(vol, c)
<1>1. t \in Local /\ vol \in Volumes /\ t.rval \in Entry
  BY DEF IInv, SharedType, Local
<1>3. Len(ch) <= MaxCount
  BY DEF Countable
<1>4. /\ Len(ch) \in Nat /\ Len(ch) >= 1 /\ ch[1] = c
      /\ \A k \in 1 .. Len(ch) : ch[k] \in DOMAIN vol.fat /\ ch[k] < BadClus
      /\ \A k \in 1 .. Len(ch) - 1 : vol.fat[ch[k]] = ch[k + 1]
      /\ vol.fat[ch[Len(ch)]] > BadClus
  BY <1>1, ChainFacts DEF Countable, LastValue
<1> HIDE DEF ch
<1>5. CASE CountStart(w) /\ ~ Abort
  <2>1. th' = [th EXCEPT ![w].pc = "count", ![w].n = 1, ![w].clus = c]
    BY <1>5 DEF CountStart
  <2> DEFINE u == [t EXCEPT !.pc = "count", !.n = 1, !.clus = c]
  <2>2. th'[w] = u
    BY <2>1 DEF IInv
  <2>3. u.pc = "count" /\ u.n = 1 /\ u.clus = c /\ u.rval = t.rval
    BY <1>1 DEF Local
  <2>4. OnChain(vol, u, 1)
    BY <1>4, <2>1, <2>3 DEF OnChain, ch
  <2> HIDE DEF u
  <2> QED
    BY <2>2, <2>3, <2>4 DEF Walking
<1>6. CASE CountNext(w)
  <2>1. PICK x \in FatDir(vol, t.clus) :
          /\ x < BadClus
          /\ th' = [th EXCEPT ![w].clus = x,
                              ![w].n = IF @ < MaxCount THEN @ + 1 ELSE @]
    BY <1>6 DEF CountNext
  <2>2. t.n \in 1 .. Len(ch) /\ t.clus = ch[t.n] /\ t.pc = "count"
    BY <1>6 DEF CountNext, Walking, OnChain, ch
  <2>3. x = vol.fat[ch[t.n]]
    BY <1>4, <2>1, <2>2 DEF FatDir
  <2>4. t.n \in 1 .. Len(ch) - 1 /\ x = ch[t.n + 1]
    <3>1. x \in Int /\ x < BadClus
      <4>1. x < BadClus
        BY <2>1
      <4> QED
        BY <4>1, FatDirType
    <3>2. t.n # Len(ch)
      BY <1>4, <2>2, <2>3, <3>1 DEF BadClus
    <3> QED
      BY <1>4, <2>2, <2>3, <3>2
  <2> DEFINE u == [t EXCEPT !.clus = x, !.n = t.n + 1]
  <2>5. th'[w] = u
    <3>1. t.n < MaxCount
      BY <1>3, <1>4, <2>2, <2>4, RequestAssumption
    <3> QED
      BY <2>1, <3>1 DEF IInv
  <2>6. u.pc = "count" /\ u.n = t.n + 1 /\ u.clus = x /\ u.rval = t.rval
    BY <1>1, <2>2 DEF Local
  <2>7. OnChain(vol, u, u.n)
    BY <1>4, <2>2, <2>4, <2>6 DEF OnChain, ch
  <2> HIDE DEF u
  <2> QED
    BY <2>5, <2>6, <2>7 DEF Walking
<1>7. CASE CountEnd(w)
  <2>1. PICK x \in FatDir(vol, t.clus), junk \in Leftovers :
          /\ x > BadClus
          /\ th' = [th EXCEPT ![w].pc = "seek", ![w].held = @ + 1, ![w].i = 0,
                     ![w].clus = c, ![w].dir = [k \in 1 .. t.n * ClusterSize |-> junk]]
    BY <1>7 DEF CountEnd
  <2>2. t.n \in 1 .. Len(ch) /\ t.clus = ch[t.n] /\ t.pc = "count"
    BY <1>7 DEF CountEnd, Walking, OnChain, ch
  <2>3. x = vol.fat[ch[t.n]]
    BY <1>4, <2>1, <2>2 DEF FatDir
  <2>4. t.n = Len(ch)
    <3>1. ASSUME t.n # Len(ch)
          PROVE  FALSE
      <4>1. t.n \in 1 .. Len(ch) - 1 /\ t.n + 1 \in 1 .. Len(ch)
        BY <1>4, <2>2, <3>1
      <4>2. x = ch[t.n + 1] /\ x < BadClus
        BY <1>4, <2>2, <2>3, <4>1
      <4>3. x \in Int /\ x > BadClus
        <5>1. x > BadClus
          BY <2>1
        <5> QED
          BY <5>1, FatDirType
      <4> QED
        BY <4>2, <4>3 DEF BadClus
    <3> QED
      BY <3>1
  <2> DEFINE d == [k \in 1 .. t.n * ClusterSize |-> junk]
             u == [t EXCEPT !.pc = "seek", !.held = t.held + 1, !.i = 0, !.clus = c,
                            !.dir = d]
  <2> HIDE DEF d
  <2>6. th'[w] = u
    BY <2>1 DEF IInv, d
  <2>7. u.pc = "seek" /\ u.n = t.n /\ u.i = 0 /\ u.clus = c /\ u.rval = t.rval /\ u.dir = d
    BY <1>1 DEF Local
  <2>8. OnChain(vol, u, 1)
    BY <1>4, <2>2, <2>7 DEF OnChain, ch
  <2> HIDE DEF u
  <2> QED
    BY <2>4, <2>6, <2>7, <2>8 DEF Walking, ch
<1> QED
  BY <1>5, <1>6, <1>7

LEMMA SeekStep ==
  ASSUME IInv, NEW w \in Workers, Walking(vol, th[w]), Seek(w)
  PROVE  Walking(vol, th'[w])
<1> DEFINE t == th[w]
           u == [t EXCEPT !.pc = "fread"]
<1>1. t \in Local /\ th'[w] = u /\ t.pc = "seek"
  BY DEF Seek, IInv
<1>2. /\ u.pc = "fread" /\ u.rval = t.rval /\ u.n = t.n
      /\ u.i = t.i /\ u.clus = t.clus
  BY <1>1 DEF Local
<1> HIDE DEF u
<1> QED
  BY <1>1, <1>2 DEF Walking, OnChain

LEMMA FreadStep ==
  ASSUME IInv, NEW w \in Workers, Walking(vol, th[w]),
         Countable(vol, th[w].rval.clus), Fread(w)
  PROVE  Walking(vol, th'[w])
<1> DEFINE t == th[w]
           c == t.rval.clus
           ch == Fs!Chain(vol, c)
           d == [k \in DOMAIN t.dir |->
                   IF k - ReadTarget(t) \in 1 .. ClusterSize
                   THEN vol.disk[fpos + k - ReadTarget(t)] ELSE t.dir[k]]
           p == IF t.i + 1 = t.n THEN "loaded" ELSE "seek"
<1>1. /\ t \in Local /\ vol \in Volumes /\ t.pc = "fread"
      /\ DOMAIN t.dir \subseteq Int /\ fpos \in Int /\ t.i \in Nat /\ t.i < t.n
      /\ ClusterSize \in Nat /\ vol.disk \in Seq(Entry)
  <2>1. t.pc = "fread"
    BY DEF Fread
  <2> QED
    BY <2>1, VolumeAssumption, VolumeType DEF IInv, SharedType, Local, Shape
<1>2. t.n = Len(ch) /\ t.i + 1 \in 1 .. Len(ch) /\ t.clus = ch[t.i + 1]
  BY <1>1 DEF Walking, OnChain
<1>3. Readable(vol, c)
  BY DEF Countable
<1>4. /\ Len(ch) \in Nat
      /\ \A k \in 1 .. Len(ch) : /\ ch[k] \in DOMAIN vol.fat
                                 /\ ch[k] \in Nat /\ ch[k] >= 2 /\ ch[k] < BadClus
      /\ \A k \in 1 .. Len(ch) - 1 : vol.fat[ch[k]] = ch[k + 1]
  BY <1>1, <1>3, ChainFacts
<1>6. PICK x \in FatDir(vol, t.clus) :
        th' = [th EXCEPT ![w].dir = d, ![w].clus = NextOf(x), ![w].i = t.i + 1, ![w].pc = p]
  BY DEF Fread
<1> DEFINE u == [t EXCEPT !.dir = d, !.clus = NextOf(x), !.i = t.i + 1, !.pc = p]
<1> HIDE DEF d
<1>7. th'[w] = u
  BY <1>6 DEF IInv
<1>8. /\ u.dir = d /\ u.clus = NextOf(x) /\ u.i = t.i + 1 /\ u.pc = p
      /\ u.rval = t.rval /\ u.n = t.n
  BY <1>1 DEF Local
<1>9. CASE t.i + 1 = t.n
  <2>1. u.pc = "loaded"
    BY <1>8, <1>9
  <2> HIDE DEF u
  <2> QED
    BY <1>7, <2>1 DEF Walking
<1>10. CASE t.i + 1 # t.n
  <2>1. u.pc = "seek"
    BY <1>8, <1>10
  <2>2. t.i + 1 \in 1 .. Len(ch) - 1 /\ t.i + 2 \in 1 .. Len(ch)
    BY <1>1, <1>2, <1>4, <1>10
  <2>3. x = ch[t.i + 2]
    <3>1. t.clus \in DOMAIN vol.fat
      BY <1>2, <1>4
    <3>2. x = vol.fat[ch[t.i + 1]]
      BY <1>2, <3>1, FatDirType
    <3>3. vol.fat[ch[t.i + 1]] = ch[(t.i + 1) + 1]
      BY <1>4, <2>2
    <3>4. (t.i + 1) + 1 = t.i + 2
      BY <1>1
    <3> QED
      BY <3>2, <3>3, <3>4
  <2>4. NextOf(x) = x
    BY <1>4, <2>2, <2>3 DEF NextOf, BadClus
  <2>5. OnChain(vol, u, u.i + 1)
    BY <1>1, <1>8, <2>2, <2>3, <2>4 DEF OnChain
  <2> HIDE DEF u
  <2> QED
    BY <1>2, <1>7, <1>8, <2>1, <2>5 DEF Walking
<1> QED
  BY <1>9, <1>10

\* The steps after which a worker is on no chain of a directory.
Apart == {"idle", "tok0", "tok", "dispatch", "search", "found", "count0",
          "loaded", "rd0", "rdseek", "rdread"}

LEMMA ApartSteps ==
  ASSUME IInv, NEW w \in Workers,
         \/ Submit(w) \/ StrtokFirst(w) \/ StrtokNext(w) \/ (StrtokStale(w) /\ ~ Abort)
         \/ DispatchRoot(w) \/ SearchMiss(w) \/ FoundAnswer(w)
         \/ CountBadLookup(w) \/ CountBadList(w) \/ LoadedList(w)
         \/ FreadShortLookup(w) \/ FreadShortList(w)
         \/ DispatchDir(w) \/ SearchHit(w) \/ FoundDir(w) \/ LoadedSearch(w)
         \/ ReadStart(w) \/ ReadSeek(w) \/ ReadFread(w) \/ ReadShort(w) \/ ReadDone(w)
  PROVE  th'[w].pc \in Apart
<1>1. th[w] \in Local
  BY DEF IInv
<1>2. CASE Submit(w)
  <2>1. PICK r \in Inputs : th' = [th EXCEPT ![w] =
            [Fresh(r) EXCEPT !.pc = IF r.op = "read" THEN "rd0" ELSE "tok0"]]
    BY <1>2 DEF Submit
  <2>2. th'[w] = [Fresh(r) EXCEPT !.pc = IF r.op = "read" THEN "rd0" ELSE "tok0"]
    BY <2>1, Moved
  <2>3. th'[w].pc \in {"rd0", "tok0"}
    BY <2>2 DEF Fresh
  <2> QED
    BY <2>3 DEF Apart
<1>3. CASE StrtokFirst(w) \/ StrtokNext(w) \/ (StrtokStale(w) /\ ~ Abort)
  <2>1. th'[w].pc \in {"tok", "dispatch"}
    BY <1>1, <1>3 DEF StrtokFirst, StrtokNext, StrtokStale, IInv, Local
  <2> QED
    BY <2>1 DEF Apart
<1>4. CASE \/ DispatchRoot(w) \/ SearchMiss(w) \/ FoundAnswer(w)
           \/ CountBadLookup(w) \/ LoadedList(w) \/ FreadShortLookup(w)
  <2>1. PICK a, f : Finish(w, a, f)
    BY <1>4 DEF DispatchRoot, SearchMiss, FoundAnswer, CountBadLookup,
                LoadedList, FreadShortLookup
  <2>2. th'[w] = Returned(th[w], a, f)
    BY <2>1 DEF Finish
  <2> QED
    BY <2>2 DEF Returned, Fresh, Apart
<1>5. CASE CountBadList(w) \/ FreadShortList(w) \/ ReadShort(w) \/ ReadDone(w)
  <2>1. PICK a : th' = [th EXCEPT ![w] = Returned(th[w], a, 0)]
    BY <1>5 DEF CountBadList, FreadShortList, ReadShort, ReadDone
  <2>2. th'[w].pc = "idle"
    BY <1>1, <2>1 DEF Returned, Fresh, IInv
  <2> QED
    BY <2>2 DEF Apart
<1>6. CASE ReadStart(w)
  <2>1. th'[w].pc \in {"idle", "rdseek"}
    BY <1>1, <1>6 DEF ReadStart, Returned, Fresh, IInv, Local
  <2> QED
    BY <2>1 DEF Apart
<1>7. CASE ReadSeek(w)
  <2>1. th'[w].pc = "rdread"
    BY <1>1, <1>7 DEF ReadSeek, IInv, Local
  <2> QED
    BY <2>1 DEF Apart
<1>8. CASE ReadFread(w)
  <2>1. PICK g, c : th' = [th EXCEPT ![w].got = g, ![w].clus = c, ![w].pc = "rdseek"]
    BY <1>8 DEF ReadFread
  <2>2. th'[w].pc = "rdseek"
    BY <1>1, <2>1 DEF IInv, Local
  <2> QED
    BY <2>2 DEF Apart
<1>9. CASE DispatchDir(w) \/ FoundDir(w) \/ LoadedSearch(w)
  <2>1. th'[w].pc \in {"search", "count0"}
    BY <1>1, <1>9 DEF DispatchDir, FoundDir, LoadedSearch, IInv, Local
  <2> QED
    BY <2>1 DEF Apart
<1>10. CASE SearchHit(w)
  <2> DEFINE t == th[w]
             h == IF t.idx > 1 THEN t.held - 1 ELSE t.held
             p == IF t.idx = Len(t.plist) THEN "found" ELSE "count0"
  <2>1. PICK hit \in SearchDirs(t.dir, t.plist[t.idx].name) \ {0} :
          th' = [th EXCEPT ![w].rval = t.dir[hit], ![w].held = h, ![w].dir = <<>>,
                           ![w].pc = p]
    BY <1>10 DEF SearchHit
  <2>2. p \in {"found", "count0"}
    OBVIOUS
  <2> HIDE DEF h, p
  <2>3. th'[w].pc = p
    BY <1>1, <2>1 DEF IInv, Local
  <2> QED
    BY <2>2, <2>3 DEF Apart
<1> QED
  BY <1>2, <1>3, <1>4, <1>5, <1>6, <1>7, <1>8, <1>9, <1>10

\* No step that counts or reads a directory changes the entry it is of.
LEMMA SameEntry ==
  ASSUME IInv, NEW w \in Workers,
         (CountStart(w) /\ ~ Abort) \/ CountNext(w) \/ CountEnd(w) \/ Fread(w)
  PROVE  th'[w].rval = th[w].rval
<1>1. th[w] \in Local
  BY DEF IInv
<1>2. CASE CountStart(w) /\ ~ Abort
  BY <1>1, <1>2 DEF CountStart, IInv, Local
<1>3. CASE CountNext(w)
  BY <1>1, <1>3 DEF CountNext, IInv, Local
<1>4. CASE CountEnd(w)
  <2>1. PICK h, c, d : th' = [th EXCEPT ![w].pc = "seek", ![w].held = h,
                                ![w].i = 0, ![w].clus = c, ![w].dir = d]
    BY <1>4 DEF CountEnd
  <2> QED
    BY <1>1, <2>1 DEF IInv, Local
<1>5. CASE Fread(w)
  <2> DEFINE d == [k \in DOMAIN th[w].dir |->
                     IF k - ReadTarget(th[w]) \in 1 .. ClusterSize
                     THEN vol.disk[fpos + k - ReadTarget(th[w])]
                     ELSE th[w].dir[k]]
             j == th[w].i + 1
             p == IF j = th[w].n THEN "loaded" ELSE "seek"
  <2>1. PICK x \in FatDir(vol, th[w].clus) :
          th' = [th EXCEPT ![w].dir = d, ![w].clus = NextOf(x),
                           ![w].i = j, ![w].pc = p]
    BY <1>5 DEF Fread
  <2> HIDE DEF d, j, p
  <2> QED
    BY <1>1, <2>1 DEF IInv, Local
<1> QED
  BY <1>2, <1>3, <1>4, <1>5

LEMMA WalkStep ==
  ASSUME IInv, WalkInv, [Next]_vars
  PROVE  WalkInv'
<1> SUFFICES ASSUME NEW u \in Workers
             PROVE  Walking(vol, th[u])'
  BY DEF WalkInv
<1>1. Walking(vol, th[u]) /\ th[u] \in Local
  BY DEF WalkInv, IInv
<1>2. ASSUME vol' = vol, th' = th
      PROVE  Walking(vol, th[u])'
  BY <1>1, <1>2
<1>3. CASE UNCHANGED vars \/ Abort
  BY <1>2, <1>3 DEF vars, Abort
<1>4. ASSUME NEW w \in Workers, Submit(w) \/ Handle(w), ~ Abort
      PROVE  Walking(vol, th[u])'
  <2>1. CASE u # w
    <3>1. vol' = vol /\ \E p : th'[u] = [th[u] EXCEPT !.plist = p]
      BY <1>4, <2>1, OtherWorkers
    <3>2. /\ th'[u].pc = th[u].pc /\ th'[u].dir = th[u].dir /\ th'[u].rval = th[u].rval
          /\ th'[u].clus = th[u].clus /\ th'[u].n = th[u].n /\ th'[u].i = th[u].i
      BY <1>1, <3>1 DEF Local
    <3> QED
      BY <1>1, <3>1, <3>2 DEF Walking, OnChain
  <2>2. CASE u = w
    <3>1. vol' = vol
      BY <1>4 DEF Submit, Handle, StrtokFirst, StrtokNext, StrtokStale, Abort,
         DispatchRoot, DispatchDir, SearchMiss, SearchHit, FoundAnswer, FoundDir,
         CountStart, CountNext, CountEnd, CountBadLookup, CountBadList, Seek, Fread,
         FreadShort, FreadShortLookup, FreadShortList, LoadedSearch, LoadedList,
         ReadStart, ReadSeek, ReadFread, ReadShort, ReadDone
    <3>2. Walking(vol, th'[w])
      <4>1. th'[w].pc \in Apart => Walking(vol, th'[w])
        BY DEF Apart, Walking
      <4>2. CASE ~ Countable(vol, th'[w].rval.clus)
        BY <4>2 DEF Walking
      <4>3. CASE /\ CountStart(w) \/ CountNext(w) \/ CountEnd(w)
                 /\ Countable(vol, th'[w].rval.clus)
        BY <1>1, <1>4, <2>2, <4>3, CountSteps, SameEntry
      <4>4. CASE Seek(w)
        BY <1>1, <2>2, <4>4, SeekStep
      <4>5. CASE Fread(w) /\ Countable(vol, th'[w].rval.clus)
        BY <1>1, <2>2, <4>5, FreadStep, SameEntry
      <4>6. ~ FreadShort(w)
        BY <1>4 DEF FreadShort
      <4>7. CASE \/ Submit(w) \/ StrtokFirst(w) \/ StrtokNext(w) \/ StrtokStale(w)
                 \/ DispatchRoot(w) \/ SearchMiss(w) \/ FoundAnswer(w)
                 \/ CountBadLookup(w) \/ CountBadList(w) \/ LoadedList(w)
                 \/ FreadShortLookup(w) \/ FreadShortList(w)
                 \/ DispatchDir(w) \/ SearchHit(w) \/ FoundDir(w) \/ LoadedSearch(w)
                 \/ ReadStart(w) \/ ReadSeek(w) \/ ReadFread(w) \/ ReadShort(w)
                 \/ ReadDone(w)
        BY <1>4, <4>1, <4>7, ApartSteps
      <4> QED
        BY <1>4, <4>2, <4>3, <4>4, <4>5, <4>6, <4>7 DEF Handle
    <3> QED
      BY <2>2, <3>1, <3>2
  <2> QED
    BY <2>1, <2>2
<1> QED
  BY <1>3, <1>4 DEF Next

LEMMA WalkInitially == Init => WalkInv
BY DEF Init, Fresh, WalkInv, Walking

LEMMA WalkAlways == Spec => []WalkInv
BY WalkInitially, WalkStep, InvariantHolds, PTL DEF Spec

\* On any image, corrupt ones too, counting the clusters of a directory whose
\* chain ends in a mark finds its length, and reading it visits its clusters in
\* order, however many handlers run in between and whatever names and entries
\* their races on strtok and ff->fp make them follow.
THEOREM WalksAgree == Spec => []ChainAgreement
<1>1. WalkInv => ChainAgreement
  BY DEF WalkInv, Walking, OnChain, ChainAgreement
<1> QED
  BY <1>1, WalkAlways, PTL

\* A step that takes the process down leaves a worker on a chain that is empty,
\* broken or out of the image.
LEMMA AbortsStep ==
  ASSUME NEW w, Workers = {w}, IInv, SharedStateHeld, WalkInv, AbortsOnBroken,
         [Next]_vars
  PROVE  AbortsOnBroken'
<1> DEFINE t == th[w]
           c == t.rval.clus
<1>1. t \in Local /\ vol \in Volumes /\ Walking(vol, t) /\ w \in Workers
  BY DEF IInv, SharedType, WalkInv
<1>2. CASE UNCHANGED vars
  <2>1. proc' = proc /\ vol' = vol /\ th' = th
    BY <1>2 DEF vars
  <2> QED
    BY <2>1 DEF AbortsOnBroken
<1>3. ASSUME Abort, ~ Countable(vol, c)
      PROVE  AbortsOnBroken'
  <2>1. vol' = vol /\ th' = th
    BY <1>3 DEF Abort
  <2> QED
    BY <1>1, <1>3, <2>1 DEF AbortsOnBroken
<1>4. ASSUME proc' = "up"
      PROVE  AbortsOnBroken'
  BY <1>4 DEF AbortsOnBroken
<1>5. CASE Submit(w)
  BY <1>4, <1>5 DEF Submit
<1>6. CASE CountStart(w)
  <2>1. ASSUME Countable(vol, c)
        PROVE  c > 1
    <3>1. LET ch == Fs!Chain(vol, c) IN
            Len(ch) >= 1 /\ ch[1] = c /\ \A k \in 1 .. Len(ch) : ch[k] >= 2
      BY <1>1, <2>1, ChainFacts DEF Countable
    <3>2. Len(Fs!Chain(vol, c)) \in Nat
      BY <1>1, <2>1, ChainFacts DEF Countable
    <3>3. 1 \in 1 .. Len(Fs!Chain(vol, c)) /\ c >= 2
      BY <3>1, <3>2
    <3>4. c \in Int
      <4>1. t.rval \in Entry
        BY <1>1 DEF Local
      <4>2. c \in U16
        BY <4>1 DEF Entry
      <4>3. U16 \subseteq Int
        BY DEF U16
      <4> QED
        BY <4>2, <4>3
    <3> QED
      BY <3>3, <3>4
  <2> QED
    BY <1>3, <1>4, <1>6, <2>1 DEF CountStart
<1>7. CASE FreadShort(w)
  <2>1. ASSUME Countable(vol, c)
        PROVE  FALSE
    <3> DEFINE ch == Fs!Chain(vol, c)
               k == t.i + 1
    <3>1. t.pc = "fread" /\ ~ Inside(vol, fpos, ClusterSize)
      BY <1>7 DEF FreadShort
    <3>2. fpos = SlotOf(t.clus)
      BY <1>1, <3>1 DEF SharedStateHeld
    <3>3. k \in 1 .. Len(ch) /\ t.clus = ch[k]
      BY <1>1, <2>1, <3>1 DEF Walking, OnChain
    <3>4. /\ ch[k] \in Nat /\ ch[k] >= 2
          /\ SlotOf(ch[k]) + ClusterSize <= Len(vol.disk)
      <4> HIDE DEF k
      <4> QED
        BY <1>1, <2>1, <3>3, ChainFacts DEF Countable
    <3> HIDE DEF ch, k
    <3>5. ClusterSize \in Nat
      BY VolumeAssumption
    <3>6. SlotOf(ch[k]) >= 0
      BY <3>4, <3>5 DEF SlotOf, SlotFrom
    <3> QED
      BY <3>1, <3>2, <3>3, <3>4, <3>6 DEF Inside
  <2> QED
    BY <1>3, <1>7, <2>1 DEF FreadShort
<1>8. CASE StrtokStale(w)
  BY <1>1, <1>8 DEF StrtokStale, SharedStateHeld
<1>9. CASE Handle(w) /\ ~ (CountStart(w) \/ FreadShort(w) \/ StrtokStale(w))
  <2>1. proc' = "up"
    BY <1>9 DEF Handle, StrtokFirst, StrtokNext, DispatchRoot, DispatchDir,
       SearchMiss, SearchHit, FoundAnswer, FoundDir, CountNext, CountEnd,
       CountBadLookup, CountBadList, Seek, Fread, FreadShortLookup,
       FreadShortList, LoadedSearch, LoadedList, ReadStart, ReadSeek, ReadFread,
       ReadShort, ReadDone
  <2> QED
    BY <1>4, <2>1
<1> QED
  BY <1>2, <1>5, <1>6, <1>7, <1>8, <1>9 DEF Next

\* With one worker and on any image, the process is taken down only by an entry
\* whose chain is empty, broken or leaves the image: never by one that is whole.
THEOREM OnlyBrokenAborts ==
  ASSUME NEW w, Workers = {w}
  PROVE  Spec => []AbortsOnBroken
<1>1. Init => AbortsOnBroken
  BY DEF Init, AbortsOnBroken
<1>2. IInv /\ SharedStateHeld /\ WalkInv /\ AbortsOnBroken /\ [Next]_vars
        => AbortsOnBroken'
  BY AbortsStep
<1>3. Spec => []SharedStateHeld
  BY SerialMountIsSafe
<1> QED
  BY <1>1, <1>2, <1>3, WalkAlways, InvariantHolds, PTL DEF Spec

(***************************************************************************)
(* What a path names, component by component.                              *)
(***************************************************************************)
LEMMA DivMod ==
  ASSUME NEW n \in Nat \ {0}, NEW j \in Nat, NEW m \in 0 .. n - 1
  PROVE  (j * n + m) \div n = j /\ (j * n + m) % n = m
<1> DEFINE a == j * n + m
<1>1. a \in Int /\ j * n \in Int
  OBVIOUS
<1>2. a = n * (a \div n) + (a % n) /\ a % n \in 0 .. n - 1 /\ a \div n \in Int
  BY <1>1
<1> DEFINE q == a \div n
           r == a % n
<1>3. a = n * q + r /\ r \in 0 .. n - 1 /\ q \in Int
  BY <1>2
<1> HIDE DEF q, r
<1>4. n * (q - j) = m - r
  BY <1>3
<1>5. m - r < n /\ m - r > 0 - n
  BY <1>3
<1>6. q - j < 1
  <2>1. q - j >= 1 => n * (q - j) >= n
    BY <1>3
  <2> QED
    BY <1>3, <1>4, <1>5, <2>1
<1>7. q - j > -1
  <2>1. q - j <= -1 => n * (q - j) <= 0 - n
    BY <1>3
  <2> QED
    BY <1>3, <1>4, <1>5, <2>1
<1>8. q = j
  BY <1>3, <1>6, <1>7
<1> QED
  BY <1>3, <1>8 DEF q, r

LEMMA ChainType ==
  ASSUME NEW v \in Volumes, NEW c
  PROVE  /\ Fs!Chain(v, c) \in Seq(Nat) /\ Len(Fs!Chain(v, c)) \in Nat
         /\ \A k \in 1 .. Len(Fs!Chain(v, c)) : Fs!Chain(v, c)[k] \in Nat
<1> DEFINE ch == Fs!Chain(v, c)
           D == DOMAIN v.fat
<1>1. ch \in Seq(D)
  BY ChainIsChain DEF IsChain
<1>2. D \subseteq Nat
  BY VolumeAssumption DEF IsVolume
<1> HIDE DEF ch, D
<1>3. ch \in Seq(Nat)
  BY <1>1, <1>2, SeqMonotonic
<1>4. Len(ch) \in Nat /\ \A k \in 1 .. Len(ch) : ch[k] \in Nat
  BY <1>3
<1> QED
  BY <1>3, <1>4 DEF ch

\* The slots of a chain are those of its clusters, one cluster after another.
LEMMA SlotsFacts ==
  ASSUME NEW v \in Volumes, NEW c
  PROVE  LET s == Fs!Slots(v, c)
             ch == Fs!Chain(v, c) IN
         /\ s \in Seq(Int) /\ Len(s) = Len(ch) * ClusterSize /\ Len(s) \in Nat
         /\ \A j \in 0 .. Len(ch) - 1 : \A m \in 1 .. ClusterSize :
              /\ j * ClusterSize + m \in 1 .. Len(s)
              /\ s[j * ClusterSize + m] = SlotOf(ch[j + 1]) + m - 1
<1> DEFINE s == Fs!Slots(v, c)
           ch == Fs!Chain(v, c)
           n == ClusterSize
           L == Len(ch)
<1>1. L \in Nat /\ n \in Nat \ {0} /\ \A k \in 1 .. L : ch[k] \in Nat
  BY ChainType, VolumeAssumption
<1>2. s = [k \in 1 .. L * n |-> (ch[((k - 1) \div n) + 1] - 2) * n + ((k - 1) % n)]
  BY DEF Fs!Slots
<1> HIDE DEF s, ch, n, L
<1>3. L * n \in Nat
  BY <1>1
<1>4. ASSUME NEW j \in 0 .. L - 1, NEW m \in 1 .. n
      PROVE  /\ j * n + m \in 1 .. L * n
             /\ ((j * n + m) - 1) \div n = j /\ ((j * n + m) - 1) % n = m - 1
  <2>1. j \in Nat /\ m - 1 \in 0 .. n - 1 /\ j * n \in Nat
    BY <1>1
  <2>2. (j * n + m) - 1 = j * n + (m - 1)
    BY <1>1, <2>1
  <2>3. (j * n + (m - 1)) \div n = j /\ (j * n + (m - 1)) % n = m - 1
    BY <1>1, <2>1, DivMod
  <2>4. j * n <= (L - 1) * n /\ (L - 1) * n = L * n - n
    BY <1>1
  <2>5. j * n + m \in 1 .. L * n
    BY <1>1, <1>3, <2>1, <2>4
  <2> QED
    BY <2>2, <2>3, <2>5
<1>5. ASSUME NEW j \in 0 .. L - 1, NEW m \in 1 .. n
      PROVE  s[j * n + m] = SlotOf(ch[j + 1]) + m - 1
  <2> DEFINE k == j * n + m
  <2>1. k \in 1 .. L * n /\ (k - 1) \div n = j /\ (k - 1) % n = m - 1
    BY <1>4
  <2> HIDE DEF k
  <2>2. s[k] = (ch[j + 1] - 2) * n + (m - 1)
    BY <1>2, <2>1
  <2>3. SlotOf(ch[j + 1]) = (ch[j + 1] - 2) * n
    BY DEF SlotOf, SlotFrom, n
  <2>4. j + 1 \in 1 .. L /\ ch[j + 1] \in Nat
    BY <1>1
  <2>5. (ch[j + 1] - 2) * n \in Int
    BY <1>1, <2>4
  <2> QED
    BY <2>2, <2>3, <2>5 DEF k
<1>6. ASSUME NEW k \in 1 .. L * n
      PROVE  s[k] \in Int
  <2> DEFINE q == (k - 1) \div n
             r == (k - 1) % n
  <2>1. k - 1 \in Int /\ k - 1 = n * q + r /\ r \in 0 .. n - 1 /\ q \in Int
    BY <1>1, <1>3
  <2>2. s[k] = (ch[q + 1] - 2) * n + r
    BY <1>2
  <2> HIDE DEF q, r
  <2>3. q \in 0 .. L - 1
    <3>1. q >= 0
      <4>1. q <= -1 => n * q <= 0 - n
        BY <1>1, <2>1
      <4> QED
        BY <1>1, <1>3, <2>1, <4>1
    <3>2. q <= L - 1
      <4>1. q >= L => n * q >= L * n
        BY <1>1, <2>1
      <4> QED
        BY <1>1, <1>3, <2>1, <4>1
    <3> QED
      BY <1>1, <2>1, <3>1, <3>2
  <2>4. ch[q + 1] \in Nat
    BY <1>1, <2>3
  <2> QED
    BY <1>1, <2>1, <2>2, <2>4
<1>7. s \in [1 .. L * n -> Int]
  BY <1>2, <1>6
<1>8. s \in Seq(Int) /\ Len(s) = L * n
  BY <1>3, <1>7, SequenceType
<1> QED
  BY <1>3, <1>4, <1>5, <1>8 DEF s, ch, n, L

(***************************************************************************)
(* One worker on sound images: what its locals say of the image, from the  *)
(* first token to the answer.                                              *)
(***************************************************************************)
Named(v, p, k) == Fs!Resolve(v, SubSeq(p, 1, k))
Dirs(S) == {e \in S : e.kind = "dir"}
Files(S) == {e \in S : e.kind = "file"}

SizeOf(e) == IF e.kind = "dir" THEN 0 ELSE e.size

\* What the kernel's caches say is so, and it knows the files it has open.
Remembered ==
  /\ \A d \in dcache : \E e \in Fs!Resolve(vol, d.path) :
       e.kind = d.kind /\ d.size = SizeOf(e)
  /\ \A h \in handles : /\ \E e \in Files(Fs!Resolve(vol, h.path)) : e.clus = h.fh
                         /\ \E d \in dcache : d.path = h.path

\* A request that the kernel has reason to send.
Legal(v, r) ==
  /\ r.path \in Paths
  /\ r.op = "getattr" /\ r.path # <<>> => Dirs(Fs!Resolve(v, Parent(r.path))) # {}
  /\ r.op = "readdir" => Dirs(Fs!Resolve(v, r.path)) # {}
  /\ r.op = "open" => Files(Fs!Resolve(v, r.path)) # {}
  /\ r.op = "read" => \E e \in Files(Fs!Resolve(v, r.path)) : e.clus = r.fh
  /\ r.off = 0

Parsing == {"tok0", "tok"}
Entering == {"count0", "count", "seek", "fread", "loaded"}
Looking == {"search", "found"} \union Entering
Reading == {"rdseek", "rdread"}

Spelled(plist, p) == \A k \in 1 .. Len(plist) : plist[k].name = p[k]

PathInv(t, s) ==
  LET p == t.req.path IN
  /\ t.pc = "tok" => /\ s.path = p /\ s.at = Len(t.plist) + 1
                     /\ Len(t.plist) \in 1 .. Len(p)
  /\ t.pc = "tok0" => t.plist = <<>>
  /\ t.pc \in {"tok", "dispatch"} \union Looking => Spelled(t.plist, p)
  /\ t.pc \in {"dispatch"} \union Looking => Len(t.plist) = Len(p)
  /\ t.pc \in Looking => t.idx \in 1 .. Len(p)

LookInv(v, t) ==
  LET p == t.req.path IN
  /\ t.pc = "search" => \E d \in Dirs(Named(v, p, t.idx - 1)) : t.dir = Fs!Entries(v, d)
  /\ t.pc = "found" => t.idx = Len(p) /\ t.rval \in Named(v, p, t.idx)
  /\ t.pc \in Entering => /\ t.rval \in Dirs(Named(v, p, t.idx))
                          /\ t.idx = Len(p) => t.req.op = "readdir"
  /\ t.pc \in {"count", "seek", "fread"} =>
       t.rval.clus > 1 /\ t.n = 1 /\ t.clus = t.rval.clus
  /\ t.pc \in {"seek", "fread"} => t.i = 0
  /\ t.pc = "loaded" => t.dir = Fs!Entries(v, t.rval)

SoFar(v, t) ==
  LET s == Fs!Slots(v, t.req.fh)
      ch == Fs!Chain(v, t.req.fh)
      m == Len(t.got) IN
  /\ m <= t.req.size /\ m <= Len(s) /\ \A k \in 1 .. m : t.got[k] = s[k]
  /\ \/ \E j \in 0 .. Len(ch) - 1 : m = j * ClusterSize /\ t.clus = ch[j + 1]
     \/ m = Fs!Shorter(t.req.size, Len(s)) /\ ~ MoreToRead(t)

ServeInv(v, t) ==
  /\ t.pc # "idle" => Legal(v, t.req)
  /\ t.pc \in {"dispatch"} \union Parsing \union Looking => t.req.op # "read"
  /\ t.pc \in {"rd0"} \union Reading => t.req.op = "read"
  /\ t.pc = "rd0" => t.got = <<>>
  /\ t.pc \in Reading => t.req.off = 0 /\ SoFar(v, t)
  /\ t.pc = "rdread" => MoreToRead(t)

\* The kernel knows the file that is opened or read; the client has been given
\* the answer that the image determines.
Told(w) ==
  /\ th[w].pc # "idle" /\ th[w].req.op \in {"open", "read"} =>
       \E d \in dcache : d.path = th[w].req.path
  /\ th[w].pc = "idle" /\ th[w].ans.err # "none" => Seen(w) \in Fs!Promise(vol, th[w].req)

FsInv == /\ Remembered
         /\ \A w \in Workers : /\ ServeInv(vol, th[w]) /\ LookInv(vol, th[w])
                               /\ PathInv(th[w], strtokp) /\ Told(w)

Universe(v) == {Fs!Root} \union {v.root[k] : k \in Nat} \union {v.disk[k] : k \in Int}

LEMMA DirectoryFacts ==
  ASSUME NEW v \in Volumes, NEW c
  PROVE  LET d == Fs!Directory(v, c)
             s == Fs!Slots(v, c) IN
         /\ DOMAIN d = 1 .. Len(s) /\ Len(d) = Len(s) /\ Len(s) \in Nat
         /\ \A k \in 1 .. Len(s) : s[k] \in Int /\ d[k] = v.disk[s[k] + 1]
<1> DEFINE s == Fs!Slots(v, c)
<1>1. s \in Seq(Int) /\ Len(s) \in Nat
  BY SlotsFacts
<1>2. Fs!Directory(v, c) = [k \in 1 .. Len(s) |-> v.disk[s[k] + 1]]
  BY DEF Fs!Directory
<1> HIDE DEF s
<1>3. \A k \in 1 .. Len(s) : s[k] \in Int
  BY <1>1
<1> QED
  BY <1>1, <1>2, <1>3 DEF s

LEMMA ContentsType ==
  ASSUME NEW v \in Volumes, NEW e
  PROVE  Fs!Contents(v, e) \subseteq Universe(v)
<1> SUFFICES ASSUME NEW x \in Fs!Contents(v, e)
             PROVE  x \in Universe(v)
  OBVIOUS
<1>1. CASE e = Fs!Root
  <2>1. PICK k \in 1 .. Len(v.root) : x = v.root[k]
    BY <1>1 DEF Fs!Contents, Fs!Entries, Fs!Members
  <2>2. k \in Nat
    BY VolumeType
  <2> QED
    BY <2>1, <2>2 DEF Universe
<1>2. CASE e # Fs!Root
  <2> DEFINE d == Fs!Directory(v, e.clus)
  <2>1. PICK k \in 1 .. Len(d) : x = d[k]
    BY <1>2 DEF Fs!Contents, Fs!Entries, Fs!Members
  <2>2. \E j \in Int : x = v.disk[j]
    <3> DEFINE sl == Fs!Slots(v, e.clus)
    <3>1. /\ Len(d) = Len(sl)
          /\ \A i \in 1 .. Len(sl) : sl[i] \in Int /\ d[i] = v.disk[sl[i] + 1]
      BY DirectoryFacts
    <3> HIDE DEF d, sl
    <3>2. sl[k] \in Int /\ x = v.disk[sl[k] + 1]
      BY <2>1, <3>1
    <3> QED
      BY <3>2
  <2> QED
    BY <2>2 DEF Universe
<1> QED
  BY <1>1, <1>2

\* One component: the entries of that name in the directories of S.
Enter(v, S, n) ==
  {e \in UNION {Fs!Contents(v, d) : d \in {x \in S : Fs!IsDirectory(x)}} :
     Fs!ShownName(e) = n}

LEMMA EnterType ==
  ASSUME NEW v \in Volumes, NEW S, NEW n
  PROVE  Enter(v, S, n) \subseteq Universe(v)
BY ContentsType DEF Enter

LEMMA ResolveWalk ==
  ASSUME NEW v \in Volumes, NEW p
  PROVE  \E at : /\ Fs!Resolve(v, p) = at[Len(p)]
                 /\ at[0] = {Fs!Root}
                 /\ \A k \in Nat : at[k + 1] = Enter(v, at[k], p[k + 1])
<1> DEFINE S == SUBSET Universe(v)
           At(f) == [k \in Nat |->
             IF k = 0 THEN {Fs!Root}
             ELSE {e \in UNION {Fs!Contents(v, d) : d \in {x \in f[k - 1] : Fs!IsDirectory(x)}} :
                     Fs!ShownName(e) = p[k]}]
           Step == [q \in Nat \X S |-> Enter(v, q[2], p[q[1] + 1])]
           W == CHOOSE f : f = At(f)
<1>1. Fs!Resolve(v, p) = W[Len(p)]
  BY DEF Fs!Resolve
<1>2. PICK g : Iterated(g, S, {Fs!Root}, Step)
  <2>1. {Fs!Root} \in S
    BY DEF Universe
  <2>2. Step \in [Nat \X S -> S]
    BY EnterType
  <2>3. Steps(S, {Fs!Root}, Step)
    BY <2>1, <2>2 DEF Steps
  <2> QED
    BY <2>3, Iterates
<1>3. \A f : At(f) = [k \in Nat |-> IF k = 0 THEN {Fs!Root} ELSE Enter(v, f[k - 1], p[k])]
  BY DEF Enter
<1>4. g = At(g)
  <2>1. ASSUME NEW k \in Nat
        PROVE  g[k] = IF k = 0 THEN {Fs!Root} ELSE Enter(v, g[k - 1], p[k])
    <3>1. CASE k = 0
      BY <1>2, <3>1 DEF Iterated
    <3>2. CASE k # 0
      <4>1. k - 1 \in Nat /\ g[k - 1] \in S /\ (k - 1) + 1 = k
        BY <1>2, <3>2 DEF Iterated
      <4>2. g[(k - 1) + 1] = Step[<<k - 1, g[k - 1]>>]
        BY <1>2, <4>1 DEF Iterated
      <4>3. Step[<<k - 1, g[k - 1]>>] = Enter(v, g[k - 1], p[(k - 1) + 1])
        BY <4>1
      <4> QED
        BY <3>2, <4>1, <4>2, <4>3
    <3> QED
      BY <3>1, <3>2
  <2>2. g = [k \in Nat |-> g[k]]
    BY <1>2 DEF Iterated
  <2>3. At(g) = [k \in Nat |-> IF k = 0 THEN {Fs!Root} ELSE Enter(v, g[k - 1], p[k])]
    BY <1>3
  <2> HIDE DEF At
  <2>4. At(g) = [k \in Nat |-> g[k]]
    BY <2>1, <2>3
  <2> QED
    BY <2>2, <2>4
<1>5. W = At(W)
  <2> HIDE DEF At
  <2> QED
    BY <1>4
<1> HIDE DEF W, At
<1>6. W = [k \in Nat |-> IF k = 0 THEN {Fs!Root} ELSE Enter(v, W[k - 1], p[k])]
  BY <1>3, <1>5
<1>7. W[0] = {Fs!Root} /\ \A k \in Nat : W[k + 1] = Enter(v, W[k], p[k + 1])
  BY <1>6
<1> QED
  BY <1>1, <1>7

\* A path is resolved from the root, one directory after another.
LEMMA Resolving ==
  ASSUME NEW v \in Volumes, NEW p \in Seq(Component)
  PROVE  /\ Named(v, p, 0) = {Fs!Root}
         /\ Named(v, p, Len(p)) = Fs!Resolve(v, p)
         /\ \A k \in 0 .. Len(p) - 1 :
              Named(v, p, k + 1) = Enter(v, Named(v, p, k), p[k + 1])
<1>1. PICK at : /\ Fs!Resolve(v, p) = at[Len(p)]
                /\ at[0] = {Fs!Root}
                /\ \A k \in Nat : at[k + 1] = Enter(v, at[k], p[k + 1])
  BY ResolveWalk
<1>2. ASSUME NEW k \in 0 .. Len(p)
      PROVE  Named(v, p, k) = at[k]
  <2> DEFINE q == SubSeq(p, 1, k)
  <2>1. Len(q) = k /\ \A j \in 1 .. k : q[j] = p[j]
    OBVIOUS
  <2>2. PICK bt : /\ Fs!Resolve(v, q) = bt[Len(q)]
                  /\ bt[0] = {Fs!Root}
                  /\ \A j \in Nat : bt[j + 1] = Enter(v, bt[j], q[j + 1])
    BY ResolveWalk
  <2> HIDE DEF q
  <2> DEFINE X == {j \in Nat : j <= k => bt[j] = at[j]}
  <2>3. 0 \in X
    BY <1>1, <2>2
  <2>4. ASSUME NEW j \in Nat, j \in X
        PROVE  j + 1 \in X
    <3>1. CASE j + 1 <= k
      <4>1. bt[j] = at[j] /\ q[j + 1] = p[j + 1]
        BY <2>1, <2>4, <3>1
      <4>2. bt[j + 1] = at[j + 1]
        BY <1>1, <2>2, <4>1
      <4> QED
        BY <4>2
    <3>2. CASE ~ (j + 1 <= k)
      BY <3>2
    <3> QED
      BY <3>1, <3>2
  <2> HIDE DEF X
  <2>5. k \in X
    BY <2>3, <2>4, Induction
  <2>6. bt[k] = at[k]
    BY <2>5 DEF X
  <2> QED
    BY <2>1, <2>2, <2>6 DEF Named, q
<1>3. Len(p) \in Nat /\ SubSeq(p, 1, Len(p)) = p
  OBVIOUS
<1>4. Named(v, p, Len(p)) = Fs!Resolve(v, p)
  BY <1>3 DEF Named
<1>5. Named(v, p, 0) = {Fs!Root}
  BY <1>1, <1>2, <1>3
<1>6. ASSUME NEW k \in 0 .. Len(p) - 1
      PROVE  Named(v, p, k + 1) = Enter(v, Named(v, p, k), p[k + 1])
  <2>1. k \in 0 .. Len(p) /\ k + 1 \in 0 .. Len(p) /\ k \in Nat
    BY <1>3
  <2>2. Named(v, p, k) = at[k] /\ Named(v, p, k + 1) = at[k + 1]
    BY <1>2, <2>1
  <2>3. at[k + 1] = Enter(v, at[k], p[k + 1])
    BY <1>1, <2>1
  <2> QED
    BY <2>2, <2>3
<1> QED
  BY <1>4, <1>5, <1>6

LEMMA MembersListed ==
  ASSUME NEW d, PlainDirectory(d), NEW x
  PROVE  x \in Fs!Members(d) <=> \E i \in Listed(d) : x = d[i]
<1>1. \A i \in Listed(d) : d[i].kind \in {"file", "dir"}
  BY DEF PlainDirectory, Plain
<1>2. \A i : i \in Listed(d) <=>
        /\ i \in 1 .. Len(d)
        /\ Fs!IsDirectory(d[i]) \/ d[i].kind = "file"
        /\ ~ \E k \in 1 .. i : d[k].kind = "end"
  <2> SUFFICES ASSUME NEW i \in 1 .. Len(d)
               PROVE  i \in Listed(d) <=>
                        /\ Fs!IsDirectory(d[i]) \/ d[i].kind = "file"
                        /\ ~ \E k \in 1 .. i : d[k].kind = "end"
    BY DEF Listed
  <2>1. (\A k \in 1 .. i : d[k].kind # "end")
          <=> d[i].kind # "end" /\ \A k \in 1 .. i - 1 : d[k].kind # "end"
    OBVIOUS
  <2> QED
    BY <1>1, <2>1 DEF Listed, Fs!IsDirectory
<1>3. x \in Fs!Members(d) <=>
        \E i \in {j \in 1 .. Len(d) : /\ Fs!IsDirectory(d[j]) \/ d[j].kind = "file"
                                      /\ ~ \E k \in 1 .. j : d[k].kind = "end"} :
          x = d[i]
  BY DEF Fs!Members
<1> QED
  BY <1>2, <1>3

LEMMA ShownNameOf ==
  ASSUME NEW e, Plain(e)
  PROVE  Fs!ShownName(e) = NameOf(e)
<1>1. CASE e.kind = "dir" /\ e.ext = NoExt
  BY <1>1, Zenon DEF Fs!ShownName, NameOf
<1>2. CASE e.kind = "file" /\ e.ext # NoExt
  <2>1. e.kind # "dir"
    BY <1>2
  <2> QED
    BY <1>2, <2>1, Zenon DEF Fs!ShownName, NameOf
<1> QED
  BY <1>1, <1>2 DEF Plain

LEMMA RootKind == Fs!Root.kind = "dir"
BY DEF Fs!Root

\* A set of entries whose directories are plain.
PlainSet(v, S) ==
  /\ \A e \in S : e.kind \in {"dir", "file"}
  /\ \A d \in Dirs(S) : PlainDirectory(Fs!Entries(v, d))

LEMMA EnterFacts ==
  ASSUME NEW v, NEW S, PlainSet(v, S), NEW n, NEW e
  PROVE  e \in Enter(v, S, n) <=>
           \E d \in Dirs(S) : \E i \in Listed(Fs!Entries(v, d)) :
             e = Fs!Entries(v, d)[i] /\ NameOf(e) = n
<1>1. {x \in S : Fs!IsDirectory(x)} = Dirs(S)
  BY DEF PlainSet, Fs!IsDirectory, Dirs
<1>2. e \in Enter(v, S, n) <=>
        \E d \in Dirs(S) : e \in Fs!Members(Fs!Entries(v, d)) /\ Fs!ShownName(e) = n
  BY <1>1 DEF Enter, Fs!Contents
<1>3. \A d \in Dirs(S) : e \in Fs!Members(Fs!Entries(v, d)) <=>
        \E i \in Listed(Fs!Entries(v, d)) : e = Fs!Entries(v, d)[i]
  BY MembersListed DEF PlainSet
<1>4. \A d \in Dirs(S) : \A i \in Listed(Fs!Entries(v, d)) :
        e = Fs!Entries(v, d)[i] => Fs!ShownName(e) = NameOf(e)
  BY ShownNameOf DEF PlainSet, PlainDirectory
<1> QED
  BY <1>2, <1>3, <1>4

\* A sound path names one entry at most.
Single(S) == \A e, f \in S : e = f

LEMMA EnterSingle ==
  ASSUME NEW v, NEW S, NEW n, Single(S), PlainSet(v, S)
  PROVE  Single(Enter(v, S, n)) /\ \A e \in Enter(v, S, n) : e.kind \in {"dir", "file"}
<1>1. ASSUME NEW e \in Enter(v, S, n), NEW f \in Enter(v, S, n)
      PROVE  e = f
  <2>1. PICK c \in Dirs(S) : \E i \in Listed(Fs!Entries(v, c)) :
          e = Fs!Entries(v, c)[i] /\ NameOf(e) = n
    BY <1>1, EnterFacts
  <2>2. PICK d \in Dirs(S) : \E i \in Listed(Fs!Entries(v, d)) :
          f = Fs!Entries(v, d)[i] /\ NameOf(f) = n
    BY <1>1, EnterFacts
  <2>3. c = d
    BY DEF Single, Dirs
  <2> DEFINE D == Fs!Entries(v, d)
  <2> HIDE DEF D
  <2>4. PICK i \in Listed(D) : e = D[i] /\ NameOf(e) = n
    BY <2>1, <2>3 DEF D
  <2>5. PICK j \in Listed(D) : f = D[j] /\ NameOf(f) = n
    BY <2>2 DEF D
  <2>6. i = j
    BY <2>4, <2>5 DEF D, PlainSet, PlainDirectory
  <2> QED
    BY <2>4, <2>5, <2>6
<1>2. ASSUME NEW e \in Enter(v, S, n)
      PROVE  e.kind \in {"dir", "file"}
  BY EnterFacts DEF PlainSet, PlainDirectory, Plain
<1> QED
  BY <1>1, <1>2 DEF Single

\* What the components of a sound path name, from the root down.
LEMMA PathFacts ==
  ASSUME NEW v \in Volumes, Sound(v, Paths), NEW p \in Paths
  PROVE  /\ \A k \in 0 .. Len(p) :
              /\ Single(Named(v, p, k))
              /\ \A e \in Named(v, p, k) : e.kind \in {"dir", "file"} /\ SoundEntry(v, e)
         /\ \A m \in 0 .. Len(p) : \A k \in 0 .. Len(p) :
              k < m /\ Dirs(Named(v, p, k)) = {} => Named(v, p, m) = {}
<1>1. p \in Seq(Component) /\ Len(p) \in Nat
  BY RequestAssumption
<1>2. ASSUME NEW k \in 0 .. Len(p), NEW e \in Named(v, p, k)
      PROVE  SoundEntry(v, e)
  BY <1>2 DEF Sound, Named
<1>3. ASSUME NEW k \in 0 .. Len(p), NEW d \in Dirs(Named(v, p, k))
      PROVE  PlainDirectory(Fs!Entries(v, d))
  BY <1>2 DEF SoundEntry, Dirs
<1> DEFINE X == {k \in Nat : k <= Len(p) =>
                   /\ Single(Named(v, p, k))
                   /\ \A e \in Named(v, p, k) : e.kind \in {"dir", "file"}}
<1>4. 0 \in X
  BY <1>1, Resolving, RootKind DEF Single
<1>5. ASSUME NEW k \in Nat, k \in X
      PROVE  k + 1 \in X
  <2>1. CASE k + 1 <= Len(p)
    <3>1. k \in 0 .. Len(p) - 1 /\ k \in 0 .. Len(p)
      BY <1>1, <2>1
    <3>2. Named(v, p, k + 1) = Enter(v, Named(v, p, k), p[k + 1])
      BY <1>1, <3>1, Resolving
    <3>3. Single(Named(v, p, k)) /\ PlainSet(v, Named(v, p, k))
      BY <1>3, <1>5, <3>1 DEF PlainSet
    <3> QED
      BY <3>2, <3>3, EnterSingle
  <2>2. CASE ~ (k + 1 <= Len(p))
    BY <1>1, <2>2
  <2> QED
    BY <2>1, <2>2
<1> HIDE DEF X
<1>6. \A k \in Nat : k \in X
  BY <1>4, <1>5, Induction
<1>7. ASSUME NEW k \in 0 .. Len(p), Dirs(Named(v, p, k)) = {}, NEW m \in 0 .. Len(p), k < m
      PROVE  Named(v, p, m) = {}
  <2> DEFINE Y == {j \in Nat : k < j /\ j <= Len(p) => Named(v, p, j) = {}}
  <2>1. 0 \in Y
    BY <1>1
  <2>2. ASSUME NEW j \in Nat, j \in Y
        PROVE  j + 1 \in Y
    <3>1. CASE k < j + 1 /\ j + 1 <= Len(p)
      <4>1. j \in 0 .. Len(p) - 1
        BY <1>1, <3>1
      <4>2. Dirs(Named(v, p, j)) = {}
        <5>1. CASE j = k
          BY <1>7, <5>1
        <5>2. CASE k < j
          <6>1. Named(v, p, j) = {}
            BY <2>2, <4>1, <5>2
          <6> QED
            BY <6>1 DEF Dirs
        <5> QED
          BY <1>1, <3>1, <5>1, <5>2
      <4>3. Named(v, p, j + 1) = Enter(v, Named(v, p, j), p[j + 1])
        BY <1>1, <4>1, Resolving
      <4>4. PlainSet(v, Named(v, p, j))
        <5>1. j \in X /\ j \in 0 .. Len(p)
          BY <1>1, <1>6, <4>1
        <5> QED
          BY <1>3, <5>1 DEF X, PlainSet
      <4> QED
        BY <4>2, <4>3, <4>4, EnterFacts
    <3>2. CASE ~ (k < j + 1 /\ j + 1 <= Len(p))
      BY <3>2
    <3> QED
      BY <3>1, <3>2
  <2> HIDE DEF Y
  <2>3. m \in Y
    BY <1>1, <2>1, <2>2, Induction
  <2> QED
    BY <1>1, <1>7, <2>3 DEF Y
<1>8. ASSUME NEW k \in 0 .. Len(p)
      PROVE  /\ Single(Named(v, p, k))
             /\ \A e \in Named(v, p, k) : e.kind \in {"dir", "file"} /\ SoundEntry(v, e)
  <2>1. k \in X /\ k <= Len(p)
    BY <1>1, <1>6
  <2> QED
    BY <1>2, <2>1 DEF X
<1> QED
  BY <1>7, <1>8

\* search_dirs on a directory of distinct names finds the entry or misses it.
LEMMA SearchFacts ==
  ASSUME NEW d, Len(d) \in Nat, PlainDirectory(d), NEW n, n # Freed
  PROVE  /\ \A hit \in SearchDirs(d, n) \ {0} : hit \in Listed(d) /\ NameOf(d[hit]) = n
         /\ 0 \in SearchDirs(d, n) <=> ~ \E i \in Listed(d) : NameOf(d[i]) = n
<1>1. 0 \notin Listed(d)
  BY DEF Listed
<1> DEFINE may == {i \in Listed(d) : n \in {Freed, NameOf(d[i])}}
           must == {i \in may : n # Freed /\ ~ (d[i].kind # "dir" /\ d[i].full)}
<1>2. SearchDirs(d, n) = {i \in may : \A j \in must : i <= j}
                           \union (IF must = {} THEN {0} ELSE {})
  BY DEF SearchDirs
<1>3. must = may
  BY DEF PlainDirectory, Plain
<1>4. \A i, j \in may : i = j
  BY DEF PlainDirectory
<1> QED
  BY <1>1, <1>2, <1>3, <1>4

(***************************************************************************)
(* With one worker on sound images each handler's steps are stutters of    *)
(* the abstract file system, but for its start and its return.             *)
(***************************************************************************)
Alone(w) == /\ Workers = {w} /\ IInv /\ SharedStateHeld /\ FsInv
            /\ Sound(vol, Paths) /\ Offsets \subseteq {0}
FsStep == FsInv' /\ (Fs!Next \/ UNCHANGED Fs!vars)

\* What the client sees of an answer about a file of size n.
View(r, a, n) == IF r.op = "read" THEN [a EXCEPT !.data = Cut(@, n)] ELSE a

\* An answer the image determines, and what the kernel's caches take from it.
Answers(v, r, a) ==
  /\ r.op # "read" => a \in Fs!Promise(v, r)
  /\ r.op = "read" => \A e \in Fs!Resolve(v, r.path) :
                        View(r, a, SizeOf(e)) \in Fs!Promise(v, r)
  /\ a.kind # "none" => \E e \in Fs!Resolve(v, r.path) :
                          e.kind = a.kind /\ a.size = SizeOf(e)
  /\ r.op = "open" /\ a.err = "ok" => \E e \in Files(Fs!Resolve(v, r.path)) : e.clus = a.fh

\* What the kernel may have learnt when a handler returns a.
Learns(r, a) ==
  /\ \A d \in dcache' : d \in dcache \/
       (a.kind # "none" /\ d = [path |-> r.path, kind |-> a.kind, size |-> a.size])
  /\ \A d \in dcache : \E c \in dcache' : c.path = d.path
  /\ \A h \in handles' : h \in handles \/
       (r.op = "open" /\ a.err = "ok" /\ h = [path |-> r.path, fh |-> a.fh])

\* The names that FatFsSpec shares with FatFuse.
LEMMA SameNames ==
  /\ Fs!NoRequest = NoRequest /\ Fs!Request = Request
  /\ Fs!NoAnswer = NoAnswer /\ \A e : Fs!Error(e) = Error(e)
BY DEF Fs!NoRequest, NoRequest, Fs!Request, Request, Fs!Ops, Ops, Fs!Component, Component,
       Fs!U16, U16, Fs!NoAnswer, NoAnswer, Fs!Error, Error

LEMMA AloneFacts ==
  ASSUME NEW w, Alone(w)
  PROVE  /\ w \in Workers /\ th[w] \in Local /\ vol \in Volumes
         /\ th = [u \in Workers |-> th[w]]
         /\ ServeInv(vol, th[w]) /\ LookInv(vol, th[w]) /\ PathInv(th[w], strtokp)
         /\ Told(w)
<1>1. w \in Workers /\ th \in [Workers -> Local] /\ vol \in Volumes
  BY DEF Alone, IInv, SharedType
<1>2. th = [u \in Workers |-> th[w]]
  BY <1>1 DEF Alone
<1> QED
  BY <1>1, <1>2 DEF Alone, FsInv

\* A step inside a handler.
LEMMA Within ==
  ASSUME NEW w, Alone(w), NEW t, th' = [th EXCEPT ![w] = t],
         UNCHANGED <<vol, dcache, handles>>,
         th[w].pc # "idle", t.pc # "idle", t.req = th[w].req, t.ans = th[w].ans,
         ServeInv(vol, t), LookInv(vol, t), PathInv(t, strtokp')
  PROVE  FsStep
<1>1. w \in Workers /\ Workers = {w} /\ th = [u \in Workers |-> th[w]]
  BY AloneFacts DEF Alone
<1>2. th' = [u \in Workers |-> t]
  BY <1>1
<1>3. FsInv'
  <2>1. Remembered'
    BY DEF Remembered, Alone, FsInv
  <2>2. Told(w)'
    BY <1>1, <1>2, AloneFacts DEF Told
  <2> QED
    BY <1>1, <1>2, <2>1, <2>2 DEF FsInv
<1>4. UNCHANGED Fs!vars
  <2>1. [u \in Workers |-> IF th[u].pc = "idle" THEN NoRequest ELSE th[u].req]'
          = [u \in Workers |-> IF th[u].pc = "idle" THEN NoRequest ELSE th[u].req]
    BY <1>1, <1>2
  <2>2. {u \in Workers : th[u].pc # "idle"}' = {u \in Workers : th[u].pc # "idle"}
    BY <1>1, <1>2
  <2>3. [u \in Workers |-> Seen(u)]' = [u \in Workers |-> Seen(u)]
    <3>1. Seen(w)' = Seen(w)
      <4>1. th'[w] = t /\ t.req = th[w].req /\ t.ans = th[w].ans
        BY <1>1, <1>2
      <4>2. KnownSize(th[w].req.path)' = KnownSize(th[w].req.path)
        <5>1. th'[w].req.path = th[w].req.path /\ dcache' = dcache
          BY <4>1
        <5> QED
          BY <5>1, Zenon DEF KnownSize
      <4>3. Seen(w) = View(th[w].req, th[w].ans, KnownSize(th[w].req.path))
        BY DEF Seen, View
      <4>4. Seen(w)' = View(th'[w].req, th'[w].ans, KnownSize(th[w].req.path)')
        BY DEF Seen, View
      <4> QED
        BY <4>1, <4>2, <4>3, <4>4
    <3> QED
      BY <1>1, <3>1
  <2> QED
    BY <2>1, <2>2, <2>3 DEF Fs!vars
<1> QED
  BY <1>3, <1>4 DEF FsStep

\* The return of a handler.
LEMMA Answering ==
  ASSUME NEW w, Alone(w), NEW a, NEW f,
         th' = [u \in Workers |-> Returned(th[w], a, f)],
         vol' = vol, th[w].pc # "idle",
         Learns(th[w].req, a), Answers(vol, th[w].req, a)
  PROVE  FsStep
<1>1. w \in Workers /\ Workers = {w} /\ th = [u \in Workers |-> th[w]]
  BY AloneFacts DEF Alone
<1> DEFINE t == Returned(th[w], a, f)
<1>2. t.pc = "idle" /\ t.ans = a /\ t.req = th[w].req
  BY DEF Returned, Fresh
<1> HIDE DEF t
<1>3. th' = [u \in Workers |-> t]
  BY DEF t
<1>4. Remembered'
  <2>1. Remembered /\ vol' = vol /\ Told(w)
    BY AloneFacts DEF Alone, FsInv
  <2>2. ASSUME NEW d \in dcache'
        PROVE  \E e \in Fs!Resolve(vol, d.path) : e.kind = d.kind /\ d.size = SizeOf(e)
    BY <2>1, <2>2 DEF Remembered, Answers, Learns
  <2>3. ASSUME NEW h \in handles'
        PROVE  /\ \E e \in Files(Fs!Resolve(vol, h.path)) : e.clus = h.fh
               /\ \E d \in dcache : d.path = h.path
    BY <2>1, <2>3 DEF Remembered, Answers, Learns, Told
  <2>4. \A d \in dcache : \E c \in dcache' : c.path = d.path
    BY DEF Learns
  <2> QED
    BY <2>1, <2>2, <2>3, <2>4 DEF Remembered
<1>5. Seen(w)' = View(th[w].req, a, KnownSize(th[w].req.path)')
  BY <1>1, <1>2, <1>3 DEF Seen, View
<1>6. Seen(w)' \in Fs!Promise(vol, th[w].req)
  <2>1. CASE th[w].req.op # "read"
    BY <1>5, <2>1 DEF View, Answers
  <2>2. CASE th[w].req.op = "read"
    <3>1. PICK d \in dcache : d.path = th[w].req.path
      BY <2>2, AloneFacts DEF Told
    <3>2. \E c \in dcache' : c.path = th[w].req.path
      BY <3>1 DEF Learns
    <3>3. \E c \in dcache' : c.path = th[w].req.path /\ KnownSize(th[w].req.path)' = c.size
      BY <1>1, <1>2, <1>3, <3>2 DEF KnownSize
    <3>4. \E e \in Fs!Resolve(vol, th[w].req.path) : KnownSize(th[w].req.path)' = SizeOf(e)
      BY <1>4, <3>3 DEF Remembered
    <3> QED
      BY <1>5, <2>2, <3>4 DEF Answers
  <2> QED
    BY <2>1, <2>2
<1>7. FsInv'
  <2>2. ServeInv(vol, t)
    BY <1>2 DEF ServeInv, Parsing, Looking, Entering, Reading, Answers
  <2>3. LookInv(vol, t)
    BY <1>2 DEF LookInv, Entering
  <2>4. PathInv(t, strtokp')
    BY <1>2 DEF PathInv, Looking, Entering
  <2>5. Told(w)'
    BY <1>1, <1>2, <1>3, <1>6 DEF Told
  <2> QED
    BY <1>1, <1>3, <1>4, <2>2, <2>3, <2>4, <2>5 DEF FsInv
<1>8. Fs!Reply(w)
  <2>1. {u \in Workers : th[u].pc # "idle"} = {w}
    BY <1>1
  <2>2. {u \in Workers : th[u].pc # "idle"}' = {}
    BY <1>1, <1>2, <1>3
  <2>3. [u \in Workers |-> IF th[u].pc = "idle" THEN NoRequest ELSE th[u].req]'
          = [[u \in Workers |-> IF th[u].pc = "idle" THEN NoRequest ELSE th[u].req]
               EXCEPT ![w] = NoRequest]
    BY <1>1, <1>2, <1>3
  <2>4. [u \in Workers |-> Seen(u)]'
          = [[u \in Workers |-> Seen(u)] EXCEPT ![w] = Seen(w)']
    BY <1>1
  <2>5. [u \in Workers |-> IF th[u].pc = "idle" THEN NoRequest ELSE th[u].req][w]
          = th[w].req
    BY <1>1
  <2> QED
    BY <1>6, <2>1, <2>2, <2>3, <2>4, <2>5, SameNames DEF Fs!Reply
<1> QED
  BY <1>1, <1>7, <1>8 DEF FsStep, Fs!Next

\* The exit of a handler that has called parse_path.
LEMMA Finishing ==
  ASSUME NEW w, Alone(w), NEW a, NEW f, Finish(w, a, f), vol' = vol,
         th[w].pc # "idle", Answers(vol, th[w].req, a)
  PROVE  FsStep
<1>1. Workers = {w} /\ w \in Workers
  BY AloneFacts DEF Alone
<1>2. th' = [u \in Workers |-> Returned(th[w], a, f)]
  BY <1>1 DEF Finish
<1>3. Learns(th[w].req, a)
  <2> DEFINE p == th[w].req.path
             new == [path |-> p, kind |-> a.kind, size |-> a.size]
  <2>1. CASE a.kind = "none"
    BY <2>1 DEF Finish, Learns
  <2>2. CASE a.kind # "none"
    <3>1. dcache' = {d \in dcache : d.path # p} \union {new}
      BY <2>2 DEF Finish
    <3>2. new.path = p
      OBVIOUS
    <3>3. \A d \in dcache' : d \in dcache \/ d = new
      BY <3>1
    <3>4. \A d \in dcache : \E c \in dcache' : c.path = d.path
      BY <3>1, <3>2
    <3>5. \A h \in handles' : h \in handles \/
            (th[w].req.op = "open" /\ a.err = "ok" /\ h = [path |-> p, fh |-> a.fh])
      BY DEF Finish
    <3> QED
      BY <2>2, <3>3, <3>4, <3>5 DEF Learns
  <2> QED
    BY <2>1, <2>2
<1> QED
  BY <1>2, <1>3, Answering

\* The answers one by one.
AttrAnswer(e) == IF e.kind = "dir"
                 THEN [NoAnswer EXCEPT !.err = "ok", !.kind = "dir"]
                 ELSE [NoAnswer EXCEPT !.err = "ok", !.kind = "file", !.size = e.size]
ListAnswer(v, e) ==
  [NoAnswer EXCEPT !.err = "ok", !.names = {Fs!ShownName(x) : x \in Fs!Contents(v, e)}]
OpenAnswer(e) == [NoAnswer EXCEPT !.err = "ok", !.fh = e.clus]
DataOf(v, r, e) ==
  SubSeq(Fs!Slots(v, e.clus), r.off + 1, Fs!Shorter(r.off + r.size, e.size))
ReadAnswer(v, r, e) == [NoAnswer EXCEPT !.err = "ok", !.data = DataOf(v, r, e)]

LEMMA PromiseCases ==
  ASSUME NEW v, NEW r, NEW e, e.kind \in {"dir", "file"}
  PROVE  /\ r.op = "getattr" => Fs!PromiseOn(v, r, e) = AttrAnswer(e)
         /\ r.op = "readdir" => Fs!PromiseOn(v, r, e) = ListAnswer(v, e)
         /\ r.op = "open" => Fs!PromiseOn(v, r, e) = OpenAnswer(e)
         /\ r.op = "read" => Fs!PromiseOn(v, r, e) = ReadAnswer(v, r, e)
<1>1. Fs!NoAnswer = NoAnswer
  BY SameNames
<1>2. /\ "getattr" # "readdir" /\ "getattr" # "open" /\ "getattr" # "read"
      /\ "readdir" # "open" /\ "readdir" # "read" /\ "open" # "read"
  OBVIOUS
<1>3. CASE r.op = "getattr"
  <2>1. r.op # "readdir" /\ r.op # "open" /\ r.op # "read"
    BY <1>3
  <2> QED
    <3>1. CASE e.kind = "dir"
      BY <1>1, <1>3, <2>1, <3>1, Zenon DEF Fs!PromiseOn, AttrAnswer, SizeOf, Fs!IsDirectory
    <3>2. CASE e.kind = "file"
      <4>1. ~ Fs!IsDirectory(e) /\ e.kind # "dir"
        BY <3>2 DEF Fs!IsDirectory
      <4> QED
        BY <1>1, <1>3, <2>1, <3>2, <4>1, Zenon DEF Fs!PromiseOn, AttrAnswer, SizeOf
    <3> QED
      BY <3>1, <3>2
<1>4. CASE r.op = "readdir"
  <2>1. r.op # "getattr" /\ r.op # "open" /\ r.op # "read"
    BY <1>4
  <2> QED
    BY <1>1, <1>4, <2>1, Zenon DEF Fs!PromiseOn, AttrAnswer, ListAnswer, OpenAnswer, ReadAnswer,
                                    DataOf
<1>5. CASE r.op = "open"
  <2>1. r.op # "getattr" /\ r.op # "readdir" /\ r.op # "read"
    BY <1>5
  <2> QED
    BY <1>1, <1>5, <2>1, Zenon DEF Fs!PromiseOn, AttrAnswer, ListAnswer, OpenAnswer, ReadAnswer,
                                    DataOf
<1>6. CASE r.op = "read"
  <2>1. r.op # "getattr" /\ r.op # "readdir" /\ r.op # "open"
    BY <1>6
  <2> QED
    BY <1>1, <1>6, <2>1, Zenon DEF Fs!PromiseOn, AttrAnswer, ListAnswer, OpenAnswer, ReadAnswer,
                                    DataOf
<1> QED
  BY <1>3, <1>4, <1>5, <1>6

LEMMA AnswerMissing ==
  ASSUME NEW v, NEW r, Fs!Resolve(v, r.path) = {}
  PROVE  Answers(v, r, Error("ENOENT"))
<1>1. Fs!Promise(v, r) = {Error("ENOENT")}
  BY SameNames DEF Fs!Promise
<1>2. Error("ENOENT").kind = "none" /\ Error("ENOENT").err = "ENOENT"
  BY DEF Error, NoAnswer
<1> QED
  BY <1>1, <1>2 DEF Answers

LEMMA AnswerFound ==
  ASSUME NEW v, NEW r, NEW e \in Fs!Resolve(v, r.path), r.op \in Ops \ {"read"},
         e.kind \in {"dir", "file"}, r.op = "open" => e.kind = "file",
         NEW a, a = Fs!PromiseOn(v, r, e)
  PROVE  Answers(v, r, a)
<1>1. a \in Fs!Promise(v, r)
  BY DEF Fs!Promise
<1>2. /\ AttrAnswer(e).kind = e.kind /\ AttrAnswer(e).size = SizeOf(e)
      /\ ListAnswer(v, e).kind = "none"
      /\ OpenAnswer(e).kind = "none" /\ OpenAnswer(e).fh = e.clus
  <2>1. \A x : [NoAnswer EXCEPT !.err = "ok", !.names = x].kind = "none"
    BY DEF NoAnswer
  <2>2. \A x, y : /\ [NoAnswer EXCEPT !.err = "ok", !.kind = x, !.size = y].kind = x
                  /\ [NoAnswer EXCEPT !.err = "ok", !.kind = x, !.size = y].size = y
                  /\ [NoAnswer EXCEPT !.err = "ok", !.kind = x].kind = x
                  /\ [NoAnswer EXCEPT !.err = "ok", !.kind = x].size = 0
    BY DEF NoAnswer
  <2>3. \A x : /\ [NoAnswer EXCEPT !.err = "ok", !.fh = x].kind = "none"
               /\ [NoAnswer EXCEPT !.err = "ok", !.fh = x].fh = x
    BY DEF NoAnswer
  <2>4. AttrAnswer(e).kind = e.kind /\ AttrAnswer(e).size = SizeOf(e)
    BY <2>2 DEF AttrAnswer, SizeOf
  <2>5. ListAnswer(v, e).kind = "none"
    BY <2>1 DEF ListAnswer
  <2>6. OpenAnswer(e).kind = "none" /\ OpenAnswer(e).fh = e.clus
    BY <2>3 DEF OpenAnswer
  <2> QED
    BY <2>4, <2>5, <2>6
<1>3. /\ a.kind # "none" => a.kind = e.kind /\ a.size = SizeOf(e)
      /\ r.op = "open" => a.fh = e.clus
  BY <1>2, PromiseCases DEF Ops
<1> QED
  BY <1>1, <1>3 DEF Answers, Files

\* Above the last component a legal path names directories.
LEMMA LegalPrefix ==
  ASSUME NEW v \in Volumes, Sound(v, Paths), NEW r, Legal(v, r), r.op \in Ops \ {"read"}
  PROVE  LET p == r.path IN
         /\ p \in Seq(Component) /\ Len(p) \in Nat
         /\ \A k \in 0 .. Len(p) - 1 : Dirs(Named(v, p, k)) # {}
         /\ r.op = "readdir" => Dirs(Named(v, p, Len(p))) # {}
         /\ r.op = "open" => Files(Named(v, p, Len(p))) # {}
<1> DEFINE p == r.path
<1>1. p \in Paths /\ p \in Seq(Component) /\ Len(p) \in Nat
  BY RequestAssumption DEF Legal
<1>2. Named(v, p, Len(p)) = Fs!Resolve(v, p)
  BY <1>1, Resolving
<1>3. r.op = "getattr" /\ Len(p) > 0 => Dirs(Named(v, p, Len(p) - 1)) # {}
  BY <1>1 DEF Legal, Named, Parent
<1>4. ASSUME NEW k \in 0 .. Len(p) - 1
      PROVE  Dirs(Named(v, p, k)) # {}
  <2>1. CASE r.op = "getattr"
    <3>1. CASE k = Len(p) - 1
      BY <1>1, <1>3, <2>1, <3>1
    <3>2. CASE k < Len(p) - 1
      <4>1. Dirs(Named(v, p, Len(p) - 1)) # {}
        BY <1>1, <1>3, <2>1, <3>2
      <4>2. Named(v, p, Len(p) - 1) # {}
        BY <4>1 DEF Dirs
      <4>3. Len(p) - 1 \in 0 .. Len(p) /\ k \in 0 .. Len(p)
        BY <1>1
      <4> QED
        BY <1>1, <3>2, <4>2, <4>3, PathFacts
    <3> QED
      BY <1>1, <3>1, <3>2
  <2>2. CASE r.op \in {"readdir", "open"}
    <3>1. Named(v, p, Len(p)) # {}
      BY <1>2, <2>2 DEF Legal, Dirs, Files
    <3>2. Len(p) \in 0 .. Len(p) /\ k \in 0 .. Len(p) /\ k < Len(p)
      BY <1>1
    <3> QED
      BY <1>1, <3>1, <3>2, PathFacts
  <2> QED
    BY <2>1, <2>2 DEF Ops
<1> QED
  BY <1>1, <1>2, <1>4 DEF Legal

LEMMA NothingSeen == \A r, n : View(r, NoAnswer, n) = NoAnswer
<1> SUFFICES ASSUME NEW n
             PROVE  [NoAnswer EXCEPT !.data = Cut(@, n)] = NoAnswer
  BY DEF View
<1>1. Cut(<<>>, n) = <<>>
  BY DEF Cut
<1> QED
  BY <1>1 DEF NoAnswer

LEMMA SubmitServes ==
  ASSUME NEW w, Alone(w), Submit(w)
  PROVE  FsStep
<1>1. /\ w \in Workers /\ Workers = {w} /\ th = [u \in Workers |-> th[w]]
      /\ Remembered /\ vol \in Volumes
  BY AloneFacts DEF Alone, FsInv
<1>2. PICK r \in Inputs : KernelAsks(r) /\ th' = [th EXCEPT ![w] =
        [Fresh(r) EXCEPT !.pc = IF r.op = "read" THEN "rd0" ELSE "tok0"]]
  BY DEF Submit
<1> DEFINE t == [Fresh(r) EXCEPT !.pc = IF r.op = "read" THEN "rd0" ELSE "tok0"]
<1>3. /\ t.pc = (IF r.op = "read" THEN "rd0" ELSE "tok0")
      /\ t.req = r /\ t.ans = NoAnswer /\ t.plist = <<>> /\ t.got = <<>>
  BY DEF Fresh
<1>4. th' = [u \in Workers |-> t] /\ th[w].pc = "idle" /\ UNCHANGED <<vol, dcache, handles>>
  BY <1>1, <1>2 DEF Submit
<1> HIDE DEF t
<1>5. r \in Request
  <2>1. {h.fh : h \in handles} \union {0} \subseteq U16
    <3>1. \A h \in handles : h.fh \in U16
      BY DEF Alone, IInv, SharedType
    <3>2. 0 \in U16
      BY DEF U16
    <3> QED
      BY <3>1, <3>2
  <2>2. /\ Sizes \union {0} \subseteq Nat /\ Offsets \union {0} \subseteq Nat
        /\ Paths \subseteq Seq(Component)
    BY RequestAssumption
  <2> QED
    BY <2>1, <2>2 DEF Inputs, Request
<1>6. Legal(vol, r)
  <2>1. r.path \in Paths /\ r.off = 0
    BY DEF Inputs, Alone
  <2>2. \A p : Knows(p, "dir") => Dirs(Fs!Resolve(vol, p)) # {}
    BY <1>1 DEF Remembered, Dirs, Knows
  <2>3. \A p : Knows(p, "file") => Files(Fs!Resolve(vol, p)) # {}
    BY <1>1 DEF Remembered, Files, Knows
  <2>4. [path |-> r.path, fh |-> r.fh] \in handles =>
          \E e \in Files(Fs!Resolve(vol, r.path)) : e.clus = r.fh
    BY <1>1 DEF Remembered
  <2> QED
    BY <1>2, <2>1, <2>2, <2>3, <2>4 DEF Legal, KernelAsks
<1>7. ServeInv(vol, t) /\ LookInv(vol, t) /\ PathInv(t, strtokp') /\ Told(w)'
  <2>1. ServeInv(vol, t) /\ LookInv(vol, t) /\ PathInv(t, strtokp')
    BY <1>3, <1>6 DEF ServeInv, LookInv, PathInv, Parsing, Looking, Entering, Reading
  <2>2. r.op \in {"open", "read"} => \E d \in dcache : d.path = r.path
    <3>1. [path |-> r.path, fh |-> r.fh] \in handles => \E d \in dcache : d.path = r.path
      BY <1>1 DEF Remembered
    <3> QED
      BY <1>2, <3>1 DEF KernelAsks, Knows
  <2>3. Told(w)'
    BY <1>1, <1>3, <1>4, <2>2 DEF Told
  <2> QED
    BY <2>1, <2>3
<1>8. FsInv'
  <2>1. Remembered'
    BY <1>1, <1>4 DEF Remembered
  <2> QED
    BY <1>1, <1>4, <1>7, <2>1 DEF FsInv
<1>9. Fs!Ask(w)
  <2>1. {u \in Workers : th[u].pc # "idle"} = {}
    BY <1>1, <1>4
  <2>2. {u \in Workers : th[u].pc # "idle"}' = {w}
    BY <1>1, <1>3, <1>4
  <2>3. [u \in Workers |-> IF th[u].pc = "idle" THEN NoRequest ELSE th[u].req]'
          = [[u \in Workers |-> IF th[u].pc = "idle" THEN NoRequest ELSE th[u].req]
               EXCEPT ![w] = r]
    BY <1>1, <1>3, <1>4
  <2>4. [u \in Workers |-> Seen(u)]' = [[u \in Workers |-> Seen(u)] EXCEPT ![w] = NoAnswer]
    <3>1. Seen(w)' = View(r, NoAnswer, KnownSize(r.path)')
      BY <1>1, <1>3, <1>4 DEF Seen, View
    <3>2. Seen(w)' = NoAnswer
      BY <3>1, NothingSeen
    <3> QED
      BY <1>1, <3>2
  <2>5. [u \in Workers |-> IF th[u].pc = "idle" THEN NoRequest ELSE th[u].req]'[w] = r
    BY <1>1, <1>3, <1>4
  <2> QED
    BY <1>4, <1>5, <2>1, <2>2, <2>3, <2>4, <2>5, SameNames DEF Fs!Ask
<1> QED
  BY <1>1, <1>8, <1>9 DEF FsStep, Fs!Next

\* parse_path has this plist, and goes on or is done.
Tokenised(w, pc, pl) ==
  /\ th' = [th EXCEPT ![w] = [th[w] EXCEPT !.pc = pc, !.plist = pl]]
  /\ UNCHANGED <<vol, dcache, handles>>

LEMMA StrtokServes ==
  ASSUME NEW w, Alone(w), StrtokFirst(w) \/ StrtokNext(w)
  PROVE  FsStep
<1> DEFINE s == th[w]
           p == s.req.path
<1>1. /\ s \in Local /\ w \in Workers /\ Workers = {w}
      /\ ServeInv(vol, s) /\ LookInv(vol, s) /\ PathInv(s, strtokp)
      /\ s.pc \in Parsing
  BY AloneFacts DEF Alone, StrtokFirst, StrtokNext, Parsing
<1>2. /\ p \in Seq(Component) /\ Len(p) \in Nat /\ Len(p) < MaxTokens
      /\ s.plist \in Seq(Tokens) /\ Len(s.plist) \in Nat
  BY <1>1, RequestAssumption DEF Local, Request, ServeInv, Legal, Parsing
<1> HIDE DEF p
<1>3. ASSUME NEW pl, Tokenised(w, "dispatch", pl), Len(pl) = Len(p), Spelled(pl, p)
      PROVE  FsStep
  <2> DEFINE t == [s EXCEPT !.pc = "dispatch", !.plist = pl]
  <2>1. t.pc = "dispatch" /\ t.plist = pl /\ t.req = s.req /\ t.ans = s.ans
    BY <1>1 DEF Local
  <2>2. th' = [th EXCEPT ![w] = t] /\ UNCHANGED <<vol, dcache, handles>>
    BY <1>3 DEF Tokenised
  <2> HIDE DEF t
  <2>3. ServeInv(vol, t) /\ LookInv(vol, t)
    BY <1>1, <2>1 DEF ServeInv, LookInv, Parsing, Looking, Entering, Reading
  <2>4. PathInv(t, strtokp')
    BY <1>3, <2>1 DEF PathInv, Looking, Entering, p
  <2>5. s.pc # "idle"
    BY <1>1 DEF Parsing
  <2> QED
    BY <2>1, <2>2, <2>3, <2>4, <2>5, Within
<1>4. ASSUME NEW pl, Tokenised(w, "tok", pl), Len(pl) \in 1 .. Len(p), Spelled(pl, p),
             strtokp'.path = p, strtokp'.at = Len(pl) + 1
      PROVE  FsStep
  <2> DEFINE t == [s EXCEPT !.pc = "tok", !.plist = pl]
  <2>1. t.pc = "tok" /\ t.plist = pl /\ t.req = s.req /\ t.ans = s.ans
    BY <1>1 DEF Local
  <2>2. th' = [th EXCEPT ![w] = t] /\ UNCHANGED <<vol, dcache, handles>>
    BY <1>4 DEF Tokenised
  <2> HIDE DEF t
  <2>3. ServeInv(vol, t) /\ LookInv(vol, t)
    BY <1>1, <2>1 DEF ServeInv, LookInv, Parsing, Looking, Entering, Reading
  <2>4. PathInv(t, strtokp')
    BY <1>4, <2>1 DEF PathInv, Looking, Entering, p
  <2>5. s.pc # "idle"
    BY <1>1 DEF Parsing
  <2> QED
    BY <2>1, <2>2, <2>3, <2>4, <2>5, Within
<1>5. CASE StrtokFirst(w)
  <2>1. s.plist = <<>> /\ UNCHANGED <<vol, dcache, handles>>
    BY <1>1, <1>5 DEF StrtokFirst, PathInv
  <2>2. CASE p = <<>>
    <3>1. Tokenised(w, "dispatch", s.plist)
      <4>1. th' = [th EXCEPT ![w].pc = "dispatch"]
        BY <1>5, <2>2 DEF StrtokFirst, p
      <4> QED
        BY <1>1, <2>1, <4>1 DEF Local, Tokenised
    <3>2. Len(s.plist) = Len(p) /\ Spelled(s.plist, p)
      BY <2>1, <2>2 DEF Spelled
    <3> QED
      BY <1>3, <2>1, <3>1, <3>2
  <2>3. CASE p # <<>>
    <3> DEFINE pl == <<Token(w, p[1])>>
    <3>1. Tokenised(w, "tok", pl)
      BY <1>1, <1>5, <2>1, <2>3 DEF StrtokFirst, Tokenised, p
    <3>2. Len(pl) = 1 /\ pl[1].name = p[1]
      BY DEF Token
    <3> HIDE DEF pl
    <3>3. Len(p) >= 1
      BY <1>2, <2>3
    <3>4. strtokp'.path = p /\ strtokp'.at = 2
      BY <1>5, <2>3 DEF StrtokFirst, p
    <3>5. Spelled(pl, p)
      BY <3>2 DEF Spelled
    <3>6. Len(pl) \in 1 .. Len(p) /\ strtokp'.at = Len(pl) + 1
      BY <1>2, <3>2, <3>3, <3>4
    <3> QED
      BY <1>4, <3>1, <3>4, <3>5, <3>6
  <2> QED
    BY <2>2, <2>3
<1>6. CASE StrtokNext(w)
  <2>1. /\ strtokp.path = p /\ strtokp.at = Len(s.plist) + 1
        /\ Len(s.plist) \in 1 .. Len(p) /\ Spelled(s.plist, p)
        /\ UNCHANGED <<vol, dcache, handles>>
    BY <1>1, <1>6 DEF StrtokNext, PathInv, p
  <2>2. CASE Len(s.plist) < Len(p)
    <3> DEFINE tk == Token(strtokp.own, p[strtokp.at])
               pl == Append(s.plist, tk)
    <3>1. strtokp.at <= Len(strtokp.path) /\ Len(s.plist) < MaxTokens
      BY <1>2, <2>1, <2>2, RequestAssumption
    <3>2. Tokenised(w, "tok", pl)
      <4>1. th' = [th EXCEPT ![w].plist = Append(@, tk)] /\ s.pc = "tok"
        BY <1>6, <2>1, <3>1 DEF StrtokNext
      <4> HIDE DEF tk
      <4> QED
        BY <1>1, <2>1, <4>1 DEF Local, Tokenised
    <3>3. strtokp' = [strtokp EXCEPT !.at = @ + 1]
      BY <1>6, <3>1 DEF StrtokNext
    <3>4. strtokp'.path = p /\ strtokp'.at = Len(s.plist) + 2
      <4>1. strtokp \in [own : Workers, path : Seq(Component), at : Nat \ {0}, live : BOOLEAN]
        BY DEF Alone, IInv, SharedType
      <4> QED
        BY <1>2, <2>1, <3>3, <4>1
    <3>5. tk.name = p[Len(s.plist) + 1]
      BY <2>1 DEF Token
    <3> HIDE DEF tk
    <3>6. /\ Len(pl) = Len(s.plist) + 1 /\ pl[Len(s.plist) + 1] = tk
          /\ \A k \in 1 .. Len(s.plist) : pl[k] = s.plist[k]
      BY <1>2
    <3> HIDE DEF pl
    <3>7. Spelled(pl, p)
      <4> SUFFICES ASSUME NEW k \in 1 .. Len(pl)
                   PROVE  pl[k].name = p[k]
        BY DEF Spelled
      <4>1. CASE k = Len(s.plist) + 1
        BY <3>5, <3>6, <4>1
      <4>2. CASE k \in 1 .. Len(s.plist)
        BY <2>1, <3>6, <4>2 DEF Spelled
      <4> QED
        BY <1>2, <3>6, <4>1, <4>2
    <3> QED
      BY <1>2, <1>4, <2>1, <2>2, <3>2, <3>4, <3>6, <3>7
  <2>3. CASE Len(s.plist) = Len(p)
    <3>1. ~ (strtokp.at <= Len(strtokp.path))
      BY <1>2, <2>1, <2>3
    <3>2. th' = [th EXCEPT ![w].pc = "dispatch"]
      BY <1>6, <3>1 DEF StrtokNext
    <3>3. Tokenised(w, "dispatch", s.plist)
      BY <1>1, <2>1, <3>2 DEF Local, Tokenised
    <3> QED
      BY <1>3, <2>1, <2>3, <3>3
  <2> QED
    BY <1>2, <2>1, <2>2, <2>3
<1> QED
  BY <1>5, <1>6

\* What a handler knows once its path is split.
LEMMA LookFacts ==
  ASSUME NEW w, Alone(w), th[w].pc \in {"dispatch"} \union Looking
  PROVE  LET s == th[w]
             p == s.req.path IN
         /\ w \in Workers /\ s \in Local /\ vol \in Volumes /\ Sound(vol, Paths)
         /\ s.pc # "idle" /\ LookInv(vol, s)
         /\ Legal(vol, s.req) /\ s.req.op \in Ops \ {"read"} /\ s.req.off = 0
         /\ p \in Paths /\ p \in Seq(Component) /\ Len(p) \in Nat
         /\ Len(s.plist) = Len(p) /\ (\A k \in 1 .. Len(p) : s.plist[k].name = p[k])
         /\ (s.pc \in Looking => s.idx \in 1 .. Len(p))
<1> DEFINE s == th[w]
           p == s.req.path
<1>1. /\ s \in Local /\ w \in Workers /\ vol \in Volumes /\ Sound(vol, Paths)
      /\ ServeInv(vol, s) /\ LookInv(vol, s) /\ PathInv(s, strtokp)
  BY AloneFacts DEF Alone
<1>2. s.pc # "idle"
  BY DEF Looking, Entering
<1>3. Legal(vol, s.req) /\ s.req.op \in Ops \ {"read"}
  BY <1>1, <1>2 DEF ServeInv, Local, Request
<1>4. p \in Paths /\ p \in Seq(Component) /\ Len(p) \in Nat /\ s.req.off = 0
  BY <1>3, RequestAssumption DEF Legal
<1>5. /\ Len(s.plist) = Len(p) /\ (\A k \in 1 .. Len(p) : s.plist[k].name = p[k])
      /\ (s.pc \in Looking => s.idx \in 1 .. Len(p))
  BY <1>1 DEF PathInv, Spelled
<1> QED
  BY <1>1, <1>2, <1>3, <1>4, <1>5

LEMMA LookStep ==
  ASSUME NEW w, Alone(w), th[w].pc \in {"dispatch"} \union Looking,
         NEW t, th' = [th EXCEPT ![w] = t], UNCHANGED <<vol, dcache, handles>>,
         t.pc \in Looking, t.req = th[w].req, t.ans = th[w].ans, t.plist = th[w].plist,
         t.idx \in 1 .. Len(t.req.path), LookInv(vol, t)
  PROVE  FsStep
<1>1. th[w].pc # "idle" /\ t.pc # "idle"
  BY DEF Looking, Entering
<1>2. ServeInv(vol, t)
  BY LookFacts DEF ServeInv, Parsing, Reading, Looking, Entering
<1>3. PathInv(t, strtokp')
  BY LookFacts DEF PathInv, Spelled, Looking, Entering
<1> QED
  BY <1>1, <1>2, <1>3, Within

\* What the n-th directory of a legal path is.
LEMMA OnPath ==
  ASSUME NEW w, Alone(w), th[w].pc \in {"dispatch"} \union Looking,
         NEW k \in 0 .. Len(th[w].req.path)
  PROVE  LET p == th[w].req.path IN
         /\ Single(Named(vol, p, k))
         /\ \A e \in Named(vol, p, k) :
              /\ e.kind \in {"dir", "file"} /\ SoundEntry(vol, e)
              /\ (k < Len(p) \/ th[w].req.op = "readdir") => e \in Dirs(Named(vol, p, k))
              /\ k = Len(p) /\ th[w].req.op = "open" => e.kind = "file"
         /\ Named(vol, p, Len(p)) = Fs!Resolve(vol, p)
         /\ (k < Len(p) => Named(vol, p, k + 1) = Enter(vol, Named(vol, p, k), p[k + 1]))
         /\ (Named(vol, p, k) = {} => Fs!Resolve(vol, p) = {})
<1> DEFINE r == th[w].req
           p == r.path
<1>1. /\ vol \in Volumes /\ Sound(vol, Paths) /\ Legal(vol, r) /\ r.op \in Ops \ {"read"}
      /\ p \in Paths /\ p \in Seq(Component) /\ Len(p) \in Nat
  BY LookFacts
<1> HIDE DEF r
<1>2. Single(Named(vol, p, k))
  BY <1>1, PathFacts DEF r
<1>3. ASSUME NEW e \in Named(vol, p, k)
      PROVE  e.kind \in {"dir", "file"} /\ SoundEntry(vol, e)
  BY <1>1, PathFacts DEF r
<1>4. ASSUME NEW e \in Named(vol, p, k), k < Len(p) \/ r.op = "readdir"
      PROVE  e \in Dirs(Named(vol, p, k))
  <2>1. Dirs(Named(vol, p, k)) # {}
    <3>1. CASE k < Len(p)
      <4>1. k \in 0 .. Len(p) - 1
        BY <1>1, <3>1 DEF r
      <4> QED
        BY <1>1, <4>1, LegalPrefix
    <3>2. CASE k = Len(p)
      BY <1>1, <1>4, <3>2, LegalPrefix
    <3> QED
      BY <1>1, <3>1, <3>2 DEF r
  <2> QED
    BY <1>2, <2>1 DEF Single, Dirs
<1>5. ASSUME NEW e \in Named(vol, p, k), k = Len(p), r.op = "open"
      PROVE  e.kind = "file"
  <2>1. Files(Named(vol, p, k)) # {}
    BY <1>1, <1>5, LegalPrefix
  <2> QED
    BY <1>2, <2>1 DEF Single, Files
<1>6. Named(vol, p, Len(p)) = Fs!Resolve(vol, p)
  BY <1>1, Resolving
<1>7. ASSUME k < Len(p)
      PROVE  Named(vol, p, k + 1) = Enter(vol, Named(vol, p, k), p[k + 1])
  <2>1. k \in 0 .. Len(p) - 1
    BY <1>1, <1>7 DEF r
  <2> QED
    BY <1>1, <2>1, Resolving
<1>8. ASSUME Named(vol, p, k) = {}
      PROVE  Fs!Resolve(vol, p) = {}
  <2>1. CASE k = Len(p)
    BY <1>6, <1>8, <2>1
  <2>2. CASE k < Len(p)
    <3>1. Dirs(Named(vol, p, k)) = {} /\ Len(p) \in 0 .. Len(p) /\ k \in 0 .. Len(p)
      BY <1>1, <1>8 DEF Dirs, r
    <3>2. Named(vol, p, Len(p)) = {}
      BY <1>1, <2>2, <3>1, PathFacts
    <3> QED
      BY <1>6, <3>2
  <2> QED
    BY <1>1, <2>1, <2>2 DEF r
<1> QED
  BY <1>2, <1>3, <1>4, <1>5, <1>6, <1>7, <1>8 DEF r

LEMMA ListedNames ==
  ASSUME NEW v, NEW e, PlainDirectory(Fs!Entries(v, e))
  PROVE  ListAnswer(v, e) = [NoAnswer EXCEPT !.err = "ok", !.names = Names(Fs!Entries(v, e))]
<1> DEFINE d == Fs!Entries(v, e)
<1>1. \A x : x \in Fs!Contents(v, e) <=> \E i \in Listed(d) : x = d[i]
  BY MembersListed DEF Fs!Contents
<1> HIDE DEF d
<1>2. \A i \in Listed(d) : Plain(d[i])
  BY DEF PlainDirectory, d
<1>3. \A i \in Listed(d) : Fs!ShownName(d[i]) = NameOf(d[i])
  BY <1>2, ShownNameOf
<1>4. {Fs!ShownName(x) : x \in Fs!Contents(v, e)} = Names(d)
  <2>1. \A n : n \in Names(d) <=> \E i \in Listed(d) : n = NameOf(d[i])
    BY DEF Names
  <2>2. \A n : n \in {Fs!ShownName(x) : x \in Fs!Contents(v, e)}
                <=> \E x \in Fs!Contents(v, e) : n = Fs!ShownName(x)
    OBVIOUS
  <2>3. \A n : n \in {Fs!ShownName(x) : x \in Fs!Contents(v, e)} <=> n \in Names(d)
    BY <1>1, <1>3, <2>1, <2>2
  <2> HIDE DEF d
  <2> QED
    BY <2>3
<1> QED
  BY <1>4 DEF ListAnswer, d

LEMMA DispatchServes ==
  ASSUME NEW w, Alone(w), DispatchRoot(w) \/ DispatchDir(w)
  PROVE  FsStep
<1> DEFINE s == th[w]
           r == s.req
           p == r.path
<1>1. s.pc = "dispatch" /\ s.pc \in {"dispatch"} \union Looking
  BY DEF DispatchRoot, DispatchDir
<1>2. /\ w \in Workers /\ s \in Local /\ vol \in Volumes
      /\ r.op \in Ops \ {"read"} /\ r.off = 0 /\ p \in Seq(Component) /\ Len(p) \in Nat
      /\ Len(s.plist) = Len(p) /\ s.plist \in Seq(Tokens)
  BY <1>1, LookFacts DEF Local
<1>3. 0 \in 0 .. Len(p) /\ Len(p) \in 0 .. Len(p)
  BY <1>2
<1>4. Named(vol, p, 0) = {Fs!Root} /\ Fs!Entries(vol, Fs!Root) = vol.root
  BY <1>2, Resolving DEF Fs!Entries
<1>5. CASE DispatchDir(w)
  <2> DEFINE t == [s EXCEPT !.pc = "search", !.idx = 1, !.dir = vol.root]
  <2>1. /\ t.pc = "search" /\ t.idx = 1 /\ t.dir = vol.root
        /\ t.req = r /\ t.ans = s.ans /\ t.plist = s.plist
    BY <1>2 DEF Local
  <2>2. th' = [th EXCEPT ![w] = t] /\ UNCHANGED <<vol, dcache, handles>>
    BY <1>5 DEF DispatchDir
  <2> HIDE DEF t
  <2>3. 1 \in 1 .. Len(p)
    BY <1>2, <1>5 DEF DispatchDir
  <2>4. LookInv(vol, t)
    <3>1. Fs!Root \in Dirs(Named(vol, p, 0))
      BY <1>4, RootKind DEF Dirs
    <3>2. \E d \in Dirs(Named(vol, p, 0)) : t.dir = Fs!Entries(vol, d)
      BY <1>4, <2>1, <3>1
    <3>3. t.idx - 1 = 0 /\ t.req.path = p
      BY <2>1
    <3> QED
      BY <2>1, <3>2, <3>3 DEF LookInv, Entering
  <2>5. t.pc \in Looking
    BY <2>1 DEF Looking
  <2> QED
    BY <1>1, <2>1, <2>2, <2>3, <2>4, <2>5, LookStep
<1>6. CASE DispatchRoot(w)
  <2> DEFINE a == CASE r.op = "getattr" ->
                        [NoAnswer EXCEPT !.err = "ok", !.kind = "dir"]
                   [] r.op = "readdir" ->
                        [NoAnswer EXCEPT !.err = "ok", !.names = Names(vol.root)]
                   [] OTHER -> Error("ENOENT")
  <2>1. Finish(w, a, 0) /\ vol' = vol
    BY <1>6 DEF DispatchRoot
  <2>2. Len(p) = 0 /\ Fs!Resolve(vol, p) = {Fs!Root}
    <3>1. Len(p) = 0
      BY <1>2, <1>6 DEF DispatchRoot
    <3> QED
      BY <1>2, <1>4, <3>1, Resolving
  <2>3. r.op \in {"getattr", "readdir"}
    <3>1. r.op = "open" => Fs!Root.kind = "file"
      BY <1>1, <1>3, <1>4, <2>2, OnPath
    <3> QED
      BY <1>2, <3>1, RootKind DEF Ops
  <2>4. a = Fs!PromiseOn(vol, r, Fs!Root)
    <3>1. CASE r.op = "getattr"
      <4>1. a = AttrAnswer(Fs!Root)
        BY <3>1, RootKind DEF AttrAnswer
      <4> HIDE DEF a
      <4> QED
        BY <3>1, <4>1, RootKind, PromiseCases
    <3>2. CASE r.op = "readdir"
      <4>1. a = [NoAnswer EXCEPT !.err = "ok", !.names = Names(vol.root)]
        <5>1. r.op # "getattr"
          BY <3>2
        <5> QED
          BY <3>2, <5>1, Zenon
      <4> HIDE DEF a
      <4>2. PlainDirectory(Fs!Entries(vol, Fs!Root))
        <5>1. SoundEntry(vol, Fs!Root)
          BY <1>1, <1>3, <1>4, OnPath
        <5> QED
          BY <5>1, RootKind DEF SoundEntry
      <4>3. a = ListAnswer(vol, Fs!Root)
        BY <1>4, <4>1, <4>2, ListedNames
      <4> QED
        BY <3>2, <4>3, RootKind, PromiseCases
    <3> QED
      BY <2>3, <3>1, <3>2
  <2> HIDE DEF a
  <2>5. Answers(vol, r, a)
    BY <1>2, <2>2, <2>3, <2>4, RootKind, AnswerFound
  <2>6. s.pc # "idle"
    BY <1>1
  <2> QED
    BY <2>1, <2>5, <2>6, Finishing
<1> QED
  BY <1>5, <1>6

LEMMA NamesAreText == \A n \in Component : n # Freed
<1> SUFFICES ASSUME NEW n \in Component
             PROVE  n # Freed
  OBVIOUS
<1>1. CASE \E b \in Bases : n = <<b>>
  BY <1>1 DEF Freed
<1>2. CASE \E b \in Bases, x \in Exts : n = <<b, x>>
  BY <1>2 DEF Freed
<1> QED
  BY <1>1, <1>2 DEF Component

LEMMA SearchServes ==
  ASSUME NEW w, Alone(w), SearchMiss(w) \/ SearchHit(w)
  PROVE  FsStep
<1> DEFINE s == th[w]
           r == s.req
           p == r.path
           j == s.idx
           S == Named(vol, p, j - 1)
<1>1. s.pc = "search" /\ s.pc \in {"dispatch"} \union Looking /\ s.pc # "idle"
  BY DEF SearchMiss, SearchHit, Looking
<1>2. /\ w \in Workers /\ s \in Local /\ vol \in Volumes
      /\ r.op \in Ops \ {"read"} /\ r.off = 0 /\ p \in Seq(Component) /\ Len(p) \in Nat
      /\ Len(s.plist) = Len(p) /\ j \in 1 .. Len(p) /\ s.plist[j].name = p[j]
      /\ LookInv(vol, s) /\ p[j] \in Component
  BY <1>1, LookFacts
<1>3. j - 1 \in 0 .. Len(p) /\ j - 1 < Len(p) /\ j \in 0 .. Len(p) /\ (j - 1) + 1 = j
  BY <1>2
<1>4. Single(S) /\ Named(vol, p, j) = Enter(vol, S, p[j])
  BY <1>1, <1>3, OnPath
<1> HIDE DEF j, r
<1>5. PICK d \in Dirs(S) : s.dir = Fs!Entries(vol, d)
  BY <1>1, <1>2 DEF LookInv, j, r
<1>6. PlainDirectory(s.dir)
  <2>1. d \in Named(vol, p, j - 1) /\ d.kind = "dir"
    BY <1>5 DEF Dirs
  <2>2. SoundEntry(vol, d)
    BY <1>1, <1>3, <2>1, OnPath DEF j, r
  <2> QED
    BY <1>5, <2>1, <2>2 DEF SoundEntry
<1>7. p[j] # Freed
  BY <1>2, NamesAreText
<1>8. \A e : e \in Named(vol, p, j) <=>
             \E i \in Listed(s.dir) : e = s.dir[i] /\ NameOf(e) = p[j]
  <2>1. \A c \in Dirs(S) : c = d
    BY <1>4, <1>5 DEF Single, Dirs
  <2>2. PlainSet(vol, S)
    <3>1. \A e \in S : e.kind \in {"dir", "file"}
      BY <1>1, <1>3, OnPath DEF j, r
    <3> QED
      BY <1>5, <1>6, <2>1, <3>1 DEF PlainSet
  <2> QED
    BY <1>4, <1>5, <2>1, <2>2, EnterFacts
<1>9. Len(s.dir) \in Nat
  BY <1>2 DEF Local
<1>10. CASE SearchMiss(w)
  <2>1. Finish(w, Error("ENOENT"), 0) /\ vol' = vol /\ 0 \in SearchDirs(s.dir, p[j])
    BY <1>2, <1>10 DEF SearchMiss, j
  <2>2. Named(vol, p, j) = {}
    BY <1>6, <1>7, <1>8, <1>9, <2>1, SearchFacts
  <2>3. Fs!Resolve(vol, p) = {}
    BY <1>1, <1>3, <2>2, OnPath DEF r
  <2>4. Answers(vol, r, Error("ENOENT"))
    BY <1>2, <2>3, AnswerMissing
  <2> QED
    BY <1>1, <2>1, <2>4, Finishing DEF r
<1>11. CASE SearchHit(w)
  <2> DEFINE q == IF j = Len(s.plist) THEN "found" ELSE "count0"
             h == IF j > 1 THEN s.held - 1 ELSE s.held
             t(i) == [s EXCEPT !.rval = s.dir[i], !.held = h, !.dir = <<>>, !.pc = q]
  <2>1. PICK hit \in SearchDirs(s.dir, p[j]) \ {0} : th' = [th EXCEPT ![w] = t(hit)]
    <3>1. PICK hit \in SearchDirs(s.dir, s.plist[j].name) \ {0} : th' = [th EXCEPT ![w] = t(hit)]
      BY <1>11 DEF SearchHit, Alone, IInv, j
    <3> QED
      BY <1>2, <3>1
  <2>2. /\ t(hit).rval = s.dir[hit] /\ t(hit).pc = q /\ t(hit).idx = j
        /\ t(hit).req = r /\ t(hit).ans = s.ans /\ t(hit).plist = s.plist
    BY <1>2 DEF Local, j, r
  <2>3. UNCHANGED <<vol, dcache, handles>>
    BY <1>11 DEF SearchHit
  <2> HIDE DEF t
  <2>4. s.dir[hit] \in Named(vol, p, j)
    BY <1>6, <1>7, <1>8, <1>9, SearchFacts
  <2>5. t(hit).pc \in Looking
    BY <2>2 DEF Looking, Entering
  <2>6. LookInv(vol, t(hit))
    <3>1. CASE j = Len(p)
      BY <1>2, <2>2, <2>4, <3>1 DEF LookInv, Entering
    <3>2. CASE j # Len(p)
      <4>1. s.dir[hit] \in Dirs(Named(vol, p, j))
        <5>1. j < Len(p)
          BY <1>2, <3>2
        <5> QED
          BY <1>1, <1>3, <2>4, <5>1, OnPath DEF r
      <4> QED
        BY <1>2, <2>2, <3>2, <4>1 DEF LookInv, Entering
    <3> QED
      BY <3>1, <3>2
  <2> QED
    BY <1>1, <1>2, <2>1, <2>2, <2>3, <2>5, <2>6, LookStep DEF r
<1> QED
  BY <1>10, <1>11

LEMMA FoundServes ==
  ASSUME NEW w, Alone(w), FoundAnswer(w) \/ FoundDir(w)
  PROVE  FsStep
<1> DEFINE s == th[w]
           r == s.req
           p == r.path
           e == s.rval
<1>1. s.pc = "found" /\ s.pc \in {"dispatch"} \union Looking /\ s.pc # "idle"
  BY DEF FoundAnswer, FoundDir, Looking
<1>2. /\ w \in Workers /\ s \in Local /\ vol \in Volumes
      /\ r.op \in Ops \ {"read"} /\ r.off = 0 /\ p \in Seq(Component) /\ Len(p) \in Nat
      /\ s.idx \in 1 .. Len(p) /\ LookInv(vol, s)
  BY <1>1, LookFacts
<1>3. /\ s.idx = Len(p) /\ Len(p) \in 0 .. Len(p)
      /\ e \in Named(vol, p, Len(p)) /\ Named(vol, p, Len(p)) = Fs!Resolve(vol, p)
  <2>1. s.idx = Len(p) /\ e \in Named(vol, p, s.idx) /\ Len(p) \in 0 .. Len(p)
    BY <1>1, <1>2 DEF LookInv
  <2> QED
    BY <1>1, <2>1, OnPath
<1>4. /\ e.kind \in {"dir", "file"}
      /\ r.op = "open" => e.kind = "file"
      /\ r.op = "readdir" => e \in Dirs(Named(vol, p, Len(p)))
  BY <1>1, <1>3, OnPath
<1>5. CASE FoundAnswer(w)
  <2> DEFINE a == IF r.op = "open"
                  THEN [NoAnswer EXCEPT !.err = "ok", !.fh = e.clus]
                  ELSE IF e.kind = "dir"
                  THEN [NoAnswer EXCEPT !.err = "ok", !.kind = "dir"]
                  ELSE [NoAnswer EXCEPT !.err = "ok", !.kind = "file", !.size = e.size]
  <2>1. Finish(w, a, 0) /\ vol' = vol /\ r.op # "readdir"
    BY <1>5 DEF FoundAnswer
  <2>2. a = Fs!PromiseOn(vol, r, e)
    <3>1. CASE r.op = "open"
      <4>1. a = OpenAnswer(e)
        BY <3>1 DEF OpenAnswer
      <4> HIDE DEF a
      <4> QED
        BY <1>4, <3>1, <4>1, PromiseCases
    <3>2. CASE r.op = "getattr"
      <4>1. a = AttrAnswer(e)
        BY <3>2 DEF AttrAnswer
      <4> HIDE DEF a
      <4> QED
        BY <1>4, <3>2, <4>1, PromiseCases
    <3> QED
      BY <1>2, <2>1, <3>1, <3>2 DEF Ops
  <2> HIDE DEF a
  <2>3. Answers(vol, r, a)
    BY <1>2, <1>3, <1>4, <2>2, AnswerFound
  <2> QED
    BY <1>1, <2>1, <2>3, Finishing
<1>6. CASE FoundDir(w)
  <2> DEFINE t == [s EXCEPT !.pc = "count0"]
  <2>1. /\ t.pc = "count0" /\ t.idx = s.idx /\ t.rval = e
        /\ t.req = r /\ t.ans = s.ans /\ t.plist = s.plist
    BY <1>2 DEF Local
  <2>2. th' = [th EXCEPT ![w] = t] /\ UNCHANGED <<vol, dcache, handles>> /\ r.op = "readdir"
    <3>1. th' = [th EXCEPT ![w].pc = "count0"]
      BY <1>6 DEF FoundDir
    <3>2. th' = [th EXCEPT ![w] = t]
      BY <3>1
    <3> QED
      BY <1>6, <3>2 DEF FoundDir
  <2> HIDE DEF t
  <2>3. LookInv(vol, t) /\ t.pc \in Looking
    BY <1>3, <1>4, <2>1, <2>2 DEF LookInv, Looking, Entering
  <2> QED
    BY <1>1, <1>2, <2>1, <2>2, <2>3, LookStep
<1> QED
  BY <1>5, <1>6

\* A directory on one cluster, marked as the end of its chain.
LEMMA OneCluster ==
  ASSUME NEW w, Alone(w), th[w].pc \in {"count", "seek", "fread"}
  PROVE  LET c == th[w].rval.clus IN
         /\ th[w].rval \in Dirs(Named(vol, th[w].req.path, th[w].idx))
         /\ c > 1 /\ c \in Nat /\ c \in DOMAIN vol.fat /\ th[w].clus = c /\ th[w].n = 1
         /\ th[w].rval # Fs!Root
         /\ Len(Fs!Chain(vol, c)) = 1 /\ Fs!Chain(vol, c)[1] = c
         /\ vol.fat[c] > BadClus /\ SlotOf(c) + ClusterSize <= Len(vol.disk)
<1> DEFINE s == th[w]
           e == s.rval
           c == e.clus
           p == s.req.path
<1>1. s.pc \in Entering /\ s.pc \in {"dispatch"} \union Looking
  BY DEF Looking, Entering
<1>2. vol \in Volumes /\ LookInv(vol, s) /\ s.idx \in 1 .. Len(p) /\ Len(p) \in Nat
  BY <1>1, LookFacts DEF Looking, Entering
<1>3. /\ e \in Dirs(Named(vol, p, s.idx)) /\ c > 1 /\ s.n = 1 /\ s.clus = c
  BY <1>1, <1>2 DEF LookInv
<1>4. SoundEntry(vol, e) /\ e.kind = "dir"
  <2>1. e \in Named(vol, p, s.idx) /\ e.kind = "dir" /\ s.idx \in 0 .. Len(p)
    BY <1>2, <1>3 DEF Dirs
  <2> QED
    BY <1>1, <2>1, OnPath
<1>5. e # Fs!Root
  <2>1. Fs!Root.clus = 0
    BY DEF Fs!Root
  <2>2. e = Fs!Root => e.clus = 0
    BY <2>1
  <2> QED
    BY <1>3, <2>2
<1>6. Countable(vol, c) /\ Len(Fs!Chain(vol, c)) = 1
  BY <1>4, <1>5 DEF SoundEntry
<1>7. Readable(vol, c) /\ LastValue(vol, c) > BadClus
  BY <1>6 DEF Countable
<1>8. /\ Fs!Chain(vol, c)[1] = c /\ c \in DOMAIN vol.fat /\ c \in Nat
      /\ SlotOf(c) + ClusterSize <= Len(vol.disk)
  BY <1>2, <1>6, <1>7, ChainFacts
<1>9. vol.fat[c] > BadClus
  BY <1>6, <1>7, <1>8 DEF LastValue
<1> QED
  BY <1>3, <1>5, <1>6, <1>8, <1>9

LEMMA CountServes ==
  ASSUME NEW w, Alone(w), (CountStart(w) /\ ~ Abort) \/ CountEnd(w)
  PROVE  FsStep
<1> DEFINE s == th[w]
           r == s.req
           p == r.path
           c == s.rval.clus
<1>1. s.pc \in {"count0", "count"} /\ s.pc \in {"dispatch"} \union Looking
  BY DEF CountStart, CountEnd, Looking, Entering
<1>2. w \in Workers /\ s \in Local /\ s.idx \in 1 .. Len(p) /\ LookInv(vol, s)
  BY <1>1, LookFacts DEF Looking, Entering
<1>3. /\ s.rval \in Dirs(Named(vol, p, s.idx))
      /\ s.idx = Len(p) => r.op = "readdir"
  BY <1>1, <1>2 DEF LookInv, Entering
<1> HIDE DEF c
<1>4. CASE CountStart(w) /\ ~ Abort
  <2> DEFINE t == [s EXCEPT !.pc = "count", !.n = 1, !.clus = c]
  <2>1. /\ t.pc = "count" /\ t.idx = s.idx /\ t.rval = s.rval /\ t.n = 1 /\ t.clus = c
        /\ t.req = r /\ t.ans = s.ans /\ t.plist = s.plist
    BY <1>2 DEF Local
  <2>2. th' = [th EXCEPT ![w] = t] /\ UNCHANGED <<vol, dcache, handles>> /\ c > 1
    BY <1>4 DEF CountStart, c
  <2> HIDE DEF t
  <2>3. LookInv(vol, t) /\ t.pc \in Looking
    BY <1>3, <2>1, <2>2 DEF LookInv, Looking, Entering, c
  <2> QED
    BY <1>1, <1>2, <2>1, <2>2, <2>3, LookStep
<1>5. CASE CountEnd(w)
  <2> DEFINE t(h, d) == [s EXCEPT !.pc = "seek", !.held = h, !.i = 0, !.clus = c, !.dir = d]
  <2>1. PICK h, d : th' = [th EXCEPT ![w].pc = "seek", ![w].held = h, ![w].i = 0,
                                     ![w].clus = c, ![w].dir = d]
    BY <1>5 DEF CountEnd, c
  <2>2. th' = [th EXCEPT ![w] = t(h, d)]
    BY <2>1
  <2>3. LET u == t(h, d) IN
        /\ u.pc = "seek" /\ u.idx = s.idx /\ u.rval = s.rval /\ u.n = s.n /\ u.clus = c
        /\ u.i = 0 /\ u.req = r /\ u.ans = s.ans /\ u.plist = s.plist
    BY <1>2 DEF Local
  <2>4. s.pc = "count" /\ UNCHANGED <<vol, dcache, handles>>
    BY <1>5 DEF CountEnd
  <2>5. c > 1 /\ s.n = 1
    BY <2>4, OneCluster DEF c
  <2> HIDE DEF t
  <2>6. LookInv(vol, t(h, d)) /\ t(h, d).pc \in Looking
    BY <1>3, <2>3, <2>5 DEF LookInv, Looking, Entering, c
  <2> QED
    BY <1>1, <1>2, <2>2, <2>3, <2>4, <2>6, LookStep
<1> QED
  BY <1>4, <1>5

\* On a sound image no directory has a second cluster or a bad end.
LEMMA NoBadChain ==
  ASSUME NEW w, Alone(w)
  PROVE  ~ CountNext(w) /\ ~ CountBadLookup(w) /\ ~ CountBadList(w)
<1> SUFFICES ASSUME th[w].pc = "count", NEW x \in FatDir(vol, th[w].clus), x <= BadClus
             PROVE  FALSE
  <2>1. ASSUME th[w].pc = "count", NEW x \in FatDir(vol, th[w].clus)
        PROVE  x \in Int /\ ~ (x < BadClus) /\ x # BadClus /\ x # 0
    <3>1. x \in Int
      BY <2>1, FatDirType DEF Alone
    <3>2. ~ (x <= BadClus)
      BY <2>1
    <3> QED
      BY <3>1, <3>2 DEF BadClus
  <2> QED
    BY <2>1 DEF CountNext, CountBadLookup, CountBadList
<1>1. x = vol.fat[th[w].clus] /\ x \in Int
  BY OneCluster, FatDirType DEF Alone
<1>2. x > BadClus
  BY <1>1, OneCluster
<1> QED
  BY <1>1, <1>2 DEF BadClus

LEMMA DirectoryInside ==
  ASSUME NEW w, Alone(w)
  PROVE  ~ FreadShortLookup(w) /\ ~ FreadShortList(w)
<1> SUFFICES ASSUME th[w].pc = "fread"
             PROVE  Inside(vol, fpos, ClusterSize)
  BY DEF FreadShortLookup, FreadShortList
<1>1. w \in Workers
  BY AloneFacts
<1>2. fpos = SlotOf(th[w].clus)
  BY <1>1 DEF Alone, SharedStateHeld
<1>3. /\ th[w].clus \in Nat /\ th[w].clus > 1
      /\ SlotOf(th[w].clus) + ClusterSize <= Len(vol.disk)
  BY OneCluster
<1>4. SlotOf(th[w].clus) >= 0
  BY <1>3, VolumeAssumption DEF SlotOf, SlotFrom
<1> QED
  BY <1>2, <1>3, <1>4 DEF Inside

\* The directory on one cluster is that cluster.
ClusterAt(v, c) == [k \in 1 .. ClusterSize |-> v.disk[SlotOf(c) + k]]

LEMMA OneClusterDirectory ==
  ASSUME NEW v \in Volumes, NEW e, e # Fs!Root,
         Len(Fs!Chain(v, e.clus)) = 1
  PROVE  Fs!Entries(v, e) = ClusterAt(v, Fs!Chain(v, e.clus)[1])
<1> DEFINE c == e.clus
           ch == Fs!Chain(v, c)
           s == Fs!Slots(v, c)
<1>1. Fs!Entries(v, e) = Fs!Directory(v, c)
  BY DEF Fs!Entries
<1>2. Fs!Directory(v, c) = [k \in 1 .. Len(s) |-> v.disk[s[k] + 1]]
  BY DEF Fs!Directory
<1>3. /\ Len(s) = Len(ch) * ClusterSize
      /\ \A j \in 0 .. Len(ch) - 1 : \A m \in 1 .. ClusterSize :
           s[j * ClusterSize + m] = SlotOf(ch[j + 1]) + m - 1
  BY SlotsFacts
<1> HIDE DEF s, ch, c
<1>4. ch[1] \in Nat /\ SlotOf(ch[1]) \in Int
  <2>1. \A k \in 1 .. Len(ch) : ch[k] \in Nat
    BY ChainType DEF ch
  <2>2. ch[1] \in Nat
    BY <2>1 DEF ch, c
  <2> QED
    BY <2>2, VolumeAssumption DEF SlotOf, SlotFrom
<1>5. Len(ch) = 1 /\ ClusterSize \in Nat
  BY VolumeAssumption DEF ch, c
<1>6. Len(s) = ClusterSize
  BY <1>3, <1>5
<1>7. \A m \in 1 .. ClusterSize : s[m] = SlotOf(ch[1]) + m - 1
  BY <1>3, <1>5
<1>8. \A m \in 1 .. ClusterSize : s[m] + 1 = SlotOf(ch[1]) + m
  BY <1>4, <1>5, <1>7
<1>9. [k \in 1 .. Len(s) |-> v.disk[s[k] + 1]]
        = [k \in 1 .. ClusterSize |-> v.disk[SlotOf(ch[1]) + k]]
  BY <1>6, <1>8
<1> QED
  BY <1>1, <1>2, <1>9 DEF ch, c, ClusterAt

LEMMA ReadDirServes ==
  ASSUME NEW w, Alone(w), Seek(w) \/ Fread(w)
  PROVE  FsStep
<1> DEFINE s == th[w]
           r == s.req
           p == r.path
           e == s.rval
           c == e.clus
<1>1. s.pc \in {"seek", "fread"} /\ s.pc \in {"dispatch"} \union Looking
  BY DEF Seek, Fread, Looking, Entering
<1>2. /\ w \in Workers /\ s \in Local /\ s.idx \in 1 .. Len(p) /\ LookInv(vol, s)
      /\ vol \in Volumes
  BY <1>1, LookFacts DEF Looking, Entering
<1>3. /\ s.idx = Len(p) => r.op = "readdir"
      /\ s.i = 0
  BY <1>1, <1>2 DEF LookInv, Entering
<1>4. /\ e \in Dirs(Named(vol, p, s.idx)) /\ s.clus = c /\ c > 1 /\ s.n = 1 /\ e # Fs!Root
      /\ Len(Fs!Chain(vol, c)) = 1 /\ Fs!Chain(vol, c)[1] = c
  BY <1>1, OneCluster
<1>5. CASE Seek(w)
  <2> DEFINE t == [s EXCEPT !.pc = "fread"]
  <2>1. /\ t.pc = "fread" /\ t.idx = s.idx /\ t.rval = e /\ t.n = 1 /\ t.clus = c /\ t.i = 0
        /\ t.req = r /\ t.ans = s.ans /\ t.plist = s.plist
    BY <1>2, <1>3, <1>4 DEF Local
  <2>2. th' = [th EXCEPT ![w].pc = "fread"] /\ UNCHANGED <<vol, dcache, handles>>
    BY <1>5 DEF Seek
  <2>3. th' = [th EXCEPT ![w] = t]
    BY <2>2
  <2> HIDE DEF t
  <2>4. LookInv(vol, t) /\ t.pc \in Looking
    BY <1>3, <1>4, <2>1 DEF LookInv, Looking, Entering
  <2> QED
    BY <1>1, <1>2, <2>1, <2>2, <2>3, <2>4, LookStep
<1>6. CASE Fread(w)
  <2> DEFINE d == [k \in DOMAIN s.dir |->
                     IF k - ReadTarget(s) \in 1 .. ClusterSize
                     THEN vol.disk[fpos + k - ReadTarget(s)] ELSE s.dir[k]]
             j == s.i + 1
             q == IF j = s.n THEN "loaded" ELSE "seek"
             t(x) == [s EXCEPT !.dir = d, !.clus = NextOf(x), !.i = j, !.pc = q]
  <2>1. PICK x \in FatDir(vol, s.clus) :
          th' = [th EXCEPT ![w].dir = d, ![w].clus = NextOf(x), ![w].i = j, ![w].pc = q]
    BY <1>6 DEF Fread
  <2>2. d = Fs!Entries(vol, e)
    <3>1. DOMAIN s.dir = 1 .. ClusterSize
      <4>1. DOMAIN s.dir = 1 .. s.n * ClusterSize
        BY <1>1, <1>2 DEF Alone, IInv, Shape
      <4> QED
        BY <1>4, <4>1, VolumeAssumption
    <3>2. fpos = SlotOf(c) /\ fpos \in Int
      <4>1. fpos = SlotOf(s.clus) /\ fpos \in Int
        BY <1>2, <1>6 DEF Alone, SharedStateHeld, Fread, IInv, SharedType
      <4> QED
        BY <1>4, <4>1
    <3>3. ReadTarget(s) = 0
      BY <1>3 DEF ReadTarget
    <3>4. d = [k \in 1 .. ClusterSize |-> vol.disk[fpos + k]]
      BY <3>1, <3>2, <3>3, VolumeAssumption
    <3>5. Fs!Entries(vol, e) = ClusterAt(vol, c)
      BY <1>2, <1>4, OneClusterDirectory
    <3> QED
      BY <3>2, <3>4, <3>5 DEF ClusterAt
  <2>3. q = "loaded"
    BY <1>3, <1>4
  <2> HIDE DEF d, j, q
  <2>4. th' = [th EXCEPT ![w] = t(x)]
    BY <2>1
  <2>5. LET u == t(x) IN
        /\ u.pc = q /\ u.idx = s.idx /\ u.rval = e /\ u.dir = d
        /\ u.req = r /\ u.ans = s.ans /\ u.plist = s.plist
    BY <1>2 DEF Local
  <2> HIDE DEF t
  <2>6. LookInv(vol, t(x)) /\ t(x).pc \in Looking
    BY <1>3, <1>4, <2>2, <2>3, <2>5 DEF LookInv, Looking, Entering
  <2>7. UNCHANGED <<vol, dcache, handles>>
    BY <1>6 DEF Fread
  <2> QED
    BY <1>1, <1>2, <2>4, <2>5, <2>6, <2>7, LookStep
<1> QED
  BY <1>5, <1>6

LEMMA LoadedServes ==
  ASSUME NEW w, Alone(w), LoadedSearch(w) \/ LoadedList(w)
  PROVE  FsStep
<1> DEFINE s == th[w]
           r == s.req
           p == r.path
           e == s.rval
<1>1. s.pc = "loaded" /\ s.pc \in {"dispatch"} \union Looking /\ s.pc # "idle"
  BY DEF LoadedSearch, LoadedList, Looking, Entering
<1>2. /\ w \in Workers /\ s \in Local /\ vol \in Volumes
      /\ r.op \in Ops \ {"read"} /\ r.off = 0 /\ p \in Seq(Component) /\ Len(p) \in Nat
      /\ s.idx \in 1 .. Len(p) /\ LookInv(vol, s) /\ Len(s.plist) = Len(p)
  BY <1>1, LookFacts DEF Looking, Entering
<1>3. /\ e \in Dirs(Named(vol, p, s.idx)) /\ s.dir = Fs!Entries(vol, e)
      /\ s.idx = Len(p) => r.op = "readdir"
  BY <1>1, <1>2 DEF LookInv, Entering
<1>4. CASE LoadedSearch(w)
  <2> DEFINE j == s.idx + 1
             t == [s EXCEPT !.pc = "search", !.idx = j]
  <2>1. /\ t.pc = "search" /\ t.idx = j /\ t.dir = s.dir
        /\ t.req = r /\ t.ans = s.ans /\ t.plist = s.plist
    BY <1>2 DEF Local
  <2>2. th' = [th EXCEPT ![w] = t] /\ UNCHANGED <<vol, dcache, handles>> /\ s.idx < Len(p)
    <3>1. th' = [th EXCEPT ![w].pc = "search", ![w].idx = @ + 1]
      BY <1>4 DEF LoadedSearch
    <3>2. th' = [th EXCEPT ![w] = t]
      BY <3>1
    <3> QED
      BY <1>2, <1>4, <3>2 DEF LoadedSearch
  <2> HIDE DEF t
  <2>3. j \in 1 .. Len(p) /\ j - 1 = s.idx
    BY <1>2, <2>2
  <2>4. LookInv(vol, t) /\ t.pc \in Looking
    BY <1>3, <2>1, <2>3 DEF LookInv, Looking, Entering
  <2> QED
    BY <1>1, <1>2, <2>1, <2>2, <2>3, <2>4, LookStep
<1>5. CASE LoadedList(w)
  <2> DEFINE a == [NoAnswer EXCEPT !.err = "ok", !.names = Names(s.dir)]
  <2>1. Finish(w, a, 1) /\ vol' = vol /\ s.idx = Len(p)
    BY <1>2, <1>5 DEF LoadedList
  <2>2. e \in Fs!Resolve(vol, p)
    <3>1. e \in Named(vol, p, Len(p)) /\ Len(p) \in 0 .. Len(p)
      BY <1>2, <1>3, <2>1 DEF Dirs
    <3> QED
      BY <1>1, <3>1, OnPath
  <2>3. SoundEntry(vol, e) /\ e.kind = "dir"
    <3>1. e \in Named(vol, p, s.idx) /\ e.kind = "dir" /\ s.idx \in 0 .. Len(p)
      BY <1>2, <1>3 DEF Dirs
    <3> QED
      BY <1>1, <3>1, OnPath
  <2>4. a = Fs!PromiseOn(vol, r, e)
    <3>1. a = ListAnswer(vol, e)
      <4>1. s.dir = Fs!Entries(vol, e) /\ PlainDirectory(Fs!Entries(vol, e))
        BY <1>3, <2>3 DEF SoundEntry
      <4> QED
        BY <4>1, ListedNames
    <3> HIDE DEF a
    <3> QED
      BY <1>3, <2>1, <2>3, <3>1, PromiseCases
  <2> HIDE DEF a
  <2>5. Answers(vol, r, a)
    BY <1>2, <1>3, <2>1, <2>2, <2>3, <2>4, AnswerFound
  <2> QED
    BY <1>1, <2>1, <2>5, Finishing
<1> QED
  BY <1>4, <1>5

\* A file's chain ch and its slots s.
Legible(v, c, ch, s) ==
  /\ Len(ch) \in Nat /\ Len(s) = Len(ch) * ClusterSize
  /\ \A j \in 0 .. Len(ch) - 1 : \A m \in 1 .. ClusterSize :
       /\ j * ClusterSize + m \in 1 .. Len(s)
       /\ s[j * ClusterSize + m] = SlotOf(ch[j + 1]) + m - 1
  /\ \A k \in 1 .. Len(ch) :
       /\ ch[k] \in DOMAIN v.fat /\ ch[k] \in Nat /\ ch[k] >= 2 /\ ch[k] < BadClus
       /\ SlotOf(ch[k]) + ClusterSize <= Len(v.disk)
  /\ \A k \in 1 .. Len(ch) - 1 : v.fat[ch[k]] = ch[k + 1]
  /\ Len(ch) = 0 => c = 0
  /\ Len(ch) > 0 => ch[1] = c /\ ~ ValidCluster(v.fat[ch[Len(ch)]])

LEMMA FileFacts ==
  ASSUME NEW v \in Volumes, NEW e, e.kind = "file", SoundEntry(v, e)
  PROVE  Legible(v, e.clus, Fs!Chain(v, e.clus), Fs!Slots(v, e.clus))
<1> DEFINE c == e.clus
           ch == Fs!Chain(v, c)
           s == Fs!Slots(v, c)
<1>1. c = 0 \/ Readable(v, c)
  BY DEF SoundEntry
<1>2. /\ Len(ch) \in Nat /\ Len(s) = Len(ch) * ClusterSize
      /\ \A j \in 0 .. Len(ch) - 1 : \A m \in 1 .. ClusterSize :
           /\ j * ClusterSize + m \in 1 .. Len(s)
           /\ s[j * ClusterSize + m] = SlotOf(ch[j + 1]) + m - 1
  BY ChainType, SlotsFacts
<1>3. IsChain(v, c, ch)
  BY ChainIsChain
<1>4. CASE Readable(v, c)
  <2>1. /\ Len(ch) \in Nat /\ Len(ch) >= 1 /\ ch[1] = c
        /\ \A k \in 1 .. Len(ch) :
             /\ ch[k] \in DOMAIN v.fat /\ ch[k] \in Nat /\ ch[k] >= 2 /\ ch[k] < BadClus
             /\ SlotOf(ch[k]) + ClusterSize <= Len(v.disk)
        /\ \A k \in 1 .. Len(ch) - 1 : v.fat[ch[k]] = ch[k + 1]
        /\ ~ ValidCluster(v.fat[ch[Len(ch)]])
    BY <1>4, ChainFacts
  <2> HIDE DEF ch, s, c
  <2> QED
    BY <1>2, <2>1 DEF Legible, ch, s, c
<1>5. CASE c = 0
  <2>1. ch = <<>>
    BY <1>3, <1>5 DEF IsChain, Fs!DataCluster
  <2> HIDE DEF ch, s
  <2>2. Len(ch) = 0
    BY <2>1
  <2> QED
    BY <1>2, <1>5, <2>2 DEF Legible, ch, s
<1> QED
  BY <1>1, <1>4, <1>5

\* A read is of an open file.
LEMMA ReadFacts ==
  ASSUME NEW w, Alone(w), th[w].pc \in {"rd0"} \union Reading
  PROVE  LET s == th[w]
             c == s.req.fh IN
         /\ w \in Workers /\ s \in Local /\ vol \in Volumes /\ s.pc # "idle"
         /\ ServeInv(vol, s) /\ Legal(vol, s.req) /\ s.req.op = "read"
         /\ Legible(vol, c, Fs!Chain(vol, c), Fs!Slots(vol, c))
         /\ \E e \in Files(Fs!Resolve(vol, s.req.path)) :
              /\ e.clus = c /\ SoundEntry(vol, e)
              /\ \A f \in Fs!Resolve(vol, s.req.path) : f = e
<1> DEFINE s == th[w]
           r == s.req
<1>1. /\ w \in Workers /\ s \in Local /\ vol \in Volumes /\ ServeInv(vol, s)
      /\ Sound(vol, Paths) /\ s.pc # "idle"
  BY AloneFacts DEF Alone, Reading
<1>2. Legal(vol, r) /\ r.op = "read"
  BY <1>1 DEF ServeInv
<1>3. PICK e \in Files(Fs!Resolve(vol, r.path)) : e.clus = r.fh
  BY <1>2 DEF Legal
<1>4. r.path \in Paths /\ Len(r.path) \in 0 .. Len(r.path) /\ r.path \in Seq(Component)
  BY <1>2, RequestAssumption DEF Legal
<1>5. e \in Named(vol, r.path, Len(r.path)) /\ e.kind = "file"
  BY <1>1, <1>3, <1>4, Resolving DEF Files
<1>6. SoundEntry(vol, e)
  BY <1>1, <1>4, <1>5, PathFacts
<1>7. \A f \in Fs!Resolve(vol, r.path) : f = e
  BY <1>1, <1>4, <1>5, PathFacts, Resolving DEF Single
<1> QED
  BY <1>1, <1>2, <1>3, <1>5, <1>6, <1>7, FileFacts

LEMMA ReadStep ==
  ASSUME NEW w, Alone(w), th[w].pc \in {"rd0"} \union Reading,
         NEW t, th' = [th EXCEPT ![w] = t], UNCHANGED <<vol, dcache, handles>>,
         t.pc \in Reading, t.req = th[w].req, t.ans = th[w].ans, t.req.off = 0,
         SoFar(vol, t), t.pc = "rdread" => MoreToRead(t)
  PROVE  FsStep
<1>1. t.pc # "idle" /\ th[w].pc # "idle"
  BY ReadFacts DEF Reading
<1>2. Legal(vol, t.req) /\ t.req.op = "read"
  BY ReadFacts
<1>3. ServeInv(vol, t)
  BY <1>1, <1>2 DEF ServeInv, Reading, Parsing, Looking, Entering
<1>4. LookInv(vol, t) /\ PathInv(t, strtokp')
  BY DEF LookInv, PathInv, Reading, Looking, Entering
<1> QED
  BY <1>1, <1>3, <1>4, Within

\* One fread further along a chain: k slots more of its cluster j + 1, whose
\* table value is x.
Advanced(ch, s, m, j, k, size, x) ==
  /\ k \in 1 .. ClusterSize /\ m + k <= size /\ m + k <= Len(s) /\ Len(s) \in Nat
  /\ \A i \in 1 .. k : s[m + i] = SlotOf(ch[j + 1]) + i - 1
  /\ \/ j + 1 \in 0 .. Len(ch) - 1 /\ m + k = (j + 1) * ClusterSize
          /\ NextOf(x) = ch[(j + 1) + 1]
     \/ m + k = Fs!Shorter(size, Len(s)) /\ (m + k = size \/ ~ ValidCluster(NextOf(x)))

LEMMA Advance ==
  ASSUME NEW v, NEW c, NEW ch, NEW s, Legible(v, c, ch, s),
         NEW j \in 0 .. Len(ch) - 1, NEW size \in Nat, size > j * ClusterSize,
         NEW k, k = (IF ClusterSize < size - j * ClusterSize
                     THEN ClusterSize ELSE size - j * ClusterSize),
         NEW x \in Int, x = v.fat[ch[j + 1]]
  PROVE  Advanced(ch, s, j * ClusterSize, j, k, size, x)
<1> DEFINE n == ClusterSize
           m == j * n
           L == Len(ch)
<1>1. /\ n \in Nat \ {0} /\ L \in Nat /\ Len(s) = L * n /\ j \in Nat
      /\ \A i \in 1 .. n : m + i \in 1 .. Len(s) /\ s[m + i] = SlotOf(ch[j + 1]) + i - 1
  <2>1. n \in Nat \ {0} /\ L \in Nat /\ Len(s) = L * n
    BY VolumeAssumption DEF Legible
  <2>2. j \in Nat
    BY <2>1
  <2>3. \A i \in 1 .. n : m + i \in 1 .. Len(s) /\ s[m + i] = SlotOf(ch[j + 1]) + i - 1
    BY DEF Legible
  <2> QED
    BY <2>1, <2>2, <2>3
<1>2. /\ \A i \in 1 .. L : ch[i] \in Nat /\ ch[i] >= 2 /\ ch[i] < BadClus
      /\ \A i \in 1 .. L - 1 : v.fat[ch[i]] = ch[i + 1]
      /\ L > 0 => ~ ValidCluster(v.fat[ch[L]])
  BY DEF Legible
<1> HIDE DEF n, L
<1>3. m \in Nat
  BY <1>1
<1> DEFINE M == m
<1>4. M \in Nat /\ size > M /\ k = (IF n < size - M THEN n ELSE size - M)
  BY <1>3 DEF n
<1>5. L * n \in Nat /\ Len(s) \in Nat
  BY <1>1
<1>6. L = j + 1 => L * n = m + n
  BY <1>1
<1>7. (j + 1) * n = m + n
  BY <1>1
<1> HIDE DEF m
<1> HIDE DEF M
<1>8. k \in 1 .. n /\ M + k <= size
  BY <1>1, <1>4
<1>9. M = m
  BY DEF M
<1>10. m + k <= Len(s)
  BY <1>1, <1>8, <1>9, <1>4, <1>5
<1>11. \A i \in 1 .. k : s[m + i] = SlotOf(ch[j + 1]) + i - 1
  BY <1>1, <1>8
<1>12. CASE j + 1 < L /\ k = n
  <2>1. j + 1 \in 0 .. L - 1 /\ j + 1 \in 1 .. L - 1 /\ (j + 1) + 1 \in 1 .. L
    BY <1>1, <1>12
  <2>2. x = ch[(j + 1) + 1] /\ x \in Nat /\ x >= 2 /\ x < BadClus
    BY <1>2, <2>1
  <2>3. NextOf(x) = x
    BY <2>2 DEF NextOf, BadClus
  <2>4. m + k = (j + 1) * n
    BY <1>7, <1>12
  <2> QED
    BY <1>3, <1>4, <1>5, <1>8, <1>9, <1>10, <1>11, <2>1, <2>2, <2>3, <2>4 DEF n, L, m, Advanced
<1>13. CASE j + 1 = L /\ k = n
  <2>1. ~ ValidCluster(x)
    <3>1. L > 0
      BY <1>1, <1>13
    <3> QED
      BY <1>2, <1>13, <3>1
  <2>2. ~ ValidCluster(NextOf(x))
    BY <2>1 DEF NextOf, ValidCluster, BadClus, EndClus
  <2>3. m + k = Fs!Shorter(size, Len(s))
    <3>1. m + k = Len(s)
      BY <1>1, <1>6, <1>13
    <3> QED
      BY <1>4, <1>5, <1>8, <1>9, <3>1 DEF Fs!Shorter
  <2> QED
    BY <1>3, <1>4, <1>5, <1>8, <1>9, <1>10, <1>11, <2>2, <2>3 DEF n, L, m, Advanced
<1>14. CASE k # n
  <2>1. M + k = size
    BY <1>1, <1>4, <1>14
  <2>2. M + k = Fs!Shorter(size, Len(s))
    BY <1>5, <1>9, <1>10, <2>1, <1>4 DEF Fs!Shorter
  <2> QED
    BY <1>3, <1>4, <1>5, <1>8, <1>9, <1>10, <1>11, <2>1, <2>2 DEF n, L, m, Advanced
<1>15. j + 1 < L \/ j + 1 = L
  BY <1>1 DEF L
<1> QED
  BY <1>12, <1>13, <1>14, <1>15

LEMMA ReadShortNever ==
  ASSUME NEW w, Alone(w)
  PROVE  ~ ReadShort(w)
<1> SUFFICES ASSUME th[w].pc = "rdread"
             PROVE  Inside(vol, fpos, Chunk(th[w]))
  BY DEF ReadShort
<1> DEFINE s == th[w]
           r == s.req
           ch == Fs!Chain(vol, r.fh)
           sl == Fs!Slots(vol, r.fh)
           m == Len(s.got)
<1>1. s.pc \in {"rd0"} \union Reading
  BY DEF Reading
<1>2. /\ w \in Workers /\ s \in Local /\ ServeInv(vol, s) /\ r.op = "read"
      /\ Legible(vol, r.fh, ch, sl)
  BY <1>1, ReadFacts
<1>3. SoFar(vol, s) /\ MoreToRead(s)
  BY <1>2 DEF ServeInv, Reading
<1>4. PICK j \in 0 .. Len(ch) - 1 : m = j * ClusterSize /\ s.clus = ch[j + 1]
  BY <1>3 DEF SoFar
<1>5. fpos = SlotOf(s.clus) /\ fpos \in Int
  BY <1>2 DEF Alone, SharedStateHeld, IInv, SharedType
<1> HIDE DEF ch, sl
<1>6. /\ ch[j + 1] \in Nat /\ ch[j + 1] >= 2
      /\ SlotOf(ch[j + 1]) + ClusterSize <= Len(vol.disk)
  <2>1. Len(ch) \in Nat
    BY <1>2 DEF Legible
  <2>2. j + 1 \in 1 .. Len(ch)
    BY <2>1
  <2> QED
    BY <1>2, <2>2 DEF Legible
<1>7. SlotOf(ch[j + 1]) >= 0
  BY <1>6, VolumeAssumption DEF SlotOf, SlotFrom
<1>8. Len(vol.disk) \in Nat
  BY VolumeType DEF Alone, IInv, SharedType
<1>9. Chunk(s) <= ClusterSize /\ Chunk(s) \in Int
  <2>1. Remaining(s) \in Int
    BY <1>2 DEF Remaining, Local, Request
  <2> QED
    BY <2>1, VolumeAssumption DEF Chunk
<1> QED
  BY <1>4, <1>5, <1>6, <1>7, <1>8, <1>9, VolumeAssumption DEF Inside

LEMMA ReadStartServes ==
  ASSUME NEW w, Alone(w), ReadStart(w)
  PROVE  FsStep
<1> DEFINE s == th[w]
           r == s.req
           c == r.fh
           ch == Fs!Chain(vol, c)
           sl == Fs!Slots(vol, c)
<1>1. s.pc = "rd0" /\ s.pc \in {"rd0"} \union Reading /\ UNCHANGED <<vol, dcache, handles>>
  BY DEF ReadStart
<1>2. /\ w \in Workers /\ s \in Local /\ s.pc # "idle" /\ ServeInv(vol, s)
      /\ r.op = "read" /\ Legible(vol, c, ch, sl) /\ r.size \in Nat
  BY <1>1, ReadFacts DEF Local, Request
<1>3. s.got = <<>>
  BY <1>1, <1>2 DEF ServeInv
<1>4. r.off = 0
  BY <1>1, ReadFacts DEF Legal
<1> DEFINE t == [s EXCEPT !.pc = "rdseek", !.clus = c]
<1>5. /\ t.pc = "rdseek" /\ t.clus = c /\ t.got = <<>> /\ t.req = r /\ t.ans = s.ans
  BY <1>2, <1>3 DEF Local
<1>6. th' = [th EXCEPT ![w] = t]
  BY <1>4 DEF ReadStart
<1> HIDE DEF t, ch, sl
<1>7. SoFar(vol, t)
  <2>1. Len(t.got) = 0 /\ Len(ch) \in Nat /\ Len(sl) = Len(ch) * ClusterSize
    BY <1>2, <1>5 DEF Legible
  <2>2. Len(sl) \in Nat
    BY <2>1, VolumeAssumption
  <2>3. CASE Len(ch) = 0
    <3>1. c = 0 /\ Len(sl) = 0
      BY <1>2, <2>1, <2>3, VolumeAssumption DEF Legible
    <3>2. ~ MoreToRead(t) /\ 0 = Fs!Shorter(r.size, Len(sl))
      BY <1>2, <1>5, <3>1 DEF MoreToRead, ValidCluster, Fs!Shorter
    <3> QED
      BY <1>2, <1>5, <2>1, <3>1, <3>2 DEF SoFar, ch, sl
  <2>4. CASE Len(ch) > 0
    <3>1. ch[1] = c
      BY <1>2, <2>4 DEF Legible
    <3>2. 0 \in 0 .. Len(ch) - 1 /\ 0 = 0 * ClusterSize /\ 0 + 1 = 1
      BY <2>1, <2>4, VolumeAssumption
    <3>3. \E j \in 0 .. Len(ch) - 1 : 0 = j * ClusterSize /\ c = ch[j + 1]
      BY <3>1, <3>2
    <3> QED
      BY <1>2, <1>5, <2>1, <2>2, <3>3 DEF SoFar, ch, sl
  <2> QED
    BY <2>1, <2>3, <2>4
<1>8. t.pc \in Reading /\ t.pc # "rdread"
  BY <1>5 DEF Reading
<1> QED
  BY <1>1, <1>4, <1>5, <1>6, <1>7, <1>8, ReadStep

LEMMA ReadSeekServes ==
  ASSUME NEW w, Alone(w), ReadSeek(w)
  PROVE  FsStep
<1> DEFINE s == th[w]
           r == s.req
           t == [s EXCEPT !.pc = "rdread"]
<1>1. s.pc = "rdseek" /\ s.pc \in {"rd0"} \union Reading /\ UNCHANGED <<vol, dcache, handles>>
      /\ MoreToRead(s)
  BY DEF ReadSeek, Reading
<1>2. s \in Local /\ ServeInv(vol, s)
  BY <1>1, ReadFacts
<1>3. /\ t.pc = "rdread" /\ t.clus = s.clus /\ t.got = s.got /\ t.req = r /\ t.ans = s.ans
  BY <1>2 DEF Local
<1>4. th' = [th EXCEPT ![w] = t]
  <2>1. th' = [th EXCEPT ![w].pc = "rdread"]
    BY DEF ReadSeek
  <2> QED
    BY <2>1
<1> HIDE DEF t
<1>5. r.off = 0 /\ SoFar(vol, s)
  BY <1>1, <1>2 DEF ServeInv, Reading
<1>6. MoreToRead(t) /\ (MoreToRead(t) <=> MoreToRead(s))
  BY <1>1, <1>3 DEF MoreToRead, Remaining
<1>7. SoFar(vol, t)
  BY <1>3, <1>5, <1>6 DEF SoFar
<1>8. t.pc \in Reading
  BY <1>3 DEF Reading
<1> QED
  BY <1>1, <1>3, <1>4, <1>5, <1>6, <1>7, <1>8, ReadStep

LEMMA ConcatFacts ==
  ASSUME NEW a \in Seq(Int), NEW b \in Seq(Int)
  PROVE  /\ Len(a \o b) = Len(a) + Len(b)
         /\ \A i \in 1 .. Len(a) : (a \o b)[i] = a[i]
         /\ \A i \in 1 .. Len(b) : (a \o b)[Len(a) + i] = b[i]
OBVIOUS

LEMMA ReadFreadServes ==
  ASSUME NEW w, Alone(w), ReadFread(w)
  PROVE  FsStep
<1> DEFINE s == th[w]
           r == s.req
           c == r.fh
           ch == Fs!Chain(vol, c)
           sl == Fs!Slots(vol, c)
           k == Chunk(s)
           m == Len(s.got)
           more == [i \in 1 .. k |-> fpos + i - 1]
           g == s.got \o more
           t(x) == [s EXCEPT !.got = g, !.clus = NextOf(x), !.pc = "rdseek"]
<1>1. s.pc = "rdread" /\ s.pc \in {"rd0"} \union Reading /\ UNCHANGED <<vol, dcache, handles>>
  BY DEF ReadFread, Reading
<1>2. /\ w \in Workers /\ s \in Local /\ ServeInv(vol, s) /\ r.op = "read"
      /\ Legible(vol, c, ch, sl) /\ r.size \in Nat /\ s.got \in Seq(Int) /\ m \in Nat
  BY <1>1, ReadFacts DEF Local, Request
<1>3. SoFar(vol, s) /\ MoreToRead(s) /\ r.off = 0
  BY <1>1, <1>2 DEF ServeInv, Reading
<1>4. PICK x \in FatDir(vol, s.clus) :
        th' = [th EXCEPT ![w].got = g, ![w].clus = NextOf(x), ![w].pc = "rdseek"]
  BY DEF ReadFread
<1>5. PICK j \in 0 .. Len(ch) - 1 : m = j * ClusterSize /\ s.clus = ch[j + 1]
  BY <1>3 DEF SoFar
<1>6. fpos = SlotOf(s.clus) /\ fpos \in Int
  BY <1>1, <1>2 DEF Alone, SharedStateHeld, IInv, SharedType
<1>7. x \in Int /\ x = vol.fat[ch[j + 1]]
  <2> HIDE DEF ch, sl
  <2>1. Len(ch) \in Nat
    BY <1>2 DEF Legible
  <2>2. j + 1 \in 1 .. Len(ch)
    BY <2>1
  <2>3. ch[j + 1] \in DOMAIN vol.fat
    BY <1>2, <2>2 DEF Legible
  <2> QED
    BY <1>4, <1>5, <2>3, FatDirType DEF Alone
<1>8. r.size > m /\ k = (IF ClusterSize < r.size - m THEN ClusterSize ELSE r.size - m)
  <2>1. Remaining(s) = r.size - m /\ Remaining(s) > 0
    BY <1>3 DEF MoreToRead, Remaining
  <2> QED
    BY <1>2, <2>1 DEF Chunk
<1> HIDE DEF ch, sl, k, more
<1>9. /\ k \in 1 .. ClusterSize /\ m + k <= r.size /\ m + k <= Len(sl) /\ Len(sl) \in Nat
      /\ \A i \in 1 .. k : sl[m + i] = SlotOf(ch[j + 1]) + i - 1
      /\ \/ j + 1 \in 0 .. Len(ch) - 1 /\ m + k = (j + 1) * ClusterSize
              /\ NextOf(x) = ch[(j + 1) + 1]
         \/ m + k = Fs!Shorter(r.size, Len(sl))
              /\ (m + k = r.size \/ ~ ValidCluster(NextOf(x)))
  <2>1. k = (IF ClusterSize < r.size - j * ClusterSize
             THEN ClusterSize ELSE r.size - j * ClusterSize)
        /\ r.size > j * ClusterSize
    BY <1>5, <1>8
  <2>2. Advanced(ch, sl, j * ClusterSize, j, k, r.size, x)
    BY <1>2, <1>7, <2>1, Advance
  <2>3. Advanced(ch, sl, m, j, k, r.size, x)
    BY <1>5, <2>2
  <2> QED
    BY <2>3 DEF Advanced
<1>10. k \in Nat /\ more \in Seq(Int) /\ Len(more) = k
  <2>1. k \in Nat
    BY <1>9, VolumeAssumption
  <2>2. more \in [1 .. k -> Int]
    BY <1>6, <2>1 DEF more
  <2> QED
    BY <2>1, <2>2, SequenceType
<1>11. /\ Len(g) = m + k
       /\ \A i \in 1 .. m : g[i] = s.got[i]
       /\ \A i \in 1 .. k : g[m + i] = more[i]
  BY <1>2, <1>10, ConcatFacts
<1> HIDE DEF g
<1>12. \A i \in 1 .. m + k : g[i] = sl[i]
  <2>1. ASSUME NEW i \in 1 .. m + k
        PROVE  g[i] = sl[i]
    <3>1. CASE i <= m
      <4>1. s.got[i] = sl[i]
        BY <1>2, <1>3, <1>10, <3>1 DEF SoFar, sl
      <4> QED
        BY <1>2, <1>10, <1>11, <3>1, <4>1
    <3>2. CASE i > m
      <4>1. i - m \in 1 .. k /\ m + (i - m) = i
        BY <1>2, <1>10, <3>2
      <4>2. g[i] = more[i - m] /\ sl[i] = SlotOf(ch[j + 1]) + (i - m) - 1
        BY <1>9, <1>11, <4>1
      <4>3. more[i - m] = fpos + (i - m) - 1
        BY <4>1 DEF more
      <4> QED
        BY <1>5, <1>6, <4>2, <4>3
    <3> QED
      BY <1>2, <1>10, <3>1, <3>2
  <2> QED
    BY <2>1
<1>13. /\ t(x).pc = "rdseek" /\ t(x).clus = NextOf(x) /\ t(x).got = g /\ t(x).req = r
       /\ t(x).ans = s.ans
  BY <1>2 DEF Local
<1>14. th' = [th EXCEPT ![w] = t(x)]
  BY <1>4
<1> HIDE DEF t
<1>15. m + k = r.size \/ ~ ValidCluster(NextOf(x)) => ~ MoreToRead(t(x))
  BY <1>2, <1>11, <1>13 DEF MoreToRead, Remaining
<1>16. SoFar(vol, t(x))
  BY <1>9, <1>11, <1>12, <1>13, <1>15 DEF SoFar, ch, sl
<1>17. t(x).pc \in Reading /\ t(x).pc # "rdread"
  BY <1>13 DEF Reading
<1> QED
  BY <1>1, <1>3, <1>13, <1>14, <1>16, <1>17, ReadStep

LEMMA ReadDoneServes ==
  ASSUME NEW w, Alone(w), ReadDone(w)
  PROVE  FsStep
<1> DEFINE s == th[w]
           r == s.req
           c == r.fh
           ch == Fs!Chain(vol, c)
           sl == Fs!Slots(vol, c)
           m == Len(s.got)
           a == [NoAnswer EXCEPT !.err = "ok", !.data = s.got]
<1>1. s.pc = "rdseek" /\ s.pc \in {"rd0"} \union Reading /\ UNCHANGED <<vol, dcache, handles>>
      /\ ~ MoreToRead(s)
  BY DEF ReadDone, Reading
<1>2. /\ w \in Workers /\ s \in Local /\ s.pc # "idle" /\ ServeInv(vol, s) /\ r.op = "read"
      /\ vol \in Volumes
      /\ Legible(vol, c, ch, sl) /\ r.size \in Nat /\ s.got \in Seq(Int) /\ m \in Nat
  BY <1>1, ReadFacts DEF Local, Request
<1>3. SoFar(vol, s) /\ r.off = 0
  BY <1>1, <1>2 DEF ServeInv, Reading
<1>4. PICK e \in Files(Fs!Resolve(vol, r.path)) :
        /\ e.clus = c /\ SoundEntry(vol, e) /\ \A f \in Fs!Resolve(vol, r.path) : f = e
  BY <1>1, ReadFacts
<1>5. sl \in Seq(Int) /\ Len(sl) \in Nat
  BY <1>2, SlotsFacts
<1> HIDE DEF ch, sl
<1>6. m <= r.size /\ m <= Len(sl) /\ \A i \in 1 .. m : s.got[i] = sl[i]
  BY <1>3 DEF SoFar, sl
<1>7. m = Fs!Shorter(r.size, Len(sl))
  <2>1. CASE m = Fs!Shorter(r.size, Len(sl))
    BY <2>1
  <2>2. CASE \E j \in 0 .. Len(ch) - 1 : m = j * ClusterSize /\ s.clus = ch[j + 1]
    <3>1. PICK j \in 0 .. Len(ch) - 1 : s.clus = ch[j + 1]
      BY <2>2
    <3>2. Len(ch) \in Nat
      BY <1>2 DEF Legible
    <3>3. j + 1 \in 1 .. Len(ch)
      BY <3>2
    <3>4. ValidCluster(s.clus)
      <4>1. ch[j + 1] \in Nat /\ ch[j + 1] >= 2 /\ ch[j + 1] < BadClus
        BY <1>2, <3>3 DEF Legible
      <4> QED
        BY <3>1, <4>1 DEF ValidCluster
    <3>5. ~ (r.size - m > 0)
      BY <1>1, <3>4 DEF MoreToRead, Remaining
    <3> QED
      BY <1>2, <1>5, <1>6, <3>5 DEF Fs!Shorter
  <2> QED
    BY <1>3, <2>1, <2>2 DEF SoFar, ch, sl
<1>8. e.kind = "file" /\ e \in Fs!Resolve(vol, r.path) /\ SizeOf(e) = e.size
      /\ e.size \in Nat /\ e.size <= Len(sl)
  <2>1. e.kind = "file" /\ e \in Fs!Resolve(vol, r.path)
    BY DEF Files
  <2>2. e.size \in 0 .. Len(sl)
    BY <1>4, <2>1 DEF SoundEntry, sl
  <2> QED
    BY <1>5, <2>1, <2>2 DEF SizeOf
<1>9. Cut(s.got, e.size) = DataOf(vol, r, e)
  <2> DEFINE z == Fs!Shorter(r.size, e.size)
  <2>1. DataOf(vol, r, e) = SubSeq(sl, 1, z)
    <3>1. r.off + 1 = 1 /\ r.off + r.size = r.size /\ Fs!Slots(vol, e.clus) = sl
      BY <1>2, <1>3, <1>4 DEF sl
    <3> QED
      BY <3>1 DEF DataOf
  <2>2. Cut(s.got, e.size) = SubSeq(s.got, 1, z)
    <3>1. (IF e.size < m THEN e.size ELSE m) = z
      BY <1>2, <1>5, <1>7, <1>8 DEF Fs!Shorter
    <3> QED
      BY <3>1 DEF Cut
  <2>3. z \in Nat /\ z <= m
    BY <1>2, <1>5, <1>7, <1>8 DEF Fs!Shorter
  <2> HIDE DEF z
  <2>4. SubSeq(s.got, 1, z) = SubSeq(sl, 1, z)
    BY <1>2, <1>5, <1>6, <2>3
  <2> QED
    BY <2>1, <2>2, <2>4
<1>10. View(r, a, SizeOf(e)) = Fs!PromiseOn(vol, r, e)
  <2>1. View(r, a, SizeOf(e)) = [NoAnswer EXCEPT !.err = "ok", !.data = Cut(s.got, e.size)]
    BY <1>2, <1>8 DEF View, NoAnswer
  <2>2. View(r, a, SizeOf(e)) = ReadAnswer(vol, r, e)
    BY <1>9, <2>1 DEF ReadAnswer
  <2> HIDE DEF a
  <2> QED
    BY <1>2, <1>8, <2>2, PromiseCases
<1>11. th' = [u \in Workers |-> Returned(s, a, 0)]
  <2>1. th' = [th EXCEPT ![w] = Returned(s, a, 0)]
    BY DEF ReadDone
  <2> QED
    BY <2>1, AloneFacts DEF Alone
<1>12. a.kind = "none"
  BY DEF NoAnswer
<1> HIDE DEF a
<1>13. Answers(vol, r, a)
  <2>1. Fs!PromiseOn(vol, r, e) \in Fs!Promise(vol, r)
    BY <1>8 DEF Fs!Promise
  <2> QED
    BY <1>2, <1>4, <1>10, <1>12, <2>1 DEF Answers
<1>14. Learns(r, a)
  BY <1>1 DEF Learns
<1> QED
  BY <1>1, <1>2, <1>11, <1>13, <1>14, Answering

LEMMA ServeStep ==
  ASSUME NEW w, Alone(w), [Next]_vars
  PROVE  FsStep
<1>1. Workers = {w}
  BY DEF Alone
<1>2. CASE UNCHANGED <<vol, strtokp, dcache, handles, th>>
  <2>1. \A u : Seen(u)' = Seen(u)
    BY <1>2 DEF Seen, KnownSize
  <2>2. FsInv'
    BY <1>2, <2>1 DEF Alone, FsInv, Remembered, Told
  <2>3. UNCHANGED Fs!vars
    BY <1>2, <2>1 DEF Fs!vars
  <2> QED
    BY <2>2, <2>3 DEF FsStep
<1>3. CASE UNCHANGED vars \/ Abort
  BY <1>2, <1>3 DEF vars, Abort
<1>4. CASE Submit(w)
  BY <1>4, SubmitServes
<1>5. ASSUME Handle(w), ~ Abort
      PROVE  FsStep
  <2>1. CASE StrtokFirst(w) \/ StrtokNext(w)
    BY <2>1, StrtokServes
  <2>2. ~ StrtokStale(w) /\ ~ FreadShort(w)
    <3>1. w \in Workers /\ SharedStateHeld
      BY <1>1 DEF Alone
    <3> QED
      BY <1>5, <3>1 DEF StrtokStale, FreadShort, SharedStateHeld
  <2>3. CASE DispatchRoot(w) \/ DispatchDir(w)
    BY <2>3, DispatchServes
  <2>4. CASE SearchMiss(w) \/ SearchHit(w)
    BY <2>4, SearchServes
  <2>5. CASE FoundAnswer(w) \/ FoundDir(w)
    BY <2>5, FoundServes
  <2>6. CASE CountStart(w) \/ CountEnd(w)
    BY <1>5, <2>6, CountServes
  <2>7. CASE Seek(w) \/ Fread(w)
    BY <2>7, ReadDirServes
  <2>8. CASE LoadedSearch(w) \/ LoadedList(w)
    BY <2>8, LoadedServes
  <2>9. CASE ReadStart(w) \/ ReadSeek(w)
    BY <2>9, ReadStartServes, ReadSeekServes
  <2>10. CASE ReadFread(w) \/ ReadDone(w)
    BY <2>10, ReadFreadServes, ReadDoneServes
  <2> QED
    BY <1>5, <2>1, <2>2, <2>3, <2>4, <2>5, <2>6, <2>7, <2>8, <2>9, <2>10,
       NoBadChain, ReadShortNever, DirectoryInside DEF Handle
<1>6. CASE Next /\ ~ Abort
  BY <1>1, <1>4, <1>5, <1>6 DEF Next
<1> QED
  BY <1>3, <1>6

LEMMA FsInitially ==
  ASSUME NEW w, Workers = {w}, Init
  PROVE  FsInv /\ Fs!Init
<1>1. vol \in Volumes /\ th = [u \in Workers |-> Fresh(NoRequest)]
  BY DEF Init
<1> DEFINE t == Fresh(NoRequest)
<1>2. t.pc = "idle" /\ t.ans = NoAnswer /\ t.req = NoRequest
  BY DEF Fresh
<1> HIDE DEF t
<1>3. Remembered
  <2>1. <<>> \in Seq(Component) /\ Len(<<>>) = 0
    OBVIOUS
  <2>2. Fs!Resolve(vol, <<>>) = {Fs!Root}
    BY <1>1, <2>1, Resolving
  <2>3. dcache = {[path |-> <<>>, kind |-> "dir", size |-> 0]} /\ handles = {}
    BY DEF Init
  <2> QED
    BY <2>2, <2>3, RootKind DEF Remembered, SizeOf
<1>4. ServeInv(vol, t) /\ LookInv(vol, t) /\ PathInv(t, strtokp)
  BY <1>2 DEF NoAnswer, ServeInv, LookInv, PathInv, Parsing, Looking, Entering, Reading
<1>5. FsInv
  <2>1. Told(w)
    BY <1>1, <1>2 DEF Told, NoAnswer, t
  <2> QED
    BY <1>1, <1>3, <1>4, <2>1 DEF FsInv, t
<1>6. Fs!Init
  <2>1. [u \in Workers |-> IF th[u].pc = "idle" THEN NoRequest ELSE th[u].req]
          = [u \in Workers |-> NoRequest]
    BY <1>1, <1>2 DEF t
  <2>2. {u \in Workers : th[u].pc # "idle"} = {}
    BY <1>1, <1>2 DEF t
  <2>3. [u \in Workers |-> Seen(u)] = [u \in Workers |-> NoAnswer]
    BY <1>1, <1>2 DEF Seen, NoRequest, t
  <2> QED
    BY <1>1, <2>1, <2>2, <2>3, SameNames DEF Fs!Init
<1> QED
  BY <1>5, <1>6

SerialInv == IInv /\ SharedStateHeld /\ FsInv

LEMMA SerialInvStep ==
  ASSUME NEW w, Workers = {w}, Offsets \subseteq {0}, \A v \in Volumes : Sound(v, Paths)
  PROVE  /\ Init => SerialInv /\ Fs!Init
         /\ SerialInv /\ [Next]_vars => SerialInv' /\ [Fs!Next]_(Fs!vars)
<1>1. Init => SerialInv /\ Fs!Init
  <2>1. Init => SharedStateHeld
    BY DEF Init, SharedStateHeld, Fresh
  <2> QED
    BY <2>1, InitInv, FsInitially DEF SerialInv
<1>2. SerialInv => Alone(w)
  BY DEF SerialInv, Alone, IInv, SharedType
<1>3. ASSUME SerialInv, [Next]_vars
      PROVE  SerialInv' /\ [Fs!Next]_(Fs!vars)
  <2>1. FsStep
    BY <1>2, <1>3, ServeStep
  <2>2. IInv' /\ SharedStateHeld'
    BY <1>3, NextInv, SerialStep DEF SerialInv
  <2> QED
    BY <2>1, <2>2 DEF FsStep, SerialInv
<1> QED
  BY <1>1, <1>3

\* Mounted with -s, on images whose named files and directories are laid out as
\* simple-fs can serve them, for requests that read from the start of a file,
\* and whatever the kernel asks and in whatever order, the client sees of every
\* request the one answer that the on-disk format determines.
THEOREM SerialMountImplementsFs ==
  ASSUME NEW w, Workers = {w}, Offsets \subseteq {0}, \A v \in Volumes : Sound(v, Paths)
  PROVE  Spec => ImplementsFs
BY SerialInvStep, PTL DEF Spec, Fs!Spec, ImplementsFs

\* There a read gives the client the file's own slots in the order of its chain,
\* from the first: as many as it asked for, or all that the file's size counts.
THEOREM SerialReadsAreRight ==
  ASSUME NEW w, Workers = {w}, Offsets \subseteq {0}, \A v \in Volumes : Sound(v, Paths)
  PROVE  Spec => []ReadsRight
<1>1. SerialInv => ReadsRight
  BY DEF SerialInv, FsInv, Told, ReadsRight
<1> QED
  BY <1>1, SerialInvStep, PTL DEF Spec

(***************************************************************************)
(* The clusters that can be read, and those that a chain can reach.        *)
(***************************************************************************)
Visit(v, r) == r \union {x \in UNION {FatDir(v, y) : y \in r} : ValidCluster(x)}
InImage(v) == {y \in U16 : ValidCluster(y) /\ SlotOf(y) < Len(v.disk)}
Onwards(v, r) == r \union {x \in InImage(v) : \E y \in r : x \in FatDir(v, y)}

\* Clusters linked to c, with those of the image that they link to.
ClosedFrom(v, c, Q) ==
  /\ Q \subseteq Linked(v, c)
  /\ c \in InImage(v) => c \in Q
  /\ \A y \in Q : \A x \in FatDir(v, y) : x \in InImage(v) => x \in Q
Near(v, c) == CHOOSE Q : ClosedFrom(v, c, Q)

LEMMA LinkedWalk ==
  ASSUME NEW v \in Volumes, NEW c \in U16
  PROVE  \E reach : /\ Linked(v, c) = reach[Len(v.disk)]
                    /\ reach[0] = {c}
                    /\ \A k \in Nat : reach[k + 1] = Visit(v, reach[k])
<1> DEFINE S == SUBSET U16
           Reach(f) == [k \in Nat |->
             IF k = 0 THEN {c}
             ELSE LET r == f[k - 1] IN
                  r \union {x \in UNION {FatDir(v, y) : y \in r} : ValidCluster(x)}]
           Step == [q \in Nat \X S |-> Visit(v, q[2])]
           W == CHOOSE f : f = Reach(f)
<1>1. Linked(v, c) = W[Len(v.disk)]
  BY DEF Linked
<1>2. PICK g : Iterated(g, S, {c}, Step)
  <2>1. {c} \in S
    OBVIOUS
  <2>2. ASSUME NEW r \in S
        PROVE  Visit(v, r) \in S
    <3>1. \A y \in r : FatDir(v, y) \subseteq U16
      BY VolumeType
    <3> QED
      BY <3>1 DEF Visit
  <2>3. Step \in [Nat \X S -> S]
    BY <2>2
  <2>4. Steps(S, {c}, Step)
    BY <2>1, <2>3 DEF Steps
  <2> QED
    BY <2>4, Iterates
<1>3. \A f : Reach(f) = [k \in Nat |-> IF k = 0 THEN {c} ELSE Visit(v, f[k - 1])]
  BY DEF Visit
<1>4. g = Reach(g)
  <2>1. ASSUME NEW k \in Nat
        PROVE  g[k] = IF k = 0 THEN {c} ELSE Visit(v, g[k - 1])
    <3>1. CASE k = 0
      BY <1>2, <3>1 DEF Iterated
    <3>2. CASE k # 0
      <4>1. k - 1 \in Nat /\ g[k - 1] \in S /\ (k - 1) + 1 = k
        BY <1>2, <3>2 DEF Iterated
      <4>2. g[(k - 1) + 1] = Step[<<k - 1, g[k - 1]>>]
        BY <1>2, <4>1 DEF Iterated
      <4>3. Step[<<k - 1, g[k - 1]>>] = Visit(v, g[k - 1])
        BY <4>1
      <4> QED
        BY <3>2, <4>1, <4>2, <4>3
    <3> QED
      BY <3>1, <3>2
  <2>2. g = [k \in Nat |-> g[k]]
    BY <1>2 DEF Iterated
  <2>3. Reach(g) = [k \in Nat |-> IF k = 0 THEN {c} ELSE Visit(v, g[k - 1])]
    BY <1>3
  <2> HIDE DEF Reach
  <2>4. Reach(g) = [k \in Nat |-> g[k]]
    BY <2>1, <2>3
  <2> QED
    BY <2>2, <2>4
<1>5. W = Reach(W)
  <2> HIDE DEF Reach
  <2> QED
    BY <1>4
<1> HIDE DEF W, Reach
<1>6. W = [k \in Nat |-> IF k = 0 THEN {c} ELSE Visit(v, W[k - 1])]
  BY <1>3, <1>5
<1>7. W[0] = {c} /\ \A k \in Nat : W[k + 1] = Visit(v, W[k])
  BY <1>6
<1> QED
  BY <1>1, <1>7

\* An image has no more clusters than slots.
LEMMA InImageSize ==
  ASSUME NEW v \in Volumes
  PROVE  /\ IsFiniteSet(InImage(v)) /\ Cardinality(InImage(v)) <= Len(v.disk)
         /\ Len(v.disk) \in Nat
<1> DEFINE n == Len(v.disk)
<1>1. n \in Nat
  BY VolumeType
<1> HIDE DEF n
<1>2. InImage(v) \subseteq 2 .. n + 1
  <2> SUFFICES ASSUME NEW y \in InImage(v)
               PROVE  y \in 2 .. n + 1
    OBVIOUS
  <2>1. y \in Nat /\ y >= 2 /\ SlotOf(y) < n
    BY DEF InImage, ValidCluster, U16, n
  <2>2. y - 2 <= (y - 2) * ClusterSize
    BY <2>1, VolumeAssumption
  <2>3. SlotOf(y) = (y - 2) * ClusterSize /\ (y - 2) * ClusterSize \in Int
    BY <2>1, VolumeAssumption DEF SlotOf, SlotFrom
  <2> QED
    BY <1>1, <2>1, <2>2, <2>3
<1>3. IsFiniteSet(2 .. n + 1) /\ Cardinality(2 .. n + 1) = n
  BY <1>1, FS_Interval
<1>4. IsFiniteSet(InImage(v)) /\ Cardinality(InImage(v)) <= n
  BY <1>2, <1>3, FS_Subset
<1> QED
  BY <1>1, <1>4 DEF n

LEMMA NearIsClosed ==
  ASSUME NEW v \in Volumes, NEW c \in U16
  PROVE  ClosedFrom(v, c, Near(v, c))
<1> SUFFICES \E Q : ClosedFrom(v, c, Q)
  BY DEF Near
<1> DEFINE D == InImage(v)
           N == Len(v.disk)
           S == SUBSET D
           start == {c} \intersect D
           Step == [q \in Nat \X S |-> Onwards(v, q[2])]
<1>1. PICK reach : /\ Linked(v, c) = reach[N]
                   /\ reach[0] = {c}
                   /\ \A k \in Nat : reach[k + 1] = Visit(v, reach[k])
  BY LinkedWalk
<1>2. IsFiniteSet(D) /\ Cardinality(D) <= N /\ N \in Nat
  BY InImageSize
<1>3. PICK Q : Iterated(Q, S, start, Step)
  <2>1. start \in S
    OBVIOUS
  <2>2. \A r \in S : Onwards(v, r) \in S
    BY DEF Onwards
  <2>3. Step \in [Nat \X S -> S]
    BY <2>2
  <2>4. Steps(S, start, Step)
    BY <2>1, <2>3 DEF Steps
  <2> QED
    BY <2>4, Iterates
<1>4. /\ Q \in [Nat -> S] /\ Q[0] = start
      /\ \A k \in Nat : Q[k + 1] = Onwards(v, Q[k])
  BY <1>3 DEF Iterated
<1> HIDE DEF start, Step, N
<1>5. Q[N + 1] = Q[N]
  <2>1. \A k \in Nat : Q[k] \subseteq Q[k + 1]
    BY <1>4 DEF Onwards
  <2>2. ASSUME NEW k \in Nat, Q[k + 1] = Q[k]
        PROVE  Q[k + 2] = Q[k + 1]
    <3>1. Q[(k + 1) + 1] = Onwards(v, Q[k + 1]) /\ Q[k + 1] = Onwards(v, Q[k])
      BY <1>4
    <3>2. (k + 1) + 1 = k + 2
      OBVIOUS
    <3> QED
      BY <2>2, <3>1, <3>2
  <2> HIDE DEF D
  <2> QED
    BY <1>2, <1>4, <2>1, <2>2, Saturates
<1>6. \A k \in Nat : Q[k] \subseteq reach[k]
  <2> DEFINE X == {k \in Nat : Q[k] \subseteq reach[k]}
  <2>1. 0 \in X
    BY <1>1, <1>4 DEF start
  <2>2. ASSUME NEW k \in Nat, k \in X
        PROVE  k + 1 \in X
    <3>1. Q[k] \subseteq reach[k] /\ Q[k + 1] = Onwards(v, Q[k])
          /\ reach[k + 1] = Visit(v, reach[k])
      BY <1>1, <1>4, <2>2
    <3>2. \A x \in D : ValidCluster(x)
      BY DEF InImage
    <3>3. Onwards(v, Q[k]) \subseteq Visit(v, reach[k])
      BY <3>1, <3>2 DEF Onwards, Visit
    <3> QED
      BY <3>1, <3>3
  <2> HIDE DEF X
  <2>3. \A k \in Nat : k \in X
    BY <2>1, <2>2, Induction
  <2> QED
    BY <2>3 DEF X
<1>7. \A k \in Nat : start \subseteq Q[k]
  <2> DEFINE X == {k \in Nat : start \subseteq Q[k]}
  <2>1. 0 \in X
    BY <1>4
  <2>2. ASSUME NEW k \in Nat, k \in X
        PROVE  k + 1 \in X
    BY <1>4, <2>2 DEF Onwards
  <2> HIDE DEF X
  <2>3. \A k \in Nat : k \in X
    BY <2>1, <2>2, Induction
  <2> QED
    BY <2>3 DEF X
<1>8. ClosedFrom(v, c, Q[N])
  <2>1. Q[N] \subseteq Linked(v, c)
    BY <1>1, <1>2, <1>6
  <2>2. c \in InImage(v) => c \in Q[N]
    BY <1>2, <1>7 DEF start
  <2>3. Q[N] = Onwards(v, Q[N])
    BY <1>2, <1>4, <1>5
  <2>4. \A y \in Q[N] : \A x \in FatDir(v, y) : x \in InImage(v) => x \in Q[N]
    BY <2>3 DEF Onwards
  <2> QED
    BY <2>1, <2>2, <2>4 DEF ClosedFrom
<1> QED
  BY <1>8

\* What a read has returned, and where it goes on.
FromLinked(v, c, got) ==
  \A k \in 1 .. Len(got) : \E y \in Linked(v, c) : got[k] - SlotOf(y) \in 0 .. ClusterSize - 1
Linking(v, t) ==
  /\ FromLinked(v, t.req.fh, t.got)
  /\ t.pc \in Reading => (t.clus \in InImage(v) => t.clus \in Near(v, t.req.fh))
  /\ t.pc = "rdread" => MoreToRead(t)
LinkInv == \A w \in Workers : Linking(vol, th[w])

LEMMA NothingRead ==
  ASSUME NEW v, NEW c
  PROVE  FromLinked(v, c, <<>>)
BY DEF FromLinked

\* The steps that read nothing: the bytes read stay, or are given to the kernel.
LEMMA LinkStays ==
  ASSUME IInv, NEW w \in Workers, Linking(vol, th[w]), th'[w].pc \notin Reading,
         \/ th'[w].got = <<>>
         \/ th'[w].got = th[w].got /\ th'[w].req = th[w].req
  PROVE  Linking(vol, th'[w])
BY NothingRead DEF Linking, Reading

\* A handler that returns has no bytes left to itself.
LEMMA LinkReturned ==
  ASSUME IInv, NEW w \in Workers, Linking(vol, th[w]), NEW t, NEW a, NEW f,
         th'[w] = Returned(t, a, f)
  PROVE  Linking(vol, th'[w])
<1>1. th'[w].pc = "idle" /\ th'[w].got = <<>>
  BY DEF Returned, Fresh
<1> QED
  BY <1>1, LinkStays DEF Reading

LEMMA LinkAway ==
  ASSUME IInv, NEW w \in Workers, Linking(vol, th[w]),
         \/ Submit(w) \/ StrtokFirst(w) \/ StrtokNext(w) \/ (StrtokStale(w) /\ ~ Abort)
         \/ DispatchRoot(w) \/ SearchMiss(w) \/ FoundAnswer(w)
         \/ CountBadLookup(w) \/ CountBadList(w) \/ LoadedList(w) \/ DispatchDir(w)
         \/ SearchHit(w) \/ FoundDir(w) \/ (CountStart(w) /\ ~ Abort) \/ CountNext(w)
         \/ CountEnd(w) \/ Seek(w) \/ Fread(w) \/ LoadedSearch(w)
         \/ ReadShort(w) \/ ReadDone(w) \/ FreadShortLookup(w) \/ FreadShortList(w)
  PROVE  Linking(vol, th'[w])
<1>1. th[w] \in Local
  BY DEF IInv
<1>2. CASE Submit(w)
  <2>1. PICK r \in Inputs : th' = [th EXCEPT ![w] =
            [Fresh(r) EXCEPT !.pc = IF r.op = "read" THEN "rd0" ELSE "tok0"]]
    BY <1>2 DEF Submit
  <2>2. th'[w] = [Fresh(r) EXCEPT !.pc = IF r.op = "read" THEN "rd0" ELSE "tok0"]
    BY <2>1, Moved
  <2>3. th'[w].pc \in {"rd0", "tok0"} /\ th'[w].got = <<>>
    BY <2>2 DEF Fresh
  <2> QED
    BY <2>3, LinkStays DEF Reading
<1>3. CASE \/ DispatchRoot(w) \/ SearchMiss(w) \/ FoundAnswer(w)
           \/ CountBadLookup(w) \/ LoadedList(w) \/ FreadShortLookup(w)
  <2>1. PICK a, f : Finish(w, a, f)
    BY <1>3 DEF DispatchRoot, SearchMiss, FoundAnswer, CountBadLookup, LoadedList,
                FreadShortLookup
  <2>2. th'[w] = Returned(th[w], a, f)
    BY <2>1 DEF Finish
  <2> QED
    BY <2>2, LinkReturned
<1>4. CASE CountBadList(w) \/ FreadShortList(w) \/ ReadShort(w) \/ ReadDone(w)
  <2>1. PICK a : th' = [th EXCEPT ![w] = Returned(th[w], a, 0)]
    BY <1>4 DEF CountBadList, FreadShortList, ReadShort, ReadDone
  <2>2. th'[w] = Returned(th[w], a, 0)
    BY <2>1, Moved
  <2> QED
    BY <2>2, LinkReturned
<1>5. CASE StrtokFirst(w) \/ StrtokNext(w) \/ (StrtokStale(w) /\ ~ Abort)
  <2>1. /\ th'[w].pc \in {"tok", "dispatch"}
        /\ th'[w].got = th[w].got /\ th'[w].req = th[w].req
    BY <1>1, <1>5 DEF StrtokFirst, StrtokNext, StrtokStale, IInv, Local
  <2> QED
    BY <2>1, LinkStays DEF Reading
<1>6. CASE DispatchDir(w) \/ FoundDir(w) \/ LoadedSearch(w) \/ Seek(w)
           \/ (CountStart(w) /\ ~ Abort)
  <2>1. /\ th'[w].pc \in {"search", "count0", "fread", "count"}
        /\ th'[w].got = th[w].got /\ th'[w].req = th[w].req
    BY <1>1, <1>6 DEF DispatchDir, FoundDir, LoadedSearch, Seek, CountStart, IInv, Local
  <2> QED
    BY <2>1, LinkStays DEF Reading
<1>7. CASE SearchHit(w)
  <2> DEFINE t == th[w]
             h == IF t.idx > 1 THEN t.held - 1 ELSE t.held
             p == IF t.idx = Len(t.plist) THEN "found" ELSE "count0"
  <2>1. PICK hit \in SearchDirs(t.dir, t.plist[t.idx].name) \ {0} :
          th' = [th EXCEPT ![w].rval = t.dir[hit], ![w].held = h, ![w].dir = <<>>,
                           ![w].pc = p]
    BY <1>7 DEF SearchHit
  <2>2. p \in {"found", "count0"}
    OBVIOUS
  <2> HIDE DEF h, p
  <2>3. /\ th'[w].pc = p
        /\ th'[w].got = th[w].got /\ th'[w].req = th[w].req
    BY <1>1, <2>1 DEF IInv, Local
  <2> QED
    BY <2>2, <2>3, LinkStays DEF Reading
<1>8. CASE CountNext(w)
  <2>1. PICK x, m : th' = [th EXCEPT ![w].clus = x, ![w].n = m] /\ th[w].pc = "count"
    BY <1>8 DEF CountNext
  <2>2. /\ th'[w].pc = "count" /\ th'[w].got = th[w].got /\ th'[w].req = th[w].req
    BY <1>1, <2>1 DEF IInv, Local
  <2> QED
    BY <2>2, LinkStays DEF Reading
<1>9. CASE CountEnd(w)
  <2>1. PICK d, h, c : th' = [th EXCEPT ![w].pc = "seek", ![w].held = h,
                                ![w].i = 0, ![w].clus = c, ![w].dir = d]
    BY <1>9 DEF CountEnd
  <2>2. /\ th'[w].pc = "seek" /\ th'[w].got = th[w].got /\ th'[w].req = th[w].req
    BY <1>1, <2>1 DEF IInv, Local
  <2> QED
    BY <2>2, LinkStays DEF Reading
<1>10. CASE Fread(w)
  <2> DEFINE d == [k \in DOMAIN th[w].dir |->
                     IF k - ReadTarget(th[w]) \in 1 .. ClusterSize
                     THEN vol.disk[fpos + k - ReadTarget(th[w])]
                     ELSE th[w].dir[k]]
             j == th[w].i + 1
             p == IF j = th[w].n THEN "loaded" ELSE "seek"
  <2>1. PICK x \in FatDir(vol, th[w].clus) :
          th' = [th EXCEPT ![w].dir = d, ![w].clus = NextOf(x),
                           ![w].i = j, ![w].pc = p]
    BY <1>10 DEF Fread
  <2> HIDE DEF d, j
  <2>2. /\ th'[w].pc = p /\ th'[w].got = th[w].got /\ th'[w].req = th[w].req
    BY <1>1, <2>1 DEF IInv, Local
  <2> QED
    BY <2>2, LinkStays DEF Reading
<1> QED
  BY <1>2, <1>3, <1>4, <1>5, <1>6, <1>7, <1>8, <1>9, <1>10

LEMMA LinkRead ==
  ASSUME IInv, SharedStateHeld, NEW w \in Workers, Linking(vol, th[w]),
         ReadStart(w) \/ ReadSeek(w) \/ ReadFread(w)
  PROVE  Linking(vol, th'[w])
<1> DEFINE s == th[w]
           c == s.req.fh
<1>1. s \in Local /\ vol \in Volumes /\ c \in U16 /\ s.got \in Seq(Int)
  BY DEF IInv, SharedType, Local, Request
<1>2. ClosedFrom(vol, c, Near(vol, c))
  BY <1>1, NearIsClosed
<1>3. CASE ReadStart(w)
  <2>1. CASE s.req.off # 0
    <3>1. th'[w] = Returned(s, Error("EPERM"), 0)
      BY <1>3, <2>1, Moved DEF ReadStart
    <3> QED
      BY <3>1, LinkReturned
  <2>2. CASE s.req.off = 0
    <3>1. /\ th'[w].pc = "rdseek" /\ th'[w].clus = c
          /\ th'[w].got = s.got /\ th'[w].req = s.req
      BY <1>1, <1>3, <2>2 DEF ReadStart, IInv, Local
    <3> QED
      BY <1>2, <3>1 DEF Linking, ClosedFrom
  <2> QED
    BY <2>1, <2>2
<1>4. CASE ReadSeek(w)
  <2>1. /\ th'[w].pc = "rdread" /\ th'[w].clus = s.clus
        /\ th'[w].got = s.got /\ th'[w].req = s.req
    BY <1>1, <1>4 DEF ReadSeek, IInv, Local
  <2>2. MoreToRead(s) /\ s.pc \in Reading
    BY <1>4 DEF ReadSeek, Reading
  <2>3. MoreToRead(th'[w])
    BY <2>1, <2>2 DEF MoreToRead, Remaining
  <2> QED
    BY <2>1, <2>2, <2>3 DEF Linking, Reading
<1>5. CASE ReadFread(w)
  <2> DEFINE k == Chunk(s)
             m == Len(s.got)
             more == [i \in 1 .. k |-> fpos + i - 1]
             g == s.got \o more
             y == s.clus
  <2>1. PICK x \in FatDir(vol, y) :
          th' = [th EXCEPT ![w].got = g, ![w].clus = NextOf(x), ![w].pc = "rdseek"]
    BY <1>5 DEF ReadFread
  <2>2. /\ s.pc = "rdread" /\ s.pc \in Reading /\ MoreToRead(s)
        /\ Inside(vol, fpos, k) /\ fpos = SlotOf(y) /\ fpos \in Int
    BY <1>5 DEF ReadFread, Reading, Linking, SharedStateHeld, IInv, SharedType
  <2>3. k \in 1 .. ClusterSize /\ ClusterSize \in Nat
    <3>1. Remaining(s) \in Int /\ Remaining(s) > 0
      BY <1>1, <2>2 DEF MoreToRead, Remaining, Local, Request
    <3> QED
      BY <3>1, VolumeAssumption DEF Chunk
  <2> HIDE DEF k
  <2>4. y \in InImage(vol)
    <3>1. Len(vol.disk) \in Nat
      BY <1>1, VolumeType
    <3>2. SlotOf(y) < Len(vol.disk)
      BY <2>2, <2>3, <3>1 DEF Inside
    <3>3. y \in U16 /\ ValidCluster(y)
      BY <1>1, <2>2 DEF MoreToRead, Local
    <3> QED
      BY <3>2, <3>3 DEF InImage
  <2>5. y \in Near(vol, c) /\ y \in Linked(vol, c)
    BY <1>2, <2>2, <2>4 DEF Linking, ClosedFrom
  <2>6. k \in Nat /\ more \in Seq(Int) /\ Len(more) = k
    <3>1. k \in Nat
      BY <2>3
    <3>2. more \in [1 .. k -> Int]
      BY <2>2, <3>1
    <3> HIDE DEF more
    <3> QED
      BY <3>1, <3>2, SequenceType
  <2>7. \A i \in 1 .. k : more[i] = fpos + i - 1
    OBVIOUS
  <2> HIDE DEF more
  <2>8. /\ Len(g) = m + k /\ m \in Nat
        /\ \A i \in 1 .. m : g[i] = s.got[i]
        /\ \A i \in 1 .. k : g[m + i] = more[i]
    <3>1. s.got \in Seq(Int) /\ more \in Seq(Int) /\ Len(more) = k
      BY <1>1, <2>6
    <3>2. /\ Len(s.got \o more) = Len(s.got) + Len(more)
          /\ \A i \in 1 .. Len(s.got) : (s.got \o more)[i] = s.got[i]
          /\ \A i \in 1 .. Len(more) : (s.got \o more)[Len(s.got) + i] = more[i]
      <4> HIDE DEF s
      <4> QED
        BY <3>1, ConcatFacts
    <3>3. m \in Nat
      BY <3>1
    <3> QED
      BY <3>1, <3>2, <3>3
  <2> HIDE DEF g
  <2>9. FromLinked(vol, c, g)
    <3> SUFFICES ASSUME NEW i \in 1 .. m + k
                 PROVE  \E z \in Linked(vol, c) : g[i] - SlotOf(z) \in 0 .. ClusterSize - 1
      BY <2>8 DEF FromLinked
    <3>1. CASE i \in 1 .. m
      BY <2>8, <3>1 DEF Linking, FromLinked
    <3>2. CASE i > m
      <4>1. i - m \in 1 .. k /\ m + (i - m) = i
        <5>1. m \in Nat /\ k \in Nat
          BY <2>6, <2>8
        <5> HIDE DEF m
        <5> QED
          BY <3>2, <5>1
      <4>2. g[i] = fpos + (i - m) - 1
        BY <2>7, <2>8, <4>1
      <4>3. g[i] - SlotOf(y) \in 0 .. ClusterSize - 1
        BY <2>2, <2>3, <4>1, <4>2
      <4> QED
        BY <2>5, <4>3
    <3> QED
      BY <2>6, <2>8, <3>1, <3>2
  <2>10. NextOf(x) \in InImage(vol) => NextOf(x) \in Near(vol, c)
    <3>1. NextOf(x) \in InImage(vol) => NextOf(x) = x
      <4>1. ~ ValidCluster(EndClus)
        BY DEF ValidCluster, EndClus, BadClus
      <4> QED
        BY <4>1 DEF NextOf, InImage
    <3>2. x \in InImage(vol) => x \in Near(vol, c)
      BY <1>2, <2>5 DEF ClosedFrom
    <3> QED
      BY <3>1, <3>2
  <2>11. /\ th'[w].pc = "rdseek" /\ th'[w].clus = NextOf(x)
         /\ th'[w].got = g /\ th'[w].req = s.req
    BY <1>1, <2>1 DEF IInv, Local
  <2> QED
    BY <2>9, <2>10, <2>11 DEF Linking
<1> QED
  BY <1>3, <1>4, <1>5

\* Mounted with -s, on any image however corrupt, fat_read returns bytes only of
\* clusters that the table links from the open file's first cluster.
THEOREM SerialReadsAreLinked ==
  ASSUME NEW w, Workers = {w}
  PROVE  Spec => []ReadsLinked
<1>1. Init => LinkInv
  BY NothingRead DEF Init, Fresh, LinkInv, Linking, Reading
<1>2. ASSUME IInv, SharedStateHeld, LinkInv, [Next]_vars
      PROVE  LinkInv'
  <2>1. w \in Workers /\ Linking(vol, th[w])
    BY <1>2 DEF LinkInv
  <2>2. vol' = vol
    <3>1. CASE UNCHANGED vars
      BY <3>1 DEF vars
    <3>2. ASSUME NEW u, Submit(u) \/ Handle(u)
          PROVE  vol' = vol
      BY <3>2 DEF Submit, Handle, StrtokFirst, StrtokNext, StrtokStale, Abort,
       DispatchRoot, DispatchDir, SearchMiss, SearchHit, FoundAnswer, FoundDir,
       CountStart, CountNext, CountEnd, CountBadLookup, CountBadList, Seek, Fread,
       FreadShort, FreadShortLookup, FreadShortList, LoadedSearch, LoadedList,
       ReadStart, ReadSeek, ReadFread, ReadShort, ReadDone
    <3> QED
      BY <1>2, <3>1, <3>2 DEF Next
  <2>3. Linking(vol, th'[w])
    <3>1. CASE UNCHANGED vars \/ Abort
      BY <2>1, <3>1 DEF vars, Abort
    <3>2. CASE Submit(w) \/ (Handle(w) /\ ~ Abort)
      BY <1>2, <2>1, <3>2, LinkAway, LinkRead DEF Handle, FreadShort
    <3> QED
      BY <1>2, <3>1, <3>2 DEF Next
  <2> QED
    BY <2>2, <2>3 DEF LinkInv
<1>3. LinkInv => ReadsLinked
  BY DEF LinkInv, Linking, FromLinked, ReadsLinked
<1> QED
  BY <1>1, <1>2, <1>3, InvariantHolds, SerialMountIsSafe, PTL DEF Spec
==========================================================================
