---------------------------- MODULE BrilProofs ----------------------------
(***************************************************************************)
(* Proofs about BrilInterp, for every set of programs and every bound: its *)
(* types, its stack discipline, its label caches, the types of its         *)
(* pointers, and that it implements BrilSpec.                              *)
(***************************************************************************)
EXTENDS BrilInterp, SequenceTheorems, WellFoundedInduction,
        TLAPS

(***************************************************************************)
(* The invariant, with the program and the heap as parameters: a frame     *)
(* stays good when the heap grows.                                         *)
(***************************************************************************)
Body(f, p) == p[f.name].instrs
FitsIn(v, h) ==
  IF v.ptr THEN v.blk \in 1 .. Len(h) /\ h[v.blk].base = v.base
           ELSE v.num \in Payload(v.base)
Cached(f, p) ==
  \A l \in Labels : f.labels[l] # NotCached => f.labels[l] \in LabelAt(Body(f, p), l)
GoodFrame(f, p, h) ==
  /\ f \in Frame
  /\ f.name \in DOMAIN p
  /\ f.ip <= Len(Body(f, p))
  /\ Cached(f, p)
  /\ \A x \in Vars : FitsIn(f.variables[x], h)
Waits(f, p) == f.ip < Len(Body(f, p)) /\ Body(f, p)[f.ip + 1].op = "call"
GoodValue(v, h) == v \in Value /\ FitsIn(v, h)
GoodHeap(h) ==
  /\ h \in Seq(Block)
  /\ \A b \in 1 .. Len(h) : \A k \in 1 .. Len(h[b].cells) :
       h[b].cells[k] \in Payload(h[b].base)
GoodStack(s, p, h) ==
  /\ s \in Seq(Frame)
  /\ \A d \in 1 .. Len(s) : GoodFrame(s[d], p, h)
  /\ \A d \in 1 .. Len(s) - 1 : Waits(s[d], p)

IInv ==
  /\ IsProgram(prog)
  /\ GoodStack(frames, prog, heap)
  /\ GoodValue(ret_val, heap)
  /\ GoodHeap(heap)
  /\ out \in Seq(Value)
  /\ status \in {"start", "running", "done", "threw", "label", "undef"}
  /\ status = "running" => frames # <<>>

\* The parameterised form says the same of this heap.
LEMMA FitsSame == \A v : Fits(v) <=> FitsIn(v, heap)
  BY DEF Fits, FitsIn

\* The invariant gives the four properties the runs check.
LEMMA Implied == IInv => TypeOK /\ StackSound /\ CacheSound /\ ValuesSound
<1> SUFFICES ASSUME IInv PROVE TypeOK /\ StackSound /\ CacheSound /\ ValuesSound
  OBVIOUS
<1> USE DEF IInv
<1>1. TypeOK
  BY DEF TypeOK, GoodStack, GoodValue, GoodHeap
<1>2. StackSound
  BY DEF StackSound, GoodStack, GoodFrame, Waits, Body, CallOf
<1>3. CacheSound
  BY DEF CacheSound, GoodStack, GoodFrame, Cached, Body
<1>4. ValuesSound
  BY FitsSame DEF ValuesSound, GoodStack, GoodFrame, GoodValue, GoodHeap
<1> QED
  BY <1>1, <1>2, <1>3, <1>4

(***************************************************************************)
(* Values.                                                                 *)
(***************************************************************************)
LEMMA Payloads ==
  ASSUME NEW b \in BaseTypes
  PROVE  Payload(b) \subseteq IntMin .. IntMax /\ 0 \in Payload(b)
  BY ProgramAssumption DEF Payload, BaseTypes

\* A number of its type fits any heap.
LEMMA NumberGood ==
  ASSUME NEW b \in BaseTypes, NEW n \in Payload(b), NEW h
  PROVE  GoodValue(Number(b, n), h)
  BY Payloads DEF GoodValue, FitsIn, Number, Value

\* So does a variable nobody has assigned.
LEMMA DefaultGood == \A h : GoodValue(Default, h)
  BY NumberGood, Payloads DEF Default, BaseTypes

\* A pointer to an allocated block of its type fits, at any offset.
LEMMA PointerGood ==
  ASSUME NEW b \in BaseTypes, NEW h, NEW k \in 1 .. Len(h), Len(h) \in Nat,
         h[k].base = b, NEW o \in Int
  PROVE  GoodValue(Pointer(b, k, o), h)
  BY ProgramAssumption DEF GoodValue, FitsIn, Pointer, Value

\* add, sub and mul stay in int.
LEMMA WrapRange == \A n \in Int : Wrap(n) \in IntMin .. IntMax
<1> TAKE n \in Int
<1> DEFINE d == IntMax - IntMin + 1
           m == n - IntMin
<1>1. d \in Nat /\ d > 0 /\ m \in Int
  BY ProgramAssumption
<1>2. m % d \in 0 .. d - 1
  <2> HIDE DEF d, m
  <2> QED BY <1>1
<1> QED
  BY <1>2, ProgramAssumption DEF Wrap

\* div stays in int where it does not trap.
LEMMA QuotientRange ==
  ASSUME NEW a \in IntMin .. IntMax, NEW b \in IntMin .. IntMax, b # 0,
         ~ (a = IntMin /\ b = -1)
  PROVE  Quotient(a, b) \in IntMin .. IntMax
<1> DEFINE p == Abs(a)
           q == Abs(b)
           r == p \div q
<1>1. p \in Nat /\ q \in Nat /\ q > 0
  BY ProgramAssumption DEF Abs
<1>2. r \in Nat /\ r <= p /\ (q > 1 => r + r <= p)
  <2> HIDE DEF p, q
  <2>1. r \in Int /\ q * r <= p /\ p < q * r + q
    BY <1>1
  <2>2. r >= 0
    BY <1>1, <2>1
  <2> HIDE DEF r
  <2>3. q * r >= r /\ (q > 1 => q * r >= r + r)
    BY <1>1, <2>1, <2>2
  <2> QED
    BY <1>1, <2>1, <2>2, <2>3
<1>3. p <= IntMax + 1 /\ (p = IntMax + 1 => a = IntMin)
  BY ProgramAssumption DEF Abs
<1>4. q = 1 => b \in {1, -1}
  BY ProgramAssumption DEF Abs
<1>5. Quotient(a, b) = IF (a < 0) = (b < 0) THEN r ELSE -r
  BY DEF Quotient
<1> HIDE DEF p, q, r
<1>6. -r \in IntMin .. IntMax
  BY <1>1, <1>2, <1>3, ProgramAssumption
<1>7. ASSUME (a < 0) = (b < 0) PROVE r \in IntMin .. IntMax
  <2>1. p = IntMax + 1 => q > 1
    BY <1>1, <1>3, <1>4, <1>7, ProgramAssumption
  <2>2. CASE p <= IntMax
    BY <2>2, <1>1, <1>2, ProgramAssumption
  <2>3. CASE p = IntMax + 1
    BY <2>1, <2>3, <1>1, <1>2, ProgramAssumption
  <2> QED BY <2>2, <2>3, <1>1, <1>3, ProgramAssumption
<1> QED
  BY <1>5, <1>6, <1>7

Signatures ==
  {<<"int", "plus", "int">>, <<"int", "minus", "int">>, <<"int", "times", "int">>,
   <<"int", "over", "int">>, <<"float", "some", "float">>}
    \union {<<t, c, "bool">> : t \in BaseTypes,
                               c \in {"eq", "lt", "gt", "le", "ge", "and", "or"}}

\* Each IMPLEMENT_BINOP line has one of these signatures.
LEMMA BinOpShape == \A o \in DOMAIN BinOps : BinOps[o] \in Signatures
  BY DEF BinOps, Signatures, BaseTypes

\* The result of an operation fits the type its line declares.
LEMMA ApplyFits ==
  ASSUME NEW o \in DOMAIN BinOps, NEW a \in IntMin .. IntMax, NEW b \in IntMin .. IntMax,
         NEW n \in Apply(BinOps[o][2], a, b)
  PROVE  BinOps[o][3] \in BaseTypes /\ n \in Payload(BinOps[o][3])
<1> DEFINE s == BinOps[o]
<1>s. s \in Signatures
  BY BinOpShape
<1>n. n \in Apply(s[2], a, b)
  OBVIOUS
<1> HIDE DEF s
<1>0. a \in Int /\ b \in Int
  BY ProgramAssumption
<1>1. CASE s[2] \in {"plus", "minus", "times"}
  <2>1. s[3] = "int"
    BY <1>s, <1>1 DEF Signatures
  <2>2. n = Wrap(Exact(s[2], a, b)) /\ Exact(s[2], a, b) \in Int
    BY <1>n, <1>0, <1>1 DEF Apply, Exact
  <2> QED
    BY <2>1, <2>2, WrapRange DEF Payload, BaseTypes, s
<1>2. CASE s[2] = "over"
  <2>1. s[3] = "int"
    BY <1>s, <1>2 DEF Signatures
  <2>2. n = Quotient(a, b) /\ ~ Traps(a, b)
    BY <1>n, <1>2 DEF Apply
  <2> QED
    BY <2>1, <2>2, QuotientRange DEF Payload, BaseTypes, Traps, s
<1>3. CASE s[2] = "some"
  <2>1. s[3] = "float"
    BY <1>s, <1>3 DEF Signatures
  <2> QED
    BY <1>n, <1>3, <2>1 DEF Apply, BaseTypes, s
<1>4. CASE s[2] \in {"eq", "lt", "gt", "le", "ge", "and", "or"}
  <2>1. s[3] = "bool"
    BY <1>s, <1>4 DEF Signatures
  <2>2. n = Bit(Holds(s[2], a, b))
    BY <1>n, <1>4 DEF Apply
  <2>3. n \in {0, 1}
    BY <2>2 DEF Bit
  <2> QED
    BY <2>1, <2>3 DEF Payload, BaseTypes, s
<1> QED
  BY <1>s, <1>1, <1>2, <1>3, <1>4 DEF Signatures

(***************************************************************************)
(* What a running frame looks like.                                        *)
(***************************************************************************)
LEMMA TopGood ==
  ASSUME IInv, status = "running"
  PROVE  /\ Len(frames) \in Nat \ {0}
         /\ GoodFrame(Top, prog, heap) /\ Top \in Frame
         /\ Instrs = Body(Top, prog) /\ Instrs \in Seq(Instr)
         /\ \A k \in 1 .. Len(Instrs) : Shaped(Instrs[k])
<1>1. Len(frames) \in Nat \ {0}
  BY DEF IInv, GoodStack
<1>2. GoodFrame(Top, prog, heap)
  BY <1>1 DEF IInv, GoodStack, Top
<1>3. Instrs = Body(Top, prog) /\ Top \in Frame
  BY <1>2 DEF Instrs, Body, GoodFrame
<1>4. prog[Top.name] \in Function
  BY <1>2 DEF IInv, IsProgram, GoodFrame
<1>5. Instrs \in Seq(Instr) /\ \A k \in 1 .. Len(Instrs) : Shaped(Instrs[k])
  BY <1>2, <1>4 DEF IInv, IsProgram, GoodFrame, Function, Instrs
<1> QED
  BY <1>1, <1>2, <1>3, <1>5

\* The instruction that runs has the arguments its macro reads.
LEMMA CurTyped ==
  ASSUME IInv, NEW ops, Runs(ops)
  PROVE  /\ Cur \in Instr /\ Shaped(Cur) /\ Cur.op \in ops
         /\ Top.ip \in Nat /\ Top.ip < Len(Instrs) /\ Len(Instrs) \in Nat
<1>1. status = "running" /\ Top.ip < Len(Instrs) /\ Cur.op \in ops
  BY DEF Runs
<1>2. Top.ip \in Nat
  BY <1>1, TopGood DEF Frame
<1>3. Top.ip + 1 \in 1 .. Len(Instrs) /\ Len(Instrs) \in Nat
  BY <1>1, <1>2, TopGood
<1> QED
  BY <1>1, <1>2, <1>3, TopGood DEF Cur

\* get_arg_v yields a good value.
LEMMA ArgGood ==
  ASSUME IInv, NEW ops, Runs(ops), NEW k \in 1 .. Len(Cur.args)
  PROVE  Cur.args[k] \in Vars /\ GoodValue(Arg(k), heap)
<1>1. Cur \in Instr
  BY CurTyped
<1>2. Cur.args[k] \in Vars
  BY <1>1 DEF Instr
<1>3. GoodFrame(Top, prog, heap) /\ Top.variables \in [Vars -> Value]
  BY TopGood DEF Runs, Frame
<1> QED
  BY <1>2, <1>3 DEF Arg, GoodValue, GoodFrame

(***************************************************************************)
(* Heaps that only grow keep every value good.                             *)
(***************************************************************************)
Grows(h, g) ==
  /\ GoodHeap(h) /\ GoodHeap(g) /\ Len(h) <= Len(g)
  /\ \A b \in 1 .. Len(h) : g[b].base = h[b].base

\* A value that fits a heap fits one grown from it.
LEMMA GrowsKeeps ==
  ASSUME NEW h, NEW g, Grows(h, g), NEW v, v \in Value, FitsIn(v, h)
  PROVE  FitsIn(v, g)
  BY DEF Grows, GoodHeap, FitsIn, Value

\* So does a frame.
LEMMA GrowsFrame ==
  ASSUME NEW h, NEW g, Grows(h, g), NEW p, NEW f, GoodFrame(f, p, h)
  PROVE  GoodFrame(f, p, g)
  BY GrowsKeeps DEF GoodFrame, Frame

\* A heap that stays as it is grows too.
LEMMA GrowsSelf == ASSUME NEW h, GoodHeap(h) PROVE Grows(h, h)
  BY DEF Grows, GoodHeap

(***************************************************************************)
(* A step that replaces the top frame by a good one.                       *)
(***************************************************************************)
LEMMA TopStep ==
  ASSUME IInv, status = "running", NEW f, GoodFrame(f, prog, heap'),
         frames' = [frames EXCEPT ![Len(frames)] = f],
         prog' = prog, Grows(heap, heap'), GoodValue(ret_val', heap'),
         out' \in Seq(Value), status' = "running"
  PROVE  IInv'
<1> DEFINE n == Len(frames)
<1>1. n \in Nat \ {0} /\ frames \in Seq(Frame)
  BY TopGood DEF IInv, GoodStack
<1>2. f \in Frame
  BY DEF GoodFrame
<1>3. frames' \in Seq(Frame) /\ Len(frames') = n
  BY <1>1, <1>2
<1>4. \A d \in 1 .. n : GoodFrame(frames'[d], prog, heap')
  BY <1>1, <1>2, GrowsFrame DEF IInv, GoodStack
<1>5. \A d \in 1 .. n - 1 : frames'[d] = frames[d]
  BY <1>1
<1>6. GoodStack(frames', prog, heap')
  BY <1>1, <1>3, <1>4, <1>5 DEF GoodStack, IInv
<1>7. frames' # <<>>
  BY <1>1, <1>3
<1> QED
  BY <1>6, <1>7 DEF IInv, Grows

\* The ways the process ends leave the context as it is.
LEMMA StopStep ==
  ASSUME IInv, NEW how \in {"threw", "label", "undef"}, Stop(how)
  PROVE  IInv'
  BY DEF IInv, Stop

\* The frame after ++ip, and after an assignment and ++ip.
LEMMA Advanced ==
  ASSUME IInv, NEW ops, Runs(ops), NEW h, Grows(heap, h), Next_ip
  PROVE  \E f : GoodFrame(f, prog, h) /\ frames' = [frames EXCEPT ![Len(frames)] = f]
<1> DEFINE f == [Top EXCEPT !.ip = @ + 1]
<1>1. GoodFrame(Top, prog, h)
  BY TopGood, GrowsFrame DEF Runs
<1>t. Top \in Frame /\ Top.ip + 1 \in Nat
  BY <1>1, CurTyped DEF GoodFrame
<1>f. /\ f \in Frame /\ f.name = Top.name /\ f.ip = Top.ip + 1
      /\ f.labels = Top.labels /\ f.variables = Top.variables
  BY <1>t DEF Frame
<1>2. GoodFrame(f, prog, h)
  <2> HIDE DEF f
  <2>1. Body(f, prog) = Instrs /\ Body(Top, prog) = Instrs
    BY <1>f, TopGood DEF Body, Runs
  <2>2. f.ip <= Len(Body(f, prog))
    BY <1>f, <2>1, CurTyped
  <2>3. f.name \in DOMAIN prog /\ Cached(f, prog)
    BY <1>1, <1>f, <2>1 DEF GoodFrame, Cached
  <2> QED
    BY <1>1, <1>f, <2>2, <2>3 DEF GoodFrame
<1>3. frames' = [frames EXCEPT ![Len(frames)] = f]
  BY TopGood DEF Next_ip, Top, Runs, IInv, GoodStack
<1> QED
  BY <1>2, <1>3

\* set_dest: a good value in dest, and the next ip.
LEMMA Assigned ==
  ASSUME IInv, NEW ops, Runs(ops), NEW h, Grows(heap, h), NEW v, GoodValue(v, h),
         Cur.dest # NoVar, Set_dest(v)
  PROVE  \E f : GoodFrame(f, prog, h) /\ frames' = [frames EXCEPT ![Len(frames)] = f]
<1> DEFINE f == [Top EXCEPT !.ip = @ + 1, !.variables[Cur.dest] = v]
<1>1. GoodFrame(Top, prog, h)
  BY TopGood, GrowsFrame DEF Runs
<1>2. Cur.dest \in Vars
  BY CurTyped DEF Instr
<1>t. Top \in Frame /\ Top.ip + 1 \in Nat /\ v \in Value
  BY <1>1, CurTyped DEF GoodFrame, GoodValue
<1>3. f \in Frame /\ f.name = Top.name /\ f.ip = Top.ip + 1 /\ f.labels = Top.labels
      /\ f.variables = [Top.variables EXCEPT ![Cur.dest] = v]
  BY <1>2, <1>t DEF Frame
<1>4. \A x \in Vars : FitsIn(f.variables[x], h)
  <2> TAKE x \in Vars
  <2>1. Top.variables \in [Vars -> Value] /\ FitsIn(Top.variables[x], h)
    BY <1>1 DEF GoodFrame, Frame
  <2>2. f.variables[x] = IF x = Cur.dest THEN v ELSE Top.variables[x]
    BY <1>2, <1>3, <2>1
  <2> HIDE DEF f
  <2> QED
    BY <2>1, <2>2 DEF GoodValue
<1>5. GoodFrame(f, prog, h)
  <2> HIDE DEF f
  <2>1. Body(f, prog) = Instrs /\ Body(Top, prog) = Instrs
    BY <1>3, TopGood DEF Body, Runs
  <2>2. f.ip <= Len(Body(f, prog))
    BY <1>3, <2>1, CurTyped
  <2>3. f.name \in DOMAIN prog
    BY <1>1, <1>3 DEF GoodFrame
  <2>4. Cached(f, prog)
    BY <1>1, <1>3, <2>1 DEF GoodFrame, Cached
  <2> QED BY <1>3, <1>4, <2>2, <2>3, <2>4 DEF GoodFrame
<1>6. frames' = [frames EXCEPT ![Len(frames)] = f]
  BY TopGood DEF Set_dest, Top, Runs, IInv, GoodStack
<1> QED
  BY <1>5, <1>6

(***************************************************************************)
(* Jumps.                                                                  *)
(***************************************************************************)
\* The frame with its ip anywhere in its function, or behind its end.
LEMMA Moved ==
  ASSUME IInv, status = "running", NEW i \in 0 .. Len(Instrs)
  PROVE  GoodFrame([Top EXCEPT !.ip = i], prog, heap)
<1> DEFINE f == [Top EXCEPT !.ip = i]
<1>1. GoodFrame(Top, prog, heap) /\ Top \in Frame /\ Len(Instrs) \in Nat
  BY TopGood
<1>2. /\ f \in Frame /\ f.name = Top.name /\ f.ip = i
      /\ f.labels = Top.labels /\ f.variables = Top.variables
  BY <1>1 DEF Frame
<1> SUFFICES GoodFrame(f, prog, heap) OBVIOUS
<1> HIDE DEF f
<1>3. Body(f, prog) = Instrs /\ Body(Top, prog) = Instrs
  BY <1>2, TopGood DEF Body
<1>4. f.ip <= Len(Body(f, prog))
  BY <1>1, <1>2, <1>3
<1>5. Cached(f, prog)
  BY <1>1, <1>2, <1>3 DEF GoodFrame, Cached
<1> QED
  BY <1>1, <1>2, <1>4, <1>5 DEF GoodFrame

\* The frame with one more label in its cache, placed where that label stands.
LEMMA Relabelled ==
  ASSUME IInv, status = "running", NEW i \in 0 .. Len(Instrs),
         NEW l \in Labels, NEW k \in LabelAt(Instrs, l)
  PROVE  GoodFrame([Top EXCEPT !.labels[l] = k, !.ip = i], prog, heap)
<1> DEFINE f == [Top EXCEPT !.labels[l] = k, !.ip = i]
<1>1. GoodFrame(Top, prog, heap) /\ Top \in Frame /\ Len(Instrs) \in Nat
  BY TopGood
<1>k. k \in Int /\ i \in Nat
  BY <1>1 DEF LabelAt
<1>2. /\ f \in Frame /\ f.name = Top.name /\ f.ip = i
      /\ f.labels = [Top.labels EXCEPT ![l] = k] /\ f.variables = Top.variables
  BY <1>1, <1>k DEF Frame
<1> SUFFICES GoodFrame(f, prog, heap) OBVIOUS
<1> HIDE DEF f
<1>3. Body(f, prog) = Instrs /\ Body(Top, prog) = Instrs
  BY <1>2, TopGood DEF Body
<1>4. f.ip <= Len(Body(f, prog))
  BY <1>1, <1>2, <1>3
<1>5. Cached(f, prog)
  <2> SUFFICES ASSUME NEW m \in Labels, f.labels[m] # NotCached
               PROVE  f.labels[m] \in LabelAt(Instrs, m)
    BY <1>3 DEF Cached
  <2>1. Top.labels \in [Labels -> Int]
    BY <1>1 DEF Frame
  <2>2. f.labels[m] = IF m = l THEN k ELSE Top.labels[m]
    BY <1>2, <2>1
  <2> QED
    BY <1>1, <1>3, <2>2 DEF GoodFrame, Cached
<1> QED
  BY <1>1, <1>2, <1>4, <1>5 DEF GoodFrame

\* A set of label positions has a least one, so that Find_label finds one.
LEMMA LeastFound ==
  ASSUME NEW S, NEW n \in Nat, S \subseteq 0 .. n - 1, S # {}
  PROVE  \E k \in S : \A j \in S : k <= j
<1>1. S \subseteq Nat
  OBVIOUS
<1>2. PICK k \in S : \A j \in S : ~ (<<j, k>> \in OpToRel(<, Nat))
  BY <1>1, NatLessThanWellFounded, WFMin
<1>3. \A j \in S : ~ (j < k)
  BY <1>1, <1>2 DEF OpToRel
<1> QED
  BY <1>1, <1>3

\* The steps that replace the top frame and leave the heap alone.
LEMMA FrameStep ==
  ASSUME IInv, status = "running", NEW f, GoodFrame(f, prog, heap),
         frames' = [frames EXCEPT ![Len(frames)] = f],
         UNCHANGED <<prog, heap, status>>, GoodValue(ret_val', heap),
         out' \in Seq(Value)
  PROVE  IInv'
<1>1. Grows(heap, heap)
  BY GrowsSelf DEF IInv
<1>2. heap' = heap /\ prog' = prog /\ status' = "running"
  OBVIOUS
<1>3. /\ GoodFrame(f, prog, heap') /\ Grows(heap, heap') /\ GoodValue(ret_val', heap')
  BY <1>1, <1>2
<1> QED
  BY <1>2, <1>3, TopStep

\* jmp_to_label, whether the label is cached, found or missing.
LEMMA JumpStep ==
  ASSUME IInv, status = "running", NEW l \in Labels, Jmp_to_label(l)
  PROVE  IInv'
<1>0. /\ frames \in Seq(Frame) /\ Len(frames) \in Nat \ {0} /\ Len(Instrs) \in Nat
      /\ GoodFrame(Top, prog, heap) /\ Instrs = Body(Top, prog) /\ Top \in Frame
      /\ GoodValue(ret_val, heap) /\ out \in Seq(Value)
  BY TopGood DEF IInv, GoodStack
<1>1. ASSUME NEW k \in LabelAt(Instrs, l)
      PROVE  k \in Int /\ k + 1 \in 0 .. Len(Instrs)
  BY <1>0, <1>1 DEF LabelAt
<1>2. CASE /\ Top.labels[l] # NotCached
           /\ frames' = [frames EXCEPT ![Len(frames)].ip = Top.labels[l] + 1]
           /\ UNCHANGED <<prog, ret_val, heap, out, status>>
  <2> DEFINE i == Top.labels[l] + 1
             f == [Top EXCEPT !.ip = i]
  <2>1. Top.labels[l] \in LabelAt(Instrs, l)
    BY <1>0, <1>2 DEF GoodFrame, Cached
  <2>2. i \in 0 .. Len(Instrs)
    BY <1>1, <2>1
  <2>3. frames' = [frames EXCEPT ![Len(frames)] = f]
    BY <1>0, <1>2 DEF Top
  <2>4. GoodFrame(f, prog, heap)
    <3> HIDE DEF i
    <3> QED BY <2>2, Moved
  <2> HIDE DEF f
  <2> QED
    BY <1>0, <1>2, <2>3, <2>4, FrameStep
<1>3. CASE /\ Top.labels[l] = NotCached /\ Found(l) # {}
           /\ frames' = [frames EXCEPT ![Len(frames)].labels[l] = Find_label(l),
                                       ![Len(frames)].ip = Find_label(l) + 1]
           /\ UNCHANGED <<prog, ret_val, heap, out, status>>
  <2> DEFINE k == Find_label(l)
             i == k + 1
             f == [Top EXCEPT !.labels[l] = k, !.ip = i]
  <2>1. k \in LabelAt(Instrs, l)
    <3>1. Found(l) \subseteq LabelAt(Instrs, l)
      BY DEF Found
    <3>2. Found(l) \subseteq 0 .. Len(Instrs) - 1
      BY <3>1 DEF LabelAt
    <3>3. \E m \in Found(l) : \A j \in Found(l) : m <= j
      BY <1>0, <1>3, <3>2, LeastFound
    <3>4. k \in Found(l)
      BY <3>3 DEF Find_label
    <3> QED
      BY <3>1, <3>4
  <2>3. frames' = [frames EXCEPT ![Len(frames)] = f]
    BY <1>0, <1>3 DEF Top
  <2>2. k \in Int /\ i \in 0 .. Len(Instrs)
    <3> HIDE DEF k
    <3> QED BY <1>1, <2>1
  <2>4. GoodFrame(f, prog, heap)
    <3> HIDE DEF i, k
    <3> QED BY <2>1, <2>2, Relabelled
  <2> HIDE DEF f
  <2> QED
    BY <1>0, <1>3, <2>3, <2>4, FrameStep
<1>4. CASE Top.labels[l] = NotCached /\ Found(l) = {} /\ Stop("label")
  BY <1>4, StopStep
<1> QED
  BY <1>2, <1>3, <1>4 DEF Jmp_to_label

(***************************************************************************)
(* Calls.                                                                  *)
(***************************************************************************)
\* setup_frame gives every variable a value of its own type, or the default.
LEMMA NewFrame ==
  ASSUME IsProgram(prog), NEW fn \in DOMAIN prog, NEW args, NEW h,
         \A k \in 1 .. Len(Params(fn)) : GoodValue(args[k], h)
  PROVE  GoodFrame(Setup_frame(fn, args), prog, h)
<1> DEFINE f == Setup_frame(fn, args)
           value(x) == IF Bound(fn, args, x) = {} THEN Default
                       ELSE args[CHOOSE k \in Bound(fn, args, x) : TRUE]
<1>1. fn \in Functions /\ prog[fn] \in Function
  BY DEF IsProgram
<1>2. \A x \in Vars : GoodValue(value(x), h)
  <2> TAKE x \in Vars
  <2>1. CASE Bound(fn, args, x) = {}
    BY <2>1, DefaultGood
  <2>2. CASE Bound(fn, args, x) # {}
    <3>1. (CHOOSE k \in Bound(fn, args, x) : TRUE) \in Bound(fn, args, x)
      BY <2>2
    <3>2. Bound(fn, args, x) \subseteq 1 .. Len(Params(fn))
      BY DEF Bound
    <3> QED
      BY <2>2, <3>1, <3>2
  <2> QED
    BY <2>1, <2>2
<1>3. /\ f.name = fn /\ f.ip = 0 /\ f.labels = [l \in Labels |-> NotCached]
      /\ f.variables = [x \in Vars |-> value(x)]
      /\ f = [name |-> fn, ip |-> 0, labels |-> f.labels, variables |-> f.variables]
  BY DEF Setup_frame
<1> HIDE DEF f, value
<1>4. \A x \in Vars : f.variables[x] \in Value /\ FitsIn(f.variables[x], h)
  BY <1>2, <1>3 DEF GoodValue
<1>5. f.labels \in [Labels -> Int] /\ f.variables \in [Vars -> Value]
  BY <1>3, <1>4 DEF NotCached
<1>6. f \in Frame
  BY <1>1, <1>3, <1>5 DEF Frame
<1>7. f.ip <= Len(Body(f, prog)) /\ Cached(f, prog)
  <2>1. Body(f, prog) \in Seq(Instr)
    BY <1>1, <1>3 DEF Body, Function
  <2> QED
    BY <1>3, <2>1 DEF Cached
<1>8. GoodFrame(f, prog, h)
  BY <1>3, <1>4, <1>6, <1>7 DEF GoodFrame
<1> QED
  BY <1>8 DEF f

\* The caller stays at its call, and the callee's frame is a new good one.
LEMMA CallStep == ASSUME IInv, Interpret_call PROVE IInv'
<1> DEFINE v_args == [k \in DOMAIN Cur.args |-> Arg(k)]
<1>0. Runs({"call"}) /\ status = "running"
  BY DEF Interpret_call, Runs
<1>1. /\ Cur \in Instr /\ Cur.op = "call" /\ Top.ip < Len(Instrs)
      /\ frames \in Seq(Frame) /\ Len(frames) \in Nat \ {0}
      /\ Instrs = Body(Top, prog) /\ Cur = Instrs[Top.ip + 1]
  BY <1>0, CurTyped, TopGood DEF IInv, GoodStack, Cur
<1>2. CASE /\ Cur.args # <<>> /\ Accepts(Cur.fn, v_args) /\ Len(frames) < MaxDepth
           /\ frames' = Append(frames, Setup_frame(Cur.fn, v_args))
           /\ UNCHANGED <<prog, ret_val, heap, out, status>>
  <2> DEFINE g == Setup_frame(Cur.fn, v_args)
             n == Len(frames)
  <2>1. Cur.args \in Seq(Vars) /\ DOMAIN Cur.args = 1 .. Len(Cur.args)
    BY <1>1 DEF Instr
  <2>2. \A k \in 1 .. Len(Cur.args) : GoodValue(v_args[k], heap)
    BY <1>0, <2>1, ArgGood
  <2>3. Len(v_args) = Len(Cur.args)
    BY <2>1
  <2>4. Cur.fn \in DOMAIN prog /\ Params(Cur.fn) \in Seq([name : Vars, base : BaseTypes, ptr : BOOLEAN])
    BY <1>2 DEF Accepts, IInv, IsProgram, Function, Params
  <2>5. \A k \in 1 .. Len(Params(Cur.fn)) : GoodValue(v_args[k], heap)
    <3>1. CASE Params(Cur.fn) = <<>>
      BY <3>1
    <3>2. CASE Params(Cur.fn) # <<>>
      BY <1>2, <2>2, <2>3, <3>2 DEF Accepts
    <3> QED BY <3>1, <3>2
  <2> HIDE DEF v_args
  <2>6. GoodFrame(g, prog, heap)
    BY <2>4, <2>5, NewFrame DEF IInv
  <2>7. g \in Frame
    BY <2>6 DEF GoodFrame
  <2>8. frames' = Append(frames, g) /\ prog' = prog /\ heap' = heap /\ ret_val' = ret_val
        /\ out' = out /\ status' = status
    BY <1>2
  <2> HIDE DEF g
  <2>9. /\ frames' \in Seq(Frame) /\ Len(frames') = n + 1 /\ frames'[n + 1] = g
        /\ \A d \in 1 .. n : frames'[d] = frames[d]
    BY <1>1, <2>7, <2>8
  <2>10. Waits(frames[n], prog)
    BY <1>1 DEF Waits, Top
  <2>11. \A d \in 1 .. n + 1 : GoodFrame(frames'[d], prog, heap)
    BY <1>1, <2>6, <2>9 DEF IInv, GoodStack
  <2>12. \A d \in 1 .. n : Waits(frames'[d], prog)
    BY <1>1, <2>9, <2>10 DEF IInv, GoodStack
  <2>13. GoodStack(frames', prog, heap)
    BY <1>1, <2>9, <2>11, <2>12 DEF GoodStack
  <2>14. frames' # <<>>
    BY <1>1, <2>9
  <2> QED
    BY <2>8, <2>13, <2>14 DEF IInv
<1>3. CASE Stop("threw") \/ Stop("undef")
  BY <1>3, StopStep
<1> QED
  BY <1>2, <1>3 DEF Interpret_call

\* The pop: the frame below is at a call, so its ip may be advanced and its
\* dest assigned.
LEMMA ReturnStep == ASSUME IInv, Return PROVE IInv'
<1> DEFINE n == Len(frames)
<1>0. /\ status = "running" /\ n \in Nat \ {0} /\ frames \in Seq(Frame)
      /\ prog' = prog /\ heap' = heap /\ ret_val' = ret_val /\ out' = out
  BY TopGood DEF Return, IInv, GoodStack
<1>1. CASE n = 1 /\ frames' = <<>> /\ status' = "done"
  <2>1. GoodStack(frames', prog, heap)
    BY <1>1 DEF GoodStack
  <2> QED
    BY <1>0, <1>1, <2>1 DEF IInv
<1>2. CASE /\ n > 1
           /\ frames' = Append(SubSeq(frames, 1, n - 2), Back(Caller))
           /\ UNCHANGED status
  <2> DEFINE c == Caller
             g == Back(c)
             i == CallOf(c)
  <2>0. n - 1 \in 1 .. n - 1 /\ n - 1 \in 1 .. n /\ n - 2 \in 0 .. n
    BY <1>0, <1>2
  <2>1. GoodFrame(c, prog, heap) /\ Waits(c, prog) /\ c \in Frame
    BY <2>0 DEF IInv, GoodStack, GoodFrame, Caller
  <2>2. prog[c.name] \in Function /\ Body(c, prog) \in Seq(Instr) /\ c.ip \in Nat
    BY <2>1 DEF IInv, IsProgram, GoodFrame, Function, Body, Frame
  <2>3. i \in Instr /\ i = Body(c, prog)[c.ip + 1]
    BY <2>1, <2>2 DEF CallOf, Body, Waits
  <2>4. i.dest \in Vars \union {NoVar}
    BY <2>3 DEF Instr
  <2>5. ret_val \in Value /\ FitsIn(ret_val, heap)
    BY DEF IInv, GoodValue
  <2>6. c.variables \in [Vars -> Value] /\ \A x \in Vars : FitsIn(c.variables[x], heap)
    BY <2>1 DEF Frame, GoodFrame
  <2> DEFINE w == IF i.dest = NoVar THEN c.variables
                  ELSE [c.variables EXCEPT ![i.dest] = ret_val]
  <2>7. w \in [Vars -> Value] /\ \A x \in Vars : FitsIn(w[x], heap)
    <3> HIDE DEF i, c
    <3>1. CASE i.dest = NoVar
      BY <2>6, <3>1
    <3>2. CASE i.dest # NoVar
      <4>1. w = [c.variables EXCEPT ![i.dest] = ret_val]
        BY <3>2
      <4>2. w \in [Vars -> Value]
        BY <2>5, <2>6, <4>1
      <4>3. \A x \in Vars : w[x] = IF x = i.dest THEN ret_val ELSE c.variables[x]
        BY <2>6, <4>1
      <4> HIDE DEF w
      <4> QED
        BY <2>5, <2>6, <4>2, <4>3
    <3> QED BY <3>1, <3>2
  <2>8. g = [c EXCEPT !.ip = c.ip + 1, !.variables = w]
    BY DEF Back
  <2>9. /\ g \in Frame /\ g.name = c.name /\ g.ip = c.ip + 1 /\ g.labels = c.labels
        /\ g.variables = w
    <3> HIDE DEF c, g, w
    <3>1. c.ip + 1 \in Nat
      BY <2>2
    <3> QED BY <2>1, <2>7, <2>8, <3>1 DEF Frame
  <2>10. GoodFrame(g, prog, heap)
    <3> HIDE DEF c, g, w
    <3>1. Body(g, prog) = Body(c, prog)
      BY <2>9 DEF Body
    <3>2. g.ip <= Len(Body(g, prog))
      BY <2>1, <2>2, <2>9, <3>1 DEF Waits
    <3>3. Cached(g, prog)
      BY <2>1, <2>9, <3>1 DEF GoodFrame, Cached
    <3> QED
      BY <2>1, <2>7, <2>9, <3>2, <3>3 DEF GoodFrame
  <2> HIDE DEF g
  <2>11. /\ frames' \in Seq(Frame) /\ Len(frames') = n - 1 /\ frames'[n - 1] = g
         /\ \A d \in 1 .. n - 2 : frames'[d] = frames[d]
    <3>1. frames' = Append(SubSeq(frames, 1, n - 2), g)
      BY <1>2 DEF g
    <3>2. /\ SubSeq(frames, 1, n - 2) \in Seq(Frame) /\ Len(SubSeq(frames, 1, n - 2)) = n - 2
          /\ \A d \in 1 .. n - 2 : SubSeq(frames, 1, n - 2)[d] = frames[d]
      <4> DEFINE m == n - 2
      <4>1. m \in Nat /\ \A d \in 1 .. m : frames[d] \in Frame
        BY <1>0, <1>2
      <4> HIDE DEF m
      <4>2. /\ SubSeq(frames, 1, m) \in Seq(Frame)
            /\ Len(SubSeq(frames, 1, m)) = IF 1 <= m THEN m - 1 + 1 ELSE 0
            /\ \A d \in 1 .. m - 1 + 1 : SubSeq(frames, 1, m)[d] = frames[1 + d - 1]
        BY <4>1, SubSeqProperties
      <4>3. /\ SubSeq(frames, 1, m) \in Seq(Frame) /\ Len(SubSeq(frames, 1, m)) = m
            /\ \A d \in 1 .. m : SubSeq(frames, 1, m)[d] = frames[d]
        BY <4>1, <4>2
      <4> QED
        BY <4>3 DEF m
    <3> QED
      BY <1>0, <1>2, <2>9, <3>1, <3>2
  <2>12. \A d \in 1 .. n - 1 : GoodFrame(frames'[d], prog, heap)
    BY <1>0, <1>2, <2>10, <2>11 DEF IInv, GoodStack
  <2>13. \A d \in 1 .. n - 2 : Waits(frames'[d], prog)
    BY <1>0, <1>2, <2>11 DEF IInv, GoodStack
  <2>14. GoodStack(frames', prog, heap)
    <3>1. Len(frames') = n - 1 /\ Len(frames') - 1 = n - 2
      BY <1>0, <2>11
    <3> HIDE DEF n
    <3> QED
      BY <2>11, <2>12, <2>13, <3>1 DEF GoodStack
  <2>15. frames' # <<>>
    <3>1. Len(frames') = n - 1 /\ n - 1 # 0
      BY <1>0, <1>2, <2>11
    <3> QED
      BY <3>1
  <2> QED
    BY <1>0, <1>2, <2>14, <2>15 DEF IInv
<1> QED
  BY <1>1, <1>2 DEF Return

(***************************************************************************)
(* Memory.                                                                 *)
(***************************************************************************)
\* A new block fits at the end of the heap.
LEMMA AllocStep == ASSUME IInv, Interpret_alloc PROVE IInv'
<1> DEFINE size == Arg(1).num
           n == Len(heap)
<1>0. Runs({"alloc"}) /\ status = "running"
  BY DEF Interpret_alloc, Runs
<1>1. Cur.dest # NoVar /\ Cur.base \in BaseTypes
  BY <1>0, CurTyped DEF Shaped, Instr
<1>2. ASSUME IsA(Arg(1), "int"), size \in 0 .. MaxSize, n < MaxBlocks,
             NEW junk \in Payload(Cur.base),
             heap' = Append(heap, [base |-> Cur.base, live |-> TRUE,
                                   cells |-> [k \in 1 .. size |-> junk]]),
             Set_dest(Pointer(Cur.base, n + 1, 0)),
             UNCHANGED <<prog, ret_val, out, status>>
      PROVE  IInv'
  <2> DEFINE b == [base |-> Cur.base, live |-> TRUE, cells |-> [k \in 1 .. size |-> junk]]
  <2>1. size \in Nat /\ junk \in Int
    BY <1>1, <1>2, BoundAssumption, Payloads, ProgramAssumption
  <2>2. b.cells \in Seq(Int) /\ Len(b.cells) = size /\ \A k \in 1 .. size : b.cells[k] = junk
    <3> HIDE DEF size
    <3> QED BY <2>1
  <2>3. b \in Block /\ b.base = Cur.base
    <3>1. b = [base |-> Cur.base, live |-> TRUE, cells |-> b.cells]
      OBVIOUS
    <3> QED
      BY <1>1, <2>2, <3>1 DEF Block
  <2>4. heap' = Append(heap, b) /\ heap \in Seq(Block) /\ n \in Nat
    BY <1>2 DEF IInv, GoodHeap
  <2> HIDE DEF b
  <2>5. /\ heap' \in Seq(Block) /\ Len(heap') = n + 1 /\ heap'[n + 1] = b
        /\ \A k \in 1 .. n : heap'[k] = heap[k]
    BY <2>3, <2>4
  <2>6. GoodHeap(heap')
    <3>1. \A k \in 1 .. Len(b.cells) : b.cells[k] \in Payload(b.base)
      BY <1>2, <2>2, <2>3
    <3>2. ASSUME NEW d \in 1 .. n + 1
          PROVE  \A k \in 1 .. Len(heap'[d].cells) : heap'[d].cells[k] \in Payload(heap'[d].base)
      <4>1. CASE d = n + 1
        BY <2>5, <3>1, <4>1
      <4>2. CASE d \in 1 .. n
        BY <2>5, <4>2 DEF IInv, GoodHeap
      <4> QED
        BY <2>4, <4>1, <4>2
    <3> QED
      BY <2>5, <3>2 DEF GoodHeap
  <2>7. Grows(heap, heap')
    BY <2>4, <2>5, <2>6 DEF Grows, IInv
  <2>8. GoodValue(Pointer(Cur.base, n + 1, 0), heap')
    <3>1. n + 1 \in 1 .. Len(heap') /\ Len(heap') \in Nat /\ heap'[n + 1].base = Cur.base
      BY <2>3, <2>4, <2>5
    <3> QED
      BY <1>1, <3>1, PointerGood
  <2>9. PICK f : GoodFrame(f, prog, heap') /\ frames' = [frames EXCEPT ![Len(frames)] = f]
    BY <1>0, <1>1, <1>2, <2>7, <2>8, Assigned
  <2>10. GoodValue(ret_val, heap')
    BY <2>7, GrowsKeeps DEF IInv, GoodValue
  <2> QED
    BY <1>0, <1>2, <2>7, <2>9, <2>10, TopStep DEF IInv
<1>3. CASE Stop("threw")
  BY <1>3, StopStep
<1> QED
  BY <1>2, <1>3 DEF Interpret_alloc

\* A heap one block of which has changed, but not its type.
LEMMA BlockStep ==
  ASSUME IInv, NEW ops, Runs(ops), NEW k \in 1 .. Len(heap), NEW b \in Block,
         b.base = heap[k].base,
         \A j \in 1 .. Len(b.cells) : b.cells[j] \in Payload(b.base),
         heap' = [heap EXCEPT ![k] = b], Next_ip,
         UNCHANGED <<prog, ret_val, out, status>>
  PROVE  IInv'
<1>0. heap \in Seq(Block) /\ Len(heap) \in Nat /\ status = "running"
  BY DEF IInv, GoodHeap, Runs
<1>1. heap' \in Seq(Block) /\ Len(heap') = Len(heap)
  BY <1>0
<1>2. \A d \in 1 .. Len(heap) : heap'[d] = IF d = k THEN b ELSE heap[d]
  BY <1>0
<1>3. GoodHeap(heap')
  BY <1>1, <1>2 DEF GoodHeap, IInv
<1>4. Grows(heap, heap')
  BY <1>0, <1>1, <1>2, <1>3 DEF Grows, IInv
<1>5. PICK f : GoodFrame(f, prog, heap') /\ frames' = [frames EXCEPT ![Len(frames)] = f]
  BY <1>4, Advanced
<1>6. GoodValue(ret_val, heap')
  BY <1>4, GrowsKeeps DEF IInv, GoodValue
<1> QED
  BY <1>0, <1>4, <1>5, <1>6, TopStep DEF IInv

\* delete marks a block and keeps its type.
LEMMA FreeStep == ASSUME IInv, Interpret_free PROVE IInv'
<1>0. Runs({"free"}) /\ 1 \in 1 .. Len(Cur.args)
  BY CurTyped DEF Interpret_free, Shaped, Instr
<1>1. GoodValue(Arg(1), heap)
  BY <1>0, ArgGood
<1>2. CASE /\ Owned(Arg(1)) /\ heap' = [heap EXCEPT ![Arg(1).blk].live = FALSE]
           /\ Next_ip /\ UNCHANGED <<prog, ret_val, out, status>>
  <2> DEFINE k == Arg(1).blk
             b == [heap[k] EXCEPT !.live = FALSE]
  <2>1. k \in 1 .. Len(heap)
    BY <1>1, <1>2 DEF Owned, GoodValue, FitsIn
  <2>2. heap[k] \in Block /\ heap \in Seq(Block)
    BY <2>1 DEF IInv, GoodHeap
  <2>3. b \in Block /\ b.base = heap[k].base /\ b.cells = heap[k].cells
    <3> HIDE DEF k
    <3> QED BY <2>2 DEF Block
  <2>4. heap' = [heap EXCEPT ![k] = b]
    BY <1>2, <2>1, <2>2
  <2> HIDE DEF b
  <2>5. \A j \in 1 .. Len(b.cells) : b.cells[j] \in Payload(b.base)
    BY <2>1, <2>3 DEF IInv, GoodHeap
  <2> HIDE DEF k
  <2> QED
    BY <1>0, <1>2, <2>1, <2>3, <2>4, <2>5, BlockStep
<1>3. CASE Stop("undef") \/ Stop("threw")
  BY <1>3, StopStep
<1> QED
  BY <1>2, <1>3 DEF Interpret_free

\* The cell takes a number of the block's own type.
LEMMA StoreStep == ASSUME IInv, Interpret_store PROVE IInv'
<1> DEFINE p == Arg(1)
           v == Arg(2)
<1>0. Runs({"store"}) /\ 1 \in 1 .. Len(Cur.args) /\ 2 \in 1 .. Len(Cur.args)
  BY CurTyped DEF Interpret_store, Shaped, Instr
<1>1. GoodValue(p, heap) /\ GoodValue(v, heap)
  BY <1>0, ArgGood
<1>2. CASE /\ Matches(p, v) /\ Points(p)
           /\ heap' = [heap EXCEPT ![p.blk].cells = [@ EXCEPT ![p.off + 1] = v.num]]
           /\ Next_ip /\ UNCHANGED <<prog, ret_val, out, status>>
  <2> DEFINE k == p.blk
             o == p.off + 1
             c == heap[k].cells
             d == [c EXCEPT ![o] = v.num]
             b == [heap[k] EXCEPT !.cells = d]
  <2>0. o \in 1 .. Len(c)
    <3>1. p.off \in 0 .. Len(c) - 1
      BY <1>2 DEF Points
    <3> HIDE DEF c, p
    <3> QED BY <3>1
  <2>1. k \in 1 .. Len(heap) /\ heap[k].base = p.base /\ v.base = p.base
    BY <1>1, <1>2 DEF Points, Matches, GoodValue, FitsIn
  <2>2. v.num \in Payload(p.base) /\ v.num \in Int
    BY <1>1, <1>2, <2>1, ProgramAssumption DEF Matches, GoodValue, FitsIn, Value
  <2>3. heap[k] \in Block /\ heap \in Seq(Block) /\ c \in Seq(Int)
    <3>1. heap[k] \in Block /\ heap \in Seq(Block)
      BY <2>1 DEF IInv, GoodHeap
    <3> HIDE DEF k
    <3> QED BY <3>1 DEF Block
  <2>4. /\ d \in Seq(Int) /\ Len(d) = Len(c)
        /\ \A j \in 1 .. Len(c) : d[j] = IF j = o THEN v.num ELSE c[j]
    <3> HIDE DEF c, o, v
    <3> QED BY <2>0, <2>2, <2>3, ExceptSeq
  <2>5. b \in Block /\ b.base = heap[k].base /\ b.cells = d
    <3> HIDE DEF k, d
    <3> QED BY <2>3, <2>4 DEF Block
  <2>6. heap' = [heap EXCEPT ![k] = b]
    BY <1>2, <2>1, <2>3
  <2>7. \A j \in 1 .. Len(b.cells) : b.cells[j] \in Payload(b.base)
    <3>1. \A j \in 1 .. Len(c) : c[j] \in Payload(p.base)
      BY <2>1 DEF IInv, GoodHeap
    <3> HIDE DEF b, c, d, v, p, k
    <3> QED
      BY <2>1, <2>2, <2>4, <2>5, <3>1
  <2> HIDE DEF b, k
  <2> QED
    BY <1>0, <1>2, <2>1, <2>5, <2>6, <2>7, BlockStep
<1>3. CASE Stop("undef") \/ Stop("threw")
  BY <1>3, StopStep
<1> QED
  BY <1>2, <1>3 DEF Interpret_store

(***************************************************************************)
(* The steps that only assign a variable or advance ip.                    *)
(***************************************************************************)
LEMMA AssignStep ==
  ASSUME IInv, NEW ops, Runs(ops), Cur.dest # NoVar, NEW v, GoodValue(v, heap),
         Set_dest(v), UNCHANGED <<prog, ret_val, heap, out, status>>
  PROVE  IInv'
<1>1. status = "running" /\ Grows(heap, heap)
  BY GrowsSelf DEF Runs, IInv
<1>2. PICK f : GoodFrame(f, prog, heap) /\ frames' = [frames EXCEPT ![Len(frames)] = f]
  BY <1>1, Assigned
<1>3. GoodValue(ret_val', heap) /\ out' \in Seq(Value)
  BY DEF IInv
<1> QED
  BY <1>1, <1>2, <1>3, FrameStep

\* An instruction without a dest: only ip moves.
LEMMA AdvanceStep ==
  ASSUME IInv, NEW ops, Runs(ops), Next_ip, out' \in Seq(Value),
         UNCHANGED <<prog, ret_val, heap, status>>
  PROVE  IInv'
<1>1. status = "running" /\ Grows(heap, heap)
  BY GrowsSelf DEF Runs, IInv
<1>2. PICK f : GoodFrame(f, prog, heap) /\ frames' = [frames EXCEPT ![Len(frames)] = f]
  BY <1>1, Advanced
<1>3. GoodValue(ret_val', heap)
  BY DEF IInv
<1> QED
  BY <1>1, <1>2, <1>3, FrameStep

\* const assigns a literal of its own type.
LEMMA ConstStep == ASSUME IInv, Interpret_const PROVE IInv'
<1>1. Runs({"const"}) /\ Cur \in Instr /\ Shaped(Cur) /\ Cur.op = "const"
  BY CurTyped DEF Interpret_const
<1>2. Cur.dest # NoVar /\ Cur.base \in BaseTypes /\ Cur.num \in Payload(Cur.base)
  BY <1>1 DEF Shaped, Instr
<1>3. GoodValue(Number(Cur.base, Cur.num), heap)
  BY <1>2, NumberGood
<1> QED
  BY <1>1, <1>2, <1>3, AssignStep DEF Interpret_const

\* The arithmetic, comparison and logical instructions.
LEMMA BinopStep == ASSUME IInv, Interpret_binop PROVE IInv'
<1> DEFINE sig == BinOps[Cur.op]
<1>1. /\ Runs(DOMAIN BinOps) /\ Cur.dest # NoVar /\ Cur.op \in DOMAIN BinOps
      /\ 1 \in 1 .. Len(Cur.args) /\ 2 \in 1 .. Len(Cur.args)
  BY CurTyped DEF Interpret_binop, Shaped, Instr
<1>2. Arg(1).num \in IntMin .. IntMax /\ Arg(2).num \in IntMin .. IntMax
  BY <1>1, ArgGood DEF GoodValue, Value
<1>3. ASSUME NEW n \in Apply(sig[2], Arg(1).num, Arg(2).num), Set_dest(Number(sig[3], n)),
             UNCHANGED <<prog, ret_val, heap, out, status>>
      PROVE  IInv'
  <2>1. sig[3] \in BaseTypes /\ n \in Payload(sig[3])
    BY <1>1, <1>2, <1>3, ApplyFits
  <2>2. GoodValue(Number(sig[3], n), heap)
    BY <2>1, NumberGood
  <2> QED
    BY <1>1, <1>3, <2>2, AssignStep
<1>4. CASE Stop("undef") \/ Stop("threw")
  BY <1>4, StopStep
<1> QED
  BY <1>3, <1>4 DEF Interpret_binop

\* not maps a bool to a bool.
LEMMA NotStep == ASSUME IInv, Interpret_not PROVE IInv'
<1>1. Runs({"not"}) /\ Cur.dest # NoVar /\ 1 \in 1 .. Len(Cur.args)
  BY CurTyped DEF Interpret_not, Shaped, Instr
<1>2. CASE /\ IsA(Arg(1), "bool") /\ Set_dest(Number("bool", 1 - Arg(1).num))
           /\ UNCHANGED <<prog, ret_val, heap, out, status>>
  <2>1. Arg(1).num \in {0, 1}
    BY <1>1, <1>2, ArgGood DEF GoodValue, FitsIn, IsA, Payload
  <2>2. "bool" \in BaseTypes /\ 1 - Arg(1).num \in Payload("bool")
    BY <2>1 DEF BaseTypes, Payload
  <2>3. GoodValue(Number("bool", 1 - Arg(1).num), heap)
    BY <2>2, NumberGood
  <2> QED
    BY <1>1, <1>2, <2>3, AssignStep
<1>3. CASE Stop("threw")
  BY <1>3, StopStep
<1> QED
  BY <1>2, <1>3 DEF Interpret_not

\* id copies a value of any type.
LEMMA IdStep == ASSUME IInv, Interpret_id PROVE IInv'
<1>1. Runs({"id"}) /\ Cur.dest # NoVar /\ 1 \in 1 .. Len(Cur.args)
  BY CurTyped DEF Interpret_id, Shaped, Instr
<1> QED
  BY <1>1, ArgGood, AssignStep DEF Interpret_id

\* print only reads.
LEMMA PrintStep == ASSUME IInv, Interpret_print PROVE IInv'
<1>1. Runs({"print"}) /\ Cur.args \in Seq(Vars)
  BY CurTyped DEF Interpret_print, Instr
<1>2. CASE /\ out' = [k \in DOMAIN Cur.args |-> Arg(k)]
           /\ Next_ip /\ UNCHANGED <<prog, ret_val, heap, status>>
  <2>1. DOMAIN Cur.args = 1 .. Len(Cur.args) /\ Len(Cur.args) \in Nat
    BY <1>1
  <2>2. \A k \in 1 .. Len(Cur.args) : Arg(k) \in Value
    BY <1>1, ArgGood DEF GoodValue
  <2>3. out' \in Seq(Value)
    BY <1>2, <2>1, <2>2
  <2> QED
    BY <1>1, <1>2, <2>3, AdvanceStep
<1>3. CASE Stop("undef")
  BY <1>3, StopStep
<1> QED
  BY <1>2, <1>3 DEF Interpret_print

\* br jumps to one of its two labels.
LEMMA BrStep == ASSUME IInv, Interpret_br PROVE IInv'
<1>0. /\ Runs({"br"}) /\ status = "running"
      /\ Cur.lbls \in Seq(Labels) /\ Len(Cur.lbls) >= 2
  BY CurTyped DEF Interpret_br, Shaped, Instr, Runs
<1>1. Runs({"br"}) /\ status = "running" /\ Cur.lbls[1] \in Labels /\ Cur.lbls[2] \in Labels
  BY <1>0
<1>2. ASSUME NEW l \in Labels, Jmp_to_label(l) PROVE IInv'
  BY <1>1, <1>2, JumpStep
<1>3. CASE Stop("threw")
  BY <1>3, StopStep
<1> DEFINE l == IF Arg(1).num = 1 THEN Cur.lbls[1] ELSE Cur.lbls[2]
<1>4. l \in Labels
  BY <1>1
<1>5. Jmp_to_label(l) \/ Stop("threw")
  BY DEF Interpret_br
<1> HIDE DEF l
<1> QED
  BY <1>2, <1>3, <1>4, <1>5

\* Executing a label caches where it stands.
LEMMA LabelStep == ASSUME IInv, Interpret_label PROVE IInv'
<1> DEFINE l == Cur.lbls[1]
           k == Top.ip
           i == k + 1
           f == [Top EXCEPT !.labels[l] = k, !.ip = i]
<1>0. /\ Runs({"label"}) /\ status = "running" /\ Cur.op = "label"
      /\ Cur.lbls \in Seq(Labels) /\ Len(Cur.lbls) >= 1
      /\ k \in Nat /\ k < Len(Instrs) /\ Len(Instrs) \in Nat
  BY CurTyped DEF Interpret_label, Shaped, Instr, Runs
<1>1. /\ Runs({"label"}) /\ status = "running" /\ l \in Labels /\ Cur.op = "label"
      /\ k \in Nat /\ k < Len(Instrs) /\ Len(Instrs) \in Nat
  BY <1>0
<1>2. k \in LabelAt(Instrs, l) /\ i \in 0 .. Len(Instrs)
  BY <1>1 DEF LabelAt, Cur
<1>3. frames' = [frames EXCEPT ![Len(frames)] = f]
  BY <1>1, TopGood DEF Interpret_label, Top, IInv, GoodStack
<1>4. GoodFrame(f, prog, heap)
  <2> HIDE DEF i, k, l
  <2> QED BY <1>1, <1>2, Relabelled
<1>5. /\ UNCHANGED <<prog, heap, status>> /\ GoodValue(ret_val', heap)
      /\ out' \in Seq(Value)
  BY DEF Interpret_label, IInv
<1> HIDE DEF f
<1> QED
  BY <1>1, <1>3, <1>4, <1>5, FrameStep

\* ret moves ip behind the end and may set ret_val.
LEMMA RetStep == ASSUME IInv, Interpret_ret PROVE IInv'
<1> DEFINE n == Len(Instrs)
           f == [Top EXCEPT !.ip = n]
<1>1. /\ Runs({"ret"}) /\ status = "running" /\ Cur.args \in Seq(Vars)
      /\ Len(Instrs) \in Nat
  BY CurTyped DEF Interpret_ret, Instr, Runs
<1>2. frames' = [frames EXCEPT ![Len(frames)] = f]
  BY <1>1, TopGood DEF Interpret_ret, Top, IInv, GoodStack
<1>3. GoodFrame(f, prog, heap)
  <2>1. n \in 0 .. Len(Instrs)
    BY <1>1
  <2> HIDE DEF n
  <2> QED BY <1>1, <2>1, Moved
<1>4. GoodValue(ret_val', heap)
  <2>1. CASE Cur.args = <<>>
    BY <2>1 DEF Interpret_ret, IInv
  <2>2. CASE Cur.args # <<>>
    <3>1. 1 \in 1 .. Len(Cur.args) /\ ret_val' = Arg(1)
      BY <1>1, <2>2 DEF Interpret_ret
    <3> QED
      BY <1>1, <3>1, ArgGood
  <2> QED BY <2>1, <2>2
<1>5. UNCHANGED <<prog, heap, status>> /\ out' \in Seq(Value)
  BY DEF Interpret_ret, IInv
<1> HIDE DEF f
<1> QED
  BY <1>1, <1>2, <1>3, <1>4, <1>5, FrameStep

\* A load takes a number of the block's type, the pointer's.
LEMMA LoadStep == ASSUME IInv, Interpret_load PROVE IInv'
<1> DEFINE p == Arg(1)
           n == heap[p.blk].cells[p.off + 1]
<1>1. Runs({"load"}) /\ Cur.dest # NoVar /\ 1 \in 1 .. Len(Cur.args)
  BY CurTyped DEF Interpret_load, Shaped, Instr
<1>2. CASE /\ p.ptr /\ Points(p) /\ Set_dest(Number(p.base, n))
           /\ UNCHANGED <<prog, ret_val, heap, out, status>>
  <2>1. GoodValue(p, heap)
    BY <1>1, ArgGood
  <2>2. p.blk \in 1 .. Len(heap) /\ heap[p.blk].base = p.base /\ p.base \in BaseTypes
    BY <1>2, <2>1 DEF GoodValue, FitsIn, Value
  <2>3. p.off + 1 \in 1 .. Len(heap[p.blk].cells)
    <3>1. p.off \in 0 .. Len(heap[p.blk].cells) - 1
      BY <1>2 DEF Points
    <3> HIDE DEF p
    <3> QED BY <3>1
  <2>4. n \in Payload(p.base)
    <3>1. n \in Payload(heap[p.blk].base)
      BY <2>2, <2>3 DEF IInv, GoodHeap
    <3> HIDE DEF p, n
    <3> QED BY <2>2, <3>1
  <2>5. GoodValue(Number(p.base, n), heap)
    <3> HIDE DEF p, n
    <3> QED BY <2>2, <2>4, NumberGood
  <2> QED
    BY <1>1, <1>2, <2>5, AssignStep
<1>3. CASE Stop("undef") \/ Stop("threw")
  BY <1>3, StopStep
<1> QED
  BY <1>2, <1>3 DEF Interpret_load

\* ptradd moves the offset and never the block or the type.
LEMMA PtraddStep == ASSUME IInv, Interpret_ptradd PROVE IInv'
<1> DEFINE p == Arg(1)
           o == p.off + Arg(2).num
<1>1. /\ Runs({"ptradd"}) /\ Cur.dest # NoVar
      /\ 1 \in 1 .. Len(Cur.args) /\ 2 \in 1 .. Len(Cur.args)
  BY CurTyped DEF Interpret_ptradd, Shaped, Instr
<1>2. CASE /\ p.ptr /\ Set_dest(Pointer(p.base, p.blk, o))
           /\ UNCHANGED <<prog, ret_val, heap, out, status>>
  <2>1. GoodValue(p, heap) /\ GoodValue(Arg(2), heap)
    BY <1>1, ArgGood
  <2>2. o \in Int
    BY <2>1, ProgramAssumption DEF GoodValue, Value
  <2>3. p.blk \in 1 .. Len(heap) /\ heap[p.blk].base = p.base /\ p.base \in BaseTypes
    BY <1>2, <2>1 DEF GoodValue, FitsIn, Value
  <2>4. Len(heap) \in Nat
    BY DEF IInv, GoodHeap
  <2>5. GoodValue(Pointer(p.base, p.blk, o), heap)
    <3> HIDE DEF p, o
    <3> QED BY <2>2, <2>3, <2>4, PointerGood
  <2> QED
    BY <1>1, <1>2, <2>5, AssignStep
<1>3. CASE Stop("undef") \/ Stop("threw")
  BY <1>3, StopStep
<1> QED
  BY <1>2, <1>3 DEF Interpret_ptradd

\* main's frame holds the arguments of the command line, parsed.
LEMMA StartStep == ASSUME IInv, Start PROVE IInv'
<1>1. "main" \in DOMAIN prog
  BY DEF Start
<1>2. PICK n \in [1 .. Len(Params("main")) -> Inputs] :
        LET v_args == [k \in DOMAIN n |-> Number(Params("main")[k].base, n[k])] IN
        /\ \A k \in DOMAIN n : n[k] \in Payload(Params("main")[k].base)
        /\ frames' = <<Setup_frame("main", v_args)>>
  BY DEF Start
<1> DEFINE v_args == [k \in DOMAIN n |-> Number(Params("main")[k].base, n[k])]
           g == Setup_frame("main", v_args)
<1>3. Params("main") \in Seq([name : Vars, base : BaseTypes, ptr : BOOLEAN])
  BY <1>1 DEF IInv, IsProgram, Function, Params
<1>4. DOMAIN n = 1 .. Len(Params("main"))
  BY <1>2
<1>5. ASSUME NEW k \in 1 .. Len(Params("main")) PROVE GoodValue(v_args[k], heap)
  <2>1. Params("main")[k].base \in BaseTypes
    <3> DEFINE F == [name : Vars, base : BaseTypes, ptr : BOOLEAN]
               s == Params("main")
    <3>1. s[k] \in F
      <4>1. s \in Seq(F) /\ k \in 1 .. Len(s)
        BY <1>3
      <4> HIDE DEF F, s
      <4> QED BY <4>1, ElementOfSeq
    <3> QED BY <3>1
  <2>2. v_args[k] = Number(Params("main")[k].base, n[k])
    BY <1>4
  <2>3. n[k] \in Payload(Params("main")[k].base)
    BY <1>2, <1>4
  <2> QED
    BY <2>1, <2>2, <2>3, NumberGood
<1>6. frames' = <<g>>
  BY <1>2
<1> HIDE DEF v_args
<1>7. GoodFrame(g, prog, heap)
  BY <1>1, <1>5, NewFrame DEF IInv
<1>8. prog' = prog /\ heap' = heap /\ ret_val' = ret_val /\ out' = out /\ status' = "running"
  BY DEF Start
<1> HIDE DEF g
<1>9. GoodStack(frames', prog, heap) /\ frames' # <<>>
  <2>1. g \in Frame
    BY <1>7 DEF GoodFrame
  <2> QED
    BY <1>6, <1>7, <2>1 DEF GoodStack
<1> QED
  BY <1>8, <1>9 DEF IInv

(***************************************************************************)
(* The theorems.                                                           *)
(***************************************************************************)
LEMMA InitGood == Init => IInv
<1> SUFFICES ASSUME Init PROVE IInv
  OBVIOUS
<1>1. GoodStack(frames, prog, heap) /\ GoodHeap(heap)
  BY DEF Init, GoodStack, GoodHeap
<1>2. GoodValue(ret_val, heap)
  BY DefaultGood DEF Init
<1> QED
  BY <1>1, <1>2, ProgramAssumption DEF Init, IInv

\* Every turn of the loop keeps the invariant: one step per action of Next.
LEMMA NextGood == IInv /\ [Next]_vars => IInv'
<1> SUFFICES ASSUME IInv, [Next]_vars PROVE IInv'
  OBVIOUS
<1>1. CASE UNCHANGED vars
  BY <1>1 DEF vars, IInv
<1>2. CASE StartThrows \/ Interpret_unsupported
  BY <1>2, StopStep DEF StartThrows, Interpret_unsupported
<1>3. CASE Interpret_nop
  <2>1. out' \in Seq(Value)
    BY <1>3 DEF Interpret_nop, IInv
  <2> QED
    BY <1>3, <2>1, AdvanceStep DEF Interpret_nop
<1>4. CASE Interpret_jmp
  <2>1. Cur.lbls \in Seq(Labels) /\ Len(Cur.lbls) >= 1 /\ status = "running"
    BY <1>4, CurTyped DEF Interpret_jmp, Shaped, Instr, Runs
  <2>2. Cur.lbls[1] \in Labels
    BY <2>1
  <2> QED
    BY <1>4, <2>1, <2>2, JumpStep DEF Interpret_jmp
<1> QED
  BY <1>1, <1>2, <1>3, <1>4, StartStep, ReturnStep, ConstStep, BinopStep, NotStep, IdStep,
     PrintStep, BrStep, LabelStep, CallStep, RetStep, AllocStep, FreeStep, StoreStep,
     LoadStep, PtraddStep DEF Next

\* The invariant holds throughout.
LEMMA Inductive == Spec => []IInv
  BY InitGood, NextGood, PTL DEF Spec

\* Whatever program the interpreter runs, its context keeps the types that
\* interpreter.cpp declares.
THEOREM InterpreterTypes == Spec => []TypeOK
  BY Inductive, Implied, PTL

\* Whatever the program and however deep it recurses, interpret_function
\* returns to a frame that stands at a call, and no frame's ip passes the end.
THEOREM StackIsSound == Spec => []StackSound
  BY Inductive, Implied, PTL

\* A cached label always stands where the cache says, in the function of the
\* frame that caches it: find_label never jumps astray.
THEOREM CachesAreSound == Spec => []CacheSound
  BY Inductive, Implied, PTL

\* Whatever the program stores, loads, adds to or passes on, a value fits its
\* type and a pointer points into a block that alloc made for its type.
THEOREM ValuesAreSound == Spec => []ValuesSound
  BY Inductive, Implied, PTL

(***************************************************************************)
(* The refinement: BrilSpec's stack, and how the steps change it.          *)
(***************************************************************************)
Shown(f, r) == [fn |-> f.name, pc |-> f.ip, env |-> f.variables, result |-> r]
Past(f, p) == f.ip >= Len(Body(f, p))
Asks(f, p) == Body(f, p)[f.ip + 1].dest # NoVar
Result(s, p, r, d) == IF d > 1 /\ Asks(s[d - 1], p) /\ Past(s[d], p) THEN r ELSE NoResult
Stack(s, p, r) == [d \in 1 .. Len(s) |-> Shown(s[d], Result(s, p, r, d))]

\* The stack BrilSpec is shown, before and after a step.
LEMMA StackIs ==
  Activations = Stack(frames, prog, ret_val) /\ Activations' = Stack(frames', prog', ret_val')
BY DEF Activations, Stack, Shown, Result, Wants, Ended, CallOf, Asks, Past, Body

\* BrilSpec computes with the same values.
LEMMA SameNames ==
  /\ \A b, n : Bril!Number(b, n) = Number(b, n)
  /\ \A b, k, o : Bril!Pointer(b, k, o) = Pointer(b, k, o)
  /\ \A v, b : Bril!IsA(v, b) = IsA(v, b)
  /\ \A b : Bril!Payload(b) = Payload(b)
  /\ \A s, l : Bril!LabelAt(s, l) = LabelAt(s, l)
  /\ Bril!NoResult = NoResult /\ Bril!Default = Default /\ Bril!BinOps = BinOps
<1>1. \A b, n : Bril!Number(b, n) = Number(b, n)
  BY DEF Bril!Number, Number
<1>2. \A b, k, o : Bril!Pointer(b, k, o) = Pointer(b, k, o)
  BY DEF Bril!Pointer, Pointer
<1>3. \A v, b : Bril!IsA(v, b) = IsA(v, b)
  BY DEF Bril!IsA, IsA
<1>4. \A b : Bril!Payload(b) = Payload(b)
  BY DEF Bril!Payload, Payload
<1>5. \A s, l : Bril!LabelAt(s, l) = LabelAt(s, l)
  BY DEF Bril!LabelAt, LabelAt
<1>6. Bril!NoResult = NoResult
  BY DEF Bril!NoResult, NoResult
<1>7. Bril!Default = Default
  BY <1>1 DEF Bril!Default, Default
<1>8. Bril!BinOps = BinOps
  BY DEF Bril!BinOps, BinOps
<1> QED
  BY <1>1, <1>2, <1>3, <1>4, <1>5, <1>6, <1>7, <1>8

\* And the same results of the arithmetic instructions.
LEMMA SameApply ==
  ASSUME NEW f, NEW a, NEW b
  PROVE  Bril!Apply(f, a, b) = Apply(f, a, b)
BY DEF Bril!Apply, Apply, Bril!Payload, Payload, Bril!Traps, Traps, Bril!Quotient, Quotient,
       Bril!Abs, Abs, Bril!Wrap, Wrap, Bril!Exact, Exact, Bril!Bit, Bit, Bril!Holds, Holds

\* The frames below the top wait at calls.
Waiting(s, p) == s \in Seq(Frame) /\ \A d \in 1 .. Len(s) - 1 : Waits(s[d], p)
Shape(S, s, p, r) ==
  /\ S = [d \in 1 .. Len(s) |-> S[d]]
  /\ Len(S) = Len(s) /\ Len(s) \in Nat
  /\ \A d \in 1 .. Len(s) - 1 : S[d] = Shown(s[d], NoResult)
  /\ Len(s) # 0 => S[Len(s)] = Shown(s[Len(s)], Result(s, p, r, Len(s)))

\* Of a stack whose lower frames wait at calls only the top may have a result.
LEMMA StackShape ==
  ASSUME NEW s, NEW p, NEW r, Waiting(s, p)
  PROVE  Shape(Stack(s, p, r), s, p, r)
<1> DEFINE n == Len(s)
           S == Stack(s, p, r)
<1>1. n \in Nat /\ s \in Seq(Frame)
  BY DEF Waiting
<1>2. S = [d \in 1 .. n |-> Shown(s[d], Result(s, p, r, d))]
  BY DEF Stack
<1>3. \A d \in 1 .. n - 1 : Result(s, p, r, d) = NoResult
  <2> SUFFICES ASSUME NEW d \in 1 .. n - 1
               PROVE  Result(s, p, r, d) = NoResult
    OBVIOUS
  <2>1. s[d] \in Frame
    BY <1>1
  <2>2. s[d].ip \in Nat /\ Waits(s[d], p)
    BY <2>1 DEF Frame, Waiting
  <2>3. ~ Past(s[d], p)
    <3> DEFINE m == Len(Body(s[d], p))
    <3>1. s[d].ip < m
      BY <2>2 DEF Waits
    <3> QED
      BY <2>2, <3>1 DEF Past
  <2> QED
    BY <2>3 DEF Result
<1> HIDE DEF n, S
<1>4. Len(S) = n /\ DOMAIN S = 1 .. n
  BY <1>1, <1>2
<1>5. \A d \in 1 .. n : S[d] = Shown(s[d], Result(s, p, r, d))
  BY <1>2
<1>6. S = [d \in 1 .. n |-> S[d]]
  BY <1>2
<1>7. \A d \in 1 .. n - 1 : S[d] = Shown(s[d], NoResult)
  BY <1>1, <1>3, <1>5
<1>8. n # 0 => S[n] = Shown(s[n], Result(s, p, r, n))
  BY <1>1, <1>5
<1> QED
  BY <1>1, <1>4, <1>6, <1>7, <1>8 DEF n, S, Shape

\* A frame has come to its end by a result that its caller wants.
Expected == frames # <<>> /\ Wants(Len(frames)) /\ Ended(Len(frames))

\* The same, said of the two top frames.
LEMMA ExpectedIs ==
  ASSUME frames # <<>>
  PROVE  Expected <=> /\ Len(frames) > 1
                      /\ Asks(frames[Len(frames) - 1], prog)
                      /\ Past(frames[Len(frames)], prog)
BY DEF Expected, Wants, Ended, CallOf, Asks, Past, Body

\* Otherwise the top activation has no result.
LEMMA NotExpected ==
  ASSUME frames' # <<>>, ~ Expected'
  PROVE  Result(frames', prog', ret_val', Len(frames')) = NoResult
BY DEF Expected, Wants, Ended, CallOf, Asks, Past, Body, Result

\* What BrilSpec sees of a running interpreter before an instruction.
LEMMA Sees ==
  ASSUME IInv, NEW ops, Runs(ops)
  PROVE  /\ Len(Activations) = Len(frames) /\ Len(frames) \in Nat \ {0}
         /\ Activations[Len(frames)] = Shown(Top, NoResult)
         /\ Bril!Here = Shown(Top, NoResult) /\ Bril!Here.pc = Top.ip
         /\ Bril!Body = Instrs /\ Bril!Now = Cur
         /\ \A k : Bril!Operand(k) = Arg(k)
         /\ Bril!At(ops) /\ State = "running" /\ State = status
<1> DEFINE n == Len(frames)
<1>1. /\ status = "running" /\ n \in Nat \ {0} /\ Top \in Frame /\ Top.ip \in Nat
      /\ Instrs = Body(Top, prog) /\ Cur.op \in ops /\ Top.ip < Len(Instrs)
  BY TopGood, CurTyped DEF Runs
<1>2. frames \in Seq(Frame) /\ \A d \in 1 .. n - 1 : Waits(frames[d], prog)
  BY DEF IInv, GoodStack
<1>3. /\ Len(Activations) = n
      /\ Activations[n] = Shown(Top, Result(frames, prog, ret_val, n))
  BY <1>1, <1>2, StackIs, StackShape DEF Top, Shape, Waiting
<1>4. ~ Past(Top, prog)
  <2> DEFINE m == Len(Body(Top, prog))
  <2>1. Top.ip < m
    BY <1>1
  <2> QED
    BY <1>1, <2>1 DEF Past
<1>5. Result(frames, prog, ret_val, n) = NoResult
  BY <1>4 DEF Result, Top
<1>6. Bril!Here = Shown(Top, NoResult)
  BY <1>3, <1>5 DEF Bril!Here
<1>7. Bril!Here.fn = Top.name /\ Bril!Here.pc = Top.ip /\ Bril!Here.env = Top.variables
  BY <1>6 DEF Shown
<1>8. Bril!Body = Instrs
  BY <1>7 DEF Bril!Body, Instrs
<1>9. Bril!Now = Cur
  BY <1>7, <1>8 DEF Bril!Now, Cur
<1>10. \A k : Bril!Operand(k) = Arg(k)
  BY <1>7, <1>9 DEF Bril!Operand, Arg
<1>11. State = "running"
  BY <1>1 DEF State
<1>12. Bril!At(ops)
  BY <1>1, <1>7, <1>8, <1>9, <1>11 DEF Bril!At
<1> QED
  BY <1>1, <1>3, <1>5, <1>6, <1>7, <1>8, <1>9, <1>10, <1>11, <1>12

\* A new top frame is a new top activation.
Renewed(A, B, n, x) == B = [A EXCEPT ![n] = x]
LEMMA StackTop ==
  ASSUME NEW s, NEW p, NEW r, NEW q, Waiting(s, p), Len(s) # 0, NEW f \in Frame,
         NEW t, Renewed(s, t, Len(s), f)
  PROVE  /\ Waiting(t, p) /\ Len(t) = Len(s)
         /\ Renewed(Stack(s, p, r), Stack(t, p, q), Len(s),
                    Shown(f, Result(t, p, q, Len(s))))
<1> DEFINE n == Len(s)
           A == Stack(s, p, r)
           B == Stack(t, p, q)
           x == Shown(f, Result(t, p, q, n))
<1>1. n \in Nat \ {0} /\ s \in Seq(Frame) /\ \A d \in 1 .. n - 1 : Waits(s[d], p)
  BY DEF Waiting
<1>2. /\ t \in Seq(Frame) /\ Len(t) = n /\ t[n] = f
      /\ \A d \in 1 .. n - 1 : t[d] = s[d]
  BY <1>1 DEF Renewed
<1>3. Waiting(t, p)
  BY <1>1, <1>2 DEF Waiting
<1>4. Shape(A, s, p, r)
  BY StackShape
<1>5. Shape(B, t, p, q)
  BY <1>3, StackShape
<1> HIDE DEF A, B
<1>6. /\ B = [d \in 1 .. n |-> B[d]] /\ A = [d \in 1 .. n |-> A[d]]
      /\ \A d \in 1 .. n - 1 : A[d] = Shown(s[d], NoResult) /\ B[d] = Shown(t[d], NoResult)
      /\ B[n] = x
  BY <1>1, <1>2, <1>4, <1>5 DEF Shape
<1> HIDE DEF x, n
<1>8. \A d \in 1 .. n - 1 : B[d] = A[d]
  BY <1>2, <1>6
<1>9. \A d \in 1 .. n : B[d] = IF d = n THEN x ELSE A[d]
  <2> TAKE d \in 1 .. n
  <2>1. d = n \/ d \in 1 .. n - 1
    BY <1>1
  <2> QED
    BY <1>6, <1>8, <2>1
<1>10. [A EXCEPT ![n] = x] = [d \in 1 .. n |-> IF d = n THEN x ELSE A[d]]
  BY <1>6
<1>11. B = [A EXCEPT ![n] = x]
  BY <1>6, <1>9, <1>10
<1> QED
  BY <1>2, <1>3, <1>11 DEF A, B, x, n, Renewed

\* A step that replaces the top frame replaces the top activation.
LEMMA TopMoves ==
  ASSUME IInv, status = "running", NEW f \in Frame,
         frames' = [frames EXCEPT ![Len(frames)] = f], prog' = prog
  PROVE  /\ Len(frames') = Len(frames) /\ Len(frames) \in Nat \ {0}
         /\ Activations' = [Activations EXCEPT ![Len(frames)] =
              Shown(f, Result(frames', prog, ret_val', Len(frames)))]
<1>1. Waiting(frames, prog) /\ Len(frames) \in Nat \ {0}
  BY TopGood DEF IInv, GoodStack, Waiting
<1>2. Activations = Stack(frames, prog, ret_val) /\ Activations' = Stack(frames', prog, ret_val')
  BY StackIs
<1>3. Renewed(frames, frames', Len(frames), f)
  BY DEF Renewed
<1>4. Len(frames') = Len(frames)
      /\ Renewed(Activations, Activations', Len(frames),
                 Shown(f, Result(frames', prog, ret_val', Len(frames))))
  BY <1>1, <1>2, <1>3, StackTop
<1> QED
  BY <1>1, <1>4 DEF Renewed

\* Only a ret that returns a value ends a function whose result is wanted.
LEMMA Quiet ==
  ASSUME Meaningful, ~ Interpret_ret
  PROVE  ~ Expected'
BY DEF Meaningful, Expected

\* Another instruction than ret is no ret.
LEMMA NotRet ==
  ASSUME NEW ops, Runs(ops), "ret" \notin ops
  PROVE  ~ Interpret_ret
BY DEF Runs, Interpret_ret

\* A step with a meaning does not end the process.
LEMMA NotStopped ==
  ASSUME Meaningful, status = "running", Stop("threw") \/ Stop("label") \/ Stop("undef")
  PROVE  FALSE
BY DEF Meaningful, Stop

\* The instructions that change the ip of the top frame, and those that assign.
LEMMA Moves ==
  ASSUME IInv, Meaningful, NEW ops, Runs(ops), "ret" \notin ops, NEW f \in Frame,
         f.name = Top.name, f.variables = Top.variables,
         frames' = [frames EXCEPT ![Len(frames)] = f], prog' = prog
  PROVE  Bril!Go(f.ip)
<1> DEFINE n == Len(frames)
           A == Activations
           B == Activations'
<1>1. status = "running" /\ ~ Expected'
  BY NotRet, Quiet DEF Runs
<1>2. /\ Len(frames') = n /\ n \in Nat \ {0}
      /\ B = [A EXCEPT ![n] = Shown(f, Result(frames', prog, ret_val', n))]
  BY <1>1, TopMoves
<1>3. Result(frames', prog, ret_val', n) = NoResult
  <2>1. frames' # <<>>
    BY <1>2
  <2> QED
    BY <1>1, <1>2, <2>1, NotExpected
<1>4. Len(A) = n /\ A[n] = Shown(Top, NoResult)
  BY Sees
<1>5. Shown(f, NoResult) = [Shown(Top, NoResult) EXCEPT !.pc = f.ip]
  BY DEF Shown
<1> HIDE DEF A, B, n
<1>6. B = [A EXCEPT ![Len(A)].pc = f.ip]
  BY <1>2, <1>3, <1>4, <1>5
<1> QED
  BY <1>6 DEF Bril!Go, A, B

\* A frame with another ip and other variables, and what is shown of it.
Reset(c, f, i, e) == f = [c EXCEPT !.ip = i, !.variables = e]
LEMMA FrameSet ==
  ASSUME NEW c \in Frame, NEW i \in Nat, NEW e \in [Vars -> Value], NEW f,
         Reset(c, f, i, e)
  PROVE  /\ f \in Frame /\ f.ip = i /\ f.variables = e /\ f.name = c.name
         /\ Shown(f, NoResult) = [fn |-> c.name, pc |-> i, env |-> e, result |-> NoResult]
<1>1. f \in Frame /\ f.ip = i /\ f.variables = e /\ f.name = c.name
  BY DEF Frame, Reset
<1> QED
  BY <1>1 DEF Shown

\* An activation with another pc and another environment.
Reads(R, m, k, v) == R = [fn |-> m, pc |-> k, env |-> v, result |-> NoResult]
Rewrites(R, Q, i, w) == Q = [R EXCEPT !.pc = i, !.env = w]
LEMMA ShownSet ==
  ASSUME NEW R, NEW Q, NEW m, NEW k, NEW v, NEW i, NEW w,
         Reads(R, m, k, v), Rewrites(R, Q, i, w)
  PROVE  Reads(Q, m, i, w)
<1> DEFINE P == [fn |-> m, pc |-> i, env |-> v, result |-> NoResult]
<1>1. [R EXCEPT !.pc = i] = P
  BY DEF Reads
<1>2. [P EXCEPT !.env = w] = [fn |-> m, pc |-> i, env |-> w, result |-> NoResult]
  OBVIOUS
<1>3. [R EXCEPT !.pc = i, !.env = w] = [[R EXCEPT !.pc = i] EXCEPT !.env = w]
  OBVIOUS
<1> QED
  BY <1>1, <1>2, <1>3 DEF Reads, Rewrites

\* set_dest is BrilSpec's assignment.
LEMMA Assigns ==
  ASSUME IInv, Meaningful, NEW ops, Runs(ops), "ret" \notin ops, NEW v \in Value,
         Cur.dest # NoVar, Set_dest(v), prog' = prog
  PROVE  Bril!GoOnWith(v)
<1> DEFINE n == Len(frames)
           A == Activations
           B == Activations'
           p == Top.ip + 1
           e == [Top.variables EXCEPT ![Cur.dest] = v]
           f == [Top EXCEPT !.ip = p, !.variables = e]
<1>1. status = "running" /\ ~ Expected'
  BY NotRet, Quiet DEF Runs
<1>2. /\ Top \in Frame /\ n \in Nat \ {0} /\ Cur.dest \in Vars /\ p \in Nat
      /\ Top.variables \in [Vars -> Value]
  BY <1>1, TopGood, CurTyped DEF Frame, Instr
<1>3. e \in [Vars -> Value]
  BY <1>2
<1>4. frames' = [frames EXCEPT ![n] = f]
  BY DEF Set_dest, Top
<1>5. /\ f \in Frame /\ f.ip = p /\ f.variables = e /\ f.name = Top.name
      /\ Shown(f, NoResult) = [fn |-> Top.name, pc |-> p, env |-> e, result |-> NoResult]
  <2>1. Reset(Top, f, p, e)
    BY DEF Reset
  <2> HIDE DEF e, p, f
  <2> QED
    BY <1>2, <1>3, <2>1, FrameSet
<1>6. [Shown(Top, NoResult) EXCEPT !.pc = @ + 1, !.env[Cur.dest] = v] =
        [fn |-> Top.name, pc |-> p, env |-> e, result |-> NoResult]
  <2>1. Shown(Top, NoResult).pc + 1 = p /\ [Shown(Top, NoResult).env EXCEPT ![Cur.dest] = v] = e
    BY DEF Shown
  <2>2. [Shown(Top, NoResult) EXCEPT !.pc = @ + 1, !.env[Cur.dest] = v] =
          [Shown(Top, NoResult) EXCEPT !.pc = p, !.env = e]
    BY <2>1 DEF Shown
  <2> HIDE DEF p, e
  <2>3. [Shown(Top, NoResult) EXCEPT !.pc = p, !.env = e] =
          [fn |-> Top.name, pc |-> p, env |-> e, result |-> NoResult]
    <3> DEFINE R == Shown(Top, NoResult)
               Q == [R EXCEPT !.pc = p, !.env = e]
    <3>1. Reads(R, Top.name, Top.ip, Top.variables)
      BY DEF Shown, Reads
    <3>2. Rewrites(R, Q, p, e)
      BY DEF Rewrites
    <3> HIDE DEF R, Q
    <3>3. Reads(Q, Top.name, p, e)
      BY <3>1, <3>2, ShownSet
    <3> QED
      BY <3>3 DEF Q, R, Reads
  <2> QED
    BY ONLY <2>2, <2>3
<1> HIDE DEF f, e, p
<1>7. /\ Len(frames') = n
      /\ B = [A EXCEPT ![n] = Shown(f, Result(frames', prog, ret_val', n))]
  BY <1>1, <1>4, <1>5, TopMoves
<1>8. Result(frames', prog, ret_val', n) = NoResult
  <2>1. frames' # <<>>
    BY <1>2, <1>7
  <2> QED
    BY <1>1, <1>7, <2>1, NotExpected
<1>9. Len(A) = n /\ A[n] = Shown(Top, NoResult) /\ Bril!Now = Cur
  BY Sees
<1> HIDE DEF A, B, n
<1>10. B = [A EXCEPT ![Len(A)] = [A[Len(A)] EXCEPT !.pc = @ + 1, !.env[Cur.dest] = v]]
  BY <1>5, <1>6, <1>7, <1>8, <1>9
<1>11. B = [A EXCEPT ![Len(A)].pc = @ + 1, ![Len(A)].env[Cur.dest] = v]
  BY <1>10
<1> QED
  BY <1>9, <1>11 DEF Bril!GoOnWith, A, B

\* _inc_ip alone is BrilSpec's GoOn.
LEMMA Advances ==
  ASSUME IInv, Meaningful, NEW ops, Runs(ops), "ret" \notin ops, Next_ip, prog' = prog
  PROVE  Bril!GoOn
<1> DEFINE f == [Top EXCEPT !.ip = Top.ip + 1]
<1>1. Top \in Frame /\ Top.ip \in Nat
  BY TopGood, CurTyped DEF Runs
<1>2. frames' = [frames EXCEPT ![Len(frames)] = f]
  BY DEF Next_ip, Top
<1>3. f \in Frame /\ f.ip = Top.ip + 1 /\ f.name = Top.name /\ f.variables = Top.variables
  BY <1>1 DEF Frame
<1> HIDE DEF f
<1>4. Bril!Go(f.ip)
  BY <1>2, <1>3, Moves
<1>5. Bril!Here.pc = Top.ip
  BY Sees
<1> QED
  BY <1>3, <1>4, <1>5 DEF Bril!GoOn

(***************************************************************************)
(* The instructions that assign a value.                                   *)
(***************************************************************************)
\* What BrilSpec lets each of them assign.
LEMMA ValuesAre ==
  /\ Bril!Now.op = "const" => Bril!Values = {Bril!Number(Bril!Now.base, Bril!Now.num)}
  /\ Bril!Now.op = "id" => Bril!Values = {Bril!Operand(1)}
  /\ Bril!Now.op = "not" => Bril!Values =
       Bril!Only(Bril!IsA(Bril!Operand(1), "bool"),
                 Bril!Number("bool", 1 - Bril!Operand(1).num))
  /\ Bril!Now.op = "load" => Bril!Values =
       Bril!Only(Bril!Operand(1).base = Bril!Now.base /\ Bril!Readable(Bril!Operand(1)),
                 Bril!Number(Bril!Now.base,
                   heap[Bril!Operand(1).blk].cells[Bril!Operand(1).off + 1]))
  /\ Bril!Now.op = "ptradd" => Bril!Values =
       Bril!Only(/\ Bril!IsA(Bril!Operand(2), "int")
                 /\ Bril!Operand(1).ptr /\ Bril!Operand(1).base = Bril!Now.base,
                 Bril!Pointer(Bril!Now.base, Bril!Operand(1).blk,
                              Bril!Operand(1).off + Bril!Operand(2).num))
<1>1. ASSUME Bril!Now.op = "const"
      PROVE  Bril!Values = {Bril!Number(Bril!Now.base, Bril!Now.num)}
  <2>1. Bril!Now.op # "id" /\ Bril!Now.op # "not" /\ Bril!Now.op # "load"
        /\ Bril!Now.op # "ptradd" /\ Bril!Now.op \notin DOMAIN Bril!BinOps
    BY <1>1 DEF Bril!BinOps
  <2> QED
    BY <1>1, <2>1, Zenon DEF Bril!Values
<1>2. ASSUME Bril!Now.op = "id"
      PROVE  Bril!Values = {Bril!Operand(1)}
  <2>1. Bril!Now.op # "const" /\ Bril!Now.op # "not" /\ Bril!Now.op # "load"
        /\ Bril!Now.op # "ptradd" /\ Bril!Now.op \notin DOMAIN Bril!BinOps
    BY <1>2 DEF Bril!BinOps
  <2> QED
    BY <1>2, <2>1, Zenon DEF Bril!Values
<1>3. ASSUME Bril!Now.op = "not"
      PROVE  Bril!Values = Bril!Only(Bril!IsA(Bril!Operand(1), "bool"),
                                     Bril!Number("bool", 1 - Bril!Operand(1).num))
  <2>1. Bril!Now.op # "const" /\ Bril!Now.op # "id" /\ Bril!Now.op # "load"
        /\ Bril!Now.op # "ptradd" /\ Bril!Now.op \notin DOMAIN Bril!BinOps
    BY <1>3 DEF Bril!BinOps
  <2> QED
    BY <1>3, <2>1, Zenon DEF Bril!Values
<1>4. ASSUME Bril!Now.op = "load"
      PROVE  Bril!Values =
               Bril!Only(Bril!Operand(1).base = Bril!Now.base /\ Bril!Readable(Bril!Operand(1)),
                         Bril!Number(Bril!Now.base,
                           heap[Bril!Operand(1).blk].cells[Bril!Operand(1).off + 1]))
  <2>1. Bril!Now.op # "const" /\ Bril!Now.op # "id" /\ Bril!Now.op # "not"
        /\ Bril!Now.op # "ptradd" /\ Bril!Now.op \notin DOMAIN Bril!BinOps
    BY <1>4 DEF Bril!BinOps
  <2> QED
    BY <1>4, <2>1, Zenon DEF Bril!Values
<1>5. ASSUME Bril!Now.op = "ptradd"
      PROVE  Bril!Values =
               Bril!Only(/\ Bril!IsA(Bril!Operand(2), "int")
                         /\ Bril!Operand(1).ptr /\ Bril!Operand(1).base = Bril!Now.base,
                         Bril!Pointer(Bril!Now.base, Bril!Operand(1).blk,
                                      Bril!Operand(1).off + Bril!Operand(2).num))
  <2>1. Bril!Now.op # "const" /\ Bril!Now.op # "id" /\ Bril!Now.op # "not"
        /\ Bril!Now.op # "load" /\ Bril!Now.op \notin DOMAIN Bril!BinOps
    BY <1>5 DEF Bril!BinOps
  <2> QED
    BY <1>5, <2>1, Zenon DEF Bril!Values
<1> QED
  BY <1>1, <1>2, <1>3, <1>4, <1>5

\* And what it lets an arithmetic or comparing one assign.
Computed(sig, a, b) ==
  IF Bril!IsA(a, sig[1]) /\ Bril!IsA(b, sig[1])
  THEN {Bril!Number(sig[3], n) : n \in Bril!Apply(sig[2], a.num, b.num)}
  ELSE {}
LEMMA ValuesComputed ==
  ASSUME Bril!Now.op \in DOMAIN BinOps
  PROVE  Bril!Values = Computed(BinOps[Bril!Now.op], Bril!Operand(1), Bril!Operand(2))
<1>1. Bril!Now.op # "const" /\ Bril!Now.op # "id" /\ Bril!Now.op # "not"
      /\ Bril!Now.op # "load" /\ Bril!Now.op # "ptradd"
  BY DEF BinOps
<1>2. Bril!BinOps = BinOps
  BY SameNames
<1> QED
  BY <1>1, <1>2, Zenon DEF Bril!Values, Computed

\* A step that assigns one of those values is BrilSpec's Assign.
Assigning == {"const", "id", "not", "load", "ptradd"} \union DOMAIN BinOps
LEMMA AssignRefines ==
  ASSUME IInv, Meaningful, NEW ops, Runs(ops), ops \subseteq Assigning,
         NEW v \in Value, v \in Bril!Values, Set_dest(v),
         UNCHANGED <<prog, heap, out, status>>
  PROVE  Bril!Assign
<1>1. "ret" \notin ops
  BY DEF Assigning, BinOps
<1>2. Bril!Here.pc = Top.ip /\ Bril!Body = Instrs /\ Bril!Now = Cur /\ State = "running"
      /\ Bril!At(ops)
  BY Sees
<1>3. Bril!At({"const", "id", "not", "load", "ptradd"} \union DOMAIN Bril!BinOps)
  BY <1>2, SameNames DEF Bril!At, Assigning
<1>4. Cur.dest # NoVar
  <2>1. Cur.op \in Assigning /\ Shaped(Cur)
    BY CurTyped
  <2> QED
    BY <2>1 DEF Shaped, Assigning
<1>5. Bril!GoOnWith(v)
  BY <1>1, <1>4, Assigns
<1>6. State' = State
  BY DEF State
<1> QED
  BY <1>3, <1>5, <1>6 DEF Bril!Assign

\* const assigns its literal.
LEMMA ConstRefines == ASSUME IInv, Meaningful, Interpret_const PROVE Bril!Assign
<1> DEFINE v == Number(Cur.base, Cur.num)
<1>1. Runs({"const"}) /\ Set_dest(v) /\ UNCHANGED <<prog, heap, out, status>>
  BY DEF Interpret_const
<1>2. Cur \in Instr /\ Shaped(Cur) /\ Cur.op = "const" /\ Bril!Now = Cur
  BY <1>1, CurTyped, Sees
<1>3. v \in Value
  BY <1>2, NumberGood DEF Instr, Shaped, GoodValue
<1>4. v \in Bril!Values
  BY <1>2, ValuesAre, SameNames
<1> HIDE DEF v
<1> QED
  BY <1>1, <1>3, <1>4, AssignRefines DEF Assigning

\* id assigns its operand.
LEMMA IdRefines == ASSUME IInv, Meaningful, Interpret_id PROVE Bril!Assign
<1>1. Runs({"id"}) /\ Set_dest(Arg(1)) /\ UNCHANGED <<prog, heap, out, status>>
  BY DEF Interpret_id
<1>2. Cur.op = "id" /\ Shaped(Cur) /\ Cur \in Instr /\ Bril!Now = Cur /\ Bril!Operand(1) = Arg(1)
  BY <1>1, CurTyped, Sees
<1>3. Arg(1) \in Value
  BY <1>1, <1>2, ArgGood DEF Instr, Shaped, GoodValue
<1>4. Arg(1) \in Bril!Values
  BY <1>2, ValuesAre
<1> QED
  BY <1>1, <1>3, <1>4, AssignRefines DEF Assigning

\* not assigns the negation of a bool.
LEMMA NotRefines == ASSUME IInv, Meaningful, Interpret_not PROVE Bril!Assign
<1> DEFINE v == Number("bool", 1 - Arg(1).num)
<1>1. Runs({"not"}) /\ status = "running"
  BY DEF Interpret_not, Runs
<1>2. /\ IsA(Arg(1), "bool") /\ Set_dest(v) /\ UNCHANGED <<prog, heap, out, status>>
  BY <1>1, NotStopped DEF Interpret_not
<1>3. Cur.op = "not" /\ Shaped(Cur) /\ Cur \in Instr /\ Bril!Now = Cur /\ Bril!Operand(1) = Arg(1)
  BY <1>1, CurTyped, Sees
<1>4. GoodValue(Arg(1), heap)
  BY <1>1, <1>3, ArgGood DEF Instr, Shaped
<1>5. v \in Value
  <2>1. Arg(1).num \in {0, 1}
    BY <1>2, <1>4 DEF GoodValue, FitsIn, IsA, Payload
  <2>2. "bool" \in BaseTypes /\ 1 - Arg(1).num \in Payload("bool")
    BY <2>1 DEF BaseTypes, Payload
  <2> QED
    BY <2>2, NumberGood DEF GoodValue
<1>6. v \in Bril!Values
  <2>1. Bril!Values = Bril!Only(Bril!IsA(Arg(1), "bool"), Bril!Number("bool", 1 - Arg(1).num))
    BY <1>3, ValuesAre
  <2> QED
    BY <1>2, <2>1, SameNames DEF Bril!Only
<1> HIDE DEF v
<1> QED
  BY <1>1, <1>2, <1>5, <1>6, AssignRefines DEF Assigning

\* The arithmetic, comparison and logical instructions assign one of their results.
LEMMA BinopRefines == ASSUME IInv, Meaningful, Interpret_binop PROVE Bril!Assign
<1> DEFINE sig == BinOps[Cur.op]
           a == Arg(1)
           b == Arg(2)
<1>1. Runs(DOMAIN BinOps) /\ status = "running"
  BY DEF Interpret_binop, Runs
<1>2. /\ IsA(a, sig[1]) /\ IsA(b, sig[1])
      /\ \E n \in Apply(sig[2], a.num, b.num) : Set_dest(Number(sig[3], n))
      /\ UNCHANGED <<prog, heap, out, status>>
  BY <1>1, NotStopped DEF Interpret_binop
<1>3. /\ Cur.op \in DOMAIN BinOps /\ Shaped(Cur) /\ Cur \in Instr /\ Bril!Now = Cur
      /\ Bril!Operand(1) = a /\ Bril!Operand(2) = b
  BY <1>1, CurTyped, Sees
<1>4. GoodValue(a, heap) /\ GoodValue(b, heap)
  <2>1. 1 \in 1 .. Len(Cur.args) /\ 2 \in 1 .. Len(Cur.args)
    BY <1>3 DEF Instr, Shaped
  <2> QED
    BY <1>1, <2>1, ArgGood
<1>5. a.num \in IntMin .. IntMax /\ b.num \in IntMin .. IntMax
  BY <1>4 DEF GoodValue, Value
<1>6. PICK n \in Apply(sig[2], a.num, b.num) : Set_dest(Number(sig[3], n))
  BY <1>2
<1>7. Number(sig[3], n) \in Value
  <2>1. sig[3] \in BaseTypes /\ n \in Payload(sig[3])
    BY <1>3, <1>5, <1>6, ApplyFits
  <2> QED
    BY <2>1, NumberGood DEF GoodValue
<1>8. Number(sig[3], n) \in Bril!Values
  <2>1. Bril!Values = Computed(sig, a, b)
    BY <1>3, ValuesComputed
  <2>2. Bril!Apply(sig[2], a.num, b.num) = Apply(sig[2], a.num, b.num)
    BY SameApply
  <2>3. Bril!Number(sig[3], n) = Number(sig[3], n) /\ Bril!IsA(a, sig[1]) /\ Bril!IsA(b, sig[1])
    BY <1>2, SameNames
  <2> HIDE DEF a, b, sig
  <2> QED
    BY <1>6, <2>1, <2>2, <2>3 DEF Computed
<1> QED
  BY <1>1, <1>2, <1>6, <1>7, <1>8, AssignRefines DEF Assigning

\* load assigns the cell its pointer points to.
LEMMA LoadRefines == ASSUME IInv, Meaningful, Interpret_load PROVE Bril!Assign
<1> DEFINE p == Arg(1)
           n == heap[p.blk].cells[p.off + 1]
           v == Number(p.base, n)
<1>1. Runs({"load"}) /\ status = "running"
  BY DEF Interpret_load, Runs
<1>2. /\ p.ptr /\ p.base = Cur.base /\ Points(p) /\ Set_dest(v)
      /\ UNCHANGED <<prog, heap, out, status>>
  BY <1>1, NotStopped DEF Interpret_load
<1>3. Cur.op = "load" /\ Shaped(Cur) /\ Cur \in Instr /\ Bril!Now = Cur /\ Bril!Operand(1) = p
  BY <1>1, CurTyped, Sees
<1>4. GoodValue(p, heap)
  BY <1>1, <1>3, ArgGood DEF Instr, Shaped
<1>5. v \in Value
  <2>1. p.blk \in 1 .. Len(heap) /\ heap[p.blk].base = p.base /\ p.base \in BaseTypes
    BY <1>2, <1>4 DEF GoodValue, FitsIn, Value
  <2>2. p.off + 1 \in 1 .. Len(heap[p.blk].cells)
    <3>1. p.off \in 0 .. Len(heap[p.blk].cells) - 1
      BY <1>2 DEF Points
    <3> HIDE DEF p
    <3> QED BY <3>1
  <2>3. n \in Payload(p.base)
    <3>1. n \in Payload(heap[p.blk].base)
      BY <2>1, <2>2 DEF IInv, GoodHeap
    <3> HIDE DEF p, n
    <3> QED BY <2>1, <3>1
  <2> HIDE DEF p, n
  <2> QED
    BY <2>1, <2>3, NumberGood DEF GoodValue
<1>6. v \in Bril!Values
  <2>1. Bril!Values = Bril!Only(p.base = Cur.base /\ Bril!Readable(p), Bril!Number(Cur.base, n))
    BY <1>3, ValuesAre
  <2>2. Bril!Readable(p)
    BY <1>2 DEF Points, Bril!Readable
  <2> HIDE DEF p, n
  <2> QED
    BY <1>2, <2>1, <2>2, SameNames DEF Bril!Only
<1> HIDE DEF v
<1> QED
  BY <1>1, <1>2, <1>5, <1>6, AssignRefines DEF Assigning

\* ptradd assigns a pointer further on in the same block.
LEMMA PtraddRefines == ASSUME IInv, Meaningful, Interpret_ptradd PROVE Bril!Assign
<1> DEFINE p == Arg(1)
           o == p.off + Arg(2).num
           v == Pointer(p.base, p.blk, o)
<1>1. Runs({"ptradd"}) /\ status = "running"
  BY DEF Interpret_ptradd, Runs
<1>2. /\ IsA(Arg(2), "int") /\ p.ptr /\ p.base = Cur.base /\ Set_dest(v)
      /\ UNCHANGED <<prog, heap, out, status>>
  BY <1>1, NotStopped DEF Interpret_ptradd
<1>3. /\ Cur.op = "ptradd" /\ Shaped(Cur) /\ Cur \in Instr /\ Bril!Now = Cur
      /\ Bril!Operand(1) = p /\ Bril!Operand(2) = Arg(2)
  BY <1>1, CurTyped, Sees
<1>4. GoodValue(p, heap) /\ GoodValue(Arg(2), heap)
  <2>1. 1 \in 1 .. Len(Cur.args) /\ 2 \in 1 .. Len(Cur.args)
    BY <1>3 DEF Instr, Shaped
  <2> QED
    BY <1>1, <2>1, ArgGood
<1>5. v \in Value
  <2>1. /\ p.base \in BaseTypes /\ p.blk \in 1 .. Len(heap) /\ heap[p.blk].base = p.base
        /\ p.off \in Int /\ Arg(2).num \in Int /\ Len(heap) \in Nat
    BY <1>2, <1>4, ProgramAssumption DEF GoodValue, FitsIn, Value, IInv, GoodHeap
  <2>2. o \in Int
    BY <2>1
  <2> HIDE DEF p, o
  <2> QED
    BY <2>1, <2>2, PointerGood DEF GoodValue
<1>6. v \in Bril!Values
  <2>1. Bril!Values = Bril!Only(Bril!IsA(Arg(2), "int") /\ p.ptr /\ p.base = Cur.base,
                                Bril!Pointer(Cur.base, p.blk, o))
    BY <1>3, ValuesAre
  <2> HIDE DEF p, o
  <2> QED
    BY <1>2, <2>1, SameNames DEF Bril!Only
<1> HIDE DEF v
<1> QED
  BY <1>1, <1>2, <1>5, <1>6, AssignRefines DEF Assigning

(***************************************************************************)
(* The instructions that go on behind themselves, and the jumps.           *)
(***************************************************************************)
\* nop is skipped.
LEMMA NopRefines == ASSUME IInv, Meaningful, Interpret_nop PROVE Bril!Skip
<1>1. Runs({"nop"}) /\ Next_ip /\ UNCHANGED <<prog, heap, out, status>>
  BY DEF Interpret_nop
<1>2. Bril!GoOn /\ Bril!At({"nop"})
  BY <1>1, Advances, Sees
<1>3. State' = State
  BY <1>1 DEF State
<1> QED
  BY <1>1, <1>2, <1>3 DEF Bril!Skip, Bril!At

\* A label is skipped, whatever it leaves in the cache.
LEMMA LabelRefines == ASSUME IInv, Meaningful, Interpret_label PROVE Bril!Skip
<1> DEFINE l == Cur.lbls[1]
           k == Top.ip
           i == k + 1
           f == [Top EXCEPT !.labels[l] = k, !.ip = i]
<1>0. /\ Runs({"label"}) /\ status = "running" /\ Cur.op = "label"
      /\ Cur.lbls \in Seq(Labels) /\ Len(Cur.lbls) >= 1
      /\ k \in Nat /\ k < Len(Instrs) /\ Len(Instrs) \in Nat
  BY CurTyped DEF Interpret_label, Shaped, Instr, Runs
<1>1. l \in Labels
  BY <1>0
<1>2. k \in LabelAt(Instrs, l) /\ i \in 0 .. Len(Instrs)
  BY <1>0, <1>1 DEF LabelAt, Cur
<1>3. frames' = [frames EXCEPT ![Len(frames)] = f]
  BY <1>0, TopGood DEF Interpret_label, Top, IInv, GoodStack
<1>4. f \in Frame
  <2>1. GoodFrame(f, prog, heap)
    <3> HIDE DEF i, k, l
    <3> QED BY <1>0, <1>1, <1>2, Relabelled
  <2> QED
    BY <2>1 DEF GoodFrame
<1>5. f.ip = i /\ f.name = Top.name /\ f.variables = Top.variables
  BY <1>0, TopGood DEF Frame
<1>6. UNCHANGED <<prog, heap, out, status>>
  BY DEF Interpret_label
<1> HIDE DEF f
<1>7. Bril!Go(i)
  BY <1>0, <1>3, <1>4, <1>5, <1>6, Moves
<1>8. Bril!At({"label"}) /\ Bril!Here.pc = k
  BY <1>0, Sees
<1>9. State' = State
  BY <1>6 DEF State
<1> QED
  BY <1>6, <1>7, <1>8, <1>9 DEF Bril!Skip, Bril!At, Bril!GoOn

\* print shows its operands.
LEMMA PrintRefines == ASSUME IInv, Meaningful, Interpret_print PROVE Bril!Show
<1>1. Runs({"print"}) /\ status = "running"
  BY DEF Interpret_print, Runs
<1>2. /\ out' = [k \in DOMAIN Cur.args |-> Arg(k)] /\ Next_ip
      /\ UNCHANGED <<prog, heap, status>>
  BY <1>1, NotStopped DEF Interpret_print
<1>3. Bril!GoOn
  BY <1>1, <1>2, Advances
<1>4. Bril!At({"print"}) /\ Bril!Now = Cur /\ \A k : Bril!Operand(k) = Arg(k)
  BY <1>1, Sees
<1>5. out' = [k \in DOMAIN Bril!Now.args |-> Bril!Operand(k)]
  BY <1>2, <1>4
<1>6. State' = State
  BY <1>2 DEF State
<1> QED
  BY <1>2, <1>3, <1>4, <1>5, <1>6 DEF Bril!Show

\* jmp_to_label goes on behind the label, wherever it stands.
LEMMA JumpMoves ==
  ASSUME IInv, Meaningful, NEW ops, Runs(ops), "ret" \notin ops, NEW l \in Labels,
         Jmp_to_label(l)
  PROVE  /\ \E k \in LabelAt(Instrs, l) : Bril!Go(k + 1)
         /\ UNCHANGED <<prog, heap, out, status>>
<1>0. /\ status = "running" /\ frames \in Seq(Frame) /\ Len(frames) \in Nat \ {0}
      /\ GoodFrame(Top, prog, heap) /\ Instrs = Body(Top, prog) /\ Top \in Frame
      /\ Len(Instrs) \in Nat
  BY TopGood DEF IInv, GoodStack, Runs
<1>1. ASSUME NEW k \in LabelAt(Instrs, l)
      PROVE  k \in Int /\ k + 1 \in 0 .. Len(Instrs)
  BY <1>0, <1>1 DEF LabelAt
<1>2. CASE /\ Top.labels[l] # NotCached
           /\ frames' = [frames EXCEPT ![Len(frames)].ip = Top.labels[l] + 1]
           /\ UNCHANGED <<prog, ret_val, heap, out, status>>
  <2> DEFINE k == Top.labels[l]
             i == k + 1
             f == [Top EXCEPT !.ip = i]
  <2>1. k \in LabelAt(Instrs, l)
    BY <1>0, <1>2 DEF GoodFrame, Cached
  <2>2. i \in 0 .. Len(Instrs)
    BY <1>1, <2>1
  <2>3. frames' = [frames EXCEPT ![Len(frames)] = f]
    BY <1>0, <1>2 DEF Top
  <2>4. f \in Frame
    <3>1. GoodFrame(f, prog, heap)
      <4> HIDE DEF i
      <4> QED BY <1>0, <2>2, Moved
    <3> QED
      BY <3>1 DEF GoodFrame
  <2>5. f.ip = i /\ f.name = Top.name /\ f.variables = Top.variables
    BY <1>0 DEF Frame
  <2> HIDE DEF f
  <2>6. Bril!Go(k + 1)
    BY <1>2, <2>3, <2>4, <2>5, Moves
  <2> HIDE DEF k
  <2> QED
    BY <1>2, <2>1, <2>6
<1>3. CASE /\ Top.labels[l] = NotCached /\ Found(l) # {}
           /\ frames' = [frames EXCEPT ![Len(frames)].labels[l] = Find_label(l),
                                       ![Len(frames)].ip = Find_label(l) + 1]
           /\ UNCHANGED <<prog, ret_val, heap, out, status>>
  <2> DEFINE k == Find_label(l)
             i == k + 1
             f == [Top EXCEPT !.labels[l] = k, !.ip = i]
  <2>1. k \in LabelAt(Instrs, l)
    <3>1. Found(l) \subseteq LabelAt(Instrs, l)
      BY DEF Found
    <3>2. Found(l) \subseteq 0 .. Len(Instrs) - 1
      BY <3>1 DEF LabelAt
    <3>3. \E m \in Found(l) : \A j \in Found(l) : m <= j
      BY <1>0, <1>3, <3>2, LeastFound
    <3>4. k \in Found(l)
      BY <3>3 DEF Find_label
    <3> QED
      BY <3>1, <3>4
  <2>2. frames' = [frames EXCEPT ![Len(frames)] = f]
    BY <1>0, <1>3 DEF Top
  <2>3. k \in Int /\ i \in 0 .. Len(Instrs)
    <3> HIDE DEF k
    <3> QED BY <1>1, <2>1
  <2>4. f \in Frame
    <3>1. GoodFrame(f, prog, heap)
      <4> HIDE DEF i, k
      <4> QED BY <1>0, <2>1, <2>3, Relabelled
    <3> QED
      BY <3>1 DEF GoodFrame
  <2>5. f.ip = i /\ f.name = Top.name /\ f.variables = Top.variables
    <3> HIDE DEF k
    <3> QED BY <1>0 DEF Frame
  <2> HIDE DEF f
  <2>6. Bril!Go(k + 1)
    BY <1>3, <2>2, <2>4, <2>5, Moves
  <2> HIDE DEF k
  <2> QED
    BY <1>3, <2>1, <2>6
<1> QED
  BY <1>0, <1>2, <1>3, NotStopped DEF Jmp_to_label

\* jmp goes to its label.
LEMMA JmpRefines == ASSUME IInv, Meaningful, Interpret_jmp PROVE Bril!Jump
<1>1. Runs({"jmp"}) /\ Jmp_to_label(Cur.lbls[1])
  BY DEF Interpret_jmp
<1>2. Bril!At({"jmp"}) /\ Bril!Now = Cur /\ Bril!Body = Instrs
  BY <1>1, Sees
<1>3. Cur.op = "jmp" /\ Cur.lbls[1] \in Labels
  BY <1>1, CurTyped DEF Shaped, Instr
<1>4. /\ \E k \in LabelAt(Instrs, Cur.lbls[1]) : Bril!Go(k + 1)
      /\ UNCHANGED <<prog, heap, out, status>>
  BY <1>1, <1>3, JumpMoves
<1>5. State' = State
  BY <1>4 DEF State
<1>6. \E k \in Bril!LabelAt(Bril!Body, Bril!Now.lbls[1]) : Bril!Go(k + 1)
  BY <1>2, <1>4, SameNames
<1> QED
  BY <1>2, <1>3, <1>4, <1>5, <1>6 DEF Bril!Jump, Bril!At

\* br goes to the label its condition selects.
LEMMA BrRefines == ASSUME IInv, Meaningful, Interpret_br PROVE Bril!Jump
<1> DEFINE m == IF Arg(1).num = 1 THEN 1 ELSE 2
<1>1. Runs({"br"}) /\ status = "running"
  BY DEF Interpret_br, Runs
<1>2. IsA(Arg(1), "bool") /\ Jmp_to_label(Cur.lbls[m])
  BY <1>1, NotStopped DEF Interpret_br
<1>3. /\ Bril!At({"br"}) /\ Bril!Now = Cur /\ Bril!Body = Instrs /\ Bril!Operand(1) = Arg(1)
  BY <1>1, Sees
<1>4. Cur.op = "br" /\ Cur.lbls[m] \in Labels
  <2>1. Cur.op = "br" /\ Cur.lbls \in Seq(Labels) /\ Len(Cur.lbls) >= 2
    BY <1>1, CurTyped DEF Shaped, Instr
  <2> QED
    BY <2>1
<1> HIDE DEF m
<1>5. /\ \E k \in LabelAt(Instrs, Cur.lbls[m]) : Bril!Go(k + 1)
      /\ UNCHANGED <<prog, heap, out, status>>
  BY <1>1, <1>2, <1>4, JumpMoves
<1>6. State' = State
  BY <1>5 DEF State
<1>7. m = IF Bril!Now.op = "br" /\ Bril!Operand(1).num # 1 THEN 2 ELSE 1
  BY <1>3, <1>4 DEF m
<1>8. \E k \in Bril!LabelAt(Bril!Body, Bril!Now.lbls[m]) : Bril!Go(k + 1)
  BY <1>3, <1>5, SameNames
<1>9. Bril!At({"jmp", "br"}) /\ (Bril!Now.op = "br" => Bril!IsA(Bril!Operand(1), "bool"))
  BY <1>2, <1>3, SameNames DEF Bril!At
<1> QED
  BY <1>5, <1>6, <1>7, <1>8, <1>9 DEF Bril!Jump

(***************************************************************************)
(* Memory.                                                                 *)
(***************************************************************************)
\* new adds a block and assigns the pointer to its start.
LEMMA AllocRefines == ASSUME IInv, Meaningful, Interpret_alloc PROVE Bril!Allocate
<1> DEFINE v == Pointer(Cur.base, Len(heap) + 1, 0)
           size == Arg(1).num
           Fresh(j) == Append(heap, [base |-> Cur.base, live |-> TRUE,
                                     cells |-> [k \in 1 .. size |-> j]])
<1>1. Runs({"alloc"}) /\ status = "running" /\ "ret" \notin {"alloc"}
  BY DEF Interpret_alloc, Runs
<1>2. /\ IsA(Arg(1), "int") /\ size \in 0 .. MaxSize
      /\ \E junk \in Payload(Cur.base) : heap' = Fresh(junk)
      /\ Set_dest(v) /\ UNCHANGED <<prog, out, status>>
  BY <1>1, NotStopped DEF Interpret_alloc
<1>3. /\ Cur.op = "alloc" /\ Shaped(Cur) /\ Cur \in Instr /\ Bril!Now = Cur
      /\ Bril!Operand(1) = Arg(1) /\ Bril!At({"alloc"})
  BY <1>1, CurTyped, Sees
<1>4. Cur.dest # NoVar /\ Cur.base \in BaseTypes /\ Len(heap) + 1 \in Nat
  BY <1>3 DEF Shaped, Instr, IInv, GoodHeap
<1>5. v \in Value
  BY <1>4, ProgramAssumption DEF Pointer, Value
<1> HIDE DEF v, Fresh
<1>6. Bril!GoOnWith(v)
  BY <1>1, <1>2, <1>4, <1>5, Assigns
<1>7. Bril!GoOnWith(Bril!Pointer(Bril!Now.base, Len(heap) + 1, 0))
  BY <1>3, <1>6, SameNames DEF v
<1>8. \E junk \in Bril!Payload(Bril!Now.base) :
        heap' = Append(heap, [base |-> Bril!Now.base, live |-> TRUE,
                              cells |-> [k \in 1 .. Bril!Operand(1).num |-> junk]])
  <2>1. PICK junk \in Payload(Cur.base) : heap' = Fresh(junk)
    BY <1>2
  <2>2. junk \in Bril!Payload(Bril!Now.base)
    BY <1>3, <2>1, SameNames
  <2>3. heap' = Append(heap, [base |-> Bril!Now.base, live |-> TRUE,
                              cells |-> [k \in 1 .. Bril!Operand(1).num |-> junk]])
    BY <1>3, <2>1, Zenon DEF Fresh
  <2> QED
    BY <2>2, <2>3
<1>9. Bril!IsA(Bril!Operand(1), "int") /\ Bril!Operand(1).num \in 0 .. MaxSize
  BY <1>2, <1>3, SameNames
<1>10. State' = State
  BY <1>2 DEF State
<1> QED
  BY <1>2, <1>3, <1>7, <1>8, <1>9, <1>10 DEF Bril!Allocate

\* delete ends the block its pointer owns.
LEMMA FreeRefines == ASSUME IInv, Meaningful, Interpret_free PROVE Bril!Release
<1>1. Runs({"free"}) /\ status = "running"
  BY DEF Interpret_free, Runs
<1>2. /\ Owned(Arg(1)) /\ heap' = [heap EXCEPT ![Arg(1).blk].live = FALSE]
      /\ Next_ip /\ UNCHANGED <<prog, out, status>>
  BY <1>1, NotStopped DEF Interpret_free
<1>3. Bril!GoOn
  BY <1>1, <1>2, Advances
<1>4. Bril!At({"free"}) /\ Bril!Operand(1) = Arg(1)
  BY <1>1, Sees
<1>5. State' = State
  BY <1>2 DEF State
<1> QED
  BY <1>2, <1>3, <1>4, <1>5 DEF Bril!Release, Owned

\* store writes the cell its pointer points to.
LEMMA StoreRefines == ASSUME IInv, Meaningful, Interpret_store PROVE Bril!Write
<1> DEFINE p == Arg(1)
<1>1. Runs({"store"}) /\ status = "running"
  BY DEF Interpret_store, Runs
<1>2. /\ Matches(p, Arg(2)) /\ Points(p)
      /\ heap' = [heap EXCEPT ![p.blk].cells = [@ EXCEPT ![p.off + 1] = Arg(2).num]]
      /\ Next_ip /\ UNCHANGED <<prog, out, status>>
  BY <1>1, NotStopped DEF Interpret_store
<1>3. Bril!GoOn
  BY <1>1, <1>2, Advances
<1>4. Bril!At({"store"}) /\ Bril!Operand(1) = p /\ Bril!Operand(2) = Arg(2)
  BY <1>1, Sees
<1>5. State' = State
  BY <1>2 DEF State
<1>6. Bril!Readable(Bril!Operand(1))
  BY <1>2, <1>4 DEF Points, Bril!Readable
<1>7. Bril!IsA(Bril!Operand(2), Bril!Operand(1).base)
  BY <1>2, <1>4 DEF Matches, Bril!IsA
<1> HIDE DEF p
<1>8. heap' = [heap EXCEPT ![Bril!Operand(1).blk].cells[Bril!Operand(1).off + 1] =
                             Bril!Operand(2).num]
  BY <1>2, <1>4
<1> QED
  BY <1>2, <1>3, <1>4, <1>5, <1>6, <1>7, <1>8 DEF Bril!Write

(***************************************************************************)
(* Calls and returns.                                                      *)
(***************************************************************************)
\* ret ends the activation, with the operand as its result if the caller wants one.
LEMMA RetRefines == ASSUME IInv, Meaningful, Interpret_ret PROVE Bril!Return
<1> DEFINE n == Len(frames)
           A == Activations
           B == Activations'
           m == Len(Instrs)
           f == [Top EXCEPT !.ip = m]
           r == IF Bril!Wanted /\ Bril!Now.args # <<>> THEN Bril!Operand(1)
                ELSE Bril!NoResult
<1>1. /\ Runs({"ret"}) /\ status = "running" /\ n \in Nat \ {0}
      /\ frames \in Seq(Frame) /\ Top \in Frame /\ m \in Nat
  BY TopGood DEF Interpret_ret, Runs, IInv, GoodStack
<1>2. /\ frames' = [frames EXCEPT ![n] = f]
      /\ ret_val' = IF Cur.args # <<>> THEN Arg(1) ELSE ret_val
      /\ UNCHANGED <<prog, heap, out, status>>
  BY <1>1 DEF Interpret_ret, Top
<1>3. f \in Frame /\ f.ip = m /\ f.variables = Top.variables /\ f.name = Top.name
  <2> HIDE DEF m
  <2> QED BY <1>1 DEF Frame
<1>4. Shown(f, r) = [Shown(Top, NoResult) EXCEPT !.pc = m, !.result = r]
  <2> HIDE DEF f, m, r
  <2>1. [Shown(Top, NoResult) EXCEPT !.pc = m] = Shown(f, NoResult)
    BY <1>3 DEF Shown
  <2>2. [Shown(f, NoResult) EXCEPT !.result = r] = Shown(f, r)
    BY DEF Shown
  <2>3. [Shown(Top, NoResult) EXCEPT !.pc = m, !.result = r] =
          [[Shown(Top, NoResult) EXCEPT !.pc = m] EXCEPT !.result = r]
    OBVIOUS
  <2> QED
    BY <2>1, <2>2, <2>3
<1> HIDE DEF f
<1>5. /\ Len(frames') = n
      /\ B = [A EXCEPT ![n] = Shown(f, Result(frames', prog, ret_val', n))]
  BY <1>1, <1>2, <1>3, TopMoves
<1>6. /\ Len(A) = n /\ A[n] = Shown(Top, NoResult) /\ Bril!Now = Cur /\ Bril!Body = Instrs
      /\ Bril!Operand(1) = Arg(1) /\ Bril!At({"ret"})
  BY <1>1, Sees
<1>7. Result(frames', prog, ret_val', n) = r
  <2>1. n > 1 => /\ frames'[n - 1] = frames[n - 1]
                 /\ Asks(frames[n - 1], prog) <=> Bril!Wanted
    <3>1. n > 1 => frames'[n - 1] = frames[n - 1]
      BY <1>1, <1>2
    <3>2. n > 1 => Activations[n - 1] = Shown(frames[n - 1], NoResult)
      <4>1. Shape(Activations, frames, prog, ret_val)
        BY StackIs, StackShape DEF IInv, GoodStack, Waiting
      <4>2. \A d \in 1 .. n - 1 : Activations[d] = Shown(frames[d], NoResult)
        BY <4>1 DEF Shape
      <4>3. n > 1 => n - 1 \in 1 .. n - 1
        BY <1>1
      <4> HIDE DEF n
      <4> QED
        BY <4>2, <4>3
    <3>3. n > 1 => (Asks(frames[n - 1], prog) <=> Bril!Wanted)
      BY <1>1, <1>6, <3>2 DEF Asks, Body, Bril!Wanted, Bril!Site, Bril!Above, Shown
    <3> QED
      BY <3>1, <3>3
  <2>2. Past(frames'[n], prog)
    <3>1. frames'[n] = f
      BY <1>1, <1>2 DEF f
    <3>2. f.ip = Len(Body(f, prog)) /\ Len(Body(f, prog)) \in Nat
      BY <1>1, <1>3, TopGood DEF Body
    <3> QED
      BY <3>1, <3>2 DEF Past
  <2>3. Bril!Wanted => n > 1
    BY <1>6 DEF Bril!Wanted
  <2>4. CASE ~ Bril!Wanted
    BY <2>1, <2>4, SameNames DEF Result
  <2>5. CASE Bril!Wanted
    <3>1. Result(frames', prog, ret_val', n) = ret_val'
      BY <2>1, <2>2, <2>3, <2>5 DEF Result
    <3>2. Cur.args # <<>>
      <4>1. frames' # <<>> /\ Len(frames') > 1
        BY <1>1, <1>5, <2>3, <2>5
      <4>2. Expected'
        BY <1>2, <1>5, <2>1, <2>2, <2>3, <2>5, <4>1
           DEF Expected, Wants, Ended, CallOf, Asks, Past, Body
      <4> QED
        BY <4>2 DEF Meaningful, Expected
    <3> QED
      BY <1>2, <1>6, <2>5, <3>1, <3>2
  <2> QED
    BY <2>4, <2>5
<1> HIDE DEF A, B, n, m, r
<1>8. B = [A EXCEPT ![Len(A)] = [A[Len(A)] EXCEPT !.pc = m, !.result = r]]
  BY <1>4, <1>5, <1>6, <1>7
<1>9. B = [A EXCEPT ![Len(A)].pc = m, ![Len(A)].result = r]
  BY <1>8
<1>10. State' = State
  BY <1>2 DEF State
<1> QED
  BY <1>2, <1>6, <1>9, <1>10 DEF Bril!Return, A, B, m, r

\* A frame on top of one that waits is an activation on top of the others.
Pushed(s, t, g) == t = Append(s, g)
LEMMA StackPush ==
  ASSUME NEW s, NEW p, NEW r, NEW t, NEW g \in Frame, Waiting(s, p), Len(s) # 0,
         Waits(s[Len(s)], p), Pushed(s, t, g)
  PROVE  /\ Waiting(t, p) /\ Len(t) = Len(s) + 1
         /\ Pushed(Stack(s, p, r), Stack(t, p, r), Shown(g, Result(t, p, r, Len(t))))
<1> DEFINE n == Len(s)
           A == Stack(s, p, r)
           B == Stack(t, p, r)
           x == Shown(g, Result(t, p, r, Len(t)))
<1>1. n \in Nat \ {0} /\ s \in Seq(Frame) /\ \A d \in 1 .. n - 1 : Waits(s[d], p)
  BY DEF Waiting
<1>2. /\ t \in Seq(Frame) /\ Len(t) = n + 1 /\ t[n + 1] = g
      /\ \A d \in 1 .. n : t[d] = s[d]
  BY <1>1 DEF Pushed
<1>3. Waiting(t, p)
  <2>1. \A d \in 1 .. n : Waits(t[d], p)
    <3> TAKE d \in 1 .. n
    <3>1. d = n \/ d \in 1 .. n - 1
      BY <1>1
    <3> QED
      BY <1>1, <1>2, <3>1
  <2> QED
    BY <1>1, <1>2, <2>1 DEF Waiting
<1>4. Shape(A, s, p, r) /\ Shape(B, t, p, r)
  BY <1>3, StackShape
<1>5. Result(s, p, r, n) = NoResult
  <2>1. s[n] \in Frame
    BY <1>1
  <2>2. s[n].ip \in Nat /\ s[n].ip < Len(Body(s[n], p))
    BY <2>1 DEF Frame, Waits
  <2>3. ~ Past(s[n], p)
    <3> DEFINE m == Len(Body(s[n], p))
    <3>1. s[n].ip \in Nat /\ s[n].ip < m
      BY <2>2
    <3> QED
      BY <3>1 DEF Past
  <2> QED
    BY <2>3 DEF Result
<1> HIDE DEF A, B, x
<1>6. /\ A = [d \in 1 .. n |-> A[d]] /\ B = [d \in 1 .. n + 1 |-> B[d]]
      /\ \A d \in 1 .. n - 1 : A[d] = Shown(s[d], NoResult)
      /\ A[n] = Shown(s[n], NoResult)
      /\ \A d \in 1 .. n : B[d] = Shown(t[d], NoResult)
      /\ B[n + 1] = x
  <2>1. /\ A = [d \in 1 .. n |-> A[d]] /\ A[n] = Shown(s[n], Result(s, p, r, n))
        /\ \A d \in 1 .. n - 1 : A[d] = Shown(s[d], NoResult)
    BY <1>1, <1>4 DEF Shape
  <2>2. /\ B = [d \in 1 .. n + 1 |-> B[d]] /\ B[n + 1] = x
        /\ \A d \in 1 .. n : B[d] = Shown(t[d], NoResult)
    <3> DEFINE m == n + 1
    <3>1. m = Len(t) /\ m # 0 /\ m - 1 = n
      BY <1>1, <1>2
    <3>2. /\ B = [d \in 1 .. m |-> B[d]] /\ \A d \in 1 .. m - 1 : B[d] = Shown(t[d], NoResult)
          /\ B[m] = Shown(t[m], Result(t, p, r, m))
      BY <1>4, <3>1 DEF Shape
    <3> QED
      BY <1>2, <3>1, <3>2 DEF x
  <2> QED
    BY <1>5, <2>1, <2>2
<1>7. \A d \in 1 .. n : B[d] = A[d]
  <2> TAKE d \in 1 .. n
  <2>1. d = n \/ d \in 1 .. n - 1
    BY <1>1
  <2> QED
    BY <1>2, <1>6, <2>1
<1> HIDE DEF n
<1>8. B = Append(A, x)
  <2>1. Append(A, x) = [d \in 1 .. n + 1 |-> IF d = n + 1 THEN x ELSE A[d]]
    <3>1. Len(A) = n
      BY <1>1, <1>6
    <3> QED
      BY <1>1, <1>6, <3>1
  <2>2. \A d \in 1 .. n + 1 : B[d] = IF d = n + 1 THEN x ELSE A[d]
    <3> TAKE d \in 1 .. n + 1
    <3>1. d = n + 1 \/ (d # n + 1 /\ d \in 1 .. n)
      BY <1>1
    <3> QED
      BY <1>6, <1>7, <3>1
  <2> QED
    BY <1>6, <2>1, <2>2
<1> QED
  BY <1>2, <1>3, <1>8 DEF A, B, x, n, Pushed

\* setup_frame binds what BrilSpec binds when the parameters have names of their own.
LEMMA Enters ==
  ASSUME Regular(prog), NEW fn \in DOMAIN prog, NEW args,
         DOMAIN args = 1 .. Len(Params(fn)), Len(Params(fn)) \in Nat
  PROVE  Shown(Setup_frame(fn, args), NoResult) = Bril!Enter(fn, args)
<1> DEFINE P == Params(fn)
           Names(x) == {k \in 1 .. Len(P) : P[k].name = x}
           first(x) == CHOOSE k \in Bound(fn, args, x) : TRUE
           any(x) == CHOOSE k \in DOMAIN args : P[k].name = x
           ours(x) == IF Bound(fn, args, x) = {} THEN Default ELSE args[first(x)]
           brils(x) == IF \E k \in DOMAIN args : P[k].name = x THEN args[any(x)] ELSE Default
<1>1. \A j, k \in 1 .. Len(P) : P[j].name = P[k].name => j = k
  BY DEF Regular, Params
<1>2. ASSUME NEW x
      PROVE  ours(x) = brils(x)
  <2>1. Bound(fn, args, x) = Names(x)
    BY <1>1 DEF Bound
  <2>2. CASE Names(x) = {}
    <3>1. ~ \E k \in DOMAIN args : P[k].name = x
      BY <2>2
    <3> QED
      BY <2>1, <2>2, <3>1
  <2>3. CASE Names(x) # {}
    <3>1. PICK k \in 1 .. Len(P) : P[k].name = x
      BY <2>3
    <3>2. first(x) \in Names(x)
      BY <2>1, <2>3
    <3>3. any(x) \in Names(x)
      BY <3>1
    <3>4. first(x) = any(x)
      <4> HIDE DEF P, first, any
      <4> QED BY <1>1, <3>2, <3>3
    <3>5. \E j \in DOMAIN args : P[j].name = x
      BY <3>1
    <3> HIDE DEF P, first, any
    <3> QED
      BY <2>1, <2>3, <3>4, <3>5
  <2> QED
    BY <2>2, <2>3
<1>3. Shown(Setup_frame(fn, args), NoResult) =
        [fn |-> fn, pc |-> 0, env |-> [x \in Vars |-> ours(x)], result |-> NoResult]
  BY DEF Shown, Setup_frame
<1>4. Bril!Enter(fn, args) =
        [fn |-> fn, pc |-> 0, env |-> [x \in Vars |-> brils(x)], result |-> NoResult]
  BY SameNames DEF Bril!Enter, Params
<1> HIDE DEF ours, brils
<1> QED
  BY <1>2, <1>3, <1>4

\* The parameters of a function.
LEMMA ParamsTyped ==
  ASSUME IsProgram(prog), NEW fn \in DOMAIN prog
  PROVE  /\ Params(fn) \in Seq([name : Vars, base : BaseTypes, ptr : BOOLEAN])
         /\ Len(Params(fn)) \in Nat
<1>1. prog[fn] \in Function
  BY DEF IsProgram
<1>2. Params(fn) \in Seq([name : Vars, base : BaseTypes, ptr : BOOLEAN])
  BY <1>1 DEF Function, Params
<1> QED
  BY <1>2

\* A call enters its callee with the arguments bound.
LEMMA CallRefines == ASSUME IInv, Regular(prog), Meaningful, Interpret_call PROVE Bril!Call
<1> DEFINE v_args == [k \in DOMAIN Cur.args |-> Arg(k)]
           values == [k \in DOMAIN Bril!Now.args |-> Bril!Operand(k)]
           g == Setup_frame(Cur.fn, v_args)
           n == Len(frames)
<1>1. /\ Runs({"call"}) /\ status = "running" /\ ~ Interpret_ret
  BY DEF Interpret_call, Runs, Interpret_ret
<1>2. /\ Cur.args # <<>> /\ Accepts(Cur.fn, v_args) /\ frames' = Append(frames, g)
      /\ UNCHANGED <<prog, ret_val, heap, out, status>>
  BY <1>1, NotStopped DEF Interpret_call
<1>3. /\ Cur \in Instr /\ Cur.op = "call" /\ Top.ip < Len(Instrs)
      /\ frames \in Seq(Frame) /\ n \in Nat \ {0} /\ Waiting(frames, prog)
      /\ Instrs = Body(Top, prog) /\ Cur = Instrs[Top.ip + 1] /\ Top \in Frame
      /\ Top.ip \in Nat /\ Len(Instrs) \in Nat
  BY <1>1, CurTyped, TopGood DEF IInv, GoodStack, Cur, Waiting
<1>4. /\ Bril!At({"call"}) /\ Bril!Now = Cur /\ \A k : Bril!Operand(k) = Arg(k)
  BY <1>1, Sees
<1>5. values = v_args
  BY <1>4
<1>6. /\ Cur.args \in Seq(Vars) /\ DOMAIN v_args = 1 .. Len(Cur.args)
      /\ Len(v_args) = Len(Cur.args) /\ Len(Cur.args) \in Nat
  BY <1>3 DEF Instr
<1>7. /\ Cur.fn \in DOMAIN prog /\ Len(Params(Cur.fn)) \in Nat
      /\ Params(Cur.fn) \in Seq([name : Vars, base : BaseTypes, ptr : BOOLEAN])
  BY <1>2, ParamsTyped DEF Accepts, IInv
<1>8. Params(Cur.fn) # <<>>
  <2>1. Top.name \in DOMAIN prog /\ Top.ip + 1 \in 1 .. Len(prog[Top.name].instrs)
    BY <1>1, <1>3, TopGood DEF GoodFrame, Body
  <2>2. prog[Top.name].instrs[Top.ip + 1] = Cur
    BY <1>3 DEF Body
  <2> QED
    BY <1>2, <1>3, <1>7, <2>1, <2>2 DEF Regular, Params
<1> HIDE DEF v_args, values
<1>9. /\ Len(v_args) = Len(Params(Cur.fn))
      /\ \A k \in 1 .. Len(v_args) : /\ v_args[k].base = Params(Cur.fn)[k].base
                                     /\ v_args[k].ptr = Params(Cur.fn)[k].ptr
  BY <1>2, <1>8 DEF Accepts
<1>10. Bril!Typed(Bril!Now.fn, values)
  BY <1>4, <1>5, <1>6, <1>7, <1>9 DEF Bril!Typed, Params
<1>11. Shown(g, NoResult) = Bril!Enter(Cur.fn, v_args)
  BY <1>6, <1>7, <1>9, Enters
<1>12. g \in Frame
  <2>1. \A k \in 1 .. Len(Params(Cur.fn)) : GoodValue(v_args[k], heap)
    BY <1>1, <1>6, <1>9, ArgGood DEF v_args
  <2> QED
    BY <1>7, <2>1, NewFrame DEF IInv, GoodFrame
<1> HIDE DEF g
<1>13. Waits(frames[n], prog)
  BY <1>3 DEF Waits, Top
<1>14. /\ Len(frames') = n + 1
       /\ Activations' = Append(Activations, Shown(g, Result(frames', prog, ret_val', n + 1)))
  <2>1. Pushed(frames, frames', g)
    BY <1>2 DEF Pushed
  <2>2. Activations = Stack(frames, prog, ret_val)
        /\ Activations' = Stack(frames', prog, ret_val)
    BY <1>2, StackIs
  <2>3. /\ Len(frames') = n + 1
        /\ Pushed(Activations, Activations', Shown(g, Result(frames', prog, ret_val, Len(frames'))))
    BY <1>3, <1>12, <1>13, <2>1, <2>2, StackPush
  <2> QED
    BY <1>2, <2>3 DEF Pushed
<1>15. Result(frames', prog, ret_val', n + 1) = NoResult
  <2>1. frames' # <<>> /\ ~ Expected'
    BY <1>1, <1>3, <1>14, Quiet
  <2> QED
    BY <1>2, <1>14, <2>1, NotExpected
<1>16. State' = State
  BY <1>2 DEF State
<1>17. Activations' = Append(Activations, Bril!Enter(Bril!Now.fn, values))
  BY <1>4, <1>5, <1>11, <1>14, <1>15
<1> QED
  BY <1>2, <1>4, <1>10, <1>16, <1>17 DEF Bril!Call, values

\* The start of the program.
LEMMA StartRefines == ASSUME IInv, Regular(prog), Meaningful, Start PROVE Bril!Begin
<1> DEFINE P == Params("main")
           Parsed(n) == [k \in DOMAIN n |-> Number(P[k].base, n[k])]
<1>1. /\ status = "start" /\ "main" \in DOMAIN prog /\ status' = "running"
      /\ UNCHANGED <<prog, ret_val, heap, out>> /\ ~ Interpret_ret
  BY DEF Start, Interpret_ret, Runs
<1>2. PICK n \in [1 .. Len(P) -> Inputs] :
        /\ \A k \in DOMAIN n : n[k] \in Payload(P[k].base)
        /\ frames' = <<Setup_frame("main", Parsed(n))>>
  BY DEF Start
<1>3. P \in Seq([name : Vars, base : BaseTypes, ptr : BOOLEAN]) /\ Len(P) \in Nat
  BY <1>1, ParamsTyped DEF IInv
<1> DEFINE v == Parsed(n)
           g == Setup_frame("main", v)
<1>4. DOMAIN v = 1 .. Len(P) /\ \A k \in 1 .. Len(P) : v[k] = Number(P[k].base, n[k])
  BY <1>2
<1>5. v = [k \in DOMAIN n |-> Bril!Number(prog["main"].params[k].base, n[k])]
  BY SameNames DEF Params
<1> HIDE DEF v, Parsed
<1>6. Shown(g, NoResult) = Bril!Enter("main", v)
  BY <1>1, <1>3, <1>4, Enters
<1>7. \A k \in DOMAIN n : n[k] \in Bril!Payload(v[k].base)
  <2> TAKE k \in DOMAIN n
  <2>1. v[k].base = P[k].base
    BY <1>2, <1>4 DEF Number
  <2> QED
    BY <1>2, <2>1, SameNames
<1>8. Activations' = <<Bril!Enter("main", v)>>
  <2>1. frames' = <<g>>
    BY <1>2 DEF v
  <2> HIDE DEF g
  <2>2. Len(frames') = 1 /\ frames'[1] = g
    BY <2>1
  <2>3. Result(frames', prog', ret_val', 1) = NoResult
    BY DEF Result
  <2>4. Activations' = [d \in 1 .. 1 |-> Shown(g, NoResult)]
    BY <2>2, <2>3, StackIs DEF Stack
  <2> QED
    BY <1>6, <2>4
<1>9. State = "start" /\ State' = "running"
  BY <1>1 DEF State
<1> HIDE DEF P
<1>10. n \in [1 .. Len(prog["main"].params) -> Inputs]
  BY <1>2 DEF P, Params
<1>11. \E w \in [1 .. Len(prog["main"].params) -> Inputs] :
         LET values == [k \in DOMAIN w |-> Bril!Number(prog["main"].params[k].base, w[k])] IN
         /\ \A k \in DOMAIN w : w[k] \in Bril!Payload(values[k].base)
         /\ Activations' = <<Bril!Enter("main", values)>>
  BY <1>5, <1>7, <1>8, <1>10
<1> QED
  BY <1>1, <1>9, <1>11 DEF Bril!Begin

\* The interpreter refuses to start where BrilSpec lets it.
LEMMA ThrowsRefines == ASSUME Regular(prog), StartThrows PROVE Bril!Refuse
<1>1. /\ status = "start" /\ Params("main") # <<>> /\ status' = "threw"
      /\ UNCHANGED <<prog, frames, ret_val, heap, out>>
  BY DEF StartThrows, Stop, Regular
<1>2. Activations' = Activations
  BY <1>1 DEF Activations, Wants, Ended, CallOf
<1>3. State = "start" /\ State' = "wrong"
  BY <1>1 DEF State
<1> QED
  BY <1>1, <1>2, <1>3 DEF Bril!Refuse, Params

\* The top two of a sequence replaced by one element, seen element by element.
Popped(s, t, n, x) ==
  /\ t = [d \in 1 .. n - 1 |-> t[d]] /\ t[n - 1] = x
  /\ \A d \in 1 .. n - 2 : t[d] = s[d]
\* That is what the pop in interpret_call does.
LEMMA PoppedIs ==
  ASSUME NEW T, NEW s \in Seq(T), NEW n \in Nat, Len(s) = n, n > 1, NEW x
  PROVE  Popped(s, Append(SubSeq(s, 1, n - 2), x), n, x)
<1> DEFINE m == n - 2
           t == SubSeq(s, 1, m)
<1>1. m \in Nat /\ \A d \in 1 .. m : s[d] \in T
  OBVIOUS
<1>e. m + 1 = n - 1
  OBVIOUS
<1> HIDE DEF m
<1>2. /\ SubSeq(s, 1, m) \in Seq(T)
      /\ Len(SubSeq(s, 1, m)) = IF 1 <= m THEN m - 1 + 1 ELSE 0
      /\ \A d \in 1 .. m - 1 + 1 : SubSeq(s, 1, m)[d] = s[1 + d - 1]
  BY <1>1, SubSeqProperties
<1>3. t \in Seq(T) /\ Len(t) = m /\ \A d \in 1 .. m : t[d] = s[d]
  BY <1>1, <1>2
<1>f. t = [d \in 1 .. m |-> t[d]]
  BY <1>3
<1> HIDE DEF t
<1>4. Append(t, x) = [d \in 1 .. m + 1 |-> IF d = m + 1 THEN x ELSE t[d]]
  BY <1>1, <1>3, <1>f
<1>5. /\ Append(t, x) = [d \in 1 .. m + 1 |-> Append(t, x)[d]]
      /\ Append(t, x)[m + 1] = x
      /\ \A d \in 1 .. m : Append(t, x)[d] = s[d]
  BY <1>1, <1>3, <1>4
<1> QED
  BY <1>5, <1>e DEF Popped, m, t

\* Two such sequences are equal.
LEMMA PoppedSame ==
  ASSUME NEW s, NEW t, NEW u, NEW n \in Nat, n > 1, NEW x,
         Popped(s, t, n, x), Popped(s, u, n, x)
  PROVE  t = u
<1>1. \A d \in 1 .. n - 1 : t[d] = u[d]
  <2> TAKE d \in 1 .. n - 1
  <2>1. d = n - 1 \/ d \in 1 .. n - 2
    OBVIOUS
  <2> QED
    BY <2>1 DEF Popped
<1> DEFINE m == n - 1
<1>2. t = [d \in 1 .. m |-> t[d]] /\ u = [d \in 1 .. m |-> u[d]]
  BY DEF Popped
<1> HIDE DEF m
<1> QED
  BY <1>1, <1>2 DEF m

\* The pop of a frame is the pop of an activation.
LEMMA StackPop ==
  ASSUME NEW s, NEW p, NEW r, NEW t, NEW n \in Nat, NEW g \in Frame,
         Waiting(s, p), Len(s) = n, n > 1, Popped(s, t, n, g)
  PROVE  /\ Waiting(t, p) /\ Len(t) = n - 1
         /\ Popped(Stack(s, p, r), Stack(t, p, r), n, Shown(g, Result(t, p, r, n - 1)))
<1> DEFINE A == Stack(s, p, r)
           B == Stack(t, p, r)
           m == n - 1
<1>1. s \in Seq(Frame) /\ (\A d \in 1 .. m : Waits(s[d], p)) /\ m \in Nat \ {0} /\ m - 1 = n - 2
  BY DEF Waiting
<1>2. t = [d \in 1 .. m |-> t[d]] /\ t[m] = g /\ \A d \in 1 .. m - 1 : t[d] = s[d]
  BY <1>1 DEF Popped
<1>d. \A d \in 1 .. m : s[d] \in Frame
  BY <1>1
<1> HIDE DEF m
<1>3. t \in Seq(Frame) /\ Len(t) = m
  <2>1. \A d \in 1 .. m : t[d] \in Frame
    <3> TAKE d \in 1 .. m
    <3>1. d = m \/ d \in 1 .. m - 1
      BY <1>1
    <3> QED
      BY <1>1, <1>2, <1>d, <3>1
  <2> QED
    BY <1>1, <1>2, <2>1
<1>4. Waiting(t, p)
  <2>1. \A d \in 1 .. m - 1 : Waits(t[d], p)
    <3> TAKE d \in 1 .. m - 1
    <3>1. d \in 1 .. m
      BY <1>1
    <3> QED
      BY <1>1, <1>2, <3>1
  <2> QED
    BY <1>3, <2>1 DEF Waiting
<1>5. Shape(A, s, p, r) /\ Shape(B, t, p, r)
  BY <1>4, StackShape
<1> HIDE DEF A, B
<1>6. \A d \in 1 .. m : A[d] = Shown(s[d], NoResult)
  BY <1>1, <1>5 DEF Shape, m
<1>7. /\ B = [d \in 1 .. m |-> B[d]] /\ B[m] = Shown(g, Result(t, p, r, m))
      /\ \A d \in 1 .. m - 1 : B[d] = Shown(t[d], NoResult)
  BY <1>1, <1>2, <1>3, <1>5 DEF Shape
<1>8. \A d \in 1 .. m - 1 : B[d] = A[d]
  <2> TAKE d \in 1 .. m - 1
  <2>1. d \in 1 .. m
    BY <1>1
  <2> QED
    BY <1>2, <1>6, <1>7, <2>1
<1> QED
  BY <1>1, <1>3, <1>4, <1>7, <1>8 DEF A, B, m, Popped

\* The end of a function's loop leaves its activation, and the caller's dest gets the
\* result its own callee returned.
LEMMA ReturnRefines == ASSUME IInv, Meaningful, Return PROVE Bril!Leave
<1> DEFINE n == Len(frames)
           A == Activations
           B == Activations'
           c == Caller
           g == Back(c)
           i == CallOf(c)
<1>1. /\ status = "running" /\ n \in Nat \ {0} /\ frames \in Seq(Frame)
      /\ UNCHANGED <<prog, ret_val, heap, out>> /\ Top \in Frame /\ Top.ip \in Nat
      /\ Top.ip >= Len(Instrs) /\ Waiting(frames, prog) /\ ~ Interpret_ret
  BY TopGood DEF Return, IInv, GoodStack, Waiting, Interpret_ret, Runs, Frame
<1>2. Top.ip = Len(Instrs) /\ Past(Top, prog)
  <2>1. Instrs = Body(Top, prog) /\ Len(Instrs) \in Nat /\ Top.ip <= Len(Body(Top, prog))
    BY <1>1, TopGood DEF GoodFrame
  <2> DEFINE m == Len(Instrs)
  <2>2. m \in Nat /\ Top.ip <= m /\ Top.ip >= m
    BY <1>1, <2>1
  <2> HIDE DEF m
  <2>3. Top.ip = m
    BY <1>1, <2>2
  <2> QED
    BY <1>1, <2>1, <2>3 DEF m, Past
<1>3. Shape(A, frames, prog, ret_val)
  BY <1>1, StackIs, StackShape
<1>4. /\ Len(A) = n /\ A = [d \in 1 .. n |-> A[d]]
      /\ A[n] = Shown(Top, Result(frames, prog, ret_val, n))
      /\ \A d \in 1 .. n - 1 : A[d] = Shown(frames[d], NoResult)
  BY <1>1, <1>3 DEF Shape, Top
<1> HIDE DEF A
<1>5. /\ Bril!Here.fn = Top.name /\ Bril!Here.pc = Top.ip
      /\ Bril!Here.result = Result(frames, prog, ret_val, n)
  BY <1>4 DEF Bril!Here, Shown, A
<1>6. Bril!Here.pc = Len(Bril!Body)
  BY <1>2, <1>5 DEF Bril!Body, Instrs
<1>7. State = "running"
  BY <1>1 DEF State
<1>8. CASE n = 1 /\ frames' = <<>> /\ status' = "done"
  <2>1. B = <<>>
    BY <1>8, StackIs DEF Stack
  <2>2. State' = "done"
    BY <1>8 DEF State
  <2>3. ~ Bril!Wanted
    BY <1>4, <1>8 DEF Bril!Wanted, A
  <2> QED
    BY <1>1, <1>4, <1>6, <1>7, <1>8, <2>1, <2>2, <2>3 DEF Bril!Leave, A
<1>9. CASE /\ n > 1
           /\ frames' = Append(SubSeq(frames, 1, n - 2), g)
           /\ UNCHANGED status
  <2>1. n - 1 \in 1 .. n - 1 /\ n - 1 \in 1 .. n
    BY <1>1, <1>9
  <2>2. c \in Frame /\ c.ip \in Nat /\ c = frames[n - 1]
    <3>1. c = frames[n - 1]
      BY DEF Caller
    <3>2. c \in Frame
      BY <1>1, <2>1, <3>1
    <3> HIDE DEF c
    <3> QED
      BY <3>1, <3>2 DEF Frame
  <2>3. Bril!Above = Shown(c, NoResult)
    <3>1. A[n - 1] = Shown(frames[n - 1], NoResult)
      BY <1>4, <2>1
    <3> QED
      BY <1>4, <2>2, <3>1 DEF Bril!Above, A
  <2>4. Bril!Site = i /\ (Bril!Wanted <=> i.dest # NoVar) /\ (Asks(c, prog) <=> i.dest # NoVar)
    <3>1. Bril!Above.fn = c.name /\ Bril!Above.pc = c.ip
      BY <2>3 DEF Shown
    <3>2. Bril!Site = i
      BY <3>1 DEF Bril!Site, CallOf
    <3> QED
      BY <1>4, <1>9, <3>2 DEF Bril!Wanted, A, Asks, Body, CallOf
  <2>5. Bril!Wanted => Bril!Here.result = ret_val /\ Bril!Here.result # Bril!NoResult
    <3>1. Bril!Wanted => Result(frames, prog, ret_val, n) = ret_val
      BY <1>2, <1>9, <2>2, <2>4 DEF Result, Top
    <3>2. ret_val # NoResult
      <4>1. ret_val.base \in BaseTypes
        BY DEF IInv, GoodValue, Value
      <4> QED
        BY <4>1 DEF NoResult, BaseTypes
    <3> QED
      BY <1>5, <3>1, <3>2, SameNames
  <2>6. Popped(frames, frames', n, g)
    BY <1>1, <1>9, PoppedIs
  <2>7. g \in Frame
    <3>1. frames' \in Seq(Frame)
      BY ReturnStep DEF IInv, GoodStack
    <3>2. frames' = [d \in 1 .. n - 1 |-> frames'[d]] /\ frames'[n - 1] = g
      BY <2>6 DEF Popped
    <3>3. Len(frames') = n - 1
      BY <1>1, <1>9, <3>1, <3>2
    <3> QED
      BY <2>1, <3>1, <3>2, <3>3
  <2> DEFINE x == IF Bril!Wanted
                  THEN [Bril!Above EXCEPT !.pc = @ + 1, !.env[Bril!Site.dest] = Bril!Here.result]
                  ELSE [Bril!Above EXCEPT !.pc = @ + 1]
  <2>8. Shown(g, NoResult) = x
    <3> DEFINE q == c.ip + 1
               w == IF i.dest = NoVar THEN c.variables
                    ELSE [c.variables EXCEPT ![i.dest] = ret_val]
    <3>1. g.ip = q /\ g.variables = w /\ g.name = c.name
      BY <2>2 DEF Back, Frame
    <3>2. Reads(Shown(g, NoResult), c.name, q, w)
      BY <3>1 DEF Reads, Shown
    <3>3. CASE Bril!Wanted
      <4>1. /\ Bril!Above.pc + 1 = q
            /\ [Bril!Above.env EXCEPT ![Bril!Site.dest] = Bril!Here.result] = w
        BY <2>3, <2>4, <2>5, <3>3 DEF Shown
      <4>2. x = [Bril!Above EXCEPT !.pc = q, !.env = w]
        BY <2>3, <3>3, <4>1 DEF Shown
      <4> HIDE DEF x, q, w
      <4>3. Rewrites(Bril!Above, x, q, w)
        BY <4>2 DEF Rewrites
      <4>4. Reads(Bril!Above, c.name, c.ip, c.variables)
        BY <2>3 DEF Reads, Shown
      <4>5. Reads(x, c.name, q, w)
        BY <4>3, <4>4, ShownSet
      <4> QED
        BY <3>2, <4>5 DEF Reads
    <3>4. CASE ~ Bril!Wanted
      <4>1. w = c.variables
        BY <2>4, <3>4
      <4>2. x = [Shown(c, NoResult) EXCEPT !.pc = q]
        BY <2>3, <3>4 DEF Shown
      <4> HIDE DEF q, w, x
      <4>3. [Shown(c, NoResult) EXCEPT !.pc = q] =
              [fn |-> c.name, pc |-> q, env |-> c.variables, result |-> NoResult]
        BY DEF Shown
      <4> QED
        BY <3>2, <4>1, <4>2, <4>3 DEF Reads
    <3> QED
      BY <3>3, <3>4
  <2> HIDE DEF g, x, c, i
  <2>9. /\ Len(frames') = n - 1
        /\ Popped(A, B, n, Shown(g, Result(frames', prog, ret_val, n - 1)))
    <3>1. A = Stack(frames, prog, ret_val) /\ B = Stack(frames', prog, ret_val)
      BY <1>1, StackIs DEF A
    <3>2. n \in Nat /\ Len(frames) = n /\ n > 1 /\ Waiting(frames, prog)
      BY <1>1, <1>9
    <3> HIDE DEF n, B
    <3>3. /\ Len(frames') = n - 1
          /\ Popped(Stack(frames, prog, ret_val), Stack(frames', prog, ret_val), n,
                    Shown(g, Result(frames', prog, ret_val, n - 1)))
      BY <2>6, <2>7, <3>2, StackPop
    <3> QED
      BY <3>1, <3>3
  <2>10. Result(frames', prog, ret_val, n - 1) = NoResult
    <3>1. frames' # <<>> /\ ~ Expected'
      BY <1>1, <1>9, <2>9, Quiet
    <3> QED
      BY <1>1, <2>9, <3>1, NotExpected
  <2>11. B = Append(SubSeq(A, 1, n - 2), x)
    <3> DEFINE T == {A[d] : d \in 1 .. n}
    <3>1. A \in Seq(T)
      BY <1>1, <1>4
    <3> HIDE DEF T
    <3>2. Popped(A, Append(SubSeq(A, 1, n - 2), x), n, x)
      BY <1>1, <1>4, <1>9, <3>1, PoppedIs
    <3>3. Popped(A, B, n, x)
      BY <2>8, <2>9, <2>10
    <3> QED
      BY <1>1, <1>9, <3>2, <3>3, PoppedSame
  <2>12. State' = State
    BY <1>9 DEF State
  <2>13. Len(Activations) = n /\ n # 1
    BY <1>1, <1>4, <1>9 DEF A
  <2>14. B = Append(SubSeq(Activations, 1, Len(Activations) - 2), x)
    BY <2>11, <2>13 DEF A
  <2> QED
    BY <1>1, <1>6, <1>7, <2>5, <2>12, <2>13, <2>14 DEF Bril!Leave, x
<1> QED
  BY <1>8, <1>9 DEF Return

(***************************************************************************)
(* The refinement of BrilSpec.                                             *)
(***************************************************************************)
\* An unsupported instruction has no meaning.
LEMMA UnsupportedStops == ASSUME Meaningful, Interpret_unsupported PROVE FALSE
BY NotStopped DEF Interpret_unsupported, Runs

\* Every step to which Bril gives a meaning is the step of BrilSpec it should be.
LEMMA StepRefines ==
  ASSUME IInv, Regular(prog), Next, Meaningful
  PROVE  Bril!Next
<1>1. CASE Start
  BY <1>1, StartRefines DEF Bril!Next
<1>2. CASE StartThrows
  BY <1>2, ThrowsRefines DEF Bril!Next
<1>3. CASE Return
  BY <1>3, ReturnRefines DEF Bril!Next
<1>4. CASE Interpret_const
  BY <1>4, ConstRefines DEF Bril!Next
<1>5. CASE Interpret_binop
  BY <1>5, BinopRefines DEF Bril!Next
<1>6. CASE Interpret_not
  BY <1>6, NotRefines DEF Bril!Next
<1>7. CASE Interpret_id
  BY <1>7, IdRefines DEF Bril!Next
<1>8. CASE Interpret_nop
  BY <1>8, NopRefines DEF Bril!Next
<1>9. CASE Interpret_print
  BY <1>9, PrintRefines DEF Bril!Next
<1>10. CASE Interpret_unsupported
  BY <1>10, UnsupportedStops
<1>11. CASE Interpret_jmp
  BY <1>11, JmpRefines DEF Bril!Next
<1>12. CASE Interpret_br
  BY <1>12, BrRefines DEF Bril!Next
<1>13. CASE Interpret_label
  BY <1>13, LabelRefines DEF Bril!Next
<1>14. CASE Interpret_call
  BY <1>14, CallRefines DEF Bril!Next
<1>15. CASE Interpret_ret
  BY <1>15, RetRefines DEF Bril!Next
<1>16. CASE Interpret_alloc
  BY <1>16, AllocRefines DEF Bril!Next
<1>17. CASE Interpret_free
  BY <1>17, FreeRefines DEF Bril!Next
<1>18. CASE Interpret_store
  BY <1>18, StoreRefines DEF Bril!Next
<1>19. CASE Interpret_load
  BY <1>19, LoadRefines DEF Bril!Next
<1>20. CASE Interpret_ptradd
  BY <1>20, PtraddRefines DEF Bril!Next
<1> QED
  BY <1>1, <1>2, <1>3, <1>4, <1>5, <1>6, <1>7, <1>8, <1>9, <1>10, <1>11, <1>12, <1>13,
     <1>14, <1>15, <1>16, <1>17, <1>18, <1>19, <1>20 DEF Next

\* Where nothing changes, BrilSpec sees no change.
LEMMA StutterRefines == ASSUME UNCHANGED vars PROVE UNCHANGED Bril!vars
BY DEF vars, Bril!vars, Activations, State, Wants, Ended, CallOf

\* The initial states are BrilSpec's.
LEMMA InitRefines == Init => Bril!Init
<1> SUFFICES ASSUME Init PROVE Bril!Init
  OBVIOUS
<1>1. prog \in Programs /\ frames = <<>> /\ heap = <<>> /\ out = <<>> /\ status = "start"
  BY DEF Init
<1>2. Activations = <<>>
  BY <1>1, StackIs DEF Stack
<1>3. State = "start"
  BY <1>1 DEF State
<1> QED
  BY <1>1, <1>2, <1>3 DEF Bril!Init

\* The program is the one the interpreter was started with.
LEMMA SameProgram == Spec => [](prog \in Programs)
<1>1. Init => prog \in Programs
  BY DEF Init
<1>2. prog \in Programs /\ [Next]_vars => (prog \in Programs)'
  <2> SUFFICES ASSUME Next \/ UNCHANGED vars PROVE prog' = prog
    OBVIOUS
  <2> QED
    BY DEF vars, Next, Start, StartThrows, Return, Interpret_const, Interpret_binop,
           Interpret_not, Interpret_id, Interpret_nop, Interpret_print,
           Interpret_unsupported, Interpret_jmp, Interpret_br, Interpret_label,
           Interpret_call, Interpret_ret, Interpret_alloc, Interpret_free,
           Interpret_store, Interpret_load, Interpret_ptradd, Jmp_to_label, Stop
<1> QED
  BY <1>1, <1>2, PTL DEF Spec

\* Of regular programs, every step of the interpreter to which Bril gives a meaning
\* is a step of BrilSpec: jumps go on behind their label wherever it stands, calls
\* bind their arguments, and a call's dest gets the value its own callee returned,
\* for every program, every depth of recursion and every heap.
THEOREM MeaningfulSteps ==
  ASSUME \A p \in Programs : Regular(p)
  PROVE  Spec => StepsAreBril
<1>1. IInv /\ prog \in Programs /\ [Next]_vars =>
        [Meaningful => Bril!Next \/ UNCHANGED Bril!vars]_vars
  BY StepRefines, StutterRefines
<1> QED
  BY <1>1, Inductive, SameProgram, PTL DEF Spec, StepsAreBril

\* The interpreter implements BrilSpec on regular programs as long as its steps
\* have a meaning there.
THEOREM InterpreterImplementsBril ==
  ASSUME \A p \in Programs : Regular(p)
  PROVE  Spec /\ [][Meaningful]_vars => ImplementsBril
<1>1. IInv /\ prog \in Programs /\ [Next]_vars /\ [Meaningful]_vars => [Bril!Next]_(Bril!vars)
  BY StepRefines, StutterRefines
<1> QED
  BY <1>1, InitRefines, Inductive, SameProgram, PTL DEF Spec, ImplementsBril, Bril!Spec
==========================================================================
