--------------------------- MODULE JitProperties ---------------------------
(***************************************************************************)
(* What the code that simple-jit makes should compute: the meaning of a    *)
(* straight-line Bril program, and the properties of JitCompile.           *)
(***************************************************************************)
EXTENDS JitCompile

(***************************************************************************)
(* The meaning of the first n instructions: the variables, what was        *)
(* printed, the value returned.  kept are the variables whose value the    *)
(* compiled code is held to: assigned, not from an undefined division nor  *)
(* from a constant wider than an immediate, not under a name that shares   *)
(* its register with a later one, and not in a caller-saved register that  *)
(* some print neither moved nor moved to.                                  *)
(***************************************************************************)
Start == [env |-> [n \in Names |-> 0], kept |-> {}, out |-> << >>,
          ret |-> [known |-> FALSE, num |-> 0], over |-> FALSE]

Assigned(s, d, v, sure) ==
  [s EXCEPT !.env[d] = v,
            !.kept = {n \in @ : Index[n] # Index[d]}
                     \union (IF sure /\ Index[d] # 31 THEN {d} ELSE {})]

Sheltered(args) ==
  UNION {{k, Index[args[k]]} : k \in {k \in DOMAIN args : Index[args[k]] # k}}

Meaning(op, a, b) ==
  IF op = "add" THEN Wrap(a + b) ELSE IF op = "sub" THEN Wrap(a - b)
  ELSE IF op = "mul" THEN Wrap(a * b) ELSE IF b = 0 THEN 0
  ELSE Wrap(CHOOSE q \in -(Abs(a)) .. Abs(a) : \* truncated towards zero
              LET r == a - q * b IN
              Abs(r) < Abs(b) /\ (r = 0 \/ (r < 0) = (a < 0)))

Known(s, n) == [known |-> n \in s.kept, num |-> s.env[n]]

Step(s, ins) ==
  IF s.over THEN s
  ELSE IF ins.op = "const" THEN Assigned(s, ins.dest, ins.value, ins.value \in -U16 .. U16 - 1)
  ELSE IF ins.op = "print" THEN
    [s EXCEPT !.out = Append(@, [k \in DOMAIN ins.args |-> Known(s, ins.args[k])]),
              !.kept = {n \in @ : Index[n] \in CallerSaved
                                    => Index[n] \in Sheltered(ins.args)}]
  ELSE IF ins.op = "ret" THEN
    [s EXCEPT !.over = TRUE,
              !.ret = IF ins.args \in Seq(Names) /\ Len(ins.args) = 1
                      THEN Known(s, ins.args[1]) ELSE @]
  ELSE LET a == s.env[ins.args[1]]
           b == s.env[ins.args[2]] IN
       Assigned(s, ins.dest, Meaning(ins.op, a, b),
                /\ ins.args[1] \in s.kept /\ ins.args[2] \in s.kept
                /\ ins.op = "div" => b # 0)

After(n) ==
  LET state[k \in 0 .. Len(prog)] == IF k = 0 THEN Start ELSE Step(state[k - 1], prog[k])
  IN state[n]

SameOutput(expected) ==
  /\ Len(out) = Len(expected)
  /\ \A j \in DOMAIN out :
       /\ Len(out[j]) = Len(expected[j])
       /\ \A k \in DOMAIN out[j] :
            expected[j][k].known => out[j][k] = Low32(expected[j][k].num)

-----------------------------------------------------------------------------
Bytes == 4 * Len(code)

\* Each word the emitters pushed is an instruction: no field of it spills into
\* the bits that tell the instructions apart.
CodeDecodes == \A w \in DOMAIN code : Op(code[w]) # "udf"

\* Between two instructions of the program the machine holds its variables,
\* except those a print has clobbered: the pushes, loads and pops of print put
\* every argument, repeated and permuted ones too, where print_int looks for it
\* and back, and the stack is level again.  When the code returns, it has printed
\* and returns what the program means.
Agrees ==
  /\ \A n \in DOMAIN starts :
       status = "run" /\ pc = starts[n] + 1 =>
         LET s == After(n - 1) IN
         /\ \A v \in s.kept : reg[Index[v]] = s.env[v]
         /\ SameOutput(s.out)
         /\ sp = 0
  /\ status = "done" =>
       LET s == After(Len(prog)) IN
       /\ SameOutput(s.out)
       /\ s.ret.known => reg[0] = s.ret.num

\* The convention of calls, on both sides: print_int is called with the stack
\* aligned and the return address saved, and jit_bril gets the stack and the
\* callee-saved registers back as they were, but for those the program names as
\* variables.
ConventionKept ==
  /\ status = "run" /\ pc \in DOMAIN code /\ Op(code[pc]) = "blr" =>
       sp % 16 = 0 /\ sp < 0 /\ 1 \in DOMAIN stack
  /\ status = "done" =>
       /\ sp = 0
       /\ \A r \in 19 .. 30 :
            (\A n \in DOMAIN prog : Index[prog[n].dest] # r) => reg[r] = Host[r]

\* Main has no label and ends in ret, names no register that ret needs, prints
\* something where it prints, and its code is within SIZE.  It prints only where
\* SP need not be aligned between the pushes, and has the operands that a build
\* without assertions does not ask for.
Regular ==
  /\ prog # << >> /\ prog[Len(prog)].op = "ret"
  /\ \A n \in DOMAIN prog : /\ prog[n].op # Unnamed
                            /\ Index[prog[n].dest] # 30
                            /\ prog[n].op = "print" =>
                                 prog[n].args # << >> /\ ~ build.checksSP
                            /\ prog[n].op \in {"add", "sub", "mul", "div"} =>
                                 build.asserts \/ Len(prog[n].args) > 1
  /\ 2 * Bytes <= PageBytes

\* Such a program is compiled, or refused by an exception or an assertion; no
\* signal and no undefined behaviour meets it.
Regularly == status \in {"fault", "undef"} => ~ Regular

=============================================================================
