-------------------------- MODULE TranslatedProgram --------------------------
(***************************************************************************)
(* The QIR program and its translation, run side by side.  Once build_program *)
(* has returned, the entry point is run by the rules of LLVM, a basic block   *)
(* per step, and the emitted program by those of OpenQASM as far as the same  *)
(* quantum operations take it, on the same measurement outcomes.             *)
(*                                                                         *)
(* The LLVM side is external: what the instructions mean to the producers    *)
(* of QIR.  An iN value is a number in 0..2^N-1; the width of i32 and i64 is *)
(* the bound Width, large enough that no input wraps an OpenQASM int.        *)
(***************************************************************************)
EXTENDS Pipeline, SequencesExt

CONSTANTS
  Width,      \* the width of i32 and i64
  MaxBlocks,  \* bound: blocks run before the pair is stopped
  MaxSteps    \* bound: steps the emitted program takes meanwhile, for one block

ASSUME WidthAssumption == Width \in Nat \ {0} /\ MaxBlocks \in Nat /\ MaxSteps \in Nat

VARIABLES
  run,      \* "before", "running", "done"
  ran,      \* number of blocks run
  source,   \* the LLVM machine: registers, slots, results, events of the last block
  target    \* the OpenQASM machine: statements left, bits, int variables, events

runVars == <<run, ran, source, target>>

\* What a quantum statement does: gate g under so many controls, on the scalars
\* and qubits listed; or a measurement or reset.
Event(g, controls, adjoint, on) ==
  [gate |-> g, controls |-> controls, adjoint |-> adjoint, on |-> on]

Measured(q, c) == Event("measure", 0, FALSE, <<q, c>>)
WasReset(q)    == Event("reset", 0, FALSE, <<q>>)

\* The controlled gates that have a name of their own, in QIR and in OpenQASM.
Controlled ==
  [cnot |-> <<"x", 1>>, cx |-> <<"x", 1>>, ccnot |-> <<"x", 2>>, ccx |-> <<"x", 2>>,
   cy |-> <<"y", 1>>, cz |-> <<"z", 1>>, cswap |-> <<"swap", 1>>,
   cphaseshift |-> <<"phaseshift", 1>>]
Meaning(g) == IF g \in DOMAIN Controlled THEN Controlled[g] ELSE <<g, 0>>

-----------------------------------------------------------------------------
(* OpenQASM: c holds the bits, v the int variables; a Boolean is 0 or 1.   *)

Truth(n) == n # 0
Number(b) == IF b THEN 1 ELSE 0

Apply(fn, x, y) ==
  CASE fn = "+" -> x + y  [] fn = "-" -> x - y  [] fn = "*" -> x * y
    [] fn = "==" -> Number(x = y)   [] fn = "!=" -> Number(x # y)
    [] fn = "<"  -> Number(x < y)   [] fn = "<=" -> Number(x <= y)
    [] fn = ">"  -> Number(x > y)   [] fn = ">=" -> Number(x >= y)
    [] fn = "&&" -> Number(Truth(x) /\ Truth(y))
    [] fn = "||" -> Number(Truth(x) \/ Truth(y))

RECURSIVE Eval(_, _, _)
Eval(x, c, v) ==
  CASE x.e = "integer" -> x.integer
    [] x.e = "boolean" -> Number(x.boolean)
    [] x.e = "float"   -> x.float
    [] x.e = "bit"     -> c[x.bit]
    [] x.e = "var"     -> v[x.var + 1]
    [] x.e = "not"     -> Number(~Truth(Eval(x.of, c, v)))
    [] x.e = "bin"     -> Apply(x.fn, Eval(x.left, c, v), Eval(x.right, c, v))

Did(m, event) == [m EXCEPT !.events = Append(@, event)]

\* The next of the outcomes still to come is written to bit c.
MeasureInto(m, q, c) ==
  Did([m EXCEPT !.c[c] = IF m.outcomes = <<>> THEN 0 ELSE Head(m.outcomes),
                !.outcomes = IF @ = <<>> THEN @ ELSE Tail(@)], Measured(q, c))

\* One statement.
Execute(m, st) ==
  CASE st.stmt = "measure" -> MeasureInto(m, st.qubit, st.bit)
    [] st.stmt = "reset"   -> Did(m, WasReset(st.qubit))
    [] st.stmt = "assign"  -> [m EXCEPT !.v[st.var + 1] = Eval(st.value, m.c, m.v)]
    [] st.stmt = "gate"    ->
         Did(m, Event(Meaning(st.gate)[1], Meaning(st.gate)[2], st.adjoint,
           [n \in DOMAIN st.operands |->
              IF st.operands[n].operand = "qubit" THEN st.operands[n].qubit
              ELSE Eval(st.operands[n].scalar, m.c, m.v)]))

\* What is emitted for block n, and its condition.
Lowered(n) == lowerings[CHOOSE j \in DOMAIN lowerings : lowerings[j].name = n]
Holds(m, n) == \A x \in Lowered(n).condition : Truth(Eval(x, m.c, m.v))

\* The next of the statements left: a block's own, an if or a while.
StepEmitted(m) ==
  LET s    == Head(m.rest)
      Then(k) == [m EXCEPT !.rest = k \o Tail(@)]
  IN CASE s.kind = "code"  -> FoldLeft(Execute, Then(<<>>), Lowered(s.block).statements)
       [] s.kind = "if"    -> Then(IF Holds(m, s.cond) THEN s.ifBlock ELSE s.elseBlock)
       [] s.kind = "while" -> Then(IF Holds(m, s.cond) = s.negated THEN <<>> ELSE Append(s.body, s))

\* The program goes on until it has done as much as is due, or, at last, to its end.
GoOn(m, due, toEnd) ==
  FoldLeft(LAMBDA acc, k : IF acc.rest # <<>> /\ (toEnd \/ Len(acc.events) < due)
                             THEN StepEmitted(acc) ELSE acc,
           m, [k \in 1..MaxSteps |-> k])

-----------------------------------------------------------------------------
(* LLVM: env holds the SSA values, mem the stack slots, c the results.     *)

WidthOf(ty) == IF ty = "i1" THEN 1 ELSE Width
Signed(n, w) == IF n >= 2 ^ (w - 1) THEN n - 2 ^ w ELSE n

Value(env, op, w) ==
  CASE op.op = "int"    -> op.int % 2 ^ w
    [] op.op = "bool"   -> Number(op.bool)
    [] op.op = "float"  -> op.float
    [] op.op = "ptr"    -> op.index
    [] op.op = "i8null" -> 0
    [] op.op = "ssa"    -> env[op.ssa]

Compare(pred, x, y, w) ==
  LET sx == Signed(x, w)
      sy == Signed(y, w)
  IN CASE pred = "eq"  -> x = y    [] pred = "ne"  -> x # y
       [] pred = "ult" -> x < y    [] pred = "ule" -> x <= y
       [] pred = "ugt" -> x > y    [] pred = "uge" -> x >= y
       [] pred = "slt" -> sx < sy  [] pred = "sle" -> sx <= sy
       [] pred = "sgt" -> sx > sy  [] pred = "sge" -> sx >= sy

Logic(fn, x, y) ==
  CASE fn = "xor" -> Number(x # y)
    [] fn = "and" -> Number(x = 1 /\ y = 1)
    [] fn = "or"  -> Number(x = 1 \/ y = 1)

Wrapped(fn, x, y, w) ==
  (CASE fn = "add" -> x + y [] fn = "sub" -> x - y [] fn = "mul" -> x * y) % 2 ^ w

Set(m, k, v) == [m EXCEPT !.env = Put(@, k, v)]

\* Where QIR and Braket disagree on the name of an uncontrolled gate.
QirName == [rxx |-> "xx", ryy |-> "yy", rzz |-> "zz", phasedx |-> "prx"]

\* A call: measurement, reset and readout by name, the generalized controlled call
\* by its operands, any other __quantum__qis__ callee the gate of that name.
ExecuteCall(m, i) ==
  LET arg  == [n \in DOMAIN i.args |-> IF i.args[n].op = "global" THEN i.args[n]
                                        ELSE Value(m.env, i.args[n], Width)]
      name == i.callee[2]
  IN CASE name \in {"mz", "m"} -> MeasureInto(m, arg[1], arg[2])
       [] name = "mresetz"     -> Did(MeasureInto(m, arg[1], arg[2]), WasReset(arg[1]))
       [] name = "reset"       -> Did(m, WasReset(arg[1]))
       [] name = "read_result" -> Set(m, i.result, m.c[arg[1]])
       [] name = "generalizedInvokeWithRotationsControlsTargets" ->
            Did(m, Event(i.args[5].global[2], arg[3], arg[2] # 0,
                         SubSeq(arg, 6, Len(arg))))
       [] i.callee[1] = "qis" /\ i.callee[3] \in {"body", "adj"}
          /\ name \notin DOMAIN SpecialBuilder ->
            LET means == Meaning(IF name \in DOMAIN QirName THEN QirName[name] ELSE name)
            IN  Did(m, Event(means[1], means[2], i.callee[3] = "adj", arg))
       [] OTHER -> m

\* One instruction; a terminator ends the block, and phis read the registers as
\* they were on entry.
ExecuteInst(m, i) ==
  LET V(op, w) == Value(m.env, op, w) IN
  IF m.ended THEN m ELSE
  CASE i.kind = "call"   -> ExecuteCall(m, i)
    [] i.kind = "icmp"   -> Set(m, i.result, Number(Compare(i.pred,
                              V(i.lhs, WidthOf(i.ty)), V(i.rhs, WidthOf(i.ty)),
                              WidthOf(i.ty))))
    [] i.kind = "binary" -> Set(m, i.result, Logic(i.fn, V(i.lhs, 1), V(i.rhs, 1)))
    [] i.kind = "arith"  -> Set(m, i.result, Wrapped(i.fn, V(i.lhs, WidthOf(i.ty)),
                              V(i.rhs, WidthOf(i.ty)), WidthOf(i.ty)))
    [] i.kind = "select" -> Set(m, i.result, IF V(i.cond, 1) = 1
                              THEN V(i.lhs, WidthOf(i.ty)) ELSE V(i.rhs, WidthOf(i.ty)))
    [] i.kind = "phi"    -> Set(m, i.result,
                              LET n == CHOOSE n \in DOMAIN i.incomings :
                                         i.incomings[n].pred = m.from
                              IN  Value(m.entryEnv, i.incomings[n].value, WidthOf(i.ty)))
    [] i.kind \in {"zext", "inttoptr"} ->
         Set(m, i.result, IF i.kind = "zext" THEN m.env[i.src] ELSE V(i.src, Width))
    [] i.kind = "alloca" -> Set(m, i.result, <<i.result, 0>>)
    [] i.kind = "alias"  -> Set(m, i.result,
                              <<m.env[i.src][1], m.env[i.src][2] + i.offset>>)
    [] i.kind = "store"  -> [m EXCEPT !.mem = Put(@, m.env[i.ptr], V(i.value, Width))]
    [] i.kind = "load"   -> Set(m, i.result, m.mem[m.env[i.ptr]])
    [] i.kind = "br"     -> [m EXCEPT !.at = i.target, !.ended = TRUE]
    [] i.kind = "brcond" -> [m EXCEPT !.ended = TRUE,
                               !.at = i.targets[IF V(i.cond, 1) = 1 THEN 1 ELSE 2]]
    [] i.kind = "ret"    -> [m EXCEPT !.at = "", !.ended = TRUE]
    [] OTHER -> m

-----------------------------------------------------------------------------
(* The pair.                                                               *)

Position(name) == CHOOSE n \in DOMAIN module.blocks : CanonicalName(n) = name

\* A bit that was never measured reads 0 in both; no input reads one.
NoBits == [c \in 0..symbols.maxResult |-> 0]

InitialInts == FoldLeft(LAMBDA v, x : Append(v, Eval(x, NoBits, v)), <<>>, ints)

PairInit ==
  /\ PipeInit
  /\ run = "before" /\ ran = 0
  /\ source = <<>> /\ target = <<>>

Translate == PipeNext /\ run = "before" /\ UNCHANGED runVars

Start ==
  /\ status = "translated" /\ run = "before"
  /\ run' = "running"
  /\ source' = [at |-> Entry, from |-> "", env |-> <<>>, entryEnv |-> <<>>,
                mem |-> <<>>, c |-> NoBits, outcomes |-> <<>>, events |-> <<>>,
                ended |-> FALSE]
  /\ target' = [rest |-> body, c |-> NoBits, v |-> InitialInts,
                outcomes |-> <<>>, events |-> <<>>]
  /\ UNCHANGED <<vars, cfgVars, ran>>

IsMeasurement(i) == i.kind = "call" /\ i.callee[2] \in {"m", "mz", "mresetz"}

Done(m) == m.at = ""

RunBlock ==
  LET insts == module.blocks[Position(source.at)].insts
  IN
  /\ run = "running" /\ ~Done(source) /\ ran < MaxBlocks
  /\ \E outcomes \in [1..Len(SelectSeq(insts, IsMeasurement)) -> {0, 1}] :
       /\ source' = [FoldLeft(ExecuteInst,
                       [source EXCEPT !.entryEnv = source.env, !.ended = FALSE, !.at = "",
                                      !.events = <<>>, !.outcomes = outcomes], insts)
                     EXCEPT !.from = source.at]
       /\ target' = GoOn([target EXCEPT !.events = <<>>, !.outcomes = outcomes],
                         Len(source'.events), Done(source'))
  /\ ran' = ran + 1
  /\ run' = IF source'.events = target'.events THEN "running" ELSE "done"
  /\ UNCHANGED <<vars, cfgVars>>

PairNext == Translate \/ Start \/ RunBlock

PairSpec == PairInit /\ [][PairNext]_<<vars, cfgVars, runVars>>

-----------------------------------------------------------------------------
\* The emitted program does what the QIR program does: on the same measurement
\* outcomes it applies the same gates to the same qubits with the same angles,
\* measures into the same bits and ends where the entry point returns.  The
\* value of each SSA name is computed at its definition by LLVM, and by the emitted
\* program wherever the bound expression was inlined, after the graph was
\* restructured.
SameBehaviour ==
  run # "before" =>
    /\ source.events = target.events
    /\ Done(source) => target.rest = <<>>
=============================================================================
