---------------------------- MODULE CallLowering ----------------------------
(***************************************************************************)
(* Lowering of call instructions: the builder registry of profile.rs and    *)
(* the builders of builders.rs.  A lowering returns the outcomes           *)
(* [symbols, stmts] of the call: one, or none where it is an error.        *)
(***************************************************************************)
EXTENDS SymbolTable

(* OpenQASM statements.  A gate keeps its scalars and its qubits in one     *)
(* sequence of operands; the printed form lists the scalars first.         *)

QubitOperand(q)  == [operand |-> "qubit", qubit |-> q]
ScalarOperand(x) == [operand |-> "scalar", scalar |-> x]

Gate(name, adjoint, operands) ==
  [stmt |-> "gate", gate |-> name, adjoint |-> adjoint, operands |-> operands]
Measure(q, c)    == [stmt |-> "measure", qubit |-> q, bit |-> c]
Reset(q)         == [stmt |-> "reset", qubit |-> q]
Assign(k, x)     == [stmt |-> "assign", var |-> k, value |-> x]

QubitsIn(operands) ==
  {x.qubit : x \in {x \in operands : x.operand = "qubit"}}

\* The expressions a statement evaluates.
ExpressionsOf(st) ==
  CASE st.stmt = "gate"   -> {x.scalar : x \in {x \in Listed(st.operands) :
                                                  x.operand = "scalar"}}
    [] st.stmt = "assign" -> {st.value}
    [] OTHER              -> {}
QubitsOf(st) ==
  CASE st.stmt = "gate" -> QubitsIn(Listed(st.operands))
    [] st.stmt \in {"measure", "reset"} -> {st.qubit}
    [] OTHER -> {}
BitsOf(st) == UNION ({x.bits : x \in ExpressionsOf(st)}
                       \cup {IF st.stmt = "measure" THEN {st.bit} ELSE {}})
VarsOf(st) == UNION ({x.vars : x \in ExpressionsOf(st)}
                       \cup {IF st.stmt = "assign" THEN {st.var} ELSE {}})

-----------------------------------------------------------------------------
(* base_profile.                                                           *)

GateName ==
  [h |-> "h", x |-> "x", y |-> "y", z |-> "z", s |-> "s", t |-> "t",
   cnot |-> "cnot", cx |-> "cnot", cy |-> "cy", cz |-> "cz", swap |-> "swap",
   rx |-> "rx", ry |-> "ry", rz |-> "rz", rxx |-> "xx", ryy |-> "yy",
   rzz |-> "zz", ccx |-> "ccnot", ccnot |-> "ccnot", phasedx |-> "prx"]

SpecialBuilder ==
  [mz |-> "measurement", m |-> "measurement", mresetz |-> "mresetz",
   reset |-> "reset", read_result |-> "read_result"]

Recorders ==
  {"result_record_output", "array_record_output", "tuple_record_output",
   "integer_record_output", "int_record_output", "bool_record_output",
   "double_record_output", "initialize"}

GateBuilder(name, adjoint) ==
  [builder |-> "gate", gate |-> name, adjoint |-> adjoint]

\* get_builder: an exact name, or for the llvm family a registered prefix.
BuilderOf(callee) ==
  CASE callee[1] = "qis" /\ callee[3] = "body" /\ callee[2] \in DOMAIN GateName ->
         {GateBuilder(GateName[callee[2]], FALSE)}
    [] callee[1] = "qis" /\ callee[3] = "adj" /\ callee[2] \in {"s", "t"} ->
         {GateBuilder(callee[2], TRUE)}
    [] callee[1] = "qis" /\ callee[3] = "body"
         /\ callee[2] \in DOMAIN SpecialBuilder ->
         {[builder |-> SpecialBuilder[callee[2]]]}
    [] callee = <<"rt", "read_result", "">> -> {[builder |-> "read_result"]}
    [] callee = <<"", "generalizedInvokeWithRotationsControlsTargets", "">> ->
         {[builder |-> "controlled"]}
    [] \/ callee[1] = "rt" /\ callee[2] \in Recorders /\ callee[3] = ""
       \/ callee \in {<<"", "malloc", "">>, <<"", "free", "">>}
       \/ callee[1] = "llvm" /\ callee[2] = "memcpy" ->
         {[builder |-> "noop"]}
    [] OTHER -> {}

\* canonicalize_opaque_ptrs: what a bare ptr in position n stands for.
Retyped(builder, params) ==
  LET pointee(n) ==
        CASE builder \in {"gate", "reset"} -> "Qubit"
          [] builder \in {"measurement", "mresetz"} /\ n = 1 -> "Qubit"
          [] builder \in {"measurement", "mresetz"} /\ n = 2 -> "Result"
          [] builder = "read_result" -> "Result"
          [] OTHER -> "ptr"
  IN  [n \in DOMAIN params |->
         IF params[n] = "ptr" THEN pointee(n) ELSE params[n]]

-----------------------------------------------------------------------------
(* Operands.                                                               *)

\* resolve_qubit_operand and resolve_result_operand find the index alike.
ResolveIndex(s, op) ==
  CASE op.op = "ptr" -> {op.index}
    [] op.op = "ssa" -> LookupPtrIndex(s, op.ssa)
    [] OTHER -> {}

\* resolve_scalar_operand
ResolveScalar(s, op) ==
  IF op.op = "ssa" THEN LookupSsa(s, op.ssa) ELSE ConstantExpression(op)

ResolveArgument(s, op, ty) ==
  IF ty = "Qubit" THEN {QubitOperand(q) : q \in ResolveIndex(s, op)}
                  ELSE {ScalarOperand(x) : x \in ResolveScalar(s, op)}

Outcome(s, stmts) == [symbols |-> s, stmts |-> stmts]

\* One gate application whose n-th operand is the member of choices[n], if every
\* operand has one.
ApplyGate(s, name, adjoint, choices) ==
  LET operands == [n \in DOMAIN choices |-> CHOOSE x \in choices[n] : TRUE]
      used     == UNION {QubitsIn(choices[n]) : n \in DOMAIN choices}
  IN  IF \E n \in DOMAIN choices : choices[n] = {} THEN {}
      ELSE {Outcome(t, <<Gate(name, adjoint, operands)>>) : t \in RecordQubits(s, used)}

-----------------------------------------------------------------------------
(* The builders.  params is the retyped signature.                         *)

\* build_gate
BuildGate(s, b, params, args) ==
  ApplyGate(s, b.gate, b.adjoint,
            [n \in DOMAIN args |-> ResolveArgument(s, args[n], params[n])])

\* build_measurement, and build_measure_and_reset with the reset it adds.
BuildMeasurement(s, params, args, andReset) ==
  IF params # <<"Qubit", "Result">> THEN {}
  ELSE UNION {{Outcome(RecordResult(t, c),
                 IF andReset THEN <<Measure(q, c), Reset(q)>> ELSE <<Measure(q, c)>>) :
                 t \in RecordQubits(s, {q})} :
                q \in ResolveIndex(s, args[1]), c \in ResolveIndex(s, args[2])}

\* build_reset
BuildReset(s, params, args) ==
  IF params # <<"Qubit">> THEN {}
  ELSE UNION {{Outcome(t, <<Reset(q)>>) : t \in RecordQubits(s, {q})} :
                q \in ResolveIndex(s, args[1])}

\* The ReadResult arm: the result is bound to the bit, not to its value.
BuildReadResult(s, params, args, result) ==
  IF params # <<"Result">> THEN {}
  ELSE {Outcome(IF result = NoResult THEN RecordResult(s, c)
                ELSE RecordSsa(RecordResult(s, c), result, Bit(c)), <<>>) :
          c \in ResolveIndex(s, args[1])}

\* resolve_controlled_gate_name
ControlledGate(op, controls, targets) ==
  CASE op = "x" /\ controls = 1 /\ targets = 1    -> {"cnot"}
    [] op = "x" /\ controls = 2 /\ targets = 1    -> {"ccnot"}
    [] op = "y" /\ controls = 1 /\ targets = 1    -> {"cy"}
    [] op = "z" /\ controls = 1 /\ targets = 1    -> {"cz"}
    [] op = "swap" /\ controls = 1 /\ targets = 2 -> {"cswap"}
    [] op = "phaseshift" /\ controls = 1 /\ targets = 1 -> {"cphaseshift"}
    [] OTHER -> {}

\* The fixed operands numRotations, adjointFlag, numControls, numTargets and
\* innerFn, and as many qubits after them as the two counts say.  A sum of the
\* counts that is no i64 wraps to a number no operand list is as long as.
ControlledCallFits(sig, args) ==
  /\ sig.variadic
  /\ Len(sig.params) > 4
  /\ \A n \in 1..4 : sig.params[n] = "i64"
  /\ sig.params[5] \in {"i8", "ptr"}
  /\ Len(args) >= 5
  /\ \A n \in 1..4 : args[n].op = "int" /\ FitsI64(args[n].int)
  /\ args[1].int = 0 /\ args[3].int >= 0 /\ args[4].int >= 0
  /\ FitsI64(args[3].int + args[4].int)
  /\ args[5].op = "global"
  /\ args[5].global[1] = "qis" /\ args[5].global[3] = "ctl"
  /\ Len(args) = 5 + args[3].int + args[4].int

\* A null in the tail is qubit 0.
ControlledQubit(s, op) ==
  {QubitOperand(q) : q \in IF op.op = "i8null" THEN {0} ELSE ResolveIndex(s, op)}

\* build_generalized_controlled
BuildControlled(s, sig, args) ==
  IF ~ControlledCallFits(sig, args) THEN {}
  ELSE UNION {ApplyGate(s, name, args[2].int # 0,
                [n \in 1..Len(args) - 5 |-> ControlledQubit(s, args[n + 5])]) :
                name \in ControlledGate(args[5].global[2], args[3].int, args[4].int)}

-----------------------------------------------------------------------------
\* The checks of lower_block before a builder runs: a variadic callee needs a
\* builder that reads its own operand list, any other call has one operand for
\* each parameter.
Dispatchable(b, sig, args) ==
  IF sig.variadic THEN b.builder \in {"noop", "controlled"}
                  ELSE Len(args) = Len(sig.params)

RunBuilder(s, b, sig, i) ==
  LET params == Retyped(b.builder, sig.params)
  IN  CASE b.builder = "gate"        -> BuildGate(s, b, params, i.args)
        [] b.builder = "measurement" -> BuildMeasurement(s, params, i.args, FALSE)
        [] b.builder = "mresetz"     -> BuildMeasurement(s, params, i.args, TRUE)
        [] b.builder = "reset"       -> BuildReset(s, params, i.args)
        [] b.builder = "read_result" -> BuildReadResult(s, params, i.args, i.result)
        [] b.builder = "controlled"  -> BuildControlled(s, sig, i.args)
        [] b.builder = "noop"        -> {Outcome(s, <<>>)}

\* A callee without signature or builder is an error.
LowerCall(s, signatures, i) ==
  UNION {UNION {RunBuilder(s, b, sig, i) :
                  b \in {b \in BuilderOf(i.callee) : Dispatchable(b, sig, i.args)}} :
           sig \in Get(signatures, i.callee)}
=============================================================================
