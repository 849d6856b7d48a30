----------------------------- MODULE SymbolTable -----------------------------
(***************************************************************************)
(* The translator's notebook (symbols.rs) and the OpenQASM expressions it   *)
(* holds (oq3/ast.rs).                                                     *)
(*                                                                         *)
(* A lookup that can fail returns the set of its results: one, or none     *)
(* where the code returns an error or None.                                *)
(***************************************************************************)
EXTENDS Qir

(* Expressions.  Each carries the classical bits c[i] and the integer       *)
(* variables cint_k it reads.                                              *)

Integer(n) == [e |-> "integer", integer |-> n, bits |-> {}, vars |-> {}]
Boolean(b) == [e |-> "boolean", boolean |-> b, bits |-> {}, vars |-> {}]
Float(f)   == [e |-> "float", float |-> f, bits |-> {}, vars |-> {}]
Bit(i)     == [e |-> "bit", bit |-> i, bits |-> {i}, vars |-> {}]
IntVar(k)  == [e |-> "var", var |-> k, bits |-> {}, vars |-> {k}]
Bin(fn, l, r) ==
  [e |-> "bin", fn |-> fn, left |-> l, right |-> r,
   bits |-> l.bits \cup r.bits, vars |-> l.vars \cup r.vars]
Not(x) == [e |-> "not", of |-> x, bits |-> x.bits, vars |-> x.vars]

BooleanProducing(x) ==
  x.e = "bin" /\ x.fn \in {"==", "!=", "<", "<=", ">", ">=", "&&", "||"}

-----------------------------------------------------------------------------
(* The table.                                                              *)

EmptyTable ==
  [maxQubit |-> -1, maxResult |-> -1, ssa |-> <<>>, alias |-> <<>>,
   slot |-> <<>>, ptrIndex |-> <<>>]

Put(f, k, v) == [x \in DOMAIN f \cup {k} |-> IF x = k THEN v ELSE f[x]]
Get(f, k)    == IF k \in DOMAIN f THEN {f[k]} ELSE {}

\* The largest of S and m; S is finite.
Largest(S, m) == {t \in S \cup {m} : \A x \in S \cup {m} : x <= t}

\* Mutant of RecordQubits: the register is sized by the last qubit, not the largest.
RecordQubits_Last(s, Q) ==
  IF Q = {} THEN {s} ELSE {[s EXCEPT !.maxQubit = q] : q \in UNION {Largest(Q, q) : q \in Q}}

RecordQubits(s, Q) == {[s EXCEPT !.maxQubit = m] : m \in Largest(Q, s.maxQubit)}
RecordResult(s, i) == [s EXCEPT !.maxResult = IF i > @ THEN i ELSE @]

RecordSsa(s, k, x) == [s EXCEPT !.ssa = Put(@, k, x)]
LookupSsa(s, k)    == Get(s.ssa, k)

RecordAlloca(s, k) == [s EXCEPT !.alias = Put(@, k, <<k, 0>>)]

RecordAlias(s, k, src, offset) ==
  LET base == IF src \in DOMAIN s.alias THEN s.alias[src] ELSE <<src, 0>>
  IN  [s EXCEPT !.alias = Put(@, k, <<base[1], base[2] + offset>>)]

\* A store through a pointer that is no alias is dropped.
StoreToSlot(s, ptr, value) ==
  IF ptr \in DOMAIN s.alias
    THEN [s EXCEPT !.slot = Put(@, s.alias[ptr], value)]
    ELSE s

\* operand_to_expression: only constants have one.
ConstantExpression(op) ==
  CASE op.op = "float" -> {Float(op.float)}
    [] op.op = "bool"  -> {Boolean(op.bool)}
    [] op.op = "int" /\ FitsI64(op.int) -> {Integer(op.int)}
    [] OTHER -> {}

LoadFromSlot(s, ptr) ==
  UNION {ConstantExpression(op) :
           op \in UNION {Get(s.slot, a) : a \in Get(s.alias, ptr)}}

RecordPtrIndex(s, k, i) == [s EXCEPT !.ptrIndex = Put(@, k, i)]
LookupPtrIndex(s, k)    == Get(s.ptrIndex, k)
=============================================================================
