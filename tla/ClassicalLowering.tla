-------------------------- MODULE ClassicalLowering --------------------------
(***************************************************************************)
(* Lowering of classical instructions to bindings: boolean.rs.  Each        *)
(* operator returns the tables the instruction may leave: one, or none      *)
(* where the code returns an error.                                        *)
(***************************************************************************)
EXTENDS SymbolTable

\* constant_i1_value
ConstantI1(op) ==
  CASE op.op = "bool" -> {op.bool}
    [] op.op = "int" /\ op.int \in {0, 1} -> {op.int = 1}
    [] OTHER -> {}

AsInteger(b) == IF b THEN Integer(1) ELSE Integer(0)

\* resolve_i1_operand
ResolveI1(s, op) ==
  IF op.op = "ssa" THEN LookupSsa(s, op.ssa)
                   ELSE {AsInteger(b) : b \in ConstantI1(op)}

\* resolve_integer_operand
ResolveInteger(s, op) ==
  CASE op.op = "ssa"  -> LookupSsa(s, op.ssa)
    [] op.op = "bool" -> {AsInteger(op.bool)}
    [] op.op = "int" /\ FitsI64(op.int) -> {Integer(op.int)}
    [] OTHER -> {}

\* as_boolean_expression
AsBoolean(x) == IF BooleanProducing(x) THEN x ELSE Bin("==", x, Integer(1))

-----------------------------------------------------------------------------
\* Signed and unsigned predicates share an operator.
IcmpOp ==
  [eq |-> "==", ne |-> "!=", ult |-> "<", slt |-> "<", ule |-> "<=", sle |-> "<=",
   ugt |-> ">", sgt |-> ">", uge |-> ">=", sge |-> ">="]

LowerIcmp(s, i) ==
  IF i.pred \notin DOMAIN IcmpOp THEN {}
  ELSE {RecordSsa(s, i.result, Bin(IcmpOp[i.pred], l, r)) :
          l \in ResolveInteger(s, i.lhs), r \in ResolveInteger(s, i.rhs)}

ArithOp == [add |-> "+", sub |-> "-", mul |-> "*"]

LowerIntArith(s, i) ==
  {RecordSsa(s, i.result, Bin(ArithOp[i.fn], l, r)) :
     l \in ResolveInteger(s, i.lhs), r \in ResolveInteger(s, i.rhs)}

I1Op == [xor |-> "!=", and |-> "&&", or |-> "||"]

\* xor with one constant is a negation or nothing; every other shape compares
\* or connects the two operands as Booleans.
BinaryI1Expression(s, i) ==
  LET l == ConstantI1(i.lhs)
      r == ConstantI1(i.rhs)
  IN  IF i.fn = "xor" /\ (l = {}) # (r = {})
        THEN {IF TRUE \in l \cup r THEN Bin("==", x, Integer(0)) ELSE x :
                x \in ResolveI1(s, IF l = {} THEN i.lhs ELSE i.rhs)}
        ELSE {Bin(I1Op[i.fn], AsBoolean(x), AsBoolean(y)) :
                x \in ResolveI1(s, i.lhs), y \in ResolveI1(s, i.rhs)}

LowerBinaryI1(s, i) ==
  {RecordSsa(s, i.result, x) : x \in BinaryI1Expression(s, i)}

-----------------------------------------------------------------------------
(* select i1 c, t, f: with one constant arm it is a connective, with two    *)
(* different ones the condition or its negation, otherwise                 *)
(* (c && t) || (!c && f).                                                  *)

SelectI1Expression(s, i, c) ==
  LET t == ConstantI1(i.lhs)
      f == ConstantI1(i.rhs)
      Connect(fn, x, op) == {Bin(fn, x, AsBoolean(y)) : y \in ResolveI1(s, op)}
  IN CASE t = {} /\ f = {FALSE}      -> Connect("&&", c, i.lhs)
       [] t = {TRUE} /\ f = {}       -> Connect("||", c, i.rhs)
       [] t = {FALSE} /\ f = {}      -> Connect("&&", Not(c), i.rhs)
       [] t = {} /\ f = {TRUE}       -> Connect("||", Not(c), i.lhs)
       [] t = {TRUE} /\ f = {FALSE}  -> {c}
       [] t = {FALSE} /\ f = {TRUE}  -> {Not(c)}
       [] OTHER -> {Bin("||", Bin("&&", c, AsBoolean(x)),
                              Bin("&&", Not(c), AsBoolean(y))) :
                      x \in ResolveI1(s, i.lhs), y \in ResolveI1(s, i.rhs)}

SelectInteger(c, x, y) ==
  Bin("+", Bin("*", c, x), Bin("*", Bin("-", Integer(1), c), y))

LowerSelect(s, i) ==
  CASE i.ty \in {"i32", "i64"} ->
         {RecordSsa(s, i.result, SelectInteger(c, x, y)) :
            c \in ResolveI1(s, i.cond),
            x \in ResolveInteger(s, i.lhs), y \in ResolveInteger(s, i.rhs)}
    [] i.ty = "i1" ->
         {RecordSsa(s, i.result, x) :
            x \in UNION {SelectI1Expression(s, i, AsBoolean(c)) :
                           c \in ResolveI1(s, i.cond)}}
    [] OTHER -> {}

-----------------------------------------------------------------------------
(* phi i1: exactly one incoming is a constant v; conditions maps the block  *)
(* it comes from to the condition of its br.  The result is                 *)
(* condition || other when v is true and condition && other when it is not, *)
(* whichever way the br goes.                                              *)

LowerPhiI1(s, i, conditions) ==
  LET constant == {n \in DOMAIN i.incomings : ConstantI1(i.incomings[n].value) # {}}
      Merge(n, m) ==
        {RecordSsa(s, i.result,
           Bin(IF v THEN "||" ELSE "&&", AsBoolean(x), AsBoolean(y))) :
           v \in ConstantI1(i.incomings[n].value),
           x \in UNION Get(conditions, i.incomings[n].pred),
           y \in IF i.incomings[m].value.op = "ssa"
                   THEN LookupSsa(s, i.incomings[m].value.ssa) ELSE {}}
  IN  IF Len(i.incomings) # 2 THEN {}
      ELSE UNION {Merge(n, 3 - n) : n \in {n \in constant : constant = {n}}}
=============================================================================
