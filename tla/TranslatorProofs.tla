--------------------------- MODULE TranslatorProofs ---------------------------
(***************************************************************************)
(* For every set of parsed modules: the lowered blocks are what lower_cfg    *)
(* relies on, the declared registers cover every qubit and bit the program  *)
(* names, int variables are declared before they are read, and a block      *)
(* already lowered only grows at its end.                                  *)
(*                                                                         *)
(* First, the lowerings of the instructions: whatever an instruction is, its *)
(* lowering leaves a table whose recorded maxima cover every bit its bindings *)
(* read and every qubit and bit the statements it emits name, and whose      *)
(* bindings read only int variables that exist.                            *)
(***************************************************************************)
EXTENDS Translator, TLAPS

-----------------------------------------------------------------------------
(* The lowerings of the instructions.                                      *)

\* Expression x reads bits up to m and the first n int variables.
Within(x, m, n) ==
  /\ x.e = "var" => x.var \in x.vars
  /\ \A c \in x.bits : c \in Int /\ c <= m
  /\ \A k \in x.vars : k \in Nat /\ k < n

\* An index that is not above the largest i64.
Index(v) == v \in Int /\ v <= MaxInt

\* Table s is a table, and all it binds reads what s has recorded.
IsTable(s) ==
  s = [maxQubit |-> s.maxQubit, maxResult |-> s.maxResult, ssa |-> s.ssa,
       alias |-> s.alias, slot |-> s.slot, ptrIndex |-> s.ptrIndex]
TableOK(s, n) ==
  /\ IsTable(s)
  /\ s.maxQubit \in Int /\ s.maxQubit >= -1 /\ s.maxQubit <= MaxInt
  /\ s.maxResult \in Int /\ s.maxResult >= -1 /\ s.maxResult <= MaxInt
  /\ \A k \in DOMAIN s.ssa : Within(s.ssa[k], s.maxResult, n)
  /\ \A k \in DOMAIN s.ptrIndex : Index(s.ptrIndex[k])

\* Table t covers what s covered.
Grown(s, t) == s.maxQubit <= t.maxQubit /\ s.maxResult <= t.maxResult

\* Statement st names what a table of maxima q and m and n variables covers.
StatementOK(st, q, m, n) ==
  /\ \A i \in QubitsOf(st) : i \in Int /\ i <= q
  /\ \A c \in BitsOf(st) : c \in Int /\ c <= m
  /\ \A k \in VarsOf(st) : k \in Nat /\ k < n

-----------------------------------------------------------------------------
(* Expressions.                                                            *)

\* A literal reads nothing.
LEMMA LiteralWithin ==
  ASSUME NEW v, NEW m, NEW n
  PROVE  Within(Integer(v), m, n) /\ Within(Boolean(v), m, n) /\ Within(Float(v), m, n)
BY DEF Within, Integer, Boolean, Float

\* A compound reads what its parts read.
LEMMA BinWithin ==
  ASSUME NEW fn, NEW l, NEW r, NEW m, NEW n, Within(l, m, n), Within(r, m, n)
  PROVE  Within(Bin(fn, l, r), m, n)
BY DEF Within, Bin

LEMMA NotWithin ==
  ASSUME NEW x, NEW m, NEW n, Within(x, m, n)
  PROVE  Within(Not(x), m, n)
BY DEF Within, Not

LEMMA AsBooleanWithin ==
  ASSUME NEW x, NEW m, NEW n, Within(x, m, n)
  PROVE  Within(AsBoolean(x), m, n)
BY BinWithin, LiteralWithin DEF AsBoolean

\* Larger bounds are bounds.
LEMMA WithinMore ==
  ASSUME NEW x, NEW m \in Int, NEW n \in Int, NEW p \in Int, NEW q \in Int,
         Within(x, m, n), m <= p, n <= q
  PROVE  Within(x, p, q)
BY DEF Within

-----------------------------------------------------------------------------
(* The table.                                                              *)

\* The empty table covers nothing.
LEMMA EmptyTableOK == ASSUME NEW n PROVE TableOK(EmptyTable, n)
BY MaxIntAssumption DEF TableOK, IsTable, EmptyTable

\* record_ssa keeps the table covered.
LEMMA RecordSsaOK ==
  ASSUME NEW s, NEW n, NEW k, NEW x, TableOK(s, n), Within(x, s.maxResult, n)
  PROVE  TableOK(RecordSsa(s, k, x), n) /\ Grown(s, RecordSsa(s, k, x))
<1> DEFINE t == RecordSsa(s, k, x)
<1>1. t = [maxQubit |-> s.maxQubit, maxResult |-> s.maxResult, ssa |-> Put(s.ssa, k, x),
           alias |-> s.alias, slot |-> s.slot, ptrIndex |-> s.ptrIndex]
  BY DEF RecordSsa, TableOK, IsTable
<1>2. \A j \in DOMAIN Put(s.ssa, k, x) : Within(Put(s.ssa, k, x)[j], s.maxResult, n)
  BY DEF Put, TableOK
<1> QED
  BY <1>1, <1>2 DEF TableOK, IsTable, Grown

LEMMA LookupWithin ==
  ASSUME NEW s, NEW n, NEW k, TableOK(s, n), NEW x \in LookupSsa(s, k)
  PROVE  Within(x, s.maxResult, n)
BY DEF LookupSsa, Get, TableOK

LEMMA ResolveI1Within ==
  ASSUME NEW s, NEW n, NEW op, TableOK(s, n), NEW x \in ResolveI1(s, op)
  PROVE  Within(x, s.maxResult, n)
BY LookupWithin, LiteralWithin DEF ResolveI1, AsInteger

LEMMA ResolveIntegerWithin ==
  ASSUME NEW s, NEW n, NEW op, TableOK(s, n), NEW x \in ResolveInteger(s, op)
  PROVE  Within(x, s.maxResult, n)
BY LookupWithin, LiteralWithin DEF ResolveInteger, AsInteger

LEMMA ConstantWithin ==
  ASSUME NEW op, NEW m, NEW n, NEW x \in ConstantExpression(op)
  PROVE  Within(x, m, n)
BY LiteralWithin DEF ConstantExpression

LEMMA ResolveScalarWithin ==
  ASSUME NEW s, NEW n, NEW op, TableOK(s, n), NEW x \in ResolveScalar(s, op)
  PROVE  Within(x, s.maxResult, n)
BY LookupWithin, ConstantWithin DEF ResolveScalar

\* What a load finds is a constant.
LEMMA LoadWithin ==
  ASSUME NEW s, NEW p, NEW m, NEW n, NEW x \in LoadFromSlot(s, p)
  PROVE  Within(x, m, n)
<1>1. PICK op : x \in ConstantExpression(op)
  BY DEF LoadFromSlot
<1> QED
  BY <1>1, ConstantWithin

\* The slot table and the pointer tables bind no bit.
LEMMA SlotsOK ==
  ASSUME NEW s, NEW n, TableOK(s, n), NEW k, NEW v, NEW w
  PROVE  /\ TableOK(RecordAlloca(s, k), n) /\ Grown(s, RecordAlloca(s, k))
         /\ TableOK(RecordAlias(s, k, v, w), n) /\ Grown(s, RecordAlias(s, k, v, w))
         /\ TableOK(StoreToSlot(s, k, v), n) /\ Grown(s, StoreToSlot(s, k, v))
         /\ Index(v) => /\ TableOK(RecordPtrIndex(s, k, v), n)
                        /\ Grown(s, RecordPtrIndex(s, k, v))
<1> DEFINE Kept(t) == TableOK(t, n) /\ Grown(s, t)
<1>1. \A f : Kept([s EXCEPT !.alias = f]) /\ Kept([s EXCEPT !.slot = f])
  BY DEF TableOK, IsTable, Grown
<1>2. Kept(s)
  BY DEF TableOK, Grown
<1>3. ASSUME Index(v)  PROVE Kept(RecordPtrIndex(s, k, v))
  <2> DEFINE f == Put(s.ptrIndex, k, v)
  <2>1. \A j \in DOMAIN f : Index(f[j])
    BY <1>3 DEF Put, TableOK
  <2>2. RecordPtrIndex(s, k, v) = [s EXCEPT !.ptrIndex = f]
    BY DEF RecordPtrIndex, TableOK, IsTable
  <2> HIDE DEF f
  <2> QED
    BY <2>1, <2>2 DEF TableOK, IsTable, Grown
<1>4. Kept(RecordAlloca(s, k))
  <2>1. RecordAlloca(s, k) = [s EXCEPT !.alias = Put(s.alias, k, <<k, 0>>)]
    BY DEF RecordAlloca
  <2> QED
    BY <1>1, <2>1
<1>5. Kept(RecordAlias(s, k, v, w))
  <2> DEFINE base == IF v \in DOMAIN s.alias THEN s.alias[v] ELSE <<v, 0>>
  <2>1. RecordAlias(s, k, v, w)
          = [s EXCEPT !.alias = Put(s.alias, k, <<base[1], base[2] + w>>)]
    BY DEF RecordAlias
  <2> HIDE DEF base
  <2> QED
    BY <1>1, <2>1
<1>6. Kept(StoreToSlot(s, k, v))
  BY <1>1, <1>2 DEF StoreToSlot
<1> QED
  BY <1>3, <1>4, <1>5, <1>6

-----------------------------------------------------------------------------
(* The classical instructions.                                             *)

\* icmp, the binary operators and select bind expressions over their operands.
LEMMA IcmpOK ==
  ASSUME NEW s, NEW n, NEW i, TableOK(s, n), NEW t \in LowerIcmp(s, i)
  PROVE  TableOK(t, n) /\ Grown(s, t)
<1>1. PICK l \in ResolveInteger(s, i.lhs), r \in ResolveInteger(s, i.rhs) :
        t = RecordSsa(s, i.result, Bin(IcmpOp[i.pred], l, r))
  BY DEF LowerIcmp
<1>2. Within(Bin(IcmpOp[i.pred], l, r), s.maxResult, n)
  BY <1>1, ResolveIntegerWithin, BinWithin
<1> QED
  BY <1>1, <1>2, RecordSsaOK

LEMMA IntArithOK ==
  ASSUME NEW s, NEW n, NEW i, TableOK(s, n), NEW t \in LowerIntArith(s, i)
  PROVE  TableOK(t, n) /\ Grown(s, t)
<1>1. PICK l \in ResolveInteger(s, i.lhs), r \in ResolveInteger(s, i.rhs) :
        t = RecordSsa(s, i.result, Bin(ArithOp[i.fn], l, r))
  BY DEF LowerIntArith
<1>2. Within(Bin(ArithOp[i.fn], l, r), s.maxResult, n)
  BY <1>1, ResolveIntegerWithin, BinWithin
<1> QED
  BY <1>1, <1>2, RecordSsaOK

LEMMA BinaryI1OK ==
  ASSUME NEW s, NEW n, NEW i, TableOK(s, n), NEW t \in LowerBinaryI1(s, i)
  PROVE  TableOK(t, n) /\ Grown(s, t)
<1> DEFINE W(x) == Within(x, s.maxResult, n)
<1>1. \A op : \A x \in ResolveI1(s, op) :
        W(x) /\ W(AsBoolean(x)) /\ W(Bin("==", x, Integer(0)))
  BY ResolveI1Within, AsBooleanWithin, BinWithin, LiteralWithin
<1>2. \A fn, x, y : W(x) /\ W(y) => W(Bin(fn, x, y))
  BY BinWithin
<1> HIDE DEF W
<1>3. PICK e \in BinaryI1Expression(s, i) : t = RecordSsa(s, i.result, e)
  BY DEF LowerBinaryI1
<1>4. \/ \E op : \E x \in ResolveI1(s, op) : e = x \/ e = Bin("==", x, Integer(0))
      \/ \E x \in ResolveI1(s, i.lhs), y \in ResolveI1(s, i.rhs) :
           e = Bin(I1Op[i.fn], AsBoolean(x), AsBoolean(y))
  <2> DEFINE l == ConstantI1(i.lhs)
             r == ConstantI1(i.rhs)
             op == IF l = {} THEN i.lhs ELSE i.rhs
             one == i.fn = "xor" /\ (l = {}) # (r = {})
             negate == TRUE \in l \cup r
             A == {IF negate THEN Bin("==", x, Integer(0)) ELSE x : x \in ResolveI1(s, op)}
             B == {Bin(I1Op[i.fn], AsBoolean(x), AsBoolean(y)) :
                     x \in ResolveI1(s, i.lhs), y \in ResolveI1(s, i.rhs)}
  <2>1. BinaryI1Expression(s, i) = IF one THEN A ELSE B
    BY DEF BinaryI1Expression
  <2> HIDE DEF one, l, r, op, negate
  <2>2. e \in A \/ e \in B
    <3> HIDE DEF A, B
    <3> QED
      BY <2>1
  <2>3. CASE e \in A
    BY <2>3
  <2>4. CASE e \in B
    BY <2>4
  <2> QED
    BY <2>2, <2>3, <2>4
<1>5. W(e)
  BY <1>1, <1>2, <1>4
<1> QED
  BY <1>3, <1>5, RecordSsaOK DEF W

LEMMA SelectI1Within ==
  ASSUME NEW s, NEW n, NEW i, NEW c, TableOK(s, n), Within(c, s.maxResult, n),
         NEW e \in SelectI1Expression(s, i, c)
  PROVE  Within(e, s.maxResult, n)
<1> DEFINE W(x) == Within(x, s.maxResult, n)
           Connect(fn, x, op) == {Bin(fn, x, AsBoolean(y)) : y \in ResolveI1(s, op)}
<1>1. \A fn, x, op : W(x) => \A z \in Connect(fn, x, op) : W(z)
  BY ResolveI1Within, AsBooleanWithin, BinWithin
<1>2. W(c) /\ W(Not(c))
  BY NotWithin
<1>3. \A x \in ResolveI1(s, i.lhs), y \in ResolveI1(s, i.rhs) :
        W(Bin("||", Bin("&&", c, AsBoolean(x)), Bin("&&", Not(c), AsBoolean(y))))
  BY <1>2, ResolveI1Within, AsBooleanWithin, BinWithin
<1> DEFINE l == ConstantI1(i.lhs)
           r == ConstantI1(i.rhs)
           Both == {Bin("||", Bin("&&", c, AsBoolean(x)), Bin("&&", Not(c), AsBoolean(y))) :
                      x \in ResolveI1(s, i.lhs), y \in ResolveI1(s, i.rhs)}
<1>4. SelectI1Expression(s, i, c) =
         CASE l = {} /\ r = {FALSE}     -> Connect("&&", c, i.lhs)
              [] l = {TRUE} /\ r = {}      -> Connect("||", c, i.rhs)
              [] l = {FALSE} /\ r = {}     -> Connect("&&", Not(c), i.rhs)
              [] l = {} /\ r = {TRUE}      -> Connect("||", Not(c), i.lhs)
              [] l = {TRUE} /\ r = {FALSE} -> {c}
              [] l = {FALSE} /\ r = {TRUE} -> {Not(c)}
              [] OTHER -> Both
  BY DEF SelectI1Expression
<1>5. \A z \in Both : W(z)
  BY <1>3
<1> HIDE DEF Connect, W, l, r, Both
<1>6. \/ e \in Connect("&&", c, i.lhs) \/ e \in Connect("||", c, i.rhs)
      \/ e \in Connect("&&", Not(c), i.rhs) \/ e \in Connect("||", Not(c), i.lhs)
      \/ e = c \/ e = Not(c) \/ e \in Both
  BY <1>4
<1>7. W(e)
  BY <1>1, <1>2, <1>5, <1>6
<1> QED
  BY <1>7 DEF W

LEMMA SelectOK ==
  ASSUME NEW s, NEW n, NEW i, TableOK(s, n), NEW t \in LowerSelect(s, i)
  PROVE  TableOK(t, n) /\ Grown(s, t)
<1> DEFINE integers == {SelectInteger(c, x, y) : c \in ResolveI1(s, i.cond),
                          x \in ResolveInteger(s, i.lhs), y \in ResolveInteger(s, i.rhs)}
           booleans == UNION {SelectI1Expression(s, i, AsBoolean(c)) :
                                c \in ResolveI1(s, i.cond)}
<1>1. PICK e \in integers \cup booleans : t = RecordSsa(s, i.result, e)
  BY DEF LowerSelect
<1>2. ASSUME e \in integers  PROVE Within(e, s.maxResult, n)
  BY <1>2, ResolveI1Within, ResolveIntegerWithin, BinWithin, LiteralWithin
     DEF SelectInteger
<1>3. ASSUME e \in booleans  PROVE Within(e, s.maxResult, n)
  <2>1. PICK c \in ResolveI1(s, i.cond) : e \in SelectI1Expression(s, i, AsBoolean(c))
    BY <1>3
  <2> QED
    BY <2>1, ResolveI1Within, AsBooleanWithin, SelectI1Within
<1> QED
  BY <1>1, <1>2, <1>3, RecordSsaOK

LEMMA PhiI1OK ==
  ASSUME NEW s, NEW n, NEW i, NEW conditions, TableOK(s, n),
         \A p \in DOMAIN conditions : \A x \in conditions[p] : Within(x, s.maxResult, n),
         NEW t \in LowerPhiI1(s, i, conditions)
  PROVE  TableOK(t, n) /\ Grown(s, t)
<1>1. PICK fn, p, k : \E x \in UNION Get(conditions, p), y \in LookupSsa(s, k) :
        t = RecordSsa(s, i.result, Bin(fn, AsBoolean(x), AsBoolean(y)))
  BY DEF LowerPhiI1
<1>2. PICK x \in UNION Get(conditions, p), y \in LookupSsa(s, k) :
        t = RecordSsa(s, i.result, Bin(fn, AsBoolean(x), AsBoolean(y)))
  BY <1>1
<1>3. Within(x, s.maxResult, n) /\ Within(y, s.maxResult, n)
  BY LookupWithin DEF Get
<1> QED
  BY <1>2, <1>3, AsBooleanWithin, BinWithin, RecordSsaOK

-----------------------------------------------------------------------------
(* Indexes, and the maxima that record them.                               *)

\* The pointer constants of args are i64 values, which is what the parser reads.
PointersParsed(args) == \A a \in DOMAIN args : args[a].op = "ptr" => Index(args[a].index)

LEMMA ResolveIndexFits ==
  ASSUME NEW s, NEW n, NEW op, TableOK(s, n), op.op = "ptr" => Index(op.index),
         NEW q \in ResolveIndex(s, op)
  PROVE  Index(q)
BY DEF ResolveIndex, LookupPtrIndex, Get, TableOK

\* record_qubit covers each of the qubits.
LEMMA RecordQubitsOK ==
  ASSUME NEW s, NEW n, NEW Q, TableOK(s, n), \A q \in Q : Index(q),
         NEW t \in RecordQubits(s, Q)
  PROVE  /\ TableOK(t, n) /\ Grown(s, t) /\ t.maxResult = s.maxResult
         /\ \A q \in Q : q <= t.maxQubit
<1>1. PICK m \in Largest(Q, s.maxQubit) : t = [s EXCEPT !.maxQubit = m]
  BY DEF RecordQubits
<1>2. m \in Int /\ m <= MaxInt /\ s.maxQubit <= m /\ \A q \in Q : q <= m
  BY DEF Largest, TableOK, Index
<1>3. t = [maxQubit |-> m, maxResult |-> s.maxResult, ssa |-> s.ssa,
           alias |-> s.alias, slot |-> s.slot, ptrIndex |-> s.ptrIndex]
  BY <1>1 DEF TableOK, IsTable
<1>4. TableOK(t, n)
  BY <1>2, <1>3 DEF TableOK, IsTable
<1> QED
  BY <1>2, <1>3, <1>4 DEF TableOK, Grown

\* record_result covers the bit.
LEMMA RecordResultOK ==
  ASSUME NEW s, NEW n \in Int, TableOK(s, n), NEW c, Index(c)
  PROVE  /\ TableOK(RecordResult(s, c), n) /\ Grown(s, RecordResult(s, c))
         /\ RecordResult(s, c).maxQubit = s.maxQubit
         /\ c <= RecordResult(s, c).maxResult
<1> DEFINE m == IF c > s.maxResult THEN c ELSE s.maxResult
           t == RecordResult(s, c)
<1>1. m \in Int /\ m <= MaxInt /\ s.maxResult <= m /\ c <= m /\ s.maxResult \in Int
  BY DEF TableOK, Index
<1>2. t = [maxQubit |-> s.maxQubit, maxResult |-> m, ssa |-> s.ssa,
           alias |-> s.alias, slot |-> s.slot, ptrIndex |-> s.ptrIndex]
  BY DEF RecordResult, TableOK, IsTable
<1> HIDE DEF m, t
<1>3. \A k \in DOMAIN s.ssa : Within(s.ssa[k], m, n)
  BY <1>1, WithinMore DEF TableOK
<1>4. TableOK(t, n)
  BY <1>1, <1>2, <1>3 DEF TableOK, IsTable
<1> QED
  BY <1>1, <1>2, <1>4 DEF TableOK, Grown, t

-----------------------------------------------------------------------------
(* Statements.                                                             *)

\* A gate's operand that table s covers.
OperandOK(x, m, n) ==
  /\ x.operand = "qubit"  => Index(x.qubit)
  /\ x.operand = "scalar" => Within(x.scalar, m, n)

LEMMA GateOK ==
  ASSUME NEW name, NEW adjoint, NEW operands, NEW q, NEW m, NEW n,
         \A k \in DOMAIN operands : OperandOK(operands[k], m, n),
         \A k \in DOMAIN operands :
           operands[k].operand = "qubit" => operands[k].qubit <= q
  PROVE  StatementOK(Gate(name, adjoint, operands), q, m, n)
<1> DEFINE st == Gate(name, adjoint, operands)
<1>1. st.stmt = "gate" /\ st.operands = operands
  BY DEF Gate
<1> HIDE DEF st
<1>2. \A x \in ExpressionsOf(st) : Within(x, m, n)
  BY <1>1 DEF ExpressionsOf, Listed, OperandOK
<1>3. \A i \in QubitsOf(st) : i \in Int /\ i <= q
  BY <1>1 DEF QubitsOf, QubitsIn, Listed, OperandOK, Index
<1>4. \A c \in BitsOf(st) : c \in Int /\ c <= m
  BY <1>1, <1>2 DEF BitsOf, Within
<1>5. \A k \in VarsOf(st) : k \in Nat /\ k < n
  BY <1>1, <1>2 DEF VarsOf, Within
<1> QED
  BY <1>3, <1>4, <1>5 DEF StatementOK, st

LEMMA OtherStatementsOK ==
  ASSUME NEW i \in Int, NEW c \in Int, NEW k \in Nat, NEW x, NEW q \in Int, NEW m \in Int, NEW n \in Int
  PROVE  /\ i <= q /\ c <= m => StatementOK(Measure(i, c), q, m, n)
         /\ i <= q => StatementOK(Reset(i), q, m, n)
         /\ k < n /\ Within(x, m, n) => StatementOK(Assign(k, x), q, m, n)
<1>1. ASSUME i <= q, c <= m  PROVE StatementOK(Measure(i, c), q, m, n)
  BY <1>1 DEF StatementOK, Measure, QubitsOf, BitsOf, VarsOf, ExpressionsOf
<1>2. ASSUME i <= q  PROVE StatementOK(Reset(i), q, m, n)
  BY <1>2 DEF StatementOK, Reset, QubitsOf, BitsOf, VarsOf, ExpressionsOf
<1>3. ASSUME k < n, Within(x, m, n)  PROVE StatementOK(Assign(k, x), q, m, n)
  <2>1. ExpressionsOf(Assign(k, x)) = {x} /\ QubitsOf(Assign(k, x)) = {}
    BY DEF Assign, ExpressionsOf, QubitsOf
  <2>2. BitsOf(Assign(k, x)) = x.bits /\ VarsOf(Assign(k, x)) = x.vars \cup {k}
    BY <2>1 DEF BitsOf, VarsOf, Assign
  <2> QED
    BY <1>3, <2>1, <2>2 DEF StatementOK, Within
<1> QED
  BY <1>1, <1>2, <1>3

\* Larger bounds are bounds.
LEMMA StatementMore ==
  ASSUME NEW st, NEW q \in Int, NEW m \in Int, NEW n \in Int,
         NEW q2 \in Int, NEW m2 \in Int, NEW n2 \in Int,
         q <= q2, m <= m2, n <= n2, StatementOK(st, q, m, n)
  PROVE  StatementOK(st, q2, m2, n2)
BY DEF StatementOK

-----------------------------------------------------------------------------
(* Calls.                                                                  *)

\* Outcome o of a call covers what s covered and the statements it emits.
OutcomeOK(s, n, o) ==
  /\ TableOK(o.symbols, n) /\ Grown(s, o.symbols)
  /\ IsSeq(o.stmts)
  /\ \A k \in DOMAIN o.stmts :
       StatementOK(o.stmts[k], o.symbols.maxQubit, o.symbols.maxResult, n)

LEMMA NoStatements ==
  ASSUME NEW s, NEW n, NEW t, TableOK(t, n), Grown(s, t)
  PROVE  OutcomeOK(s, n, Outcome(t, <<>>))
BY DEF OutcomeOK, Outcome, IsSeq, Listed

LEMMA ApplyGateOK ==
  ASSUME NEW s, NEW n, NEW name, NEW adjoint, NEW choices, TableOK(s, n),
         \A k \in DOMAIN choices : \A x \in choices[k] : OperandOK(x, s.maxResult, n),
         NEW o \in ApplyGate(s, name, adjoint, choices)
  PROVE  OutcomeOK(s, n, o)
<1> DEFINE operands == [k \in DOMAIN choices |-> CHOOSE x \in choices[k] : TRUE]
           used     == UNION {QubitsIn(choices[k]) : k \in DOMAIN choices}
           st       == Gate(name, adjoint, operands)
<1>1. \A k \in DOMAIN choices : operands[k] \in choices[k]
  BY DEF ApplyGate
<1>2. PICK t \in RecordQubits(s, used) : o = Outcome(t, <<st>>)
  BY DEF ApplyGate
<1>3. \A q \in used : Index(q)
  BY DEF QubitsIn, OperandOK
<1>4. /\ TableOK(t, n) /\ Grown(s, t) /\ t.maxResult = s.maxResult
      /\ \A q \in used : q <= t.maxQubit
  BY <1>2, <1>3, RecordQubitsOK
<1>5. \A k \in DOMAIN operands :
        /\ OperandOK(operands[k], t.maxResult, n)
        /\ operands[k].operand = "qubit" => operands[k].qubit <= t.maxQubit
  <2> SUFFICES ASSUME NEW k \in DOMAIN choices
               PROVE  /\ OperandOK(operands[k], s.maxResult, n)
                      /\ operands[k].operand = "qubit" => operands[k].qubit \in used
    BY <1>4
  <2> DEFINE x == operands[k]
  <2>1. x \in choices[k]
    BY <1>1
  <2>2. OperandOK(x, s.maxResult, n)
    BY <2>1
  <2> HIDE DEF x
  <2>3. ASSUME x.operand = "qubit"  PROVE x.qubit \in used
    <3>1. x.qubit \in QubitsIn(choices[k])
      BY <2>1, <2>3 DEF QubitsIn
    <3> QED
      BY <3>1
  <2> QED
    BY <2>2, <2>3 DEF x
<1>6. StatementOK(st, t.maxQubit, t.maxResult, n)
  <2> HIDE DEF operands
  <2> QED
    BY <1>5, GateOK
<1> HIDE DEF st
<1> QED
  BY <1>2, <1>4, <1>6 DEF OutcomeOK, Outcome, IsSeq, Listed

LEMMA BuildGateOK ==
  ASSUME NEW s, NEW n, NEW b, NEW params, NEW args, TableOK(s, n), PointersParsed(args),
         NEW o \in BuildGate(s, b, params, args)
  PROVE  OutcomeOK(s, n, o)
<1> DEFINE choices == [k \in DOMAIN args |-> ResolveArgument(s, args[k], params[k])]
<1>1. \A k \in DOMAIN choices : \A x \in choices[k] : OperandOK(x, s.maxResult, n)
  BY ResolveIndexFits, ResolveScalarWithin
     DEF ResolveArgument, OperandOK, QubitOperand, ScalarOperand, PointersParsed
<1>2. o \in ApplyGate(s, b.gate, b.adjoint, choices)
  BY DEF BuildGate
<1> HIDE DEF choices
<1> QED
  BY <1>1, <1>2, ApplyGateOK

LEMMA BuildControlledOK ==
  ASSUME NEW s, NEW n, NEW sig, NEW args, TableOK(s, n), PointersParsed(args),
         IsSeq(args), NEW o \in BuildControlled(s, sig, args)
  PROVE  OutcomeOK(s, n, o)
<1> DEFINE choices == [k \in 1..Len(args) - 5 |-> ControlledQubit(s, args[k + 5])]
<1>1. PICK name : o \in ApplyGate(s, name, args[2].int # 0, choices)
  BY DEF BuildControlled
<1>2. \A k \in DOMAIN choices : \A x \in choices[k] : OperandOK(x, s.maxResult, n)
  <2> SUFFICES ASSUME NEW k \in 1..Len(args) - 5, NEW x \in ControlledQubit(s, args[k + 5])
               PROVE  OperandOK(x, s.maxResult, n)
    OBVIOUS
  <2>1. k + 5 \in DOMAIN args
    BY DEF IsSeq
  <2>2. args[k + 5].op = "ptr" => Index(args[k + 5].index)
    BY <2>1 DEF PointersParsed
  <2> QED
    BY <2>2, ResolveIndexFits, MaxIntAssumption DEF ControlledQubit, OperandOK, QubitOperand, Index
<1> HIDE DEF choices
<1> QED
  BY <1>1, <1>2, ApplyGateOK

LEMMA BuildMeasurementOK ==
  ASSUME NEW s, NEW n \in Int, NEW params, NEW args, NEW andReset, TableOK(s, n),
         PointersParsed(args), {1, 2} \subseteq DOMAIN args,
         NEW o \in BuildMeasurement(s, params, args, andReset)
  PROVE  OutcomeOK(s, n, o)
<1>1. PICK q \in ResolveIndex(s, args[1]), c \in ResolveIndex(s, args[2]) :
        \E t \in RecordQubits(s, {q}) :
          o = Outcome(RecordResult(t, c),
                IF andReset THEN <<Measure(q, c), Reset(q)>> ELSE <<Measure(q, c)>>)
  BY DEF BuildMeasurement
<1>2. PICK t \in RecordQubits(s, {q}) :
          o = Outcome(RecordResult(t, c),
                IF andReset THEN <<Measure(q, c), Reset(q)>> ELSE <<Measure(q, c)>>)
  BY <1>1
<1>3. Index(q) /\ Index(c)
  BY ResolveIndexFits DEF PointersParsed
<1>4. TableOK(t, n) /\ Grown(s, t) /\ t.maxResult = s.maxResult /\ q <= t.maxQubit
  BY <1>3, RecordQubitsOK
<1> DEFINE u == RecordResult(t, c)
           M == Measure(q, c)
           R == Reset(q)
<1>5. TableOK(u, n) /\ Grown(t, u) /\ u.maxQubit = t.maxQubit /\ c <= u.maxResult
  BY <1>3, <1>4, RecordResultOK
<1> HIDE DEF u
<1>6. u.maxQubit \in Int /\ u.maxResult \in Int
  BY <1>5 DEF TableOK
<1>7. StatementOK(M, u.maxQubit, u.maxResult, n) /\ StatementOK(R, u.maxQubit, u.maxResult, n)
  BY <1>3, <1>4, <1>5, <1>6, OtherStatementsOK DEF Index
<1>8. Grown(s, u)
  BY <1>4, <1>5 DEF Grown
<1> HIDE DEF M, R
<1>9. CASE andReset
  <2>1. o = [symbols |-> u, stmts |-> <<M, R>>]
    BY <1>2, <1>9 DEF Outcome, M, R, u
  <2> QED
    BY <2>1, <1>5, <1>7, <1>8 DEF OutcomeOK, IsSeq, Listed
<1>10. CASE ~andReset
  <2>1. o = [symbols |-> u, stmts |-> <<M>>]
    BY <1>2, <1>10 DEF Outcome, M, R, u
  <2> QED
    BY <2>1, <1>5, <1>7, <1>8 DEF OutcomeOK, IsSeq, Listed
<1> QED
  BY <1>9, <1>10

LEMMA BuildResetOK ==
  ASSUME NEW s, NEW n \in Int, NEW params, NEW args, TableOK(s, n),
         PointersParsed(args), 1 \in DOMAIN args, NEW o \in BuildReset(s, params, args)
  PROVE  OutcomeOK(s, n, o)
<1>1. PICK q \in ResolveIndex(s, args[1]) :
        \E t \in RecordQubits(s, {q}) : o = Outcome(t, <<Reset(q)>>)
  BY DEF BuildReset
<1>2. PICK t \in RecordQubits(s, {q}) : o = Outcome(t, <<Reset(q)>>)
  BY <1>1
<1>3. Index(q)
  BY ResolveIndexFits DEF PointersParsed
<1>4. TableOK(t, n) /\ Grown(s, t) /\ q <= t.maxQubit
  BY <1>3, RecordQubitsOK
<1> DEFINE R == Reset(q)
<1>5. StatementOK(R, t.maxQubit, t.maxResult, n)
  BY <1>3, <1>4, OtherStatementsOK DEF TableOK, Index
<1> HIDE DEF R
<1>6. o = [symbols |-> t, stmts |-> <<R>>]
  BY <1>2 DEF Outcome, R
<1> QED
  BY <1>4, <1>5, <1>6 DEF OutcomeOK, IsSeq, Listed

LEMMA BuildReadResultOK ==
  ASSUME NEW s, NEW n \in Int, NEW params, NEW args, NEW result, TableOK(s, n),
         PointersParsed(args), 1 \in DOMAIN args,
         NEW o \in BuildReadResult(s, params, args, result)
  PROVE  OutcomeOK(s, n, o)
<1>1. PICK c \in ResolveIndex(s, args[1]) :
        o = Outcome(IF result = NoResult THEN RecordResult(s, c)
                    ELSE RecordSsa(RecordResult(s, c), result, Bit(c)), <<>>)
  BY DEF BuildReadResult
<1> DEFINE t == RecordResult(s, c)
<1>2. Index(c)
  BY ResolveIndexFits DEF PointersParsed
<1>3. TableOK(t, n) /\ Grown(s, t) /\ c <= t.maxResult
  BY <1>2, RecordResultOK
<1>4. Within(Bit(c), t.maxResult, n)
  BY <1>2, <1>3 DEF Within, Bit, Index
<1> HIDE DEF t
<1>5. TableOK(RecordSsa(t, result, Bit(c)), n) /\ Grown(t, RecordSsa(t, result, Bit(c)))
  BY <1>3, <1>4, RecordSsaOK
<1>6. Grown(s, RecordSsa(t, result, Bit(c)))
  BY <1>3, <1>5 DEF Grown, TableOK
<1> QED
  BY <1>1, <1>3, <1>5, <1>6, NoStatements DEF t

\* A measurement's or a reset's operand list is as long as its signature.
LEMMA ArgumentsThere ==
  ASSUME NEW builder, NEW params, NEW args, IsSeq(params), IsSeq(args),
         Len(args) = Len(params)
  PROVE  /\ Retyped(builder, params) = <<"Qubit", "Result">> => {1, 2} \subseteq DOMAIN args
         /\ Len(Retyped(builder, params)) = 1 => 1 \in DOMAIN args
<1>1. DOMAIN Retyped(builder, params) = DOMAIN params
  BY DEF Retyped
<1>2. /\ DOMAIN params = 1..Len(params) /\ Len(params) \in Nat
      /\ DOMAIN args = 1..Len(args)
  BY DEF IsSeq
<1>3. ASSUME Retyped(builder, params) = <<"Qubit", "Result">>
      PROVE  {1, 2} \subseteq DOMAIN args
  <2>1. DOMAIN params = 1..2
    BY <1>1, <1>3
  <2> QED
    BY <1>2, <2>1
<1> QED
  BY <1>1, <1>2, <1>3

\* Whatever builder a call runs, the outcome is covered.
LEMMA RunBuilderOK ==
  ASSUME NEW s, NEW n \in Int, NEW b, NEW sig, NEW i, TableOK(s, n),
         IsSeq(sig.params), IsSeq(i.args), PointersParsed(i.args),
         Dispatchable(b, sig, i.args),
         b.builder \in {"gate", "measurement", "mresetz", "reset", "read_result",
                        "controlled", "noop"},
         NEW o \in RunBuilder(s, b, sig, i)
  PROVE  OutcomeOK(s, n, o)
<1> DEFINE params == Retyped(b.builder, sig.params)
<1>1. b.builder \notin {"noop", "controlled"} => Len(i.args) = Len(sig.params)
  BY DEF Dispatchable
<1>2. /\ b.builder \notin {"noop", "controlled"} /\ params = <<"Qubit", "Result">>
           => {1, 2} \subseteq DOMAIN i.args
      /\ b.builder \notin {"noop", "controlled"} /\ Len(params) = 1
           => 1 \in DOMAIN i.args
  BY <1>1, ArgumentsThere
<1> HIDE DEF params
<1>3. CASE b.builder = "gate"
  <2>1. o \in BuildGate(s, b, params, i.args)
    BY <1>3 DEF RunBuilder, params
  <2> QED
    BY <2>1, BuildGateOK
<1>4. CASE b.builder \in {"measurement", "mresetz"}
  <2>1. PICK andReset \in BOOLEAN : o \in BuildMeasurement(s, params, i.args, andReset)
    BY <1>4 DEF RunBuilder, params
  <2>2. params = <<"Qubit", "Result">>
    BY <2>1 DEF BuildMeasurement
  <2> QED
    BY <1>2, <1>4, <2>1, <2>2, BuildMeasurementOK
<1>5. CASE b.builder = "reset"
  <2>1. o \in BuildReset(s, params, i.args)
    BY <1>5 DEF RunBuilder, params
  <2>2. Len(params) = 1
    BY <2>1 DEF BuildReset
  <2> QED
    BY <1>2, <1>5, <2>1, <2>2, BuildResetOK
<1>6. CASE b.builder = "read_result"
  <2>1. o \in BuildReadResult(s, params, i.args, i.result)
    BY <1>6 DEF RunBuilder, params
  <2>2. Len(params) = 1
    BY <2>1 DEF BuildReadResult
  <2> QED
    BY <1>2, <1>6, <2>1, <2>2, BuildReadResultOK
<1>7. CASE b.builder = "controlled"
  <2>1. o \in BuildControlled(s, sig, i.args)
    BY <1>7 DEF RunBuilder
  <2> QED
    BY <2>1, BuildControlledOK
<1>8. CASE b.builder = "noop"
  <2>1. o = Outcome(s, <<>>)
    BY <1>8 DEF RunBuilder
  <2>2. Grown(s, s)
    BY DEF Grown, TableOK
  <2> QED
    BY <2>1, <2>2, NoStatements
<1> QED
  BY <1>3, <1>4, <1>5, <1>6, <1>7, <1>8

\* The profile names no other builder.
LEMMA BuildersKnown ==
  ASSUME NEW callee, NEW b \in BuilderOf(callee)
  PROVE  b.builder \in {"gate", "measurement", "mresetz", "reset", "read_result",
                        "controlled", "noop"}
<1>1. \A f \in DOMAIN SpecialBuilder :
        SpecialBuilder[f] \in {"measurement", "mresetz", "reset", "read_result"}
  BY DEF SpecialBuilder
<1>2. \/ \E name, adjoint : b = GateBuilder(name, adjoint)
      \/ \E f \in DOMAIN SpecialBuilder : b = [builder |-> SpecialBuilder[f]]
      \/ b \in {[builder |-> "read_result"], [builder |-> "controlled"],
                [builder |-> "noop"]}
  BY DEF BuilderOf
<1>3. \A name, adjoint : GateBuilder(name, adjoint).builder = "gate"
  BY DEF GateBuilder
<1> QED
  BY <1>1, <1>2, <1>3

\* A call leaves a covered table and covered statements.
LEMMA LowerCallOK ==
  ASSUME NEW s, NEW n \in Int, NEW signatures, NEW i, TableOK(s, n),
         \A c \in DOMAIN signatures : IsSeq(signatures[c].params),
         IsSeq(i.args), PointersParsed(i.args), NEW o \in LowerCall(s, signatures, i)
  PROVE  OutcomeOK(s, n, o)
<1>1. PICK sig \in Get(signatures, i.callee) :
        \E b \in BuilderOf(i.callee) :
          Dispatchable(b, sig, i.args) /\ o \in RunBuilder(s, b, sig, i)
  BY DEF LowerCall
<1>2. PICK b \in BuilderOf(i.callee) :
        Dispatchable(b, sig, i.args) /\ o \in RunBuilder(s, b, sig, i)
  BY <1>1
<1>3. IsSeq(sig.params)
  BY DEF Get
<1> QED
  BY <1>2, <1>3, BuildersKnown, RunBuilderOK

-----------------------------------------------------------------------------
(* Sequences.                                                              *)

LEMMA AppendFacts ==
  ASSUME NEW s, NEW x, IsSeq(s)
  PROVE  /\ IsSeq(Append(s, x)) /\ Len(Append(s, x)) = Len(s) + 1
         /\ \A k \in DOMAIN Append(s, x) :
              Append(s, x)[k] = IF k \in DOMAIN s THEN s[k] ELSE x
         /\ DOMAIN Append(s, x) = DOMAIN s \cup {Len(s) + 1}
         /\ Append(s, x)[Len(s) + 1] = x
<1> DEFINE t == Append(s, x)
<1>1. s \in Seq(Listed(s) \cup {x})
  BY DEF IsSeq
<1>2. t \in Seq(Listed(s) \cup {x}) /\ Len(t) = Len(s) + 1 /\ t[Len(s) + 1] = x
  BY <1>1
<1>3. DOMAIN t = 1..(Len(s) + 1) /\ DOMAIN s = 1..Len(s) /\ Len(s) \in Nat
  BY <1>1, <1>2
<1>4. \A k \in DOMAIN t : t[k] = IF k \in DOMAIN s THEN s[k] ELSE x
  BY <1>1, <1>3
<1>5. t \in Seq(Listed(t))
  <2> HIDE DEF t
  <2> QED
    BY <1>2, <1>3 DEF Listed
<1> QED
  BY <1>2, <1>3, <1>4, <1>5 DEF IsSeq

LEMMA ConcatFacts ==
  ASSUME NEW s, NEW t, IsSeq(s), IsSeq(t)
  PROVE  /\ IsSeq(s \o t)
         /\ \A k \in DOMAIN (s \o t) : (s \o t)[k] \in Listed(s) \cup Listed(t)
<1> DEFINE u == s \o t
           E == Listed(s) \cup Listed(t)
<1>1. s \in Seq(E) /\ t \in Seq(E)
  BY DEF IsSeq
<1>2. u \in Seq(E)
  BY <1>1
<1> HIDE DEF u, E
<1>3. DOMAIN u = 1..Len(u) /\ \A k \in DOMAIN u : u[k] \in E
  BY <1>2
<1>4. u \in Seq(Listed(u))
  BY <1>2, <1>3 DEF Listed
<1> QED
  BY <1>3, <1>4 DEF IsSeq, u, E

-----------------------------------------------------------------------------
(* The inductive invariant.                                                *)

\* Everything in lowered block l is covered by maxima q and m and n variables.
BlockOK(l, q, m, n) ==
  /\ l = Lowering(l.name, l.statements, l.condition, l.targets)
  /\ IsSeq(l.statements)
  /\ \A k \in DOMAIN l.statements : StatementOK(l.statements[k], q, m, n)
  /\ \A x \in l.condition : Within(x, m, n)
  /\ Len(l.targets) \in Nat /\ Len(l.targets) <= 2
  /\ l.condition = {} <=> Len(l.targets) # 2

Position ==
  /\ module \in Modules
  /\ status \in {"lowering", "reducing", "translated", "rejected"}
  /\ Len(lowerings) \in 0..Len(module.blocks)
  /\ IF BlocksLeft THEN pc \in 1..(Len(Insts) + 1) ELSE pc \in Nat

IntsOK ==
  /\ IsSeq(ints)
  /\ \A k \in DOMAIN ints : Within(ints[k], symbols.maxResult, k - 1)

StatementsOK ==
  /\ IsSeq(statements)
  /\ \A k \in DOMAIN statements :
       StatementOK(statements[k], symbols.maxQubit, symbols.maxResult, Len(ints))

LoweringsOK ==
  /\ IsSeq(lowerings)
  /\ \A j \in DOMAIN lowerings :
       BlockOK(lowerings[j], symbols.maxQubit, symbols.maxResult, Len(ints))

RegistersSized ==
  status = "translated" =>
    /\ registers = [qubits |-> symbols.maxQubit + 1, bits |-> symbols.maxResult + 1]
    /\ ~TooLarge

IInv ==
  /\ Position
  /\ TableOK(symbols, Len(ints))
  /\ IntsOK /\ StatementsOK /\ LoweringsOK
  /\ RegistersSized

-----------------------------------------------------------------------------
(* It implies the invariants that are checked.                             *)

LEMMA IntsLength == ASSUME IntsOK PROVE Len(ints) \in Nat /\ DOMAIN ints = 1..Len(ints)
BY DEF IntsOK, IsSeq

\* Every statement of the program built so far is covered.
LEMMA StatementsCovered ==
  ASSUME IInv, NEW st \in Statements
  PROVE  StatementOK(st, symbols.maxQubit, symbols.maxResult, Len(ints))
BY DEF IInv, StatementsOK, LoweringsOK, BlockOK, Statements, Listed

LEMMA ConditionsCovered ==
  ASSUME IInv, NEW x \in Conditions
  PROVE  Within(x, symbols.maxResult, Len(ints))
BY DEF IInv, LoweringsOK, BlockOK, Conditions

LEMMA IInvImplies ==
  ASSUME IInv
  PROVE  /\ TypeOK /\ RegistersCoverProgram
         /\ LoweredBlocksWellFormed /\ IntsDeclaredBeforeUse
<1>1. TypeOK
  BY DEF IInv, Position, TypeOK, TableOK
<1>2. LoweredBlocksWellFormed
  BY DEF IInv, LoweringsOK, BlockOK, LoweredBlocksWellFormed
<1>3. RegistersCoverProgram
  <2> SUFFICES ASSUME status = "translated"
               PROVE  /\ registers.qubits <= MaxInt /\ registers.bits <= MaxInt
                      /\ \A st \in Statements :
                           /\ \A q \in QubitsOf(st) : q < registers.qubits
                           /\ \A c \in BitsOf(st) : c < registers.bits
                      /\ \A x \in Conditions \cup Listed(ints) :
                           \A c \in x.bits : c < registers.bits
    BY DEF RegistersCoverProgram
  <2>1. /\ registers.qubits = symbols.maxQubit + 1 /\ symbols.maxQubit \in Int
        /\ registers.bits = symbols.maxResult + 1 /\ symbols.maxResult \in Int
        /\ registers.qubits <= MaxInt /\ registers.bits <= MaxInt
    BY MaxIntAssumption DEF IInv, RegistersSized, TableOK, TooLarge
  <2>2. ASSUME NEW st \in Statements
        PROVE  /\ \A q \in QubitsOf(st) : q < registers.qubits
               /\ \A c \in BitsOf(st) : c < registers.bits
    <3>1. StatementOK(st, symbols.maxQubit, symbols.maxResult, Len(ints))
      BY StatementsCovered
    <3> QED
      BY <2>1, <3>1 DEF StatementOK
  <2>3. ASSUME NEW x \in Conditions \cup Listed(ints)
        PROVE  \A c \in x.bits : c < registers.bits
    <3>1. \A c \in x.bits : c \in Int /\ c <= symbols.maxResult
      BY ConditionsCovered DEF IInv, IntsOK, Listed, Within
    <3> QED
      BY <2>1, <3>1
  <2> QED
    BY <2>1, <2>2, <2>3
<1>4. IntsDeclaredBeforeUse
  <2>1. \A st \in Statements : \A k \in VarsOf(st) : k < Len(ints)
    BY StatementsCovered DEF StatementOK
  <2>2. \A x \in Conditions : \A k \in x.vars : k < Len(ints)
    BY ConditionsCovered DEF Within
  <2>3. \A n \in DOMAIN ints : \A k \in ints[n].vars : k < n - 1
    BY DEF IInv, IntsOK, Within
  <2> QED
    BY <2>1, <2>2, <2>3 DEF IntsDeclaredBeforeUse
<1> QED
  BY <1>1, <1>2, <1>3, <1>4

-----------------------------------------------------------------------------
(* The steps.                                                              *)

\* A table that covers more covers the same blocks, statements and variables.
LEMMA CoveredMore ==
  ASSUME IInv, NEW s, NEW n \in Int, Len(ints) <= n, TableOK(s, n), Grown(symbols, s)
  PROVE  /\ \A k \in DOMAIN ints : Within(ints[k], s.maxResult, k - 1)
         /\ \A k \in DOMAIN statements : StatementOK(statements[k], s.maxQubit, s.maxResult, n)
         /\ \A j \in DOMAIN lowerings : BlockOK(lowerings[j], s.maxQubit, s.maxResult, n)
<1>1. /\ symbols.maxQubit \in Int /\ symbols.maxResult \in Int /\ Len(ints) \in Int
      /\ s.maxQubit \in Int /\ s.maxResult \in Int
      /\ symbols.maxQubit <= s.maxQubit /\ symbols.maxResult <= s.maxResult
  BY IntsLength DEF IInv, TableOK, Grown
<1>2. \A k \in DOMAIN ints : Within(ints[k], s.maxResult, k - 1)
  <2> SUFFICES ASSUME NEW k \in DOMAIN ints  PROVE Within(ints[k], s.maxResult, k - 1)
    OBVIOUS
  <2>1. k - 1 \in Int /\ Within(ints[k], symbols.maxResult, k - 1)
    BY IntsLength DEF IInv, IntsOK
  <2> QED
    BY <1>1, <2>1, WithinMore
<1>3. \A st : StatementOK(st, symbols.maxQubit, symbols.maxResult, Len(ints))
                => StatementOK(st, s.maxQubit, s.maxResult, n)
  BY <1>1, StatementMore
<1>4. \A x : Within(x, symbols.maxResult, Len(ints)) => Within(x, s.maxResult, n)
  BY <1>1, WithinMore
<1>5. \A k \in DOMAIN statements : StatementOK(statements[k], s.maxQubit, s.maxResult, n)
  BY <1>3 DEF IInv, StatementsOK
<1>6. \A j \in DOMAIN lowerings : BlockOK(lowerings[j], s.maxQubit, s.maxResult, n)
  BY <1>3, <1>4 DEF IInv, LoweringsOK, BlockOK
<1> QED
  BY <1>2, <1>5, <1>6

\* The block being lowered is one of the module's, and so is the instruction.
LEMMA AtBlock ==
  ASSUME IInv, BlocksLeft
  PROVE  /\ Current \in DOMAIN module.blocks
         /\ IsSeq(Insts) /\ Len(Insts) \in Nat
         /\ \A c \in DOMAIN module.signatures : IsSeq(module.signatures[c].params)
         /\ pc <= Len(Insts) => ParsedInst(Inst)
<1>1. module \in Modules /\ Len(lowerings) \in Nat /\ pc \in 1..(Len(Insts) + 1)
  BY DEF IInv, Position, BlocksLeft
<1>2. IsSeq(module.blocks)
  BY <1>1, ModulesAssumption DEF ParsedModule
<1>3. Current \in DOMAIN module.blocks
  BY <1>1, <1>2 DEF IsSeq, BlocksLeft, Current
<1>4. IsSeq(Insts) /\ \A k \in DOMAIN Insts : ParsedInst(Insts[k])
  BY <1>1, <1>3, ModulesAssumption DEF ParsedModule, Insts
<1>5. Len(Insts) \in Nat /\ DOMAIN Insts = 1..Len(Insts)
  BY <1>4 DEF IsSeq
<1>6. pc <= Len(Insts) => ParsedInst(Inst)
  BY <1>1, <1>4, <1>5 DEF Inst
<1> QED
  BY <1>1, <1>3, <1>4, <1>5, <1>6, ModulesAssumption DEF ParsedModule

\* The walk goes on inside the block.
LEMMA NextInstruction ==
  ASSUME IInv, BlocksLeft, pc <= Len(Insts), pc' = pc + 1,
         UNCHANGED <<module, status>>, Len(lowerings') = Len(lowerings)
  PROVE  Position'
<1>1. Insts' = Insts /\ BlocksLeft'
  BY DEF Insts, Current, BlocksLeft
<1>2. pc \in 1..(Len(Insts) + 1) /\ Len(Insts) \in Nat
  BY AtBlock DEF IInv, Position
<1> QED
  BY <1>1, <1>2 DEF IInv, Position

LEMMA BindStep ==
  ASSUME IInv, BlocksLeft, pc <= Len(Insts), NEW s,
         TableOK(s, Len(ints)), Grown(symbols, s), Bind(s)
  PROVE  IInv'
<1>1. Position'
  BY NextInstruction DEF Bind
<1>2. TableOK(symbols', Len(ints'))
  BY DEF Bind
<1>3. IntsOK' /\ StatementsOK' /\ LoweringsOK'
  BY CoveredMore, IntsLength DEF Bind, IInv, IntsOK, StatementsOK, LoweringsOK
<1>4. RegistersSized'
  BY DEF RegistersSized, Bind, BlocksLeft
<1> QED
  BY <1>1, <1>2, <1>3, <1>4 DEF IInv

LEMMA CallStep == ASSUME IInv, CallArm PROVE IInv'
<1> USE DEF IInv
<1>1. BlocksLeft /\ pc <= Len(Insts) /\ Inst.kind = "call"
  BY DEF CallArm, At
<1>2. PICK o \in LowerCall(symbols, module.signatures, Inst) :
        symbols' = o.symbols /\ statements' = statements \o o.stmts
  BY DEF CallArm
<1>3. /\ pc' = pc + 1
      /\ UNCHANGED <<module, status, lowerings, ints, registers>>
  BY DEF CallArm
<1>4. IsSeq(Inst.args) /\ PointersParsed(Inst.args)
  BY <1>1, AtBlock DEF ParsedInst, PointersParsed, Index, FitsI64
<1>5. OutcomeOK(symbols, Len(ints), o)
  BY <1>1, <1>4, AtBlock, LowerCallOK, IntsLength
<1>6. TableOK(symbols', Len(ints')) /\ Grown(symbols, symbols')
  BY <1>2, <1>3, <1>5 DEF OutcomeOK
<1>7. Position'
  BY <1>1, <1>3, NextInstruction
<1>8. IntsOK' /\ LoweringsOK'
  BY <1>3, <1>6, CoveredMore, IntsLength DEF IntsOK, LoweringsOK
<1>9. StatementsOK'
  <2>1. \A k \in DOMAIN statements :
          StatementOK(statements[k], symbols'.maxQubit, symbols'.maxResult, Len(ints'))
    BY <1>3, <1>6, CoveredMore, IntsLength
  <2>2. /\ IsSeq(o.stmts)
        /\ \A k \in DOMAIN o.stmts :
             StatementOK(o.stmts[k], symbols'.maxQubit, symbols'.maxResult, Len(ints'))
    BY <1>2, <1>3, <1>5 DEF OutcomeOK
  <2>3. /\ IsSeq(statements \o o.stmts)
        /\ \A k \in DOMAIN (statements \o o.stmts) :
             (statements \o o.stmts)[k] \in Listed(statements) \cup Listed(o.stmts)
    BY <2>2, ConcatFacts DEF StatementsOK
  <2> QED
    BY <1>2, <2>1, <2>2, <2>3 DEF StatementsOK, Listed
<1>10. RegistersSized'
  BY <1>1, <1>3 DEF RegistersSized, BlocksLeft
<1> QED
  BY <1>6, <1>7, <1>8, <1>9, <1>10

\* The arms of the classical instructions.
LEMMA ClassicalStep ==
  ASSUME IInv, IcmpArm \/ BinaryI1Arm \/ SelectArm \/ IntArithArm
  PROVE  IInv'
<1>1. BlocksLeft /\ pc <= Len(Insts)
  BY DEF IcmpArm, BinaryI1Arm, SelectArm, IntArithArm, At
<1>2. PICK s : Bind(s) /\ \/ s \in LowerIcmp(symbols, Inst) \/ s \in LowerBinaryI1(symbols, Inst)
                          \/ s \in LowerSelect(symbols, Inst)
                          \/ s \in LowerIntArith(symbols, Inst)
  BY DEF IcmpArm, BinaryI1Arm, SelectArm, IntArithArm
<1>3. TableOK(symbols, Len(ints))
  BY DEF IInv
<1>4. TableOK(s, Len(ints)) /\ Grown(symbols, s)
  BY <1>2, <1>3, IcmpOK, BinaryI1OK, SelectOK, IntArithOK
<1> QED
  BY <1>1, <1>2, <1>4, BindStep

\* The constant an inttoptr resolves to is an i64.
LEMMA PtrIndexFits == \A op : \A n \in PtrIndex(op) : Index(n)
BY DEF PtrIndex, FitsI64, Index

\* The arms that bind a pointer, a slot, a constant or an old binding.
LEMMA PointerStep ==
  ASSUME IInv,
         ZextArm \/ IntToPtrArm \/ AllocaArm \/ AliasArm \/ StoreArm \/ LoadArm \/ IgnoredArm
  PROVE  IInv'
<1>1. BlocksLeft /\ pc <= Len(Insts)
  BY DEF ZextArm, IntToPtrArm, AllocaArm, AliasArm, StoreArm, LoadArm, IgnoredArm, At
<1>2. TableOK(symbols, Len(ints))
  BY DEF IInv
<1> DEFINE Good(s) == TableOK(s, Len(ints)) /\ Grown(symbols, s)
<1>3. Good(symbols)
  BY <1>2 DEF Grown, TableOK
<1>4. CASE ZextArm
  <2>1. PICK x \in LookupSsa(symbols, Inst.src) : Bind(RecordSsa(symbols, Inst.result, x))
    BY <1>4 DEF ZextArm
  <2>2. Good(RecordSsa(symbols, Inst.result, x))
    BY <1>2, LookupWithin, RecordSsaOK
  <2> QED
    BY <1>1, <2>1, <2>2, BindStep
<1>5. CASE IntToPtrArm
  <2>1. PICK n \in PtrIndex(Inst.src) : Bind(RecordPtrIndex(symbols, Inst.result, n))
    BY <1>5 DEF IntToPtrArm
  <2>2. Good(RecordPtrIndex(symbols, Inst.result, n))
    BY <1>2, PtrIndexFits, SlotsOK
  <2> QED
    BY <1>1, <2>1, <2>2, BindStep
<1>6. CASE AllocaArm \/ AliasArm \/ StoreArm
  <2>1. PICK s : Bind(s) /\ \/ s = RecordAlloca(symbols, Inst.result)
                            \/ s = RecordAlias(symbols, Inst.result, Inst.src, Inst.offset)
                            \/ s = StoreToSlot(symbols, Inst.ptr, Inst.value)
    BY <1>6 DEF AllocaArm, AliasArm, StoreArm
  <2>2. Good(s)
    BY <1>2, <2>1, SlotsOK
  <2> QED
    BY <1>1, <2>1, <2>2, BindStep
<1>7. CASE LoadArm
  <2>1. \/ \E x \in LoadFromSlot(symbols, Inst.ptr) : Bind(RecordSsa(symbols, Inst.result, x))
        \/ Bind(symbols)
    BY <1>7 DEF LoadArm
  <2>2. \A x \in LoadFromSlot(symbols, Inst.ptr) : Good(RecordSsa(symbols, Inst.result, x))
    BY <1>2, LoadWithin, RecordSsaOK
  <2> QED
    BY <1>1, <1>3, <2>1, <2>2, BindStep
<1>8. CASE IgnoredArm
  BY <1>1, <1>3, <1>8, BindStep DEF IgnoredArm
<1> QED
  BY <1>4, <1>5, <1>6, <1>7, <1>8

\* The conditions a phi combines were computed for blocks lowered before.
LEMMA PhiI1Step == ASSUME IInv, PhiI1Arm PROVE IInv'
<1>1. BlocksLeft /\ pc <= Len(Insts)
  BY DEF PhiI1Arm, At
<1>2. PICK s \in LowerPhiI1(symbols, Inst, PredConditions) : Bind(s)
  BY DEF PhiI1Arm
<1>3. \A p \in DOMAIN PredConditions : \A x \in PredConditions[p] :
        Within(x, symbols.maxResult, Len(ints))
  <2>1. \A p \in DOMAIN PredConditions : PredConditions[p] \subseteq Conditions
    BY DEF PredConditions, Conditions
  <2> QED
    BY <2>1, ConditionsCovered
<1>4. TableOK(s, Len(ints)) /\ Grown(symbols, s)
  <2> HIDE DEF PredConditions
  <2> QED
    BY <1>3, PhiI1OK DEF IInv
<1> QED
  BY <1>1, <1>2, <1>4, BindStep

LEMMA LandingPadStep == ASSUME IInv, LandingPadArm PROVE IInv'
<1>1. BlocksLeft /\ pc <= Len(Insts)
  BY DEF LandingPadArm, IsIntegerPhi, At
<1>2. PICK x \in LandingPadValue : Bind(RecordSsa(symbols, Inst.result, x))
  BY DEF LandingPadArm
<1>3. \E y \in Conditions : x = y \/ x = Bin("-", Integer(1), y)
  <2> DEFINE a == Inst.incomings[1]
             b == Inst.incomings[2]
             ancestors == {j \in DOMAIN lowerings :
                             /\ lowerings[j].condition # {}
                             /\ Len(lowerings[j].targets) = 2
                             /\ {a.pred, b.pred} \subseteq Listed(lowerings[j].targets)}
             none == \/ ConstantI1(a.value) = {} \/ ConstantI1(b.value) = {}
                     \/ ConstantI1(a.value) = ConstantI1(b.value)
                     \/ ~LandingPad(a.pred) \/ ~LandingPad(b.pred)
             onTrue(j) == IF a.pred = lowerings[j].targets[1] THEN a.value ELSE b.value
             direct(j) == TRUE \in ConstantI1(onTrue(j))
             values(j) == {IF direct(j) THEN y ELSE Bin("-", Integer(1), y) :
                             y \in lowerings[j].condition}
  <2>1. LandingPadValue = IF none THEN {} ELSE UNION {values(j) : j \in First(ancestors)}
    BY DEF LandingPadValue
  <2>2. First(ancestors) \subseteq DOMAIN lowerings
    BY DEF First
  <2> HIDE DEF none, direct, ancestors
  <2>3. PICK j \in First(ancestors) : x \in values(j)
    <3> HIDE DEF values
    <3> QED
      BY <1>2, <2>1
  <2>4. PICK y \in lowerings[j].condition : x = y \/ x = Bin("-", Integer(1), y)
    BY <2>3
  <2>5. y \in Conditions
    BY <2>2, <2>3 DEF Conditions
  <2> QED
    BY <2>4, <2>5
<1>4. Within(x, symbols.maxResult, Len(ints))
  BY <1>3, ConditionsCovered, BinWithin, LiteralWithin
<1>5. TableOK(RecordSsa(symbols, Inst.result, x), Len(ints))
      /\ Grown(symbols, RecordSsa(symbols, Inst.result, x))
  BY <1>4, RecordSsaOK DEF IInv
<1> QED
  BY <1>1, <1>2, <1>5, BindStep

\* A block ends: its statements move from the one being built to the lowered.
LEMMA FinishStep ==
  ASSUME IInv, BrArm \/ RetArm \/ BrCondArm \/ EndOfBlock
  PROVE  IInv'
<1> USE DEF IInv
<1>1. BlocksLeft
  BY DEF BrArm, RetArm, BrCondArm, EndOfBlock, At
<1> DEFINE Ends(condition, targets) ==
             /\ FinishBlock(condition, targets)
             /\ \A x \in condition : Within(x, symbols.maxResult, Len(ints))
             /\ Len(targets) \in Nat /\ Len(targets) <= 2
             /\ condition = {} <=> Len(targets) # 2
<1>2. \E condition, targets : Ends(condition, targets)
  <2>1. CASE BrArm \/ RetArm \/ EndOfBlock
    <3>1. FinishBlock({}, <<Inst.target>>) \/ FinishBlock({}, <<>>)
      BY <2>1 DEF BrArm, RetArm, EndOfBlock
    <3>2. ASSUME FinishBlock({}, <<Inst.target>>)  PROVE Ends({}, <<Inst.target>>)
      BY <3>2
    <3>3. ASSUME FinishBlock({}, <<>>)  PROVE Ends({}, <<>>)
      BY <3>3
    <3> HIDE DEF Ends
    <3> QED
      BY <3>1, <3>2, <3>3
  <2>2. CASE BrCondArm
    <3>1. PICK x \in BranchOn(Inst.cond) : FinishBlock({x}, Inst.targets)
      BY <2>2 DEF BrCondArm
    <3>2. Within(x, symbols.maxResult, Len(ints))
      BY LookupWithin, LiteralWithin DEF BranchOn
    <3>3. Len(Inst.targets) = 2
      BY <1>1, <2>2, AtBlock DEF BrCondArm, At, ParsedInst
    <3>4. Ends({x}, Inst.targets)
      BY <3>1, <3>2, <3>3
    <3> HIDE DEF Ends
    <3> QED
      BY <3>4
  <2> QED
    BY <2>1, <2>2
<1> HIDE DEF Ends
<1>3. PICK condition, targets : Ends(condition, targets)
  BY <1>2
<1> USE DEF Ends
<1> DEFINE l == Lowering(CurrentName, statements, condition, targets)
<1>4. /\ lowerings' = Append(lowerings, l) /\ statements' = <<>> /\ pc' = 1
      /\ UNCHANGED <<module, status, symbols, ints, registers>>
  BY <1>3 DEF FinishBlock
<1>5. BlockOK(l, symbols.maxQubit, symbols.maxResult, Len(ints))
  BY <1>3 DEF BlockOK, Lowering, StatementsOK
<1> HIDE DEF l
<1>6. /\ IsSeq(lowerings') /\ Len(lowerings') = Len(lowerings) + 1
      /\ \A j \in DOMAIN lowerings' :
           lowerings'[j] = IF j \in DOMAIN lowerings THEN lowerings[j] ELSE l
  BY <1>4, AppendFacts DEF LoweringsOK
<1>7. LoweringsOK'
  BY <1>4, <1>5, <1>6 DEF LoweringsOK
<1>8. Position'
  <2>1. module' \in Modules /\ status' \in {"lowering", "reducing", "translated", "rejected"}
    BY <1>4 DEF Position
  <2>2. /\ Len(lowerings) \in Nat /\ Len(module.blocks) \in Nat
        /\ Len(lowerings) + 1 <= Len(module.blocks)
    BY <1>1, ModulesAssumption DEF ParsedModule, Position, BlocksLeft, Current, IsSeq
  <2>3. Len(lowerings') \in 0..Len(module'.blocks)
    BY <1>4, <1>6, <2>2
  <2>4. BlocksLeft' => Len(Insts') \in Nat
    <3> SUFFICES ASSUME BlocksLeft'  PROVE Len(module.blocks[Current'].insts) \in Nat
      BY <1>4 DEF Insts
    <3>1. Current' \in 1..Len(module.blocks)
      BY <1>4, <1>6, <2>2 DEF Current, BlocksLeft
    <3>2. IsSeq(module.blocks[Current'].insts)
      BY <3>1, ModulesAssumption DEF ParsedModule, Position, IsSeq
    <3> QED
      BY <3>2 DEF IsSeq
  <2> QED
    BY <1>4, <2>1, <2>3, <2>4 DEF Position
<1>9. StatementsOK'
  BY <1>4 DEF StatementsOK, IsSeq, Listed
<1>10. TableOK(symbols', Len(ints')) /\ IntsOK' /\ RegistersSized'
  BY <1>4 DEF IntsOK, RegistersSized, TooLarge
<1> QED
  BY <1>7, <1>8, <1>9, <1>10

\* The end of the call, either way.
LEMMA EndStep ==
  ASSUME IInv, RefuseInstruction \/ HandOver \/ CfgRefused \/ RefuseSize \/ SizeRegisters
  PROVE  IInv'
<1> USE DEF IInv
<1>1. /\ UNCHANGED <<module, lowerings, statements, pc, symbols, ints>>
      /\ status' \in {"reducing", "translated", "rejected"}
  BY DEF RefuseInstruction, HandOver, CfgRefused, RefuseSize, SizeRegisters, Stop
<1>2. pc \in Nat
  BY AtBlock DEF Position
<1>3. Position'
  BY <1>1, <1>2 DEF Position, BlocksLeft
<1>4. TableOK(symbols', Len(ints')) /\ IntsOK' /\ StatementsOK' /\ LoweringsOK'
  BY <1>1 DEF IntsOK, StatementsOK, LoweringsOK
<1>5. RegistersSized'
  BY <1>1 DEF RegistersSized, RefuseInstruction, HandOver, CfgRefused, RefuseSize,
              SizeRegisters, Stop, TooLarge
<1> QED
  BY <1>3, <1>4, <1>5

\* What an if-merge does to the variables and to the blocks: at most one variable
\* is added, and one block, if any, grows by an assignment to a declared one.
Merged ==
  /\ IsSeq(ints') /\ Len(ints) <= Len(ints')
  /\ \A k \in DOMAIN ints' : Within(ints'[k], symbols.maxResult, k - 1)
  /\ \E k, y :
       /\ k \in 0..Len(ints) /\ k < Len(ints') /\ Within(y, symbols.maxResult, Len(ints))
       /\ symbols' = RecordSsa(symbols, Inst.result, IntVar(k))
       /\ \E j \in DOMAIN lowerings :
            /\ lowerings[j].condition = {}
            /\ \/ lowerings' = lowerings
               \/ lowerings' = [lowerings EXCEPT ![j].statements = Append(@, Assign(k, y))]

LEMMA IfMergeDoes == ASSUME IInv, IfMergeArm PROVE Merged
<1> USE DEF IInv
<1>1. PICK c \in Merges :
        MergePhi(Inst.incomings[c[1]], Inst.incomings[3 - c[1]], c[2], c[3])
  BY DEF IfMergeArm
<1> DEFINE initial == Inst.incomings[c[1]]
           update  == Inst.incomings[3 - c[1]]
           x == c[2]
           y == c[3]
           k == MergeVariable(x)
<1>2. /\ c[1] \in InitialIncoming
      /\ x \in ResolveInteger(symbols, initial.value)
      /\ y \in ResolveInteger(symbols, update.value)
  BY DEF Merges
<1>3. Within(x, symbols.maxResult, Len(ints)) /\ Within(y, symbols.maxResult, Len(ints))
  BY <1>2, ResolveIntegerWithin
<1>4. k \in 0..Len(ints) /\ (k # Len(ints) => k < Len(ints))
  BY <1>3, IntsLength DEF MergeVariable, Within
<1>5. \A j \in Named(update.pred) : j \in DOMAIN lowerings /\ lowerings[j].condition = {}
  <2>1. Named(initial.pred) # {} /\ IfMerge(initial, update)
    BY <1>2 DEF InitialIncoming
  <2> HIDE DEF initial, update
  <2> QED
    BY <2>1 DEF IfMerge, Named, First
<1>6. PICK j \in Named(update.pred) :
        \/ lowerings' = lowerings
        \/ lowerings' = [lowerings EXCEPT ![j].statements = Append(@, Assign(k, y))]
  BY <1>1 DEF MergePhi
<1>7. /\ ints' = IF k = Len(ints) THEN Append(ints, x) ELSE ints
      /\ symbols' = RecordSsa(symbols, Inst.result, IntVar(k))
  BY <1>1 DEF MergePhi
<1> HIDE DEF initial, update, x, y, k
<1>8. /\ IsSeq(ints') /\ Len(ints) <= Len(ints') /\ k < Len(ints')
      /\ \A i \in DOMAIN ints' : Within(ints'[i], symbols.maxResult, i - 1)
  <2>1. CASE k = Len(ints)
    <3>1. ints' = Append(ints, x)
      BY <1>7, <2>1
    <3>2. /\ IsSeq(ints') /\ Len(ints') = Len(ints) + 1
          /\ DOMAIN ints' = DOMAIN ints \cup {Len(ints) + 1}
          /\ \A i \in DOMAIN ints' : ints'[i] = IF i \in DOMAIN ints THEN ints[i] ELSE x
      BY <3>1, AppendFacts DEF IntsOK
    <3> QED
      BY <1>3, <2>1, <3>2, IntsLength DEF IntsOK
  <2>2. CASE k # Len(ints)
    BY <1>4, <1>7, <2>2, IntsLength DEF IntsOK
  <2> QED
    BY <2>1, <2>2
<1> QED
  BY <1>3, <1>4, <1>5, <1>6, <1>7, <1>8 DEF Merged

LEMMA IfMergeStep == ASSUME IInv, IfMergeArm PROVE IInv'
<1> USE DEF IInv
<1>1. BlocksLeft /\ pc <= Len(Insts)
  BY DEF IfMergeArm, IsIntegerPhi, At
<1>2. pc' = pc + 1 /\ UNCHANGED <<module, status, statements, registers>>
  BY DEF IfMergeArm
<1>3. Merged
  BY IfMergeDoes
<1> DEFINE n == Len(ints')
           m == symbols.maxResult
<1>4. /\ IsSeq(ints') /\ Len(ints) <= n /\ n \in Nat /\ Len(ints) \in Nat
      /\ \A k \in DOMAIN ints' : Within(ints'[k], m, k - 1)
  BY <1>3, IntsLength DEF Merged, IsSeq
<1>5. PICK k, y :
        /\ k \in 0..Len(ints) /\ k < n /\ Within(y, m, Len(ints))
        /\ symbols' = RecordSsa(symbols, Inst.result, IntVar(k))
        /\ \E j \in DOMAIN lowerings :
             /\ lowerings[j].condition = {}
             /\ \/ lowerings' = lowerings
                \/ lowerings' = [lowerings EXCEPT ![j].statements = Append(@, Assign(k, y))]
  BY <1>3 DEF Merged
<1> HIDE DEF n
<1>6. m \in Int /\ symbols.maxQubit \in Int
  BY DEF TableOK
<1>7. TableOK(symbols, n)
  <2>1. \A z : Within(z, m, Len(ints)) => Within(z, m, n)
    BY <1>4, <1>6, WithinMore
  <2> QED
    BY <2>1 DEF TableOK
<1>8. TableOK(symbols', n) /\ symbols'.maxResult = m /\ symbols'.maxQubit = symbols.maxQubit
  <2>1. Within(IntVar(k), m, n)
    BY <1>5 DEF Within, IntVar
  <2>2. symbols'.maxResult = m /\ symbols'.maxQubit = symbols.maxQubit
    BY <1>5 DEF RecordSsa, TableOK, IsTable
  <2> QED
    BY <1>5, <1>7, <2>1, <2>2, RecordSsaOK
<1>9. Grown(symbols, symbols')
  BY <1>6, <1>8 DEF Grown
<1>10. IntsOK'
  BY <1>4, <1>8 DEF IntsOK
<1>11. StatementsOK'
  BY <1>2, <1>4, <1>8, <1>9, CoveredMore DEF StatementsOK, n
<1>12. \A j \in DOMAIN lowerings : BlockOK(lowerings[j], symbols.maxQubit, m, n)
  BY <1>4, <1>8, <1>9, CoveredMore
<1>13. /\ IsSeq(lowerings') /\ Len(lowerings') = Len(lowerings)
       /\ \A j \in DOMAIN lowerings' : BlockOK(lowerings'[j], symbols.maxQubit, m, n)
  <2>1. CASE lowerings' = lowerings
    BY <1>12, <2>1 DEF LoweringsOK
  <2>2. CASE lowerings' # lowerings
    <3>1. PICK j \in DOMAIN lowerings :
            lowerings' = [lowerings EXCEPT ![j].statements = Append(@, Assign(k, y))]
      BY <1>5, <2>2
    <3> DEFINE l == lowerings[j]
               s == Append(l.statements, Assign(k, y))
               l2 == Lowering(l.name, s, l.condition, l.targets)
    <3>2. BlockOK(l, symbols.maxQubit, m, n)
      BY <1>12
    <3>3. StatementOK(Assign(k, y), symbols.maxQubit, m, n)
      <4>1. Within(y, m, n)
        BY <1>4, <1>5, <1>6, WithinMore
      <4> QED
        BY <1>4, <1>5, <1>6, <4>1, OtherStatementsOK
    <3>4. /\ IsSeq(s)
          /\ \A i \in DOMAIN s : StatementOK(s[i], symbols.maxQubit, m, n)
      BY <3>2, <3>3, AppendFacts DEF BlockOK
    <3>5. [l EXCEPT !.statements = s] = l2
      <4>1. l = Lowering(l.name, l.statements, l.condition, l.targets)
        BY <3>2 DEF BlockOK
      <4> HIDE DEF l, s
      <4> QED
        BY <4>1 DEF Lowering
    <3>6. lowerings' = [lowerings EXCEPT ![j] = l2]
      BY <3>1, <3>5
    <3>7. BlockOK(l2, symbols.maxQubit, m, n)
      <4> HIDE DEF s
      <4> QED
        BY <3>2, <3>4 DEF BlockOK, Lowering
    <3> HIDE DEF l, s, l2
    <3>8. lowerings \in Seq(Listed(lowerings) \cup {l2})
      BY DEF LoweringsOK, IsSeq
    <3>9. /\ lowerings' \in Seq(Listed(lowerings) \cup {l2}) /\ Len(lowerings') = Len(lowerings)
          /\ DOMAIN lowerings' = DOMAIN lowerings
          /\ \A i \in DOMAIN lowerings : lowerings'[i] = IF i = j THEN l2 ELSE lowerings[i]
      BY <3>6, <3>8
    <3>10. IsSeq(lowerings')
      BY <3>9 DEF IsSeq, Listed
    <3> QED
      BY <1>12, <3>7, <3>9, <3>10
  <2> QED
    BY <2>1, <2>2
<1>14. LoweringsOK'
  BY <1>8, <1>13 DEF LoweringsOK, n
<1>15. Position'
  BY <1>1, <1>2, <1>13, NextInstruction
<1>16. RegistersSized'
  BY <1>1, <1>2 DEF RegistersSized, BlocksLeft
<1> QED
  BY <1>8, <1>10, <1>11, <1>14, <1>15, <1>16 DEF n

-----------------------------------------------------------------------------
(* The theorems.                                                           *)

LEMMA Initially == ASSUME Init PROVE IInv
<1>1. module \in Modules /\ IsSeq(module.blocks) /\ module.blocks # <<>>
  BY ModulesAssumption DEF ParsedModule, Init
<1>2. Position
  <2>1. Len(module.blocks) \in Nat /\ DOMAIN module.blocks = 1..Len(module.blocks)
    BY <1>1 DEF IsSeq
  <2>2. BlocksLeft => Len(Insts) \in Nat
    BY <1>1, <2>1, ModulesAssumption DEF ParsedModule, Init, BlocksLeft, Current, Insts, IsSeq
  <2> QED
    BY <1>1, <2>1, <2>2 DEF Init, Position
<1>3. TableOK(symbols, Len(ints))
  BY EmptyTableOK DEF Init
<1>4. IntsOK /\ StatementsOK /\ LoweringsOK
  BY DEF Init, IntsOK, StatementsOK, LoweringsOK, IsSeq, Listed
<1>5. RegistersSized
  BY DEF Init, RegistersSized
<1> QED
  BY <1>2, <1>3, <1>4, <1>5 DEF IInv

LEMMA Stuttering == ASSUME IInv, UNCHANGED vars PROVE IInv'
BY DEF vars, IInv, Position, BlocksLeft, Current, Insts, IntsOK, StatementsOK,
       LoweringsOK, RegistersSized, TooLarge

LEMMA Inductive == ASSUME IInv, [Next]_vars PROVE IInv'
<1>1. CASE CallArm
  BY <1>1, CallStep
<1>2. CASE IcmpArm \/ BinaryI1Arm \/ SelectArm \/ IntArithArm
  BY <1>2, ClassicalStep
<1>3. CASE ZextArm \/ IntToPtrArm \/ AllocaArm \/ AliasArm \/ StoreArm \/ LoadArm \/ IgnoredArm
  BY <1>3, PointerStep
<1>4. CASE PhiI1Arm
  BY <1>4, PhiI1Step
<1>5. CASE LandingPadArm
  BY <1>5, LandingPadStep
<1>6. CASE IfMergeArm
  BY <1>6, IfMergeStep
<1>7. CASE BrArm \/ RetArm \/ BrCondArm \/ EndOfBlock
  BY <1>7, FinishStep
<1>8. CASE RefuseInstruction \/ HandOver \/ CfgRefused \/ RefuseSize \/ SizeRegisters
  BY <1>8, EndStep
<1>9. CASE UNCHANGED vars
  BY <1>9, Stuttering
<1> QED
  BY <1>1, <1>2, <1>3, <1>4, <1>5, <1>6, <1>7, <1>8, <1>9 DEF Next

\* The walk stays inside the blocks, and the recorded maxima never fall below -1.
THEOREM TypeCorrect == Spec => []TypeOK
<1>1. Init => IInv
  BY Initially
<1>2. IInv /\ [Next]_vars => IInv'
  BY Inductive
<1>3. IInv => TypeOK
  BY IInvImplies
<1> QED
  BY <1>1, <1>2, <1>3, PTL DEF Spec

\* For every module: once translated, the registers that build_program declares
\* cover every qubit and bit in the statements, conditions and declarations, and
\* their sizes, one more than the largest indexes, are i64 values.
THEOREM RegistersCover == Spec => []RegistersCoverProgram
<1>1. Init => IInv
  BY Initially
<1>2. IInv /\ [Next]_vars => IInv'
  BY Inductive
<1>3. IInv => RegistersCoverProgram
  BY IInvImplies
<1> QED
  BY <1>1, <1>2, <1>3, PTL DEF Spec

\* For every module: what lower_block returns has a condition exactly when it has
\* two targets, which the expects of lower_cfg rely on.
THEOREM LoweredBlocksOK == Spec => []LoweredBlocksWellFormed
<1>1. Init => IInv
  BY Initially
<1>2. IInv /\ [Next]_vars => IInv'
  BY Inductive
<1>3. IInv => LoweredBlocksWellFormed
  BY IInvImplies
<1> QED
  BY <1>1, <1>2, <1>3, PTL DEF Spec

\* For every module: no int variable of a phi is read or assigned undeclared, and
\* the declarations at the top of the program are in an order that can be run.
THEOREM IntsDeclared == Spec => []IntsDeclaredBeforeUse
<1>1. Init => IInv
  BY Initially
<1>2. IInv /\ [Next]_vars => IInv'
  BY Inductive
<1>3. IInv => IntsDeclaredBeforeUse
  BY IInvImplies
<1> QED
  BY <1>1, <1>2, <1>3, PTL DEF Spec

Grows == \A j \in DOMAIN lowerings : OnlyAppended(lowerings[j], lowerings'[j])

\* Every arm but the if-merge leaves the blocks lowered before as they are.
LEMMA StepGrows == ASSUME IInv, [Next]_vars PROVE Grows
<1>1. CASE UNCHANGED lowerings
  BY <1>1 DEF Grows, OnlyAppended
<1>2. CASE BrArm \/ RetArm \/ BrCondArm \/ EndOfBlock
  <2>1. PICK l : lowerings' = Append(lowerings, l)
    BY <1>2 DEF BrArm, RetArm, BrCondArm, EndOfBlock, FinishBlock
  <2>2. \A j \in DOMAIN lowerings : lowerings'[j] = lowerings[j]
    BY <2>1, AppendFacts DEF IInv, LoweringsOK
  <2> QED
    BY <2>2 DEF Grows, OnlyAppended
<1>3. CASE IfMergeArm
  <2>1. Merged
    BY <1>3, IfMergeDoes
  <2> DEFINE Assigned(k, y) ==
               \E j \in DOMAIN lowerings :
                 /\ lowerings[j].condition = {}
                 /\ \/ lowerings' = lowerings
                    \/ lowerings' = [lowerings EXCEPT ![j].statements = Append(@, Assign(k, y))]
  <2>2. PICK k, y : k \in 0..Len(ints) /\ Assigned(k, y)
    BY <2>1, Zenon DEF Merged
  <2>3. PICK j \in DOMAIN lowerings :
          /\ lowerings[j].condition = {}
          /\ \/ lowerings' = lowerings
             \/ lowerings' = [lowerings EXCEPT ![j].statements = Append(@, Assign(k, y))]
    BY <2>2
  <2>4. CASE lowerings' = lowerings
    BY <2>4 DEF Grows, OnlyAppended
  <2>5. CASE lowerings' # lowerings
    <3> DEFINE l == lowerings[j]
               s == Append(l.statements, Assign(k, y))
               l2 == [l EXCEPT !.statements = s]
    <3>1. \A i \in DOMAIN lowerings : lowerings'[i] = IF i = j THEN l2 ELSE lowerings[i]
      BY <2>3, <2>5
    <3>2. /\ IsSeq(l.statements)
          /\ l = Lowering(l.name, l.statements, l.condition, l.targets)
      BY DEF IInv, LoweringsOK, BlockOK
    <3>3. s[Len(s)] = Assign(k, y)
      BY <3>2, AppendFacts
    <3>4. l2.statements = s
      <4> HIDE DEF l, s
      <4> QED
        BY <3>2 DEF Lowering
    <3>5. y = l2.statements[Len(l2.statements)].value
      BY <3>3, <3>4 DEF Assign
    <3>6. OnlyAppended(l, l2)
      <4> HIDE DEF l2
      <4>1. l2 = [l EXCEPT !.statements = Append(@, Assign(k, y))]
        BY DEF l2
      <4> HIDE DEF l
      <4> QED
        BY <2>2, <2>3, <3>5, <4>1 DEF OnlyAppended, l
    <3> QED
      BY <3>1, <3>6 DEF Grows, OnlyAppended
  <2> QED
    BY <2>4, <2>5
<1> QED
  BY <1>1, <1>2, <1>3
     DEF Next, vars, CallArm, IcmpArm, BinaryI1Arm, SelectArm, IntArithArm, ZextArm,
         IntToPtrArm, AllocaArm, AliasArm, StoreArm, LoadArm, IgnoredArm, PhiI1Arm,
         LandingPadArm, Bind, RefuseInstruction, HandOver, CfgRefused, RefuseSize,
         SizeRegisters, Stop

\* For every module: lowering a phi changes an earlier block only at its end, and
\* never one that ends in a conditional br.
THEOREM BlocksOnlyGrow == Spec => LoweredBlocksOnlyGrow
<1>1. Init => IInv
  BY Initially
<1>2. IInv /\ [Next]_vars => IInv'
  BY Inductive
<1>3. IInv /\ [Next]_vars => [Grows]_vars
  BY StepGrows
<1> QED
  BY <1>1, <1>2, <1>3, PTL DEF Spec, LoweredBlocksOnlyGrow, Grows
===============================================================================
