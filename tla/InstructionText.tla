--------------------------- MODULE InstructionText ---------------------------
(***************************************************************************)
(* One logical line of a function body, read as an instruction: the         *)
(* instruction and operand parsers of ir/parser.rs over parser_util.rs.      *)
(*                                                                         *)
(* A line is a sequence of tokens <<class, value>>.  A parser returns the   *)
(* set of its results: one, or none where the code returns an error (or,    *)
(* for the recognizers of memory instructions, None).                      *)
(***************************************************************************)
EXTENDS Qir, FiniteSets, TLC

W(w)      == <<"word", w>>     \* a keyword, a type, a punctuation mark
Local(k)  == <<"%", k>>
Global(c) == <<"@", c>>
Struct(s) == <<"%*", s>>       \* %Qubit* or %"Qubit"*
Num(n)    == <<"int", n>>
Real(f)   == <<"real", f>>     \* decimal, or hexadecimal bits
Str(s)    == <<"string", s>>
Hash(n)   == <<"#", n>>        \* an attribute group
Label(n)  == <<":", n>>        \* an identifier or a quoted number, and a colon

Class(s, n) == IF n \in DOMAIN s THEN s[n][1] ELSE "none"
HeadIs(s, t) == s # <<>> /\ s[1] = t
From(s, n)  == SubSeq(s, n, Len(s))
Least(S)    == {n \in S : \A m \in S : n <= m}

\* Where the first token of S stands in s; after the end if it has none.
FirstIn(s, S) ==
  CHOOSE n \in 1..(Len(s) + 1) :
    /\ n <= Len(s) => s[n] \in S
    /\ \A m \in 1..(n - 1) : s[m] \notin S

DropLeading(s, S) ==
  From(s, CHOOSE n \in 1..(Len(s) + 1) :
            /\ n <= Len(s) => s[n] \notin S
            /\ \A m \in 1..(n - 1) : s[m] \in S)

\* strip_trailing_comment
Live(line) == SubSeq(line, 1, FirstIn(line, {W(";")}) - 1)

-----------------------------------------------------------------------------
(* Brackets.                                                               *)

Parens  == <<{W("(")}, {W(")")}>>
Braces  == <<{W("{")}, {W("}")}>>
Wraps   == <<{W("("), W("[")}, {W(")"), W("]")}>>
Brackets == <<{W("{"), W("["), W("<"), W("(")}, {W("}"), W("]"), W(">"), W(")")}>>

\* How deep the brackets are nested after the first n tokens of s.
Nesting(s, kinds) ==
  LET d[n \in 0..Len(s)] ==
        IF n = 0 THEN 0
        ELSE d[n - 1] + (IF s[n] \in kinds[1] THEN 1
                         ELSE IF s[n] \in kinds[2] THEN -1 ELSE 0)
  IN  d

\* The bracket that closes the one s begins with.
Closing(s, kinds) ==
  LET d == Nesting(s, kinds)
  IN  Least({n \in DOMAIN s : s[n] \in kinds[2] /\ d[n] = 0})

\* The numbers of S in increasing order.
Ordered(S) ==
  [k \in 1..Cardinality(S) |-> CHOOSE n \in S : Cardinality({m \in S : m < n}) = k - 1]

\* split_top_level_commas
SplitCommas(s) ==
  LET d    == Nesting(s, Brackets)
      cuts == <<0>> \o Ordered({n \in DOMAIN s : s[n] = W(",") /\ d[n] = 0}) \o <<Len(s) + 1>>
  IN  IF \E n \in DOMAIN s : d[n] < 0 THEN {}
      ELSE {[k \in 1..(Len(cuts) - 1) |-> SubSeq(s, cuts[k] + 1, cuts[k + 1] - 1)]}

SplitInto(n, s) == {p \in SplitCommas(s) : Len(p) = n}

\* The results of parsers that must all succeed, in a sequence.
All(results) ==
  IF \E k \in DOMAIN results : results[k] = {} THEN {}
  ELSE {[k \in DOMAIN results |-> CHOOSE x \in results[k] : TRUE]}

\* last_percent_ident: of a local or of a struct type.
LastPercent(s) ==
  {s[n][2] : n \in {n \in DOMAIN s : /\ Class(s, n) \in {"%", "%*"}
                                     /\ \A m \in DOMAIN s :
                                          Class(s, m) \in {"%", "%*"} => m <= n}}

-----------------------------------------------------------------------------
(* Operands: a type, attributes anywhere, a value.                         *)

OperandAttrs ==
  {W("writeonly"), W("readonly"), W("readnone"), W("nonnull"), W("noalias"),
   W("nocapture"), W("immarg"), W("signext"), W("zeroext"), W("byval"),
   W("sret"), W("inreg"), W("noundef")}

\* The code reads any iN, and tells i1 and i8 apart from the others: these two, and
\* of the others the widths the texts use.
IntegerTypes == {W("i1"), W("i8"), W("i32"), W("i64")}
FloatTypes   == {W("double"), W("float"), W("half")}

\* A value of several tokens becomes a name with a blank in it, which nothing
\* binds.
Name(v) == IF Len(v) = 1 THEN v[1][2] ELSE " "

\* parse_inttoptr: the number of  inttoptr (iN n to ..), if it is an i64.
ConstantIndex(v) == {n \in {v[4][2]} : n \in Int /\ FitsI64(n)}

IsIntToPtr(v) ==
  /\ HeadIs(v, W("inttoptr")) /\ Len(v) >= 4 /\ v[2] = W("(")
  /\ Class(v, 4) = "int" /\ ConstantIndex(v) # {}

\* extract_bitcast_global_name: the first global of  bitcast (..)
BitcastGlobals(v) ==
  IF Len(v) >= 2 /\ v[2] = W("(")
    THEN {v[n][2] : n \in Least({n \in DOMAIN v : Class(v, n) = "@"})}
    ELSE {}

PointerOperand(ty, v) ==
  CASE v = <<W("null")>> -> {IF ty = W("i8*") THEN NullOp ELSE PtrOp(0)}
    [] IsIntToPtr(v)     -> {PtrOp(n) : n \in ConstantIndex(v)}
    [] Class(v, 1) = "%" -> {SsaOp(Name(v))}
    [] Class(v, 1) = "@" -> {GlobalOp(Name(v))}
    [] HeadIs(v, W("getelementptr")) -> {GepOp}
    [] HeadIs(v, W("bitcast")) ->
         IF BitcastGlobals(v) = {} THEN {GepOp} ELSE {GlobalOp(c) : c \in BitcastGlobals(v)}
    [] OTHER -> {}

IntegerOperand(ty, v) ==
  CASE ty = W("i1") /\ v \in {<<W("true")>>, <<Num(1)>>}  -> {BoolOp(TRUE)}
    [] ty = W("i1") /\ v \in {<<W("false")>>, <<Num(0)>>} -> {BoolOp(FALSE)}
    [] Class(v, 1) = "%" -> {SsaOp(Name(v))}
    [] ty = W("i8") /\ v = <<W("null")>> -> {NullOp}
    [] Len(v) = 1 /\ Class(v, 1) = "int" -> {IntOp(v[1][2])}
    [] Class(v, 1) = "@" -> {GlobalOp(Name(v))}
    [] OTHER -> {}

FloatOperand(v) ==
  CASE Class(v, 1) = "%" -> {SsaOp(Name(v))}
    [] Len(v) = 1 /\ Class(v, 1) \in {"real", "int"} -> {FloatOp(v[1][2])}
    [] OTHER -> {}

ValueOperand(ty, v) ==
  CASE ty[1] = "%*" \/ ty \in {W("ptr"), W("i8*")} -> PointerOperand(ty, v)
    [] ty \in IntegerTypes -> IntegerOperand(ty, v)
    [] ty \in FloatTypes   -> FloatOperand(v)
    [] OTHER -> {}

Operand(chunk) ==
  LET tokens == SelectSeq(chunk, LAMBDA t : t \notin OperandAttrs)
  IN  IF HeadIs(chunk, W("getelementptr")) THEN {GepOp}
      ELSE IF tokens = <<>> THEN {}
      ELSE ValueOperand(tokens[1], Tail(tokens))

OfType(ty, value) == Operand(<<ty>> \o value)

OperandList(s) ==
  IF s = <<>> THEN {<<>>}
  ELSE UNION {All([k \in DOMAIN p |-> Operand(p[k])]) : p \in SplitCommas(s)}

-----------------------------------------------------------------------------
(* Instructions.  r holds the name before the = sign, if there is one.     *)

ReturnPrefixes ==
  {W("ccc"), W("fastcc"), W("coldcc"), W("tailcc"), W("swiftcc"), W("zeroext"),
   W("signext"), W("noext"), W("inreg"), W("noalias"), W("nonnull"), W("noundef")}

\* What follows the return type and, for a variadic callee, the function type;
\* it must begin with the callee.
Callee(args) ==
  LET rest == From(DropLeading(args, ReturnPrefixes), 2)
      past == IF HeadIs(rest, W("("))
                THEN {From(rest, n + 1) : n \in Closing(rest, Parens)} ELSE {rest}
  IN  {s \in past : Class(s, 1) = "@"}

Arguments(s) ==   \* s begins with the callee
  LET list == From(s, FirstIn(s, {W("(")}))
  IN  UNION {OperandList(SubSeq(list, 2, n - 1)) : n \in Closing(list, Parens)}

ReadCall(r, args) ==
  {Call(k, s[1][2], a) : k \in IF r = {} THEN {NoResult} ELSE r,
                         s \in Callee(args), a \in UNION {Arguments(s) : s \in Callee(args)}}

LabelRef(s) ==
  IF HeadIs(s, W("label")) /\ Class(s, 2) = "%" THEN {s[2][2]} ELSE {}

BranchCondition(v) ==
  CASE Class(v, 1) = "%" -> {SsaOp(Name(v))}
    [] v \in {<<W("true")>>, <<Num(1)>>}  -> {BoolOp(TRUE)}
    [] v \in {<<W("false")>>, <<Num(0)>>} -> {BoolOp(FALSE)}
    [] OTHER -> {}

ReadBr(args) ==
  IF HeadIs(args, W("label")) THEN {Br(t) : t \in LabelRef(args)}
  ELSE IF ~HeadIs(args, W("i1")) THEN {}
  ELSE UNION {{BrCond(c, t, f) : c \in BranchCondition(p[1]),
                                 t \in LabelRef(p[2]), f \in LabelRef(p[3])} :
                p \in SplitInto(3, Tail(args))}

\* The two operands of type ty in  <ty> <lhs>, <rhs>
Pairs(ty, s) == UNION {All([k \in 1..2 |-> OfType(ty, p[k])]) : p \in SplitInto(2, s)}

ReadIcmp(r, args) ==
  IF Len(args) < 2 THEN {}
  ELSE {Icmp(k, args[1][2], args[2][2], p[1], p[2]) : k \in r, p \in Pairs(args[2], From(args, 3))}

ReadBinaryI1(r, fn, args) ==
  IF ~HeadIs(args, W("i1")) THEN {}
  ELSE {BinaryI1(k, fn, p[1], p[2]) : k \in r, p \in Pairs(args[1], Tail(args))}

ReadIntArith(r, fn, args) ==
  LET s == DropLeading(args, {W("nuw"), W("nsw")})
  IN  IF s = <<>> THEN {}
      ELSE {IntArith(k, fn, s[1][2], p[1], p[2]) : k \in r, p \in Pairs(s[1], Tail(s))}

ReadSelect(r, args) ==
  IF ~HeadIs(args, W("i1")) THEN {}
  ELSE UNION {{Select(k, p[2][1][2], v[1], v[2], v[3]) :
                 k \in r, v \in All(<<OfType(args[1], p[1]), Operand(p[2]), Operand(p[3])>>)} :
                p \in {p \in SplitInto(3, Tail(args)) :
                         p[2] # <<>> /\ p[3] # <<>> /\ p[2][1] = p[3][1]}}

\* Whether the first n tokens of s end inside an incoming  [ .. ]
InIncoming(s) ==
  LET in[n \in 0..Len(s)] ==
        n > 0 /\ IF in[n - 1] THEN s[n] # W("]") ELSE s[n] = W("[")
  IN  in

ReadIncoming(ty, s) ==
  UNION {{Incoming(v, p[2][1][2]) : v \in OfType(ty, p[1])} :
           p \in {p \in SplitInto(2, s) : Class(p[2], 1) = "%"}}

Incomings(ty, s) ==
  LET in     == InIncoming(s)
      starts == {n \in DOMAIN s : ~in[n - 1] /\ in[n]}
      inner(n) == SubSeq(s, n + 1, n - 1 + FirstIn(From(s, n + 1), {W("]")}))
      wellFormed == /\ starts # {} /\ ~in[Len(s)]
                    /\ \A n \in DOMAIN s : in[n - 1] \/ s[n] \in {W("["), W(",")}
  IN  IF ~wellFormed THEN {}
      ELSE All([j \in 1..Cardinality(starts) |-> ReadIncoming(ty, inner(Ordered(starts)[j]))])

ReadPhi(r, args) ==
  {Phi(k, args[1][2], i) : k \in r, i \in Incomings(args[1], From(args, 2))}

\* Where the  to  of a conversion stands, outside any bracket.
ToAt(s) ==
  LET d == Nesting(s, Brackets)
  IN  Least({n \in 2..(Len(s) - 1) : s[n] = W("to") /\ d[n] = 0})

\* The local a conversion reads.
Converted(args) == UNION {LastPercent(SubSeq(args, 1, n - 1)) : n \in ToAt(args)}

ReadIntToPtr(r, args) ==
  {IntToPtr(k, v) : k \in r, v \in UNION {Operand(SubSeq(args, 1, n - 1)) : n \in ToAt(args)}}

ReadGep(r, args) ==
  LET s == IF HeadIs(args, W("inbounds")) THEN Tail(args) ELSE args
      zero(i)   == i \in {<<W("i32"), Num(0)>>, <<W("i64"), Num(0)>>}
      offset(i) == IF Len(i) = 2 /\ i[1] \in {W("i32"), W("i64")} /\ Class(i, 2) = "int"
                     THEN {n \in {i[2][2]} : n >= 0} ELSE {}
  IN  UNION {{Gep(k, src, n) : k \in r, src \in LastPercent(p[2]), n \in offset(p[4])} :
               p \in {p \in SplitInto(4, s) : zero(p[3])}}

SplitOften(s) == {p \in SplitCommas(s) : Len(p) >= 2}

ReadLoad(r, args) ==
  {Load(k, ptr) : k \in r, ptr \in UNION {LastPercent(p[2]) : p \in SplitOften(args)}}

ReadStore(args) ==
  UNION {{Store(v, ptr) : v \in Operand(p[1]), ptr \in LastPercent(p[2])} :
           p \in {p \in SplitOften(args) : Len(p[1]) >= 2}}

OrIgnored(S) == IF S = {} THEN {Ignored} ELSE S

IgnoredOpcodes == {W("sext"), W("trunc"), W("ptrtoint"), W("insertvalue"), W("extractvalue")}

\* Mutant of Unknown: an opcode that is not known has no effect.
Unknown_Ignored == {Ignored}

Unknown == {Unsupported}

ByOpcode(r, opcode, args) ==
  CASE opcode = W("call") -> ReadCall(r, args)
    [] opcode = W("br")   -> ReadBr(args)
    [] opcode = W("ret")  -> {Ret}
    [] opcode = W("icmp") -> ReadIcmp(r, args)
    [] opcode \in {W("xor"), W("and"), W("or")}  -> ReadBinaryI1(r, opcode[2], args)
    [] opcode = W("select") -> ReadSelect(r, args)
    [] opcode \in {W("add"), W("sub"), W("mul")} -> ReadIntArith(r, opcode[2], args)
    [] opcode = W("phi")      -> ReadPhi(r, args)
    [] opcode = W("inttoptr") -> ReadIntToPtr(r, args)
    [] opcode = W("alloca")   -> OrIgnored({Alloca(k) : k \in r})
    [] opcode = W("bitcast")  -> OrIgnored({Gep(k, src, 0) : k \in r, src \in Converted(args)})
    [] opcode = W("zext")     -> OrIgnored({Zext(k, src) : k \in r, src \in Converted(args)})
    [] opcode = W("getelementptr") -> OrIgnored(ReadGep(r, args))
    [] opcode = W("load")     -> OrIgnored(ReadLoad(r, args))
    [] opcode = W("store")    -> OrIgnored(ReadStore(args))
    [] opcode \in IgnoredOpcodes -> {Ignored}
    [] OTHER -> Unknown

CallQualifiers == {W("tail"), W("musttail"), W("notail")}

Assigned(s) == Class(s, 1) = "%" /\ Len(s) >= 2 /\ s[2] = W("=")

\* What follows the assignment and the qualifiers of a call.
Operation(s) == DropLeading(IF Assigned(s) THEN From(s, 3) ELSE s, CallQualifiers)

\* effective_opcode
IsCall(line) == HeadIs(Operation(line), W("call"))

\* parse_instruction_line
ReadInstruction(line) ==
  LET s == Live(line)
  IN  IF Operation(s) = <<>> THEN {}
      ELSE ByOpcode(IF Assigned(s) THEN {s[1][2]} ELSE {}, Operation(s)[1], Tail(Operation(s)))
=============================================================================
