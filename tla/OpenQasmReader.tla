---------------------------- MODULE OpenQasmReader ----------------------------
(***************************************************************************)
(* How an OpenQASM 3 parser reads a text: the precedences and the statement  *)
(* forms of its grammar, for the subset the printer uses, and JSON strings   *)
(* in the last comment.  External: it is what the printed text is for.       *)
(*                                                                         *)
(* A reader returns the set of its results [got, rest]: one, or none where   *)
(* the text is not of the form.                                            *)
(***************************************************************************)
EXTENDS OutputText

Got(x, rest) == [got |-> x, rest |-> rest]
Begins(s, t) == s # <<>> /\ s[1] = t
IsA(s, class) == s # <<>> /\ s[1][1] = class
Past(s, t)   == IF Begins(s, t) THEN {Tail(s)} ELSE {}

\* Binary operators, the weakest first; all associate to the left.
Levels == << {"||"}, {"&&"}, {"==", "!="}, {"<", "<=", ">", ">="}, {"+", "-"}, {"*"} >>

ReadInteger(s) ==
  IF IsA(s, "digits") THEN {Got(s[1][2], Tail(s))}
  ELSE IF Begins(s, Mark("-")) /\ Len(s) > 1 /\ s[2][1] = "digits"
    THEN {Got(-s[2][2], SubSeq(s, 3, Len(s)))}
  ELSE {}

\* register [ n ]
ReadIndexed(s, register) ==
  UNION {{Got(i.got, r) : r \in Past(i.rest, Mark("]"))} :
           i \in UNION {UNION {ReadInteger(t) : t \in Past(r, Mark("["))} : r \in Past(s, register)}}

RECURSIVE ReadLevel(_, _), ReadChain(_, _, _), ReadUnary(_)

ReadLevel(s, n) ==
  IF n > Len(Levels) THEN ReadUnary(s)
  ELSE UNION {ReadChain(x.got, x.rest, n) : x \in ReadLevel(s, n + 1)}

ReadChain(x, s, n) ==
  IF IsA(s, "mark") /\ s[1][2] \in Levels[n]
    THEN UNION {ReadChain(Bin(s[1][2], x, y.got), y.rest, n) : y \in ReadLevel(Tail(s), n + 1)}
    ELSE {Got(x, s)}

ReadExpression(s) == ReadLevel(s, 1)

ReadUnary(s) ==
  CASE Begins(s, Mark("!")) -> {Got(Not(x.got), x.rest) : x \in ReadUnary(Tail(s))}
    [] Begins(s, Mark("(")) ->
         UNION {{Got(x.got, r) : r \in Past(x.rest, Mark(")"))} : x \in ReadExpression(Tail(s))}
    [] Begins(s, Bits)      -> {Got(Bit(i.got), i.rest) : i \in ReadIndexed(s, Bits)}
    [] IsA(s, "cint")       -> {Got(IntVar(s[1][2]), Tail(s))}
    [] IsA(s, "point")      -> {Got(Float(s[1][2]), Tail(s))}
    [] Begins(s, Name("true"))  -> {Got(Boolean(TRUE), Tail(s))}
    [] Begins(s, Name("false")) -> {Got(Boolean(FALSE), Tail(s))}
    [] OTHER -> {Got(Integer(i.got), i.rest) : i \in ReadInteger(s)}

-----------------------------------------------------------------------------
(* Statements.                                                             *)

\* What one(s) reads, as often as a comma follows.
ReadListing(s, one(_)) ==
  LET RECURSIVE from(_)
      from(t) == UNION {IF Begins(x.rest, Mark(","))
                          THEN {Got(<<x.got>> \o y.got, y.rest) : y \in from(Tail(x.rest))}
                          ELSE {Got(<<x.got>>, x.rest)} : x \in one(t)}
  IN  from(s)

ReadScalars(s) ==
  IF Begins(s, Mark("("))
    THEN UNION {{Got([n \in DOMAIN x.got |-> ScalarOperand(x.got[n])], r) :
                   r \in Past(x.rest, Mark(")"))} : x \in ReadListing(Tail(s), ReadExpression)}
    ELSE {Got(<<>>, s)}

ReadQubit(s) == {Got(QubitOperand(i.got), i.rest) : i \in ReadIndexed(s, Qubits)}

ReadGate(s, adjoint) ==
  IF ~IsA(s, "name") THEN {}
  ELSE UNION {{Got(Gate(s[1][2], adjoint, x.got \o q.got), q.rest) :
                 q \in ReadListing(x.rest, ReadQubit)} : x \in ReadScalars(Tail(s))}

ReadBits(s, output) ==
  UNION {{Got(DeclareBits(i.got, output), r) : r \in Past(i.rest, Bits)} :
           i \in ReadIndexed(s, Name("bit"))}

Valued(s, make(_)) ==   \* an = sign and an expression
  UNION {{Got(make(x.got), x.rest) : x \in ReadExpression(r)} : r \in Past(s, Mark("="))}

\* A statement that a semicolon ends.
ReadSimple(s) ==
  CASE Begins(s, Name("include")) ->
         IF IsA(Tail(s), "quoted") THEN {Got(Include(s[2][2]), SubSeq(s, 3, Len(s)))} ELSE {}
    [] Begins(s, Name("qubit")) ->
         UNION {{Got(DeclareQubits(i.got), r) : r \in Past(i.rest, Qubits)} :
                  i \in ReadIndexed(s, Name("qubit"))}
    [] Begins(s, Name("output")) -> ReadBits(Tail(s), TRUE)
    [] Begins(s, Name("bit"))    -> ReadBits(s, FALSE)
    [] Begins(s, Name("int"))    ->
         IF IsA(Tail(s), "cint")
           THEN Valued(SubSeq(s, 3, Len(s)), LAMBDA x : DeclareInt(s[2][2], x)) ELSE {}
    [] Begins(s, Name("reset"))  ->
         {Got(Reset(i.got), i.rest) : i \in ReadIndexed(Tail(s), Qubits)}
    [] Begins(s, Name("inv"))    -> UNION {ReadGate(r, TRUE) : r \in Past(Tail(s), Mark("@"))}
    [] Begins(s, Bits)           ->
         UNION {UNION {{Got(Measure(q.got, b.got), q.rest) : q \in ReadIndexed(r, Qubits)} :
                         r \in UNION {Past(t, Name("measure")) : t \in Past(b.rest, Mark("="))}} :
                  b \in ReadIndexed(s, Bits)}
    [] IsA(s, "cint")            -> Valued(Tail(s), LAMBDA x : Assign(s[1][2], x))
    [] OTHER                     -> ReadGate(s, FALSE)

RECURSIVE ReadStatements(_), ReadStatement(_)

ReadBlock(s) ==
  UNION {UNION {{Got(b.got, r) : r \in Past(b.rest, Mark("}"))} : b \in ReadStatements(t)} :
           t \in Past(s, Mark("{"))}

ReadTest(s) ==
  UNION {UNION {{Got(x.got, r) : r \in Past(x.rest, Mark(")"))} : x \in ReadExpression(t)} :
           t \in Past(s, Mark("("))}

ReadStatement(s) ==
  CASE Begins(s, Name("if")) ->
         UNION {UNION {IF Begins(b.rest, Name("else"))
                         THEN {Got(Branch(x.got, b.got, c.got), c.rest) : c \in ReadBlock(Tail(b.rest))}
                         ELSE {Got(Branch(x.got, b.got, <<>>), b.rest)} :
                         b \in ReadBlock(x.rest)} : x \in ReadTest(Tail(s))}
    [] Begins(s, Name("while")) ->
         UNION {{Got(Loop(x.got, b.got), b.rest) : b \in ReadBlock(x.rest)} :
                  x \in ReadTest(Tail(s))}
    [] OTHER ->
         UNION {{Got(x.got, r) : r \in Past(x.rest, Mark(";"))} : x \in ReadSimple(s)}

ReadStatements(s) ==
  IF s = <<>> \/ Begins(s, Mark("}")) THEN {Got(<<>>, s)}
  ELSE UNION {{Got(<<x.got>> \o r.got, r.rest) : r \in ReadStatements(x.rest)} :
                x \in ReadStatement(s)}

\* A comment goes to the end of its line; line ends mean nothing else.
RECURSIVE Stripped(_, _)
Stripped(s, inComment) ==
  CASE s = <<>>  -> <<>>
    [] s[1] = NL -> Stripped(Tail(s), FALSE)
    [] OTHER     -> LET hides == inComment \/ s[1] = Mark("//")
                    IN  (IF hides THEN <<>> ELSE <<s[1]>>) \o Stripped(Tail(s), hides)

\* The statements of a text: none where it is not OpenQASM 3.
Read(s) ==
  LET code == Stripped(s, FALSE)
  IN  IF Len(code) < 3 \/ SubSeq(code, 1, 3) # <<Name("OPENQASM"), Point("3.0"), Mark(";")>> THEN {}
      ELSE {x.got : x \in {x \in ReadStatements(SubSeq(code, 4, Len(code))) : x.rest = <<>>}}

-----------------------------------------------------------------------------
(* The last comment.                                                       *)

\* A JSON string after its opening quote.
RECURSIVE ReadString(_)
ReadString(s) ==
  CASE s = <<>> \/ s[1] = NL     -> {}
    [] s[1] = Char("quote")      -> {Got(<<>>, Tail(s))}
    [] s[1] = Char("backslash")  ->
         IF Len(s) = 1 THEN {}
         ELSE LET coded == s[2] = Char("u")
                  c     == IF coded THEN {s[3][2]}
                           ELSE IF s[2][2] \in {"quote", "backslash"} THEN {s[2][2]}
                           ELSE {k \in DOMAIN Letter : Letter[k] = s[2][2]}
              IN  {Got(<<k>> \o r.got, r.rest) :
                     k \in c, r \in ReadString(SubSeq(s, IF coded THEN 4 ELSE 3, Len(s)))}
    [] s[1][1] = "char" /\ s[1][2] \notin DOMAIN Letter \cup Coded ->
         {Got(<<s[1][2]>> \o r.got, r.rest) : r \in ReadString(Tail(s))}
    [] OTHER -> {}

ReadField(s) ==
  IF IsA(s, "quoted") /\ Len(s) > 2 /\ s[2] = Mark(":") /\ s[3] = Char("quote")
    THEN {Got(<<s[1][2], x.got>>, x.rest) : x \in ReadString(SubSeq(s, 4, Len(s)))}
    ELSE {}

\* The fields of the comment the text ends with.
ReadGeneratedBy(s) ==
  LET opening == <<Mark("//"), Name("generated-by"), Mark("{")>>
      last    == {n \in DOMAIN s : s[n] = Mark("//") /\ \A m \in (n + 1)..Len(s) : s[m] # Mark("//")}
      objects == {SubSeq(s, n + 3, Len(s)) : n \in {n \in last : SubSeq(s, n, n + 2) = opening}}
  IN  UNION {{x.got : x \in {x \in ReadListing(t, ReadField) : x.rest = <<Mark("}"), NL>>}} :
               t \in objects}
=============================================================================
