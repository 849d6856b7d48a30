------------------------------ MODULE OutputText ------------------------------
(***************************************************************************)
(* The text of a translated program: the assembly of its statements and its *)
(* last comment (translator.rs), printed by oq3/printer.rs.  A text is a    *)
(* sequence of tokens; blanks and indentation are left out, line ends are    *)
(* kept where a comment depends on them.                                   *)
(***************************************************************************)
EXTENDS CallLowering, SequencesExt

Mark(m)   == <<"mark", m>>    \* a keyword, an operator, a bracket
Name(n)   == <<"name", n>>    \* an identifier
Digits(n) == <<"digits", n>>
Point(f)  == <<"point", f>>   \* a number with a decimal point
Quoted(s) == <<"quoted", s>>
Char(c)   == <<"char", c>>    \* a character of a comment
NL        == Mark("newline")

\* c and q are the registers, cint_k an int variable.
Qubits == Name("q")
Bits   == Name("c")
IntVarName(k) == <<"cint", k>>

-----------------------------------------------------------------------------
(* Statements only the assembly and lower_cfg make.                        *)

Include(path)        == [stmt |-> "include", path |-> path]
DeclareQubits(n)     == [stmt |-> "qubits", size |-> n]
DeclareBits(n, out)  == [stmt |-> "bits", size |-> n, output |-> out]
DeclareInt(k, init)  == [stmt |-> "int", var |-> k, init |-> init]
Branch(cond, ifBlock, elseBlock) ==
  [stmt |-> "if", cond |-> cond, ifBlock |-> ifBlock, elseBlock |-> elseBlock]
Loop(cond, body)     == [stmt |-> "while", cond |-> cond, body |-> body]

\* The end of build_program.  p holds the registers' sizes, the initial values of
\* the int variables and the body; exporter the options.
Assembled(exporter, p) ==
  [n \in DOMAIN exporter.includes |-> Include(exporter.includes[n])]
    \o (IF p.qubits > 0 THEN <<DeclareQubits(p.qubits)>> ELSE <<>>)
    \o (IF p.bits > 0 THEN <<DeclareBits(p.bits, exporter.output)>> ELSE <<>>)
    \o [n \in DOMAIN p.ints |-> DeclareInt(n - 1, p.ints[n])]
    \o p.body

-----------------------------------------------------------------------------
(* Expressions.                                                            *)

Precedence(x) ==
  CASE x.e \in {"var", "integer", "float", "boolean"} -> 14
    [] x.e = "bit" -> 13
    [] x.e = "not" -> 11
    [] x.e = "bin" ->
         CASE x.fn = "||" -> 1  [] x.fn = "&&" -> 2
           [] x.fn \in {"==", "!="} -> 6
           [] x.fn \in {"<", "<=", ">", ">="} -> 7
           [] x.fn \in {"+", "-"} -> 9
           [] x.fn = "*" -> 10

Signed(n) == IF n < 0 THEN <<Mark("-"), Digits(-n)>> ELSE <<Digits(n)>>

In(open, s, close) == <<Mark(open)>> \o s \o <<Mark(close)>>

\* A left operand of the same precedence keeps its parentheses unless it is the
\* same operator.
LeftInParens(x) ==
  \/ Precedence(x.left) < Precedence(x)
  \/ Precedence(x.left) = Precedence(x) /\ ~(x.left.e = "bin" /\ x.left.fn = x.fn)

\* Mutant of RightInParens: both sides associate.
RightInParens_Weaker(x) == Precedence(x.right) < Precedence(x)

RightInParens(x) == Precedence(x.right) <= Precedence(x)

RECURSIVE Shown(_)
Shown(x) ==
  LET Operand(y, inParens) == IF inParens THEN In("(", Shown(y), ")") ELSE Shown(y)
  IN  CASE x.e = "var"     -> <<IntVarName(x.var)>>
        [] x.e = "integer" -> Signed(x.integer)
        [] x.e = "boolean" -> <<Name(IF x.boolean THEN "true" ELSE "false")>>
        [] x.e = "float"   -> <<Point(x.float)>>
        [] x.e = "bit"     -> <<Bits>> \o In("[", Signed(x.bit), "]")
        [] x.e = "not"     -> <<Mark("!")>> \o Operand(x.of, Precedence(x) >= Precedence(x.of))
        [] x.e = "bin"     -> Operand(x.left, LeftInParens(x)) \o <<Mark(x.fn)>>
                                \o Operand(x.right, RightInParens(x))

-----------------------------------------------------------------------------
(* Statements.                                                             *)

Listing(texts) ==   \* separated by commas
  FoldLeft(LAMBDA s, t : IF s = <<>> THEN t ELSE s \o <<Mark(",")>> \o t, <<>>, texts)

At(register, index) == <<register>> \o In("[", Signed(index), "]")

Scalars(operands) ==
  LET s == SelectSeq(operands, LAMBDA x : x.operand = "scalar")
  IN  [n \in DOMAIN s |-> Shown(s[n].scalar)]
Targets(operands) ==
  LET s == SelectSeq(operands, LAMBDA x : x.operand = "qubit")
  IN  [n \in DOMAIN s |-> At(Qubits, s[n].qubit)]

Ended(s) == s \o <<Mark(";"), NL>>

RECURSIVE Printed(_)
Printed(statements) ==
  LET block(body) == In("{", <<NL>> \o Printed(body), "}")
      one(st) ==
        CASE st.stmt = "include" -> Ended(<<Name("include"), Quoted(st.path)>>)
          [] st.stmt = "qubits"  -> Ended(At(Name("qubit"), st.size) \o <<Qubits>>)
          [] st.stmt = "bits"    -> Ended((IF st.output THEN <<Name("output")>> ELSE <<>>)
                                            \o At(Name("bit"), st.size) \o <<Bits>>)
          [] st.stmt = "int"     -> Ended(<<Name("int"), IntVarName(st.var), Mark("=")>>
                                            \o Shown(st.init))
          [] st.stmt = "assign"  -> Ended(<<IntVarName(st.var), Mark("=")>> \o Shown(st.value))
          [] st.stmt = "measure" -> Ended(At(Bits, st.bit) \o <<Mark("="), Name("measure")>>
                                            \o At(Qubits, st.qubit))
          [] st.stmt = "reset"   -> Ended(<<Name("reset")>> \o At(Qubits, st.qubit))
          [] st.stmt = "gate"    ->
               Ended((IF st.adjoint THEN <<Name("inv"), Mark("@")>> ELSE <<>>)
                       \o <<Name(st.gate)>>
                       \o (IF Scalars(st.operands) = <<>> THEN <<>>
                           ELSE In("(", Listing(Scalars(st.operands)), ")"))
                       \o Listing(Targets(st.operands)))
          [] st.stmt = "if"      ->
               <<Name("if")>> \o In("(", Shown(st.cond), ")") \o block(st.ifBlock)
                 \o (IF st.elseBlock = <<>> THEN <<>>
                     ELSE <<Name("else")>> \o block(st.elseBlock))
                 \o <<NL>>
          [] st.stmt = "while"   ->
               <<Name("while")>> \o In("(", Shown(st.cond), ")") \o block(st.body) \o <<NL>>
  IN  FlattenSeq([n \in DOMAIN statements |-> one(statements[n])])

-----------------------------------------------------------------------------
(* The comment at the end: a JSON object.  A label is a sequence of          *)
(* characters, named here where JSON or the comment would read them          *)
(* otherwise.                                                              *)

Letter == [newline |-> "n", return |-> "r", tab |-> "t", backspace |-> "b", formfeed |-> "f"]
Coded  == {"escape", "delete"}   \* below 0x20, or 0x7f: written \u00xx

\* Mutant of Escaped: only what would end the string is escaped.
Escaped_Quotes(label) ==
  FlattenSeq([n \in DOMAIN label |->
    IF label[n] \in {"quote", "backslash"} THEN <<Char("backslash"), Char(label[n])>>
    ELSE IF label[n] = "newline" THEN <<NL>> ELSE <<Char(label[n])>>])

\* json_escape_into
Escaped(label) ==
  FlattenSeq([n \in DOMAIN label |->
    CASE label[n] \in {"quote", "backslash"} -> <<Char("backslash"), Char(label[n])>>
      [] label[n] \in DOMAIN Letter          -> <<Char("backslash"), Char(Letter[label[n]])>>
      [] label[n] \in Coded                  -> <<Char("backslash"), Char("u"), <<"hex", label[n]>>>>
      [] OTHER                               -> <<Char(label[n])>>])

Field(key, label) ==
  <<Quoted(key), Mark(":"), Char("quote")>> \o Escaped(label) \o <<Char("quote")>>

\* generated_by_line.  A module without a profile and a caller without a producer
\* leave the field out.
GeneratedBy(profile, producer) ==
  <<Mark("//"), Name("generated-by")>>
    \o In("{", Listing(<<Field("name", <<"qirtoqasm">>), Field("version", <<"version">>)>>
                         \o (IF profile = {} THEN <<>>
                             ELSE <<Field("profile", CHOOSE p \in profile : TRUE)>>)
                         \o (IF producer = <<>> THEN <<>> ELSE <<Field("producer", producer)>>)),
          "}")
    \o <<NL>>

\* Exporter::dumps, once the program is built.
Dumps(exporter, p) ==
  Ended(<<Name("OPENQASM"), Point("3.0")>>)
    \o Printed(Assembled(exporter, p))
    \o GeneratedBy(p.profile, exporter.producer)
=============================================================================
