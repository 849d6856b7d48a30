------------------------------- MODULE MCLibrary -------------------------------
(***************************************************************************)
(* The library over the printer: what the callers ask for, with the parts    *)
(* before the printer reduced to the class of error they end in, or to the   *)
(* program they hand over.                                                 *)
(***************************************************************************)
EXTENDS LibraryBoundary, OpenQasmReader

\* A QIR text stands for how its translation ends.
Good(p)   == [class |-> "ok", program |-> p]
Bad(kind) == [class |-> kind, program |-> <<>>]

MCEnding(qir)         == qir.class

\* A text is kept as what it is printed from.
MCText(qir, exporter) == [is |-> "qasm", program |-> qir.program, exporter |-> exporter]
Qasm(text)            == Dumps(text.exporter, text.program)

-----------------------------------------------------------------------------
(* Programs.                                                               *)

Program(body) ==
  [qubits |-> 3, bits |-> 2, ints |-> <<>>, profile |-> {}, body |-> body]

Leaves == {Bit(0), Integer(-1)}
Operators == UNION {Levels[n] : n \in DOMAIN Levels} \ {">", ">="}
Over(operands) ==
  {Not(x) : x \in operands} \cup {Bin(fn, x, y) : fn \in Operators, x \in operands, y \in operands}
Shallow == Leaves \cup Over(Leaves)

\* Every expression whose operators are nested two deep.
ExpressionPrograms == {Program(<<Assign(0, x)>>) : x \in Over(Shallow)}

Condition == Bin("&&", Bin("==", Bit(0), Integer(1)), Not(Bin("<", IntVar(0), Integer(2))))
Straight ==
  {<<>>, <<Assign(0, Bin("+", IntVar(0), Integer(1)))>>,
   <<Gate("ccnot", FALSE, <<QubitOperand(0), QubitOperand(1), QubitOperand(2)>>), Measure(2, 1)>>,
   <<Gate("rx", TRUE, <<ScalarOperand(Float("pi")), QubitOperand(0)>>), Reset(0)>>,
   <<Gate("prx", FALSE, <<ScalarOperand(Float("pi")), ScalarOperand(Bin("*", Bit(0), Float("pi"))),
                          QubitOperand(2)>>)>>}
Nested(bodies) ==
  {<<Branch(Condition, x, y)>> : x \in bodies, y \in bodies}
    \cup {<<Loop(Condition, x)>> \o y : x \in bodies, y \in bodies}
Bodies == Straight \cup Nested(Straight) \cup Nested({<<>>} \cup Nested({<<Reset(1)>>}))

\* Every way to nest branches and loops two deep, with and without an else.
StatementPrograms == {Program(body) : body \in Bodies}

Labels ==
  {<<>>, <<"a">>, <<"quote">>, <<"backslash", "n">>, <<"newline", "a">>, <<"return", "tab">>,
   <<"escape", "delete", "backspace">>, <<"formfeed", "backslash", "quote">>, <<"u">>}
HeaderPrograms ==
  {[qubits |-> q, bits |-> b, ints |-> ints, profile |-> profile, body |-> <<Reset(0)>>] :
     q \in {0, 2}, b \in {0, 1}, profile \in {{}, {<<"base">>}, {<<"quote", "newline">>}},
     ints \in {<<>>, <<Integer(-2), Bin("-", IntVar(0), Integer(1))>>}}
Exporters ==
  [includes: {<<>>, <<"stdgates.inc">>, <<"a", "b">>}, output: BOOLEAN, producer: Labels]

-----------------------------------------------------------------------------
(* Calls.                                                                  *)

CString(v) == [ptr |-> "set", utf8 |-> TRUE, value |-> v]
Null       == [ptr |-> "null", utf8 |-> FALSE, value |-> <<>>]
NotUtf8    == [ptr |-> "set", utf8 |-> FALSE, value |-> <<>>]
NoOptions  == [given |-> FALSE, version |-> 0, size |-> 0, producer |-> Null]
Options(producer) == [given |-> TRUE, version |-> 1, size |-> V1Size, producer |-> producer]

C(qir, opts)   == [api |-> "c", slots |-> TRUE, qir |-> qir, opts |-> opts]
Cpp(q, label) ==
  [api |-> "cpp", qir |-> CString(q),
   opts |-> Options(IF label = <<>> THEN Null ELSE CString(label))]
Python(q, label)  == [api |-> "python", qir |-> q, producer |-> label]
Rust(q, exporter) == [api |-> "rust", qir |-> q, exporter |-> exporter]
VersionCall       == [api |-> "version"]

Plain == Good(Program(<<Reset(0)>>))

\* Structs that qirtoqasm_options_init did not fill, that a newer header made, or
\* that hold an odd producer.
MCOptions ==
  {NoOptions, Options(Null), Options(NotUtf8), Options(CString(<<>>)), Options(CString(<<"a">>)),
   [Options(Null) EXCEPT !.size = 8], [Options(Null) EXCEPT !.version = 0],
   [Options(CString(<<"a">>)) EXCEPT !.size = 24, !.version = 2]}

Classes == {"syntax", "unsupported", "unsupported_cfg", "internal", "panic"}

OddCalls ==
  {C(qir, opts) : qir \in {Null, NotUtf8, CString(Plain), CString(Bad("unsupported_cfg"))},
                  opts \in MCOptions}
    \cup {[C(CString(Plain), NoOptions) EXCEPT !.slots = FALSE]}
Outcomes  == {Plain} \cup {Bad(kind) : kind \in Classes}
Each      == {Cpp(q, <<>>) : q \in Outcomes} \cup {Python(q, <<>>) : q \in Outcomes}
               \cup {Rust(q, Facade(<<>>)) : q \in Outcomes}
Wrapped   == {Cpp(Plain, <<>>), Cpp(Plain, <<"a">>), Cpp(Bad("syntax"), <<>>),
              Cpp(Bad("panic"), <<>>), VersionCall}
Unwrapped == {C(Null, NoOptions), C(CString(Plain), NoOptions),
              C(CString(Bad("unsupported_cfg")), Options(Null)),
              [C(CString(Plain), NoOptions) EXCEPT !.slots = FALSE]}

Session(x, y) == [c \in Callers |-> IF c = "t1" THEN x ELSE y]

\* Alone: every odd call and every text.  Together: two calls in one thread, one or
\* two in the other.
MCSessions ==
  {Session(<<call>>, <<>>) :
     call \in OddCalls \cup Each
            \cup {Cpp(Good(p), <<>>) : p \in ExpressionPrograms \cup StatementPrograms}
            \cup {Python(Plain, l) : l \in Labels}
            \cup {Cpp(Good(p), l) : p \in HeaderPrograms, l \in Labels}
            \cup {Rust(Good(p), e) : p \in HeaderPrograms, e \in Exporters}}
  \cup {Session(<<x, y>>, <<z>>) : x \in Wrapped, y \in Wrapped, z \in Wrapped \cup Unwrapped}
  \cup {Session(<<x, y>>, <<z, y>>) : x \in Unwrapped, y \in Wrapped, z \in Unwrapped}

-----------------------------------------------------------------------------
(* What is in the texts.                                                   *)

QirOf(call)      == IF call.api \in OfC THEN call.qir.value ELSE call.qir
ExporterOf(call) ==
  CASE call.api = "rust"   -> call.exporter
    [] call.api = "python" -> Facade(call.producer)
    [] OTHER               -> Facade(Label(call.opts))

Answers(c) == /\ todo'[c] # todo[c]
              /\ reply'[c].code = "ok"
              /\ Asked(c).api # "version"

\* Read by the grammar of OpenQASM 3, the text of an answer is the program that was
\* built: no parenthesis that was left out matters, and nothing of the comment gets
\* out of it.
TextReadsBack ==
  [][\A c \in Callers : Answers(c) =>
       \A text \in {Qasm(reply'[c].text)} :
         Read(text) = {Assembled(ExporterOf(Asked(c)), QirOf(Asked(c)).program)}]_vars

\* The last comment is one line of JSON that decodes to the profile of the module
\* and the producer the caller gave, whatever characters are in them.
Fields(profile, producer) ==
  {<<"name", <<"qirtoqasm">>>>, <<"version", <<"version">>>>}
    \cup {<<"profile", l>> : l \in profile}
    \cup {<<"producer", l>> : l \in {producer} \ {<<>>}}

CommentReadsBack ==
  [][\A c \in Callers : Answers(c) =>
       \A text \in {Qasm(reply'[c].text)} :
         {ToSet(f) : f \in ReadGeneratedBy(text)} =
           {Fields(QirOf(Asked(c)).program.profile, ExporterOf(Asked(c)).producer)}]_vars
=============================================================================
