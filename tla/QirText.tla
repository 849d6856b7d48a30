------------------------------- MODULE QirText -------------------------------
(***************************************************************************)
(* QIR modules written out as text: how LLVM prints them, in the dialects    *)
(* and with the decorations the fixtures of test/integ_tests/fixtures_qir    *)
(* show, and how the same text may be laid out otherwise.  It is written     *)
(* from the printed form, not from the parser.                              *)
(***************************************************************************)
EXTENDS FrontEnd, SequencesExt

P == INSTANCE QirPrograms

Words(ws)   == [k \in DOMAIN ws |-> W(ws[k])]
Comma       == <<W(",")>>
Commas(ss)  == IF ss = <<>> THEN <<>>
               ELSE FoldLeft(LAMBDA acc, s : acc \o Comma \o s, ss[1], Tail(ss))
InParens(s) == <<W("(")>> \o s \o <<W(")")>>
On(b, s)    == IF b THEN s ELSE <<>>
Array(n)    == <<W("["), Num(n), W("x"), W("i8"), W("]")>>

\* A style: typed or opaque pointers, with or without the optional words,
\* where the attribute groups stand, where the brace of a body stands.
Styles == [typed : BOOLEAN, wordy : BOOLEAN, groups : {"before", "after", "inline"},
           brace : {"same", "next"}]

Pointer(st, name) == IF st.typed THEN Struct(name) ELSE W("ptr")

\* The type of a parameter, from the canonical type its signature keeps.
TypeOf(st, param) ==
  CASE param \in {"Qubit", "Result"} -> Pointer(st, param)
    [] param = "i8" -> W("i8*")
    [] OTHER -> W(param)

\* The type of an operand a signature says nothing of.
TypeByValue(st, op) ==
  CASE op.op = "bool"  -> W("i1")
    [] op.op = "float" -> W("double")
    [] op.op \in {"int", "ssa"} -> W("i64")
    [] op.op = "ptr"   -> Pointer(st, "Qubit")
    [] op.op = "global" /\ ~st.typed -> W("ptr")
    [] OTHER -> W("i8*")

CStringName == Global(<<"", "cstr", "">>)
CString == <<W("getelementptr"), W("inbounds")>>
  \o InParens(Array(4) \o Comma \o Array(4) \o <<W("*"), CStringName, W(","),
                W("i64"), Num(0), W(","), W("i64"), Num(0)>>)
Cast(c) == <<W("bitcast")>>
  \o InParens(<<W("void")>> \o InParens(<<Struct("Array"), W(","), Struct("Qubit")>>)
              \o <<W("*"), Global(c), W("to"), W("i8*")>>)

Value(ty, op) ==
  CASE op.op = "int"    -> <<Num(op.int)>>
    [] op.op = "bool"   -> <<W(IF op.bool THEN "true" ELSE "false")>>
    [] op.op = "float"  -> <<Real(op.float)>>
    [] op.op = "ssa"    -> <<Local(op.ssa)>>
    [] op.op = "ptr" /\ op.index = 0 -> <<W("null")>>
    [] op.op = "ptr" /\ op.index # 0 ->
         <<W("inttoptr")>> \o InParens(<<W("i64"), Num(op.index), W("to"), ty>>)
    [] op.op = "global" /\ ty = W("ptr") -> <<Global(op.global)>>
    [] op.op = "global" /\ ty # W("ptr") -> Cast(op.global)
    [] op.op = "gep"    -> CString
    [] op.op = "i8null" -> <<W("null")>>

Attribute(st, op) ==
  On(st.wordy, CASE op.op \in {"ptr", "global"} /\ op # PtrOp(0) -> <<W("nonnull")>>
                 [] op.op \in {"bool", "int"} -> <<W("noundef")>>
                 [] OTHER -> <<>>)

Argument(st, ty, op) == <<ty>> \o Attribute(st, op) \o Value(ty, op)

-----------------------------------------------------------------------------
Assignment(k) == <<Local(k), W("=")>>
OpText(k, opcode, s) == Assignment(k) \o Words(opcode) \o s

ParamTypes(st, sig) ==
  Commas([k \in DOMAIN sig.params |-> <<TypeOf(st, sig.params[k])>>]
           \o On(sig.variadic, <<<<W("...")>>>>))

CallText(st, sig, i) ==
  LET ty(n) == IF n \in DOMAIN sig.params THEN TypeOf(st, sig.params[n])
               ELSE TypeByValue(st, i.args[n])
  IN  On(i.result # NoResult, Assignment(i.result))
      \o On(st.wordy, <<W("tail")>>) \o <<W("call")>>
      \o On(st.wordy /\ i.result # NoResult, Words(<<"fastcc", "noundef">>))
      \o <<W(IF i.result = NoResult THEN "void" ELSE "i1")>>
      \o On(sig.variadic, InParens(ParamTypes(st, sig)))
      \o <<Global(i.callee)>>
      \o InParens(Commas([n \in DOMAIN i.args |-> Argument(st, ty(n), i.args[n])]))
      \o On(st.wordy, <<Hash(1)>>)

Two(i, ty) == <<W(ty)>> \o Value(W(ty), i.lhs) \o Comma \o Value(W(ty), i.rhs)

SlotType == W("i64*")

InstText(st, sigs, i) ==
  CASE i.kind = "call"   -> CallText(st, sigs[i.callee], i)
    [] i.kind = "icmp"   -> OpText(i.result, <<"icmp", i.pred>>, Two(i, i.ty))
    [] i.kind = "binary" -> OpText(i.result, <<i.fn>>, Two(i, "i1"))
    [] i.kind = "arith"  ->
         OpText(i.result, <<i.fn>>, On(st.wordy, Words(<<"nuw", "nsw">>)) \o Two(i, i.ty))
    [] i.kind = "select" ->
         OpText(i.result, <<"select">>, <<W("i1")>> \o Value(W("i1"), i.cond) \o Comma
           \o <<W(i.ty)>> \o Value(W(i.ty), i.lhs) \o Comma \o <<W(i.ty)>> \o Value(W(i.ty), i.rhs))
    [] i.kind = "phi"    ->
         OpText(i.result, <<"phi", i.ty>>,
           Commas([n \in DOMAIN i.incomings |->
                     <<W("[")>> \o Value(W(i.ty), i.incomings[n].value) \o Comma
                       \o <<Local(i.incomings[n].pred), W("]")>>]))
    [] i.kind = "br"     -> <<W("br"), W("label"), Local(i.target)>>
    [] i.kind = "brcond" ->
         Words(<<"br", "i1">>) \o Value(W("i1"), i.cond)
           \o Comma \o <<W("label"), Local(i.targets[1])>>
           \o Comma \o <<W("label"), Local(i.targets[2])>>
    [] i.kind = "ret"    -> Words(<<"ret", "void">>)
    [] i.kind = "alloca" -> OpText(i.result, <<"alloca">>, Array(4) \o <<W(","), W("align"), Num(8)>>)
    [] i.kind = "alias" /\ i.offset = 0 /\ st.wordy ->
         OpText(i.result, <<"bitcast">>, Array(4) \o <<W("*"), Local(i.src), W("to"), SlotType>>)
    [] i.kind = "alias" /\ ~(i.offset = 0 /\ st.wordy) ->
         OpText(i.result, <<"getelementptr", "inbounds">>,
                Array(4) \o Comma \o Array(4) \o <<W("*"), Local(i.src), W(","), W("i32"), Num(0),
                W(","), W("i32"), Num(i.offset)>>)
    [] i.kind = "store"  ->
         LET ty == TypeByValue(st, i.value)
         IN  <<W("store"), ty>> \o Value(ty, i.value) \o <<W(","), SlotType, Local(i.ptr)>>
             \o On(st.wordy, <<W(","), W("align"), Num(8)>>)
    [] i.kind = "load"   -> OpText(i.result, <<"load">>, <<W("i64"), W(","), SlotType, Local(i.ptr)>>)
    [] i.kind = "zext"   -> OpText(i.result, <<"zext">>, <<W("i1"), Local(i.src), W("to"), W("i64")>>)
    [] i.kind = "inttoptr" ->
         OpText(i.result, <<"inttoptr">>,
                <<W("i64")>> \o Value(W("i64"), i.src) \o <<W("to"), Pointer(st, "Qubit")>>)
    [] i.kind = "ignored" -> OpText("ignored", <<"trunc", "i64">>, <<Num(1), W("to"), W("i32")>>)
    [] i.kind = "unsupported" -> OpText("no", <<"fadd", "double">>, <<Real(1), W(","), Real(2)>>)

-----------------------------------------------------------------------------
(* A module.                                                               *)

Remark == <<W(";"), W("call"), W("("), Global(<<"", "remark", "">>)>>

BlockText(st, sigs, b) ==
  On(b.name # "", <<<<Label(b.name)>> \o On(st.wordy, Remark)>>)
    \o [n \in DOMAIN b.insts |-> InstText(st, sigs, b.insts[n]) \o On(st.wordy, Remark)]
    \o On(st.wordy, <<<<>>, Remark>>)

Concat(ss) == FoldLeft(LAMBDA acc, s : acc \o s, <<>>, ss)

Main   == <<"", "main", "">>
Helper == <<"", "helper", "">>

\* The lines of a define: tags are its attributes, in the header.
DefineText(st, name, tags, body) ==
  LET header == <<W("define")>> \o On(st.wordy, <<W("dso_local")>>) \o <<W("void"), Global(name)>>
                  \o InParens(<<>>) \o tags
  IN  (IF st.brace = "same" THEN <<header \o <<W("{")>>>> ELSE <<header, <<W("{")>>>>)
      \o body \o <<<<W("}")>>>>

DeclareText(st, sigs, c) ==
  <<W("declare"), W("void"), Global(c)>> \o InParens(ParamTypes(st, sigs[c]))
    \o On(st.wordy, <<W("local_unnamed_addr"), Hash(1)>>)

BaseProfile == Profile("base_profile")
GroupText(n, tags) == <<W("attributes"), Hash(n), W("="), W("{")>> \o tags \o <<W("}")>>
GroupLines(st) ==
  IF st.groups = "inline" THEN <<GroupText(0, <<BaseProfile>>)>>
  ELSE <<GroupText(1, <<Str("irreversible")>>),
         GroupText(0, <<EntryPoint, Str("output_labeling_schema"), BaseProfile>>)>>

Called(bs) ==
  UNION {{b.insts[n].callee : n \in {n \in DOMAIN b.insts : b.insts[n].kind = "call"}} :
           b \in Listed(bs)}

ModuleLines(st, sigs, bs) ==
  LET callees == FoldSet(LAMBDA c, acc : Append(acc, c), <<>>, Called(bs))
  IN  <<Remark, <<Local("Qubit"), W("="), W("type"), W("opaque")>>, <<>>>>
      \o On(st.groups = "before", GroupLines(st))
      \o On(st.wordy, DefineText(st, Helper, <<Hash(1)>>, <<Words(<<"ret", "void">>)>>))
      \o DefineText(st, Main, IF st.groups = "inline" THEN <<EntryPoint, Hash(0)>> ELSE <<Hash(0)>>,
                    Concat([k \in DOMAIN bs |-> BlockText(st, sigs, bs[k])]))
      \o [k \in DOMAIN callees |-> DeclareText(st, sigs, callees[k])]
      \o On(st.groups # "before", GroupLines(st))
      \o <<Words(<<"!", "0">>)>>

\* Where every pointer is a ptr, there is no i8* null and no constant cast.
OpaqueArg(x)  == CASE x = NullOp -> PtrOp(0) [] x = GepOp -> GlobalOp(CStringName[2]) [] OTHER -> x
OpaqueInst(i) == IF i.kind = "call" THEN [i EXCEPT !.args = [n \in DOMAIN @ |-> OpaqueArg(@[n])]] ELSE i
OpaqueBlock(b) == Block(b.name, [n \in DOMAIN b.insts |-> OpaqueInst(b.insts[n])])

Written(st, m) ==
  LET sigs   == IF st.typed THEN P!TypedSignatures ELSE P!OpaqueSignatures
      bs     == IF st.typed THEN m.blocks ELSE [k \in DOMAIN m.blocks |-> OpaqueBlock(m.blocks[k])]
      named  == {Main} \cup (IF st.wordy THEN {Helper} ELSE {})
  IN  [lines   |-> ModuleLines(st, sigs, bs),
       meaning |-> [signatures |-> [c \in Called(bs) |-> sigs[c]]
                                     @@ [c \in named |-> Signature(<<>>, FALSE)],
                    blocks |-> bs],
       supported |-> TRUE]

-----------------------------------------------------------------------------
(* Other layouts of a text: line n broken after token k, with what is left   *)
(* of a comment and a blank line between; or joined to the line after it.    *)

Replace(t, n, with, upTo) ==
  [t EXCEPT !.lines = SubSeq(@, 1, n - 1) \o with \o From(@, upTo + 1), !.supported = FALSE]

Broken(t, n, k, remark) ==
  LET l == t.lines[n]
  IN  Replace(t, n, <<SubSeq(l, 1, k) \o On(remark, Remark)>> \o On(remark, <<<<>>>>)
                      \o <<From(l, k + 1)>>, n)

Joined(t, n) == Replace(t, n, <<t.lines[n] \o t.lines[n + 1]>>, n + 1)

Breaks(t) == {<<n, k>> \in (DOMAIN t.lines) \X (1..40) : k < Len(t.lines[n])}

\* Breaks the parser says it accepts: in a call, inside brackets or between
\* the word call and the callee.
Foreseen(l, k) ==
  LET calls == {n \in 1..k : l[n] = W("call")}
      Count(c) == Cardinality({n \in 1..k : l[n] = W(c)})
  IN  /\ calls # {} /\ W(";") \notin Listed(l)
      /\ Count("(") > Count(")") \/ \A n \in 1..k : l[n][1] # "@"

BrokenTexts(t, remarks) ==
  {[Broken(t, x[1], x[2], r) EXCEPT !.supported = ~r /\ Foreseen(t.lines[x[1]], x[2])] :
     x \in Breaks(t), r \in remarks}

Cut(t, n, k) == Replace(t, n, <<SubSeq(t.lines[n], 1, k)>>, Len(t.lines))

\* A return attribute: read in a call, but not in a header.
Attributed(t) ==
  {Replace(t, n, <<<<t.lines[n][1], W("noundef")>> \o Tail(t.lines[n])>>, n) :
     n \in {n \in DOMAIN t.lines : IsHeader(t.lines[n])}}

JoinedCalls(t) ==
  {Joined(t, n) : n \in {n \in 1..(Len(t.lines) - 1) :
                           \A k \in {n, n + 1} : HeadIs(t.lines[k], W("call"))}}
=============================================================================
