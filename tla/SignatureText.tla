---------------------------- MODULE SignatureText ----------------------------
(***************************************************************************)
(* Headers: the names, attributes and signatures of declare and define      *)
(* lines.  ir/parser.rs and signatures.rs each read them in their own way.   *)
(***************************************************************************)
EXTENDS InstructionText

Profile(v) == <<"profile", v>>   \* the attribute "qir_profiles"="v"
EntryPoint == Str("entry_point")

IsDefine(line) == HeadIs(line, W("define"))
IsHeader(line) == HeadIs(line, W("declare")) \/ IsDefine(line)

-----------------------------------------------------------------------------
(* The parser's reading.                                                   *)

\* extract_fn_name_from_header: the first global of the line, and what follows
\* its parameters.
HeaderOf(line) ==
  LET named == {From(line, n) : n \in Least({n \in DOMAIN line : Class(line, n) = "@"})}
      list(s) == From(s, FirstIn(s, {W("(")}))
  IN  UNION {{[name |-> s[1][2], rest |-> From(list(s), n + 1)] : n \in Closing(list(s), Parens)} :
               s \in named}

OpensBody(rest) == W("{") \in Listed(rest)

\* parse_post_sig_attrs: what stands before the body.
PostSignature(rest) == SubSeq(rest, 1, FirstIn(rest, {W("{")}) - 1)
InlineEntry(rest)   == EntryPoint \in Listed(PostSignature(rest))
GroupRefs(rest) ==
  LET s == PostSignature(rest)
      at == Ordered({n \in DOMAIN s : Class(s, n) = "#"})
  IN  [k \in DOMAIN at |-> s[at[k]][2]]

\* parse_attribute_group: from the first brace to the last.
AttributeGroup(line) ==
  LET ends == {n \in DOMAIN line : n > 4 /\ line[n] = W("}")}
  IN  IF Len(line) >= 4 /\ line[1] = W("attributes") /\ Class(line, 2) = "#"
         /\ line[3] = W("=") /\ line[4] = W("{")
        THEN {[id |-> line[2][2], body |-> SubSeq(line, 5, n - 1)] :
                n \in {n \in ends : \A m \in ends : m <= n}}
        ELSE {}

\* extract_qir_profile
ProfilesIn(body) ==
  {body[n][2] : n \in Least({n \in DOMAIN body : Class(body, n) = "profile"})}

-----------------------------------------------------------------------------
(* The signature table's reading.                                          *)

\* Mutant of HasSignature: only what a module declares has one.
HasSignature_Declared(line) == HeadIs(line, W("declare"))

HasSignature(line) == IsHeader(line)

\* Linkage, visibility and calling convention.
LinkageWords ==
  {W("dso_local"), W("local_unnamed_addr"), W("internal"), W("private"), W("linkonce"),
   W("linkonce_odr"), W("weak"), W("weak_odr"), W("external"), W("common"), W("appending"),
   W("available_externally"), W("hidden"), W("protected"), W("default"), W("signext"),
   W("zeroext"), W("ccc"), W("fastcc"), W("coldcc"), W("tailcc"), W("cc")}

Primitives ==
  {"void", "double", "float", "half", "ptr", "bfloat", "fp128", "i1", "i8", "i16", "i32", "i64"}

\* A pointer to a primitive is named as the primitive.
Pointee == ("i1*" :> "i1") @@ ("i8*" :> "i8") @@ ("i64*" :> "i64") @@ ("double*" :> "double")

\* canonicalize_type, of a type that is a single token
Canonical(ty) ==
  CASE ty[1] \in {"%", "%*"} -> {ty[2]}
    [] ty[1] = "word" -> {w \in {IF ty[2] \in DOMAIN Pointee THEN Pointee[ty[2]] ELSE ty[2]} :
                            w \in Primitives}
    [] OTHER -> {}

\* A type at the head of s, by value structs included.
TypeAtHead(s) ==
  IF s = <<>> THEN {}
  ELSE IF s[1] = W("{") THEN {"struct" : n \in Closing(s, Braces)} ELSE Canonical(s[1])

\* parse_param_list
Variadic(chunks) == chunks # <<>> /\ chunks[Len(chunks)] = <<W("...")>>
Parameters(s) ==
  IF s = <<>> THEN {Signature(<<>>, FALSE)}
  ELSE UNION {
         LET v     == Variadic(p)
             fixed == IF v THEN SubSeq(p, 1, Len(p) - 1) ELSE p
         IN  {Signature(types, v) :
                types \in All([k \in DOMAIN fixed |-> TypeAtHead(DropLeading(fixed[k], OperandAttrs))])} :
         p \in SplitCommas(s)}

\* parse_signature_line, of a line that begins with its keyword
NamedSignature(line) ==
  LET head  == DropLeading(Tail(line), LinkageWords)
      after == IF head = <<>> THEN {}
               ELSE IF head[1] = W("{") THEN Closing(head, Braces) ELSE {1}
      named == {From(head, n + 1) : n \in {n \in after : Class(head, n + 1) = "@"}}
      list(s) == From(s, FirstIn(s, {W("(")}))
  IN  UNION {UNION {{[name |-> s[1][2], signature |-> p] :
                       p \in Parameters(SubSeq(list(s), 2, n - 1))} :
                     n \in Closing(list(s), Parens)} :
              s \in {s \in named : TypeAtHead(head) # {}}}
=============================================================================
