------------------------------- MODULE FrontEnd -------------------------------
(***************************************************************************)
(* From QIR text to the parsed module the translator walks: parse_module of  *)
(* ir/parser.rs scans the lines once, resolves the attribute groups, then    *)
(* extract_signatures (called by build_program) scans the same lines again   *)
(* and the entry point is taken.                                           *)
(***************************************************************************)
EXTENDS SignatureText

CONSTANT Texts   \* the texts read: [lines, ..], a line being a sequence of tokens

ASSUME TextsAssumption ==
  \A t \in Texts : /\ IsSeq(t.lines)
                   /\ \A n \in DOMAIN t.lines : IsSeq(t.lines[n])

\* The type a function returns names no global.
ReturnsType(l) ==
  LET head == DropLeading(Tail(l), LinkageWords)
  IN  HeadIs(head, W("{")) =>
        \A n \in Closing(head, Braces) : \A m \in 1..n : Class(head, m) # "@"

ASSUME HeadersAssumption ==
  \A t \in Texts : \A n \in DOMAIN t.lines :
    IsHeader(t.lines[n]) => ReturnsType(t.lines[n])

VARIABLES
  text,        \* the text read
  phase,       \* "items", then in a define "brace", "body" or "wrapped", then
               \* "headers"; at last "ready" or "rejected"
  line,        \* the next line
  functions,   \* the functions read so far
  define,      \* the header of the function whose body is read
  blocks,      \* the blocks of that body
  logical,     \* the lines of a wrapped instruction, joined
  groups,      \* the attribute groups
  signatures   \* the signature table

vars == <<text, phase, line, functions, define, blocks, logical, groups, signatures>>

-----------------------------------------------------------------------------
Line    == text.lines[line]
At(p)   == phase = p /\ line <= Len(text.lines)
Past(p) == phase = p /\ line > Len(text.lines)
Next1   == line' = line + 1

\* HashMap::insert
Inserted(table, key, value) ==
  [k \in DOMAIN table \cup {key} |-> IF k = key THEN value ELSE table[k]]

Function(h, declaration, entry, refs, body) ==
  [name |-> h.name, declaration |-> declaration, entry |-> entry, refs |-> refs,
   profile |-> {}, blocks |-> body]

NoDefine  == [name |-> "", entry |-> FALSE, refs |-> <<>>]
NoLogical == [text |-> <<>>, depth |-> 0, call |-> FALSE, global |-> FALSE]

Init ==
  /\ text \in Texts
  /\ phase = "items"
  /\ line = 1
  /\ functions = <<>>
  /\ define = NoDefine
  /\ blocks = <<>>
  /\ logical = NoLogical
  /\ groups = <<>>
  /\ signatures = <<>>

Reject ==
  /\ phase' = "rejected"
  /\ UNCHANGED <<text, line, functions, define, blocks, logical, groups, signatures>>

-----------------------------------------------------------------------------
(* Top level.                                                              *)

\* Blank lines, comments, metadata, globals, types, malformed groups.
IgnoreLine ==
  /\ At("items")
  /\ ~IsHeader(Line)
  /\ AttributeGroup(Line) = {}
  /\ Next1
  /\ UNCHANGED <<text, phase, functions, define, blocks, logical, groups, signatures>>

ReadAttributes ==
  /\ At("items")
  /\ \E g \in AttributeGroup(Line) : groups' = Inserted(groups, g.id, g.body)
  /\ Next1
  /\ UNCHANGED <<text, phase, functions, define, blocks, logical, signatures>>

ReadDeclare ==
  /\ At("items") /\ HeadIs(Line, W("declare"))
  /\ \E h \in HeaderOf(Line) :
       functions' = Append(functions, Function(h, TRUE, FALSE, <<>>, <<>>))
  /\ Next1
  /\ UNCHANGED <<text, phase, define, blocks, logical, groups, signatures>>

ReadDefine ==
  /\ At("items") /\ IsDefine(Line)
  /\ \E h \in HeaderOf(Line) :
       /\ define' = [name |-> h.name, entry |-> InlineEntry(h.rest), refs |-> GroupRefs(h.rest)]
       /\ phase' = IF OpensBody(h.rest) THEN "body" ELSE "brace"
  /\ blocks' = <<Block("", <<>>)>>
  /\ Next1
  /\ UNCHANGED <<text, functions, logical, groups, signatures>>

RefuseHeader ==
  /\ At("items") /\ IsHeader(Line)
  /\ HeaderOf(Line) = {}
  /\ Reject

-----------------------------------------------------------------------------
(* parse_define, after the header.                                         *)

\* Lines are passed until one begins with the brace.
PassToBrace ==
  /\ At("brace")
  /\ phase' = IF HeadIs(Line, W("{")) THEN "body" ELSE "brace"
  /\ Next1
  /\ UNCHANGED <<text, functions, define, blocks, logical, groups, signatures>>

BodyLine == At("body") /\ Line # <<>> /\ ~HeadIs(Line, W(";"))

SkipBodyLine ==
  /\ At("body") /\ ~BodyLine
  /\ Next1
  /\ UNCHANGED <<text, phase, functions, define, blocks, logical, groups, signatures>>

CloseBody ==
  /\ BodyLine /\ Line = <<W("}")>>
  /\ functions' = Append(functions, Function(define, FALSE, define.entry, define.refs, blocks))
  /\ phase' = "items"
  /\ Next1
  /\ UNCHANGED <<text, define, blocks, logical, groups, signatures>>

\* try_parse_label_line
LabelOf(l) == {t[2] : t \in {t \in Listed(Live(l)) : t[1] = ":" /\ Len(Live(l)) = 1}}

LastBlock == blocks[Len(blocks)]

\* A label names the block begun without one if that one is empty, or begins
\* a new block.
Labelled(name) ==
  IF LastBlock.insts = <<>> /\ LastBlock.name = ""
    THEN [blocks EXCEPT ![Len(blocks)].name = name]
    ELSE Append(blocks, Block(name, <<>>))

\* Mutant of ReadLabel: the label's line is not consumed.
ReadLabel_Again ==
  /\ BodyLine
  /\ \E name \in LabelOf(Line) : blocks' = Labelled(name)
  /\ UNCHANGED <<text, phase, line, functions, define, logical, groups, signatures>>

ReadLabel ==
  /\ BodyLine
  /\ \E name \in LabelOf(Line) : blocks' = Labelled(name)
  /\ Next1
  /\ UNCHANGED <<text, phase, functions, define, logical, groups, signatures>>

Depth(l) == Nesting(Live(l), Wraps)[Len(Live(l))]
NamesGlobal(l) == \E t \in Listed(Live(l)) : t[1] = "@"

StartInstruction ==
  /\ BodyLine /\ Line # <<W("}")>> /\ LabelOf(Line) = {}
  /\ logical' = [text |-> Line, depth |-> Depth(Line), call |-> IsCall(Line),
                 global |-> NamesGlobal(Line)]
  /\ phase' = "wrapped"
  /\ Next1
  /\ UNCHANGED <<text, functions, define, blocks, groups, signatures>>

\* Mutant of Complete: a function type alone on its line ends the call.
Complete_AtDepth == logical.depth = 0

\* Brackets are balanced, and a call has named its callee.
Complete == logical.depth = 0 /\ (logical.call => logical.global)

ContinueInstruction ==
  /\ At("wrapped") /\ ~Complete
  /\ logical' = IF Line = <<>> THEN logical
                ELSE [logical EXCEPT !.text = @ \o Line, !.depth = @ + Depth(Line),
                                     !.global = @ \/ NamesGlobal(Line)]
  /\ Next1
  /\ UNCHANGED <<text, phase, functions, define, blocks, groups, signatures>>

FinishInstruction ==
  /\ phase = "wrapped" /\ Complete
  /\ \E i \in ReadInstruction(logical.text) :
       blocks' = [blocks EXCEPT ![Len(blocks)].insts = Append(@, i)]
  /\ phase' = "body"
  /\ UNCHANGED <<text, line, functions, define, logical, groups, signatures>>

RefuseInstruction ==
  /\ phase = "wrapped" /\ Complete
  /\ ReadInstruction(logical.text) = {}
  /\ Reject

\* A body, or an instruction of it, that the text does not end.
RefuseUnterminated ==
  /\ Past("brace") \/ Past("body") \/ (Past("wrapped") /\ ~Complete)
  /\ Reject

-----------------------------------------------------------------------------
(* The second pass over the functions: their attribute groups are known.    *)

GroupsOf(f) == [k \in DOMAIN f.refs |->
                  IF f.refs[k] \in DOMAIN groups THEN groups[f.refs[k]] ELSE <<>>]

\* Mutant of Resolved: any group that is found makes an entry point.
Resolved_Any(f) ==
  LET bodies == GroupsOf(f)
      with   == Least({k \in DOMAIN bodies : ProfilesIn(bodies[k]) # {}})
  IN  [f EXCEPT !.entry = @ \/ \E k \in DOMAIN bodies : bodies[k] # <<>>,
                !.profile = UNION {ProfilesIn(bodies[k]) : k \in with}]

\* The profile is that of the first group that has one.
Resolved(f) ==
  LET bodies == GroupsOf(f)
      with   == Least({k \in DOMAIN bodies : ProfilesIn(bodies[k]) # {}})
  IN  [f EXCEPT !.entry = @ \/ \E k \in DOMAIN bodies : EntryPoint \in Listed(bodies[k]),
                !.profile = UNION {ProfilesIn(bodies[k]) : k \in with}]

ResolveGroups ==
  /\ Past("items")
  /\ functions' = [n \in DOMAIN functions |-> Resolved(functions[n])]
  /\ phase' = "headers"
  /\ line' = 1
  /\ UNCHANGED <<text, define, blocks, logical, groups, signatures>>

-----------------------------------------------------------------------------
(* extract_signatures, then the entry point.                               *)

SkipLine ==
  /\ At("headers") /\ ~HasSignature(Line)
  /\ Next1
  /\ UNCHANGED <<text, phase, functions, define, blocks, logical, groups, signatures>>

ReadSignature ==
  /\ At("headers") /\ HasSignature(Line)
  /\ \E s \in NamedSignature(Line) : signatures' = Inserted(signatures, s.name, s.signature)
  /\ Next1
  /\ UNCHANGED <<text, phase, functions, define, blocks, logical, groups>>

RefuseSignature ==
  /\ At("headers") /\ HasSignature(Line)
  /\ NamedSignature(Line) = {}
  /\ Reject

\* Module::entry_point
EntryPoints == {n \in DOMAIN functions : functions[n].entry /\ ~functions[n].declaration}

\* Mutant of TakeEntry: a module without a tagged function is let through.
TakeEntry_Untagged ==
  /\ Past("headers")
  /\ phase' = "ready"
  /\ UNCHANGED <<text, line, functions, define, blocks, logical, groups, signatures>>

TakeEntry ==
  /\ Past("headers") /\ EntryPoints # {}
  /\ phase' = "ready"
  /\ UNCHANGED <<text, line, functions, define, blocks, logical, groups, signatures>>

RefuseEntry ==
  /\ Past("headers") /\ EntryPoints = {}
  /\ Reject

Done ==
  /\ phase \in {"ready", "rejected"}
  /\ UNCHANGED vars

ReadTop    == IgnoreLine \/ ReadAttributes \/ ReadDeclare \/ ReadDefine \/ RefuseHeader
ReadBody   == PassToBrace \/ SkipBodyLine \/ CloseBody \/ ReadLabel \/ StartInstruction
                \/ ContinueInstruction \/ FinishInstruction \/ RefuseInstruction
                \/ RefuseUnterminated
ReadTable  == SkipLine \/ ReadSignature \/ RefuseSignature
Next       == ReadTop \/ ReadBody \/ ResolveGroups \/ ReadTable \/ TakeEntry \/ RefuseEntry
                \/ Done

Spec == Init /\ [][Next]_vars
-----------------------------------------------------------------------------
(* What the translator is given.                                           *)

Entry  == functions[CHOOSE n \in Least(EntryPoints) : TRUE]
Parsed == [signatures |-> signatures, blocks |-> Entry.blocks]

-----------------------------------------------------------------------------
(* Properties.                                                             *)

\* Types, and what the code relies on between two phases: a body always has a
\* block to add to, and what is handed over is a module the translator can walk.
TypeOK ==
  /\ phase \in {"items", "brace", "body", "wrapped", "headers", "ready", "rejected"}
  /\ line \in 1..(Len(text.lines) + 1)
  /\ IsSeq(functions) /\ IsSeq(blocks) /\ IsSeq(logical.text)
  /\ phase \in {"brace", "body", "wrapped"} => blocks # <<>>
  /\ phase = "ready" => EntryPoints # {} /\ ParsedModule(Parsed)

\* The text says that f is the entry point: in its header, or in an attribute
\* group, anywhere in the text, that its header names.
TaggedIn(lines, name) ==
  \E n \in DOMAIN lines : \E h \in HeaderOf(lines[n]) :
    /\ IsDefine(lines[n]) /\ h.name = name
    /\ \/ InlineEntry(h.rest)
       \/ \E ref \in Listed(GroupRefs(h.rest)) : \E k \in DOMAIN lines :
            \E g \in AttributeGroup(lines[k]) : g.id = ref /\ EntryPoint \in Listed(g.body)

\* No function becomes the entry point but one the text tags so, although the
\* groups are resolved only after the last function was read.
EntryIsTagged == phase = "ready" => TaggedIn(text.lines, Entry.name)

\* The two scans of the text agree: a function that was read has a signature
\* when the translator looks for it.
FunctionsHaveSignatures ==
  phase = "ready" => \A n \in DOMAIN functions : functions[n].name \in DOMAIN signatures

\* No line is read twice in a pass, and no pass is begun again: with no state
\* to be stuck in, every text is read to its end or refused.
Pass(p) == CASE p = "headers" -> 2 [] p \in {"ready", "rejected"} -> 3 [] OTHER -> 1
Advances ==
  [][\/ Pass(phase') > Pass(phase)
     \/ Pass(phase') = Pass(phase) /\ line' > line
     \/ phase = "wrapped" /\ phase' = "body" /\ line' = line]_vars
=============================================================================
