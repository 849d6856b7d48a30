----------------------------- MODULE MCFrontEnd -----------------------------
(* QIR modules written in every style, and laid out in every way.          *)
EXTENDS QirText

Plain(typed) == [typed |-> typed, wordy |-> FALSE, groups |-> "after", brace |-> "same"]
Wordy(typed) == [typed |-> typed, wordy |-> TRUE, groups |-> "before", brace |-> "next"]

Some(S) == CHOOSE x \in S : TRUE

\* One module of each family that has a shape of its own.
Branching == Some(P!ShortCircuitPrograms)
Calling   == Some(P!GatePrograms)
Storing   == Some({p \in P!SlotPrograms : P!LoadsStored(p)})

StyledTexts   == {Written(st, m) : st \in Styles, m \in {Branching, Calling, Storing}}
AcceptedTexts ==
  {Written(st, m) : st \in {Plain(TRUE), Plain(FALSE), Wordy(TRUE), Wordy(FALSE)},
                    m \in P!ShortCircuitPrograms \cup P!GatePrograms}
\* Every line broken in every place; with a comment there, but for the memory
\* instructions.
LaidOutTexts  ==
  UNION {BrokenTexts(Written(Plain(TRUE), m), BOOLEAN) : m \in {Branching, Calling}}
    \cup BrokenTexts(Written(Plain(TRUE), Storing), {FALSE})

\* A module as LLVM prints it, its calls wrapped or not, is accepted.
PrintedIsAccepted == text.supported => phase # "rejected"

\* The translator refuses an Unsupported instruction of the entry point, such as
\* a torn line leaves, and a call of a function without a signature.
Refused(m) ==
  \/ \E b \in Listed(m.blocks) : Unsupported \in Listed(b.insts)
  \/ ~(Called(m.blocks) \subseteq DOMAIN m.signatures)

\* However a text is laid out, with comments and blank lines anywhere, and
\* wherever it is cut short, it is read as what it says, or refused: by the
\* parser, or later by the translator.
NeverMisread ==
  phase = "ready" => Parsed = text.meaning \/ (~text.supported /\ Refused(Parsed))

\* A text cut short anywhere, and return attributes in its declarations.
SpoiltTexts ==
  LET t == Written([Plain(TRUE) EXCEPT !.groups = "before"], Branching)
  IN  {Cut(t, x[1], x[2]) : x \in Breaks(t)} \cup Attributed(t)

\* Two calls on one line.
JoinedText == JoinedCalls(Written(Plain(TRUE), Branching))

MCTexts == StyledTexts \cup AcceptedTexts \cup LaidOutTexts \cup SpoiltTexts
=============================================================================
