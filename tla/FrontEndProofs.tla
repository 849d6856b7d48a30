---------------------------- MODULE FrontEndProofs ----------------------------
(***************************************************************************)
(* For every set of texts: no line is read twice in a pass, the function     *)
(* taken for the entry point is one the text tags so, every function that     *)
(* was read has a signature, and what is handed on is a module the           *)
(* translator can walk.                                                    *)
(*                                                                         *)
(* Read says where what is held in the state stands in the text.  The two    *)
(* scans of a header, one for the first global and one for the global after  *)
(* a type, agree by SameName.  Shaped says what the values held look like:   *)
(* sequences where the translator indexes, integers for pointer constants.   *)
(***************************************************************************)
EXTENDS FrontEnd, SequenceTheorems, FiniteSetTheorems, WellFoundedInduction, TLAPS

-----------------------------------------------------------------------------
(* Lemmas on numbers and sequences.                                        *)

LEMMA LeastExists ==
  ASSUME NEW S, S \subseteq Nat, S # {}
  PROVE  \E n \in S : \A m \in S : n <= m
<1> DEFINE R == {ss \in Nat \X Nat : ss[1] < ss[2]}
<1>1. IsWellFoundedOn(R, Nat)  BY NatLessThanWellFounded DEF OpToRel
<1>2. PICK n \in S : \A m \in S : ~(<<m, n>> \in R)  BY <1>1, WFMin
<1>3. \A m \in S : ~(m < n)  BY <1>2
<1> QED  BY <1>3

LEMMA LeastFacts ==
  ASSUME NEW S, S \subseteq Nat
  PROVE  /\ Least(S) \subseteq S
         /\ S # {} => Least(S) # {}
BY LeastExists DEF Least

LEMMA FromFacts ==
  ASSUME NEW s, IsSeq(s), NEW n \in 1..(Len(s) + 1)
  PROVE  /\ IsSeq(From(s, n))
         /\ Len(From(s, n)) = Len(s) - n + 1
         /\ \A k \in 1..(Len(s) - n + 1) : From(s, n)[k] = s[n + k - 1]
<1> DEFINE t == From(s, n)
<1>1. s \in Seq(Listed(s)) /\ Len(s) \in Nat  BY DEF IsSeq
<1>2. /\ t \in Seq(Listed(s)) /\ Len(t) = Len(s) - n + 1
      /\ \A k \in 1..(Len(s) - n + 1) : t[k] = s[n + k - 1]
  BY <1>1, SubSeqProperties DEF From
<1>3. t \in Seq(Listed(t))
  <2> HIDE DEF t
  <2>1. PICK k \in Nat : t \in [1..k -> Listed(s)]  BY <1>2, SeqDef
  <2>2. t \in [1..k -> Listed(t)]  BY <2>1 DEF Listed
  <2> QED  BY <2>2, SeqDef
<1> QED  BY <1>2, <1>3 DEF IsSeq

LEMMA TailFacts ==
  ASSUME NEW s, IsSeq(s), s # <<>>
  PROVE  /\ IsSeq(Tail(s))
         /\ Len(Tail(s)) = Len(s) - 1 /\ Len(s) \in Nat \ {0}
         /\ \A k \in 1..(Len(s) - 1) : Tail(s)[k] = s[k + 1]
<1> DEFINE t == Tail(s)
<1>1. s \in Seq(Listed(s)) /\ Len(s) \in Nat \ {0}  BY DEF IsSeq
<1>2. /\ t \in Seq(Listed(s)) /\ Len(t) = Len(s) - 1
      /\ \A k \in 1..(Len(s) - 1) : t[k] = s[k + 1]
  BY <1>1
<1>3. t \in Seq(Listed(t))
  <2> HIDE DEF t
  <2>1. PICK k \in Nat : t \in [1..k -> Listed(s)]  BY <1>2, SeqDef
  <2>2. t \in [1..k -> Listed(t)]  BY <2>1 DEF Listed
  <2> QED  BY <2>2, SeqDef
<1> QED  BY <1>1, <1>2, <1>3 DEF IsSeq

LEMMA DropLeadingFacts ==
  ASSUME NEW s, IsSeq(s), NEW S
  PROVE  \E n \in 1..(Len(s) + 1) :
           /\ DropLeading(s, S) = From(s, n)
           /\ \A m \in 1..(n - 1) : s[m] \in S
<1> DEFINE P(n) == /\ n <= Len(s) => s[n] \notin S
                  /\ \A m \in 1..(n - 1) : s[m] \in S
           kept == {n \in 1..Len(s) : s[n] \notin S} \cup {Len(s) + 1}
<1>1. Len(s) \in Nat  BY DEF IsSeq
<1>2. PICK n \in kept : \A m \in kept : n <= m
  <2>1. kept \subseteq Nat /\ kept # {}  BY <1>1
  <2> HIDE DEF kept
  <2> QED  BY <2>1, LeastExists
<1>3. n \in 1..(Len(s) + 1) /\ P(n)  BY <1>1, <1>2
<1>4. DropLeading(s, S) = From(s, CHOOSE k \in 1..(Len(s) + 1) : P(k))  BY DEF DropLeading
<1> HIDE DEF P
<1>5. (CHOOSE k \in 1..(Len(s) + 1) : P(k)) \in 1..(Len(s) + 1)
      /\ P(CHOOSE k \in 1..(Len(s) + 1) : P(k))
  BY <1>3
<1> QED  BY <1>4, <1>5 DEF P

\* The name the parser reads is that of the first global.
LEMMA HeaderName ==
  ASSUME NEW l, IsSeq(l), NEW h \in HeaderOf(l)
  PROVE  \E n \in DOMAIN l : /\ Class(l, n) = "@" /\ h.name = l[n][2]
                             /\ \A m \in DOMAIN l : Class(l, m) = "@" => n <= m
<1> DEFINE at == {n \in DOMAIN l : Class(l, n) = "@"}
<1>1. PICK n \in Least(at) : h.name = From(l, n)[1][2]
  BY DEF HeaderOf
<1>2. DOMAIN l = 1..Len(l) /\ Len(l) \in Nat  BY DEF IsSeq
<1>3. n \in at /\ \A m \in at : n <= m  BY DEF Least
<1>4. From(l, n)[1] = l[n]  BY <1>2, <1>3, FromFacts
<1> QED  BY <1>1, <1>3, <1>4

LEMMA KeywordsAreWords ==
  /\ \A l : IsHeader(l) => l # <<>> /\ l[1][1] = "word"
  /\ \A w \in LinkageWords : w[1] = "word"
<1>1. ASSUME NEW l, IsHeader(l)  PROVE l # <<>> /\ l[1][1] = "word"
  BY <1>1 DEF IsHeader, IsDefine, HeadIs, W
<1>2. \A w \in LinkageWords : w[1] = "word"  BY DEF LinkageWords, W
<1> QED  BY <1>1, <1>2

TypeEnds(head) ==
  IF head = <<>> THEN {}
  ELSE IF head[1] = W("{") THEN Closing(head, Braces) ELSE {1}

\* The signature table takes the name from the global that follows a type.
LEMMA SignatureRead ==
  ASSUME NEW l, NEW s \in NamedSignature(l)
  PROVE  LET head == DropLeading(Tail(l), LinkageWords)
         IN  \E k \in TypeEnds(head) : /\ Class(head, k + 1) = "@" /\ TypeAtHead(head) # {}
                                      /\ s.name = From(head, k + 1)[1][2]
<1> DEFINE head == DropLeading(Tail(l), LinkageWords)
           named == {From(head, n + 1) : n \in {n \in TypeEnds(head) : Class(head, n + 1) = "@"}}
           list(x) == From(x, FirstIn(x, {W("(")}))
           Read(x, n) == {[name |-> x[1][2], signature |-> p] :
                            p \in Parameters(SubSeq(list(x), 2, n - 1))}
           Of(x) == UNION {Read(x, n) : n \in Closing(list(x), Parens)}
<1>1. NamedSignature(l) = UNION {Of(x) : x \in {x \in named : TypeAtHead(head) # {}}}
  BY DEF NamedSignature, TypeEnds
<1> HIDE DEF head
<1>2. PICK x \in named : TypeAtHead(head) # {} /\ s \in Of(x)
  <2> HIDE DEF Of, named
  <2> QED  BY <1>1
<1>3. s.name = x[1][2]
  <2>1. PICK n \in Closing(list(x), Parens) : s \in Read(x, n)
    <3> HIDE DEF Read, list
    <3> QED  BY <1>2
  <2> HIDE DEF list
  <2> QED  BY <2>1
<1>4. PICK k \in TypeEnds(head) : Class(head, k + 1) = "@" /\ x = From(head, k + 1)
  BY <1>2
<1> QED  BY <1>2, <1>3, <1>4 DEF head

\* No global stands in a type, or in what stands before it.
LEMMA TypeHasNoGlobal ==
  ASSUME NEW l, ReturnsType(l), NEW head, head = DropLeading(Tail(l), LinkageWords),
         TypeAtHead(head) # {}, NEW k \in TypeEnds(head), NEW j \in 1..k
  PROVE  Class(head, j) # "@"
<1>1. CASE head[1] = W("{")
  <2>1. k \in Closing(head, Braces) /\ head # <<>>  BY <1>1 DEF TypeEnds
  <2>2. HeadIs(head, W("{"))  BY <1>1, <2>1 DEF HeadIs
  <2> QED  BY <2>1, <2>2 DEF ReturnsType
<1>2. CASE head[1] # W("{")
  <2>1. k = 1 /\ head # <<>>  BY <1>2 DEF TypeEnds
  <2>2. Canonical(head[1]) # {}  BY <1>2, <2>1 DEF TypeAtHead
  <2>3. head[1][1] \in {"%", "%*", "word"}  BY <2>2 DEF Canonical
  <2> QED  BY <2>1, <2>3 DEF Class
<1> QED  BY <1>1, <1>2

\* What stands before the name the signature table reads is no global.
LEMMA SignatureName ==
  ASSUME NEW l, IsSeq(l), IsHeader(l), ReturnsType(l), NEW s \in NamedSignature(l)
  PROVE  \E n \in DOMAIN l : /\ Class(l, n) = "@" /\ s.name = l[n][2]
                             /\ \A m \in 1..(n - 1) : Class(l, m) # "@"
<1>1. PICK head : head = DropLeading(Tail(l), LinkageWords)  OBVIOUS
<1>2. PICK k \in TypeEnds(head) : /\ Class(head, k + 1) = "@" /\ TypeAtHead(head) # {}
                                 /\ s.name = From(head, k + 1)[1][2]
  BY <1>1, SignatureRead
<1>3. /\ IsSeq(Tail(l)) /\ Len(Tail(l)) = Len(l) - 1 /\ Len(l) \in Nat \ {0}
      /\ \A j \in 1..(Len(l) - 1) : Tail(l)[j] = l[j + 1]
  BY KeywordsAreWords, TailFacts
<1>4. PICK d \in 1..Len(l) : /\ head = From(Tail(l), d)
                             /\ \A m \in 1..(d - 1) : Tail(l)[m] \in LinkageWords
  <2>1. Len(Tail(l)) + 1 = Len(l)  BY <1>3
  <2> QED  BY <1>1, <1>3, <2>1, DropLeadingFacts
<1>5. /\ IsSeq(head) /\ Len(head) = Len(l) - d
      /\ \A j \in 1..(Len(l) - d) : head[j] = l[d + j]
  <2>1. /\ IsSeq(head) /\ Len(head) = Len(Tail(l)) - d + 1
        /\ \A j \in 1..(Len(Tail(l)) - d + 1) : head[j] = Tail(l)[d + j - 1]
    <3>1. d \in 1..(Len(Tail(l)) + 1)  BY <1>3
    <3> QED  BY <1>3, <1>4, <3>1, FromFacts
  <2>2. Len(head) = Len(l) - d  BY <1>3, <2>1
  <2>3. ASSUME NEW j \in 1..(Len(l) - d)  PROVE head[j] = l[d + j]
    <3>1. head[j] = Tail(l)[d + j - 1]  BY <1>3, <2>1
    <3>2. d + j - 1 \in 1..(Len(l) - 1) /\ d + j - 1 + 1 = d + j  BY <1>3
    <3> QED  BY <1>3, <3>1, <3>2
  <2> QED  BY <2>1, <2>2, <2>3
<1>6. DOMAIN l = 1..Len(l) /\ DOMAIN head = 1..Len(head) /\ Len(head) \in Nat
  BY <1>5 DEF IsSeq
<1>7. k + 1 \in DOMAIN head  BY <1>2 DEF Class
<1>8. k \in Nat \ {0}
  <2>1. Closing(head, Braces) \subseteq DOMAIN head  BY DEF Closing, Least
  <2>2. k \in Closing(head, Braces) \/ k = 1  BY DEF TypeEnds
  <2> QED  BY <1>6, <2>1, <2>2
<1>9. From(head, k + 1)[1] = head[k + 1]
  <2>1. PICK n : n = k + 1  OBVIOUS
  <2>2. n \in 1..(Len(head) + 1) /\ 1 \in 1..(Len(head) - n + 1) /\ n + 1 - 1 = n
    BY <1>6, <1>7, <1>8, <2>1
  <2>3. \A i \in 1..(Len(head) - n + 1) : From(head, n)[i] = head[n + i - 1]
    BY <1>5, <2>2, FromFacts
  <2>4. From(head, n)[1] = head[n]  BY <2>2, <2>3
  <2> QED  BY <2>1, <2>4
<1>10. d + k + 1 \in DOMAIN l /\ l[d + k + 1] = head[k + 1]
  <2>1. k + 1 \in 1..(Len(l) - d) /\ d + (k + 1) = d + k + 1  BY <1>3, <1>5, <1>6, <1>7, <1>8
  <2> QED  BY <1>3, <1>5, <1>6, <2>1
<1>11. ASSUME NEW m \in 1..(d + k)  PROVE Class(l, m) # "@"
  <2>1. m \in DOMAIN l /\ Class(l, m) = l[m][1]  BY <1>3, <1>6, <1>8, <1>10 DEF Class
  <2>2. CASE m = 1  BY <2>1, <2>2, KeywordsAreWords
  <2>3. CASE m \in 2..d
    <3>1. m - 1 \in 1..(d - 1) /\ m - 1 \in 1..(Len(l) - 1) /\ m - 1 + 1 = m  BY <1>3, <2>3
    <3>2. l[m] \in LinkageWords  BY <1>3, <1>4, <3>1
    <3> QED  BY <2>1, <3>2, KeywordsAreWords
  <2>4. CASE m \in (d + 1)..(d + k)
    <3>1. m - d \in 1..k /\ m - d \in 1..(Len(l) - d) /\ d + (m - d) = m
      BY <1>3, <1>5, <1>6, <1>7, <1>8, <2>4
    <3>2. m - d \in DOMAIN head /\ head[m - d] = l[m]  BY <1>5, <1>6, <3>1
    <3>3. Class(head, m - d) # "@"  BY <1>1, <1>2, <3>1, TypeHasNoGlobal
    <3> QED  BY <2>1, <3>2, <3>3 DEF Class
  <2> QED  BY <1>4, <1>8, <2>2, <2>3, <2>4
<1> DEFINE n == d + k + 1
<1>12. Class(l, n) = "@" /\ s.name = l[n][2]
  BY <1>2, <1>7, <1>9, <1>10 DEF Class
<1>13. \A m \in 1..(n - 1) : Class(l, m) # "@"
  <2>1. n - 1 = d + k  BY <1>4, <1>8
  <2> QED  BY <1>11, <2>1
<1> QED  BY <1>10, <1>12, <1>13

\* The two scans of a header read the same name.
LEMMA SameName ==
  ASSUME NEW l, IsSeq(l), IsHeader(l), ReturnsType(l),
         NEW h \in HeaderOf(l), NEW s \in NamedSignature(l)
  PROVE  h.name = s.name
<1>1. PICK n \in DOMAIN l : /\ Class(l, n) = "@" /\ h.name = l[n][2]
                           /\ \A m \in DOMAIN l : Class(l, m) = "@" => n <= m
  BY HeaderName
<1>2. PICK k \in DOMAIN l : /\ Class(l, k) = "@" /\ s.name = l[k][2]
                           /\ \A m \in 1..(k - 1) : Class(l, m) # "@"
  BY SignatureName
<1>3. DOMAIN l = 1..Len(l) /\ Len(l) \in Nat  BY DEF IsSeq
<1>4. n = k  BY <1>1, <1>2, <1>3
<1> QED  BY <1>1, <1>2, <1>4

-----------------------------------------------------------------------------
(* No line is read twice.                                                  *)

\* What a step does to the phase and the line.
Step ==
  \/ Pass(phase') > Pass(phase)
  \/ Pass(phase') = Pass(phase) /\ line' > line
  \/ phase = "wrapped" /\ phase' = "body" /\ line' = line

LineCounts == line \in Nat \ {0}

LEMMA NextAdvances ==
  ASSUME LineCounts, Next
  PROVE  LineCounts' /\ [Step]_vars
<1>1. CASE IgnoreLine  BY <1>1 DEF LineCounts, IgnoreLine, Next1, At, Step, Pass
<1>2. CASE ReadAttributes  BY <1>2 DEF LineCounts, ReadAttributes, Next1, At, Step, Pass
<1>3. CASE ReadDeclare  BY <1>3 DEF LineCounts, ReadDeclare, Next1, At, Step, Pass
<1>4. CASE ReadDefine
  <2>1. phase = "items" /\ phase' \in {"brace", "body"} /\ line' = line + 1
    BY <1>4 DEF ReadDefine, Next1, At
  <2> QED  BY <2>1 DEF LineCounts, Step, Pass
<1>5. CASE RefuseHeader  BY <1>5 DEF LineCounts, RefuseHeader, Reject, At, Step, Pass
<1>6. CASE PassToBrace
  <2>1. phase = "brace" /\ phase' \in {"brace", "body"} /\ line' = line + 1
    BY <1>6 DEF PassToBrace, Next1, At
  <2> QED  BY <2>1 DEF LineCounts, Step, Pass
<1>7. CASE SkipBodyLine  BY <1>7 DEF LineCounts, SkipBodyLine, Next1, At, Step, Pass
<1>8. CASE CloseBody
  <2>1. phase = "body" /\ phase' = "items" /\ line' = line + 1
    BY <1>8 DEF CloseBody, BodyLine, Next1, At
  <2> QED  BY <2>1 DEF LineCounts, Step, Pass
<1>9. CASE ReadLabel
  <2>1. phase = "body" /\ phase' = "body" /\ line' = line + 1
    BY <1>9 DEF ReadLabel, BodyLine, Next1, At
  <2> QED  BY <2>1 DEF LineCounts, Step, Pass
<1>10. CASE StartInstruction
  <2>1. phase = "body" /\ phase' = "wrapped" /\ line' = line + 1
    BY <1>10 DEF StartInstruction, BodyLine, Next1, At
  <2> QED  BY <2>1 DEF LineCounts, Step, Pass
<1>11. CASE ContinueInstruction  BY <1>11 DEF LineCounts, ContinueInstruction, Next1, At, Step, Pass
<1>12. CASE FinishInstruction  BY <1>12 DEF LineCounts, FinishInstruction, Step, Pass
<1>13. CASE RefuseInstruction  BY <1>13 DEF LineCounts, RefuseInstruction, Reject, Step, Pass
<1>14. CASE RefuseUnterminated  BY <1>14 DEF LineCounts, RefuseUnterminated, Reject, Past, Step, Pass
<1>15. CASE SkipLine  BY <1>15 DEF LineCounts, SkipLine, Next1, At, Step, Pass
<1>16. CASE ReadSignature  BY <1>16 DEF LineCounts, ReadSignature, Next1, At, Step, Pass
<1>17. CASE RefuseSignature  BY <1>17 DEF LineCounts, RefuseSignature, Reject, At, Step, Pass
<1>18. CASE ResolveGroups  BY <1>18 DEF LineCounts, ResolveGroups, Past, Step, Pass
<1>19. CASE TakeEntry  BY <1>19 DEF LineCounts, TakeEntry, Past, Step, Pass
<1>20. CASE RefuseEntry  BY <1>20 DEF LineCounts, RefuseEntry, Reject, Past, Step, Pass
<1>21. CASE Done  BY <1>21 DEF LineCounts, Done, vars, Step, Pass
<1> QED
  BY <1>1, <1>2, <1>3, <1>4, <1>5, <1>6, <1>7, <1>8, <1>9, <1>10, <1>11, <1>12, <1>13, <1>14, <1>15, <1>16, <1>17, <1>18, <1>19, <1>20, <1>21
  DEF Next, ReadTop, ReadBody, ReadTable

\* Every step of a pass reads a line, ends an instruction or ends the pass: the
\* scans come to an end on every text.
THEOREM ScanAdvances == Spec => Advances
<1>1. Init => LineCounts  BY DEF Init, LineCounts
<1>2. LineCounts /\ [Next]_vars => LineCounts'
  BY NextAdvances DEF LineCounts, vars
<1>3. LineCounts /\ [Next]_vars => [Step]_vars
  BY NextAdvances
<1>4. Spec => [][Step]_vars
  BY <1>1, <1>2, <1>3, PTL DEF Spec
<1> QED  BY <1>4 DEF Advances, Step
-----------------------------------------------------------------------------
(* What was read stands in the text.                                       *)

InDefine == {"brace", "body", "wrapped"}
Before   == {"items"} \cup InDefine      \* the first pass
After    == {"headers", "ready"}

\* A header of the text says so of a function.
CameFrom(lines, name, declaration, entry, refs) ==
  \E k \in DOMAIN lines : \E h \in HeaderOf(lines[k]) :
    /\ IsHeader(lines[k]) /\ h.name = name
    /\ \/ declaration
       \/ IsDefine(lines[k]) /\ (entry => InlineEntry(h.rest)) /\ refs = GroupRefs(h.rest)

HasHeader(lines, name) ==
  \E k \in DOMAIN lines : \E h \in HeaderOf(lines[k]) : IsHeader(lines[k]) /\ h.name = name

\* The signature table has what the header on line k names.
Entered(k) ==
  IsHeader(text.lines[k]) => \A h \in HeaderOf(text.lines[k]) : h.name \in DOMAIN signatures

Whole(f) == {"name", "declaration", "entry", "refs", "profile"} \subseteq DOMAIN f

FunctionsStated ==
  phase \in Before => \A n \in DOMAIN functions :
    LET f == functions[n] IN Whole(f) /\ CameFrom(text.lines, f.name, f.declaration, f.entry, f.refs)

DefineStated ==
  phase \in InDefine => CameFrom(text.lines, define.name, FALSE, define.entry, define.refs)

GroupsStated ==
  \A id \in DOMAIN groups : \E k \in DOMAIN text.lines :
    \E g \in AttributeGroup(text.lines[k]) : g.id = id /\ g.body = groups[id]

ResolvedStated ==
  phase \in After => \A n \in DOMAIN functions :
    LET f == functions[n]
    IN  /\ HasHeader(text.lines, f.name)
        /\ f.entry /\ ~f.declaration => TaggedIn(text.lines, f.name)

TableStated ==
  phase \in After => \A k \in DOMAIN text.lines : k < line => Entered(k)

WholeRead == phase = "ready" => line > Len(text.lines) /\ EntryPoints # {}

Read ==
  /\ LineCounts
  /\ text \in Texts
  /\ IsSeq(functions)
  /\ FunctionsStated /\ DefineStated /\ GroupsStated
  /\ ResolvedStated /\ TableStated /\ WholeRead

LEMMA LinesAreSeqs ==
  ASSUME Read
  PROVE  /\ DOMAIN text.lines = 1..Len(text.lines) /\ Len(text.lines) \in Nat
         /\ \A k \in DOMAIN text.lines :
              /\ IsSeq(text.lines[k])
              /\ IsHeader(text.lines[k]) => ReturnsType(text.lines[k])
<1>1. text \in Texts  BY DEF Read
<1>2. IsSeq(text.lines)  BY <1>1, TextsAssumption
<1>3. DOMAIN text.lines = 1..Len(text.lines) /\ Len(text.lines) \in Nat  BY <1>2 DEF IsSeq
<1> QED  BY <1>1, <1>3, TextsAssumption, HeadersAssumption

LEMMA AppendFacts ==
  ASSUME NEW s, NEW x, IsSeq(s)
  PROVE  /\ IsSeq(Append(s, x))
         /\ \A k \in DOMAIN Append(s, x) :
              (k \in DOMAIN s /\ Append(s, x)[k] = s[k]) \/ Append(s, x)[k] = x
<1> DEFINE t == Append(s, x)
<1>1. s \in Seq(Listed(s) \cup {x})  BY DEF IsSeq
<1>2. t \in Seq(Listed(s) \cup {x}) /\ Len(t) = Len(s) + 1 /\ t[Len(s) + 1] = x
  BY <1>1
<1>3. DOMAIN t = 1..(Len(s) + 1) /\ DOMAIN s = 1..Len(s) /\ Len(s) \in Nat  BY <1>1, <1>2
<1>4. \A k \in DOMAIN t : (k \in DOMAIN s /\ t[k] = s[k]) \/ t[k] = x  BY <1>1, <1>2, <1>3
<1>5. t \in Seq(Listed(t))
  <2> HIDE DEF t
  <2> QED  BY <1>2, <1>3 DEF Listed
<1> QED  BY <1>4, <1>5 DEF IsSeq

\* Steps of the first pass that add no function and no group.
LEMMA KeptInFirstPass ==
  ASSUME Read, LineCounts', phase \in Before, phase' \in Before,
         phase' \in InDefine => phase \in InDefine,
         text' = text, functions' = functions, define' = define, groups' = groups
  PROVE  Read'
<1>1. FunctionsStated'  BY DEF Read, FunctionsStated
<1>2. DefineStated'  BY DEF Read, DefineStated
<1>3. GroupsStated'  BY DEF Read, GroupsStated
<1>4. phase' \notin After /\ phase' # "ready"  BY DEF Before, After, InDefine
<1>5. ResolvedStated' /\ TableStated' /\ WholeRead'
  BY <1>4 DEF ResolvedStated, TableStated, WholeRead
<1> QED  BY <1>1, <1>2, <1>3, <1>5 DEF Read

LEMMA RejectKeeps ==
  ASSUME Read, Reject
  PROVE  Read'
<1>1. phase' \notin Before /\ phase' \notin InDefine /\ phase' \notin After /\ phase' # "ready"
  BY DEF Reject, Before, After, InDefine
<1>2. GroupsStated'  BY DEF Read, GroupsStated, Reject
<1>3. FunctionsStated' /\ DefineStated' /\ ResolvedStated' /\ TableStated' /\ WholeRead'
  BY <1>1 DEF FunctionsStated, DefineStated, ResolvedStated, TableStated, WholeRead
<1>4. LineCounts' /\ text' \in Texts /\ IsSeq(functions')  BY DEF Read, LineCounts, Reject
<1> QED  BY <1>2, <1>3, <1>4 DEF Read

\* A function is added whose header is on some line.
LEMMA AddedInFirstPass ==
  ASSUME Read, LineCounts', phase \in Before, phase' = "items", NEW f,
         text' = text, groups' = groups, functions' = Append(functions, f),
         Whole(f), CameFrom(text.lines, f.name, f.declaration, f.entry, f.refs)
  PROVE  Read'
<1>1. IsSeq(functions')  BY AppendFacts DEF Read
<1>2. FunctionsStated'
  <2> SUFFICES ASSUME NEW n \in DOMAIN functions'
               PROVE  LET g == functions'[n]
                      IN  Whole(g) /\ CameFrom(text.lines, g.name, g.declaration, g.entry, g.refs)
    BY DEF FunctionsStated
  <2>1. CASE functions'[n] = f  BY <2>1
  <2>2. CASE n \in DOMAIN functions /\ functions'[n] = functions[n]
    <3>1. LET g == functions[n] IN Whole(g) /\ CameFrom(text.lines, g.name, g.declaration, g.entry, g.refs)
      BY <2>2 DEF Read, FunctionsStated
    <3> QED  BY <2>2, <3>1
  <2> QED  BY <2>1, <2>2, AppendFacts DEF Read
<1>3. GroupsStated'  BY DEF Read, GroupsStated
<1>4. phase' \notin InDefine /\ phase' \notin After /\ phase' # "ready"  BY DEF After, InDefine
<1>5. DefineStated' /\ ResolvedStated' /\ TableStated' /\ WholeRead'
  BY <1>4 DEF DefineStated, ResolvedStated, TableStated, WholeRead
<1> QED  BY <1>1, <1>2, <1>3, <1>5 DEF Read
LEMMA ReadAttributesKeeps ==
  ASSUME Read, LineCounts', ReadAttributes
  PROVE  Read'
<1>1. PICK g \in AttributeGroup(Line) : groups' = Inserted(groups, g.id, g.body)
  BY DEF ReadAttributes
<1>2. /\ text' = text /\ functions' = functions /\ define' = define
      /\ phase = "items" /\ phase' = "items" /\ line <= Len(text.lines)
  BY DEF ReadAttributes, At
<1>3. line \in DOMAIN text.lines  BY <1>2, LinesAreSeqs DEF Read, LineCounts
<1>4. /\ DOMAIN groups' = {g.id} \cup DOMAIN groups
      /\ groups'[g.id] = g.body
      /\ \A id \in DOMAIN groups : id # g.id => groups'[id] = groups[id]
  BY <1>1 DEF Inserted
<1>5. GroupsStated'
  <2> SUFFICES ASSUME NEW id \in DOMAIN groups'
               PROVE  \E k \in DOMAIN text.lines : \E x \in AttributeGroup(text.lines[k]) :
                        x.id = id /\ x.body = groups'[id]
    BY <1>2 DEF GroupsStated
  <2>1. CASE id = g.id  BY <1>1, <1>3, <1>4, <2>1 DEF Line
  <2>2. CASE id # g.id  BY <1>4, <2>2 DEF Read, GroupsStated
  <2> QED  BY <2>1, <2>2
<1>6. FunctionsStated'  BY <1>2 DEF Read, FunctionsStated
<1>7. DefineStated'  BY <1>2 DEF DefineStated, InDefine
<1>8. ResolvedStated' /\ TableStated' /\ WholeRead'
  BY <1>2 DEF ResolvedStated, TableStated, WholeRead, After
<1> QED  BY <1>2, <1>5, <1>6, <1>7, <1>8 DEF Read

LEMMA ReadDeclareKeeps ==
  ASSUME Read, LineCounts', ReadDeclare
  PROVE  Read'
<1>1. PICK h \in HeaderOf(Line) :
        functions' = Append(functions, Function(h, TRUE, FALSE, <<>>, <<>>))
  BY DEF ReadDeclare
<1>2. /\ text' = text /\ groups' = groups /\ phase' = "items" /\ phase = "items"
      /\ line <= Len(text.lines) /\ IsHeader(Line)
  BY DEF ReadDeclare, At, IsHeader
<1>3. line \in DOMAIN text.lines  BY <1>2, LinesAreSeqs DEF Read, LineCounts
<1>4. PICK f : f = Function(h, TRUE, FALSE, <<>>, <<>>)  OBVIOUS
<1>5. Whole(f) /\ f.name = h.name /\ f.declaration = TRUE
  BY <1>4 DEF Function, Whole
<1>6. CameFrom(text.lines, f.name, f.declaration, f.entry, f.refs)
  BY <1>1, <1>2, <1>3, <1>5 DEF CameFrom, Line
<1> QED  BY <1>1, <1>2, <1>4, <1>5, <1>6, AddedInFirstPass DEF Before

LEMMA ReadDefineKeeps ==
  ASSUME Read, LineCounts', ReadDefine
  PROVE  Read'
<1>1. PICK h \in HeaderOf(Line) :
        define' = [name |-> h.name, entry |-> InlineEntry(h.rest), refs |-> GroupRefs(h.rest)]
  BY DEF ReadDefine
<1>2. /\ text' = text /\ groups' = groups /\ functions' = functions
      /\ phase = "items" /\ line <= Len(text.lines) /\ IsDefine(Line)
  BY DEF ReadDefine, At
<1>3. phase' \in {"brace", "body"}  BY DEF ReadDefine
<1>4. line \in DOMAIN text.lines  BY <1>2, LinesAreSeqs DEF Read, LineCounts
<1>5. /\ define'.name = h.name /\ define'.entry = InlineEntry(h.rest)
      /\ define'.refs = GroupRefs(h.rest)
  BY <1>1
<1>6. CameFrom(text.lines, define'.name, FALSE, define'.entry, define'.refs)
  BY <1>1, <1>2, <1>4, <1>5 DEF CameFrom, Line, IsHeader
<1>7. DefineStated'  BY <1>2, <1>6 DEF DefineStated
<1>8. FunctionsStated'  BY <1>2 DEF Read, FunctionsStated, Before
<1>9. GroupsStated'  BY <1>2 DEF Read, GroupsStated
<1>10. ResolvedStated' /\ TableStated' /\ WholeRead'
  BY <1>3 DEF ResolvedStated, TableStated, WholeRead, After
<1> QED  BY <1>2, <1>7, <1>8, <1>9, <1>10 DEF Read

LEMMA CloseBodyKeeps ==
  ASSUME Read, LineCounts', CloseBody
  PROVE  Read'
<1>1. /\ phase = "body" /\ phase' = "items" /\ text' = text /\ groups' = groups
      /\ functions' = Append(functions, Function(define, FALSE, define.entry, define.refs, blocks))
  BY DEF CloseBody, BodyLine, At
<1>2. PICK f : f = Function(define, FALSE, define.entry, define.refs, blocks)  OBVIOUS
<1>3. /\ Whole(f) /\ f.name = define.name /\ f.declaration = FALSE
      /\ f.entry = define.entry /\ f.refs = define.refs
  BY <1>2 DEF Function, Whole
<1>4. CameFrom(text.lines, define.name, FALSE, define.entry, define.refs)
  BY <1>1 DEF Read, DefineStated, InDefine
<1>5. CameFrom(text.lines, f.name, f.declaration, f.entry, f.refs)  BY <1>3, <1>4
<1> QED  BY <1>1, <1>2, <1>3, <1>5, AddedInFirstPass DEF Before, InDefine

-----------------------------------------------------------------------------
(* The second pass.                                                        *)

LEMMA ResolvedFacts ==
  ASSUME NEW f, Whole(f)
  PROVE  /\ Resolved(f).name = f.name /\ Resolved(f).declaration = f.declaration
         /\ Resolved(f).entry =>
              \/ f.entry
              \/ \E k \in DOMAIN f.refs : /\ f.refs[k] \in DOMAIN groups
                                        /\ EntryPoint \in Listed(groups[f.refs[k]])
<1> DEFINE bodies == GroupsOf(f)
           profile == UNION {ProfilesIn(bodies[k]) :
                               k \in Least({k \in DOMAIN bodies : ProfilesIn(bodies[k]) # {}})}
           entry == f.entry \/ \E k \in DOMAIN bodies : EntryPoint \in Listed(bodies[k])
<1>1. Resolved(f) = [f EXCEPT !.entry = entry, !.profile = profile]  BY DEF Resolved
<1>2. entry => \/ f.entry
               \/ \E k \in DOMAIN f.refs : /\ f.refs[k] \in DOMAIN groups
                                         /\ EntryPoint \in Listed(groups[f.refs[k]])
  <2> SUFFICES ASSUME NEW k \in DOMAIN bodies, EntryPoint \in Listed(bodies[k])
               PROVE  /\ k \in DOMAIN f.refs /\ f.refs[k] \in DOMAIN groups
                      /\ EntryPoint \in Listed(groups[f.refs[k]])
    OBVIOUS
  <2>1. k \in DOMAIN f.refs  BY DEF GroupsOf
  <2>2. bodies[k] = IF f.refs[k] \in DOMAIN groups THEN groups[f.refs[k]] ELSE <<>>
    BY <2>1 DEF GroupsOf
  <2>3. EntryPoint \notin Listed(<<>>)  BY DEF Listed
  <2> QED  BY <2>1, <2>2, <2>3
<1> HIDE DEF entry, profile
<1>3. /\ Resolved(f).name = f.name /\ Resolved(f).declaration = f.declaration
      /\ Resolved(f).entry = entry
  BY <1>1 DEF Whole
<1> QED  BY <1>2, <1>3

LEMMA ResolveGroupsKeeps ==
  ASSUME Read, LineCounts', ResolveGroups
  PROVE  Read'
<1>1. /\ phase = "items" /\ phase' = "headers" /\ line' = 1 /\ text' = text /\ groups' = groups
      /\ functions' = [n \in DOMAIN functions |-> Resolved(functions[n])]
  BY DEF ResolveGroups, Past
<1>2. IsSeq(functions')
  <2>1. DOMAIN functions = 1..Len(functions) /\ Len(functions) \in Nat  BY DEF Read, IsSeq
  <2>2. functions' \in [1..Len(functions) -> Listed(functions')]  BY <1>1, <2>1 DEF Listed
  <2> QED  BY <2>1, <2>2, SeqDef DEF IsSeq
<1>3. ResolvedStated'
  <2> SUFFICES ASSUME NEW n \in DOMAIN functions'
               PROVE  LET f == functions'[n]
                      IN  /\ HasHeader(text.lines, f.name)
                          /\ f.entry /\ ~f.declaration => TaggedIn(text.lines, f.name)
    BY <1>1 DEF ResolvedStated
  <2>1. PICK f : f = functions[n]  OBVIOUS
  <2>2. Whole(f) /\ CameFrom(text.lines, f.name, f.declaration, f.entry, f.refs)
    BY <1>1, <2>1 DEF Read, FunctionsStated, Before
  <2>3. functions'[n] = Resolved(f)  BY <1>1, <2>1
  <2>4. PICK k \in DOMAIN text.lines : \E h \in HeaderOf(text.lines[k]) :
          /\ IsHeader(text.lines[k]) /\ h.name = f.name
          /\ \/ f.declaration
             \/ /\ IsDefine(text.lines[k]) /\ (f.entry => InlineEntry(h.rest))
                /\ f.refs = GroupRefs(h.rest)
    BY <2>2 DEF CameFrom
  <2>5. PICK h \in HeaderOf(text.lines[k]) :
          /\ IsHeader(text.lines[k]) /\ h.name = f.name
          /\ \/ f.declaration
             \/ /\ IsDefine(text.lines[k]) /\ (f.entry => InlineEntry(h.rest))
                /\ f.refs = GroupRefs(h.rest)
    BY <2>4
  <2>6. HasHeader(text.lines, f.name)  BY <2>5 DEF HasHeader
  <2>7. ASSUME Resolved(f).entry, ~f.declaration  PROVE TaggedIn(text.lines, f.name)
    <3>1. CASE f.entry  BY <2>5, <2>7, <3>1 DEF TaggedIn
    <3>2. ASSUME NEW m \in DOMAIN f.refs, f.refs[m] \in DOMAIN groups,
                 EntryPoint \in Listed(groups[f.refs[m]])
          PROVE  TaggedIn(text.lines, f.name)
      <4>1. PICK i \in DOMAIN text.lines : \E g \in AttributeGroup(text.lines[i]) :
              g.id = f.refs[m] /\ g.body = groups[f.refs[m]]
        BY <3>2 DEF Read, GroupsStated
      <4>2. f.refs[m] \in Listed(GroupRefs(h.rest))  BY <2>5, <2>7 DEF Listed
      <4>3. \E ref \in Listed(GroupRefs(h.rest)) : \E j \in DOMAIN text.lines :
              \E g \in AttributeGroup(text.lines[j]) : g.id = ref /\ EntryPoint \in Listed(g.body)
        BY <3>2, <4>1, <4>2
      <4> QED  BY <2>5, <2>7, <4>3 DEF TaggedIn
    <3> QED  BY <2>2, <2>7, <3>1, <3>2, ResolvedFacts
  <2> QED  BY <2>2, <2>3, <2>6, <2>7, ResolvedFacts
<1>4. GroupsStated'  BY <1>1 DEF Read, GroupsStated
<1>5. FunctionsStated' /\ DefineStated' /\ WholeRead'
  BY <1>1 DEF FunctionsStated, DefineStated, WholeRead, Before, InDefine
<1>6. TableStated'  BY <1>1, LinesAreSeqs DEF TableStated
<1> QED  BY <1>1, <1>2, <1>3, <1>4, <1>5, <1>6 DEF Read

\* Steps of the second pass: the table grows, the functions are left as they are.
LEMMA KeptInSecondPass ==
  ASSUME Read, LineCounts', phase = "headers", phase' \in After, text' = text,
         functions' = functions, groups' = groups, TableStated', WholeRead'
  PROVE  Read'
<1>1. ResolvedStated'  BY DEF Read, ResolvedStated, After
<1>2. GroupsStated'  BY DEF Read, GroupsStated
<1>3. FunctionsStated' /\ DefineStated'
  BY DEF FunctionsStated, DefineStated, Before, InDefine, After
<1> QED  BY <1>1, <1>2, <1>3 DEF Read

LEMMA SkipLineKeeps ==
  ASSUME Read, LineCounts', SkipLine
  PROVE  Read'
<1>1. /\ phase = "headers" /\ phase' = "headers" /\ text' = text /\ functions' = functions
      /\ groups' = groups /\ signatures' = signatures /\ line' = line + 1 /\ ~IsHeader(Line)
  BY DEF SkipLine, At, Next1, HasSignature
<1>2. TableStated'
  <2> SUFFICES ASSUME NEW k \in DOMAIN text.lines, k < line + 1  PROVE Entered(k)'
    BY <1>1 DEF TableStated
  <2>1. CASE k = line  BY <1>1, <2>1 DEF Entered, Line
  <2>2. CASE k # line
    <3>1. k < line  BY <2>2, LinesAreSeqs DEF Read, LineCounts
    <3>2. Entered(k)  BY <1>1, <3>1 DEF Read, TableStated, After
    <3> QED  BY <1>1, <3>2 DEF Entered
  <2> QED  BY <2>1, <2>2
<1>3. WholeRead'  BY <1>1 DEF WholeRead
<1> QED  BY <1>1, <1>2, <1>3, KeptInSecondPass DEF After

LEMMA ReadSignatureKeeps ==
  ASSUME Read, LineCounts', ReadSignature
  PROVE  Read'
<1>1. PICK s \in NamedSignature(Line) : signatures' = Inserted(signatures, s.name, s.signature)
  BY DEF ReadSignature
<1>2. /\ phase = "headers" /\ phase' = "headers" /\ text' = text /\ functions' = functions
      /\ groups' = groups /\ line' = line + 1 /\ IsHeader(Line) /\ line <= Len(text.lines)
  BY DEF ReadSignature, At, Next1, HasSignature
<1>3. DOMAIN signatures' = {s.name} \cup DOMAIN signatures  BY <1>1 DEF Inserted
<1>4. line \in DOMAIN text.lines  BY <1>2, LinesAreSeqs DEF Read, LineCounts
<1>5. \A h \in HeaderOf(Line) : h.name = s.name
  <2>1. Line = text.lines[line]  BY DEF Line
  <2>2. IsSeq(Line) /\ ReturnsType(Line)  BY <1>2, <1>4, <2>1, LinesAreSeqs
  <2> QED  BY <1>2, <2>2, SameName
<1>6. TableStated'
  <2> SUFFICES ASSUME NEW k \in DOMAIN text.lines, k < line + 1  PROVE Entered(k)'
    BY <1>2 DEF TableStated
  <2>1. CASE k = line  BY <1>2, <1>3, <1>5, <2>1 DEF Entered, Line
  <2>2. CASE k # line
    <3>1. k < line  BY <2>2, LinesAreSeqs DEF Read, LineCounts
    <3>2. Entered(k)  BY <1>2, <3>1 DEF Read, TableStated, After
    <3> QED  BY <1>2, <1>3, <3>2 DEF Entered
  <2> QED  BY <2>1, <2>2
<1>7. WholeRead'  BY <1>2 DEF WholeRead
<1> QED  BY <1>2, <1>6, <1>7, KeptInSecondPass DEF After

LEMMA TakeEntryKeeps ==
  ASSUME Read, LineCounts', TakeEntry
  PROVE  Read'
<1>1. /\ phase = "headers" /\ phase' = "ready" /\ text' = text /\ functions' = functions
      /\ groups' = groups /\ signatures' = signatures /\ line' = line /\ line > Len(text.lines)
  BY DEF TakeEntry, Past
<1>2. TableStated'  BY <1>1 DEF Read, TableStated, Entered, After
<1>3. EntryPoints' # {}  BY <1>1 DEF TakeEntry, EntryPoints
<1>4. WholeRead'  BY <1>1, <1>3 DEF WholeRead
<1> QED  BY <1>1, <1>2, <1>4, KeptInSecondPass DEF After

LEMMA UnchangedKeeps ==
  ASSUME Read, UNCHANGED vars
  PROVE  Read'
<1>1. LineCounts' /\ FunctionsStated' /\ DefineStated'
  BY DEF Read, LineCounts, FunctionsStated, DefineStated, vars
<1>2. GroupsStated' /\ ResolvedStated'  BY DEF Read, GroupsStated, ResolvedStated, vars
<1>3. TableStated' /\ WholeRead'  BY DEF Read, TableStated, WholeRead, Entered, EntryPoints, vars
<1> QED  BY <1>1, <1>2, <1>3 DEF Read, vars

LEMMA NextKeeps ==
  ASSUME Read, Next
  PROVE  Read'
<1>1. LineCounts'  BY NextAdvances DEF Read
<1>2. CASE IgnoreLine  BY <1>1, <1>2, KeptInFirstPass DEF IgnoreLine, At, Before, InDefine
<1>3. CASE ReadAttributes  BY <1>1, <1>3, ReadAttributesKeeps
<1>4. CASE ReadDeclare  BY <1>1, <1>4, ReadDeclareKeeps
<1>5. CASE ReadDefine  BY <1>1, <1>5, ReadDefineKeeps
<1>6. CASE PassToBrace
  <2>1. phase' \in {"brace", "body"}  BY <1>6 DEF PassToBrace
  <2>2. /\ phase = "brace" /\ text' = text /\ functions' = functions /\ define' = define
        /\ groups' = groups
    BY <1>6 DEF PassToBrace, At
  <2> QED  BY <1>1, <2>1, <2>2, KeptInFirstPass DEF Before, InDefine
<1>7. CASE SkipBodyLine  BY <1>1, <1>7, KeptInFirstPass DEF SkipBodyLine, At, Before, InDefine
<1>8. CASE CloseBody  BY <1>1, <1>8, CloseBodyKeeps
<1>9. CASE ReadLabel
  <2>1. /\ phase = "body" /\ phase' = phase /\ text' = text /\ functions' = functions
        /\ define' = define /\ groups' = groups
    BY <1>9 DEF ReadLabel, BodyLine, At
  <2> QED  BY <1>1, <2>1, KeptInFirstPass DEF Before, InDefine
<1>10. CASE StartInstruction
  <2>1. /\ phase = "body" /\ phase' = "wrapped" /\ text' = text /\ functions' = functions
        /\ define' = define /\ groups' = groups
    BY <1>10 DEF StartInstruction, BodyLine, At
  <2> QED  BY <1>1, <2>1, KeptInFirstPass DEF Before, InDefine
<1>11. CASE ContinueInstruction
  <2>1. /\ phase = "wrapped" /\ phase' = phase /\ text' = text /\ functions' = functions
        /\ define' = define /\ groups' = groups
    BY <1>11 DEF ContinueInstruction, At
  <2> QED  BY <1>1, <2>1, KeptInFirstPass DEF Before, InDefine
<1>12. CASE FinishInstruction
  <2>1. /\ phase = "wrapped" /\ phase' = "body" /\ text' = text /\ functions' = functions
        /\ define' = define /\ groups' = groups
    BY <1>12 DEF FinishInstruction
  <2> QED  BY <1>1, <2>1, KeptInFirstPass DEF Before, InDefine
<1>13. CASE RefuseHeader \/ RefuseInstruction \/ RefuseUnterminated \/ RefuseSignature
              \/ RefuseEntry
  BY <1>13, RejectKeeps
  DEF RefuseHeader, RefuseInstruction, RefuseUnterminated, RefuseSignature, RefuseEntry
<1>14. CASE ResolveGroups  BY <1>1, <1>14, ResolveGroupsKeeps
<1>15. CASE SkipLine  BY <1>1, <1>15, SkipLineKeeps
<1>16. CASE ReadSignature  BY <1>1, <1>16, ReadSignatureKeeps
<1>17. CASE TakeEntry  BY <1>1, <1>17, TakeEntryKeeps
<1>18. CASE Done  BY <1>18, UnchangedKeeps DEF Done
<1> QED
  BY <1>2, <1>3, <1>4, <1>5, <1>6, <1>7, <1>8, <1>9, <1>10, <1>11, <1>12, <1>13, <1>14,
     <1>15, <1>16, <1>17, <1>18
  DEF Next, ReadTop, ReadBody, ReadTable

LEMMA InitReads == Init => Read
<1> SUFFICES ASSUME Init  PROVE Read  OBVIOUS
<1>1. text \in Texts /\ line = 1 /\ phase = "items" /\ functions = <<>> /\ groups = <<>>
  BY DEF Init
<1>2. IsSeq(functions) /\ DOMAIN functions = {} /\ DOMAIN groups = {}  BY <1>1 DEF IsSeq
<1> QED
  BY <1>1, <1>2
  DEF Read, LineCounts, FunctionsStated, DefineStated, GroupsStated, ResolvedStated, TableStated,
      WholeRead, InDefine, After

THEOREM ReadHolds == Spec => []Read
<1>1. Init => Read  BY InitReads
<1>2. Read /\ [Next]_vars => Read'  BY NextKeeps, UnchangedKeeps
<1> QED  BY <1>1, <1>2, PTL DEF Spec

\* The function taken for the entry point is one the text tags so.
THEOREM EntryTagged == Spec => []EntryIsTagged
<1>1. ASSUME Read  PROVE EntryIsTagged
  <2> SUFFICES ASSUME phase = "ready"  PROVE TaggedIn(text.lines, Entry.name)
    BY DEF EntryIsTagged
  <2>1. EntryPoints # {}  BY <1>1 DEF Read, WholeRead
  <2>2. EntryPoints \subseteq Nat
    <3>1. DOMAIN functions \subseteq Nat  BY <1>1 DEF Read, IsSeq
    <3> QED  BY <3>1 DEF EntryPoints
  <2>3. PICK n \in EntryPoints : Entry = functions[n]
    <3> HIDE DEF EntryPoints
    <3>1. (CHOOSE n \in Least(EntryPoints) : TRUE) \in EntryPoints
      BY <2>1, <2>2, LeastFacts
    <3> QED  BY <3>1 DEF Entry
  <2> QED  BY <1>1, <2>3 DEF EntryPoints, Read, ResolvedStated, After
<1> QED  BY <1>1, ReadHolds, PTL

\* Every function that was read has a signature when the translator looks for it.
THEOREM SignaturesFound == Spec => []FunctionsHaveSignatures
<1>1. ASSUME Read  PROVE FunctionsHaveSignatures
  <2> SUFFICES ASSUME phase = "ready", NEW n \in DOMAIN functions
               PROVE  functions[n].name \in DOMAIN signatures
    BY DEF FunctionsHaveSignatures
  <2>1. HasHeader(text.lines, functions[n].name)  BY <1>1 DEF Read, ResolvedStated, After
  <2>2. PICK k \in DOMAIN text.lines : \E h \in HeaderOf(text.lines[k]) :
          IsHeader(text.lines[k]) /\ h.name = functions[n].name
    BY <2>1 DEF HasHeader
  <2>3. k < line  BY <1>1, LinesAreSeqs DEF Read, WholeRead, LineCounts
  <2>4. Entered(k)  BY <1>1, <2>3 DEF Read, TableStated, After
  <2> QED  BY <2>2, <2>4 DEF Entered
<1> QED  BY <1>1, ReadHolds, PTL

-----------------------------------------------------------------------------
(* Sequences: what the scanners cut out of a line is one, whatever they find. *)

LEMMA InSeqIsSeq ==
  ASSUME NEW S, NEW t \in Seq(S)
  PROVE  IsSeq(t)
<1>1. PICK k \in Nat : t \in [1..k -> S]  BY SeqDef
<1>2. t \in [1..k -> Listed(t)]  BY <1>1 DEF Listed
<1> QED  BY <1>2, SeqDef DEF IsSeq

LEMMA SubSeqIsSeq ==
  ASSUME NEW s, NEW m \in Int, NEW n \in Int
  PROVE  IsSeq(SubSeq(s, m, n))
<1> DEFINE S == {s[i] : i \in m..n}
           t == SubSeq(s, m, n)
<1>1. \A i \in m..n : s[i] \in S  OBVIOUS
<1> HIDE DEF S
<1>2. t \in Seq(S)  BY <1>1, SubSeqProperties
<1> HIDE DEF t
<1>3. IsSeq(t)  BY <1>2, InSeqIsSeq
<1> QED  BY <1>3 DEF t

LEMMA FunctionIsSeq ==
  ASSUME NEW k \in Nat, NEW f, DOMAIN f = 1..k, f = [j \in 1..k |-> f[j]]
  PROVE  IsSeq(f)
<1>1. f \in [1..k -> Listed(f)]  BY DEF Listed
<1> QED  BY <1>1, SeqDef DEF IsSeq

LEMMA DomainOfSeq ==
  ASSUME NEW s, IsSeq(s)
  PROVE  DOMAIN s = 1..Len(s) /\ Len(s) \in Nat
BY DEF IsSeq

LEMMA FirstInRange ==
  ASSUME NEW s, IsSeq(s), NEW S
  PROVE  FirstIn(s, S) \in 1..(Len(s) + 1)
<1> DEFINE P(n) == /\ n <= Len(s) => s[n] \in S
                   /\ \A m \in 1..(n - 1) : s[m] \notin S
           found == {n \in 1..Len(s) : s[n] \in S} \cup {Len(s) + 1}
<1>1. Len(s) \in Nat  BY DEF IsSeq
<1>2. PICK n \in found : \A m \in found : n <= m
  <2>1. found \subseteq Nat /\ found # {}  BY <1>1
  <2> HIDE DEF found
  <2> QED  BY <2>1, LeastExists
<1>3. n \in 1..(Len(s) + 1) /\ P(n)  BY <1>1, <1>2
<1>4. FirstIn(s, S) = CHOOSE k \in 1..(Len(s) + 1) : P(k)  BY DEF FirstIn
<1> HIDE DEF P
<1> QED  BY <1>3, <1>4

LEMMA FromIsSeq ==
  ASSUME NEW s, IsSeq(s), NEW n \in Int
  PROVE  IsSeq(From(s, n))
BY DomainOfSeq, SubSeqIsSeq DEF From

LEMMA DropLeadingIsSeq ==
  ASSUME NEW s, IsSeq(s), NEW S
  PROVE  IsSeq(DropLeading(s, S))
<1>1. PICK n \in 1..(Len(s) + 1) : DropLeading(s, S) = From(s, n)  BY DropLeadingFacts
<1>2. n \in Int  BY DomainOfSeq
<1> QED  BY <1>1, <1>2, FromIsSeq

LEMMA LiveIsSeq ==
  ASSUME NEW l, IsSeq(l)
  PROVE  IsSeq(Live(l))
<1>1. PICK n : n = FirstIn(l, {W(";")})  OBVIOUS
<1>2. n \in 1..(Len(l) + 1)  BY <1>1, FirstInRange
<1>3. n - 1 \in Int  BY <1>2, DomainOfSeq
<1>4. Live(l) = SubSeq(l, 1, n - 1)  BY <1>1 DEF Live
<1> QED  BY <1>3, <1>4, SubSeqIsSeq

LEMMA ClosingInside ==
  ASSUME NEW s, IsSeq(s), NEW kinds, NEW n \in Closing(s, kinds)
  PROVE  n \in 1..Len(s) /\ n \in Int
<1>1. n \in DOMAIN s  BY DEF Closing, Least
<1> QED  BY <1>1, DomainOfSeq

LEMMA OrderedIsSeq ==
  ASSUME NEW S, IsFiniteSet(S)
  PROVE  IsSeq(Ordered(S))
<1> DEFINE nth(k) == CHOOSE n \in S : Cardinality({m \in S : m < n}) = k - 1
           o == [k \in 1..Cardinality(S) |-> nth(k)]
<1>1. Ordered(S) = o  BY DEF Ordered
<1> HIDE DEF nth
<1>2. DOMAIN o = 1..Cardinality(S) /\ o = [j \in 1..Cardinality(S) |-> o[j]]  OBVIOUS
<1> HIDE DEF o
<1>3. Cardinality(S) \in Nat  BY FS_CardinalityType
<1> QED  BY <1>1, <1>2, <1>3, FunctionIsSeq

\* The parts of a list, and the results of parsers in a row, are sequences.
LEMMA PartsAreSeqs ==
  ASSUME NEW s, IsSeq(s), NEW p \in SplitCommas(s)
  PROVE  IsSeq(p)
<1> DEFINE d == Nesting(s, Brackets)
           commas == {n \in DOMAIN s : s[n] = W(",") /\ d[n] = 0}
           cuts == <<0>> \o Ordered(commas) \o <<Len(s) + 1>>
<1>1. p = [k \in 1..(Len(cuts) - 1) |-> SubSeq(s, cuts[k] + 1, cuts[k + 1] - 1)]
  BY DEF SplitCommas
<1>2. IsFiniteSet(commas)
  <2>1. IsFiniteSet(DOMAIN s)  BY DomainOfSeq, FS_Interval
  <2>2. commas \in SUBSET DOMAIN s  OBVIOUS
  <2> HIDE DEF commas
  <2> QED  BY <2>1, <2>2, FS_Subset
<1> HIDE DEF commas
<1>3. IsSeq(Ordered(commas))  BY <1>2, OrderedIsSeq
<1>4. \E S : Ordered(commas) \in Seq(S)  BY <1>3 DEF IsSeq
<1>5. Len(cuts) \in Nat /\ Len(cuts) >= 2
  <2>1. PICK S : Ordered(commas) \in Seq(S)  BY <1>4
  <2>2. PICK o : o = Ordered(commas)  OBVIOUS
  <2>3. PICK e : e = Len(s) + 1  OBVIOUS
  <2>4. o \in Seq(S)  BY <2>1, <2>2
  <2>5. cuts = <<0>> \o o \o <<e>>  BY <2>2, <2>3
  <2>6. o \in Seq(S \cup {0, e}) /\ <<0>> \in Seq(S \cup {0, e}) /\ <<e>> \in Seq(S \cup {0, e})
    BY <2>4
  <2>7. <<0>> \o o \in Seq(S \cup {0, e}) /\ Len(<<0>> \o o) = 1 + Len(o)
    BY <2>6, ConcatProperties
  <2>8. Len(cuts) = 1 + Len(o) + 1  BY <2>5, <2>6, <2>7, ConcatProperties
  <2>9. Len(o) \in Nat  BY <2>4
  <2> HIDE DEF cuts
  <2> QED  BY <2>8, <2>9
<1> HIDE DEF cuts
<1>6. DOMAIN p = 1..(Len(cuts) - 1) /\ p = [j \in 1..(Len(cuts) - 1) |-> p[j]]  BY <1>1
<1> QED  BY <1>5, <1>6, FunctionIsSeq

LEMMA AllFacts ==
  ASSUME NEW results, NEW n \in Nat, DOMAIN results = 1..n, NEW x \in All(results)
  PROVE  IsSeq(x) /\ DOMAIN x = 1..n /\ \A k \in 1..n : x[k] \in results[k]
<1>1. ~ \E k \in DOMAIN results : results[k] = {}  BY DEF All
<1>2. x = [k \in DOMAIN results |-> CHOOSE y \in results[k] : TRUE]  BY <1>1 DEF All
<1>3. DOMAIN x = 1..n /\ x = [k \in 1..n |-> x[k]]  BY <1>2
<1>4. ASSUME NEW k \in 1..n  PROVE x[k] \in results[k]
  <2>1. results[k] # {}  BY <1>1
  <2>2. x[k] = CHOOSE y \in results[k] : TRUE  BY <1>2
  <2> QED  BY <2>1, <2>2
<1>5. IsSeq(x)  BY <1>3, FunctionIsSeq
<1> QED  BY <1>3, <1>4, <1>5

-----------------------------------------------------------------------------
(* What the instruction parser returns is what the translator can walk.     *)

PointerIndex(o) == o.op = "ptr" => o.index \in Int /\ FitsI64(o.index)

LEMMA OperandFacts ==
  ASSUME NEW ty, NEW v, NEW o \in ValueOperand(ty, v)
  PROVE  PointerIndex(o)
<1>1. \A n : PointerIndex(IntOp(n)) /\ PointerIndex(BoolOp(n)) /\ PointerIndex(FloatOp(n))
             /\ PointerIndex(SsaOp(n)) /\ PointerIndex(GlobalOp(n))
  BY DEF PointerIndex, IntOp, BoolOp, FloatOp, SsaOp, GlobalOp
<1>2. PointerIndex(GepOp) /\ PointerIndex(NullOp) /\ \A n \in Int : FitsI64(n) => PointerIndex(PtrOp(n))
  BY DEF PointerIndex, GepOp, NullOp, PtrOp
<1>3. ASSUME o \in PointerOperand(ty, v)  PROVE PointerIndex(o)
  <2>1. \A n \in ConstantIndex(v) : n \in Int /\ FitsI64(n)  BY DEF ConstantIndex
  <2>3. FitsI64(0)  BY MaxIntAssumption DEF FitsI64
  <2> HIDE DEF PointerIndex
  <2>2. \/ o \in {IF ty = W("i8*") THEN NullOp ELSE PtrOp(0)}
        \/ o \in {PtrOp(n) : n \in ConstantIndex(v)}
        \/ o \in {SsaOp(Name(v))}
        \/ o \in {GlobalOp(Name(v))}
        \/ o \in {GepOp}
        \/ o \in {GlobalOp(c) : c \in BitcastGlobals(v)}
    BY <1>3 DEF PointerOperand
  <2> QED  BY <1>1, <1>2, <2>1, <2>2, <2>3
<1>4. ASSUME o \in IntegerOperand(ty, v)  PROVE PointerIndex(o)
  <2>2. \/ o \in {BoolOp(TRUE)} \/ o \in {BoolOp(FALSE)}
        \/ o \in {SsaOp(Name(v))} \/ o \in {NullOp} \/ o \in {IntOp(v[1][2])}
        \/ o \in {GlobalOp(Name(v))}
    BY <1>4 DEF IntegerOperand
  <2> QED  BY <1>1, <1>2, <2>2
<1>5. ASSUME o \in FloatOperand(v)  PROVE PointerIndex(o)
  <2>2. o \in {SsaOp(Name(v))} \/ o \in {FloatOp(v[1][2])}
    BY <1>5 DEF FloatOperand
  <2> QED  BY <1>1, <1>2, <2>2
<1>6. o \in PointerOperand(ty, v) \/ o \in IntegerOperand(ty, v) \/ o \in FloatOperand(v)
  BY DEF ValueOperand
<1> QED  BY <1>3, <1>4, <1>5, <1>6

LEMMA ReadOperandFacts ==
  ASSUME NEW chunk, NEW o \in Operand(chunk)
  PROVE  PointerIndex(o)
<1>1. PICK tokens : tokens = SelectSeq(chunk, LAMBDA t : t \notin OperandAttrs)  OBVIOUS
<1>2. o = GepOp \/ o \in ValueOperand(tokens[1], Tail(tokens))
  BY <1>1 DEF Operand
<1>3. CASE o = GepOp  BY <1>3 DEF PointerIndex, GepOp
<1>4. CASE o \in ValueOperand(tokens[1], Tail(tokens))  BY <1>4, OperandFacts
<1> QED  BY <1>2, <1>3, <1>4

LEMMA OperandListFacts ==
  ASSUME NEW s, IsSeq(s), NEW a \in OperandList(s)
  PROVE  IsSeq(a) /\ \A n \in DOMAIN a : PointerIndex(a[n])
<1>1. CASE s = <<>>
  <2>1. a = <<>>  BY <1>1 DEF OperandList
  <2> QED  BY <2>1 DEF IsSeq
<1>2. CASE s # <<>>
  <2>1. PICK p \in SplitCommas(s) : a \in All([k \in DOMAIN p |-> Operand(p[k])])
    BY <1>2 DEF OperandList
  <2>2. PICK r : r = [k \in DOMAIN p |-> Operand(p[k])]  OBVIOUS
  <2>3. DOMAIN p = 1..Len(p) /\ Len(p) \in Nat  BY PartsAreSeqs, DomainOfSeq
  <2>4. DOMAIN r = 1..Len(p) /\ a \in All(r)  BY <2>1, <2>2, <2>3
  <2>5. IsSeq(a) /\ DOMAIN a = 1..Len(p) /\ \A k \in 1..Len(p) : a[k] \in r[k]
    BY <2>3, <2>4, AllFacts
  <2>6. ASSUME NEW k \in 1..Len(p)  PROVE PointerIndex(a[k])
    <3>1. a[k] \in Operand(p[k])  BY <2>2, <2>3, <2>5
    <3> QED  BY <3>1, ReadOperandFacts
  <2> QED  BY <2>5, <2>6
<1> QED  BY <1>1, <1>2

LEMMA CallFacts ==
  ASSUME NEW r, NEW args, IsSeq(args), NEW i \in ReadCall(r, args)
  PROVE  ParsedInst(i)
<1>1. \E k, c : \E s \in Callee(args) : \E a \in Arguments(s) : i = Call(k, c, a)
  <2>1. PICK k \in (IF r = {} THEN {NoResult} ELSE r), s \in Callee(args),
             a \in UNION {Arguments(x) : x \in Callee(args)} : i = Call(k, s[1][2], a)
    BY DEF ReadCall
  <2>2. PICK x \in Callee(args) : a \in Arguments(x)  BY <2>1
  <2> QED  BY <2>1, <2>2
<1>0. PICK k, c, s, a : s \in Callee(args) /\ a \in Arguments(s) /\ i = Call(k, c, a)
  BY <1>1
<1>2. IsSeq(s)
  <2> DEFINE whole == DropLeading(args, ReturnPrefixes)
             rest1 == From(whole, 2)
  <2>1. IsSeq(rest1)
    <3>1. IsSeq(whole)  BY DropLeadingIsSeq
    <3> HIDE DEF whole
    <3> QED  BY <3>1, FromIsSeq
  <2>2. s = rest1 \/ \E n \in Closing(rest1, Parens) : s = From(rest1, n + 1)
    BY <1>0 DEF Callee
  <2> HIDE DEF rest1
  <2>3. ASSUME NEW n \in Closing(rest1, Parens), s = From(rest1, n + 1)  PROVE IsSeq(s)
    <3>1. n + 1 \in Int  BY <2>1, ClosingInside
    <3> QED  BY <2>1, <2>3, <3>1, FromIsSeq
  <2> QED  BY <2>1, <2>2, <2>3
<1>3. IsSeq(a) /\ \A n \in DOMAIN a : PointerIndex(a[n])
  <2> DEFINE list == From(s, FirstIn(s, {W("(")}))
  <2>1. PICK n \in Closing(list, Parens) : a \in OperandList(SubSeq(list, 2, n - 1))
    BY <1>0 DEF Arguments
  <2>2. IsSeq(list)
    <3>1. PICK S : S = {W("(")}  OBVIOUS
    <3>2. FirstIn(s, S) \in Int  BY <1>2, FirstInRange, DomainOfSeq
    <3> QED  BY <1>2, <3>1, <3>2, FromIsSeq
  <2> HIDE DEF list
  <2>3. n - 1 \in Int  BY <2>2, ClosingInside
  <2>4. IsSeq(SubSeq(list, 2, n - 1))  BY <2>3, SubSeqIsSeq
  <2> QED  BY <2>1, <2>4, OperandListFacts
<1>4. i.kind = "call" /\ i.args = a  BY <1>0 DEF Call
<1> QED  BY <1>3, <1>4 DEF ParsedInst, PointerIndex

LEMMA BrFacts ==
  ASSUME NEW args, NEW i \in ReadBr(args)
  PROVE  ParsedInst(i)
<1>1. \/ \E t : i = Br(t)
      \/ \E c, t, f : i = BrCond(c, t, f)
  BY DEF ReadBr
<1>2. ASSUME NEW t, i = Br(t)  PROVE ParsedInst(i)
  BY <1>2 DEF ParsedInst, Br
<1>3. ASSUME NEW c, NEW t, NEW f, i = BrCond(c, t, f)  PROVE ParsedInst(i)
  <2>1. i.kind = "brcond" /\ i.targets = <<t, f>>  BY <1>3 DEF BrCond
  <2>2. <<t, f>> \in Seq({t, f}) /\ Len(<<t, f>>) = 2  OBVIOUS
  <2>3. IsSeq(<<t, f>>)  BY <2>2, InSeqIsSeq
  <2> QED  BY <2>1, <2>2, <2>3 DEF ParsedInst
<1> QED  BY <1>1, <1>2, <1>3

Plain(i) == i.kind \notin {"call", "brcond"}

LEMMA PlainIsParsed ==
  ASSUME NEW i, Plain(i)
  PROVE  ParsedInst(i)
BY DEF Plain, ParsedInst

LEMMA OthersArePlain ==
  /\ \A a, b, c, d, e : Plain(Icmp(a, b, c, d, e)) /\ Plain(Select(a, b, c, d, e))
                        /\ Plain(IntArith(a, b, c, d, e))
  /\ \A a, b, c, d : Plain(BinaryI1(a, b, c, d))
  /\ \A a, b, c : Plain(Phi(a, b, c)) /\ Plain(Gep(a, b, c))
  /\ \A a, b : Plain(Store(a, b)) /\ Plain(Load(a, b)) /\ Plain(Zext(a, b))
               /\ Plain(IntToPtr(a, b))
  /\ \A a : Plain(Alloca(a))
  /\ Plain(Ret) /\ Plain(Ignored) /\ Plain(Unsupported)
BY DEF Plain, Icmp, Select, IntArith, BinaryI1, Phi, Gep, Store, Load, Zext, IntToPtr, Alloca,
       Ret, Ignored, Unsupported

LEMMA AssignmentsArePlain ==
  ASSUME NEW r, NEW args
  PROVE  /\ \A i \in ReadIcmp(r, args) : Plain(i)
         /\ \A fn : \A i \in ReadBinaryI1(r, fn, args) : Plain(i)
         /\ \A fn : \A i \in ReadIntArith(r, fn, args) : Plain(i)
         /\ \A i \in ReadSelect(r, args) : Plain(i)
         /\ \A i \in ReadPhi(r, args) : Plain(i)
         /\ \A i \in ReadIntToPtr(r, args) : Plain(i)
<1>1. ASSUME NEW i \in ReadIcmp(r, args)  PROVE Plain(i)
  <2>1. \E a, b, c, d, e : i = Icmp(a, b, c, d, e)  BY DEF ReadIcmp
  <2> QED  BY <2>1, OthersArePlain
<1>2. ASSUME NEW fn, NEW i \in ReadBinaryI1(r, fn, args)  PROVE Plain(i)
  <2>1. \E a, b, c, d : i = BinaryI1(a, b, c, d)  BY DEF ReadBinaryI1
  <2> QED  BY <2>1, OthersArePlain
<1>3. ASSUME NEW fn, NEW i \in ReadIntArith(r, fn, args)  PROVE Plain(i)
  <2>1. \E a, b, c, d, e : i = IntArith(a, b, c, d, e)  BY DEF ReadIntArith
  <2> QED  BY <2>1, OthersArePlain
<1>4. ASSUME NEW i \in ReadSelect(r, args)  PROVE Plain(i)
  <2> DEFINE values(p) == All(<<OfType(args[1], p[1]), Operand(p[2]), Operand(p[3])>>)
  <2>1. i \in UNION {{Select(k, p[2][1][2], v[1], v[2], v[3]) : k \in r, v \in values(p)} :
                       p \in {p \in SplitInto(3, Tail(args)) :
                               p[2] # <<>> /\ p[3] # <<>> /\ p[2][1] = p[3][1]}}
    BY DEF ReadSelect
  <2> HIDE DEF values
  <2>2. \E a, b, c, d, e : i = Select(a, b, c, d, e)  BY <2>1
  <2> QED  BY <2>2, OthersArePlain
<1>5. ASSUME NEW x \in ReadPhi(r, args)  PROVE Plain(x)
  <2>1. \E a, b, c : x = Phi(a, b, c)  BY DEF ReadPhi
  <2> QED  BY <2>1, OthersArePlain
<1>6. ASSUME NEW i \in ReadIntToPtr(r, args)  PROVE Plain(i)
  <2>1. \E a, b : i = IntToPtr(a, b)  BY DEF ReadIntToPtr
  <2> QED  BY <2>1, OthersArePlain
<1> QED  BY <1>1, <1>2, <1>3, <1>4, <1>5, <1>6

MemoryReads(r, args) ==
  {OrIgnored({Alloca(k) : k \in r}),
   OrIgnored({Gep(k, src, 0) : k \in r, src \in Converted(args)}),
   OrIgnored({Zext(k, src) : k \in r, src \in Converted(args)}),
   OrIgnored(ReadGep(r, args)),
   OrIgnored(ReadLoad(r, args)),
   OrIgnored(ReadStore(args))}

MemoryRead(r, args) == UNION MemoryReads(r, args)

LEMMA MemoryIsPlain ==
  ASSUME NEW r, NEW args
  PROVE  \A i \in MemoryRead(r, args) : Plain(i)
<1>1. ASSUME NEW S, \A i \in S : Plain(i)  PROVE \A i \in OrIgnored(S) : Plain(i)
  BY <1>1, OthersArePlain DEF OrIgnored
<1>2. \A i \in {Alloca(k) : k \in r} : Plain(i)  BY OthersArePlain
<1>3. \A i \in {Gep(k, src, 0) : k \in r, src \in Converted(args)} : Plain(i)  BY OthersArePlain
<1>4. \A i \in {Zext(k, src) : k \in r, src \in Converted(args)} : Plain(i)  BY OthersArePlain
<1>5. ASSUME NEW i \in ReadGep(r, args)  PROVE Plain(i)
  <2>1. \E a, b, c : i = Gep(a, b, c)  BY DEF ReadGep
  <2> QED  BY <2>1, OthersArePlain
<1>6. ASSUME NEW i \in ReadLoad(r, args)  PROVE Plain(i)
  <2>1. \E a, b : i = Load(a, b)  BY DEF ReadLoad
  <2> QED  BY <2>1, OthersArePlain
<1>7. ASSUME NEW i \in ReadStore(args)  PROVE Plain(i)
  <2>1. \E a, b : i = Store(a, b)  BY DEF ReadStore
  <2> QED  BY <2>1, OthersArePlain
<1>8. \A i \in ReadGep(r, args) : Plain(i)  BY <1>5
<1>9. \A i \in ReadLoad(r, args) : Plain(i)  BY <1>6
<1>10. \A i \in ReadStore(args) : Plain(i)  BY <1>7
<1>11. ASSUME NEW S \in MemoryReads(r, args)  PROVE \A i \in S : Plain(i)
  BY <1>1, <1>2, <1>3, <1>4, <1>8, <1>9, <1>10 DEF MemoryReads
<1> QED  BY <1>11 DEF MemoryRead

LEMMA InstructionFacts ==
  ASSUME NEW l, IsSeq(l), NEW i \in ReadInstruction(l)
  PROVE  ParsedInst(i)
<1> DEFINE s == Live(l)
           o == Operation(s)
           r == IF Assigned(s) THEN {s[1][2]} ELSE {}
<1>1. o # <<>> /\ i \in ByOpcode(r, o[1], Tail(o))  BY DEF ReadInstruction
<1>2. IsSeq(o)
  <2>1. IsSeq(s)  BY LiveIsSeq
  <2> HIDE DEF s
  <2>2. IsSeq(From(s, 3))  BY <2>1, FromIsSeq
  <2>3. PICK whole : whole = IF Assigned(s) THEN From(s, 3) ELSE s  OBVIOUS
  <2>4. IsSeq(whole)  BY <2>1, <2>2, <2>3
  <2>5. o = DropLeading(whole, CallQualifiers)  BY <2>3 DEF Operation
  <2> HIDE DEF o
  <2> QED  BY <2>4, <2>5, DropLeadingIsSeq
<1> HIDE DEF r, o
<1>3. PICK args : args = Tail(o)  OBVIOUS
<1>4. IsSeq(args)  BY <1>1, <1>2, <1>3, TailFacts
<1>5. PICK opcode : opcode = o[1]  OBVIOUS
<1>6. i \in ByOpcode(r, opcode, args)  BY <1>1, <1>3, <1>5
<1>7. \/ i \in ReadCall(r, args) \/ i \in ReadBr(args) \/ i \in {Ret}
      \/ i \in ReadIcmp(r, args) \/ i \in ReadBinaryI1(r, opcode[2], args)
      \/ i \in ReadSelect(r, args) \/ i \in ReadIntArith(r, opcode[2], args)
      \/ i \in ReadPhi(r, args) \/ i \in ReadIntToPtr(r, args)
      \/ i \in MemoryRead(r, args)
      \/ i \in {Ignored} \/ i \in Unknown
  BY <1>6 DEF ByOpcode, MemoryRead, MemoryReads
<1> HIDE DEF s
<1>8. i \in ReadCall(r, args) \/ i \in ReadBr(args) \/ Plain(i)
  <2>1. PICK fn : fn = opcode[2]  OBVIOUS
  <2>2. CASE \/ i \in ReadIcmp(r, args) \/ i \in ReadBinaryI1(r, fn, args)
             \/ i \in ReadSelect(r, args) \/ i \in ReadIntArith(r, fn, args)
             \/ i \in ReadPhi(r, args) \/ i \in ReadIntToPtr(r, args)
    BY <2>2, AssignmentsArePlain
  <2>3. CASE i \in MemoryRead(r, args)
    BY <2>3, MemoryIsPlain
  <2>4. CASE i \in {Ret} \/ i \in {Ignored} \/ i \in Unknown
    BY <2>4, OthersArePlain DEF Unknown
  <2> QED  BY <1>7, <2>1, <2>2, <2>3, <2>4
<1> QED  BY <1>4, <1>8, CallFacts, BrFacts, PlainIsParsed

LEMMA ParametersAreSeqs ==
  ASSUME NEW s, IsSeq(s), NEW g \in Parameters(s)
  PROVE  IsSeq(g.params)
<1>1. CASE s = <<>>
  <2>1. g = Signature(<<>>, FALSE)  BY <1>1 DEF Parameters
  <2>2. g.params = <<>>  BY <2>1 DEF Signature
  <2> QED  BY <2>2 DEF IsSeq
<1>2. CASE s # <<>>
  <2> DEFINE fixed(p) == IF Variadic(p) THEN SubSeq(p, 1, Len(p) - 1) ELSE p
             read(p) == [k \in DOMAIN fixed(p) |-> TypeAtHead(DropLeading(fixed(p)[k], OperandAttrs))]
  <2>1. PICK p \in SplitCommas(s) : \E types \in All(read(p)) : g = Signature(types, Variadic(p))
    BY <1>2 DEF Parameters
  <2>2. IsSeq(fixed(p))
    <3>1. IsSeq(p)  BY PartsAreSeqs
    <3>2. IsSeq(SubSeq(p, 1, Len(p) - 1))  BY <3>1, DomainOfSeq, SubSeqIsSeq
    <3> QED  BY <3>1, <3>2
  <2> HIDE DEF fixed
  <2>3. PICK types \in All(read(p)) : g = Signature(types, Variadic(p))  BY <2>1
  <2>4. PICK n \in Nat : DOMAIN read(p) = 1..n  BY <2>2, DomainOfSeq
  <2> HIDE DEF read
  <2>5. IsSeq(types)  BY <2>3, <2>4, AllFacts
  <2> QED  BY <2>3, <2>5 DEF Signature
<1> QED  BY <1>1, <1>2

LEMMA SignatureIsSeq ==
  ASSUME NEW l, IsSeq(l), l # <<>>, NEW s \in NamedSignature(l)
  PROVE  IsSeq(s.signature.params)
<1> DEFINE head == DropLeading(Tail(l), LinkageWords)
           named == {From(head, n + 1) : n \in {n \in TypeEnds(head) : Class(head, n + 1) = "@"}}
           list(x) == From(x, FirstIn(x, {W("(")}))
           Read1(x, n) == {[name |-> x[1][2], signature |-> p] :
                             p \in Parameters(SubSeq(list(x), 2, n - 1))}
           Of(x) == UNION {Read1(x, n) : n \in Closing(list(x), Parens)}
<1>1. NamedSignature(l) = UNION {Of(x) : x \in {x \in named : TypeAtHead(head) # {}}}
  BY DEF NamedSignature, TypeEnds
<1>2. IsSeq(head)
  <2>1. IsSeq(Tail(l))  BY TailFacts
  <2> QED  BY <2>1, DropLeadingIsSeq
<1> HIDE DEF head
<1>3. \A n \in TypeEnds(head) : n \in Int
  <2> TAKE n \in TypeEnds(head)
  <2>1. n \in Closing(head, Braces) \/ n = 1  BY DEF TypeEnds
  <2> QED  BY <1>2, <2>1, ClosingInside
<1>4. PICK x \in named : s \in Of(x)
  <2> HIDE DEF Of, named
  <2> QED  BY <1>1
<1>5. IsSeq(x)
  <2>1. PICK n \in TypeEnds(head) : x = From(head, n + 1)  BY <1>4
  <2>2. n + 1 \in Int  BY <1>3, <2>1
  <2> QED  BY <1>2, <2>1, <2>2, FromIsSeq
<1>6. IsSeq(list(x))
  <2>1. PICK S : S = {W("(")}  OBVIOUS
  <2>2. FirstIn(x, S) \in Int  BY <1>5, FirstInRange, DomainOfSeq
  <2> QED  BY <1>5, <2>1, <2>2, FromIsSeq
<1> HIDE DEF list
<1>7. PICK n \in Closing(list(x), Parens) : s \in Read1(x, n)
  <2> HIDE DEF Read1
  <2> QED  BY <1>4
<1>8. PICK p \in Parameters(SubSeq(list(x), 2, n - 1)) : s.signature = p  BY <1>7
<1>9. IsSeq(SubSeq(list(x), 2, n - 1))
  <2>1. n - 1 \in Int  BY <1>6, ClosingInside
  <2> QED  BY <2>1, SubSeqIsSeq
<1> QED  BY <1>8, <1>9, ParametersAreSeqs

-----------------------------------------------------------------------------
(* What is read keeps its shape.                                            *)

WellBlock(b) ==
  /\ {"name", "insts"} \subseteq DOMAIN b
  /\ IsSeq(b.insts) /\ \A n \in DOMAIN b.insts : ParsedInst(b.insts[n])

WellBlocks(bs) == IsSeq(bs) /\ bs # <<>> /\ \A k \in DOMAIN bs : WellBlock(bs[k])

Bodied(f) ==
  /\ Whole(f) /\ "blocks" \in DOMAIN f
  /\ ~f.declaration => WellBlocks(f.blocks)

LineInside == line \in 1..(Len(text.lines) + 1)
LogicalRead == {"text", "depth", "global"} \subseteq DOMAIN logical /\ IsSeq(logical.text)
BlocksRead == IsSeq(blocks) /\ (phase \in InDefine => WellBlocks(blocks))
FunctionsRead == IsSeq(functions) /\ \A n \in DOMAIN functions : Bodied(functions[n])
TableRead == \A c \in DOMAIN signatures : IsSeq(signatures[c].params)

Shaped == LineInside /\ LogicalRead /\ BlocksRead /\ FunctionsRead /\ TableRead

LEMMA LineStaysInside ==
  ASSUME Read, LineInside, Next
  PROVE  LineInside'
<1>1. DOMAIN text.lines = 1..Len(text.lines) /\ Len(text.lines) \in Nat  BY LinesAreSeqs
<1>2. text' = text
  BY DEF Next, ReadTop, ReadBody, ReadTable, IgnoreLine, ReadAttributes, ReadDeclare, ReadDefine,
    RefuseHeader, Reject, PassToBrace, SkipBodyLine, CloseBody, ReadLabel, StartInstruction,
    ContinueInstruction, FinishInstruction, RefuseInstruction, RefuseUnterminated, ResolveGroups,
    SkipLine, ReadSignature, RefuseSignature, TakeEntry, RefuseEntry, Done, vars
<1>3. line' = line \/ line' = 1 \/ (line <= Len(text.lines) /\ line' = line + 1)
  BY DEF Next, ReadTop, ReadBody, ReadTable, IgnoreLine, ReadAttributes, ReadDeclare, ReadDefine,
    RefuseHeader, Reject, PassToBrace, SkipBodyLine, CloseBody, ReadLabel, StartInstruction,
    ContinueInstruction, FinishInstruction, RefuseInstruction, RefuseUnterminated, ResolveGroups,
    SkipLine, ReadSignature, RefuseSignature, TakeEntry, RefuseEntry, Done, vars, At, Next1, BodyLine
<1> QED  BY <1>1, <1>2, <1>3 DEF LineInside

LEMMA LineIsSeq ==
  ASSUME Read, line <= Len(text.lines)
  PROVE  IsSeq(Line)
<1>1. line \in DOMAIN text.lines  BY LinesAreSeqs DEF Read, LineCounts
<1> QED  BY <1>1, LinesAreSeqs DEF Line

LEMMA LogicalStaysRead ==
  ASSUME Read, LogicalRead, Next
  PROVE  LogicalRead'
<1>1. CASE StartInstruction
  <2>1. IsSeq(Line)  BY <1>1, LineIsSeq DEF StartInstruction, BodyLine, At
  <2>2. PICK d, c, g : logical' = [text |-> Line, depth |-> d, call |-> c, global |-> g]
    BY <1>1 DEF StartInstruction
  <2> QED  BY <2>1, <2>2 DEF LogicalRead
<1>2. CASE ContinueInstruction
  <2>1. IsSeq(Line)  BY <1>2, LineIsSeq DEF ContinueInstruction, At
  <2>2. CASE Line = <<>>  BY <1>2, <2>2 DEF ContinueInstruction, LogicalRead
  <2>3. CASE Line # <<>>
    <3>1. PICK d, g, joined : /\ joined = logical.text \o Line
                             /\ logical' = [logical EXCEPT !.text = joined, !.depth = d, !.global = g]
      BY <1>2, <2>3 DEF ContinueInstruction, LogicalRead
    <3>2. IsSeq(joined)
      <4>1. PICK S : S = Listed(logical.text) \cup Listed(Line)  OBVIOUS
      <4>2. logical.text \in Seq(S) /\ Line \in Seq(S)  BY <2>1, <4>1 DEF LogicalRead, IsSeq
      <4>3. joined \in Seq(S)  BY <3>1, <4>2, ConcatProperties
      <4> QED  BY <4>3, InSeqIsSeq
    <3>3. DOMAIN logical' = DOMAIN logical /\ logical'.text = joined
      BY <3>1 DEF LogicalRead
    <3> QED  BY <3>2, <3>3 DEF LogicalRead
  <2> QED  BY <2>2, <2>3
<1>3. CASE logical' = logical  BY <1>3 DEF LogicalRead
<1>4. logical' = logical \/ StartInstruction \/ ContinueInstruction
  BY DEF Next, ReadTop, ReadBody, ReadTable, IgnoreLine, ReadAttributes, ReadDeclare, ReadDefine,
    RefuseHeader, Reject, PassToBrace, SkipBodyLine, CloseBody, ReadLabel,
    FinishInstruction, RefuseInstruction, RefuseUnterminated, ResolveGroups,
    SkipLine, ReadSignature, RefuseSignature, TakeEntry, RefuseEntry, Done, vars
<1> QED  BY <1>1, <1>2, <1>3, <1>4

LEMMA NewBlockIsWell == \A name : WellBlock(Block(name, <<>>))
BY DEF WellBlock, Block, IsSeq

\* Replacing or adding a block by a well formed one.
LEMMA ReplacedBlock ==
  ASSUME NEW bs, WellBlocks(bs), NEW b, WellBlock(b)
  PROVE  WellBlocks([bs EXCEPT ![Len(bs)] = b]) /\ WellBlocks(Append(bs, b))
<1>1. DOMAIN bs = 1..Len(bs) /\ Len(bs) \in Nat  BY DomainOfSeq DEF WellBlocks
<1>2. PICK t : t = [bs EXCEPT ![Len(bs)] = b]  OBVIOUS
<1>3. DOMAIN t = 1..Len(bs) /\ t = [j \in 1..Len(bs) |-> t[j]]  BY <1>1, <1>2
<1>4. IsSeq(t)  BY <1>1, <1>3, FunctionIsSeq
<1>5. \A k \in DOMAIN t : WellBlock(t[k])  BY <1>1, <1>2 DEF WellBlocks
<1>6. bs # <<>> /\ Len(bs) # 0  BY <1>1 DEF WellBlocks, IsSeq
<1>7. t # <<>>  BY <1>1, <1>3, <1>6
<1>8. PICK u : u = Append(bs, b)  OBVIOUS
<1>9. IsSeq(u) /\ \A k \in DOMAIN u : (k \in DOMAIN bs /\ u[k] = bs[k]) \/ u[k] = b
  BY <1>8, AppendFacts DEF WellBlocks
<1>10. \A k \in DOMAIN u : WellBlock(u[k])  BY <1>9 DEF WellBlocks
<1>11. u # <<>>  BY <1>8 DEF WellBlocks, IsSeq
<1> QED  BY <1>2, <1>4, <1>5, <1>7, <1>8, <1>9, <1>10, <1>11 DEF WellBlocks

LEMMA LastIsWell ==
  ASSUME NEW bs, WellBlocks(bs)
  PROVE  Len(bs) \in DOMAIN bs /\ WellBlock(bs[Len(bs)])
<1>1. DOMAIN bs = 1..Len(bs) /\ Len(bs) \in Nat  BY DomainOfSeq DEF WellBlocks
<1>2. Len(bs) # 0  BY DEF WellBlocks, IsSeq
<1> QED  BY <1>1, <1>2 DEF WellBlocks

LEMMA BlocksStayRead ==
  ASSUME Read, LogicalRead, BlocksRead, Next
  PROVE  BlocksRead'
<1>1. CASE ReadDefine
  <2>1. PICK b : b = Block("", <<>>)  OBVIOUS
  <2>2. blocks' = <<b>>  BY <1>1, <2>1 DEF ReadDefine
  <2>3. <<b>> \in Seq({b}) /\ DOMAIN <<b>> = {1} /\ <<b>>[1] = b /\ <<b>> # <<>>  OBVIOUS
  <2>4. IsSeq(<<b>>)  BY <2>3, InSeqIsSeq
  <2>5. WellBlock(b)  BY <2>1, NewBlockIsWell
  <2>6. WellBlocks(<<b>>)  BY <2>3, <2>4, <2>5 DEF WellBlocks
  <2> QED  BY <2>2, <2>4, <2>6 DEF BlocksRead
<1>2. CASE ReadLabel
  <2>1. WellBlocks(blocks)  BY <1>2 DEF ReadLabel, BodyLine, At, BlocksRead, InDefine
  <2>2. PICK name : blocks' = Labelled(name)  BY <1>2 DEF ReadLabel
  <2>3. CASE blocks' = Append(blocks, Block(name, <<>>))
    <3>1. WellBlocks(blocks')  BY <2>1, <2>3, NewBlockIsWell, ReplacedBlock
    <3> QED  BY <3>1 DEF BlocksRead, WellBlocks
  <2>4. CASE blocks' = [blocks EXCEPT ![Len(blocks)].name = name]
    <3>1. PICK b : b = [blocks[Len(blocks)] EXCEPT !.name = name]  OBVIOUS
    <3>2. blocks' = [blocks EXCEPT ![Len(blocks)] = b]  BY <2>4, <3>1
    <3>3. WellBlock(blocks[Len(blocks)])  BY <2>1, LastIsWell
    <3>4. DOMAIN b = DOMAIN blocks[Len(blocks)] /\ b.insts = blocks[Len(blocks)].insts
      BY <3>1, <3>3 DEF WellBlock
    <3>5. WellBlock(b)  BY <3>3, <3>4 DEF WellBlock
    <3>6. WellBlocks(blocks')  BY <2>1, <3>2, <3>5, ReplacedBlock
    <3> QED  BY <3>6 DEF BlocksRead, WellBlocks
  <2> QED  BY <2>2, <2>3, <2>4 DEF Labelled
<1>3. CASE FinishInstruction
  <2>1. WellBlocks(blocks)  BY <1>3 DEF FinishInstruction, BlocksRead, InDefine
  <2>2. PICK i \in ReadInstruction(logical.text) :
          blocks' = [blocks EXCEPT ![Len(blocks)].insts = Append(@, i)]
    BY <1>3 DEF FinishInstruction
  <2>3. ParsedInst(i)  BY <2>2, InstructionFacts DEF LogicalRead
  <2>4. PICK last : last = blocks[Len(blocks)]  OBVIOUS
  <2>5. WellBlock(last)  BY <2>1, <2>4, LastIsWell
  <2>6. PICK insts : insts = Append(last.insts, i)  OBVIOUS
  <2>7. PICK b : b = [last EXCEPT !.insts = insts]  OBVIOUS
  <2>8. blocks' = [blocks EXCEPT ![Len(blocks)] = b]
    BY <2>1, <2>2, <2>4, <2>6, <2>7, LastIsWell
  <2>9. DOMAIN b = DOMAIN last /\ b.insts = insts  BY <2>5, <2>7 DEF WellBlock
  <2>10. IsSeq(insts) /\ \A n \in DOMAIN insts :
           (n \in DOMAIN last.insts /\ insts[n] = last.insts[n]) \/ insts[n] = i
    BY <2>5, <2>6, AppendFacts DEF WellBlock
  <2>11. WellBlock(b)  BY <2>3, <2>5, <2>9, <2>10 DEF WellBlock
  <2>12. WellBlocks(blocks')  BY <2>1, <2>8, <2>11, ReplacedBlock
  <2> QED  BY <2>12 DEF BlocksRead, WellBlocks
<1>4. CASE blocks' = blocks /\ (phase' \in InDefine => phase \in InDefine)
  BY <1>4 DEF BlocksRead
<1>5. \/ ReadDefine \/ ReadLabel \/ FinishInstruction
      \/ blocks' = blocks /\ (phase' \in InDefine => phase \in InDefine)
  BY DEF Next, ReadTop, ReadBody, ReadTable, IgnoreLine, ReadAttributes, ReadDeclare, RefuseHeader,
    Reject, PassToBrace, SkipBodyLine, CloseBody, StartInstruction, ContinueInstruction,
    RefuseInstruction, RefuseUnterminated, ResolveGroups, SkipLine, ReadSignature,
    RefuseSignature, TakeEntry, RefuseEntry, Done, vars, InDefine, At, Past, BodyLine
<1> QED  BY <1>1, <1>2, <1>3, <1>4, <1>5

LEMMA FunctionsStayRead ==
  ASSUME Read, BlocksRead, FunctionsRead, Next
  PROVE  FunctionsRead'
<1>1. ASSUME NEW f, Bodied(f), functions' = Append(functions, f)  PROVE FunctionsRead'
  <2>1. PICK u : u = Append(functions, f)  OBVIOUS
  <2>2. IsSeq(u) /\ \A k \in DOMAIN u : (k \in DOMAIN functions /\ u[k] = functions[k]) \/ u[k] = f
    BY <2>1, AppendFacts DEF FunctionsRead
  <2> QED  BY <1>1, <2>1, <2>2 DEF FunctionsRead
<1>2. CASE ReadDeclare
  <2>1. PICK h : functions' = Append(functions, Function(h, TRUE, FALSE, <<>>, <<>>))
    BY <1>2 DEF ReadDeclare
  <2>2. Bodied(Function(h, TRUE, FALSE, <<>>, <<>>))  BY DEF Bodied, Whole, Function
  <2> QED  BY <1>1, <2>1, <2>2
<1>3. CASE CloseBody
  <2>1. functions' = Append(functions, Function(define, FALSE, define.entry, define.refs, blocks))
    BY <1>3 DEF CloseBody
  <2>2. WellBlocks(blocks)  BY <1>3 DEF CloseBody, BodyLine, At, BlocksRead, InDefine
  <2>3. Bodied(Function(define, FALSE, define.entry, define.refs, blocks))
    BY <2>2 DEF Bodied, Whole, Function
  <2> QED  BY <1>1, <2>1, <2>3
<1>4. CASE ResolveGroups
  <2>1. functions' = [n \in DOMAIN functions |-> Resolved(functions[n])]
    BY <1>4 DEF ResolveGroups
  <2>2. ASSUME NEW f, Bodied(f)  PROVE Bodied(Resolved(f))
    <3>1. PICK e, p : Resolved(f) = [f EXCEPT !.entry = e, !.profile = p]  BY DEF Resolved
    <3>2. PICK g : g = Resolved(f)  OBVIOUS
    <3>3. DOMAIN g = DOMAIN f /\ g.declaration = f.declaration /\ g.blocks = f.blocks
      BY <2>2, <3>1, <3>2 DEF Bodied, Whole
    <3>4. Bodied(g)  BY <2>2, <3>3 DEF Bodied, Whole
    <3> QED  BY <3>2, <3>4
  <2>3. DOMAIN functions' = 1..Len(functions) /\ Len(functions) \in Nat
    BY <2>1, DomainOfSeq DEF FunctionsRead
  <2>4. functions' = [j \in 1..Len(functions) |-> functions'[j]]  BY <2>1, <2>3
  <2>5. IsSeq(functions')
    <3>1. PICK t : t = functions'  OBVIOUS
    <3> QED  BY <2>3, <2>4, <3>1, FunctionIsSeq
  <2>6. \A n \in DOMAIN functions' : Bodied(functions'[n])  BY <2>1, <2>2 DEF FunctionsRead
  <2> QED  BY <2>5, <2>6 DEF FunctionsRead
<1>5. CASE functions' = functions  BY <1>5 DEF FunctionsRead
<1>6. functions' = functions \/ ReadDeclare \/ CloseBody \/ ResolveGroups
  BY DEF Next, ReadTop, ReadBody, ReadTable, IgnoreLine, ReadAttributes, ReadDefine, RefuseHeader,
    Reject, PassToBrace, SkipBodyLine, ReadLabel, StartInstruction, ContinueInstruction,
    FinishInstruction, RefuseInstruction, RefuseUnterminated, SkipLine, ReadSignature,
    RefuseSignature, TakeEntry, RefuseEntry, Done, vars
<1> QED  BY <1>2, <1>3, <1>4, <1>5, <1>6

LEMMA TableStaysRead ==
  ASSUME Read, TableRead, Next
  PROVE  TableRead'
<1>1. CASE ReadSignature
  <2>1. PICK s \in NamedSignature(Line) : signatures' = Inserted(signatures, s.name, s.signature)
    BY <1>1 DEF ReadSignature
  <2>2. IsSeq(Line) /\ Line # <<>>
    <3>1. IsHeader(Line) /\ line <= Len(text.lines)  BY <1>1 DEF ReadSignature, HasSignature, At
    <3> QED  BY <3>1, LineIsSeq, KeywordsAreWords
  <2>3. IsSeq(s.signature.params)  BY <2>1, <2>2, SignatureIsSeq
  <2> QED  BY <2>1, <2>3 DEF TableRead, Inserted
<1>2. CASE signatures' = signatures  BY <1>2 DEF TableRead
<1>3. signatures' = signatures \/ ReadSignature
  BY DEF Next, ReadTop, ReadBody, ReadTable, IgnoreLine, ReadAttributes, ReadDeclare, ReadDefine,
    RefuseHeader, Reject, PassToBrace, SkipBodyLine, CloseBody, ReadLabel, StartInstruction,
    ContinueInstruction, FinishInstruction, RefuseInstruction, RefuseUnterminated, ResolveGroups,
    SkipLine, RefuseSignature, TakeEntry, RefuseEntry, Done, vars
<1> QED  BY <1>1, <1>2, <1>3

LEMMA ShapeKept ==
  ASSUME Read, Shaped, [Next]_vars
  PROVE  Shaped'
<1>1. CASE Next
  BY <1>1, LineStaysInside, LogicalStaysRead, BlocksStayRead, FunctionsStayRead, TableStaysRead
  DEF Shaped
<1>2. CASE UNCHANGED vars
  BY <1>2 DEF vars, Shaped, LineInside, LogicalRead, BlocksRead, FunctionsRead, TableRead
<1> QED  BY <1>1, <1>2

LEMMA InitShaped == Init => Shaped
<1> SUFFICES ASSUME Init  PROVE Shaped  OBVIOUS
<1>1. text \in Texts /\ line = 1 /\ phase = "items" /\ functions = <<>> /\ blocks = <<>>
      /\ logical = NoLogical /\ signatures = <<>>
  BY DEF Init
<1>2. IsSeq(<<>>) /\ DOMAIN <<>> = {}  BY DEF IsSeq
<1>3. LineInside  BY <1>1, TextsAssumption, DomainOfSeq DEF LineInside
<1>4. LogicalRead  BY <1>1, <1>2 DEF LogicalRead, NoLogical
<1> QED  BY <1>1, <1>2, <1>3, <1>4 DEF Shaped, BlocksRead, FunctionsRead, TableRead, InDefine

Phases == {"items", "brace", "body", "wrapped", "headers", "ready", "rejected"}
PhaseKnown == phase \in Phases

LEMMA PhaseKept ==
  ASSUME PhaseKnown, [Next]_vars
  PROVE  PhaseKnown'
BY DEF PhaseKnown, Next, ReadTop, ReadBody, ReadTable, IgnoreLine, ReadAttributes, ReadDeclare, ReadDefine,
    RefuseHeader, Reject, PassToBrace, SkipBodyLine, CloseBody, ReadLabel, StartInstruction,
    ContinueInstruction, FinishInstruction, RefuseInstruction, RefuseUnterminated, ResolveGroups,
    SkipLine, ReadSignature, RefuseSignature, TakeEntry, RefuseEntry, Done, vars, Phases

LEMMA HandedOver ==
  ASSUME Read, Shaped, phase = "ready"
  PROVE  EntryPoints # {} /\ ParsedModule(Parsed)
<1>1. EntryPoints # {}  BY DEF Read, WholeRead
<1>2. EntryPoints \subseteq Nat
  <2>1. DOMAIN functions \subseteq Nat  BY DEF Read, IsSeq
  <2> QED  BY <2>1 DEF EntryPoints
<1>3. PICK n \in EntryPoints : Entry = functions[n]
  <2> HIDE DEF EntryPoints
  <2>1. (CHOOSE n \in Least(EntryPoints) : TRUE) \in EntryPoints  BY <1>1, <1>2, LeastFacts
  <2> QED  BY <2>1 DEF Entry
<1>4. WellBlocks(Entry.blocks)
  BY <1>3 DEF EntryPoints, Shaped, FunctionsRead, Bodied
<1>5. Parsed.signatures = signatures /\ Parsed.blocks = Entry.blocks  BY DEF Parsed
<1> QED  BY <1>1, <1>4, <1>5 DEF ParsedModule, WellBlocks, WellBlock, Shaped, TableRead

\* Whatever text is read, what is handed to the translator is a module it can
\* walk: blocks, operands and signatures have the shape its code relies on, and
\* while a body is read there is a block to add to.
THEOREM ParsedAsAssumed == Spec => []TypeOK
<1>1. Init => Shaped /\ PhaseKnown  BY InitShaped DEF Init, PhaseKnown, Phases
<1>2. Read /\ Shaped /\ PhaseKnown /\ [Next]_vars => Shaped' /\ PhaseKnown'
  BY ShapeKept, PhaseKept
<1>3. ASSUME Read, Shaped, PhaseKnown  PROVE TypeOK
  <2>1. phase = "ready" => EntryPoints # {} /\ ParsedModule(Parsed)  BY <1>3, HandedOver
  <2>2. phase \in {"brace", "body", "wrapped"} => blocks # <<>>
    BY <1>3 DEF Shaped, BlocksRead, InDefine, WellBlocks
  <2> QED
    BY <1>3, <2>1, <2>2
    DEF TypeOK, Shaped, LineInside, LogicalRead, BlocksRead, FunctionsRead, PhaseKnown, Phases
<1> QED  BY <1>1, <1>2, <1>3, ReadHolds, PTL DEF Spec
=============================================================================
