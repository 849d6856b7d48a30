-------------------------- MODULE CfgConfluenceProofs --------------------------
(***************************************************************************)
(* For every set of block names and every list of block lowerings: which of *)
(* the matching places of a rule is taken first does not show in the result. *)
(*                                                                         *)
(* The rewrites are taken here without the priority lower_cfg gives them and *)
(* without the indexes: a step of the loop is one of them, or two where the *)
(* short-circuit rule is an if with nothing in it and a merge.  Two of them *)
(* that apply to one graph can be followed by one step each to a common     *)
(* graph, unless the graph has a closed region nothing leaves, in which case *)
(* no sequence of rewrites ever leaves the entry alone.                     *)
(***************************************************************************)
EXTENDS CfgReductionProofs, SequenceTheorems, WellFoundedInduction

-----------------------------------------------------------------------------
(* The rules, on a graph m: a function from the names of its blocks to what  *)
(* they hold.  Rule(m, a, X, e) says that a rule lets A absorb the blocks X   *)
(* and hold e.                                                             *)

Targets(m, n) == Listed(m[n].targets)

Prefix(s, e) == MapEntry(s \o e.statements, e.condition, e.targets)

Branched(e, ifBlock, elseBlock, next) ==
  MapEntry(IF ifBlock = <<>> /\ elseBlock = <<>>
             THEN e.statements
             ELSE Append(e.statements, If(e.condition, ifBlock, elseBlock)),
           NoCond, <<next>>)

Looped(e, first, stmts, next) ==
  MapEntry(Append(e.statements, While(e.condition, e.targets[1] # first, stmts)),
           NoCond, <<next>>)

Merge(m, a, b, X, e) ==
  /\ Targets(m, a) = {b} /\ X = {b}
  /\ e = Prefix(m[a].statements, m[b])

SelfLoop(m, a, exit, X, e) ==
  /\ exit # a /\ Targets(m, a) = {a, exit} /\ X = {}
  /\ e = Looped(m[a], a, m[a].statements, exit)

TwoArms(m, a, b, c, d, X, e) ==
  /\ b # c /\ m[a].targets = <<b, c>> /\ Targets(m, a) = {b, c} /\ X = {b, c}
  /\ Targets(m, b) = {d} /\ Targets(m, c) = {d}
  /\ e = Branched(m[a], m[b].statements, m[c].statements, d)

OneArm(m, a, b, d, X, e) ==
  /\ b # d /\ Targets(m, a) = {b, d} /\ X = {b} /\ Targets(m, b) = {d}
  /\ e = IF m[a].targets[1] = b THEN Branched(m[a], m[b].statements, <<>>, d)
                                ELSE Branched(m[a], <<>>, m[b].statements, d)

HeadLoop(m, a, b, exit, X, e) ==
  /\ b # exit /\ Targets(m, a) = {b, exit} /\ X = {b} /\ Targets(m, b) = {a}
  /\ e = Looped(m[a], b, m[b].statements \o m[a].statements, exit)

\* The blocks of X are entered from A only.
OnlyFrom(m, a, X) == \A b \in X : \A n \in DOMAIN m : b \in Targets(m, n) => n = a

\* The rules that take no jump back to A.
Forward(m, a, X, e) ==
  \/ \E b : Merge(m, a, b, X, e)
  \/ \E b, c, d : TwoArms(m, a, b, c, d, X, e)
  \/ \E b, d : OneArm(m, a, b, d, X, e)

Rule(m, a, X, e) ==
  \/ Forward(m, a, X, e)
  \/ \E exit : SelfLoop(m, a, exit, X, e)
  \/ \E b, exit : HeadLoop(m, a, b, exit, X, e)

Applies(m, a, X, e) ==
  a \in DOMAIN m /\ a \notin X /\ OnlyFrom(m, a, X) /\ Rule(m, a, X, e)

After(m, a, X, e) == [n \in DOMAIN m \ X |-> IF n = a THEN e ELSE m[n]]

Rewrites(m, t) == \E a, X, e : Applies(m, a, X, e) /\ t = After(m, a, X, e)

Final(m) == \A t : ~Rewrites(m, t)

-----------------------------------------------------------------------------
(* The graphs of sound inputs, and regions that nothing leaves.            *)

IsSeq(k) == \E S : k \in Seq(S)

Closed(m) ==
  \A n \in DOMAIN m : IsSeq(m[n].statements) /\ Targets(m, n) \subseteq DOMAIN m

EntryFree(m) ==
  Entry \in DOMAIN m /\ \A n \in DOMAIN m : Entry \notin Targets(m, n)

Entered(m, S) == \E p \in DOMAIN m \ S : Targets(m, p) \cap S # {}

AllEntered(m) ==
  \A S \in SUBSET (DOMAIN m \ {Entry}) : S # {} => Entered(m, S)

Sound(m) == Closed(m) /\ EntryFree(m) /\ AllEntered(m)

Trap(m, T) ==
  /\ T # {} /\ T \subseteq DOMAIN m
  /\ \A n \in T : Targets(m, n) # {} /\ Targets(m, n) \subseteq T

Trapped(m) == \E T : Trap(m, T)

\* What a list of one target lists.
LEMMA ListedSingle ==
  ASSUME NEW x
  PROVE  Listed(<<x>>) = {x}
<1>1. Len(<<x>>) = 1 /\ <<x>>[1] = x
  OBVIOUS
<1>2. 1..1 = {1}
  OBVIOUS
<1>3. QED
  BY <1>1, <1>2 DEF Listed

\* Concatenation of sequences of any elements.
LEMMA SeqFacts ==
  ASSUME NEW s, NEW t, IsSeq(s), IsSeq(t)
  PROVE  IsSeq(s \o t) /\ <<>> \o t = t /\ \A x : IsSeq(Append(s, x))
<1>1. PICK S : s \in Seq(S)
  BY DEF IsSeq
<1>2. PICK T : t \in Seq(T)
  BY DEF IsSeq
<1>3. ASSUME NEW x PROVE IsSeq(Append(s, x))
  <2>1. S \subseteq S \cup {x}
    OBVIOUS
  <2>2. s \in Seq(S \cup {x})
    BY <1>1, <2>1, SeqMonotonic
  <2>3. Append(s, x) \in Seq(S \cup {x})
    BY <2>2
  <2>4. QED
    BY <2>3 DEF IsSeq
<1>4. S \subseteq S \cup T /\ T \subseteq S \cup T
  OBVIOUS
<1>5. s \in Seq(S \cup T) /\ t \in Seq(S \cup T)
  BY <1>1, <1>2, <1>4, SeqMonotonic
<1>6. s \o t \in Seq(S \cup T)
  BY <1>5
<1>7. <<>> \o t = t
  BY <1>2, ConcatEmptySeq
<1>8. QED
  BY <1>3, <1>6, <1>7 DEF IsSeq

\* What the result of a rule holds and leads to.
Holds(e, stmts, cond, targets) ==
  e.statements = stmts /\ e.condition = cond /\ e.targets = targets

\* The fields of an entry, of the entry a branch leaves, and of the one a loop leaves.
LEMMA EntryFields ==
  ASSUME NEW stmts, NEW cond, NEW targets
  PROVE  Holds(MapEntry(stmts, cond, targets), stmts, cond, targets)
BY DEF MapEntry, Holds

LEMMA BranchedFields ==
  ASSUME NEW e, NEW x, NEW y, NEW next, IsSeq(e.statements)
  PROVE  /\ Branched(e, x, y, next).targets = <<next>>
         /\ IsSeq(Branched(e, x, y, next).statements)
<1>1. PICK st : st = IF x = <<>> /\ y = <<>> THEN e.statements
                     ELSE Append(e.statements, If(e.condition, x, y))
  OBVIOUS
<1>2. Branched(e, x, y, next) = MapEntry(st, NoCond, <<next>>)
  BY <1>1 DEF Branched
<1>3. IsSeq(st)
  BY <1>1, SeqFacts
<1>4. QED
  BY <1>2, <1>3, EntryFields DEF Holds

LEMMA LoopedFields ==
  ASSUME NEW e, NEW first, NEW stmts, NEW next, IsSeq(e.statements)
  PROVE  /\ Looped(e, first, stmts, next).targets = <<next>>
         /\ IsSeq(Looped(e, first, stmts, next).statements)
<1>1. PICK st : st = Append(e.statements,
                            While(e.condition, e.targets[1] # first, stmts))
  OBVIOUS
<1>2. Looped(e, first, stmts, next) = MapEntry(st, NoCond, <<next>>)
  BY <1>1 DEF Looped
<1>3. IsSeq(st)
  BY <1>1, SeqFacts
<1>4. QED
  BY <1>2, <1>3, EntryFields DEF Holds

\* A rule contracts A and X: e leads exactly where a block of them led outside.
Contraction(m, a, X, e) ==
  /\ a \in DOMAIN m /\ a \notin X /\ X \subseteq DOMAIN m \ {Entry}
  /\ X \subseteq Targets(m, a) /\ OnlyFrom(m, a, X)
  /\ IsSeq(e.statements)
  /\ Listed(e.targets) \subseteq DOMAIN m \ X
  /\ \A y \in Listed(e.targets) : \E n \in X \cup {a} : y \in Targets(m, n)
  /\ \A n \in X \cup {a} : \A y \in Targets(m, n) :
       y \in X \cup {a} \/ y \in Listed(e.targets)
  /\ Listed(e.targets) = {} <=> \E n \in X \cup {a} : Targets(m, n) = {}

\* Every rule removes blocks only A enters, and leaves A with the targets they had.
LEMMA RuleContracts ==
  ASSUME NEW m, Sound(m), NEW a, NEW X, NEW e, Applies(m, a, X, e)
  PROVE  Contraction(m, a, X, e)
<1>1. /\ a \in DOMAIN m /\ a \notin X /\ OnlyFrom(m, a, X)
      /\ IsSeq(m[a].statements)
      /\ Targets(m, a) \subseteq DOMAIN m /\ Entry \notin Targets(m, a)
      /\ \A n \in DOMAIN m : IsSeq(m[n].statements) /\ Targets(m, n) \subseteq DOMAIN m
  BY DEF Applies, Sound, Closed, EntryFree
<1>2. ASSUME NEW b, Merge(m, a, b, X, e) PROVE Contraction(m, a, X, e)
  <2>1. Targets(m, a) = {b} /\ X = {b} /\ e = Prefix(m[a].statements, m[b])
    BY <1>2 DEF Merge
  <2>2. b \in DOMAIN m /\ b # a
    BY <1>1, <2>1
  <2>3. e.statements = m[a].statements \o m[b].statements /\ e.targets = m[b].targets
    BY <2>1 DEF Prefix, MapEntry
  <2>4. IsSeq(e.statements)
    BY <1>1, <2>2, <2>3, SeqFacts
  <2>5. Listed(e.targets) = Targets(m, b)
    BY <2>3 DEF Targets
  <2>6. b \notin Targets(m, b) /\ Targets(m, b) \subseteq DOMAIN m
    BY <1>1, <2>1, <2>2 DEF OnlyFrom
  <2>7. QED
    BY <1>1, <2>1, <2>2, <2>4, <2>5, <2>6 DEF Contraction
<1>3. ASSUME NEW exit, SelfLoop(m, a, exit, X, e) PROVE Contraction(m, a, X, e)
  <2>1. exit # a /\ Targets(m, a) = {a, exit} /\ X = {}
    BY <1>3 DEF SelfLoop
  <2>2. e.targets = <<exit>> /\ IsSeq(e.statements)
    BY <1>1, <1>3, LoopedFields DEF SelfLoop
  <2>3. Listed(e.targets) = {exit}
    BY <2>2, ListedSingle
  <2>4. QED
    BY <1>1, <2>1, <2>2, <2>3 DEF Contraction
<1>4. ASSUME NEW b, NEW c, NEW d, TwoArms(m, a, b, c, d, X, e)
      PROVE  Contraction(m, a, X, e)
  <2>1. /\ b # c /\ Targets(m, a) = {b, c} /\ X = {b, c}
        /\ Targets(m, b) = {d} /\ Targets(m, c) = {d}
    BY <1>4 DEF TwoArms
  <2>2. e.targets = <<d>> /\ IsSeq(e.statements)
    BY <1>1, <1>4, BranchedFields DEF TwoArms
  <2>3. Listed(e.targets) = {d}
    BY <2>2, ListedSingle
  <2>4. b \in DOMAIN m /\ c \in DOMAIN m /\ d \in DOMAIN m /\ d # b /\ d # c
    BY <1>1, <2>1 DEF OnlyFrom
  <2>5. QED
    BY <1>1, <2>1, <2>2, <2>3, <2>4 DEF Contraction
<1>5. ASSUME NEW b, NEW d, OneArm(m, a, b, d, X, e) PROVE Contraction(m, a, X, e)
  <2>1. b # d /\ Targets(m, a) = {b, d} /\ X = {b} /\ Targets(m, b) = {d}
    BY <1>5 DEF OneArm
  <2>2. e.targets = <<d>> /\ IsSeq(e.statements)
    <3>1. e = Branched(m[a], m[b].statements, <<>>, d)
            \/ e = Branched(m[a], <<>>, m[b].statements, d)
      BY <1>5 DEF OneArm
    <3>2. QED
      BY <1>1, <3>1, BranchedFields
  <2>3. Listed(e.targets) = {d}
    BY <2>2, ListedSingle
  <2>4. b \in DOMAIN m /\ d \in DOMAIN m
    BY <1>1, <2>1
  <2>5. QED
    BY <1>1, <2>1, <2>2, <2>3, <2>4 DEF Contraction
<1>6. ASSUME NEW b, NEW exit, HeadLoop(m, a, b, exit, X, e)
      PROVE  Contraction(m, a, X, e)
  <2>1. b # exit /\ Targets(m, a) = {b, exit} /\ X = {b} /\ Targets(m, b) = {a}
    BY <1>6 DEF HeadLoop
  <2>2. e.targets = <<exit>> /\ IsSeq(e.statements)
    BY <1>1, <1>6, LoopedFields DEF HeadLoop
  <2>3. Listed(e.targets) = {exit}
    BY <2>2, ListedSingle
  <2>4. b \in DOMAIN m /\ exit \in DOMAIN m
    BY <1>1, <2>1
  <2>5. QED
    BY <1>1, <2>1, <2>2, <2>3, <2>4 DEF Contraction
<1>7. QED
  BY <1>2, <1>3, <1>4, <1>5, <1>6 DEF Applies, Rule, Forward

\* t is m after a rule.
IsAfter(m, a, X, e, t) ==
  /\ DOMAIN t = DOMAIN m \ X
  /\ t[a] = e
  /\ Targets(t, a) = Listed(e.targets)
  /\ \A n \in DOMAIN m \ (X \cup {a}) : t[n] = m[n] /\ Targets(t, n) = Targets(m, n)

\* What a rule leaves of each block.
LEMMA AfterFacts ==
  ASSUME NEW m, NEW a, NEW X, NEW e, a \in DOMAIN m, a \notin X
  PROVE  IsAfter(m, a, X, e, After(m, a, X, e))
BY DEF After, Targets, IsAfter

\* A rewrite keeps a sound graph sound,
LEMMA AfterSound ==
  ASSUME NEW m, Sound(m), NEW a, NEW X, NEW e, Contraction(m, a, X, e)
  PROVE  Sound(After(m, a, X, e))
<1> DEFINE t == After(m, a, X, e)
<1>1. a \in DOMAIN m /\ a \notin X /\ X \subseteq DOMAIN m \ {Entry}
  BY DEF Contraction
<1>0. IsAfter(m, a, X, e, t)
  BY <1>1, AfterFacts
<1> HIDE DEF t
<1>2. /\ DOMAIN t = DOMAIN m \ X
      /\ t[a] = e
      /\ Targets(t, a) = Listed(e.targets)
      /\ \A n \in DOMAIN m \ (X \cup {a}) : t[n] = m[n] /\ Targets(t, n) = Targets(m, n)
  BY <1>0 DEF IsAfter
<1>3. \A n \in DOMAIN m : \A b \in X : b \in Targets(m, n) => n = a
  BY DEF Contraction, OnlyFrom
<1>4. Closed(t)
  <2> SUFFICES ASSUME NEW n \in DOMAIN t
               PROVE  IsSeq(t[n].statements) /\ Targets(t, n) \subseteq DOMAIN t
    BY DEF Closed
  <2>1. CASE n = a
    BY <1>2, <2>1 DEF Contraction
  <2>2. CASE n # a
    <3>1. n \in DOMAIN m \ (X \cup {a})
      BY <1>2, <2>2
    <3>2. IsSeq(m[n].statements) /\ Targets(m, n) \subseteq DOMAIN m
      BY <3>1 DEF Sound, Closed
    <3>3. QED
      BY <1>2, <1>3, <3>1, <3>2
  <2>3. QED
    BY <2>1, <2>2
<1>5. EntryFree(t)
  <2>1. Entry \in DOMAIN t
    BY <1>1, <1>2 DEF Sound, EntryFree
  <2>2. \A n \in DOMAIN m : Entry \notin Targets(m, n)
    BY DEF Sound, EntryFree
  <2>3. Entry \notin Listed(e.targets)
    BY <1>1, <2>2 DEF Contraction
  <2>4. QED
    BY <1>2, <2>1, <2>2, <2>3 DEF EntryFree
<1>6. AllEntered(t)
  <2> SUFFICES ASSUME NEW S \in SUBSET (DOMAIN t \ {Entry}), S # {}
               PROVE  Entered(t, S)
    BY DEF AllEntered
  <2>1. PICK S0 : S0 = IF a \in S THEN S \cup X ELSE S
    OBVIOUS
  <2>2. S0 \in SUBSET (DOMAIN m \ {Entry}) /\ S0 # {}
    BY <1>1, <1>2, <2>1
  <2>3. PICK p \in DOMAIN m \ S0 : Targets(m, p) \cap S0 # {}
    BY <2>2 DEF Sound, AllEntered, Entered
  <2>4. PICK y \in S0 : y \in Targets(m, p)
    BY <2>3
  <2>5. CASE a \in S
    <3>1. p # a /\ p \in DOMAIN t /\ p \notin S
      BY <1>2, <2>1, <2>5
    <3>2. y \in S
      BY <1>3, <2>1, <2>4, <2>5, <3>1
    <3>3. Targets(t, p) = Targets(m, p)
      BY <1>2, <3>1
    <3>4. QED
      BY <2>4, <3>1, <3>2, <3>3 DEF Entered
  <2>6. CASE a \notin S
    <3>1. y \in S /\ y \notin X /\ y # a
      BY <1>2, <2>1, <2>6
    <3>2. CASE p \in X \cup {a}
      <4>1. y \in Listed(e.targets)
        BY <2>4, <3>1, <3>2 DEF Contraction
      <4>2. QED
        BY <1>1, <1>2, <2>6, <3>1, <4>1 DEF Entered
    <3>3. CASE p \notin X \cup {a}
      BY <1>2, <2>1, <2>4, <2>6, <3>1, <3>3 DEF Entered
    <3>4. QED
      BY <3>2, <3>3
  <2>7. QED
    BY <2>5, <2>6
<1>7. QED
  BY <1>4, <1>5, <1>6 DEF Sound, t

\* A trap is contracted with the graph, and none appears.
LEMMA AfterTrapped ==
  ASSUME NEW m, NEW a, NEW X, NEW e, Contraction(m, a, X, e)
  PROVE  Trapped(After(m, a, X, e)) <=> Trapped(m)
<1> DEFINE t == After(m, a, X, e)
<1>1. a \in DOMAIN m /\ a \notin X /\ X \subseteq DOMAIN m
  BY DEF Contraction
<1>0. IsAfter(m, a, X, e, t)
  BY <1>1, AfterFacts
<1> HIDE DEF t
<1>2. /\ DOMAIN t = DOMAIN m \ X
      /\ Targets(t, a) = Listed(e.targets)
      /\ \A n \in DOMAIN m \ (X \cup {a}) : Targets(t, n) = Targets(m, n)
  BY <1>0 DEF IsAfter
<1>3. \A n \in DOMAIN m : \A b \in X : b \in Targets(m, n) => n = a
  BY DEF Contraction, OnlyFrom
<1>4. ASSUME NEW T, Trap(m, T) PROVE Trapped(t)
  <2>1. /\ T # {} /\ T \subseteq DOMAIN m
        /\ \A n \in T : Targets(m, n) # {} /\ Targets(m, n) \subseteq T
    BY <1>4 DEF Trap
  <2>2. T \ X # {}
    <3>1. CASE a \in T
      BY <1>1, <3>1
    <3>2. CASE a \notin T
      <4>1. PICK n \in T : TRUE
        BY <2>1
      <4>2. PICK y \in T : y \in Targets(m, n)
        BY <2>1
      <4>3. y \notin X
        BY <1>3, <2>1, <3>2, <4>1, <4>2
      <4>4. QED
        BY <4>2, <4>3
    <3>3. QED
      BY <3>1, <3>2
  <2>3. ASSUME NEW n \in T \ X
        PROVE  Targets(t, n) # {} /\ Targets(t, n) \subseteq T \ X
    <3>1. CASE n # a
      <4>1. Targets(t, n) = Targets(m, n)
        BY <1>2, <2>1, <3>1
      <4>2. Targets(m, n) \cap X = {}
        BY <1>3, <2>1, <3>1
      <4>3. QED
        BY <2>1, <4>1, <4>2
    <3>2. CASE n = a
      <4>1. X \cup {a} \subseteq T
        BY <2>1, <3>2 DEF Contraction
      <4>2. Listed(e.targets) # {}
        BY <2>1, <4>1 DEF Contraction
      <4>3. Listed(e.targets) \subseteq T \ X
        BY <2>1, <4>1 DEF Contraction
      <4>4. QED
        BY <1>2, <3>2, <4>2, <4>3
    <3>3. QED
      BY <3>1, <3>2
  <2>4. Trap(t, T \ X)
    BY <1>2, <2>1, <2>2, <2>3 DEF Trap
  <2>5. QED
    BY <2>4 DEF Trapped
<1>5. ASSUME NEW T, Trap(t, T) PROVE Trapped(m)
  <2>1. /\ T # {} /\ T \subseteq DOMAIN m \ X
        /\ \A n \in T : Targets(t, n) # {} /\ Targets(t, n) \subseteq T
    BY <1>2, <1>5 DEF Trap
  <2>2. \A n \in T \ {a} : Targets(t, n) = Targets(m, n)
    BY <1>2, <2>1
  <2>3. CASE a \notin T
    <3>1. Trap(m, T)
      BY <2>1, <2>2, <2>3 DEF Trap
    <3>2. QED
      BY <3>1 DEF Trapped
  <2>4. CASE a \in T
    <3>1. Listed(e.targets) # {} /\ Listed(e.targets) \subseteq T
      BY <1>2, <2>1, <2>4
    <3>2. ASSUME NEW n \in X \cup {a}
          PROVE  Targets(m, n) # {} /\ Targets(m, n) \subseteq T \cup X
      BY <2>4, <3>1 DEF Contraction
    <3>3. Trap(m, T \cup X)
      BY <1>1, <2>1, <2>2, <3>2 DEF Trap
    <3>4. QED
      BY <3>3 DEF Trapped
  <2>5. QED
    BY <2>3, <2>4
<1>6. QED
  BY <1>4, <1>5 DEF Trapped, t

\* so a rewrite keeps both soundness and traps.
LEMMA RewriteKeeps ==
  ASSUME NEW m, Sound(m), NEW t, Rewrites(m, t)
  PROVE  Sound(t) /\ (Trapped(t) <=> Trapped(m))
<1>1. PICK a, X, e : Applies(m, a, X, e) /\ t = After(m, a, X, e)
  BY DEF Rewrites
<1>2. QED
  BY <1>1, RuleContracts, AfterSound, AfterTrapped

\* Two blocks are not each the only one that enters the other.
LEMMA NoIsland ==
  ASSUME NEW m, Sound(m), NEW a \in DOMAIN m, NEW b \in DOMAIN m,
         a # Entry, b # Entry,
         \A n \in DOMAIN m : a \in Targets(m, n) => n = b,
         \A n \in DOMAIN m : b \in Targets(m, n) => n = a
  PROVE  FALSE
<1>1. {a, b} \in SUBSET (DOMAIN m \ {Entry}) /\ {a, b} # {}
  OBVIOUS
<1>2. PICK p \in DOMAIN m \ {a, b} : Targets(m, p) \cap {a, b} # {}
  BY <1>1 DEF Sound, AllEntered, Entered
<1>3. QED
  BY <1>2

-----------------------------------------------------------------------------
(* Two rules at one block are the same rule.                               *)

\* T is closed under the targets of its blocks, and each of them has some.
LEMMA TrapIs ==
  ASSUME NEW m, Sound(m), NEW T, T # {}, T \subseteq DOMAIN m,
         \A n \in T : Targets(m, n) # {} /\ Targets(m, n) \subseteq T,
         ~Trapped(m)
  PROVE  FALSE
BY DEF Trap, Trapped

\* Without traps, two rules that apply at A take the same blocks and leave the same.
LEMMA SamePlace ==
  ASSUME NEW m, Sound(m), ~Trapped(m), NEW a, NEW X1, NEW e1, NEW X2, NEW e2,
         Applies(m, a, X1, e1), Applies(m, a, X2, e2)
  PROVE  X1 = X2 /\ e1 = e2
<1>0. a \in DOMAIN m /\ a \notin X1 /\ a \notin X2 /\ Targets(m, a) \subseteq DOMAIN m
  BY DEF Applies, Sound, Closed
<1>c. ASSUME NEW b, NEW c, Targets(m, a) = {b, c},
             Targets(m, b) # {} /\ Targets(m, b) \subseteq {a, b, c},
             Targets(m, c) # {} /\ Targets(m, c) \subseteq {a, b, c}
      PROVE  FALSE
  <2>1. {a, b, c} \subseteq DOMAIN m
    BY <1>0, <1>c
  <2>2. \A n \in {a, b, c} : Targets(m, n) # {} /\ Targets(m, n) \subseteq {a, b, c}
    BY <1>c
  <2>3. QED
    BY <2>1, <2>2, TrapIs
<1>d. ASSUME NEW b, NEW d, Targets(m, a) = {b, d}, Targets(m, b) # {},
             Targets(m, d) # {}, Targets(m, b) \subseteq {b, d},
             Targets(m, d) \subseteq {b, d}
      PROVE  FALSE
  BY <1>c, <1>d
<1>1. ASSUME NEW b1, Merge(m, a, b1, X1, e1) PROVE X1 = X2 /\ e1 = e2
  <2>1. Targets(m, a) = {b1}
    BY <1>1 DEF Merge
  <2>2. \A b, c : Targets(m, a) = {b, c} => b = c
    BY <2>1
  <2>3. PICK b2 : Merge(m, a, b2, X2, e2)
    BY <2>2 DEF Applies, Rule, Forward, TwoArms, OneArm, SelfLoop, HeadLoop
  <2>4. b2 = b1
    BY <2>1, <2>3 DEF Merge
  <2>5. QED
    BY <1>1, <2>3, <2>4 DEF Merge
<1>2. ASSUME NEW exit, SelfLoop(m, a, exit, X1, e1) PROVE X1 = X2 /\ e1 = e2
  <2>1. exit # a /\ Targets(m, a) = {a, exit}
    BY <1>2 DEF SelfLoop
  <2>2. Targets(m, exit) # {a}
    BY <2>1, <1>c
  <2>3. PICK x : SelfLoop(m, a, x, X2, e2)
    <3>1. ASSUME NEW b, Merge(m, a, b, X2, e2) PROVE FALSE
      BY <2>1, <3>1 DEF Merge
    <3>2. ASSUME NEW b, NEW c, NEW d, TwoArms(m, a, b, c, d, X2, e2) PROVE FALSE
      BY <1>0, <2>1, <3>2 DEF TwoArms
    <3>3. ASSUME NEW b, NEW d, OneArm(m, a, b, d, X2, e2) PROVE FALSE
      BY <1>0, <2>1, <2>2, <3>3 DEF OneArm
    <3>4. ASSUME NEW b, NEW x, HeadLoop(m, a, b, x, X2, e2) PROVE FALSE
      BY <1>0, <2>1, <2>2, <3>4 DEF HeadLoop
    <3>5. QED
      BY <3>1, <3>2, <3>3, <3>4 DEF Applies, Rule, Forward
  <2>4. x = exit
    BY <2>1, <2>3 DEF SelfLoop
  <2>5. QED
    BY <1>2, <2>3, <2>4 DEF SelfLoop
<1>3. ASSUME NEW b1, NEW c1, NEW d1, TwoArms(m, a, b1, c1, d1, X1, e1)
      PROVE  X1 = X2 /\ e1 = e2
  <2>1. /\ b1 # c1 /\ Targets(m, a) = {b1, c1} /\ X1 = {b1, c1}
        /\ Targets(m, b1) = {d1} /\ Targets(m, c1) = {d1}
    BY <1>3 DEF TwoArms
  <2>2. d1 # a /\ d1 # b1 /\ d1 # c1
    BY <1>c, <2>1
  <2>3. PICK b2, c2, d2 : TwoArms(m, a, b2, c2, d2, X2, e2)
    <3>1. ASSUME NEW b, Merge(m, a, b, X2, e2) PROVE FALSE
      BY <2>1, <3>1 DEF Merge
    <3>2. ASSUME NEW x, SelfLoop(m, a, x, X2, e2) PROVE FALSE
      BY <1>0, <2>1, <3>2 DEF SelfLoop
    <3>3. ASSUME NEW b, NEW d, OneArm(m, a, b, d, X2, e2) PROVE FALSE
      BY <2>1, <2>2, <3>3 DEF OneArm
    <3>4. ASSUME NEW b, NEW x, HeadLoop(m, a, b, x, X2, e2) PROVE FALSE
      BY <2>1, <2>2, <3>4 DEF HeadLoop
    <3>5. QED
      BY <3>1, <3>2, <3>3, <3>4 DEF Applies, Rule, Forward
  <2>4. Targets(m, a) = {b2, c2} /\ X2 = {b2, c2} /\ Targets(m, b2) = {d2}
    BY <2>3 DEF TwoArms
  <2>5. <<b2, c2>> = <<b1, c1>>
    BY <1>3, <2>3 DEF TwoArms
  <2>6. b2 = b1 /\ c2 = c1
    BY <2>5
  <2>7. d2 = d1
    BY <2>1, <2>4, <2>6
  <2>8. QED
    BY <1>3, <2>3, <2>6, <2>7 DEF TwoArms
<1>4. ASSUME NEW b1, NEW d1, OneArm(m, a, b1, d1, X1, e1)
      PROVE  X1 = X2 /\ e1 = e2
  <2>1. b1 # d1 /\ Targets(m, a) = {b1, d1} /\ X1 = {b1} /\ Targets(m, b1) = {d1}
    BY <1>4 DEF OneArm
  <2>2. d1 # a
    BY <1>c, <2>1
  <2>3. Targets(m, d1) # {a} /\ Targets(m, d1) # {b1} /\ Targets(m, d1) # {d1}
    BY <1>c, <2>1
  <2>4. PICK b2, d2 : OneArm(m, a, b2, d2, X2, e2)
    <3>1. ASSUME NEW b, Merge(m, a, b, X2, e2) PROVE FALSE
      BY <2>1, <3>1 DEF Merge
    <3>2. ASSUME NEW x, SelfLoop(m, a, x, X2, e2) PROVE FALSE
      BY <1>0, <2>1, <2>2, <3>2 DEF SelfLoop
    <3>3. ASSUME NEW b, NEW c, NEW d, TwoArms(m, a, b, c, d, X2, e2) PROVE FALSE
      BY <2>1, <2>3, <3>3 DEF TwoArms
    <3>4. ASSUME NEW b, NEW x, HeadLoop(m, a, b, x, X2, e2) PROVE FALSE
      BY <2>1, <2>2, <2>3, <3>4 DEF HeadLoop
    <3>5. QED
      BY <3>1, <3>2, <3>3, <3>4 DEF Applies, Rule, Forward
  <2>5. b2 # d2 /\ Targets(m, a) = {b2, d2} /\ X2 = {b2} /\ Targets(m, b2) = {d2}
    BY <2>4 DEF OneArm
  <2>6. b2 = b1 /\ d2 = d1
    BY <2>1, <2>3, <2>5
  <2>7. QED
    BY <1>4, <2>1, <2>4, <2>5, <2>6 DEF OneArm
<1>5. ASSUME NEW b1, NEW exit, HeadLoop(m, a, b1, exit, X1, e1)
      PROVE  X1 = X2 /\ e1 = e2
  <2>1. /\ b1 # exit /\ Targets(m, a) = {b1, exit} /\ X1 = {b1}
        /\ Targets(m, b1) = {a}
    BY <1>5 DEF HeadLoop
  <2>2. exit # a
    BY <1>c, <2>1
  <2>3. Targets(m, exit) # {a} /\ Targets(m, exit) # {b1}
    BY <1>c, <2>1
  <2>4. PICK b2, x2 : HeadLoop(m, a, b2, x2, X2, e2)
    <3>1. ASSUME NEW b, Merge(m, a, b, X2, e2) PROVE FALSE
      BY <2>1, <3>1 DEF Merge
    <3>2. ASSUME NEW x, SelfLoop(m, a, x, X2, e2) PROVE FALSE
      BY <1>0, <2>1, <2>2, <3>2 DEF SelfLoop
    <3>3. ASSUME NEW b, NEW c, NEW d, TwoArms(m, a, b, c, d, X2, e2) PROVE FALSE
      BY <2>1, <2>3, <3>3 DEF TwoArms
    <3>4. ASSUME NEW b, NEW d, OneArm(m, a, b, d, X2, e2) PROVE FALSE
      BY <2>1, <2>2, <2>3, <3>4 DEF OneArm
    <3>5. QED
      BY <3>1, <3>2, <3>3, <3>4 DEF Applies, Rule, Forward
  <2>5. b2 # x2 /\ Targets(m, a) = {b2, x2} /\ X2 = {b2} /\ Targets(m, b2) = {a}
    BY <2>4 DEF HeadLoop
  <2>6. b2 = b1 /\ x2 = exit
    BY <2>1, <2>3, <2>5
  <2>7. QED
    BY <1>5, <2>1, <2>4, <2>5, <2>6 DEF HeadLoop
<1>6. QED
  BY <1>1, <1>2, <1>3, <1>4, <1>5 DEF Applies, Rule, Forward

-----------------------------------------------------------------------------
(* Two rules at different blocks.                                          *)

\* A rule reads the block it is at and the blocks it takes, and nothing else.
LEMMA RuleIsLocal ==
  ASSUME NEW m, NEW t, NEW a, NEW X, NEW e, Rule(m, a, X, e),
         X \subseteq Targets(m, a), \A n \in X \cup {a} : t[n] = m[n]
  PROVE  Rule(t, a, X, e)
<1>1. \A n \in X \cup {a} : Targets(t, n) = Targets(m, n)
  BY DEF Targets
<1>2. ASSUME NEW b, Merge(m, a, b, X, e) PROVE Merge(t, a, b, X, e)
  BY <1>1, <1>2 DEF Merge
<1>3. ASSUME NEW exit, SelfLoop(m, a, exit, X, e) PROVE SelfLoop(t, a, exit, X, e)
  BY <1>1, <1>3 DEF SelfLoop
<1>4. ASSUME NEW b, NEW c, NEW d, TwoArms(m, a, b, c, d, X, e)
      PROVE  TwoArms(t, a, b, c, d, X, e)
  BY <1>1, <1>4 DEF TwoArms
<1>5. ASSUME NEW b, NEW d, OneArm(m, a, b, d, X, e) PROVE OneArm(t, a, b, d, X, e)
  BY <1>1, <1>5 DEF OneArm
<1>6. ASSUME NEW b, NEW exit, HeadLoop(m, a, b, exit, X, e)
      PROVE  HeadLoop(t, a, b, exit, X, e)
  BY <1>1, <1>6 DEF HeadLoop
<1>7. QED
  BY <1>2, <1>3, <1>4, <1>5, <1>6 DEF Rule, Forward

\* Rules at A and at C of which neither takes the other's block can be taken in
\* either order.
LEMMA RuleRemains ==
  ASSUME NEW m, Sound(m), NEW a, NEW X, NEW e, Applies(m, a, X, e),
         NEW c, NEW Y, NEW f, Applies(m, c, Y, f),
         a # c, a \notin Y, c \notin X
  PROVE  Applies(After(m, a, X, e), c, Y, f)
<1>1. Contraction(m, a, X, e) /\ Contraction(m, c, Y, f)
  BY RuleContracts
<1>2. /\ a \in DOMAIN m /\ a \notin X /\ X \subseteq DOMAIN m
      /\ c \in DOMAIN m /\ c \notin Y /\ Y \subseteq DOMAIN m
      /\ X \subseteq Targets(m, a) /\ Y \subseteq Targets(m, c)
  BY <1>1 DEF Contraction
<1>3. /\ \A b \in X : \A n \in DOMAIN m : b \in Targets(m, n) => n = a
      /\ \A b \in Y : \A n \in DOMAIN m : b \in Targets(m, n) => n = c
  BY <1>1 DEF Contraction, OnlyFrom
<1>4. X \cap Y = {}
  BY <1>2, <1>3
<1>5. PICK t : t = After(m, a, X, e)
  OBVIOUS
<1>a. IsAfter(m, a, X, e, t)
  BY <1>2, <1>5, AfterFacts
<1>6. /\ DOMAIN t = DOMAIN m \ X
      /\ Targets(t, a) = Listed(e.targets)
      /\ \A n \in DOMAIN m \ (X \cup {a}) : t[n] = m[n] /\ Targets(t, n) = Targets(m, n)
  BY <1>a DEF IsAfter
<1>7. \A n \in Y \cup {c} : n \in DOMAIN t /\ t[n] = m[n]
  BY <1>2, <1>4, <1>6
<1>8. Rule(t, c, Y, f)
  BY <1>2, <1>7, RuleIsLocal DEF Applies
<1>9. OnlyFrom(t, c, Y)
  <2> SUFFICES ASSUME NEW b \in Y, NEW n \in DOMAIN t, b \in Targets(t, n)
               PROVE  n = c
    BY DEF OnlyFrom
  <2>1. CASE n = a
    <3>1. PICK k \in X \cup {a} : b \in Targets(m, k)
      BY <1>1, <1>6, <2>1 DEF Contraction
    <3>2. k = c
      BY <1>2, <1>3, <3>1
    <3>3. QED
      BY <3>1, <3>2
  <2>2. CASE n # a
    BY <1>3, <1>6, <2>2
  <2>3. QED
    BY <2>1, <2>2
<1>10. QED
  BY <1>2, <1>5, <1>7, <1>8, <1>9 DEF Applies

\* Taken in either order, they leave the same graph.
LEMMA EitherOrder ==
  ASSUME NEW m, Sound(m), NEW a, NEW X, NEW e, Applies(m, a, X, e),
         NEW c, NEW Y, NEW f, Applies(m, c, Y, f),
         a # c, a \notin Y, c \notin X
  PROVE  \E w : Rewrites(After(m, a, X, e), w) /\ Rewrites(After(m, c, Y, f), w)
<1> DEFINE t == After(m, a, X, e)
           u == After(m, c, Y, f)
<1>1. Applies(t, c, Y, f) /\ Applies(u, a, X, e)
  BY RuleRemains
<1>2. After(t, c, Y, f) = After(u, a, X, e)
  BY DEF After
<1>3. Rewrites(t, After(t, c, Y, f)) /\ Rewrites(u, After(u, a, X, e))
  <2> HIDE DEF t, u
  <2>1. QED
    BY <1>1 DEF Rewrites
<1>4. QED
  BY <1>2, <1>3

\* What a list put before another leaves as it is.
Grouping(s, t, u) == (s \o t) \o u = s \o (t \o u)
LastStays(s, t, x) == Append(s \o t, x) = s \o Append(t, x)
BranchStays(s, e, x, y, next) ==
  Prefix(s, Branched(e, x, y, next)) = Branched(Prefix(s, e), x, y, next)
\* Statements before statements that follow e's: the grouping does not matter.
LEMMA Regrouped ==
  ASSUME NEW s, NEW t, NEW u, IsSeq(s), IsSeq(t), IsSeq(u)
  PROVE  Grouping(s, t, u)
<1>1. PICK S : s \in Seq(S)
  BY DEF IsSeq
<1>2. PICK T : t \in Seq(T)
  BY DEF IsSeq
<1>3. PICK U : u \in Seq(U)
  BY DEF IsSeq
<1>4. PICK W : W = S \cup T \cup U
  OBVIOUS
<1>5. S \subseteq W /\ T \subseteq W /\ U \subseteq W
  BY <1>4
<1>6. s \in Seq(W) /\ t \in Seq(W) /\ u \in Seq(W)
  BY <1>1, <1>2, <1>3, <1>5, SeqMonotonic
<1>7. QED
  BY <1>6, ConcatAssociative DEF Grouping

\* What stands last stays last when statements are put in front.
LEMMA AppendedLast ==
  ASSUME NEW s, NEW t, NEW x, IsSeq(s), IsSeq(t)
  PROVE  LastStays(s, t, x)
<1>1. IsSeq(<<x>>)
  <2>1. <<x>> \in Seq({x})
    OBVIOUS
  <2>2. QED
    BY <2>1 DEF IsSeq
<1>2. ASSUME NEW k, IsSeq(k) PROVE Append(k, x) = k \o <<x>>
  <2>1. PICK S : k \in Seq(S)
    BY <1>2 DEF IsSeq
  <2>2. S \subseteq S \cup {x} /\ x \in S \cup {x}
    OBVIOUS
  <2>3. k \in Seq(S \cup {x})
    BY <2>1, <2>2, SeqMonotonic
  <2>4. QED
    BY <2>2, <2>3, AppendIsConcat
<1>3. IsSeq(s \o t)
  BY SeqFacts
<1>4. Grouping(s, t, <<x>>)
  BY <1>1, Regrouped
<1>5. Append(s \o t, x) = (s \o t) \o <<x>> /\ Append(t, x) = t \o <<x>>
  BY <1>2, <1>3
<1>6. QED
  BY <1>4, <1>5 DEF Grouping, LastStays

\* Statements put in front of A's entry before a branch is taken, or after it;
LEMMA BranchPrefixed ==
  ASSUME NEW s, NEW e, NEW x, NEW y, NEW next, IsSeq(s), IsSeq(e.statements)
  PROVE  BranchStays(s, e, x, y, next)
<1> DEFINE i == If(e.condition, x, y)
           p == Prefix(s, e)
<1>1. p.statements = s \o e.statements /\ p.condition = e.condition
  BY DEF Prefix, MapEntry
<1>2. Append(s \o e.statements, i) = s \o Append(e.statements, i)
  BY AppendedLast DEF LastStays
<1> HIDE DEF i, p
<1>3. CASE x = <<>> /\ y = <<>>
  <2>1. Branched(e, x, y, next) = MapEntry(e.statements, NoCond, <<next>>)
    BY <1>3 DEF Branched
  <2>2. Branched(p, x, y, next) = MapEntry(p.statements, NoCond, <<next>>)
    BY <1>3 DEF Branched
  <2>3. QED
    BY <1>1, <2>1, <2>2 DEF Prefix, MapEntry, BranchStays, p
<1>4. CASE ~(x = <<>> /\ y = <<>>)
  <2>1. Branched(e, x, y, next) = MapEntry(Append(e.statements, i), NoCond, <<next>>)
    BY <1>4 DEF Branched, i
  <2>2. Branched(p, x, y, next) = MapEntry(Append(p.statements, i), NoCond, <<next>>)
    BY <1>1, <1>4 DEF Branched, i
  <2>3. ASSUME NEW g PROVE Prefix(s, MapEntry(g, NoCond, <<next>>))
                             = MapEntry(s \o g, NoCond, <<next>>)
    BY DEF Prefix, MapEntry
  <2>4. Prefix(s, Branched(e, x, y, next))
          = MapEntry(s \o Append(e.statements, i), NoCond, <<next>>)
    BY <2>1, <2>3
  <2>5. p.statements = s \o e.statements
    BY <1>1
  <2>6. Branched(p, x, y, next)
          = MapEntry(Append(s \o e.statements, i), NoCond, <<next>>)
    BY <2>2, <2>5
  <2>7. QED
    BY <1>2, <2>4, <2>6 DEF BranchStays, p
<1>5. QED
  BY <1>3, <1>4

\* and so for every rule that takes no jump back to A.
LEMMA ForwardPrefixed ==
  ASSUME NEW m, NEW b, NEW X, NEW e, Forward(m, b, X, e), NEW s, IsSeq(s),
         \A n \in X \cup {b} : IsSeq(m[n].statements),
         NEW t, NEW a, t[a] = Prefix(s, m[b]), \A n \in X : t[n] = m[n]
  PROVE  Forward(t, a, X, Prefix(s, e))
<1>1. /\ t[a].statements = s \o m[b].statements
      /\ t[a].targets = m[b].targets
  BY DEF Prefix, MapEntry
<1>2. /\ Targets(t, a) = Targets(m, b)
      /\ \A n \in X : Targets(t, n) = Targets(m, n)
  BY <1>1 DEF Targets
<1>3. ASSUME NEW x, NEW y, NEW next, NEW g, g = Branched(m[b], x, y, next)
      PROVE  Prefix(s, g) = Branched(t[a], x, y, next)
  <2>1. IsSeq(m[b].statements)
    OBVIOUS
  <2>2. BranchStays(s, m[b], x, y, next)
    BY <2>1, BranchPrefixed
  <2>3. QED
    BY <1>3, <2>2 DEF BranchStays
<1>4. ASSUME NEW d, Merge(m, b, d, X, e) PROVE Merge(t, a, d, X, Prefix(s, e))
  <2>1. Targets(m, b) = {d} /\ X = {d} /\ e = Prefix(m[b].statements, m[d])
    BY <1>4 DEF Merge
  <2>2. IsSeq(m[b].statements) /\ IsSeq(m[d].statements) /\ t[d] = m[d]
    BY <2>1
  <2>3. Grouping(s, m[b].statements, m[d].statements)
    BY <2>2, Regrouped
  <2>4. Prefix(s, e) = Prefix(t[a].statements, t[d])
    BY <1>1, <2>1, <2>2, <2>3 DEF Prefix, MapEntry, Grouping
  <2>5. QED
    BY <1>2, <2>1, <2>4 DEF Merge
<1>5. ASSUME NEW c, NEW d, NEW next, TwoArms(m, b, c, d, next, X, e)
      PROVE  TwoArms(t, a, c, d, next, X, Prefix(s, e))
  BY <1>1, <1>2, <1>3, <1>5 DEF TwoArms
<1>6. ASSUME NEW c, NEW d, OneArm(m, b, c, d, X, e)
      PROVE  OneArm(t, a, c, d, X, Prefix(s, e))
  <2>1. c \in X
    BY <1>6 DEF OneArm
  <2>2. CASE m[b].targets[1] = c
    BY <1>1, <1>2, <1>3, <1>6, <2>1, <2>2 DEF OneArm
  <2>3. CASE m[b].targets[1] # c
    BY <1>1, <1>2, <1>3, <1>6, <2>1, <2>3 DEF OneArm
  <2>4. QED
    BY <2>2, <2>3
<1>7. QED
  BY <1>4, <1>5, <1>6 DEF Forward

\* A block that another rule takes away has a rule of its own only where it is the
\* one block its only predecessor merges with.
LEMMA TakenIsMerged ==
  ASSUME NEW m, Sound(m), NEW a, NEW X, NEW e, Applies(m, a, X, e),
         NEW b \in X, NEW Y, NEW f, Applies(m, b, Y, f)
  PROVE  /\ Merge(m, a, b, X, e)
         /\ Forward(m, b, Y, f)
         /\ a \notin Y
<1>1. Contraction(m, a, X, e) /\ Contraction(m, b, Y, f)
  BY RuleContracts
<1>2. /\ a \in DOMAIN m /\ a \notin X /\ X \subseteq DOMAIN m \ {Entry}
      /\ b \in DOMAIN m /\ b \notin Y /\ Y \subseteq DOMAIN m \ {Entry}
      /\ X \subseteq Targets(m, a) /\ Y \subseteq Targets(m, b)
  BY <1>1 DEF Contraction
<1>3. /\ \A n \in DOMAIN m : b \in Targets(m, n) => n = a
      /\ \A y \in Y : \A n \in DOMAIN m : y \in Targets(m, n) => n = b
  BY <1>1 DEF Contraction, OnlyFrom
<1>4. a \notin Y
  <2>1. SUFFICES ASSUME a \in Y PROVE FALSE
    OBVIOUS
  <2>2. \A n \in DOMAIN m : a \in Targets(m, n) => n = b
    BY <1>3, <2>1
  <2>3. a # Entry /\ b # Entry
    BY <1>2, <2>1
  <2>4. QED
    BY <1>2, <1>3, <2>2, <2>3, NoIsland
<1>5. Forward(m, b, Y, f)
  <2>1. ASSUME NEW exit, SelfLoop(m, b, exit, Y, f) PROVE FALSE
    <3>1. b \in Targets(m, b)
      BY <2>1 DEF SelfLoop
    <3>2. QED
      BY <1>2, <1>3, <3>1
  <2>2. ASSUME NEW c, NEW exit, HeadLoop(m, b, c, exit, Y, f) PROVE FALSE
    <3>1. c \in Y /\ b \in Targets(m, c)
      BY <2>2 DEF HeadLoop
    <3>2. c = a
      BY <1>2, <1>3, <3>1
    <3>3. QED
      BY <1>4, <3>1, <3>2
  <2>3. QED
    BY <2>1, <2>2 DEF Applies, Rule
<1>6. ASSUME NEW d, Targets(m, b) = {d} PROVE Y = {d}
  <2>1. \A x, y : Targets(m, b) = {x, y} => x = y
    BY <1>6
  <2>2. PICK c : Merge(m, b, c, Y, f)
    BY <1>5, <2>1 DEF Forward, TwoArms, OneArm
  <2>3. QED
    BY <1>6, <2>2 DEF Merge
<1>7. Merge(m, a, b, X, e)
  <2>1. ASSUME NEW exit, SelfLoop(m, a, exit, X, e) PROVE FALSE
    BY <2>1 DEF SelfLoop
  <2>2. ASSUME NEW x, NEW y, NEW d, TwoArms(m, a, x, y, d, X, e) PROVE FALSE
    <3>1. /\ x # y /\ X = {x, y} /\ Targets(m, x) = {d} /\ Targets(m, y) = {d}
      BY <2>2 DEF TwoArms
    <3>2. Y = {d}
      BY <1>6, <3>1
    <3>3. x \in DOMAIN m /\ y \in DOMAIN m
      BY <1>2, <3>1
    <3>4. x = b /\ y = b
      BY <1>3, <3>1, <3>2, <3>3
    <3>5. QED
      BY <3>1, <3>4
  <2>3. ASSUME NEW x, NEW d, OneArm(m, a, x, d, X, e) PROVE FALSE
    <3>1. X = {x} /\ d \in Targets(m, a) /\ Targets(m, x) = {d}
      BY <2>3 DEF OneArm
    <3>2. Y = {d}
      BY <1>6, <3>1
    <3>3. a = b
      BY <1>2, <1>3, <3>1, <3>2
    <3>4. QED
      BY <1>2, <3>3
  <2>4. ASSUME NEW x, NEW exit, HeadLoop(m, a, x, exit, X, e) PROVE FALSE
    <3>1. X = {x} /\ Targets(m, x) = {a}
      BY <2>4 DEF HeadLoop
    <3>2. Y = {a}
      BY <1>6, <3>1
    <3>3. QED
      BY <1>4, <3>2
  <2>5. PICK x : Merge(m, a, x, X, e)
    BY <2>1, <2>2, <2>3, <2>4 DEF Applies, Rule, Forward
  <2>6. x = b
    BY <2>5 DEF Merge
  <2>7. QED
    BY <2>5, <2>6
<1>8. QED
  BY <1>4, <1>5, <1>7

\* A merges with B before or after the rule at B is taken.
LEMMA MergeEitherSide ==
  ASSUME NEW m, Sound(m), NEW a, NEW X, NEW e, Applies(m, a, X, e),
         NEW b \in X, NEW Y, NEW f, Applies(m, b, Y, f)
  PROVE  \E w : Rewrites(After(m, a, X, e), w) /\ Rewrites(After(m, b, Y, f), w)
<1>1. Contraction(m, a, X, e) /\ Contraction(m, b, Y, f)
  BY RuleContracts
<1>2. Merge(m, a, b, X, e) /\ Forward(m, b, Y, f) /\ a \notin Y
  BY TakenIsMerged
<1>3. /\ Targets(m, a) = {b} /\ X = {b} /\ e = Prefix(m[a].statements, m[b])
  BY <1>2 DEF Merge
<1>4. /\ a \in DOMAIN m /\ a # b /\ b \in DOMAIN m /\ b \notin Y
      /\ Y \subseteq DOMAIN m /\ Y \subseteq Targets(m, b)
  BY <1>1, <1>3 DEF Contraction
<1>5. /\ \A n \in DOMAIN m : b \in Targets(m, n) => n = a
      /\ \A y \in Y : \A n \in DOMAIN m : y \in Targets(m, n) => n = b
  BY <1>1, <1>3 DEF Contraction, OnlyFrom
<1>6. PICK s : s = m[a].statements
  OBVIOUS
<1>7. IsSeq(s) /\ \A n \in Y \cup {b} : IsSeq(m[n].statements)
  BY <1>4, <1>6 DEF Sound, Closed
<1>8. PICK t : t = After(m, a, X, e)
  OBVIOUS
<1>9. PICK u : u = After(m, b, Y, f)
  OBVIOUS
<1>10. IsAfter(m, a, X, e, t) /\ IsAfter(m, b, Y, f, u)
  BY <1>3, <1>4, <1>8, <1>9, AfterFacts
<1>11. Applies(t, a, Y, Prefix(s, f))
  <2>1. /\ DOMAIN t = DOMAIN m \ {b} /\ t[a] = Prefix(s, m[b])
        /\ Targets(t, a) = Targets(m, b)
        /\ \A n \in DOMAIN m \ {a, b} : t[n] = m[n] /\ Targets(t, n) = Targets(m, n)
    <3>1. e.targets = m[b].targets
      BY <1>3 DEF Prefix, MapEntry
    <3>2. QED
      BY <1>3, <1>6, <1>10, <3>1 DEF IsAfter, Targets
  <2>2. \A n \in Y : t[n] = m[n]
    BY <1>2, <1>4, <2>1
  <2>3. Forward(t, a, Y, Prefix(s, f))
    BY <1>2, <1>7, <2>1, <2>2, ForwardPrefixed
  <2>4. OnlyFrom(t, a, Y)
    <3> SUFFICES ASSUME NEW y \in Y, NEW n \in DOMAIN t, y \in Targets(t, n), n # a
                 PROVE  FALSE
      BY DEF OnlyFrom
    <3>1. y \in Targets(m, n) /\ n \in DOMAIN m /\ n # b
      BY <2>1
    <3>2. QED
      BY <1>5, <3>1
  <2>5. QED
    BY <1>2, <1>4, <2>1, <2>3, <2>4 DEF Applies, Rule
<1>12. Applies(u, a, {b}, Prefix(s, f))
  <2>1. /\ DOMAIN u = DOMAIN m \ Y /\ u[b] = f /\ u[a] = m[a]
        /\ Targets(u, b) = Listed(f.targets) /\ Targets(u, a) = {b}
        /\ \A n \in DOMAIN m \ (Y \cup {b}) : Targets(u, n) = Targets(m, n)
    BY <1>2, <1>3, <1>4, <1>10 DEF IsAfter
  <2>2. Merge(u, a, b, {b}, Prefix(s, f))
    BY <1>6, <2>1 DEF Merge
  <2>3. OnlyFrom(u, a, {b})
    <3> SUFFICES ASSUME NEW n \in DOMAIN u, b \in Targets(u, n), n # a
                 PROVE  FALSE
      BY DEF OnlyFrom
    <3>1. n = b
      BY <1>5, <2>1
    <3>2. PICK k \in Y \cup {b} : b \in Targets(m, k)
      BY <1>1, <2>1, <3>1 DEF Contraction
    <3>3. k = a
      BY <1>4, <1>5, <3>2
    <3>4. QED
      BY <1>2, <1>4, <3>2, <3>3
  <2>4. QED
    BY <1>2, <1>4, <2>1, <2>2, <2>3 DEF Applies, Rule, Forward
<1>13. After(t, a, Y, Prefix(s, f)) = After(u, a, {b}, Prefix(s, f))
  <2>1. DOMAIN t \ Y = DOMAIN u \ {b}
    BY <1>3, <1>10 DEF IsAfter
  <2>2. \A n \in DOMAIN t \ Y : n # a => t[n] = u[n]
    BY <1>3, <1>10 DEF IsAfter
  <2>3. QED
    BY <2>1, <2>2 DEF After
<1>14. QED
  BY <1>8, <1>9, <1>11, <1>12, <1>13 DEF Rewrites

-----------------------------------------------------------------------------
(* Runs.                                                                   *)

\* From a graph without a trap, two rewrites lead to the same graph, or one more
\* of each does.
LEMMA Diamond ==
  ASSUME NEW m, Sound(m), ~Trapped(m), NEW t, Rewrites(m, t), NEW u, Rewrites(m, u)
  PROVE  t = u \/ \E w : Rewrites(t, w) /\ Rewrites(u, w)
<1>1. PICK a, X, e : Applies(m, a, X, e) /\ t = After(m, a, X, e)
  BY DEF Rewrites
<1>2. PICK c, Y, f : Applies(m, c, Y, f) /\ u = After(m, c, Y, f)
  BY DEF Rewrites
<1>3. CASE a = c
  <2>1. X = Y /\ e = f
    BY <1>1, <1>2, <1>3, SamePlace
  <2>2. QED
    BY <1>1, <1>2, <1>3, <2>1
<1>4. CASE c \in X
  BY <1>1, <1>2, <1>4, MergeEitherSide
<1>5. CASE a \in Y
  BY <1>1, <1>2, <1>5, MergeEitherSide
<1>6. CASE a # c /\ c \notin X /\ a \notin Y
  BY <1>1, <1>2, <1>6, EitherOrder
<1>7. QED
  BY <1>3, <1>4, <1>5, <1>6

\* f holds the k rewrites that lead from s to t.
Leads(s, t, k, f) ==
  /\ DOMAIN f = 0..k /\ f[0] = s /\ f[k] = t
  /\ \A i \in 1..k : Rewrites(f[i - 1], f[i])

Run(s, t) == \E k \in Nat : \E f : Leads(s, t, k, f)

\* A run may be empty, and one more rewrite makes it longer.
LEMMA EmptyRun == ASSUME NEW s PROVE Run(s, s)
<1>1. PICK f : f = [i \in 0..0 |-> s]
  OBVIOUS
<1>2. Leads(s, s, 0, f)
  BY <1>1 DEF Leads
<1>3. QED
  BY <1>2 DEF Run

LEMMA LongerRun ==
  ASSUME NEW s, NEW t, Run(s, t), NEW u, Rewrites(t, u)
  PROVE  Run(s, u)
<1>a. PICK k \in Nat : \E f : Leads(s, t, k, f)
  BY DEF Run
<1>1. PICK f : Leads(s, t, k, f)
  BY <1>a
<1>2. PICK g : g = [i \in 0..(k + 1) |-> IF i = k + 1 THEN u ELSE f[i]]
  OBVIOUS
<1>3. DOMAIN g = 0..(k + 1) /\ g[0] = s /\ g[k + 1] = u /\ g[k] = t
  BY <1>1, <1>2 DEF Leads
<1>4. ASSUME NEW i \in 1..(k + 1) PROVE Rewrites(g[i - 1], g[i])
  <2>1. CASE i = k + 1
    BY <1>3, <2>1
  <2>2. CASE i # k + 1
    <3>1. i \in 1..k /\ i - 1 \in 0..(k + 1) /\ i - 1 # k + 1
      BY <2>2
    <3>2. g[i - 1] = f[i - 1] /\ g[i] = f[i]
      BY <1>2, <2>2, <3>1
    <3>3. QED
      BY <1>1, <3>1, <3>2 DEF Leads
  <2>3. QED
    BY <2>1, <2>2
<1>5. Leads(s, u, k + 1, g)
  BY <1>3, <1>4 DEF Leads
<1>6. QED
  BY <1>5 DEF Run

\* A set of numbers that is not empty has a least one.
LEMMA LeastOf ==
  ASSUME NEW S, S \subseteq Nat, S # {}
  PROVE  \E n \in S : \A i \in S : n <= i
<1> DEFINE R == {p \in Nat \X Nat : p[1] < p[2]}
<1>1. IsWellFoundedOn(R, Nat)
  BY NatLessThanWellFounded DEF OpToRel
<1>2. PICK n \in S : \A i \in S : ~(<<i, n>> \in R)
  BY <1>1, WFMin
<1>3. \A i \in S : ~(i < n)
  BY <1>2
<1>4. QED
  BY <1>3

\* A set of graphs that the rewrites of a run stay in.
LEMMA Along ==
  ASSUME NEW k \in Nat, NEW s, NEW t, NEW f, Leads(s, t, k, f), NEW G, s \in G,
         \A i \in 1..k : f[i - 1] \in G => f[i] \in G
  PROVE  t \in G
<1>1. PICK B : B = {i \in 0..k : f[i] \notin G}
  OBVIOUS
<1>2. SUFFICES ASSUME B # {} PROVE FALSE
  BY <1>1 DEF Leads
<1>3. B \subseteq Nat
  BY <1>1
<1>4. PICK i \in B : \A j \in B : i <= j
  BY <1>2, <1>3, LeastOf
<1>5. i # 0 /\ i \in 0..k /\ f[i] \notin G
  BY <1>1, <1>4 DEF Leads
<1>6. i \in 1..k /\ i - 1 \in 0..k /\ i - 1 \notin B
  BY <1>4, <1>5
<1>7. QED
  BY <1>1, <1>5, <1>6

Good(m) == Sound(m) /\ ~Trapped(m)

\* What the graph is sound for, and whether it has a trap, lasts through a run.
LEMMA RunKeeps ==
  ASSUME NEW s, Sound(s), NEW t, Run(s, t)
  PROVE  Sound(t) /\ (Trapped(t) <=> Trapped(s))
<1>a. PICK k \in Nat : \E f : Leads(s, t, k, f)
  BY DEF Run
<1>1. PICK f : Leads(s, t, k, f)
  BY <1>a
<1>2. PICK G : G = {i \in 0..k : Sound(f[i]) /\ (Trapped(f[i]) <=> Trapped(s))}
  OBVIOUS
<1>3. PICK H : H = {f[i] : i \in G}
  OBVIOUS
<1>4. s \in H
  BY <1>1, <1>2, <1>3 DEF Leads
<1>5. ASSUME NEW i \in 1..k, f[i - 1] \in H PROVE f[i] \in H
  <2>1. Sound(f[i - 1]) /\ (Trapped(f[i - 1]) <=> Trapped(s)) /\ Rewrites(f[i - 1], f[i])
    BY <1>1, <1>2, <1>3, <1>5 DEF Leads
  <2>2. Sound(f[i]) /\ (Trapped(f[i]) <=> Trapped(f[i - 1]))
    BY <2>1, RewriteKeeps
  <2>3. i \in 0..k
    OBVIOUS
  <2>4. QED
    BY <1>2, <1>3, <2>1, <2>2, <2>3
<1>6. t \in H
  BY <1>1, <1>4, <1>5, Along
<1>7. QED
  BY <1>2, <1>3, <1>6

\* A first step taken elsewhere does not keep a run from ending where it ends.
LEMMA OtherFirstStep ==
  ASSUME NEW s, Good(s), NEW u, Rewrites(s, u), NEW t, Run(s, t), Final(t)
  PROVE  Run(u, t)
<1>a. PICK k \in Nat : \E f : Leads(s, t, k, f)
  BY DEF Run
<1>1. PICK f : Leads(s, t, k, f)
  BY <1>a
<1>2. PICK G : G = {i \in 0..k : /\ Good(f[i])
                                 /\ \E v : Run(u, v) /\ (f[i] = v \/ Rewrites(f[i], v))}
  OBVIOUS
<1>3. PICK H : H = {f[i] : i \in G}
  OBVIOUS
<1>4. s \in H
  BY <1>1, <1>2, <1>3, EmptyRun DEF Leads
<1>5. ASSUME NEW i \in 1..k, f[i - 1] \in H PROVE f[i] \in H
  <2>1. Good(f[i - 1]) /\ Rewrites(f[i - 1], f[i]) /\ i \in 0..k
    BY <1>1, <1>2, <1>3, <1>5 DEF Leads
  <2>2. PICK v : Run(u, v) /\ (f[i - 1] = v \/ Rewrites(f[i - 1], v))
    BY <1>2, <1>3, <1>5
  <2>3. Good(f[i])
    BY <2>1, RewriteKeeps DEF Good
  <2>4. CASE f[i - 1] = v
    <3>1. Run(u, f[i])
      BY <2>1, <2>2, <2>4, LongerRun
    <3>2. QED
      BY <1>2, <1>3, <2>1, <2>3, <3>1
  <2>5. CASE Rewrites(f[i - 1], v)
    <3>1. v = f[i] \/ \E w : Rewrites(v, w) /\ Rewrites(f[i], w)
      BY <2>1, <2>5, Diamond DEF Good
    <3>2. CASE v = f[i]
      BY <1>2, <1>3, <2>1, <2>2, <2>3, <3>2
    <3>3. CASE \E w : Rewrites(v, w) /\ Rewrites(f[i], w)
      <4>1. PICK w : Rewrites(v, w) /\ Rewrites(f[i], w)
        BY <3>3
      <4>2. Run(u, w)
        BY <2>2, <4>1, LongerRun
      <4>3. QED
        BY <1>2, <1>3, <2>1, <2>3, <4>1, <4>2
    <3>4. QED
      BY <3>1, <3>2, <3>3
  <2>6. QED
    BY <2>2, <2>4, <2>5
<1>6. t \in H
  BY <1>1, <1>4, <1>5, Along
<1>7. PICK v : Run(u, v) /\ (t = v \/ Rewrites(t, v))
  BY <1>2, <1>3, <1>6
<1>8. QED
  BY <1>7 DEF Final

\* Runs that cannot be continued end in the same graph.
LEMMA OneEnd ==
  ASSUME NEW s, Good(s), NEW t, Run(s, t), Final(t), NEW u, Run(s, u), Final(u)
  PROVE  t = u
<1>a. PICK k \in Nat : \E f : Leads(s, t, k, f)
  BY DEF Run
<1>1. PICK f : Leads(s, t, k, f)
  BY <1>a
<1>2. PICK G : G = {i \in 0..k : Good(f[i]) /\ Run(f[i], u)}
  OBVIOUS
<1>3. PICK H : H = {f[i] : i \in G}
  OBVIOUS
<1>4. s \in H
  BY <1>1, <1>2, <1>3 DEF Leads
<1>5. ASSUME NEW i \in 1..k, f[i - 1] \in H PROVE f[i] \in H
  <2>1. Good(f[i - 1]) /\ Run(f[i - 1], u) /\ Rewrites(f[i - 1], f[i]) /\ i \in 0..k
    BY <1>1, <1>2, <1>3, <1>5 DEF Leads
  <2>2. Good(f[i])
    BY <2>1, RewriteKeeps DEF Good
  <2>3. Run(f[i], u)
    BY <2>1, OtherFirstStep
  <2>4. QED
    BY <1>2, <1>3, <2>1, <2>2, <2>3
<1>6. t \in H
  BY <1>1, <1>4, <1>5, Along
<1>b. PICK n \in Nat : \E g : Leads(t, u, n, g)
  <2>1. Run(t, u)
    BY <1>2, <1>3, <1>6
  <2>2. QED
    BY <2>1 DEF Run
<1>7. PICK g : Leads(t, u, n, g)
  BY <1>b
<1>8. n = 0
  <2>1. SUFFICES ASSUME n # 0 PROVE FALSE
    OBVIOUS
  <2>2. 1 \in 1..n /\ 1 - 1 = 0
    BY <2>1
  <2>3. Rewrites(g[1 - 1], g[1])
    BY <1>7, <2>2 DEF Leads
  <2>4. Rewrites(t, g[1])
    BY <1>7, <2>2, <2>3 DEF Leads
  <2>5. QED
    BY <2>4 DEF Final
<1>9. QED
  BY <1>7, <1>8 DEF Leads

\* With a trap, no run comes to the entry alone.
LEMMA TrapStays ==
  ASSUME NEW s, Sound(s), Trapped(s), NEW t, Run(s, t)
  PROVE  DOMAIN t # {Entry}
<1>1. Sound(t) /\ Trapped(t)
  BY RunKeeps
<1>2. PICK T : Trap(t, T)
  BY <1>1 DEF Trapped
<1>3. SUFFICES ASSUME DOMAIN t = {Entry} PROVE FALSE
  OBVIOUS
<1>4. T = {Entry}
  BY <1>2, <1>3 DEF Trap
<1>5. Entry \in Targets(t, Entry)
  BY <1>2, <1>4 DEF Trap
<1>6. QED
  BY <1>1, <1>3, <1>5 DEF Sound, EntryFree

\* Both runs come to the entry alone, with the same statements, or neither does.
LEMMA OneResult ==
  ASSUME NEW s, Sound(s), NEW t, Run(s, t), Final(t), NEW u, Run(s, u), Final(u)
  PROVE  /\ DOMAIN t = {Entry} <=> DOMAIN u = {Entry}
         /\ DOMAIN t = {Entry} => t = u
<1>1. CASE Trapped(s)
  BY <1>1, TrapStays
<1>2. CASE ~Trapped(s)
  BY <1>2, OneEnd DEF Good
<1>3. QED
  BY <1>1, <1>2

-----------------------------------------------------------------------------
(* The reducer takes such steps.                                           *)

\* The blocks lower_cfg still works on: the rules that take A's condition leave the
\* blocks they remove from the graph in the map.
Live == [n \in cfg.nodes |-> map[n]]

\* On a graph in sync the map, kept to the nodes of the digraph, has the same edges.
LEMMA LiveFacts ==
  ASSUME Invariant
  PROVE  /\ DOMAIN Live = cfg.nodes /\ cfg.nodes \subseteq Name
         /\ \A n \in cfg.nodes : /\ Live[n] = map[n]
                                 /\ Targets(Live, n) = cfg.succ[n]
                                 /\ cfg.succ[n] \subseteq cfg.nodes
<1>1. DOMAIN Live = cfg.nodes /\ \A n \in cfg.nodes : Live[n] = map[n]
  BY DEF Live
<1>2. cfg.nodes \subseteq Name
  BY DEF Invariant, TypeOK, Cfg
<1>3. \A n \in cfg.nodes : cfg.succ[n] = Listed(map[n].targets)
                           /\ cfg.succ[n] \subseteq cfg.nodes
  BY NodeFacts
<1>4. QED
  BY <1>1, <1>2, <1>3 DEF Targets

\* A block of in-degree one is entered from one block only.
LEMMA LiveOnlyFrom ==
  ASSUME Invariant, NEW a \in cfg.nodes, NEW b \in cfg.succ[a]
  PROVE  InDegreeOne(b) <=> \A n \in DOMAIN Live : b \in Targets(Live, n) => n = a
<1>1. /\ a \in Name /\ b \in Name /\ cfg.nodes \subseteq Name
      /\ cfg.pred[b] \subseteq Name
  BY LiveFacts DEF Invariant, TypeOK, Cfg
<1>2. \A n \in Name : /\ b \in cfg.succ[n] <=> n \in cfg.pred[b]
                      /\ b \in cfg.succ[n] => n \in cfg.nodes
  BY <1>1 DEF Invariant, GraphInSync, IndexesConverse
<1>3. ASSUME InDegreeOne(b), NEW n \in DOMAIN Live, b \in Targets(Live, n) PROVE n = a
  BY <1>3, OnlyPredecessor, LiveFacts
<1>4. ASSUME \A n \in DOMAIN Live : b \in Targets(Live, n) => n = a
      PROVE  InDegreeOne(b)
  <2>1. cfg.pred[b] = {a}
    BY <1>1, <1>2, <1>4, LiveFacts
  <2>2. QED
    BY <1>1, <2>1 DEF InDegreeOne
<1>5. QED
  BY <1>3, <1>4

\* Where a step contracts the graph, what is left is what the rule leaves.
LEMMA ContractedLive ==
  ASSUME Invariant, NEW a, NEW B, Contracts(a, B), OnlyFrom(Live, a, B),
         Rule(Live, a, B, map'[a])
  PROVE  Rewrites(Live, Live')
<1>1. /\ a \in cfg.nodes /\ a \notin B /\ cfg'.nodes = cfg.nodes \ B
      /\ \A n \in cfg'.nodes \ {a} : map'[n] = map[n]
  BY DEF Contracts, GraphContracts, MapFollows
<1>2. DOMAIN Live = cfg.nodes /\ \A n \in cfg.nodes : Live[n] = map[n]
  BY LiveFacts
<1>3. Live' = After(Live, a, B, map'[a])
  <2>1. Live' = [n \in cfg'.nodes |-> map'[n]]
    BY DEF Live
  <2>2. QED
    BY <1>1, <1>2, <2>1 DEF After
<1>4. Applies(Live, a, B, map'[a])
  BY <1>1, <1>2 DEF Applies
<1>5. QED
  BY <1>3, <1>4 DEF Rewrites

\* What the two ways to write A's entry leave in it.
LEMMA AbsorbedEntry ==
  ASSUME Invariant, NEW a \in cfg.nodes, NEW B, a \notin B, NEW stmts, NEW last,
         Absorb(a, B, stmts, last)
  PROVE  map'[a] = MapEntry(map[a].statements \o stmts, map[last].condition,
                            map[last].targets)
<1>1. a \in DOMAIN map
  BY NodeFacts
<1>2. QED
  BY <1>1 DEF Absorb, Drop

LEMMA TakenEntry ==
  ASSUME Invariant, NEW a \in cfg.nodes, NEW stmts, NEW next,
         TakeCondition(a, stmts, next)
  PROVE  map'[a] = MapEntry(stmts, NoCond, <<next>>)
<1>1. a \in DOMAIN map
  BY NodeFacts
<1>2. QED
  BY <1>1 DEF TakeCondition

\* Each action of the loop is a rewrite of what is live.
LEMMA SequentialRewrites ==
  ASSUME Invariant, NEW a \in cfg.nodes, NEW b \in cfg.succ[a],
         ReduceSequential(a, b), a # b
  PROVE  Rewrites(Live, Live')
<1>1. Contracts(a, {b}) /\ SequentialAt(a, b)
  BY SequentialContracts DEF ReduceSequential
<1>2. b \in cfg.nodes /\ cfg.succ[a] = {b} /\ InDegreeOne(b)
  BY <1>1, LiveFacts DEF SequentialAt
<1>3. OnlyFrom(Live, a, {b})
  BY <1>2, LiveOnlyFrom DEF OnlyFrom
<1>4. map'[a] = Prefix(map[a].statements, map[b])
  <2>1. Absorb(a, {b}, map[b].statements, b) /\ a \notin {b}
    BY DEF ReduceSequential
  <2>a. PICK B, s : B = {b} /\ s = map[b].statements
    OBVIOUS
  <2>b. Absorb(a, B, s, b) /\ a \notin B
    BY <2>1, <2>a
  <2>c. map'[a] = MapEntry(map[a].statements \o s, map[b].condition, map[b].targets)
    BY <2>b, AbsorbedEntry
  <2>2. map'[a] = MapEntry(map[a].statements \o map[b].statements,
                           map[b].condition, map[b].targets)
    BY <2>a, <2>c
  <2>3. QED
    BY <2>2 DEF Prefix
<1>5. Merge(Live, a, b, {b}, map'[a])
  BY <1>2, <1>4, LiveFacts DEF Merge
<1>6. QED
  BY <1>1, <1>3, <1>5, ContractedLive DEF Rule, Forward

LEMMA SelfLoopRewrites ==
  ASSUME Invariant, NEW a \in cfg.nodes, NEW exit \in cfg.succ[a],
         ReduceSelfLoop(a, exit), map[a].condition # NoCond
  PROVE  Rewrites(Live, Live')
<1>1. Contracts(a, {}) /\ exit # a /\ cfg.succ[a] = {a, exit}
  BY SelfLoopContracts DEF ReduceSelfLoop, SelfLoopAt
<1>2. OnlyFrom(Live, a, {})
  BY DEF OnlyFrom
<1>3. map'[a] = Looped(map[a], a, map[a].statements, exit)
  <2>1. TakeCondition(a, Append(map[a].statements, LoopOn(a, a, map[a].statements)),
                      exit)
    BY DEF ReduceSelfLoop
  <2>2. QED
    BY <2>1, TakenEntry DEF Looped, LoopOn
<1>4. SelfLoop(Live, a, exit, {}, map'[a])
  BY <1>1, <1>3, LiveFacts DEF SelfLoop
<1>5. QED
  BY <1>1, <1>2, <1>4, ContractedLive DEF Rule

LEMMA IfElseRewrites ==
  ASSUME Invariant, NEW a \in cfg.nodes, NEW b \in cfg.succ[a],
         NEW c \in cfg.succ[a], NEW d \in cfg.succ[b],
         ReduceIfElse(a, b, c, d), map[a].condition # NoCond
  PROVE  Rewrites(Live, Live')
<1>1. Contracts(a, {b, c}) /\ IfElseAt(a, b, c, d)
  BY IfElseContracts DEF ReduceIfElse
<1>2. /\ b # c /\ cfg.succ[a] = {b, c} /\ InDegreeOne(b) /\ InDegreeOne(c)
      /\ cfg.succ[b] = {d} /\ cfg.succ[c] = {d} /\ b \in cfg.nodes /\ c \in cfg.nodes
  BY <1>1, LiveFacts DEF IfElseAt
<1>3. OnlyFrom(Live, a, {b, c})
  BY <1>2, LiveOnlyFrom DEF OnlyFrom
<1>4. PICK t : t = map[a].targets
  OBVIOUS
<1>5. /\ t = <<t[1], t[2]>> /\ {t[1], t[2]} = {b, c}
  <2>1. t \in Seq(Name) /\ Len(t) <= 2 /\ Listed(t) = {b, c}
    BY <1>2, <1>4, NodeFacts
  <2>2. Len(t) = 2 /\ Listed(t) = {t[1], t[2]}
    BY <1>2, <2>1, ListedFacts
  <2>3. t = <<t[1], t[2]>>
    BY <2>1, <2>2
  <2>4. QED
    BY <2>1, <2>2, <2>3
<1>6. map'[a] = Branched(map[a], map[t[1]].statements, map[t[2]].statements, d)
  <2>1. TakeCondition(a, WithBranch(a, map[map[a].targets[1]].statements,
                                       map[map[a].targets[2]].statements), d)
    BY DEF ReduceIfElse
  <2>2. QED
    BY <1>4, <2>1, TakenEntry DEF Branched, WithBranch
<1>7. PICK x, y : x = t[1] /\ y = t[2]
  OBVIOUS
<1>8. /\ x # y /\ {x, y} = {b, c} /\ map[a].targets = <<x, y>>
      /\ cfg.succ[x] = {d} /\ cfg.succ[y] = {d} /\ x \in cfg.nodes /\ y \in cfg.nodes
  BY <1>2, <1>4, <1>5, <1>7
<1>9. TwoArms(Live, a, x, y, d, {b, c}, map'[a])
  BY <1>2, <1>6, <1>7, <1>8, LiveFacts DEF TwoArms
<1>10. QED
  BY <1>1, <1>3, <1>9, ContractedLive DEF Rule, Forward

LEMMA IfNoElseRewrites ==
  ASSUME Invariant, NEW a \in cfg.nodes, NEW b \in cfg.succ[a],
         NEW d \in cfg.succ[a], ReduceIfNoElse(a, b, d), map[a].condition # NoCond
  PROVE  Rewrites(Live, Live')
<1>1. Contracts(a, {b}) /\ IfNoElseAt(a, b, d)
  BY IfNoElseContracts DEF ReduceIfNoElse
<1>2. /\ b # d /\ cfg.succ[a] = {b, d} /\ InDegreeOne(b) /\ cfg.succ[b] = {d}
      /\ b \in cfg.nodes
  BY <1>1, LiveFacts DEF IfNoElseAt
<1>3. OnlyFrom(Live, a, {b})
  BY <1>2, LiveOnlyFrom DEF OnlyFrom
<1>4. map'[a] = IF map[a].targets[1] = b
                  THEN Branched(map[a], map[b].statements, <<>>, d)
                  ELSE Branched(map[a], <<>>, map[b].statements, d)
  <2>1. TakeCondition(a, IF map[a].targets[1] = b
                           THEN WithBranch(a, map[b].statements, <<>>)
                           ELSE WithBranch(a, <<>>, map[b].statements), d)
    BY DEF ReduceIfNoElse
  <2>2. CASE map[a].targets[1] = b
    <3>1. TakeCondition(a, WithBranch(a, map[b].statements, <<>>), d)
      BY <2>1, <2>2
    <3>2. QED
      BY <2>2, <3>1, TakenEntry DEF Branched, WithBranch
  <2>3. CASE map[a].targets[1] # b
    <3>1. TakeCondition(a, WithBranch(a, <<>>, map[b].statements), d)
      BY <2>1, <2>3
    <3>2. QED
      BY <2>3, <3>1, TakenEntry DEF Branched, WithBranch
  <2>4. QED
    BY <2>2, <2>3
<1>5. OneArm(Live, a, b, d, {b}, map'[a])
  BY <1>2, <1>4, LiveFacts DEF OneArm
<1>6. QED
  BY <1>1, <1>3, <1>5, ContractedLive DEF Rule, Forward

LEMMA WhileRewrites ==
  ASSUME Invariant, NEW a \in cfg.nodes, NEW b \in cfg.succ[a],
         NEW exit \in cfg.succ[a], ReduceWhile(a, b, exit), map[a].condition # NoCond
  PROVE  Rewrites(Live, Live')
<1>1. Contracts(a, {b}) /\ WhileAt(a, b, exit)
  BY WhileContracts DEF ReduceWhile
<1>2. /\ b # exit /\ cfg.succ[a] = {b, exit} /\ InDegreeOne(b) /\ cfg.succ[b] = {a}
      /\ b \in cfg.nodes
  BY <1>1, LiveFacts DEF WhileAt
<1>3. OnlyFrom(Live, a, {b})
  BY <1>2, LiveOnlyFrom DEF OnlyFrom
<1>4. map'[a] = Looped(map[a], b, map[b].statements \o map[a].statements, exit)
  <2>1. TakeCondition(a, Append(map[a].statements, LoopOn(a, b, WhileBody(a, b))), exit)
    BY DEF ReduceWhile
  <2>2. QED
    BY <2>1, TakenEntry DEF Looped, LoopOn, WhileBody
<1>5. HeadLoop(Live, a, b, exit, {b}, map'[a])
  BY <1>2, <1>4, LiveFacts DEF HeadLoop
<1>6. QED
  BY <1>1, <1>3, <1>5, ContractedLive DEF Rule

\* The short-circuit rule is an if with nothing in it and then a merge.
LEMMA ShortCircuitRewrites ==
  ASSUME Invariant, Sound(Live), NEW a \in cfg.nodes, NEW b \in cfg.succ[a],
         NEW c \in cfg.succ[a], ReduceShortCircuit(a, b, c), a # c
  PROVE  \E t : Rewrites(Live, t) /\ Rewrites(t, Live')
<1>1. Contracts(a, {b, c}) /\ ShortCircuitAt(a, b, c)
  BY ShortCircuitContracts DEF ReduceShortCircuit
<1>2. /\ b # c /\ cfg.succ[a] = {b, c} /\ InDegreeOne(b) /\ cfg.succ[b] = {c}
      /\ cfg.pred[c] = {a, b} /\ map[b].statements = <<>>
      /\ b \in cfg.nodes /\ c \in cfg.nodes /\ a # b
  BY <1>1, LiveFacts DEF ShortCircuitAt, Contracts, GraphContracts
<1>3. /\ DOMAIN Live = cfg.nodes
      /\ \A n \in cfg.nodes : Live[n] = map[n] /\ Targets(Live, n) = cfg.succ[n]
  BY LiveFacts
<1>4. /\ \A n \in cfg.nodes : b \in cfg.succ[n] => n = a
      /\ \A n \in cfg.nodes : c \in cfg.succ[n] => n = a \/ n = b
  <2>1. /\ c \in Name /\ cfg.nodes \subseteq Name
        /\ \A n \in Name : c \in cfg.succ[n] <=> n \in cfg.pred[c]
    BY <1>2, LiveFacts DEF Invariant, GraphInSync, IndexesConverse
  <2>2. \A n \in cfg.nodes : b \in cfg.succ[n] => n = a
    BY <1>2, <1>3, LiveOnlyFrom
  <2>3. QED
    BY <1>2, <2>1, <2>2
<1>5. PICK e : e = MapEntry(map[a].statements, NoCond, <<c>>)
  OBVIOUS
<1>6. PICK t : t = After(Live, a, {b}, e)
  OBVIOUS
<1>7. Applies(Live, a, {b}, e)
  <2>1. \A x : Branched(map[a], <<>>, <<>>, x) = MapEntry(map[a].statements, NoCond, <<x>>)
    BY DEF Branched
  <2>2. OneArm(Live, a, b, c, {b}, e)
    BY <1>2, <1>3, <1>5, <2>1 DEF OneArm
  <2>3. OnlyFrom(Live, a, {b})
    BY <1>3, <1>4 DEF OnlyFrom
  <2>4. QED
    BY <1>2, <1>3, <2>2, <2>3 DEF Applies, Rule, Forward
<1>8. /\ DOMAIN t = cfg.nodes \ {b} /\ t[a] = e /\ Targets(t, a) = {c}
      /\ \A n \in cfg.nodes \ {a, b} : t[n] = map[n] /\ Targets(t, n) = cfg.succ[n]
  <2>1. IsAfter(Live, a, {b}, e, t)
    BY <1>2, <1>3, <1>6, AfterFacts
  <2>2. Listed(e.targets) = {c}
    BY <1>5, ListedSingle DEF MapEntry
  <2>3. QED
    BY <1>2, <1>3, <2>1, <2>2 DEF IsAfter
<1>9. map'[a] = Prefix(e.statements, map[c])
  <2>1. PICK B, stmts : B = {b, c} /\ stmts = map[b].statements \o map[c].statements
    OBVIOUS
  <2>a. Absorb(a, B, stmts, c) /\ a \notin B
    BY <1>2, <2>1 DEF ReduceShortCircuit
  <2>2. map'[a] = MapEntry(map[a].statements \o stmts, map[c].condition, map[c].targets)
    BY <2>a, AbsorbedEntry
  <2>3. IsSeq(map[c].statements) /\ IsSeq(map[b].statements)
    BY <1>2, <1>3 DEF Sound, Closed
  <2>4. map[b].statements \o map[c].statements = map[c].statements
    BY <1>2, <2>3, SeqFacts
  <2>5. e.statements = map[a].statements
    BY <1>5 DEF MapEntry
  <2>6. QED
    BY <2>1, <2>2, <2>4, <2>5 DEF Prefix
<1>10. Applies(t, a, {c}, map'[a])
  <2>1. Merge(t, a, c, {c}, map'[a])
    BY <1>2, <1>8, <1>9 DEF Merge
  <2>2. OnlyFrom(t, a, {c})
    BY <1>4, <1>8 DEF OnlyFrom
  <2>3. QED
    BY <1>1, <1>2, <1>8, <2>1, <2>2 DEF Applies, Rule, Forward
<1>11. Live' = After(t, a, {c}, map'[a])
  <2>1. /\ Live' = [n \in cfg'.nodes |-> map'[n]] /\ cfg'.nodes = cfg.nodes \ {b, c}
        /\ \A n \in cfg'.nodes \ {a} : map'[n] = map[n]
    BY <1>1 DEF Live, Contracts, GraphContracts, MapFollows
  <2>2. DOMAIN t \ {c} = cfg'.nodes
    BY <1>8, <2>1
  <2>3. \A n \in cfg'.nodes : n # a => t[n] = map'[n]
    BY <1>8, <2>1
  <2>4. QED
    BY <2>1, <2>2, <2>3 DEF After
<1>12. QED
  BY <1>6, <1>7, <1>10, <1>11 DEF Rewrites

\* Where lower_cfg finds no rule to apply there is none.
LEMMA NoMatchIsFinal ==
  ASSUME Invariant, NoRuleMatches
  PROVE  Final(Live)
<1>1. /\ DOMAIN Live = cfg.nodes
      /\ \A n \in cfg.nodes : /\ Targets(Live, n) = cfg.succ[n]
                              /\ cfg.succ[n] \subseteq cfg.nodes
  BY LiveFacts
<1>2. ASSUME NEW a \in cfg.nodes, NEW X, OnlyFrom(Live, a, X), NEW b \in X,
             b \in cfg.succ[a]
      PROVE  InDegreeOne(b)
  BY <1>2, LiveOnlyFrom DEF OnlyFrom
<1>3. ASSUME NEW a \in cfg.nodes, NEW X, NEW e, OnlyFrom(Live, a, X),
             Rule(Live, a, X, e)
      PROVE  FALSE
  <2>1. ASSUME NEW b, Merge(Live, a, b, X, e) PROVE FALSE
    <3>1. cfg.succ[a] = {b} /\ InDegreeOne(b)
      BY <1>1, <1>2, <1>3, <2>1 DEF Merge
    <3>2. QED
      BY <3>1 DEF NoRuleMatches, SequentialMatches, SequentialAt
  <2>2. ASSUME NEW exit, SelfLoop(Live, a, exit, X, e) PROVE FALSE
    <3>1. exit # a /\ cfg.succ[a] = {a, exit}
      BY <1>1, <2>2 DEF SelfLoop
    <3>2. QED
      BY <3>1 DEF NoRuleMatches, SelfLoopMatches, SelfLoopAt
  <2>3. ASSUME NEW b, NEW c, NEW d, TwoArms(Live, a, b, c, d, X, e) PROVE FALSE
    <3>1. cfg.succ[a] = {b, c} /\ X = {b, c} /\ b # c
      BY <1>1, <2>3 DEF TwoArms
    <3>2. InDegreeOne(b) /\ InDegreeOne(c) /\ b \in cfg.nodes /\ c \in cfg.nodes
      BY <1>1, <1>2, <1>3, <3>1
    <3>3. cfg.succ[b] = {d} /\ cfg.succ[c] = {d}
      BY <1>1, <2>3, <3>2 DEF TwoArms
    <3>4. QED
      BY <3>1, <3>2, <3>3 DEF NoRuleMatches, IfElseMatches, IfElseAt
  <2>4. ASSUME NEW b, NEW d, OneArm(Live, a, b, d, X, e) PROVE FALSE
    <3>1. cfg.succ[a] = {b, d} /\ X = {b} /\ b # d
      BY <1>1, <2>4 DEF OneArm
    <3>2. InDegreeOne(b) /\ b \in cfg.nodes
      BY <1>1, <1>2, <1>3, <3>1
    <3>3. cfg.succ[b] = {d}
      BY <1>1, <2>4, <3>2 DEF OneArm
    <3>4. QED
      BY <3>1, <3>2, <3>3 DEF NoRuleMatches, IfNoElseMatches, IfNoElseAt
  <2>5. ASSUME NEW b, NEW exit, HeadLoop(Live, a, b, exit, X, e) PROVE FALSE
    <3>1. cfg.succ[a] = {b, exit} /\ X = {b} /\ b # exit
      BY <1>1, <2>5 DEF HeadLoop
    <3>2. InDegreeOne(b) /\ b \in cfg.nodes
      BY <1>1, <1>2, <1>3, <3>1
    <3>3. cfg.succ[b] = {a}
      BY <1>1, <2>5, <3>2 DEF HeadLoop
    <3>4. QED
      BY <3>1, <3>2, <3>3 DEF NoRuleMatches, WhileMatches, WhileAt
  <2>6. QED
    BY <1>3, <2>1, <2>2, <2>3, <2>4, <2>5 DEF Rule, Forward
<1>4. QED
  BY <1>1, <1>3 DEF Final, Rewrites, Applies

\* The graph of a sound input.
LEMMA BuiltSound ==
  ASSUME input \in Inputs, SoundInput
  PROVE  Sound(BuildMap(input))
<1>1. PICK m : m = BuildMap(input)
  OBVIOUS
<1>2. Accepted(input) /\ DOMAIN m = Names(input)
  BY <1>1 DEF SoundInput, BuildMap
<1>3. ASSUME NEW i \in DOMAIN input
      PROVE  /\ input[i].name \in DOMAIN m
             /\ Targets(m, input[i].name) = Listed(input[i].targets)
             /\ IsSeq(m[input[i].name].statements)
  <2>1. /\ m[input[i].name] = InitialEntry(input[i])
        /\ InitialEntry(input[i]).targets = input[i].targets
    BY <1>1, <1>2, BuiltBlock
  <2>2. InitialEntry(input[i]).statements
          = IF input[i].code THEN <<Code(input[i].name)>> ELSE <<>>
    BY DEF InitialEntry, MapEntry
  <2>3. IsSeq(<<>>) /\ IsSeq(<<Code(input[i].name)>>)
    <3>1. <<>> \in Seq({Code(input[i].name)})
          /\ <<Code(input[i].name)>> \in Seq({Code(input[i].name)})
      OBVIOUS
    <3>2. QED
      BY <3>1 DEF IsSeq
  <2>4. IsSeq(m[input[i].name].statements)
    BY <2>1, <2>2, <2>3
  <2>5. QED
    BY <1>2, <2>1, <2>4 DEF Names, Targets
<1>4. ASSUME NEW n \in DOMAIN m PROVE \E i \in DOMAIN input : input[i].name = n
  BY <1>2 DEF Names
<1>5. Closed(m)
  <2>1. \A i \in DOMAIN input : Listed(input[i].targets) \subseteq DOMAIN m
    BY <1>2 DEF Accepted, TargetsKnown
  <2>2. QED
    BY <1>3, <1>4, <2>1 DEF Closed
<1>6. EntryFree(m)
  <2>1. Entry \in DOMAIN m
    BY <1>2 DEF Accepted
  <2>2. \A i \in DOMAIN input : Entry \notin Listed(input[i].targets)
    BY DEF SoundInput
  <2>3. QED
    BY <1>3, <1>4, <2>1, <2>2 DEF EntryFree
<1>7. AllEntered(m)
  <2> SUFFICES ASSUME NEW S \in SUBSET (DOMAIN m \ {Entry}), S # {}
               PROVE  Entered(m, S)
    BY DEF AllEntered
  <2>1. PICK i \in DOMAIN input : /\ input[i].name \notin S
                                 /\ Listed(input[i].targets) \cap S # {}
    BY <1>2 DEF SoundInput
  <2>2. QED
    BY <1>3, <2>1 DEF Entered
<1>8. QED
  BY <1>1, <1>5, <1>6, <1>7 DEF Sound

-----------------------------------------------------------------------------
(* What lower_cfg returns.                                                 *)

\* A step of the loop rewrites what is left, or ends the call.
LEMMA LoopStep ==
  ASSUME Invariant, EntryReachesAll, Sound(Live), status = "reducing", Next
  PROVE  \/ /\ status' = "reducing" /\ UNCHANGED <<input, body>>
            /\ Rewrites(Live, Live') \/ \E t : Rewrites(Live, t) /\ Rewrites(t, Live')
         \/ Succeed
         \/ RejectIrreducible
<1>1. ~SelfMatch
  BY ReachableHasNoSelfMatch
<1>2. ASSUME NEW a, NEW B, Contracts(a, B)
      PROVE  status' = "reducing" /\ UNCHANGED <<input, body>>
  BY <1>2 DEF Contracts
<1>3. ASSUME NEW a \in cfg.nodes, NEW b \in cfg.succ[a], NEW c \in cfg.succ[a],
             ReduceShortCircuit(a, b, c)
      PROVE  /\ status' = "reducing" /\ UNCHANGED <<input, body>>
             /\ \E t : Rewrites(Live, t) /\ Rewrites(t, Live')
  <2>1. a # c
    BY <1>1, <1>3 DEF SelfMatch, ReduceShortCircuit
  <2>2. QED
    BY <1>2, <1>3, <2>1, ShortCircuitContracts, ShortCircuitRewrites
<1>4. ASSUME NEW a \in cfg.nodes, NEW b \in cfg.succ[a], ReduceSequential(a, b)
      PROVE  status' = "reducing" /\ UNCHANGED <<input, body>> /\ Rewrites(Live, Live')
  <2>1. a # b
    BY <1>1, <1>4 DEF SelfMatch, ReduceSequential
  <2>2. QED
    BY <1>2, <1>4, <2>1, SequentialContracts, SequentialRewrites
<1>5. ASSUME NEW a \in cfg.nodes, NEW exit \in cfg.succ[a], ReduceSelfLoop(a, exit)
      PROVE  status' = "reducing" /\ UNCHANGED <<input, body>> /\ Rewrites(Live, Live')
  <2>1. map[a].condition # NoCond
    BY <1>5, TwoSuccessors DEF ReduceSelfLoop, SelfLoopAt
  <2>2. QED
    BY <1>2, <1>5, <2>1, SelfLoopContracts, SelfLoopRewrites
<1>6. ASSUME NEW a \in cfg.nodes, NEW b \in cfg.succ[a], NEW c \in cfg.succ[a],
             NEW d \in cfg.succ[b], ReduceIfElse(a, b, c, d)
      PROVE  status' = "reducing" /\ UNCHANGED <<input, body>> /\ Rewrites(Live, Live')
  <2>1. map[a].condition # NoCond
    BY <1>6, TwoSuccessors DEF ReduceIfElse, IfElseAt
  <2>2. QED
    BY <1>2, <1>6, <2>1, IfElseContracts, IfElseRewrites
<1>7. ASSUME NEW a \in cfg.nodes, NEW b \in cfg.succ[a], NEW d \in cfg.succ[a],
             ReduceIfNoElse(a, b, d)
      PROVE  status' = "reducing" /\ UNCHANGED <<input, body>> /\ Rewrites(Live, Live')
  <2>1. map[a].condition # NoCond
    BY <1>7, TwoSuccessors DEF ReduceIfNoElse, IfNoElseAt
  <2>2. QED
    BY <1>2, <1>7, <2>1, IfNoElseContracts, IfNoElseRewrites
<1>8. ASSUME NEW a \in cfg.nodes, NEW b \in cfg.succ[a], NEW exit \in cfg.succ[a],
             ReduceWhile(a, b, exit)
      PROVE  status' = "reducing" /\ UNCHANGED <<input, body>> /\ Rewrites(Live, Live')
  <2>1. map[a].condition # NoCond
    BY <1>8, TwoSuccessors DEF ReduceWhile, WhileAt
  <2>2. QED
    BY <1>2, <1>8, <2>1, WhileContracts, WhileRewrites
<1>9. ~ReturnEmpty /\ ~RejectInput /\ ~BuildGraph
  BY DEF ReturnEmpty, RejectInput, BuildGraph
<1>10. QED
  BY <1>3, <1>4, <1>5, <1>6, <1>7, <1>8, <1>9 DEF Next

\* What is left has been rewritten from the graph of the input; when the call ends,
\* no rule applies to it and it says what is returned.
Ended ==
  /\ Run(BuildMap(input), Live) /\ Final(Live)
  /\ status = "reduced" <=> DOMAIN Live = {Entry}
  /\ body = IF status = "reduced" THEN Live[Entry].statements ELSE <<>>

Reached ==
  SoundInput =>
    /\ status \in {"received", "reducing"} => body = <<>>
    /\ status = "reducing" => Run(BuildMap(input), Live)
    /\ status \in {"reduced", "rejected"} => Ended

\* No step writes the argument.
LEMMA NextKeepsInput == Invariant /\ Next => input' = input
BY NextCases DEF BuildGraph, Contracts, Panic

\* Every step, and every stutter, goes on along the rewrites or stops at their end.
LEMMA ReachedStep == Invariant /\ ReachabilityKept /\ Reached /\ [Next]_vars => Reached'
<1> SUFFICES ASSUME Invariant, ReachabilityKept, Reached, [Next]_vars, SoundInput'
             PROVE  /\ status' \in {"received", "reducing"} => body' = <<>>
                    /\ status' = "reducing" => Run(BuildMap(input)', Live')
                    /\ status' \in {"reduced", "rejected"} => Ended'
  BY DEF Reached
<1>1. CASE UNCHANGED vars
  <2>1. input' = input /\ Live' = Live /\ status' = status /\ body' = body
    BY <1>1 DEF vars, Live
  <2>2. SoundInput
    BY <2>1, SoundInputStable
  <2>3. BuildMap(input)' = BuildMap(input)
    BY <2>1
  <2>4. QED
    BY <2>1, <2>2, <2>3 DEF Reached, Ended
<1>2. CASE Next /\ input' = input
  <2>1. SoundInput /\ Accepted(input)
    BY <1>2, SoundInputStable DEF SoundInput
  <2>2. Sound(BuildMap(input)) /\ BuildMap(input)' = BuildMap(input)
    BY <1>2, <2>1, BuiltSound DEF Invariant
  <2>3. CASE status = "reducing"
    <3>1. EntryReachesAll /\ Run(BuildMap(input), Live) /\ body = <<>>
      BY <2>1, <2>3 DEF ReachabilityKept, Reached
    <3>2. Sound(Live)
      BY <2>2, <3>1, RunKeeps
    <3>3. CASE Succeed
      <4>1. Live' = Live /\ DOMAIN Live = {Entry} /\ Live[Entry] = map[Entry]
        BY <3>3 DEF Succeed, Live
      <4>2. Final(Live)
        BY <3>3, NoMatchIsFinal DEF Succeed
      <4>3. QED
        BY <2>2, <3>1, <3>3, <4>1, <4>2 DEF Succeed, Ended
    <3>4. CASE RejectIrreducible
      <4>1. Live' = Live /\ DOMAIN Live # {Entry}
        BY <3>4 DEF RejectIrreducible, Live
      <4>2. Final(Live)
        BY <3>4, NoMatchIsFinal DEF RejectIrreducible
      <4>3. QED
        BY <2>2, <3>1, <3>4, <4>1, <4>2 DEF RejectIrreducible, Ended
    <3>5. CASE /\ status' = "reducing" /\ UNCHANGED <<input, body>>
               /\ Rewrites(Live, Live') \/ \E t : Rewrites(Live, t) /\ Rewrites(t, Live')
      <4>1. Run(BuildMap(input), Live')
        <5>1. CASE Rewrites(Live, Live')
          BY <3>1, <5>1, LongerRun
        <5>2. CASE \E t : Rewrites(Live, t) /\ Rewrites(t, Live')
          <6>1. PICK t : Rewrites(Live, t) /\ Rewrites(t, Live')
            BY <5>2
          <6>2. Run(BuildMap(input), t)
            BY <3>1, <6>1, LongerRun
          <6>3. QED
            BY <6>1, <6>2, LongerRun
        <5>3. QED
          BY <3>5, <5>1, <5>2
      <4>2. QED
        BY <2>2, <3>1, <3>5, <4>1
    <3>6. QED
      BY <1>2, <2>3, <3>1, <3>2, <3>3, <3>4, <3>5, LoopStep
  <2>4. CASE BuildGraph
    <3>1. cfg'.nodes = DOMAIN BuildMap(input) /\ map' = BuildMap(input)
      BY <2>4 DEF BuildGraph, BuildCfg
    <3>2. BuildMap(input) = [n \in DOMAIN BuildMap(input) |-> BuildMap(input)[n]]
      BY DEF BuildMap
    <3>3. Live' = BuildMap(input)
      BY <3>1, <3>2 DEF Live
    <3>4. Run(BuildMap(input), Live')
      BY <3>3, EmptyRun
    <3>5. status' = "reducing" /\ body' = <<>>
      BY <2>1, <2>4 DEF BuildGraph, Reached
    <3>6. QED
      BY <2>2, <3>4, <3>5
  <2>5. CASE status # "reducing" /\ ~BuildGraph
    <3>1. input # <<>>
      BY <2>1 DEF Accepted, Names
    <3>2. ~ReturnEmpty /\ ~RejectInput
      BY <2>1, <3>1 DEF ReturnEmpty, RejectInput
    <3>3. FALSE
      BY <1>2, <2>5, <3>2 DEF Next, ReduceShortCircuit, ReduceSequential, ReduceSelfLoop,
         ReduceIfElse, ReduceIfNoElse, ReduceWhile, Succeed, RejectIrreducible
    <3>4. QED
      BY <3>3
  <2>6. QED
    BY <2>3, <2>4, <2>5
<1>3. [Next]_vars => (Next /\ input' = input) \/ UNCHANGED vars
  BY NextKeepsInput
<1>4. QED
  BY <1>1, <1>2, <1>3

\* Whatever the hash order, the statements returned for a sound input are those of a
\* graph that its blocks rewrite to and that no rule rewrites further.
THEOREM ResultIsReached == Spec => []Reached
<1>1. Init => Reached
  BY DEF Init, Reached
<1>2. QED
  BY <1>1, ReachedStep, InvariantHolds, ReachabilityStaysKept, PTL DEF Spec
=============================================================================
