-------------------------- MODULE CfgDeterminismProofs --------------------------
(***************************************************************************)
(* For every set of block names and every list of block lowerings whose      *)
(* blocks the entry all reaches: the hash seed does not show in the result.  *)
(* Each process ends where its rewrites of the one graph of the input come   *)
(* to a stop (CfgConfluenceProofs), and they all stop at the same place.     *)
(***************************************************************************)
EXTENDS CfgDeterminism, TLAPS

-----------------------------------------------------------------------------
(* The two processes take the same rewrites.                               *)

LEMMA SameRules ==
  ASSUME NEW m, NEW t
  PROVE  First!Rewrites(m, t) <=> Second!Rewrites(m, t)
BY DEF First!Rewrites, First!Applies, First!OnlyFrom, First!Rule, First!Forward,
  First!Merge, First!SelfLoop, First!TwoArms, First!OneArm, First!HeadLoop,
  First!After, First!Targets, First!Prefix, First!Branched, First!Looped,
  First!MapEntry, First!If, First!While, First!Listed,
  Second!Rewrites, Second!Applies, Second!OnlyFrom, Second!Rule, Second!Forward,
  Second!Merge, Second!SelfLoop, Second!TwoArms, Second!OneArm, Second!HeadLoop,
  Second!After, Second!Targets, Second!Prefix, Second!Branched, Second!Looped,
  Second!MapEntry, Second!If, Second!While, Second!Listed

\* So they have the same runs and stop at the same graphs,
LEMMA SameRuns ==
  ASSUME NEW s, NEW t
  PROVE  /\ First!Run(s, t) <=> Second!Run(s, t)
         /\ First!Final(s) <=> Second!Final(s)
BY SameRules DEF First!Run, First!Leads, First!Final,
                 Second!Run, Second!Leads, Second!Final

\* and start from the same one.
LEMMA SameInput ==
  /\ First!SoundInput <=> Second!SoundInput
  /\ First!BuildMap(input) = Second!BuildMap(input)
BY DEF First!SoundInput, First!Accepted, First!Unique, First!Names, First!TargetsKnown,
  First!Listed, First!BuildMap, First!InitialEntry, First!MapEntry, First!Code,
  First!BlockNamed,
  Second!SoundInput, Second!Accepted, Second!Unique, Second!Names, Second!TargetsKnown,
  Second!Listed, Second!BuildMap, Second!InitialEntry, Second!MapEntry, Second!Code,
  Second!BlockNamed

-----------------------------------------------------------------------------
(* What each process keeps, whatever the other does.                       *)

FirstOK ==
  /\ First!Invariant /\ First!ReachabilityKept
  /\ First!NoPanicOnSoundInput /\ First!Reached

SecondOK ==
  /\ Second!Invariant /\ Second!ReachabilityKept
  /\ Second!NoPanicOnSoundInput /\ Second!Reached

LEMMA FirstSteps == ASSUME FirstOK, [First!Next]_(First!vars) PROVE FirstOK'
<1>1. First!Invariant'
  BY TwiceAssumption, First!StepInvariant DEF FirstOK
<1>2. First!ReachabilityKept'
  BY TwiceAssumption, First!ReachabilityStep DEF FirstOK
<1>3. First!NoPanicOnSoundInput'
  BY TwiceAssumption, First!NoPanicStep DEF FirstOK
<1>4. First!Reached'
  BY TwiceAssumption, First!ReachedStep DEF FirstOK
<1>5. QED
  BY <1>1, <1>2, <1>3, <1>4 DEF FirstOK

LEMMA SecondSteps == ASSUME SecondOK, [Second!Next]_(Second!vars) PROVE SecondOK'
<1> USE TwiceAssumption DEF First!BlockLowering, First!WellFormedBlock,
                            Second!BlockLowering, Second!WellFormedBlock
<1>1. Second!Invariant'
  BY Second!StepInvariant DEF SecondOK
<1>2. Second!ReachabilityKept'
  BY Second!ReachabilityStep DEF SecondOK
<1>3. Second!NoPanicOnSoundInput'
  BY Second!NoPanicStep DEF SecondOK
<1>4. Second!Reached'
  BY Second!ReachedStep DEF SecondOK
<1>5. QED
  BY <1>1, <1>2, <1>3, <1>4 DEF SecondOK

LEMMA TwiceStarts == TwiceInit => FirstOK /\ SecondOK
<1> SUFFICES ASSUME TwiceInit PROVE FirstOK /\ SecondOK
  OBVIOUS
<1>1. First!Init
  BY DEF TwiceInit
<1>2. Second!Init
  BY DEF TwiceInit, First!Init, Second!Init
<1>3. FirstOK
  <2>1. First!Invariant
    BY <1>1, TwiceAssumption, First!InitInvariant
  <2>2. First!ReachabilityKept /\ First!NoPanicOnSoundInput /\ First!Reached
    BY <1>1 DEF First!Init, First!ReachabilityKept, First!NoPanicOnSoundInput, First!Reached
  <2>3. QED
    BY <2>1, <2>2 DEF FirstOK
<1>4. SecondOK
  <2>1. Second!Invariant
    BY <1>2, TwiceAssumption, Second!InitInvariant
       DEF First!BlockLowering, First!WellFormedBlock,
           Second!BlockLowering, Second!WellFormedBlock
  <2>2. Second!ReachabilityKept /\ Second!NoPanicOnSoundInput /\ Second!Reached
    BY <1>2 DEF Second!Init, Second!ReachabilityKept, Second!NoPanicOnSoundInput,
                Second!Reached
  <2>3. QED
    BY <2>1, <2>2 DEF SecondOK
<1>5. QED
  BY <1>3, <1>4

\* A step of one process is a stutter of the other: the input they share stays.
LEMMA TwiceSteps ==
  FirstOK /\ SecondOK /\ [TwiceNext]_<<input, vars1, vars2>> => FirstOK' /\ SecondOK'
<1> SUFFICES ASSUME FirstOK, SecondOK, [TwiceNext]_<<input, vars1, vars2>>
             PROVE  FirstOK' /\ SecondOK'
  OBVIOUS
<1>1. CASE First!Next /\ UNCHANGED vars2
  <2>1. input' = input
    BY <1>1, TwiceAssumption, First!NextKeepsInput DEF FirstOK
  <2>2. [Second!Next]_(Second!vars)
    BY <1>1, <2>1 DEF vars2, Second!vars
  <2>3. QED
    BY <1>1, <2>2, FirstSteps, SecondSteps
<1>2. CASE Second!Next /\ UNCHANGED vars1
  <2>1. input' = input
    BY <1>2, TwiceAssumption, Second!NextKeepsInput
       DEF SecondOK, First!BlockLowering, First!WellFormedBlock,
           Second!BlockLowering, Second!WellFormedBlock
  <2>2. [First!Next]_(First!vars)
    BY <1>2, <2>1 DEF vars1, First!vars
  <2>3. QED
    BY <1>2, <2>2, FirstSteps, SecondSteps
<1>3. CASE UNCHANGED <<input, vars1, vars2>>
  <2>1. UNCHANGED First!vars /\ UNCHANGED Second!vars
    BY <1>3 DEF vars1, vars2, First!vars, Second!vars
  <2>2. QED
    BY <2>1, FirstSteps, SecondSteps
<1>4. QED
  BY <1>1, <1>2, <1>3 DEF TwiceNext

-----------------------------------------------------------------------------
(* Two processes that have returned have returned the same.                *)

LEMMA SameResult ==
  ASSUME FirstOK, SecondOK, First!SoundInput, Returned(status1), Returned(status2)
  PROVE  status1 = status2 /\ body1 = body2
<1>1. status1 \in {"reduced", "rejected"} /\ status2 \in {"reduced", "rejected"}
  BY SameInput DEF FirstOK, SecondOK, First!NoPanicOnSoundInput,
                   Second!NoPanicOnSoundInput, Returned
<1>2. First!Ended /\ Second!Ended
  BY <1>1, SameInput DEF FirstOK, SecondOK, First!Reached, Second!Reached
<1>3. PICK s, t, u : s = First!BuildMap(input) /\ t = First!Live /\ u = Second!Live
  OBVIOUS
<1>4. /\ First!Run(s, t) /\ First!Final(t)
      /\ status1 = "reduced" <=> DOMAIN t = {Entry}
      /\ body1 = IF status1 = "reduced" THEN t[Entry].statements ELSE <<>>
  BY <1>2, <1>3 DEF First!Ended
<1>5. /\ Second!Run(s, u) /\ Second!Final(u)
      /\ status2 = "reduced" <=> DOMAIN u = {Entry}
      /\ body2 = IF status2 = "reduced" THEN u[Entry].statements ELSE <<>>
  BY <1>2, <1>3, SameInput DEF Second!Ended
<1>6. First!Run(s, u) /\ First!Final(u)
  BY <1>5, SameRuns
<1>7. First!Sound(s)
  <2>1. input \in Inputs
    BY DEF FirstOK, First!Invariant, First!TypeOK
  <2>2. QED
    BY <1>3, <2>1, TwiceAssumption, First!BuiltSound
<1>8. /\ DOMAIN t = {Entry} <=> DOMAIN u = {Entry}
      /\ DOMAIN t = {Entry} => t = u
  BY <1>4, <1>6, <1>7, TwiceAssumption, First!OneResult
<1>9. QED
  BY <1>1, <1>4, <1>5, <1>8

\* Two processes with different hash seeds, given a list of blocks the entry all
\* reaches, both accept it with the same statements or both refuse it.
THEOREM SeedNeverShows == TwiceSpec => [](First!SoundInput => SeedIndependent)
<1>1. FirstOK /\ SecondOK => (First!SoundInput => SeedIndependent)
  BY SameResult DEF SeedIndependent
<1>2. QED
  BY <1>1, TwiceStarts, TwiceSteps, PTL DEF TwiceSpec
=============================================================================
