---------------------------- MODULE PipelineProofs ----------------------------
(***************************************************************************)
(* For every set of parsed modules: build_program hands lower_cfg only lists *)
(* of blocks it is made for, so what is proved of the reducer holds of what  *)
(* the walk gives it.                                                       *)
(***************************************************************************)
EXTENDS Pipeline, TranslatorProofs

-----------------------------------------------------------------------------
(* What lower_cfg is assumed to be called with.                            *)

LEMMA ReducerAssumptions ==
  /\ Entry \in Name /\ NoCond \notin Name
  /\ \A blocks \in BlockLists :
       /\ blocks \in Seq(LowerCfg!BlockLowering)
       /\ \A i \in DOMAIN blocks : LowerCfg!WellFormedBlock(blocks[i])
<1>1. Entry \in Name /\ NoCond \notin Name
  BY NamesAssumption
<1>2. ASSUME NEW blocks \in BlockLists
      PROVE  /\ blocks \in Seq(LowerCfg!BlockLowering)
             /\ \A i \in DOMAIN blocks : LowerCfg!WellFormedBlock(blocks[i])
  <2>1. blocks \in Seq(LowerCfg!BlockLowering)
    BY DEF BlockLists, LowerCfg!BlockLowering
  <2>2. \A i \in DOMAIN blocks : /\ Len(blocks[i].targets) <= 2
                                 /\ blocks[i].cond = "none" <=> Len(blocks[i].targets) # 2
    BY DEF BlockLists
  <2> QED
    BY <2>1, <2>2 DEF LowerCfg!WellFormedBlock
<1> QED
  BY <1>1, <1>2

LEMMA ReducerStarts == LowerCfg!Init => LowerCfg!Invariant
BY ReducerAssumptions, LowerCfg!InitInvariant

ReducerOK ==
  LowerCfg!Invariant /\ LowerCfg!ReachabilityKept /\ LowerCfg!NoPanicOnSoundInput

LEMMA ReducerSteps ==
  ASSUME ReducerOK, [LowerCfg!Next]_cfgVars PROVE ReducerOK'
<1>1. [LowerCfg!Next]_(LowerCfg!vars)
  BY DEF LowerCfg!vars, cfgVars
<1>2. LowerCfg!Invariant'
  BY <1>1, ReducerAssumptions, LowerCfg!StepInvariant DEF ReducerOK
<1>3. LowerCfg!ReachabilityKept'
  BY <1>1, ReducerAssumptions, LowerCfg!ReachabilityStep DEF ReducerOK
<1>4. LowerCfg!NoPanicOnSoundInput'
  BY <1>1, ReducerAssumptions, LowerCfg!NoPanicStep DEF ReducerOK
<1> QED
  BY <1>2, <1>3, <1>4 DEF ReducerOK

-----------------------------------------------------------------------------
(* The inductive invariant.                                                *)

NamesKnown ==
  \A j \in DOMAIN lowerings :
    lowerings[j].name \in Name /\ lowerings[j].targets \in Seq(Name)

\* When lower_cfg is under way, and what it finds when it is called.
InTurn ==
  /\ status = "lowering" => reduction = "idle"
  /\ status = "reducing" => reduction # "idle"
  /\ reduction = "idle" => cfg = LowerCfg!EmptyCfg /\ map = <<>> /\ body = <<>>

PipeInv == IInv /\ NamesKnown /\ InTurn /\ (reduction # "idle" => ReducerOK)

\* The calls of build_program are steps of the walk, or leave it alone.
LEMMA WalkSteps == ASSUME [PipeNext]_<<vars, cfgVars>> PROVE [Next]_vars
BY DEF PipeNext, Walk, CallLowerCfg, Reduce, ReturnError, ReturnBody, Next

-----------------------------------------------------------------------------
(* The walk names blocks and targets of the module.                        *)

LEMMA InstsKnown ==
  ASSUME IInv, BlocksLeft
  PROVE  /\ CurrentName \in Name
         /\ \A k \in DOMAIN Insts :
              /\ Insts[k].kind = "br" => Insts[k].target \in Name
              /\ Insts[k].kind = "brcond" => Insts[k].targets \in Seq(Name)
         /\ DOMAIN Insts = 1..Len(Insts) /\ pc \in Nat /\ pc >= 1
<1>1. module \in Modules /\ IsSeq(module.blocks) /\ Current \in DOMAIN module.blocks
  <2>1. module \in Modules /\ IsSeq(module.blocks)
    BY ModulesAssumption DEF IInv, Position, ParsedModule
  <2>2. Current \in 1..Len(module.blocks)
    BY DEF IInv, Position, BlocksLeft, Current
  <2> QED
    BY <2>1, <2>2 DEF IsSeq
<1>2. CurrentName = NameOf(module, Current)
  BY DEF CurrentName, CanonicalName, NameOf
<1>3. IsSeq(Insts)
  BY <1>1, ModulesAssumption DEF ParsedModule, Insts
<1>4. DOMAIN Insts = 1..Len(Insts) /\ Len(Insts) \in Nat
  BY <1>3 DEF IsSeq
<1>5. pc \in Nat /\ pc >= 1
  BY <1>4 DEF IInv, Position
<1> QED
  BY <1>1, <1>2, <1>4, <1>5, NamesAssumption DEF Insts

LEMMA FinishedKnown ==
  ASSUME IInv, NamesKnown, BrArm \/ RetArm \/ BrCondArm \/ EndOfBlock
  PROVE  NamesKnown'
<1>1. PICK condition, targets : /\ FinishBlock(condition, targets)
                                /\ BlocksLeft /\ targets \in Seq(Name)
  <2>1. CASE BrArm
    <3>1. Inst.target \in Name
      BY <2>1, InstsKnown DEF BrArm, At, Inst
    <3>2. <<Inst.target>> \in Seq(Name)
      BY <3>1
    <3> QED
      BY <2>1, <3>2, Zenon DEF BrArm, At
  <2>2. CASE RetArm \/ EndOfBlock
    <3>1. FinishBlock({}, <<>>) /\ BlocksLeft
      BY <2>2, Zenon DEF RetArm, EndOfBlock, At
    <3>2. <<>> \in Seq(Name)
      OBVIOUS
    <3> QED
      BY <3>1, <3>2, Zenon
  <2>3. CASE BrCondArm
    <3>1. Inst.targets \in Seq(Name)
      BY <2>3, InstsKnown DEF BrCondArm, At, Inst
    <3> QED
      BY <2>3, <3>1 DEF BrCondArm, At
  <2> QED
    BY <2>1, <2>2, <2>3
<1> DEFINE l == Lowering(CurrentName, statements, condition, targets)
<1>2. lowerings' = Append(lowerings, l)
  BY <1>1 DEF FinishBlock
<1>3. l.name \in Name /\ l.targets \in Seq(Name)
  BY <1>1, InstsKnown DEF Lowering
<1> HIDE DEF l
<1>4. \A j \in DOMAIN lowerings' :
        lowerings'[j] = IF j \in DOMAIN lowerings THEN lowerings[j] ELSE l
  BY <1>2, AppendFacts DEF IInv, LoweringsOK
<1> QED
  BY <1>3, <1>4 DEF NamesKnown

LEMMA MergedKnown ==
  ASSUME IInv, NamesKnown, IfMergeArm PROVE NamesKnown'
<1>1. Grows
  BY StepGrows DEF Next
<1>2. DOMAIN lowerings' = DOMAIN lowerings
  BY DEF IfMergeArm, MergePhi
<1>3. ASSUME NEW j \in DOMAIN lowerings
      PROVE  lowerings'[j].name = lowerings[j].name /\ lowerings'[j].targets = lowerings[j].targets
  <2>1. OnlyAppended(lowerings[j], lowerings'[j])
    BY <1>1 DEF Grows
  <2>2. lowerings[j] = Lowering(lowerings[j].name, lowerings[j].statements,
                                lowerings[j].condition, lowerings[j].targets)
    BY DEF IInv, LoweringsOK, BlockOK
  <2> DEFINE l == lowerings[j]
             new == lowerings'[j]
  <2> HIDE DEF l, new
  <2>3. l = Lowering(l.name, l.statements, l.condition, l.targets) /\ OnlyAppended(l, new)
    BY <2>1, <2>2 DEF l, new
  <2>4. new.name = l.name /\ new.targets = l.targets
    BY <2>3 DEF OnlyAppended, Lowering
  <2> QED
    BY <2>4 DEF l, new
<1> QED
  BY <1>2, <1>3 DEF NamesKnown

LEMMA NamesStayKnown == ASSUME IInv, NamesKnown, [Next]_vars PROVE NamesKnown'
<1>1. CASE UNCHANGED lowerings
  BY <1>1 DEF NamesKnown
<1>2. CASE BrArm \/ RetArm \/ BrCondArm \/ EndOfBlock
  BY <1>2, FinishedKnown
<1>3. CASE IfMergeArm
  BY <1>3, MergedKnown
<1> QED
  BY <1>1, <1>2, <1>3
     DEF Next, vars, CallArm, IcmpArm, BinaryI1Arm, SelectArm, IntArithArm, ZextArm,
         IntToPtrArm, AllocaArm, AliasArm, StoreArm, LoadArm, IgnoredArm, PhiI1Arm,
         LandingPadArm, Bind, RefuseInstruction, HandOver, CfgRefused, RefuseSize,
         SizeRegisters, Stop

-----------------------------------------------------------------------------
(* The hand-over, and the steps of build_program.                          *)

LEMMA HandedAccepted == ASSUME IInv, NamesKnown PROVE Handed \in BlockLists
<1>1. IsSeq(lowerings) /\ DOMAIN lowerings = 1..Len(lowerings) /\ Len(lowerings) \in Nat
  BY DEF IInv, LoweringsOK, IsSeq
<1> DEFINE Blocks == [name : Name, code : BOOLEAN, cond : {"none", "plain", "compound"},
                      targets : Seq(Name)]
<1>2. ASSUME NEW j \in DOMAIN lowerings
      PROVE  /\ Handed[j] \in Blocks
             /\ Len(Handed[j].targets) <= 2
             /\ Handed[j].cond = "none" <=> Len(Handed[j].targets) # 2
  <2> DEFINE l == lowerings[j]
             shapes == {Shape(x) : x \in l.condition}
             c == IF l.condition = {} THEN "none" ELSE CHOOSE s \in shapes : TRUE
  <2>1. Handed[j] = [name |-> l.name, code |-> l.statements # <<>>, cond |-> c,
                     targets |-> l.targets]
    BY DEF Handed
  <2>2. /\ Len(l.targets) <= 2
        /\ l.condition = {} <=> Len(l.targets) # 2
        /\ l.name \in Name /\ l.targets \in Seq(Name)
    BY DEF IInv, LoweringsOK, BlockOK, NamesKnown
  <2>3. shapes \subseteq {"plain", "compound"}
    BY DEF Shape
  <2>4. l.condition # {} => c \in shapes
    OBVIOUS
  <2>5. c \in {"none", "plain", "compound"} /\ (c = "none" <=> l.condition = {})
    <3> HIDE DEF shapes
    <3> QED
      BY <2>3, <2>4
  <2> HIDE DEF l, c, shapes
  <2>6. Handed[j] \in Blocks
    <3> DEFINE b == l.statements # <<>>
    <3>1. b \in BOOLEAN
      OBVIOUS
    <3> HIDE DEF b
    <3>2. Handed[j] = [name |-> l.name, code |-> b, cond |-> c, targets |-> l.targets]
      BY <2>1 DEF b
    <3> QED
      BY <2>2, <2>5, <3>1, <3>2
  <2>7. Handed[j].targets = l.targets /\ Handed[j].cond = c
    BY <2>1
  <2> HIDE DEF Blocks
  <2> QED
    BY <2>2, <2>5, <2>6, <2>7
<1>3. DOMAIN Handed = DOMAIN lowerings
  BY DEF Handed
<1>4. Handed \in Seq(Blocks)
  <2>1. Handed = [j \in 1..Len(lowerings) |-> Handed[j]]
    BY <1>1 DEF Handed
  <2> HIDE DEF Blocks
  <2>2. Handed \in [1..Len(lowerings) -> Blocks]
    BY <1>1, <1>2, <2>1, Zenon
  <2> QED
    BY <1>1, <2>2
<1> QED
  BY <1>2, <1>3, <1>4 DEF BlockLists

LEMMA TurnsKept == ASSUME PipeInv, [PipeNext]_<<vars, cfgVars>> PROVE InTurn'
<1> USE DEF PipeInv
<1>1. CASE Walk
  <2>1. status = "lowering" /\ status' \in {"lowering", "rejected"}
    BY <1>1 DEF Walk, BlocksLeft, Next, CallArm, IcmpArm, BinaryI1Arm, SelectArm,
         IntArithArm, ZextArm, IntToPtrArm, AllocaArm, AliasArm, StoreArm, LoadArm,
         IgnoredArm, PhiI1Arm, LandingPadArm, IfMergeArm, Bind, BrArm, RetArm, BrCondArm,
         EndOfBlock, FinishBlock, RefuseInstruction, HandOver, CfgRefused, RefuseSize,
         SizeRegisters, Stop
  <2> QED
    BY <1>1, <2>1 DEF Walk, cfgVars, InTurn, LowerCfg!EmptyCfg
<1>2. CASE CallLowerCfg
  BY <1>2 DEF CallLowerCfg, HandOver, Stop, InTurn
<1>3. CASE Reduce
  <2>1. status' = "reducing" /\ reduction # "idle"
    BY <1>3 DEF Reduce, vars, InTurn
  <2>2. LowerCfg!Invariant /\ LowerCfg!Next
    BY <1>3, <2>1 DEF Reduce, PipeInv, ReducerOK
  <2>3. reduction' # "idle"
    BY <2>2, ReducerAssumptions, LowerCfg!NextCases
       DEF LowerCfg!BuildGraph, LowerCfg!Contracts, LowerCfg!Panic
  <2> QED
    BY <2>1, <2>3 DEF InTurn
<1>4. CASE ReturnError \/ ReturnBody
  <2>1. status' \in {"rejected", "translated"} /\ reduction' = reduction /\ reduction # "idle"
    BY <1>4 DEF ReturnError, ReturnBody, CfgRefused, RefuseSize, SizeRegisters, Stop, cfgVars
  <2> QED
    BY <2>1 DEF InTurn
<1>5. CASE UNCHANGED <<vars, cfgVars>>
  BY <1>5 DEF vars, cfgVars, InTurn, LowerCfg!EmptyCfg
<1> HIDE DEF PipeInv
<1> QED
  BY <1>1, <1>2, <1>3, <1>4, <1>5 DEF PipeNext

LEMMA PipeStarts == PipeInit => PipeInv
BY Initially DEF PipeInit, PipeInv, NamesKnown, InTurn, Init

LEMMA PipeInductive == PipeInv /\ [PipeNext]_<<vars, cfgVars>> => PipeInv'
<1> SUFFICES ASSUME PipeInv, [PipeNext]_<<vars, cfgVars>> PROVE PipeInv'
  OBVIOUS
<1>1. IInv' /\ NamesKnown' /\ InTurn'
  BY WalkSteps, Inductive, NamesStayKnown, TurnsKept DEF PipeInv
<1>2. CASE CallLowerCfg
  <2>1. input' \in BlockLists
    BY <1>2, HandedAccepted DEF CallLowerCfg, PipeInv
  <2>2. LowerCfg!Init'
    BY <1>2, <2>1 DEF CallLowerCfg, HandOver, PipeInv, InTurn, LowerCfg!Init, LowerCfg!EmptyCfg
  <2>3. ReducerOK'
    <3>1. LowerCfg!Invariant'
      BY <2>2, ReducerStarts, PTL
    <3> QED
      BY <2>2, <3>1 DEF ReducerOK, LowerCfg!Init, LowerCfg!ReachabilityKept,
           LowerCfg!NoPanicOnSoundInput
  <2> QED
    BY <1>1, <2>3 DEF PipeInv
<1>3. CASE Reduce
  <2>1. reduction # "idle"
    BY <1>3 DEF Reduce, PipeInv, InTurn
  <2>2. ReducerOK'
    BY <1>3, <2>1, ReducerSteps DEF Reduce, PipeInv
  <2> QED
    BY <1>1, <2>2 DEF PipeInv
<1>4. CASE UNCHANGED cfgVars
  <2>1. reduction' # "idle" => ReducerOK
    BY <1>4 DEF cfgVars, PipeInv
  <2>2. reduction' # "idle" => ReducerOK'
    BY <1>4, <2>1, ReducerSteps
  <2> QED
    BY <1>1, <2>2 DEF PipeInv
<1> QED
  BY <1>2, <1>3, <1>4 DEF PipeNext, Walk, ReturnError, ReturnBody

-----------------------------------------------------------------------------
(* The theorems.                                                           *)

\* The whole of build_program is a run of the instruction walk: what is proved of
\* the walk holds of it.
THEOREM PipelineWalks == PipeSpec => Spec
<1>1. PipeInit => Init
  BY DEF PipeInit
<1>2. [PipeNext]_<<vars, cfgVars>> => [Next]_vars
  BY WalkSteps
<1> QED
  BY <1>1, <1>2, PTL DEF PipeSpec, Spec

\* For every module: on what the walk hands over, lower_cfg keeps the two indexes
\* of its graph and the targets in its block map together.
THEOREM PipelineKeepsGraph == PipeSpec => []GraphKept
<1>1. PipeInv => GraphKept
  BY DEF PipeInv, ReducerOK, LowerCfg!Invariant, GraphKept
<1> QED
  BY <1>1, PipeStarts, PipeInductive, PTL DEF PipeSpec

\* For every module: build_program panics in lower_cfg only where a block cannot
\* be reached or something jumps to the entry.
THEOREM PipelineNeverPanics == PipeSpec => []NoPanic
<1>1. PipeInv => NoPanic
  BY DEF PipeInv, ReducerOK, LowerCfg!NoPanicOnSoundInput, NoPanic
<1> QED
  BY <1>1, PipeStarts, PipeInductive, PTL DEF PipeSpec
=============================================================================
