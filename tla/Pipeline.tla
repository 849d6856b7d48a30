------------------------------- MODULE Pipeline -------------------------------
(***************************************************************************)
(* build_program as a whole: the instruction walk lowers the blocks, hands   *)
(* them to lower_cfg, and sizes the registers once lower_cfg has returned.   *)
(***************************************************************************)
EXTENDS Translator

CONSTANTS
  Name,     \* the names of blocks, Entry that of every first block
  Entry,
  NoCond    \* no condition, to lower_cfg

\* assign_block_names on block n of module m.
NameOf(m, n) == IF m.blocks[n].name = "" THEN ToString(n - 1) ELSE m.blocks[n].name

ASSUME NamesAssumption ==
  /\ Entry \in Name /\ NoCond \notin Name
  /\ \A m \in Modules :
       /\ NameOf(m, 1) = Entry
       /\ \A n \in DOMAIN m.blocks :
            /\ NameOf(m, n) \in Name
            /\ \A k \in DOMAIN m.blocks[n].insts :
                 LET i == m.blocks[n].insts[k]
                 IN  /\ i.kind = "br" => i.target \in Name
                     /\ i.kind = "brcond" => i.targets \in Seq(Name)

VARIABLES
  input,       \* of lower_cfg: its argument, its progress and its locals
  reduction,   \* "idle" until it is called, then as status in CfgReduction
  cfg, map,
  body         \* what it returns

cfgVars == <<input, reduction, cfg, map, body>>

\* A block as lower_cfg sees it: whether it has statements, and whether its
\* condition is a top-level && or ||.
Shape(x) == IF x.e = "bin" /\ x.fn \in {"&&", "||"} THEN "compound" ELSE "plain"

Handed ==
  [j \in DOMAIN lowerings |->
     [name    |-> lowerings[j].name,
      code    |-> lowerings[j].statements # <<>>,
      cond    |-> IF lowerings[j].condition = {} THEN "none"
                  ELSE CHOOSE s \in {Shape(x) : x \in lowerings[j].condition} : TRUE,
      targets |-> lowerings[j].targets]]

\* The lists of blocks lower_cfg is made for.
BlockLists ==
  {s \in Seq([name : Name, code : BOOLEAN, cond : {"none", "plain", "compound"},
              targets : Seq(Name)]) :
     \A n \in DOMAIN s : /\ Len(s[n].targets) <= 2
                         /\ s[n].cond = "none" <=> Len(s[n].targets) # 2}

\* lower_cfg, with what is proved of it.
LowerCfg == INSTANCE CfgReductionProofs WITH status <- reduction, Inputs <- BlockLists

PipeInit ==
  /\ Init
  /\ input = <<>> /\ reduction = "idle" /\ cfg = LowerCfg!EmptyCfg
  /\ map = <<>> /\ body = <<>>

Walk == BlocksLeft /\ Next /\ UNCHANGED cfgVars

CallLowerCfg ==
  /\ HandOver
  /\ input' = Handed
  /\ reduction' = "received"
  /\ UNCHANGED <<cfg, map, body>>

Reduce == status = "reducing" /\ LowerCfg!Next /\ UNCHANGED vars

\* An error of lower_cfg is the error of the call; a panic goes through it.
ReturnError ==
  reduction = "rejected" /\ CfgRefused /\ UNCHANGED cfgVars

ReturnBody ==
  /\ reduction = "reduced"
  /\ RefuseSize \/ SizeRegisters
  /\ UNCHANGED cfgVars

PipeNext == Walk \/ CallLowerCfg \/ Reduce \/ ReturnError \/ ReturnBody

PipeSpec == PipeInit /\ [][PipeNext]_<<vars, cfgVars>>

-----------------------------------------------------------------------------
(* Properties.                                                             *)

\* Called with what the walk hands over, lower_cfg keeps its two views of the graph
\* together: its expects rest on what the walk promises of a lowered block.
GraphKept == reduction # "idle" => LowerCfg!GraphInSync

\* build_program panics on no module whose blocks are all reachable and whose entry
\* is no target: whatever the walk hands over then, no unwrap of lower_cfg fires.
NoPanic == reduction = "panicked" => ~LowerCfg!SoundInput
=============================================================================
