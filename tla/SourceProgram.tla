----------------------------- MODULE SourceProgram -----------------------------
(***************************************************************************)
(* What the QIR function means: a walk of its control-flow graph.  This is *)
(* the promise lower_cfg is held to; nothing of the reduction appears.     *)
(*                                                                         *)
(* A block's code runs as one observable event.  After each event the      *)
(* environment fixes the value of every branch condition: conditions are   *)
(* pure expressions over measured bits and variables, so they can change   *)
(* only when code runs, and the walk between two events reads one valuation.*)
(***************************************************************************)
EXTENDS GraphWalk

CONSTANT Entry

VARIABLES
  blocks,   \* the source blocks
  at,       \* past the last block whose code ran, or where the walk ended
  env       \* the valuation of the conditions since then

\* A function has a meaning when its labels are distinct and every jump, the one
\* into the function included, goes to one of them.
Meaningful ==
  /\ \A i, j \in DOMAIN blocks : blocks[i].name = blocks[j].name => i = j
  /\ blocks # <<>> => Entry \in Labels(blocks)
  /\ \A i \in DOMAIN blocks : \A k \in DOMAIN blocks[i].targets :
       blocks[i].targets[k] \in Labels(blocks)

SourceInit == at = NotStarted /\ env = <<>>

Begin ==
  /\ Meaningful
  /\ at = NotStarted
  /\ at' = Into(Entry)
  /\ env' \in Valuations(blocks)
  /\ UNCHANGED blocks

\* The next code runs, or the function returns.
Proceed ==
  /\ at \notin {NotStarted, Returned}
  /\ LET p == Walk(blocks, at, env)[Limit(blocks)]
     IN /\ Waits(blocks, p)
        /\ at' = IF p = Returned THEN Returned ELSE OutOf(p[2])
  /\ env' \in Valuations(blocks)
  /\ UNCHANGED blocks

SourceSpec == SourceInit /\ [][Begin \/ Proceed]_<<at, env>>
=============================================================================
