------------------------------ MODULE MCLists --------------------------------
(***************************************************************************)
(* Every list of block lowerings over a few labels, well formed or not:    *)
(* jumps to the entry, unreachable blocks and closed cycles included, and, *)
(* in MCAnyList, duplicate labels and unknown targets.                     *)
(***************************************************************************)
EXTENDS Naturals, Sequences

CONSTANTS MCName, MCCodes

MCTargets == {<<>>} \cup {<<t>> : t \in MCName} \cup {<<t, f>> : t, f \in MCName}

MCConds(targets) == IF Len(targets) = 2 THEN {"plain", "compound"} ELSE {"none"}

MCBlocksNamed(names) ==
  UNION {[name: names, code: MCCodes, cond: MCConds(ts), targets: {ts}] :
           ts \in MCTargets}

\* Up to two blocks with any label out of MCName.
MCAnyList == UNION {[1..k -> MCBlocksNamed(MCName)] : k \in 0..2}

\* One block for each of three labels.  Renaming b2 and b3 makes no difference:
\* of two such lists, the one that jumps to b2 first stands for both.
MCMentionsInOrder(targets) ==
  \A n \in DOMAIN targets : targets[n] = "b3" => \E m \in 1..(n - 1) : targets[m] = "b2"

MCAllBlocks ==
  {<<x, y, z>> \in MCBlocksNamed({"b1"}) \X MCBlocksNamed({"b2"}) \X MCBlocksNamed({"b3"}) :
     MCMentionsInOrder(x.targets \o y.targets \o z.targets)}

MCAllLists == MCAnyList \cup MCAllBlocks
=============================================================================
