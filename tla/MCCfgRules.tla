------------------------------ MODULE MCCfgRules ------------------------------
(* lower_cfg on the lists of MCLists, and on three blocks behind an entry   *)
(* block that nothing jumps to, where a while header can have two           *)
(* predecessors.                                                            *)
EXTENDS CfgReduction, MCLists

MCBehind == {"b2", "b3", "b4"}

MCPlainBlocks(name) ==
  {[name |-> name, code |-> FALSE, targets |-> ts,
    cond |-> IF Len(ts) = 2 THEN "plain" ELSE "none"] :
     ts \in {<<>>} \cup {<<t>> : t \in MCBehind} \cup {<<t, f>> : t, f \in MCBehind}}

MCPreheader == [name |-> Entry, code |-> FALSE, cond |-> "none", targets |-> <<"b2">>]

MCRuleLists ==
  MCAllLists \cup
    {<<MCPreheader, x, y, z>> : x \in MCPlainBlocks("b2"), y \in MCPlainBlocks("b3"),
                                z \in MCPlainBlocks("b4")}
=============================================================================
