----------------------------- MODULE MCCfgMeaning -----------------------------
(***************************************************************************)
(* What lower_cfg accepts and what its output means, on lists of three        *)
(* blocks, the graphs of MCGraphs and every structured program of up to      *)
(* MaxSize statements.                                                     *)
(***************************************************************************)
EXTENDS EmittedProgram, MCLists, MCGraphs, StructuredPrograms

MCLabelled(b) ==
  [b EXCEPT !.name = MCLabels[@],
            !.targets = [k \in DOMAIN @ |-> MCLabels[@[k]]]]

MCStructured ==
  {LET blocks == Blocks(prog) IN [i \in DOMAIN blocks |-> MCLabelled(blocks[i])] :
     prog \in Programs}

\* One block for each of three labels, with plain conditions.
MCPlainLists == {list \in MCAllBlocks : \A n \in DOMAIN list : list[n].cond # "compound"}

MCInputs == MCPlainLists \cup MCSoundGraphs \cup MCStructured

\* "sequence, if/else, simple while" is supported: no structured program is
\* refused, and none panics.
StructuredAccepted == status \in {"rejected", "panicked"} => input \notin MCStructured

=============================================================================
