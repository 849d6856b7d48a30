------------------------------ MODULE MCGraphs --------------------------------
(***************************************************************************)
(* Control-flow graphs as a compiler emits them: nothing jumps to the      *)
(* entry and every block is reachable.  Blocks are numbered in the order a *)
(* scan of the target lists first mentions them.                           *)
(***************************************************************************)
EXTENDS Naturals, Sequences, FiniteSets

CONSTANTS
  MCBlocks,    \* the number of blocks
  MCCodeless   \* how many of them may be without code

MCLabels == <<"b1", "b2", "b3", "b4", "b5", "b6", "b7", "b8", "b9", "b10", "b11">>

MCListed(s) == {s[i] : i \in 1..Len(s)}

MCTargetLists ==
  LET ns == 2..MCBlocks
  IN {<<>>} \cup {<<t>> : t \in ns} \cup {<<t, f>> : t, f \in ns}

MCShape(ts) ==
  \A i \in DOMAIN ts :
    LET before == UNION {MCListed(ts[j]) : j \in 1..(i - 1)} \cup {1}
        n == Cardinality(before)
        fresh(t, k) == t \in before \/ t = k
    IN /\ i \in before
       /\ Len(ts[i]) >= 1 => fresh(ts[i][1], n + 1)
       /\ Len(ts[i]) = 2 =>
            \/ fresh(ts[i][2], IF ts[i][1] \in before THEN n + 1 ELSE n + 2)
            \/ ts[i][2] = ts[i][1]

MCShapes == {ts \in [1..MCBlocks -> MCTargetLists] : MCShape(ts)}

MCBlock(i, code, ts) ==
  [name |-> MCLabels[i], code |-> code,
   targets |-> [k \in DOMAIN ts |-> MCLabels[ts[k]]],
   cond |-> IF Len(ts) = 2 THEN "plain" ELSE "none"]

MCCodeful ==
  {code \in [1..MCBlocks -> BOOLEAN] :
     Cardinality({i \in 1..MCBlocks : ~code[i]}) <= MCCodeless}

MCSoundGraphs ==
  {[i \in 1..MCBlocks |-> MCBlock(i, code[i], ts[i])] :
     ts \in MCShapes, code \in MCCodeful}
=============================================================================
