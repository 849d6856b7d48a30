-------------------------------- MODULE GraphWalk --------------------------------
(***************************************************************************)
(* A walk of a control-flow graph: from position to position, up to the next *)
(* code to run.  A walk position is the start of a block (its code still to  *)
(* run), the end of a block (its terminator still to take) or the return.    *)
(* A valuation gives every branch condition its value for the whole stretch. *)
(***************************************************************************)
EXTENDS Naturals, Sequences, FiniteSets

Into(n) == <<"into", n>>
OutOf(n) == <<"out", n>>
Returned == <<"returned">>
NotStarted == <<"not started">>

Labels(blocks) == {blocks[i].name : i \in DOMAIN blocks}

Block(blocks, n) == blocks[CHOOSE i \in DOMAIN blocks : blocks[i].name = n]

Positions(blocks) ==
  {Returned} \cup {Into(n) : n \in Labels(blocks)}
             \cup {OutOf(n) : n \in Labels(blocks)}

\* A value for the condition of every block that ends in a conditional br.
Valuations(blocks) ==
  [{blocks[i].name : i \in {j \in DOMAIN blocks : Len(blocks[j].targets) = 2}}
     -> BOOLEAN]

\* A walk stops for code to run, and at its end.
Waits(blocks, p) ==
  \/ p = Returned
  \/ \E i \in DOMAIN blocks : blocks[i].code /\ p = Into(blocks[i].name)

\* Past block n: its terminator is ret, br or br i1.
Leave(blocks, n, v) ==
  LET ts == Block(blocks, n).targets
  IN CASE Len(ts) = 0 -> Returned
       [] Len(ts) = 1 -> Into(ts[1])
       [] Len(ts) = 2 -> Into(IF v[n] THEN ts[1] ELSE ts[2])

\* A function with no block returns at once.
Onward(blocks, p, v) ==
  CASE blocks = <<>> -> Returned
    [] blocks # <<>> /\ p[1] = "into" -> OutOf(p[2])
    [] blocks # <<>> /\ p[1] = "out" -> Leave(blocks, p[2], v)

Pass(blocks, p, v) == IF Waits(blocks, p) THEN p ELSE Onward(blocks, p, v)

\* The walk from p under v, step by step.
Walk(blocks, p, v) ==
  LET w[i \in Nat] == IF i = 0 THEN p ELSE Pass(blocks, w[i - 1], v)
  IN w

\* A walk that stops does so before it meets a position twice.
Limit(blocks) == Cardinality(Positions(blocks))
=============================================================================
