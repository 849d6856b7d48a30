----------------------------- MODULE CfgDeterminism -----------------------------
(***************************************************************************)
(* The same module translated by two processes.  Each has its own HashSet  *)
(* seed, so each may take the matching places of a rule in another order.  *)
(* The second call starts when the first has returned; the two share       *)
(* nothing but the input.                                                  *)
(***************************************************************************)
EXTENDS Naturals, Sequences

CONSTANTS Name, Entry, NoCond, Inputs

VARIABLES
  input,
  status1, cfg1, map1, body1,     \* the first process
  status2, cfg2, map2, body2      \* the second process

vars1 == <<status1, cfg1, map1, body1>>
vars2 == <<status2, cfg2, map2, body2>>

First ==
  INSTANCE CfgConfluenceProofs
    WITH status <- status1, cfg <- cfg1, map <- map1, body <- body1
Second ==
  INSTANCE CfgConfluenceProofs
    WITH status <- status2, cfg <- cfg2, map <- map2, body <- body2

\* What lower_cfg is assumed to be called with, in both processes.
ASSUME TwiceAssumption ==
  /\ Entry \in Name /\ NoCond \notin Name
  /\ \A blocks \in Inputs :
       /\ blocks \in Seq(First!BlockLowering)
       /\ \A i \in DOMAIN blocks : First!WellFormedBlock(blocks[i])

Returned(status) == status \in {"reduced", "rejected", "panicked"}

TwiceInit ==
  /\ First!Init
  /\ status2 = "received" /\ cfg2 = Second!EmptyCfg /\ map2 = <<>> /\ body2 = <<>>

TwiceNext ==
  \/ First!Next /\ UNCHANGED vars2
  \/ Returned(status1) /\ Second!Next /\ UNCHANGED vars1

TwiceSpec == TwiceInit /\ [][TwiceNext]_<<input, vars1, vars2>>

\* The hash seed never shows: both processes accept or refuse the input alike,
\* and when they accept it they emit the same statements.
SeedIndependent ==
  Returned(status1) /\ Returned(status2) =>
    status1 = status2 /\ body1 = body2
=============================================================================
