-------------------------- MODULE TranslationService --------------------------
(***************************************************************************)
(* What a caller of the library is promised, whatever binding it goes       *)
(* through: each call is answered by itself, with what that call asked for. *)
(***************************************************************************)
EXTENDS Sequences

CONSTANTS
  Callers,
  Promised(_, _)   \* whether a call may be given an answer

VARIABLES
  todo,    \* the calls each caller has still to make, the one under way first
  reply    \* each caller's last answer

\* What the callers ask is up to them.
Init == reply = [c \in Callers |-> <<>>]

Answer(c) ==
  /\ todo[c] # <<>>
  /\ todo' = [todo EXCEPT ![c] = Tail(@)]
  /\ Promised(Head(todo[c]), reply'[c])
  /\ \A d \in Callers \ {c} : reply'[d] = reply[d]

Next == \E c \in Callers : Answer(c)

Spec == Init /\ [][Next]_<<todo, reply>>
=============================================================================
