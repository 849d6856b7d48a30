----------------------------- MODULE EmittedProgram -----------------------------
(***************************************************************************)
(* lower_cfg followed by a run of the statements it returned, one step per  *)
(* statement.  The emitted program implements SourceProgram: under every     *)
(* sequence of valuations it runs the same code in the same order and ends   *)
(* the same way.  The tests of if and while are invisible to the source, and *)
(* are counted since the last code that ran.                               *)
(***************************************************************************)
EXTENDS CfgReduction, GraphWalk

VARIABLES
  rest,     \* the statements still to run
  at,       \* past the last code that ran, or how the run ended
  env,      \* the valuation of the conditions since then
  tests     \* the tests made since then

execVars == <<rest, at, env, tests>>

Source == INSTANCE SourceProgram WITH blocks <- input

ExecInit ==
  /\ Init
  /\ rest = <<>>
  /\ at = NotStarted
  /\ env = <<>>
  /\ tests = 0

Reduce == Next /\ UNCHANGED execVars

Start ==
  /\ status = "reduced"
  /\ at = NotStarted
  /\ rest' = body
  /\ at' = Into(Entry)
  /\ env' \in Valuations(input)
  /\ UNCHANGED <<vars, tests>>

Running == status = "reduced" /\ at \notin {NotStarted, Returned}

RunCode ==
  /\ Running
  /\ rest # <<>>
  /\ Head(rest).kind = "code"
  /\ rest' = Tail(rest)
  /\ at' = OutOf(Head(rest).block)
  /\ env' \in Valuations(input)
  /\ tests' = 0
  /\ UNCHANGED vars

\* The count goes one past the limit, so that an endless loop has finitely many
\* states.
CountTest ==
  /\ tests' = IF tests > Limit(input) THEN tests ELSE tests + 1
  /\ UNCHANGED <<vars, at, env>>

TestIf ==
  /\ Running
  /\ rest # <<>>
  /\ Head(rest).kind = "if"
  /\ rest' = (IF env[Head(rest).cond] THEN Head(rest).ifBlock
                                      ELSE Head(rest).elseBlock) \o Tail(rest)
  /\ CountTest

\* A while tests again after its body.
TestWhile ==
  /\ Running
  /\ rest # <<>>
  /\ Head(rest).kind = "while"
  /\ rest' = IF env[Head(rest).cond] = Head(rest).negated
               THEN Tail(rest) ELSE Head(rest).body \o rest
  /\ CountTest

Return ==
  /\ Running
  /\ rest = <<>>
  /\ at' = Returned
  /\ tests' = 0
  /\ UNCHANGED <<vars, rest, env>>

ExecNext == Reduce \/ Start \/ RunCode \/ TestIf \/ TestWhile \/ Return

ExecSpec == ExecInit /\ [][ExecNext]_<<vars, execVars>>

\* What lower_cfg returns means what the control-flow graph it was given means:
\* for every valuation of the conditions at every point, the emitted statements
\* run the next source block that has code, and return when the source returns.
ImplementsSource == Source!SourceSpec

\* The emitted statements loop silently only where the source does: they make no
\* more tests than the source takes steps before it comes to code or returns.
NoEndlessTests ==
  at # NotStarted /\ tests > 0 =>
    ~Waits(input, Walk(input, at, env)[tests - 1])
=============================================================================
