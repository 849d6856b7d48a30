--------------------------- MODULE StructuredPrograms ---------------------------
(***************************************************************************)
(* Structured programs and the control-flow graphs a front end lowers them *)
(* to: the inputs "sequence, if/else, simple while" that the README and    *)
(* the error message of lower_cfg promise to support.  A statement is      *)
(* code, an if with or without else, a while (its header may hold code     *)
(* that computes the condition) or a do-while; p tells which target of the *)
(* br the body is on.  Arms and bodies may be empty.  The test of an if or *)
(* a while is plain, or short-circuited: then it takes a block for the     *)
(* right operand (with code, or a bare expression) and a block that joins. *)
(***************************************************************************)
EXTENDS Naturals, Sequences

CONSTANT MaxSize   \* the statements and short-circuits, nested ones included

RECURSIVE ProgramsOf(_), Lower(_, _)

Plain == [size |-> 0]
ShortCircuits == [size: {1}, rhsFirst: BOOLEAN, rhsCode: BOOLEAN]
Tests(size) == IF size = 0 THEN {Plain} ELSE IF size = 1 THEN ShortCircuits ELSE {}

CodeS == [kind |-> "code"]
IfS(t, p, x) == [kind |-> "if", test |-> t, then |-> p, arm |-> x]
IfElseS(x, y) == [kind |-> "ifelse", arm |-> x, other |-> y]
WhileS(t, p, h, x) ==
  [kind |-> "while", test |-> t, then |-> p, header |-> h, arm |-> x]
DoWhileS(p, x) == [kind |-> "dowhile", then |-> p, arm |-> x]

\* The statements of size k, given the statement lists of every smaller size.
StatementsOf(k, ofSize(_)) ==
  (IF k = 1 THEN {CodeS} ELSE {})
    \cup UNION {{IfS(t, p, x) : t \in Tests(k - 1 - i), p \in BOOLEAN,
                               x \in ofSize(i)} : i \in 0..(k - 1)}
    \cup UNION {{WhileS(t, p, h, x) : t \in Tests(k - 1 - i), p \in BOOLEAN,
                  h \in BOOLEAN, x \in ofSize(i)} : i \in 0..(k - 1)}
    \cup {DoWhileS(p, x) : p \in BOOLEAN, x \in ofSize(k - 1)}
    \cup UNION {{IfElseS(x, y) : x \in ofSize(i), y \in ofSize(k - 1 - i)} :
                i \in 0..(k - 1)}

\* The statement lists of size n.
ProgramsOf(n) ==
  IF n = 0 THEN {<<>>}
  ELSE UNION {{<<h>> \o t : h \in StatementsOf(k, ProgramsOf),
                           t \in ProgramsOf(n - k)} : k \in 1..n}

Programs == UNION {ProgramsOf(n) : n \in 1..MaxSize}

(***************************************************************************)
(* Lowering: a list of finished blocks, done, and the name (a number), cur, *)
(* of the block being filled, which has code or not.                       *)
(***************************************************************************)
LBlock(n, code, cond, ts) ==
  [name |-> n, code |-> code, cond |-> cond, targets |-> ts]

\* Ends the block with ts; next is filled from then on. Blocks are numbered as
\* they are opened, and fresh is the first unused number.
CloseWith(st, cond, ts, next, fresh) ==
  [done |-> Append(st.done, LBlock(st.cur, st.code, cond, ts)),
   cur |-> next, code |-> FALSE, fresh |-> fresh]

Close(st, ts, next, fresh) == CloseWith(st, "none", ts, next, fresh)

Cond(p, x, y) == IF p THEN <<x, y>> ELSE <<y, x>>

\* Ends the block with a test that goes to one of ts.
Branch(st, test, ts, next, fresh) ==
  IF test = Plain THEN CloseWith(st, "plain", ts, next, fresh)
  ELSE LET rhs == fresh
           join == fresh + 1
           head == CloseWith(st, "plain", Cond(test.rhsFirst, rhs, join), rhs, 0)
           operand == Close([head EXCEPT !.code = test.rhsCode], <<join>>, join, 0)
       IN CloseWith(operand, "compound", ts, next, fresh + 2)

Lower(prog, st) ==
  IF prog = <<>> THEN st
  ELSE
    LET s == Head(prog)
        f == st.fresh
        after ==
          CASE s.kind = "code" -> [st EXCEPT !.code = TRUE]
            [] s.kind = "if" ->
                 LET arm == Lower(s.arm, Branch(st, s.test, Cond(s.then, f, f + 1),
                                                f, f + 2))
                 IN Close(arm, <<f + 1>>, f + 1, arm.fresh)
            [] s.kind = "ifelse" ->
                 LET arm == Lower(s.arm, Branch(st, Plain, <<f, f + 1>>, f, f + 3))
                     other == Lower(s.other,
                                    Close(arm, <<f + 2>>, f + 1, arm.fresh))
                 IN Close(other, <<f + 2>>, f + 2, other.fresh)
            [] s.kind = "while" ->
                 LET header == [Close(st, <<f>>, f, f + 3) EXCEPT !.code = s.header]
                     arm == Lower(s.arm, Branch(header, s.test,
                                                Cond(s.then, f + 1, f + 2),
                                                f + 1, header.fresh))
                 IN Close(arm, <<f>>, f + 2, arm.fresh)
            [] s.kind = "dowhile" ->
                 LET arm == Lower(s.arm, Close(st, <<f>>, f, f + 2))
                 IN Branch(arm, Plain, Cond(s.then, f, f + 1), f + 1, arm.fresh)
    IN Lower(Tail(prog), after)

\* The blocks of a program; the last one returns.
Blocks(prog) ==
  Close(Lower(prog, [done |-> <<>>, cur |-> 1, code |-> FALSE, fresh |-> 2]),
        <<>>, 0, 0).done
=============================================================================
