----------------------------- MODULE QirPrograms -----------------------------
(***************************************************************************)
(* The QIR modules the translator is run on.  Each family follows a shape   *)
(* of the fixtures in test/integ_tests/fixtures_qir, of the README's list    *)
(* of supported constructs or of the crate's own unit tests.               *)
(***************************************************************************)
EXTENDS ClassicalLowering, CallLowering, TLC

Body(g)    == <<"qis", g, "body">>
ReadResult == <<"rt", "read_result", "">>
Invoke     == <<"", "generalizedInvokeWithRotationsControlsTargets", "">>

Declare(callees, params) == [c \in callees |-> Signature(params, FALSE)]

TypedSignatures ==
  Declare({Body(g) : g \in {"x", "y", "z", "reset", "frob"}} \cup {<<"qis", "s", "adj">>},
          <<"Qubit">>)
  @@ Declare({Body("cx")}, <<"Qubit", "Qubit">>)
  @@ Declare({Body("ccx")}, <<"Qubit", "Qubit", "Qubit">>)
  @@ Declare({Body("rx")}, <<"double", "Qubit">>)
  @@ Declare({Body("rzz")}, <<"double", "Qubit", "Qubit">>)
  @@ Declare({Body("mz"), Body("mresetz")}, <<"Qubit", "Result">>)
  @@ Declare({Body("m")}, <<"Qubit">>)     \* a measurement that returns its result
  @@ Declare({ReadResult}, <<"Result">>)
  @@ Declare({<<"rt", "int_record_output", "">>}, <<"i64", "i8">>)
  @@ [c \in {Body("h"), <<"llvm", "memcpy", "p0">>} |-> Signature(<<"i8">>, TRUE)]
  @@ [c \in {Invoke} |-> Signature(<<"i64", "i64", "i64", "i64", "i8">>, TRUE)]

\* LLVM 15 and later: every pointer is a ptr.
OpaqueSignatures ==
  [c \in DOMAIN TypedSignatures |->
     Signature([n \in DOMAIN TypedSignatures[c].params |->
                  IF TypedSignatures[c].params[n] \in {"Qubit", "Result", "i8"}
                    THEN "ptr" ELSE TypedSignatures[c].params[n]],
               TypedSignatures[c].variadic)]

Typed(blocks) == [signatures |-> TypedSignatures, blocks |-> blocks]

-----------------------------------------------------------------------------
(* Pieces.                                                                 *)

Apply1(g, q)     == Call(NoResult, Body(g), <<PtrOp(q)>>)
MeasureBit(q, c) == Call(NoResult, Body("mz"), <<PtrOp(q), PtrOp(c)>>)
ReadBit(k, c)    == Call(k, ReadResult, <<PtrOp(c)>>)
Flip(k, src)     == BinaryI1(k, "xor", SsaOp(src), BoolOp(TRUE))

\* Two measured bits, as i1 values a and b.
Prelude == <<MeasureBit(0, 0), MeasureBit(1, 1), ReadBit("a", 0), ReadBit("b", 1)>>

\* What a br on value k shows of it.
Show(k) == <<BrCond(SsaOp(k), "t", "f")>>
Shown   == <<Block("t", <<Apply1("x", 0), Br("end")>>),
             Block("f", <<Apply1("y", 0), Br("end")>>), Block("end", <<Ret>>)>>

StraightLine(insts, k) == Typed(<<Block("e", Prelude \o insts \o Show(k))>> \o Shown)

a == SsaOp("a")
b == SsaOp("b")
T == BoolOp(TRUE)
F == BoolOp(FALSE)

-----------------------------------------------------------------------------
(* Boolean expressions of two instructions.                                *)

Connectives(r, X, Y) ==
  {BinaryI1(r, fn, x, y) : fn \in {"xor", "and", "or"}, x \in X, y \in Y}
Comparisons(r, preds, ty, X, Y) ==
  {Icmp(r, pred, ty, x, y) : pred \in preds, x \in X, y \in Y}
Selects(r, ty, C, X, Y) == {Select(r, ty, c, x, y) : c \in C, x \in X, y \in Y}

Unsigned == {"ult", "ule", "ugt", "uge"}
Either   == {"eq", "ne", "slt", "sle", "sgt", "sge"}

BooleanPrograms ==
  {StraightLine(<<i, j>>, "q") :
     i \in Connectives("p", {a, b, T, F}, {a, b, T, F}) \cup Selects("p", "i1", {a, T}, {a, b, T, F}, {a, b, T, F})
           \cup Comparisons("p", {"eq", "ne"} \cup Unsigned, "i1", {a, b, T}, {a, b, F}),
     j \in Connectives("q", {SsaOp("p")}, {a, T, F, IntOp(1)})
           \cup Selects("q", "i1", {SsaOp("p"), b}, {SsaOp("p"), F}, {a, T})
           \cup Comparisons("q", {"eq"}, "i1", {SsaOp("p")}, {a, F})}

-----------------------------------------------------------------------------
(* Integer expressions over the two bits widened to m and n.               *)

m == SsaOp("m")
n == SsaOp("n")
Ints(N) == {IntOp(i) : i \in N}
Widened == <<Zext("m", "a"), Zext("n", "b")>>

Ariths(fns, X, Y) == {IntArith("k", fn, "i64", x, y) : fn \in fns, x \in X, y \in Y}

Thresholds(insts, preds, Y) ==
  {StraightLine(Widened \o insts \o <<i>>, "p") :
     i \in Comparisons("p", preds, "i64", {SsaOp("k")}, Y)}

IntegerPrograms ==
  UNION {Thresholds(<<i>>, Either \cup Unsigned, Ints({1, 2}) \cup {n}) :
           i \in Ariths({"add", "mul"}, {m, n, IntOp(2)}, {m, n, IntOp(1)})
                 \cup Selects("k", "i64", {a, T}, {m, IntOp(0), IntOp(2)}, {n, IntOp(1)})}
  \cup UNION {Thresholds(<<i>>, Either, Ints({-1, 0}) \cup {n}) :
           i \in Ariths({"sub"}, {m, IntOp(1)}, {n, IntOp(2)})}
  \cup UNION {Thresholds(<<Select("j", "i32", a, IntOp(2), x),
                           Select("k", "i32", b, SsaOp("j"), IntOp(1))>>, {"sgt"}, Ints({0, 1})) :
           x \in {n, IntOp(0)}}

-----------------------------------------------------------------------------
(* The short-circuit merge: e branches to r, which computes the right-hand  *)
(* side, or to j, where the constant v arrives from e.                     *)

ShortCircuit(left, c, right, d, v, ontoTrue, swapped) ==
  LET merged == <<Incoming(BoolOp(v), "e"), Incoming(SsaOp(d), "r")>>
  IN  Typed(<<
        Block("e", Prelude \o left \o
          <<IF ontoTrue THEN BrCond(SsaOp(c), "r", "j") ELSE BrCond(SsaOp(c), "j", "r")>>),
        Block("r", right \o <<Br("j")>>),
        Block("j", <<Phi("p", "i1", IF swapped THEN <<merged[2], merged[1]>> ELSE merged)>>
                   \o Show("p"))>> \o Shown)

Lefts  == {<<<<>>, "a">>, <<<<Flip("na", "a")>>, "na">>}
Rights == {<<<<>>, "b">>, <<<<Flip("nb", "b")>>, "nb">>, <<<<ReadBit("d", 1)>>, "d">>,
           <<<<MeasureBit(2, 2), ReadBit("d", 2)>>, "d">>}

\* The br and the constant agree: && where the false branch skips, || where the
\* true branch does.
ShortCircuitPrograms ==
  {ShortCircuit(l[1], l[2], r[1], r[2], v, ~v, s) :
     l \in Lefts, r \in Rights, v \in BOOLEAN, s \in BOOLEAN}

\* They do not: what the same source becomes when the negation of the left-hand
\* side is folded into the br by exchanging its targets.
InvertedPrograms ==
  {ShortCircuit(l[1], l[2], r[1], r[2], v, v, FALSE) : l \in Lefts, r \in Rights, v \in BOOLEAN}

\* a op b op a third bit, as the Q# compiler chains it.
ChainedPrograms ==
  {Typed(<<Block("e", Prelude \o <<IF v THEN BrCond(a, "j", "r") ELSE BrCond(a, "r", "j")>>),
           Block("r", <<Br("j")>>),
           Block("j", <<Phi("p", "i1", <<Incoming(BoolOp(v), "e"), Incoming(b, "r")>>),
                        IF w THEN BrCond(SsaOp("p"), "k", "s")
                             ELSE BrCond(SsaOp("p"), "s", "k")>>),
           Block("s", <<ReadBit("d", 0), Br("k")>>),
           Block("k", <<Phi("q", "i1", <<Incoming(BoolOp(w), "j"),
                                         Incoming(SsaOp("d"), "s")>>)>> \o Show("q"))>>
          \o Shown) : v \in BOOLEAN, w \in BOOLEAN}

-----------------------------------------------------------------------------
(* Counters: mutable count = init; if a { count = u } if b { count += step }. *)

Counter(init, u, update, preds, flip) ==
  LET first == <<Incoming(init, "e"), Incoming(u, "i1")>>
  IN {Typed(<<Block("e", Prelude \o Widened \o <<IF flip THEN BrCond(a, "m1", "i1")
                                                  ELSE BrCond(a, "i1", "m1")>>),
              Block("i1", <<Br("m1")>>),
              Block("m1", <<Phi("k0", "i64", IF flip THEN <<first[2], first[1]>> ELSE first),
                            BrCond(b, "i2", "m2")>>),
              Block("i2", <<update, Br("m2")>>),
              Block("m2", <<Phi("k", "i64", <<Incoming(SsaOp("k0"), "m1"),
                                              Incoming(SsaOp("k1"), "i2")>>), i>>
                          \o Show("p"))>> \o Shown) :
      i \in Comparisons("p", preds, "i64", {SsaOp("k")}, Ints({0, 1, 2}))}

Updates == {IntArith("k1", fn, "i64", SsaOp("k0"), IntOp(s)) : fn \in {"add", "mul"}, s \in {1, 2}}

CounterPrograms ==
  UNION {Counter(init, u, i, {"eq", "sge"}, flip) :
           init \in Ints({0, 1}), u \in {IntOp(1), IntOp(3), m}, i \in Updates, flip \in BOOLEAN}

\* The same with a counter that starts from a measured bit.
MeasuredCounterPrograms ==
  UNION {Counter(init, u, i, {"eq"}, FALSE) :
           init \in {m, n}, u \in Ints({1}), i \in Updates}

\* A bit turned into an integer through two empty blocks.
LandingPadPrograms ==
  {Typed(<<Block("e", Prelude \o <<BrCond(a, l[1], l[2])>>),
           Block("l", <<Br("j")>>), Block("r", <<Br("j")>>),
           Block("j", <<Phi("k", ty, <<Incoming(v[1], "l"), Incoming(v[2], "r")>>), i>>
                      \o Show("p"))>> \o Shown) :
     l \in {<<"l", "r">>, <<"r", "l">>}, ty \in {"i32", "i64"},
     v \in {<<IntOp(0), IntOp(1)>>, <<IntOp(1), IntOp(0)>>, <<T, F>>},
     i \in Comparisons("p", {"eq", "ugt"}, "i64", {SsaOp("k")}, Ints({0, 1}))}

-----------------------------------------------------------------------------
(* Stack slots: an array s, s1 its element 1, stored and loaded through      *)
(* aliases; the loaded value is an angle or the number of a qubit.          *)

SlotPrograms ==
  {Typed(<<Block("e", <<Alloca("s"), Gep("s0", "s", 0), Gep("s1", "s0", 1),
                        Gep("s2", "s1", 1), Store(FloatOp(10), first), Store(FloatOp(20), second),
                        Store(IntOp(1), "s2"), Load("angle", from), Load("index", "s2"),
                        IntToPtr("q", SsaOp("index")),
                        Call(NoResult, Body("rx"), <<SsaOp("angle"), SsaOp("q")>>), Ret>>)>>) :
     first \in {"s", "s1"}, second \in {"s0", "s1"}, from \in {"s", "s0", "s1"}}

\* The programs above that load a slot nothing was stored to are not run.
LoadsStored(p) ==
  LET i == p.blocks[1].insts
      slot(k) == IF k = "s1" THEN 1 ELSE 0
  IN  slot(i[8].ptr) \in {slot(i[5].ptr), slot(i[6].ptr)}

-----------------------------------------------------------------------------
(* Loops: e measures bits 0 and 1, h tests, w is the body, g comes after.    *)

\* A test on bit 0, or on both bits by a short-circuit, that goes on to w or to g.
Test(onTrue) == BrCond(a, IF onTrue THEN "w" ELSE "g", IF onTrue THEN "g" ELSE "w")
Heads ==
  {<<Block("h", work \o <<ReadBit("a", 0), Test(onTrue)>>)>> :
     work \in {<<>>, <<Apply1("z", 2)>>}, onTrue \in BOOLEAN}
  \cup {<<Block("h", <<ReadBit("a", 0), BrCond(a, "r", "j")>>),
          Block("r", <<ReadBit("b", 1), Br("j")>>),
          Block("j", <<Phi("p", "i1", <<Incoming(F, "h"), Incoming(b, "r")>>),
                       BrCond(SsaOp("p"), "w", "g")>>)>>}

\* The body measures bit 0 again, after nothing, a branch or a loop on bit 1.
Latch(name) == Block(name, <<MeasureBit(0, 0), Br("h")>>)
OnBit1(x, y) == Block("w", <<Apply1("x", 1), MeasureBit(1, 1), ReadBit("d", 1), BrCond(SsaOp("d"), x, y)>>)
LoopBodies ==
  {<<Latch("w")>>,
   <<OnBit1("i", "l"), Block("i", <<Apply1("y", 0), Br("l")>>), Latch("l")>>,
   <<OnBit1("l", "i"), Block("i", <<Apply1("y", 0), Br("l")>>), Latch("l")>>,
   <<OnBit1("i", "k"), Block("i", <<Apply1("y", 0), Br("l")>>), Block("k", <<Br("l")>>), Latch("l")>>,
   <<OnBit1("w", "l"), Latch("l")>>}

LoopPrograms ==
  {Typed(<<Block("e", <<MeasureBit(0, 0), MeasureBit(1, 1), Br("h")>>)>> \o head \o inner
           \o <<Block("g", <<ReadBit("q", 0)>> \o Show("q"))>> \o Shown) :
     head \in Heads, inner \in LoopBodies}
  \cup {Typed(<<Block("e", <<Br("h")>>),
                Block("h", <<Apply1("x", 0), MeasureBit(0, 0), ReadBit("c", 0)>> \o i \o <<br>>),
                Block("g", <<Apply1("y", 1), Ret>>)>>) :
          i \in {<<Flip("p", "c")>>, <<BinaryI1("p", "and", SsaOp("c"), T)>>},
          br \in {BrCond(SsaOp("p"), "h", "g"), BrCond(SsaOp("p"), "g", "h")}}

\* A br whose two targets are one, and a br on a constant.
JumpPrograms ==
  {Typed(<<Block("e", Prelude \o <<BrCond(a, "t", "t")>>), Block("t", <<Apply1("x", 0), Ret>>)>>)}
    \cup {Typed(<<Block("e", Prelude \o <<BrCond(x, "t", "f")>>)>> \o Shown) : x \in {T, F}}

-----------------------------------------------------------------------------
(* Quantum calls.                                                          *)

Invocation(op, controls, targets, adjoint, tail) ==
  Call(NoResult, Invoke, <<IntOp(0), IntOp(adjoint), IntOp(controls), IntOp(targets),
                           GlobalOp(<<"qis", op, "ctl">>)>> \o tail)

QuantumCalls(s) ==
  <<Call(NoResult, <<"qis", "s", "adj">>, <<PtrOp(1)>>),
    Call(NoResult, Body("cx"), <<PtrOp(2), PtrOp(1)>>),
    Call(NoResult, Body("ccx"), <<PtrOp(2), PtrOp(1), PtrOp(0)>>),
    Call(NoResult, Body("rx"), <<FloatOp(30), PtrOp(0)>>),
    Call(NoResult, Body("rzz"), <<FloatOp(30), PtrOp(0), PtrOp(2)>>),
    Call(NoResult, Body("mresetz"), <<PtrOp(0), PtrOp(1)>>),
    Apply1("reset", 2),
    Call(NoResult, <<"llvm", "memcpy", "p0">>, <<NullOp, NullOp>>),
    Call(NoResult, <<"rt", "int_record_output", "">>, <<IntOp(1), GepOp>>), s, Ret>>

Invocations ==
  {Invocation("x", 1, 1, adj, <<NullOp, PtrOp(2)>>) : adj \in {0, 1}} \cup
  {Invocation("x", 2, 1, 0, <<PtrOp(2), NullOp, PtrOp(1)>>),
   Invocation("y", 1, 1, 0, <<PtrOp(2), PtrOp(3)>>),
   Invocation("z", 1, 1, 1, <<PtrOp(2), PtrOp(3)>>),
   Invocation("phaseshift", 1, 1, 0, <<PtrOp(2), PtrOp(3)>>),
   Invocation("swap", 1, 2, 0, <<PtrOp(0), PtrOp(3), PtrOp(1)>>)}

GatePrograms ==
  {[signatures |-> sigs, blocks |-> <<Block("e", QuantumCalls(s))>>] :
     sigs \in {TypedSignatures, OpaqueSignatures}, s \in Invocations}

\* What the README lists as supported.
SupportedPrograms ==
  BooleanPrograms \cup IntegerPrograms \cup ShortCircuitPrograms \cup ChainedPrograms
    \cup CounterPrograms \cup LandingPadPrograms
    \cup {p \in SlotPrograms : LoadsStored(p)} \cup GatePrograms \cup LoopPrograms
    \cup JumpPrograms

\* What it does not: a loop that is entered in two places, a label given twice, a
\* register as large as an index can be, and a block that only jumps to itself.
UnsupportedPrograms ==
  {Typed(<<Block("e", Prelude \o <<BrCond(a, "l", "r")>>), Block("l", <<BrCond(b, "r", "end")>>),
           Block("r", <<Br("l")>>), Block("end", <<Ret>>)>>),
   Typed(<<Block("e", <<Br("l")>>), Block("l", <<Ret>>), Block("l", <<Ret>>)>>),
   Typed(<<Block("e", <<Apply1("x", MaxInt), Ret>>)>>),
   Typed(<<Block("e", <<Ret>>), Block("l", <<Br("l")>>)>>)}

-----------------------------------------------------------------------------
(* Programs at the edge of what is accepted, and beyond it.                *)

CallsRefused ==
  {Apply1("undeclared", 0), Apply1("frob", 0), Apply1("h", 0),
   Call(NoResult, Body("cx"), <<PtrOp(0)>>),
   Call(NoResult, Body("m"), <<PtrOp(0)>>),
   Call(NoResult, Body("x"), <<SsaOp("unbound")>>),
   Call(NoResult, Body("x"), <<GlobalOp(Body("x"))>>),
   Call(NoResult, Body("rx"), <<SsaOp("unbound"), PtrOp(0)>>),
   Call(NoResult, Invoke, <<IntOp(0), IntOp(0), IntOp(1)>>),
   Call(NoResult, Invoke, <<IntOp(1), IntOp(0), IntOp(1), IntOp(1), GepOp>>),
   Invocation("x", -1, 2, 0, <<PtrOp(1)>>),
   Invocation("x", 1, 1, 0, <<PtrOp(1)>>),
   Invocation("x", 1, 1, 0, <<PtrOp(1), GepOp>>),
   Invocation("h", 1, 1, 0, <<PtrOp(1), PtrOp(2)>>),
   Invocation("x", 3, 1, 0, <<PtrOp(0), PtrOp(1), PtrOp(2), PtrOp(3)>>)}

InstsRefused ==
  {Icmp("p", "oeq", "i64", IntOp(0), IntOp(1)), Icmp("p", "eq", "i64", SsaOp("unbound"), b),
   Icmp("p", "eq", "i64", IntOp(MaxInt + 1), b), BinaryI1("p", "and", a, IntOp(2)),
   Select("p", "double", a, FloatOp(1), FloatOp(2)), Select("p", "i1", SsaOp("unbound"), a, b),
   IntArith("p", "add", "i64", GepOp, b), Zext("p", "unbound"), Unsupported,
   IntToPtr("p", IntOp(-1)), IntToPtr("p", a), IntToPtr("p", FloatOp(1)),
   Phi("p", "double", <<Incoming(FloatOp(1), "x"), Incoming(FloatOp(2), "y")>>),
   Phi("p", "i1", <<Incoming(T, "e"), Incoming(a, "x")>>),
   BrCond(SsaOp("unbound"), "t", "f")}

\* Accepted, and binding nothing or an index at the limit.
InstsAtTheEdge ==
  {Ignored, Load("p", "s"), Store(IntOp(1), "s"), ReadBit(NoResult, 3),
   Store(SsaOp("a"), "s"), BrCond(T, "t", "f"), BrCond(a, "t", "t"),
   Apply1("x", MaxInt), Apply1("x", MaxInt - 1), MeasureBit(0, MaxInt), Apply1("x", -2), MeasureBit(0, -1), Ret, Br("t")}

OddPrograms ==
  {Typed(<<Block("e", Prelude \o <<i, Apply1("z", 2)>> \o Show("a"))>> \o Shown) :
     i \in CallsRefused \cup InstsRefused \cup InstsAtTheEdge}

\* Unnamed blocks, a block that ends without a terminator, and two blocks of the
\* same name, one of which a phi names.
NamePrograms ==
  {Typed(<<Block("", Prelude \o Widened \o <<BrCond(a, "1", name)>>), Block("", <<Br(name)>>),
           Block(name, <<Phi("k", "i64", <<Incoming(IntOp(0), from), Incoming(n, "1")>>)>>),
           Block(name, <<Phi("l", "i64", <<Incoming(SsaOp("k"), name), Incoming(m, "1")>>)>>)>>) :
     name \in {"j", "2", "1"}, from \in {"0", "e"}}

\* Integer phis of every shape over three blocks lowered before: e ends in a br,
\* l and r in jumps, r after one statement.
PhiPrograms ==
  {Typed(<<Block("e", Prelude \o Widened \o <<BrCond(a, "l", target)>>),
           Block("l", <<Br("j")>>), Block("r", <<Apply1("x", 0), Br("j")>>),
           Block("j", <<Phi("k", ty, <<Incoming(x, p), Incoming(y, q)>>),
                        Phi("h", "i64", <<Incoming(SsaOp("k"), "e"), Incoming(z, "l")>>)>>
                      \o Show("a"))>> \o Shown) :
     target \in {"r", "j"}, ty \in {"i1", "i64"}, x \in {IntOp(0), m, F}, y \in {IntOp(1), n, a},
     z \in {SsaOp("k"), m}, p \in {"e", "l", "j"}, q \in {"l", "r", "nowhere"}}

AllPrograms ==
  ShortCircuitPrograms \cup InvertedPrograms \cup ChainedPrograms \cup CounterPrograms
    \cup MeasuredCounterPrograms \cup LandingPadPrograms \cup SlotPrograms \cup GatePrograms
    \cup OddPrograms \cup NamePrograms \cup PhiPrograms
    \cup {StraightLine(<<i>>, "p") :
            i \in Connectives("p", {a, T}, {b, F}) \cup Selects("p", "i1", {a}, {b, T, F}, {b, T, F})}
    \cup Thresholds(<<Select("k", "i32", a, m, n)>>, {"eq", "ult"}, {n})
    \cup Thresholds(<<IntArith("k", "sub", "i64", m, n)>>, {"eq"}, {n})
=============================================================================
