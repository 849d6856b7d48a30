------------------------------ MODULE MeaningProofs ------------------------------
(***************************************************************************)
(* For every set of block names and every list of block lowerings: the      *)
(* statements lower_cfg returns run the same code in the same order as the   *)
(* graph it was given, and loop silently only where the graph does.        *)
(*                                                                         *)
(* The argument is a simulation.  It relates a list of statements, which is  *)
(* what is left to run of a node of the reduced graph, to a position of the  *)
(* walk of the source graph.  The graph as built has one, and every rewrite  *)
(* turns a simulation of the graph before it into one of the graph after it: *)
(* the lists of a node that disappears become lists of the node that absorbs *)
(* it, with the statements appended that the rewrite puts after them.       *)
(*                                                                         *)
(* First, for every list of blocks and every valuation: a walk is well       *)
(* defined, it can be cut and continued anywhere, and one that stops does so *)
(* within Limit steps, since until then it meets no position twice.         *)
(***************************************************************************)
EXTENDS EmittedProgram, CfgReductionProofs, FiniteSetTheorems, WellFoundedInduction,
        SequenceTheorems

-----------------------------------------------------------------------------
(* A function defined by recursion on the naturals.                        *)

\* A property that is false of some number is false of a least one.
LEMMA LeastNumber ==
  ASSUME NEW S, S \subseteq Nat, S # {}
  PROVE  \E n \in S : \A m \in S : n <= m
<1> DEFINE R == {ss \in Nat \X Nat : ss[1] < ss[2]}
<1>1. IsWellFoundedOn(R, Nat)  BY NatLessThanWellFounded DEF OpToRel
<1>2. PICK n \in S : \A m \in S : ~(<<m, n>> \in R)  BY <1>1, WFMin
<1>3. \A m \in S : ~(m < n)  BY <1>2
<1> QED  BY <1>3

\* f holds the first n steps of the walk.
Path(blocks, p, v, f, n) ==
  /\ DOMAIN f = 0..n
  /\ f[0] = p
  /\ \A i \in 1..n : f[i] = Pass(blocks, f[i - 1], v)

LEMMA PathExists ==
  ASSUME NEW blocks, NEW p, NEW v
  PROVE  \A n \in Nat : \E f : Path(blocks, p, v, f, n)
<1> DEFINE B == {n \in Nat : ~ \E f : Path(blocks, p, v, f, n)}
<1>1. SUFFICES ASSUME B # {} PROVE FALSE  OBVIOUS
<1>2. PICK n \in B : \A m \in B : n <= m  BY <1>1, LeastNumber
<1>3. CASE n = 0
  <2> DEFINE g == [i \in 0..0 |-> p]
  <2>1. Path(blocks, p, v, g, 0)  BY DEF Path
  <2> QED  BY <1>2, <1>3, <2>1
<1>4. CASE n # 0
  <2>1. n \in Nat /\ n - 1 \in Nat /\ n - 1 \notin B  BY <1>2, <1>4
  <2>2. PICK f : Path(blocks, p, v, f, n - 1)  BY <2>1
  <2> DEFINE g == [i \in 0..n |-> IF i = n THEN Pass(blocks, f[n - 1], v) ELSE f[i]]
  <2>3. g[0] = p  BY <1>4, <2>1, <2>2 DEF Path
  <2>4. ASSUME NEW i \in 1..n PROVE g[i] = Pass(blocks, g[i - 1], v)
    <3>1. i - 1 \in 0..n /\ i - 1 # n /\ g[i - 1] = f[i - 1]  BY <2>1
    <3>2. CASE i = n  BY <3>1, <3>2
    <3>3. CASE i # n
      <4>1. i \in 1..(n - 1)  BY <2>1, <3>3
      <4>2. f[i] = Pass(blocks, f[i - 1], v)  BY <2>2, <4>1 DEF Path
      <4> QED  BY <3>1, <3>3, <4>2
    <3> QED  BY <3>2, <3>3
  <2>5. DOMAIN g = 0..n  OBVIOUS
  <2>6. Path(blocks, p, v, g, n)
    <3> HIDE DEF g
    <3> QED  BY <2>3, <2>4, <2>5 DEF Path
  <2> QED  BY <1>2, <2>6
<1> QED  BY <1>3, <1>4

LEMMA PathUnique ==
  ASSUME NEW blocks, NEW p, NEW v, NEW f, NEW g, NEW n \in Nat, NEW m \in Nat,
         n <= m, Path(blocks, p, v, f, n), Path(blocks, p, v, g, m)
  PROVE  \A i \in 0..n : f[i] = g[i]
<1> DEFINE B == {i \in 0..n : f[i] # g[i]}
<1>1. SUFFICES ASSUME B # {} PROVE FALSE  OBVIOUS
<1>a. B \subseteq Nat  OBVIOUS
<1>2. PICK i \in B : \A j \in B : i <= j
  <2> HIDE DEF B
  <2> QED  BY <1>1, <1>a, LeastNumber
<1>3. i # 0  BY <1>2 DEF Path
<1>4. i \in 1..n /\ i \in 1..m /\ i - 1 \in 0..n /\ i - 1 \notin B  BY <1>2, <1>3
<1>5. f[i - 1] = g[i - 1]  BY <1>4
<1>6. f[i] = Pass(blocks, f[i - 1], v) /\ g[i] = Pass(blocks, g[i - 1], v)
  BY <1>4 DEF Path
<1> QED  BY <1>2, <1>5, <1>6

\* The recursive definition of Walk defines a function.
LEMMA WalkEquation ==
  ASSUME NEW blocks, NEW p, NEW v
  PROVE  /\ Walk(blocks, p, v)[0] = p
         /\ \A i \in Nat : Walk(blocks, p, v)[i + 1]
                             = Pass(blocks, Walk(blocks, p, v)[i], v)
<1> DEFINE F == [n \in Nat |-> CHOOSE f : Path(blocks, p, v, f, n)]
           u == [n \in Nat |-> F[n][n]]
           Def(w) == w = [i \in Nat |-> IF i = 0 THEN p
                                        ELSE Pass(blocks, w[i - 1], v)]
<1>1. \A n \in Nat : Path(blocks, p, v, F[n], n)  BY PathExists
<1> HIDE DEF F
<1>2. u[0] = p  BY <1>1 DEF Path
<1>3. ASSUME NEW i \in Nat, i # 0 PROVE u[i] = Pass(blocks, u[i - 1], v)
  <2>1. i - 1 \in Nat /\ i - 1 <= i /\ i - 1 \in 0..(i - 1) /\ i \in 1..i  BY <1>3
  <2>2. F[i - 1][i - 1] = F[i][i - 1]  BY <1>1, <2>1, PathUnique
  <2>3. F[i][i] = Pass(blocks, F[i][i - 1], v)  BY <1>1, <2>1 DEF Path
  <2> QED  BY <2>1, <2>2, <2>3
<1>4. Def(u)
  <2>1. \A i \in Nat : u[i] = IF i = 0 THEN p ELSE Pass(blocks, u[i - 1], v)
    BY <1>2, <1>3
  <2>2. u = [i \in Nat |-> u[i]]  OBVIOUS
  <2> HIDE DEF u
  <2> QED  BY <2>1, <2>2
<1>5. Walk(blocks, p, v) = CHOOSE w : Def(w)  BY DEF Walk
<1> DEFINE w == CHOOSE x : Def(x)
<1>6. Def(w)
  <2> HIDE DEF u, Def
  <2> QED  BY <1>4
<1>7. /\ w[0] = p
      /\ \A i \in Nat : w[i + 1] = Pass(blocks, w[i], v)
  <2> HIDE DEF w
  <2>1. w = [i \in Nat |-> IF i = 0 THEN p ELSE Pass(blocks, w[i - 1], v)]  BY <1>6
  <2>2. w[0] = p  BY <2>1
  <2>3. ASSUME NEW i \in Nat PROVE w[i + 1] = Pass(blocks, w[i], v)
    <3>1. i + 1 \in Nat /\ i + 1 # 0 /\ (i + 1) - 1 = i  OBVIOUS
    <3>2. w[i + 1] = Pass(blocks, w[(i + 1) - 1], v)  BY <2>1, <3>1
    <3> QED  BY <3>1, <3>2
  <2> QED  BY <2>2, <2>3
<1> QED  BY <1>5, <1>7

-----------------------------------------------------------------------------
(* Stretches of a walk.                                                    *)

\* The walk from p comes to q after i steps, and stops nowhere before.
Leads(blocks, p, v, q, i) ==
  /\ i \in Nat
  /\ Walk(blocks, p, v)[i] = q
  /\ \A k \in Nat : k < i => ~Waits(blocks, Walk(blocks, p, v)[k])

\* The walk from p comes to q; it takes at least a step to do so.
Goes(blocks, p, v, q)  == \E i \in Nat : Leads(blocks, p, v, q, i)
Moves(blocks, p, v, q) == \E i \in Nat \ {0} : Leads(blocks, p, v, q, i)

\* A walk can be cut at step i: what follows is the walk from there.
CutAt(blocks, p, v, i) ==
  \A j \in Nat :
    Walk(blocks, p, v)[i + j] = Walk(blocks, Walk(blocks, p, v)[i], v)[j]

LEMMA WalkContinues ==
  ASSUME NEW blocks, NEW p, NEW v, NEW i \in Nat
  PROVE  CutAt(blocks, p, v, i)
<1> DEFINE w == Walk(blocks, p, v)
           u == Walk(blocks, w[i], v)
           B == {j \in Nat : w[i + j] # u[j]}
<1>1. SUFFICES ASSUME B # {} PROVE FALSE  BY DEF CutAt
<1>2. B \subseteq Nat  OBVIOUS
<1>3. PICK j \in B : \A k \in B : j <= k
  <2> HIDE DEF B
  <2> QED  BY <1>1, <1>2, LeastNumber
<1>4. j # 0
  <2>1. u[0] = w[i]  BY WalkEquation
  <2>2. i + 0 = i  OBVIOUS
  <2> QED  BY <1>3, <2>1, <2>2
<1>5. j - 1 \in Nat /\ j - 1 \notin B /\ (j - 1) + 1 = j
      /\ i + (j - 1) \in Nat /\ (i + (j - 1)) + 1 = i + j
  BY <1>3, <1>4
<1>6. w[i + (j - 1)] = u[j - 1]  BY <1>5
<1>7. w[i + j] = Pass(blocks, w[i + (j - 1)], v)
  <2>1. \A k \in Nat : w[k + 1] = Pass(blocks, w[k], v)  BY WalkEquation
  <2> HIDE DEF w
  <2> QED  BY <1>5, <2>1
<1>8. u[j] = Pass(blocks, u[j - 1], v)
  <2>1. \A k \in Nat : u[k + 1] = Pass(blocks, u[k], v)  BY WalkEquation
  <2> HIDE DEF u
  <2> QED  BY <1>5, <2>1
<1> QED  BY <1>3, <1>6, <1>7, <1>8

\* A walk that has stopped stays where it is.
LEMMA WalkStays ==
  ASSUME NEW blocks, NEW p, NEW v, Waits(blocks, p)
  PROVE  \A j \in Nat : Walk(blocks, p, v)[j] = p
<1> DEFINE w == Walk(blocks, p, v)
           B == {j \in Nat : w[j] # p}
<1>1. SUFFICES ASSUME B # {} PROVE FALSE  OBVIOUS
<1>2. B \subseteq Nat  OBVIOUS
<1>3. PICK j \in B : \A k \in B : j <= k
  <2> HIDE DEF B
  <2> QED  BY <1>1, <1>2, LeastNumber
<1>4. w[0] = p /\ \A k \in Nat : w[k + 1] = Pass(blocks, w[k], v)  BY WalkEquation
<1> HIDE DEF w
<1>5. j # 0  BY <1>3, <1>4
<1>6. j - 1 \in Nat /\ j - 1 \notin B /\ (j - 1) + 1 = j  BY <1>3, <1>5
<1>7. w[j - 1] = p /\ w[j] = Pass(blocks, w[j - 1], v)  BY <1>4, <1>6
<1> QED  BY <1>3, <1>7 DEF Pass

LEMMA LeadsNowhere ==
  ASSUME NEW blocks, NEW p, NEW v
  PROVE  Leads(blocks, p, v, p, 0)
BY WalkEquation DEF Leads

LEMMA LeadsOn ==
  ASSUME NEW blocks, NEW p, NEW v, NEW q, NEW i, NEW r, NEW j,
         Leads(blocks, p, v, q, i), Leads(blocks, q, v, r, j)
  PROVE  Leads(blocks, p, v, r, i + j)
<1> DEFINE w == Walk(blocks, p, v)
           u == Walk(blocks, q, v)
<1>1. /\ i \in Nat /\ j \in Nat /\ w[i] = q /\ u[j] = r
      /\ \A k \in Nat : k < i => ~Waits(blocks, w[k])
      /\ \A k \in Nat : k < j => ~Waits(blocks, u[k])
  BY DEF Leads
<1>2. \A k \in Nat : w[i + k] = u[k]
  <2>1. CutAt(blocks, p, v, i)  BY <1>1, WalkContinues
  <2> QED  BY <1>1, <2>1 DEF CutAt
<1> HIDE DEF w, u
<1>3. ASSUME NEW k \in Nat, k < i + j PROVE ~Waits(blocks, w[k])
  <2>1. CASE k < i  BY <1>1, <2>1
  <2>2. CASE ~(k < i)
    <3>1. k - i \in Nat /\ k - i < j /\ i + (k - i) = k  BY <1>1, <1>3, <2>2
    <3>2. w[k] = u[k - i]  BY <1>2, <3>1
    <3> QED  BY <1>1, <3>1, <3>2
  <2> QED  BY <2>1, <2>2
<1>4. w[i + j] = r /\ i + j \in Nat  BY <1>1, <1>2
<1> QED  BY <1>3, <1>4 DEF Leads, w

LEMMA LeadsOneStep ==
  ASSUME NEW blocks, NEW p, NEW v, ~Waits(blocks, p)
  PROVE  Leads(blocks, p, v, Pass(blocks, p, v), 1)
<1> DEFINE w == Walk(blocks, p, v)
<1>1. w[0] = p /\ w[0 + 1] = Pass(blocks, w[0], v)  BY WalkEquation
<1> HIDE DEF w
<1>2. w[1] = Pass(blocks, p, v)  BY <1>1
<1>3. \A k \in Nat : k < 1 => k = 0  OBVIOUS
<1>4. \A k \in Nat : k < 1 => ~Waits(blocks, w[k])  BY <1>1, <1>3
<1> QED  BY <1>2, <1>4 DEF Leads, w

\* Nothing is known of Goes and Moves from here on but these facts.
LEMMA GoesMoves ==
  ASSUME NEW blocks, NEW v, NEW p, NEW q, NEW r
  PROVE  /\ Goes(blocks, p, v, p)
         /\ Moves(blocks, p, v, q) => Goes(blocks, p, v, q)
         /\ Goes(blocks, p, v, q) /\ Goes(blocks, q, v, r) => Goes(blocks, p, v, r)
         /\ Goes(blocks, p, v, q) /\ Moves(blocks, q, v, r) => Moves(blocks, p, v, r)
         /\ Moves(blocks, p, v, q) /\ Goes(blocks, q, v, r) => Moves(blocks, p, v, r)
<1>1. Goes(blocks, p, v, p)  BY LeadsNowhere DEF Goes
<1>2. Moves(blocks, p, v, q) => Goes(blocks, p, v, q)  BY DEF Goes, Moves
<1>3. ASSUME Goes(blocks, p, v, q), Goes(blocks, q, v, r)
      PROVE  Goes(blocks, p, v, r)
  <2>1. PICK i \in Nat : Leads(blocks, p, v, q, i)  BY <1>3 DEF Goes
  <2>2. PICK j \in Nat : Leads(blocks, q, v, r, j)  BY <1>3 DEF Goes
  <2>3. i + j \in Nat /\ Leads(blocks, p, v, r, i + j)  BY <2>1, <2>2, LeadsOn
  <2> QED  BY <2>3 DEF Goes
<1>4. ASSUME Goes(blocks, p, v, q), Moves(blocks, q, v, r)
      PROVE  Moves(blocks, p, v, r)
  <2>1. PICK i \in Nat : Leads(blocks, p, v, q, i)  BY <1>4 DEF Goes
  <2>2. PICK j \in Nat \ {0} : Leads(blocks, q, v, r, j)  BY <1>4 DEF Moves
  <2>3. i + j \in Nat \ {0} /\ Leads(blocks, p, v, r, i + j)  BY <2>1, <2>2, LeadsOn
  <2> QED  BY <2>3 DEF Moves
<1>5. ASSUME Moves(blocks, p, v, q), Goes(blocks, q, v, r)
      PROVE  Moves(blocks, p, v, r)
  <2>1. PICK i \in Nat \ {0} : Leads(blocks, p, v, q, i)  BY <1>5 DEF Moves
  <2>2. PICK j \in Nat : Leads(blocks, q, v, r, j)  BY <1>5 DEF Goes
  <2>3. i + j \in Nat \ {0} /\ Leads(blocks, p, v, r, i + j)  BY <2>1, <2>2, LeadsOn
  <2> QED  BY <2>3 DEF Moves
<1> QED  BY <1>1, <1>2, <1>3, <1>4, <1>5

LEMMA OneStepMoves ==
  ASSUME NEW blocks, NEW p, NEW v, ~Waits(blocks, p)
  PROVE  Moves(blocks, p, v, Pass(blocks, p, v))
BY LeadsOneStep DEF Moves

-----------------------------------------------------------------------------
(* Where a walk can be, and how long it is.                                *)

\* Distinct labels, and targets that are labels: what lower_cfg accepts.
Proper(blocks) ==
  /\ \E n \in Nat : DOMAIN blocks = 1..n
  /\ \A i, j \in DOMAIN blocks : blocks[i].name = blocks[j].name => i = j
  /\ \A i \in DOMAIN blocks :
       LET ts == blocks[i].targets
       IN \/ Len(ts) = 0
          \/ Len(ts) = 1 /\ ts[1] \in Labels(blocks)
          \/ Len(ts) = 2 /\ ts[1] \in Labels(blocks) /\ ts[2] \in Labels(blocks)

LEMMA BlockOfLabel ==
  ASSUME NEW blocks, Proper(blocks), NEW i \in DOMAIN blocks
  PROVE  Block(blocks, blocks[i].name) = blocks[i]
<1>1. \A j \in DOMAIN blocks : blocks[j].name = blocks[i].name => j = i
  BY DEF Proper
<1>2. (CHOOSE j \in DOMAIN blocks : blocks[j].name = blocks[i].name) = i
  BY <1>1
<1> QED  BY <1>2 DEF Block

LEMMA PassInPositions ==
  ASSUME NEW blocks, Proper(blocks), NEW p \in Positions(blocks), NEW v
  PROVE  Pass(blocks, p, v) \in Positions(blocks)
<1>1. CASE Waits(blocks, p)  BY <1>1 DEF Pass
<1>2. CASE ~Waits(blocks, p)
  <2>1. Pass(blocks, p, v) = Onward(blocks, p, v)  BY <1>2 DEF Pass
  <2>2. p # Returned  BY <1>2 DEF Waits
  <2>3. PICK n \in Labels(blocks) : p = Into(n) \/ p = OutOf(n)
    BY <2>2 DEF Positions
  <2>4. PICK i \in DOMAIN blocks : blocks[i].name = n  BY <2>3 DEF Labels
  <2>5. blocks # <<>>  BY <2>4
  <2>6. CASE p = Into(n)
    <3>1. Onward(blocks, p, v) = OutOf(n)  BY <2>5, <2>6 DEF Onward, Into
    <3> QED  BY <2>1, <3>1 DEF Positions
  <2>7. CASE p = OutOf(n)
    <3>1. Onward(blocks, p, v) = Leave(blocks, n, v)  BY <2>5, <2>7 DEF Onward, OutOf
    <3>2. Block(blocks, n) = blocks[i]  BY <2>4, BlockOfLabel
    <3> DEFINE ts == blocks[i].targets
    <3>3. \/ Len(ts) = 0
          \/ Len(ts) = 1 /\ ts[1] \in Labels(blocks)
          \/ Len(ts) = 2 /\ ts[1] \in Labels(blocks) /\ ts[2] \in Labels(blocks)
      BY <2>4 DEF Proper
    <3>4. Leave(blocks, n, v) \in {Returned, Into(ts[1]), Into(ts[2])}
      BY <3>2, <3>3 DEF Leave
    <3>5. Leave(blocks, n, v) \in {Returned} \cup {Into(m) : m \in Labels(blocks)}
      BY <3>2, <3>3 DEF Leave
    <3> QED  BY <2>1, <3>1, <3>5 DEF Positions
  <2> QED  BY <2>3, <2>6, <2>7
<1> QED  BY <1>1, <1>2

LEMMA WalkInPositions ==
  ASSUME NEW blocks, Proper(blocks), NEW p \in Positions(blocks), NEW v
  PROVE  \A i \in Nat : Walk(blocks, p, v)[i] \in Positions(blocks)
<1> DEFINE w == Walk(blocks, p, v)
           B == {i \in Nat : w[i] \notin Positions(blocks)}
<1>1. SUFFICES ASSUME B # {} PROVE FALSE  OBVIOUS
<1>2. B \subseteq Nat  OBVIOUS
<1>3. PICK i \in B : \A k \in B : i <= k
  <2> HIDE DEF B
  <2> QED  BY <1>1, <1>2, LeastNumber
<1>4. w[0] = p /\ \A k \in Nat : w[k + 1] = Pass(blocks, w[k], v)  BY WalkEquation
<1> HIDE DEF w
<1>5. i # 0  BY <1>3, <1>4
<1>6. i - 1 \in Nat /\ i - 1 \notin B /\ (i - 1) + 1 = i  BY <1>3, <1>5
<1>7. w[i - 1] \in Positions(blocks) /\ w[i] = Pass(blocks, w[i - 1], v)
  BY <1>4, <1>6
<1> QED  BY <1>3, <1>7, PassInPositions

LEMMA PositionsFinite ==
  ASSUME NEW blocks, Proper(blocks)
  PROVE  IsFiniteSet(Positions(blocks)) /\ Limit(blocks) \in Nat
<1>1. PICK n \in Nat : DOMAIN blocks = 1..n  BY DEF Proper
<1>2. IsFiniteSet(1..n)  BY FS_Interval
<1> DEFINE I == {Into(m) : m \in Labels(blocks)}
           O == {OutOf(m) : m \in Labels(blocks)}
<1>3. IsFiniteSet(I)
  <2> DEFINE f == [i \in 1..n |-> Into(blocks[i].name)]
  <2>1. f \in Surjection(1..n, I)
    BY <1>1 DEF Surjection, Labels
  <2> HIDE DEF f, I
  <2> QED  BY <1>2, <2>1, FS_Surjection
<1>4. IsFiniteSet(O)
  <2> DEFINE f == [i \in 1..n |-> OutOf(blocks[i].name)]
  <2>1. f \in Surjection(1..n, O)
    BY <1>1 DEF Surjection, Labels
  <2> HIDE DEF f, O
  <2> QED  BY <1>2, <2>1, FS_Surjection
<1>5. Positions(blocks) = (I \cup O) \cup {Returned}  BY DEF Positions
<1> HIDE DEF I, O
<1>6. IsFiniteSet(I \cup O)  BY <1>3, <1>4, FS_Union
<1>7. IsFiniteSet(Positions(blocks))  BY <1>5, <1>6, FS_AddElement
<1> QED  BY <1>7, FS_CardinalityType DEF Limit

\* A walk that stops is where it stopped after Limit steps.
LEMMA StopsWithinLimit ==
  ASSUME NEW blocks, Proper(blocks), NEW p \in Positions(blocks), NEW v,
         NEW q, NEW i, Leads(blocks, p, v, q, i), Waits(blocks, q)
  PROVE  Walk(blocks, p, v)[Limit(blocks)] = q
<1> DEFINE w == Walk(blocks, p, v)
           L == Limit(blocks)
<1>1. /\ i \in Nat /\ w[i] = q
      /\ \A k \in Nat : k < i => ~Waits(blocks, w[k])
  BY DEF Leads
<1>2. L \in Nat /\ IsFiniteSet(Positions(blocks))  BY PositionsFinite
<1>3. ASSUME NEW a \in Nat, NEW b \in Nat, a < b, b <= i PROVE w[a] # w[b]
  <2>1. SUFFICES ASSUME w[a] = w[b] PROVE FALSE  OBVIOUS
  <2>2. i - b \in Nat /\ b + (i - b) = i /\ a + (i - b) \in Nat /\ a + (i - b) < i
    BY <1>1, <1>3
  <2>3. w[a + (i - b)] = Walk(blocks, w[a], v)[i - b]
    <3>1. CutAt(blocks, p, v, a)  BY WalkContinues
    <3> QED  BY <2>2, <3>1 DEF CutAt
  <2>4. w[b + (i - b)] = Walk(blocks, w[b], v)[i - b]
    <3>1. CutAt(blocks, p, v, b)  BY WalkContinues
    <3> QED  BY <2>2, <3>1 DEF CutAt
  <2> HIDE DEF w
  <2> QED  BY <1>1, <2>1, <2>2, <2>3, <2>4
<1>4. i + 1 <= L
  <2> DEFINE f == [k \in 0..i |-> w[k]]
  <2>1. f \in [0..i -> Positions(blocks)]
    <3>1. \A k \in 0..i : w[k] \in Positions(blocks)  BY <1>1, WalkInPositions
    <3> HIDE DEF w
    <3> QED  BY <3>1
  <2>2. IsFiniteSet(0..i) /\ Cardinality(0..i) = i + 1
    <3>1. 0 \in Int /\ i \in Int /\ ~(0 > i) /\ i - 0 + 1 = i + 1  BY <1>1
    <3> QED  BY <3>1, FS_Interval
  <2>3. \A a, b \in 0..i : a # b => f[a] # f[b]
    <3> HIDE DEF w
    <3> SUFFICES ASSUME NEW a \in 0..i, NEW b \in 0..i, a # b PROVE w[a] # w[b]
      OBVIOUS
    <3>1. a \in Nat /\ b \in Nat /\ a <= i /\ b <= i /\ (a < b \/ b < a)  BY <1>1
    <3> QED  BY <1>3, <3>1
  <2>4. ~(L < i + 1)
    <3> HIDE DEF f
    <3>1. ASSUME L < i + 1 PROVE FALSE
      <4>1. \E x, y \in 0..i : x # y /\ f[x] = f[y]
        BY <1>2, <2>1, <2>2, <3>1, FS_PigeonHole DEF Limit
      <4> QED  BY <2>3, <4>1
    <3> QED  BY <3>1
  <2> QED  BY <1>1, <1>2, <2>4
<1>5. L - i \in Nat /\ i + (L - i) = L  BY <1>1, <1>2, <1>4
<1>6. w[i + (L - i)] = Walk(blocks, w[i], v)[L - i]
  <2>1. CutAt(blocks, p, v, i)  BY <1>1, WalkContinues
  <2> QED  BY <1>5, <2>1 DEF CutAt
<1>7. Walk(blocks, q, v)[L - i] = q  BY <1>5, WalkStays
<1> HIDE DEF w, L
<1>8. w[L] = q  BY <1>1, <1>5, <1>6, <1>7
<1> QED  BY <1>8 DEF w, L

-----------------------------------------------------------------------------
(* Lists of statements.                                                    *)

IsSeq(k) == \E S : k \in Seq(S)

LEMMA CommonSeq ==
  ASSUME NEW s, NEW t, IsSeq(s), IsSeq(t)
  PROVE  \E S : s \in Seq(S) /\ t \in Seq(S)
<1>1. PICK S : s \in Seq(S)  BY DEF IsSeq
<1>2. PICK T : t \in Seq(T)  BY DEF IsSeq
<1>3. S \subseteq S \cup T /\ T \subseteq S \cup T  OBVIOUS
<1>4. s \in Seq(S \cup T)  BY <1>1, <1>3, SeqMonotonic
<1>5. t \in Seq(S \cup T)  BY <1>2, <1>3, SeqMonotonic
<1> QED  BY <1>4, <1>5

LEMMA ConcatFacts ==
  ASSUME NEW s, NEW t, IsSeq(s), IsSeq(t)
  PROVE  /\ IsSeq(s \o t)
         /\ s \o <<>> = s /\ <<>> \o t = t
         /\ s # <<>> => /\ s \o t # <<>>
                        /\ Head(s \o t) = Head(s)
                        /\ Tail(s \o t) = Tail(s) \o t
                        /\ IsSeq(Tail(s))
<1>1. PICK S : s \in Seq(S) /\ t \in Seq(S)  BY CommonSeq
<1>2. s \o t \in Seq(S) /\ Len(s \o t) = Len(s) + Len(t)
      /\ \A i \in 1..(Len(s) + Len(t)) :
           (s \o t)[i] = IF i <= Len(s) THEN s[i] ELSE t[i - Len(s)]
  BY <1>1, ConcatProperties
<1>3. IsSeq(s \o t)  BY <1>2 DEF IsSeq
<1>4. s \o <<>> = s /\ <<>> \o t = t  BY <1>1, ConcatEmptySeq
<1>5. ASSUME s # <<>>
      PROVE  /\ s \o t # <<>> /\ Head(s \o t) = Head(s)
             /\ Tail(s \o t) = Tail(s) \o t /\ IsSeq(Tail(s))
  <2>1. Len(s) \in Nat \ {0} /\ Len(t) \in Nat  BY <1>1, <1>5, EmptySeq, LenProperties
  <2>2. s \o t # <<>>  BY <1>1, <1>5, ConcatEqualIffEmpty
  <2>3. Head(s \o t) = Head(s)  BY <1>1, <1>2, <1>5, <2>1, <2>2
  <2>4. /\ Tail(s) \in Seq(S) /\ Len(Tail(s)) = Len(s) - 1
        /\ \A i \in 1..(Len(s) - 1) : Tail(s)[i] = s[i + 1]
    BY <1>1, <1>5, HeadTailProperties
  <2>5. /\ Tail(s \o t) \in Seq(S) /\ Len(Tail(s \o t)) = Len(s) + Len(t) - 1
        /\ \A i \in 1..(Len(s) + Len(t) - 1) : Tail(s \o t)[i] = (s \o t)[i + 1]
    BY <1>2, <2>2, HeadTailProperties
  <2>6. /\ Tail(s) \o t \in Seq(S) /\ Len(Tail(s) \o t) = Len(s) - 1 + Len(t)
        /\ \A i \in 1..(Len(s) - 1 + Len(t)) :
             (Tail(s) \o t)[i] = IF i <= Len(s) - 1 THEN Tail(s)[i]
                                 ELSE t[i - (Len(s) - 1)]
    BY <1>1, <2>4, ConcatProperties
  <2>7. ASSUME NEW i \in 1..(Len(s) + Len(t) - 1)
        PROVE  Tail(s \o t)[i] = (Tail(s) \o t)[i]
    <3>1. i \in Nat /\ i + 1 \in 1..(Len(s) + Len(t)) /\ i \in 1..(Len(s) - 1 + Len(t))
      BY <2>1
    <3>2. Tail(s \o t)[i] = (s \o t)[i + 1]  BY <2>5
    <3>3. CASE i <= Len(s) - 1
      <4>1. i \in 1..(Len(s) - 1) /\ i + 1 <= Len(s)  BY <2>1, <3>1, <3>3
      <4> QED  BY <1>2, <2>4, <2>6, <3>1, <3>2, <3>3, <4>1
    <3>4. CASE ~(i <= Len(s) - 1)
      <4>1. ~(i + 1 <= Len(s)) /\ (i + 1) - Len(s) = i - (Len(s) - 1)
        BY <2>1, <3>1, <3>4
      <4> QED  BY <1>2, <2>6, <3>1, <3>2, <3>4, <4>1
    <3> QED  BY <3>3, <3>4
  <2>8. Len(Tail(s \o t)) = Len(Tail(s) \o t)  BY <2>1, <2>5, <2>6
  <2>9. Tail(s \o t) = Tail(s) \o t  BY <2>5, <2>6, <2>7, <2>8, SeqEqual
  <2> QED  BY <2>2, <2>3, <2>4, <2>9 DEF IsSeq
<1> QED  BY <1>3, <1>4, <1>5

Regroups(s, t, u) == (s \o t) \o u = s \o (t \o u)

LEMMA ConcatRegroups ==
  ASSUME NEW s, NEW t, NEW u, IsSeq(s), IsSeq(t), IsSeq(u)
  PROVE  Regroups(s, t, u)
<1>1. PICK S : s \in Seq(S) /\ t \in Seq(S)  BY CommonSeq
<1>2. PICK T : u \in Seq(T)  BY DEF IsSeq
<1>3. S \subseteq S \cup T /\ T \subseteq S \cup T  OBVIOUS
<1>4. s \in Seq(S \cup T) /\ t \in Seq(S \cup T) /\ u \in Seq(S \cup T)
  BY <1>1, <1>2, <1>3, SeqMonotonic
<1> QED  BY <1>4, ConcatAssociative DEF Regroups

LEMMA OneStatement ==
  ASSUME NEW x
  PROVE  /\ IsSeq(<<>>) /\ IsSeq(<<x>>) /\ <<x>> # <<>>
         /\ Head(<<x>>) = x /\ Tail(<<x>>) = <<>>
<1>1. <<x>> \in Seq({x}) /\ <<>> \in Seq({x})  OBVIOUS
<1>2. <<x>> # <<>> /\ Head(<<x>>) = x /\ Tail(<<x>>) = <<>>  OBVIOUS
<1> QED  BY <1>1, <1>2 DEF IsSeq

LEMMA AppendIsConcatOne ==
  ASSUME NEW s, IsSeq(s), NEW x
  PROVE  Append(s, x) = s \o <<x>>
<1>1. PICK S : s \in Seq(S)  BY DEF IsSeq
<1>2. s \in Seq(S \cup {x}) /\ x \in S \cup {x}  BY <1>1, SeqMonotonic
<1> QED  BY <1>2, AppendIsConcat

-----------------------------------------------------------------------------
(* The simulation.  An element <<k, n, p>> of R says that k, then a jump out *)
(* of node n, is what is left to run when the source is at p.  The next      *)
(* statement runs the code the source comes to, or is a test after which the *)
(* two still agree; a test costs the source at least one step.  When nothing *)
(* is left of n, the source goes where n's entry e in the block map goes.   *)

Exits(blocks, e, p, v) ==
  /\ Len(e.targets) = 0 => Goes(blocks, p, v, Returned)
  /\ Len(e.targets) = 1 => Goes(blocks, p, v, Into(e.targets[1]))
  /\ Len(e.targets) = 2 =>
       /\ v[e.condition] \in BOOLEAN
       /\ Moves(blocks, p, v, Into(IF v[e.condition] THEN e.targets[1]
                                                     ELSE e.targets[2]))

\* What is left of k once the test it starts with is made.
Tested(k, v) ==
  IF Head(k).kind = "if"
    THEN (IF v[Head(k).cond] THEN Head(k).ifBlock ELSE Head(k).elseBlock) \o Tail(k)
    ELSE IF v[Head(k).cond] = Head(k).negated THEN Tail(k) ELSE Head(k).body \o k

IsTest(s) ==
  \/ s.kind = "if" /\ IsSeq(s.ifBlock) /\ IsSeq(s.elseBlock)
  \/ s.kind = "while" /\ IsSeq(s.body)

RunsCode(blocks, R, k, n, p, v) ==
  /\ Head(k).kind = "code"
  /\ Goes(blocks, p, v, Into(Head(k).block))
  /\ Waits(blocks, Into(Head(k).block))
  /\ <<Tail(k), n, OutOf(Head(k).block)>> \in R

Tests(blocks, R, k, n, p, v) ==
  /\ IsTest(Head(k))
  /\ \E q : Moves(blocks, p, v, q) /\ <<Tested(k, v), n, q>> \in R

Agrees(blocks, R, k, n, e, p, v) ==
  /\ k = <<>> => Exits(blocks, e, p, v)
  /\ k # <<>> => RunsCode(blocks, R, k, n, p, v) \/ Tests(blocks, R, k, n, p, v)

\* R is a simulation of the graph of the given nodes and block map.
Simulates(blocks, R, nodes, m) ==
  /\ \A n \in nodes :
       IsSeq(m[n].statements) /\ <<m[n].statements, n, Into(n)>> \in R
  /\ \A x \in R :
       /\ x = <<x[1], x[2], x[3]>> /\ IsSeq(x[1]) /\ x[2] \in nodes
       /\ \A v \in Valuations(blocks) :
            Agrees(blocks, R, x[1], x[2], m[x[2]], x[3], v)

LEMMA SimulatesOne ==
  ASSUME NEW blocks, NEW R, NEW nodes, NEW m, Simulates(blocks, R, nodes, m),
         NEW k, NEW n, NEW p, <<k, n, p>> \in R
  PROVE  /\ IsSeq(k) /\ n \in nodes
         /\ \A v \in Valuations(blocks) : Agrees(blocks, R, k, n, m[n], p, v)
<1> DEFINE x == <<k, n, p>>
<1>1. x[1] = k /\ x[2] = n /\ x[3] = p  OBVIOUS
<1>2. /\ IsSeq(x[1]) /\ x[2] \in nodes
      /\ \A v \in Valuations(blocks) :
           Agrees(blocks, R, x[1], x[2], m[x[2]], x[3], v)
  BY DEF Simulates
<1> QED  BY <1>1, <1>2

\* Statements agree with an earlier position of the same walk too.
LEMMA AgreesEarlier ==
  ASSUME NEW blocks, NEW R, NEW k, NEW n, NEW e, NEW p, NEW q, NEW v,
         Goes(blocks, p, v, q), Agrees(blocks, R, k, n, e, q, v)
  PROVE  Agrees(blocks, R, k, n, e, p, v)
<1>1. \A r : Goes(blocks, q, v, r) => Goes(blocks, p, v, r)  BY GoesMoves
<1>2. \A r : Moves(blocks, q, v, r) => Moves(blocks, p, v, r)  BY GoesMoves
<1>3. CASE k = <<>>  BY <1>1, <1>2, <1>3 DEF Agrees, Exits
<1>4. CASE k # <<>> /\ RunsCode(blocks, R, k, n, q, v)
  <2>1. RunsCode(blocks, R, k, n, p, v)  BY <1>1, <1>4 DEF RunsCode
  <2> QED  BY <1>4, <2>1 DEF Agrees
<1>5. CASE k # <<>> /\ Tests(blocks, R, k, n, q, v)
  <2>1. Tests(blocks, R, k, n, p, v)  BY <1>2, <1>5 DEF Tests
  <2> QED  BY <1>5, <2>1 DEF Agrees
<1> QED  BY <1>3, <1>4, <1>5 DEF Agrees

\* A test leaves the statements behind the tested list alone.
LEMMA TestedThen ==
  ASSUME NEW k, NEW t, NEW v, IsSeq(k), IsSeq(t), k # <<>>, IsTest(Head(k))
  PROVE  Tested(k \o t, v) = Tested(k, v) \o t
<1> DEFINE s == Head(k)
<1>1. /\ Head(k \o t) = s /\ Tail(k \o t) = Tail(k) \o t /\ IsSeq(Tail(k))
  BY ConcatFacts
<1>2. CASE s.kind = "if" /\ IsSeq(s.ifBlock) /\ IsSeq(s.elseBlock)
  <2>1. Regroups(s.ifBlock, Tail(k), t)
    BY <1>1, <1>2, ConcatRegroups
  <2>2. Regroups(s.elseBlock, Tail(k), t)
    BY <1>1, <1>2, ConcatRegroups
  <2> QED  BY <1>1, <1>2, <2>1, <2>2 DEF Tested, Regroups
<1>3. CASE s.kind = "while" /\ IsSeq(s.body)
  <2>1. Regroups(s.body, k, t)  BY <1>3, ConcatRegroups
  <2> QED  BY <1>1, <1>3, <2>1 DEF Tested, Regroups
<1> QED  BY <1>2, <1>3 DEF IsTest

\* What agrees as the statements of node n agrees as the first statements of a.
LEMMA AgreesThen ==
  ASSUME NEW blocks, NEW R, NEW k, NEW n, NEW e, NEW p, NEW v,
         NEW R2, NEW a, NEW e2, NEW t, IsSeq(k), IsSeq(t), k # <<>>,
         \A l, q : <<l, n, q>> \in R => <<l \o t, a, q>> \in R2,
         Agrees(blocks, R, k, n, e, p, v)
  PROVE  Agrees(blocks, R2, k \o t, a, e2, p, v)
<1>1. k \o t # <<>> /\ Head(k \o t) = Head(k) /\ Tail(k \o t) = Tail(k) \o t
  BY ConcatFacts
<1>2. CASE RunsCode(blocks, R, k, n, p, v)
  <2>1. <<Tail(k) \o t, a, OutOf(Head(k).block)>> \in R2  BY <1>2 DEF RunsCode
  <2>2. RunsCode(blocks, R2, k \o t, a, p, v)  BY <1>1, <1>2, <2>1 DEF RunsCode
  <2> QED  BY <1>1, <2>2 DEF Agrees
<1>3. CASE Tests(blocks, R, k, n, p, v)
  <2>1. PICK q : Moves(blocks, p, v, q) /\ <<Tested(k, v), n, q>> \in R
    BY <1>3 DEF Tests
  <2>2. <<Tested(k, v) \o t, a, q>> \in R2  BY <2>1
  <2>3. Tested(k \o t, v) = Tested(k, v) \o t  BY <1>3, TestedThen DEF Tests
  <2>4. Tests(blocks, R2, k \o t, a, p, v)  BY <1>1, <1>3, <2>1, <2>2, <2>3 DEF Tests
  <2> QED  BY <1>1, <2>4 DEF Agrees
<1> QED  BY <1>2, <1>3 DEF Agrees

-----------------------------------------------------------------------------
(* A rewrite that leaves the work of the nodes of D to node a.  Where a list *)
(* of node s of D ended, the statements T[s] now follow; the other nodes that *)
(* stay, in stay, keep their lists; and at the positions of P nothing is left *)
(* of a.                                                                   *)

Rewritten(R, D, T, a, stay, P) ==
  {<<x[1] \o T[x[2]], a, x[3]>> : x \in {y \in R : y[2] \in D}}
    \cup {x \in R : x[2] \in stay} \cup {<<<<>>, a, p>> : p \in P}

LEMMA RewrittenHas ==
  ASSUME NEW R, NEW D, NEW T, NEW a, NEW stay, NEW P
  PROVE  LET R2 == Rewritten(R, D, T, a, stay, P)
         IN /\ \A s \in D : \A k, p : <<k, s, p>> \in R => <<k \o T[s], a, p>> \in R2
            /\ \A n \in stay : \A k, p : <<k, n, p>> \in R => <<k, n, p>> \in R2
            /\ \A p \in P : <<<<>>, a, p>> \in R2
<1> DEFINE R2 == Rewritten(R, D, T, a, stay, P)
<1>1. ASSUME NEW s \in D, NEW k, NEW p, <<k, s, p>> \in R
      PROVE  <<k \o T[s], a, p>> \in R2
  <2> DEFINE x == <<k, s, p>>
  <2>1. x[1] = k /\ x[2] = s /\ x[3] = p  OBVIOUS
  <2>2. x \in {y \in R : y[2] \in D}  BY <1>1, <2>1
  <2>3. <<x[1] \o T[x[2]], a, x[3]>> \in R2
    <3> HIDE DEF x
    <3> QED  BY <2>2 DEF Rewritten
  <2> QED  BY <2>1, <2>3
<1>2. ASSUME NEW n \in stay, NEW k, NEW p, <<k, n, p>> \in R
      PROVE  <<k, n, p>> \in R2
  BY <1>2 DEF Rewritten
<1>3. \A p \in P : <<<<>>, a, p>> \in R2  BY DEF Rewritten
<1> HIDE DEF R2
<1>4. /\ \A s \in D : \A k, p : <<k, s, p>> \in R => <<k \o T[s], a, p>> \in R2
      /\ \A n \in stay : \A k, p : <<k, n, p>> \in R => <<k, n, p>> \in R2
  BY <1>1, <1>2
<1> QED  BY <1>3, <1>4 DEF R2

RewriteSound(blocks, R, nodes, m, D, a, T, P, nodes2, m2) ==
  LET R2 == Rewritten(R, D, T, a, nodes2 \ {a}, P)
  IN /\ D \subseteq nodes /\ a \in D /\ nodes2 \subseteq nodes /\ a \in nodes2
     /\ \A s \in D : IsSeq(T[s])
     /\ m2[a].statements = m[a].statements \o T[a]
     /\ \A n \in nodes2 \ {a} : m2[n] = m[n]
     /\ \A s \in D, v \in Valuations(blocks) : \A p :
          <<<<>>, s, p>> \in R => Agrees(blocks, R2, T[s], a, m2[a], p, v)
     /\ \A p \in P, v \in Valuations(blocks) : Exits(blocks, m2[a], p, v)

LEMMA RewriteSimulates ==
  ASSUME NEW blocks, NEW R, NEW nodes, NEW m, Simulates(blocks, R, nodes, m),
         NEW D, NEW a, NEW T, NEW P, NEW nodes2, NEW m2,
         RewriteSound(blocks, R, nodes, m, D, a, T, P, nodes2, m2)
  PROVE  Simulates(blocks, Rewritten(R, D, T, a, nodes2 \ {a}, P), nodes2, m2)
<1> DEFINE R2 == Rewritten(R, D, T, a, nodes2 \ {a}, P)
<1>0. /\ D \subseteq nodes /\ a \in D /\ nodes2 \subseteq nodes /\ a \in nodes2
      /\ \A s \in D : IsSeq(T[s])
      /\ m2[a].statements = m[a].statements \o T[a]
      /\ \A n \in nodes2 \ {a} : m2[n] = m[n]
      /\ \A s \in D, v \in Valuations(blocks) : \A p :
           <<<<>>, s, p>> \in R => Agrees(blocks, R2, T[s], a, m2[a], p, v)
      /\ \A p \in P, v \in Valuations(blocks) : Exits(blocks, m2[a], p, v)
  BY DEF RewriteSound
<1>1. /\ \A s \in D : \A k, p : <<k, s, p>> \in R => <<k \o T[s], a, p>> \in R2
      /\ \A n \in nodes2 \ {a} : \A k, p : <<k, n, p>> \in R => <<k, n, p>> \in R2
      /\ \A p \in P : <<<<>>, a, p>> \in R2
  BY RewrittenHas
<1>a. R2 = Rewritten(R, D, T, a, nodes2 \ {a}, P)  OBVIOUS
<1> HIDE DEF R2
<1>2. ASSUME NEW n \in nodes2
      PROVE  IsSeq(m2[n].statements) /\ <<m2[n].statements, n, Into(n)>> \in R2
  <2>1. IsSeq(m[n].statements) /\ <<m[n].statements, n, Into(n)>> \in R
    BY <1>0 DEF Simulates
  <2>2. CASE n = a
    <3>1. IsSeq(m[a].statements \o T[a])  BY <1>0, <2>1, <2>2, ConcatFacts
    <3>2. <<m[a].statements \o T[a], a, Into(a)>> \in R2  BY <1>0, <1>1, <2>1, <2>2
    <3> QED  BY <1>0, <2>2, <3>1, <3>2
  <2>3. CASE n # a
    <3>1. n \in nodes2 \ {a} /\ m2[n] = m[n]  BY <1>0, <2>3
    <3> QED  BY <1>1, <2>1, <3>1
  <2> QED  BY <2>2, <2>3
<1>3. ASSUME NEW x \in R2
      PROVE  /\ x = <<x[1], x[2], x[3]>> /\ IsSeq(x[1]) /\ x[2] \in nodes2
             /\ \A v \in Valuations(blocks) :
                  Agrees(blocks, R2, x[1], x[2], m2[x[2]], x[3], v)
  <2>1. CASE x \in {<<y[1] \o T[y[2]], a, y[3]>> : y \in {y \in R : y[2] \in D}}
    <3>1. PICK y \in R : y[2] \in D /\ x = <<y[1] \o T[y[2]], a, y[3]>>  BY <2>1
    <3>2. /\ y = <<y[1], y[2], y[3]>> /\ IsSeq(y[1])
          /\ \A v \in Valuations(blocks) :
               Agrees(blocks, R, y[1], y[2], m[y[2]], y[3], v)
      BY DEF Simulates
    <3> DEFINE k == y[1]
               s == y[2]
               p == y[3]
    <3>3. <<k, s, p>> \in R /\ s \in D /\ IsSeq(k) /\ IsSeq(T[s])  BY <1>0, <3>1, <3>2
    <3>4. x[1] = k \o T[s] /\ x[2] = a /\ x[3] = p  BY <3>1
    <3>5. \A v \in Valuations(blocks) : Agrees(blocks, R, k, s, m[s], p, v)
      BY <3>2
    <3>6. x = <<x[1], x[2], x[3]>>  BY <3>1, <3>4
    <3> HIDE DEF k, s, p
    <3>7. IsSeq(k \o T[s])  BY <3>3, ConcatFacts
    <3>8. ASSUME NEW v \in Valuations(blocks)
          PROVE  Agrees(blocks, R2, k \o T[s], a, m2[a], p, v)
      <4>1. CASE k = <<>>
        <5>1. k \o T[s] = T[s]  BY <3>3, <4>1, ConcatFacts
        <5> QED  BY <1>0, <3>3, <4>1, <5>1
      <4>2. CASE k # <<>>
        <5>1. \A l, q : <<l, s, q>> \in R => <<l \o T[s], a, q>> \in R2
          BY <1>1, <3>3
        <5> QED  BY <3>3, <3>5, <4>2, <5>1, AgreesThen
      <4> QED  BY <4>1, <4>2
    <3> QED  BY <1>0, <3>4, <3>6, <3>7, <3>8
  <2>2. CASE x \in R /\ x[2] \in nodes2 \ {a}
    <3>1. /\ x = <<x[1], x[2], x[3]>> /\ IsSeq(x[1])
          /\ \A v \in Valuations(blocks) :
               Agrees(blocks, R, x[1], x[2], m[x[2]], x[3], v)
      BY <2>2 DEF Simulates
    <3> DEFINE k == x[1]
               n == x[2]
               p == x[3]
    <3>2. /\ IsSeq(k) /\ n \in nodes2 \ {a} /\ m2[n] = m[n]
          /\ \A v \in Valuations(blocks) : Agrees(blocks, R, k, n, m[n], p, v)
      BY <1>0, <2>2, <3>1
    <3> HIDE DEF k, n, p
    <3>3. \A l, q : <<l, n, q>> \in R => <<l \o <<>>, n, q>> \in R2
      <4> SUFFICES ASSUME NEW l, NEW q, <<l, n, q>> \in R
                   PROVE  <<l \o <<>>, n, q>> \in R2
        OBVIOUS
      <4>1. l \o <<>> = l  BY SimulatesOne, OneStatement, ConcatFacts
      <4> QED  BY <1>1, <3>2, <4>1
    <3>4. ASSUME NEW v \in Valuations(blocks)
          PROVE  Agrees(blocks, R2, k, n, m2[n], p, v)
      <4>1. CASE k = <<>>  BY <3>2, <4>1 DEF Agrees
      <4>2. CASE k # <<>>
        <5>1. Agrees(blocks, R2, k \o <<>>, n, m2[n], p, v)
          BY <3>2, <3>3, <4>2, OneStatement, AgreesThen
        <5>2. k \o <<>> = k  BY <3>2, OneStatement, ConcatFacts
        <5> QED  BY <5>1, <5>2
      <4> QED  BY <4>1, <4>2
    <3> QED  BY <1>0, <2>2, <3>1, <3>4 DEF k, n, p
  <2>3. CASE x \in {<<<<>>, a, p>> : p \in P}
    <3>1. PICK p \in P : x = <<<<>>, a, p>>  BY <2>3
    <3>2. x[1] = <<>> /\ x[2] = a /\ x[3] = p  BY <3>1
    <3>3. \A v \in Valuations(blocks) : Agrees(blocks, R2, <<>>, a, m2[a], p, v)
      BY <1>0, <3>1 DEF Agrees
    <3> QED  BY <1>0, <3>1, <3>2, <3>3, OneStatement
  <2> QED  BY <1>a, <2>1, <2>2, <2>3 DEF Rewritten
<1>4. Simulates(blocks, R2, nodes2, m2)  BY <1>2, <1>3 DEF Simulates
<1> QED  BY <1>4 DEF R2

-----------------------------------------------------------------------------
(* The three ways the rules rewrite.                                       *)

\* A block whose targets are all d goes on to d.
LEMMA ExitsTo ==
  ASSUME NEW blocks, NEW e, NEW p, NEW v, NEW d, Exits(blocks, e, p, v),
         e.targets \in Seq(Name), Len(e.targets) <= 2, Listed(e.targets) = {d}
  PROVE  Goes(blocks, p, v, Into(d))
<1>1. CASE Len(e.targets) = 1
  <2>1. e.targets[1] = d  BY <1>1, ListedFacts
  <2> QED  BY <1>1, <2>1 DEF Exits
<1>2. CASE Len(e.targets) = 2
  <2>1. e.targets[1] = d /\ e.targets[2] = d  BY <1>2, ListedFacts
  <2>2. Moves(blocks, p, v, Into(d))  BY <1>2, <2>1 DEF Exits
  <2> QED  BY <2>2, GoesMoves
<1> QED  BY <1>1, <1>2, ListedFacts

\* A block left with the one target d exits to d.
LEMMA ExitsOne ==
  ASSUME NEW blocks, NEW e, NEW p, NEW v, NEW d \in Name, e.targets = <<d>>,
         Goes(blocks, p, v, Into(d))
  PROVE  Exits(blocks, e, p, v)
<1>1. Len(<<d>>) = 1 /\ <<d>>[1] = d  OBVIOUS
<1> QED  BY <1>1 DEF Exits

\* When nothing is left of node n, the source goes on to d.
GoesOn(blocks, R, n, d) ==
  \A v \in Valuations(blocks) : \A p :
    <<<<>>, n, p>> \in R => Goes(blocks, p, v, Into(d))

\* What the rewrites leave of the entry of a.
AbsorbedEntry(m, m2, a, last, stmts) ==
  /\ m2[a].statements = m[a].statements \o stmts
  /\ m2[a].condition = m[last].condition
  /\ m2[a].targets = m[last].targets
BranchEntry(m, m2, a, arm1, arm2, d) ==
  /\ m2[a].statements =
       IF arm1 = <<>> /\ arm2 = <<>> THEN m[a].statements
       ELSE Append(m[a].statements, If(m[a].condition, arm1, arm2))
  /\ m2[a].targets = <<d>>
LoopEntry(m, m2, a, first, stmts, exit) ==
  /\ m2[a].statements =
       Append(m[a].statements,
              While(m[a].condition, m[a].targets[1] # first, stmts))
  /\ m2[a].targets = <<exit>>

\* Sequential and short-circuit: a runs on into last, which nothing else enters
\* but over a, and takes its exits over.
LEMMA AbsorbSimulates ==
  ASSUME NEW blocks, NEW R, NEW nodes, NEW m, Simulates(blocks, R, nodes, m),
         NEW a \in nodes, NEW last \in nodes, a # last,
         NEW nodes2 \in SUBSET (nodes \ {last}), a \in nodes2, NEW m2,
         GoesOn(blocks, R, a, last),
         AbsorbedEntry(m, m2, a, last, m[last].statements),
         \A n \in nodes2 \ {a} : m2[n] = m[n]
  PROVE  \E R2 : Simulates(blocks, R2, nodes2, m2)
<1> DEFINE D == {a, last}
           t == m[last].statements
           T == [s \in D |-> IF s = a THEN t ELSE <<>>]
           R2 == Rewritten(R, D, T, a, nodes2 \ {a}, {})
<1>0. /\ m2[a].statements = m[a].statements \o t
      /\ m2[a].condition = m[last].condition /\ m2[a].targets = m[last].targets
      /\ \A v \in Valuations(blocks) : \A p :
           <<<<>>, a, p>> \in R => Goes(blocks, p, v, Into(last))
  BY DEF AbsorbedEntry, GoesOn
<1>1. T[a] = t /\ T[last] = <<>>  OBVIOUS
<1>2. IsSeq(t) /\ <<t, last, Into(last)>> \in R  BY DEF Simulates
<1>3. \A s \in D : IsSeq(T[s])  BY <1>1, <1>2, OneStatement
<1>4. \A k, q : <<k, last, q>> \in R => <<k \o T[last], a, q>> \in R2
  BY RewrittenHas
<1> HIDE DEF R2, T
<1>5. ASSUME NEW v \in Valuations(blocks), NEW p, <<<<>>, last, p>> \in R
      PROVE  Agrees(blocks, R2, <<>>, a, m2[a], p, v)
  <2>1. Agrees(blocks, R, <<>>, last, m[last], p, v)  BY <1>5, SimulatesOne
  <2> QED  BY <1>0, <2>1 DEF Agrees, Exits
<1>6. ASSUME NEW v \in Valuations(blocks)
      PROVE  Agrees(blocks, R2, t, a, m2[a], Into(last), v)
  <2>1. Agrees(blocks, R, t, last, m[last], Into(last), v)  BY <1>2, SimulatesOne
  <2>2. CASE t = <<>>  BY <1>2, <1>5, <2>2
  <2>3. CASE t # <<>>
    <3>1. t \o T[last] = t  BY <1>1, <1>2, OneStatement, ConcatFacts
    <3>2. Agrees(blocks, R2, t \o T[last], a, m2[a], Into(last), v)
      BY <1>2, <1>3, <1>4, <2>1, <2>3, AgreesThen
    <3> QED  BY <3>1, <3>2
  <2> QED  BY <2>2, <2>3
<1>7. ASSUME NEW v \in Valuations(blocks), NEW p, <<<<>>, a, p>> \in R
      PROVE  Agrees(blocks, R2, t, a, m2[a], p, v)
  BY <1>0, <1>6, <1>7, AgreesEarlier
<1>8. \A s \in D, v \in Valuations(blocks) : \A p :
        <<<<>>, s, p>> \in R => Agrees(blocks, R2, T[s], a, m2[a], p, v)
  BY <1>1, <1>5, <1>7
<1>9. RewriteSound(blocks, R, nodes, m, D, a, T, {}, nodes2, m2)
  <2>1. D \subseteq nodes /\ a \in D /\ nodes2 \subseteq nodes  OBVIOUS
  <2>2. m2[a].statements = m[a].statements \o T[a]  BY <1>0, <1>1
  <2> HIDE DEF D, t
  <2> QED  BY <1>3, <1>8, <2>1, <2>2 DEF RewriteSound, R2
<1> QED  BY <1>9, RewriteSimulates

\* If-else and if without else: a's branch goes to an arm, a node of B that goes
\* on to d, or to d itself.
ArmOf(m, B, d, t, arm) ==
  \/ t \in B /\ arm = m[t].statements
  \/ t = d /\ arm = <<>>

Arms(m, B, a, d, arm1, arm2) ==
  /\ ArmOf(m, B, d, m[a].targets[1], arm1)
  /\ ArmOf(m, B, d, m[a].targets[2], arm2)

LEMMA BranchSimulates ==
  ASSUME NEW blocks, NEW R, NEW nodes, NEW m, Simulates(blocks, R, nodes, m),
         NEW B \in SUBSET nodes, NEW a \in nodes, a \notin B, NEW d \in Name,
         NEW nodes2 \in SUBSET (nodes \ B), a \in nodes2, NEW m2,
         Len(m[a].targets) = 2, NEW arm1, NEW arm2, Arms(m, B, a, d, arm1, arm2),
         \A s \in B : GoesOn(blocks, R, s, d),
         BranchEntry(m, m2, a, arm1, arm2, d),
         \A n \in nodes2 \ {a} : m2[n] = m[n]
  PROVE  \E R2 : Simulates(blocks, R2, nodes2, m2)
<1> DEFINE D == B \cup {a}
           I == If(m[a].condition, arm1, arm2)
           t == IF arm1 = <<>> /\ arm2 = <<>> THEN <<>> ELSE <<I>>
           T == [s \in D |-> IF s = a THEN t ELSE <<>>]
           P == {Into(d)}
           R2 == Rewritten(R, D, T, a, nodes2 \ {a}, P)
           Sa == m[a].statements
<1>0. /\ m2[a].statements = IF arm1 = <<>> /\ arm2 = <<>> THEN Sa ELSE Append(Sa, I)
      /\ m2[a].targets = <<d>>
      /\ \A s \in B, v \in Valuations(blocks) : \A p :
           <<<<>>, s, p>> \in R => Goes(blocks, p, v, Into(d))
  BY DEF BranchEntry, GoesOn
<1>1. T[a] = t /\ \A s \in B : T[s] = <<>>  OBVIOUS
<1>2. IsSeq(Sa) /\ \A s \in nodes : IsSeq(m[s].statements)
                   /\ <<m[s].statements, s, Into(s)>> \in R
  BY DEF Simulates
<1>3. IsSeq(t) /\ \A s \in D : IsSeq(T[s])  BY <1>1, OneStatement
<1>4. /\ \A s \in B : \A k, p : <<k, s, p>> \in R => <<k \o T[s], a, p>> \in R2
      /\ <<<<>>, a, Into(d)>> \in R2
  BY RewrittenHas
<1>5. I.kind = "if" /\ I.cond = m[a].condition
      /\ I.ifBlock = arm1 /\ I.elseBlock = arm2
  BY DEF If
<1>r. R2 = Rewritten(R, D, T, a, nodes2 \ {a}, P)  OBVIOUS
<1>s. m2[a].statements = Sa \o T[a]
  <2>1. m2[a].statements = IF arm1 = <<>> /\ arm2 = <<>> THEN Sa ELSE Append(Sa, I)
    BY <1>0
  <2>2. Append(Sa, I) = Sa \o <<I>> /\ Sa \o <<>> = Sa
    BY <1>2, OneStatement, ConcatFacts, AppendIsConcatOne
  <2> HIDE DEF I, T, Sa
  <2> QED  BY <1>1, <2>1, <2>2
<1> HIDE DEF R2, T, I
<1>6. ASSUME NEW x, NEW arm, ArmOf(m, B, d, x, arm), NEW v \in Valuations(blocks)
      PROVE  /\ IsSeq(arm) /\ <<arm, a, Into(x)>> \in R2
             /\ arm = <<>> => Goes(blocks, Into(x), v, Into(d))
  <2>1. CASE x \in B /\ arm = m[x].statements
    <3>1. IsSeq(arm) /\ <<arm, x, Into(x)>> \in R  BY <1>2, <2>1
    <3>2. <<arm \o <<>>, a, Into(x)>> \in R2  BY <1>1, <1>4, <2>1, <3>1
    <3>3. arm \o <<>> = arm  BY <3>1, OneStatement, ConcatFacts
    <3> QED  BY <1>0, <2>1, <3>1, <3>2, <3>3
  <2>2. CASE x = d /\ arm = <<>>
    BY <1>4, <2>2, OneStatement, GoesMoves
  <2> QED  BY <1>6, <2>1, <2>2 DEF ArmOf
<1>7. ASSUME NEW v \in Valuations(blocks), NEW p, Goes(blocks, p, v, Into(d))
      PROVE  Agrees(blocks, R2, <<>>, a, m2[a], p, v)
  BY <1>0, <1>7, ExitsOne DEF Agrees
<1>8. ASSUME NEW v \in Valuations(blocks), NEW p, <<<<>>, a, p>> \in R
      PROVE  Agrees(blocks, R2, t, a, m2[a], p, v)
  <2> DEFINE c == m[a].condition
             x == IF v[c] THEN m[a].targets[1] ELSE m[a].targets[2]
             arm == IF v[c] THEN arm1 ELSE arm2
  <2>1. Agrees(blocks, R, <<>>, a, m[a], p, v)  BY <1>8, SimulatesOne
  <2>2. v[c] \in BOOLEAN /\ Moves(blocks, p, v, Into(x))
    BY <2>1 DEF Agrees, Exits
  <2>3. ArmOf(m, B, d, x, arm)  BY <2>2 DEF Arms
  <2>4. /\ IsSeq(arm) /\ <<arm, a, Into(x)>> \in R2
        /\ arm = <<>> => Goes(blocks, Into(x), v, Into(d))
    <3> HIDE DEF x, arm
    <3> QED  BY <1>6, <2>3
  <2>5. CASE arm1 = <<>> /\ arm2 = <<>>
    <3>1. arm = <<>> /\ t = <<>>  BY <2>5
    <3> HIDE DEF x, arm, t
    <3>2. Goes(blocks, p, v, Into(d))  BY <2>2, <2>4, <3>1, GoesMoves
    <3> QED  BY <1>7, <3>1, <3>2
  <2>6. CASE ~(arm1 = <<>> /\ arm2 = <<>>)
    <3>1. t = <<I>>  BY <2>6
    <3>2. t # <<>> /\ Head(t) = I /\ Tail(t) = <<>>  BY <3>1, OneStatement
    <3>3. IsSeq(arm1) /\ IsSeq(arm2)  BY <1>6 DEF Arms
    <3>4. Tested(t, v) = arm
      <4>1. Tested(t, v) = arm \o <<>>  BY <1>5, <3>2 DEF Tested
      <4>2. arm \o <<>> = arm  BY <2>4, OneStatement, ConcatFacts
      <4> QED  BY <4>1, <4>2
    <3> HIDE DEF t, x, arm
    <3>5. IsTest(Head(t))  BY <1>5, <3>2, <3>3 DEF IsTest
    <3>6. Tests(blocks, R2, t, a, p, v)  BY <2>2, <2>4, <3>4, <3>5 DEF Tests
    <3> QED  BY <3>2, <3>6 DEF Agrees
  <2> QED  BY <2>5, <2>6
<1>9. \A s \in D, v \in Valuations(blocks) : \A p :
        <<<<>>, s, p>> \in R => Agrees(blocks, R2, T[s], a, m2[a], p, v)
  <2> SUFFICES ASSUME NEW s \in D, NEW v \in Valuations(blocks), NEW p,
                      <<<<>>, s, p>> \in R
               PROVE  Agrees(blocks, R2, T[s], a, m2[a], p, v)
    OBVIOUS
  <2>1. CASE s = a  BY <1>1, <1>8, <2>1
  <2>2. CASE s \in B  BY <1>0, <1>1, <1>7, <2>2
  <2> QED  BY <2>1, <2>2
<1>10. \A p \in P, v \in Valuations(blocks) : Exits(blocks, m2[a], p, v)
  <2>1. \A v \in Valuations(blocks) : Goes(blocks, Into(d), v, Into(d))
    BY GoesMoves
  <2> QED  BY <1>0, <2>1, ExitsOne
<1>11. RewriteSound(blocks, R, nodes, m, D, a, T, P, nodes2, m2)
  <2>1. D \subseteq nodes /\ a \in D /\ nodes2 \subseteq nodes  OBVIOUS
  <2> HIDE DEF D, P, t
  <2> QED  BY <1>3, <1>s, <1>9, <1>10, <2>1 DEF RewriteSound, R2
<1> QED  BY <1>11, RewriteSimulates

\* Self-loop and while: a's branch goes to first, where the body of the loop
\* starts, or to the exit.  The body is a itself, or first and then a again.
LoopBody(blocks, R, m, a, first, stmts) ==
  \/ first = a /\ stmts = m[a].statements
  \/ /\ first # a /\ stmts = m[first].statements \o m[a].statements
     /\ GoesOn(blocks, R, first, a)

BranchesTo(m, a, x, y) ==
  Len(m[a].targets) = 2 /\ {m[a].targets[1], m[a].targets[2]} = {x, y}

LEMMA LoopSimulates ==
  ASSUME NEW blocks, NEW R, NEW nodes, NEW m, Simulates(blocks, R, nodes, m),
         NEW a \in nodes, NEW first \in nodes, NEW exit \in Name, first # exit,
         NEW nodes2 \in SUBSET nodes, a \in nodes2, NEW m2,
         BranchesTo(m, a, first, exit), NEW stmts,
         LoopBody(blocks, R, m, a, first, stmts),
         LoopEntry(m, m2, a, first, stmts, exit),
         \A n \in nodes2 \ {a} : m2[n] = m[n]
  PROVE  \E R2 : Simulates(blocks, R2, nodes2, m2)
<1> DEFINE D == {a, first}
           Sa == m[a].statements
           Sf == m[first].statements
           W == While(m[a].condition, m[a].targets[1] # first, stmts)
           w == <<W>>
           T == [s \in D |-> IF s = a THEN w ELSE Sa \o w]
           P == {Into(exit)}
           R2 == Rewritten(R, D, T, a, nodes2 \ {a}, P)
<1>0. /\ m2[a].statements = Append(Sa, W) /\ m2[a].targets = <<exit>>
      /\ first # a => \A v \in Valuations(blocks) : \A p :
           <<<<>>, first, p>> \in R => Goes(blocks, p, v, Into(a))
      /\ Len(m[a].targets) = 2 /\ {m[a].targets[1], m[a].targets[2]} = {first, exit}
      /\ (first = a /\ stmts = Sa) \/ (first # a /\ stmts = Sf \o Sa)
  BY DEF LoopEntry, GoesOn, LoopBody, BranchesTo
<1>1. T[a] = w /\ (first # a => T[first] = Sa \o w)  OBVIOUS
<1>2. /\ IsSeq(Sa) /\ <<Sa, a, Into(a)>> \in R
      /\ IsSeq(Sf) /\ <<Sf, first, Into(first)>> \in R
  BY DEF Simulates
<1>3. /\ IsSeq(w) /\ w # <<>> /\ Head(w) = W /\ Tail(w) = <<>>
      /\ IsSeq(Sa \o w) /\ \A s \in D : IsSeq(T[s])
  BY <1>1, <1>2, OneStatement, ConcatFacts
<1>4. /\ \A s \in D : \A k, p : <<k, s, p>> \in R => <<k \o T[s], a, p>> \in R2
      /\ <<<<>>, a, Into(exit)>> \in R2
  BY RewrittenHas
<1>5. W.kind = "while" /\ W.cond = m[a].condition
      /\ W.negated = (m[a].targets[1] # first) /\ W.body = stmts
  BY DEF While
<1>6. m2[a].statements = Sa \o T[a]
  <2>1. m2[a].statements = Append(Sa, W)  BY <1>0
  <2>2. Append(Sa, W) = Sa \o <<W>>  BY <1>2, AppendIsConcatOne
  <2> HIDE DEF W, T, Sa
  <2> QED  BY <1>1, <2>1, <2>2
<1> HIDE DEF R2, T, W
<1>7. IsSeq(stmts) /\ <<stmts \o w, a, Into(first)>> \in R2
  <2>1. CASE first = a /\ stmts = Sa
    BY <1>1, <1>2, <1>4, <2>1
  <2>2. CASE first # a /\ stmts = Sf \o Sa
    <3>1. <<Sf \o T[first], a, Into(first)>> \in R2  BY <1>2, <1>4
    <3>2. Regroups(Sf, Sa, w)  BY <1>2, <1>3, ConcatRegroups
    <3>3. IsSeq(Sf \o Sa)  BY <1>2, ConcatFacts
    <3> QED  BY <1>1, <2>2, <3>1, <3>2, <3>3 DEF Regroups
  <2> QED  BY <1>0, <2>1, <2>2
<1>8. ASSUME NEW v \in Valuations(blocks), NEW p, <<<<>>, a, p>> \in R
      PROVE  Agrees(blocks, R2, w, a, m2[a], p, v)
  <2> DEFINE c == m[a].condition
             x == IF v[c] THEN m[a].targets[1] ELSE m[a].targets[2]
  <2>1. Agrees(blocks, R, <<>>, a, m[a], p, v)  BY <1>8, SimulatesOne
  <2>2. v[c] \in BOOLEAN /\ Moves(blocks, p, v, Into(x))
    BY <1>0, <2>1 DEF Agrees, Exits
  <2>3. /\ v[c] = W.negated => x = exit
        /\ v[c] # W.negated => x = first
    BY <1>0, <1>5, <2>2
  <2>4. <<Tested(w, v), a, Into(x)>> \in R2
    <3>1. CASE v[c] = W.negated
      <4>1. Tested(w, v) = <<>>  BY <1>3, <1>5, <3>1 DEF Tested
      <4> QED  BY <1>4, <2>3, <3>1, <4>1
    <3>2. CASE v[c] # W.negated
      <4>1. Tested(w, v) = stmts \o w  BY <1>3, <1>5, <3>2 DEF Tested
      <4> QED  BY <1>7, <2>3, <3>2, <4>1
    <3> QED  BY <3>1, <3>2
  <2>5. IsTest(Head(w))  BY <1>3, <1>5, <1>7 DEF IsTest
  <2> HIDE DEF w, x
  <2>6. Tests(blocks, R2, w, a, p, v)  BY <2>2, <2>4, <2>5 DEF Tests
  <2> QED  BY <1>3, <2>6 DEF Agrees
<1>9. ASSUME first # a, NEW v \in Valuations(blocks), NEW p,
             <<<<>>, first, p>> \in R
      PROVE  Agrees(blocks, R2, Sa \o w, a, m2[a], p, v)
  <2>1. Goes(blocks, p, v, Into(a))  BY <1>0, <1>9
  <2>2. Agrees(blocks, R, Sa, a, m[a], Into(a), v)  BY <1>2, SimulatesOne
  <2>3. Agrees(blocks, R2, Sa \o w, a, m2[a], Into(a), v)
    <3>1. CASE Sa = <<>>
      <4>1. Sa \o w = w  BY <1>3, <3>1, OneStatement, ConcatFacts
      <4> QED  BY <1>2, <1>8, <3>1, <4>1
    <3>2. CASE Sa # <<>>
      <4>1. \A l, q : <<l, a, q>> \in R => <<l \o w, a, q>> \in R2  BY <1>1, <1>4
      <4> HIDE DEF w, Sa
      <4> QED  BY <1>2, <1>3, <2>2, <3>2, <4>1, AgreesThen
    <3> QED  BY <3>1, <3>2
  <2> QED  BY <2>1, <2>3, AgreesEarlier
<1>10. \A s \in D, v \in Valuations(blocks) : \A p :
         <<<<>>, s, p>> \in R => Agrees(blocks, R2, T[s], a, m2[a], p, v)
  <2> HIDE DEF w, Sa
  <2> QED  BY <1>1, <1>8, <1>9
<1>11. \A p \in P, v \in Valuations(blocks) : Exits(blocks, m2[a], p, v)
  <2>1. \A v \in Valuations(blocks) : Goes(blocks, Into(exit), v, Into(exit))
    BY GoesMoves
  <2> QED  BY <1>0, <2>1, ExitsOne
<1>12. RewriteSound(blocks, R, nodes, m, D, a, T, P, nodes2, m2)
  <2>1. D \subseteq nodes /\ a \in D /\ nodes2 \subseteq nodes  OBVIOUS
  <2> HIDE DEF D, P, w
  <2> QED  BY <1>3, <1>6, <1>10, <1>11, <2>1 DEF RewriteSound, R2
<1> HIDE DEF D, P, Sa, Sf, w
<1> QED  BY <1>12, RewriteSimulates

-----------------------------------------------------------------------------
(* Each rule of the reducer rewrites in one of those ways.                 *)

\* What a rule that absorbs leaves of A.
LEMMA AbsorbLeaves ==
  ASSUME Invariant, NEW a \in cfg.nodes, NEW B, a \notin B, NEW stmts, NEW last,
         Absorb(a, B, stmts, last)
  PROVE  AbsorbedEntry(map, map', a, last, stmts)
<1>1. a \in DOMAIN map  BY NodeFacts
<1>2. map'[a] = MapEntry(map[a].statements \o stmts, map[last].condition,
                         map[last].targets)
  BY <1>1 DEF Absorb, Drop
<1> QED  BY <1>2 DEF MapEntry, AbsorbedEntry

\* What a rule that takes the condition leaves of A.
LEMMA TakeLeaves ==
  ASSUME Invariant, NEW a \in cfg.nodes, NEW stmts, NEW d,
         TakeCondition(a, stmts, d)
  PROVE  map'[a].statements = stmts /\ map'[a].targets = <<d>>
<1>1. a \in DOMAIN map  BY NodeFacts
<1>2. map'[a] = MapEntry(stmts, NoCond, <<d>>)  BY <1>1 DEF TakeCondition
<1> QED  BY <1>2 DEF MapEntry

\* The nodes and entries a contraction leaves alone.
LEMMA ContractedMap ==
  ASSUME NEW a, NEW B, Contracts(a, B)
  PROVE  /\ cfg'.nodes = cfg.nodes \ B /\ a \in cfg.nodes /\ a \notin B
         /\ B \subseteq cfg.nodes /\ input' = input /\ status' = status
         /\ \A n \in cfg'.nodes \ {a} : map'[n] = map[n]
BY DEF Contracts, GraphContracts, MapFollows

\* Nothing left of a node with one successor: the source goes on to it.
LEMMA LeavesTo ==
  ASSUME Invariant, NEW R, Simulates(input, R, cfg.nodes, map),
         NEW n \in cfg.nodes, NEW d, cfg.succ[n] = {d}
  PROVE  GoesOn(input, R, n, d)
<1> SUFFICES ASSUME NEW v \in Valuations(input), NEW p, <<<<>>, n, p>> \in R
             PROVE  Goes(input, p, v, Into(d))
  BY DEF GoesOn
<1>1. Agrees(input, R, <<>>, n, map[n], p, v)  BY SimulatesOne
<1>2. Exits(input, map[n], p, v)  BY <1>1 DEF Agrees
<1>3. /\ map[n].targets \in Seq(Name) /\ Len(map[n].targets) <= 2
      /\ Listed(map[n].targets) = {d}
  BY NodeFacts
<1> QED  BY <1>2, <1>3, ExitsTo

LEMMA SequentialSimulates ==
  ASSUME Invariant, NEW R, Simulates(input, R, cfg.nodes, map),
         NEW a \in cfg.nodes, NEW b \in cfg.succ[a], a # b, ReduceSequential(a, b)
  PROVE  \E R2 : Simulates(input, R2, cfg'.nodes, map')
<1>1. Contracts(a, {b})  BY SequentialContracts
<1>2. /\ cfg'.nodes = cfg.nodes \ {b} /\ b \in cfg.nodes
      /\ \A n \in cfg'.nodes \ {a} : map'[n] = map[n]
  BY <1>1, ContractedMap
<1>3. cfg.succ[a] = {b} /\ Absorb(a, {b}, map[b].statements, b)
  BY DEF ReduceSequential, SequentialAt
<1>4. AbsorbedEntry(map, map', a, b, map[b].statements)
  BY <1>3, AbsorbLeaves
<1>5. GoesOn(input, R, a, b)  BY <1>3, LeavesTo
<1>6. cfg'.nodes \in SUBSET (cfg.nodes \ {b}) /\ a \in cfg'.nodes  BY <1>2
<1> QED  BY <1>2, <1>4, <1>5, <1>6, AbsorbSimulates

LEMMA ShortCircuitSimulates ==
  ASSUME Invariant, NEW R, Simulates(input, R, cfg.nodes, map),
         NEW a \in cfg.nodes, NEW b \in cfg.succ[a], NEW c \in cfg.succ[a], a # c,
         ReduceShortCircuit(a, b, c)
  PROVE  \E R2 : Simulates(input, R2, cfg'.nodes, map')
<1>1. Contracts(a, {b, c})  BY ShortCircuitContracts
<1>2. /\ cfg'.nodes = cfg.nodes \ {b, c} /\ b \in cfg.nodes /\ c \in cfg.nodes
      /\ a \notin {b, c}
      /\ \A n \in cfg'.nodes \ {a} : map'[n] = map[n]
  BY <1>1, ContractedMap
<1>3. /\ b # c /\ cfg.succ[a] = {b, c} /\ cfg.succ[b] = {c}
      /\ map[b].statements = <<>>
      /\ Absorb(a, {b, c}, map[b].statements \o map[c].statements, c)
  BY DEF ReduceShortCircuit, ShortCircuitAt
<1>4. Absorb(a, {b, c}, map[c].statements, c)
  <2>1. IsSeq(map[c].statements)  BY <1>2 DEF Simulates
  <2>2. <<>> \o map[c].statements = map[c].statements
    BY <2>1, OneStatement, ConcatFacts
  <2> QED  BY <1>3, <2>2
<1>5. AbsorbedEntry(map, map', a, c, map[c].statements)
  BY <1>2, <1>4, AbsorbLeaves
<1>6. \A v \in Valuations(input) : Goes(input, Into(b), v, Into(c))
  <2>1. <<<<>>, b, Into(b)>> \in R  BY <1>2, <1>3 DEF Simulates
  <2>2. GoesOn(input, R, b, c)  BY <1>2, <1>3, LeavesTo
  <2> QED  BY <2>1, <2>2 DEF GoesOn
<1>7. ASSUME NEW v \in Valuations(input), NEW p, <<<<>>, a, p>> \in R
      PROVE  Goes(input, p, v, Into(c))
  <2>1. Exits(input, map[a], p, v)
    <3>1. Agrees(input, R, <<>>, a, map[a], p, v)  BY <1>7, SimulatesOne
    <3> QED  BY <3>1 DEF Agrees
  <2>2. PICK x \in {b, c} : Goes(input, p, v, Into(x))
    <3>1. /\ map[a].targets \in Seq(Name) /\ Len(map[a].targets) <= 2
          /\ Listed(map[a].targets) = {b, c}
      BY <1>3, NodeFacts
    <3>2. Len(map[a].targets) = 2 /\ {map[a].targets[1], map[a].targets[2]} = {b, c}
      BY <1>3, <3>1, ListedFacts
    <3>3. \E x \in {b, c} : Moves(input, p, v, Into(x))
      <4> DEFINE x == IF v[map[a].condition] THEN map[a].targets[1]
                                             ELSE map[a].targets[2]
      <4>1. x \in {b, c}  BY <3>2
      <4>2. Moves(input, p, v, Into(x))  BY <2>1, <3>2 DEF Exits
      <4> QED  BY <4>1, <4>2
    <3> QED  BY <3>3, GoesMoves
  <2>3. Goes(input, Into(x), v, Into(c))
    BY <1>6, GoesMoves
  <2> QED  BY <2>2, <2>3, GoesMoves
<1>8. GoesOn(input, R, a, c)  BY <1>7 DEF GoesOn
<1>9. cfg'.nodes \in SUBSET (cfg.nodes \ {c}) /\ a \in cfg'.nodes  BY <1>2
<1> QED  BY <1>2, <1>5, <1>8, <1>9, AbsorbSimulates

\* Two successors are the two targets.
LEMMA TwoTargets ==
  ASSUME Invariant, NEW a \in cfg.nodes, NEW b, NEW c, b # c, cfg.succ[a] = {b, c}
  PROVE  /\ Len(map[a].targets) = 2 /\ map[a].condition # NoCond
         /\ {map[a].targets[1], map[a].targets[2]} = {b, c}
<1>1. /\ map[a].targets \in Seq(Name) /\ Len(map[a].targets) <= 2
      /\ Listed(map[a].targets) = {b, c}
  BY NodeFacts
<1> QED  BY <1>1, ListedFacts, TwoSuccessors

\* The statements WithBranch leaves are those of the branch rewrite.
LEMMA BranchLeaves ==
  ASSUME Invariant, NEW a \in cfg.nodes, NEW arm1, NEW arm2, NEW d,
         TakeCondition(a, WithBranch(a, arm1, arm2), d)
  PROVE  BranchEntry(map, map', a, arm1, arm2, d)
<1>1. map'[a].statements = WithBranch(a, arm1, arm2) /\ map'[a].targets = <<d>>
  BY TakeLeaves
<1> QED  BY <1>1 DEF WithBranch, BranchEntry

LEMMA IfElseSimulates ==
  ASSUME Invariant, NEW R, Simulates(input, R, cfg.nodes, map),
         NEW a \in cfg.nodes, NEW b \in cfg.succ[a], NEW c \in cfg.succ[a],
         NEW d \in cfg.succ[b], ReduceIfElse(a, b, c, d)
  PROVE  \E R2 : Simulates(input, R2, cfg'.nodes, map')
<1> DEFINE t1 == map[a].targets[1]
           t2 == map[a].targets[2]
<1>1. b # c /\ cfg.succ[a] = {b, c} /\ cfg.succ[b] = {d} /\ cfg.succ[c] = {d}
  BY DEF ReduceIfElse, IfElseAt
<1>2. Len(map[a].targets) = 2 /\ map[a].condition # NoCond /\ {t1, t2} = {b, c}
  BY <1>1, TwoTargets
<1>3. TakeCondition(a, WithBranch(a, map[t1].statements, map[t2].statements), d)
  BY <1>2 DEF ReduceIfElse
<1>4. Contracts(a, {b, c})  BY <1>2, IfElseContracts
<1>5. /\ cfg'.nodes = cfg.nodes \ {b, c} /\ b \in cfg.nodes /\ c \in cfg.nodes
      /\ a \notin {b, c} /\ \A n \in cfg'.nodes \ {a} : map'[n] = map[n]
  BY <1>4, ContractedMap
<1>6. d \in Name
  <2>1. d \in cfg.nodes  BY <1>5, NodeFacts
  <2> QED  BY <2>1, NodeFacts
<1>7. BranchEntry(map, map', a, map[t1].statements, map[t2].statements, d)
  BY <1>3, BranchLeaves
<1>8. Arms(map, {b, c}, a, d, map[t1].statements, map[t2].statements)
  <2>1. t1 \in {b, c} /\ t2 \in {b, c}  BY <1>2
  <2> QED  BY <2>1 DEF Arms, ArmOf
<1>9. \A s \in {b, c} : GoesOn(input, R, s, d)
  <2>1. GoesOn(input, R, b, d)  BY <1>1, <1>5, LeavesTo
  <2>2. GoesOn(input, R, c, d)  BY <1>1, <1>5, LeavesTo
  <2> QED  BY <2>1, <2>2
<1>10. /\ {b, c} \in SUBSET cfg.nodes /\ a \in cfg'.nodes
       /\ cfg'.nodes \in SUBSET (cfg.nodes \ {b, c})
  BY <1>5
<1> QED  BY <1>2, <1>5, <1>6, <1>7, <1>8, <1>9, <1>10, BranchSimulates

LEMMA IfNoElseSimulates ==
  ASSUME Invariant, NEW R, Simulates(input, R, cfg.nodes, map),
         NEW a \in cfg.nodes, NEW b \in cfg.succ[a], NEW d \in cfg.succ[a],
         ReduceIfNoElse(a, b, d)
  PROVE  \E R2 : Simulates(input, R2, cfg'.nodes, map')
<1> DEFINE t1 == map[a].targets[1]
           t2 == map[a].targets[2]
           arm1 == IF t1 = b THEN map[b].statements ELSE <<>>
           arm2 == IF t1 = b THEN <<>> ELSE map[b].statements
<1>1. b # d /\ cfg.succ[a] = {b, d} /\ cfg.succ[b] = {d}
  BY DEF ReduceIfNoElse, IfNoElseAt
<1>2. Len(map[a].targets) = 2 /\ map[a].condition # NoCond /\ {t1, t2} = {b, d}
  BY <1>1, TwoTargets
<1>3. TakeCondition(a, WithBranch(a, arm1, arm2), d)
  BY <1>2 DEF ReduceIfNoElse
<1>4. Contracts(a, {b})  BY <1>2, IfNoElseContracts
<1>5. /\ cfg'.nodes = cfg.nodes \ {b} /\ b \in cfg.nodes
      /\ a \notin {b} /\ \A n \in cfg'.nodes \ {a} : map'[n] = map[n]
  BY <1>4, ContractedMap
<1>6. d \in Name
  <2>1. d \in cfg.nodes  BY NodeFacts
  <2> QED  BY <2>1, NodeFacts
<1>8. Arms(map, {b}, a, d, arm1, arm2)
  <2>1. CASE t1 = b /\ t2 = d
    <3>1. arm1 = map[b].statements /\ arm2 = <<>>  BY <2>1
    <3> QED  BY <2>1, <3>1 DEF Arms, ArmOf
  <2>2. CASE t1 = d /\ t2 = b
    <3>1. arm1 = <<>> /\ arm2 = map[b].statements  BY <1>1, <2>2
    <3> QED  BY <2>2, <3>1 DEF Arms, ArmOf
  <2>3. (t1 = b /\ t2 = d) \/ (t1 = d /\ t2 = b)  BY <1>1, <1>2
  <2> QED  BY <2>1, <2>2, <2>3
<1>9. \A s \in {b} : GoesOn(input, R, s, d)
  <2>1. GoesOn(input, R, b, d)  BY <1>1, <1>5, LeavesTo
  <2> QED  BY <2>1
<1>10. /\ {b} \in SUBSET cfg.nodes /\ a \in cfg'.nodes
       /\ cfg'.nodes \in SUBSET (cfg.nodes \ {b})
  BY <1>5
<1> HIDE DEF arm1, arm2
<1>7. BranchEntry(map, map', a, arm1, arm2, d)  BY <1>3, BranchLeaves
<1> QED  BY <1>2, <1>5, <1>6, <1>7, <1>8, <1>9, <1>10, BranchSimulates

LEMMA SelfLoopSimulates ==
  ASSUME Invariant, NEW R, Simulates(input, R, cfg.nodes, map),
         NEW n \in cfg.nodes, NEW exit \in cfg.succ[n], ReduceSelfLoop(n, exit)
  PROVE  \E R2 : Simulates(input, R2, cfg'.nodes, map')
<1> DEFINE t1 == map[n].targets[1]
           t2 == map[n].targets[2]
           Sn == map[n].statements
<1>1. exit # n /\ cfg.succ[n] = {n, exit}
  BY DEF ReduceSelfLoop, SelfLoopAt
<1>2. Len(map[n].targets) = 2 /\ map[n].condition # NoCond /\ {t1, t2} = {n, exit}
  BY <1>1, TwoTargets
<1>3. TakeCondition(n, Append(Sn, LoopOn(n, n, Sn)), exit)
  BY <1>2 DEF ReduceSelfLoop
<1>4. Contracts(n, {})  BY <1>2, SelfLoopContracts
<1>5. cfg'.nodes = cfg.nodes /\ \A k \in cfg'.nodes \ {n} : map'[k] = map[k]
  BY <1>4, ContractedMap
<1>6. exit \in Name
  <2>1. exit \in cfg.nodes  BY NodeFacts
  <2> QED  BY <2>1, NodeFacts
<1>7. LoopEntry(map, map', n, n, Sn, exit)
  BY <1>3, TakeLeaves DEF LoopEntry, LoopOn
<1>8. cfg'.nodes \in SUBSET cfg.nodes /\ n \in cfg'.nodes  BY <1>5
<1>9. BranchesTo(map, n, n, exit)  BY <1>2 DEF BranchesTo
<1>10. LoopBody(input, R, map, n, n, Sn)  BY DEF LoopBody
<1> QED  BY <1>1, <1>5, <1>6, <1>7, <1>8, <1>9, <1>10, LoopSimulates

LEMMA WhileSimulates ==
  ASSUME Invariant, NEW R, Simulates(input, R, cfg.nodes, map),
         NEW a \in cfg.nodes, NEW b \in cfg.succ[a], NEW exit \in cfg.succ[a],
         ReduceWhile(a, b, exit)
  PROVE  \E R2 : Simulates(input, R2, cfg'.nodes, map')
<1> DEFINE t1 == map[a].targets[1]
           t2 == map[a].targets[2]
           stmts == map[b].statements \o map[a].statements
<1>1. b # exit /\ cfg.succ[a] = {b, exit} /\ cfg.succ[b] = {a}
  BY DEF ReduceWhile, WhileAt
<1>2. Len(map[a].targets) = 2 /\ map[a].condition # NoCond /\ {t1, t2} = {b, exit}
  BY <1>1, TwoTargets
<1>3. TakeCondition(a, Append(map[a].statements, LoopOn(a, b, stmts)), exit)
  BY <1>2 DEF ReduceWhile, WhileBody
<1>4. Contracts(a, {b})  BY <1>2, WhileContracts
<1>5. /\ cfg'.nodes = cfg.nodes \ {b} /\ b \in cfg.nodes /\ a # b
      /\ \A k \in cfg'.nodes \ {a} : map'[k] = map[k]
  BY <1>4, ContractedMap
<1>6. exit \in Name
  <2>1. exit \in cfg.nodes  BY NodeFacts
  <2> QED  BY <2>1, NodeFacts
<1>7. LoopEntry(map, map', a, b, stmts, exit)
  BY <1>3, TakeLeaves DEF LoopEntry, LoopOn
<1>8. cfg'.nodes \in SUBSET cfg.nodes /\ a \in cfg'.nodes  BY <1>5
<1>9. GoesOn(input, R, b, a)  BY <1>1, <1>5, LeavesTo
<1>10. BranchesTo(map, a, b, exit)  BY <1>2 DEF BranchesTo
<1>11. LoopBody(input, R, map, a, b, stmts)  BY <1>5, <1>9 DEF LoopBody
<1> QED  BY <1>1, <1>5, <1>6, <1>7, <1>8, <1>10, <1>11, LoopSimulates

-----------------------------------------------------------------------------
(* The graph as built.                                                     *)

\* Past block n the walk goes where its terminator says.
LEMMA PastBlock ==
  ASSUME NEW blocks, Proper(blocks), NEW i \in DOMAIN blocks,
         NEW v \in Valuations(blocks)
  PROVE  LET b == blocks[i]
             ts == b.targets
         IN /\ ~b.code => Moves(blocks, Into(b.name), v, OutOf(b.name))
            /\ Len(ts) = 0 => Moves(blocks, OutOf(b.name), v, Returned)
            /\ Len(ts) = 1 => Moves(blocks, OutOf(b.name), v, Into(ts[1]))
            /\ Len(ts) = 2 =>
                 /\ v[b.name] \in BOOLEAN
                 /\ Moves(blocks, OutOf(b.name), v,
                          Into(IF v[b.name] THEN ts[1] ELSE ts[2]))
<1> DEFINE b == blocks[i]
           n == b.name
           ts == b.targets
<1>0. blocks # <<>>  OBVIOUS
<1>1. ASSUME ~b.code PROVE Moves(blocks, Into(n), v, OutOf(n))
  <2>1. ASSUME NEW j \in DOMAIN blocks, blocks[j].name = n PROVE j = i
    BY <2>1 DEF Proper
  <2>2. ~Waits(blocks, Into(n))
    BY <1>1, <2>1 DEF Waits, Into, Returned
  <2>3. Pass(blocks, Into(n), v) = OutOf(n)
    BY <1>0, <2>2 DEF Pass, Onward, Into
  <2> QED  BY <2>2, <2>3, OneStepMoves
<1>2. Moves(blocks, OutOf(n), v, Leave(blocks, n, v))
  <2>1. ~Waits(blocks, OutOf(n))  BY DEF Waits, Into, OutOf, Returned
  <2>2. Pass(blocks, OutOf(n), v) = Leave(blocks, n, v)
    BY <1>0, <2>1 DEF Pass, Onward, OutOf
  <2> QED  BY <2>1, <2>2, OneStepMoves
<1>3. Block(blocks, n) = b  BY BlockOfLabel
<1>4. Len(ts) = 0 => Leave(blocks, n, v) = Returned  BY <1>3 DEF Leave
<1>5. Len(ts) = 1 => Leave(blocks, n, v) = Into(ts[1])  BY <1>3 DEF Leave
<1>6. Len(ts) = 2 => Leave(blocks, n, v) = Into(IF v[n] THEN ts[1] ELSE ts[2])
  BY <1>3 DEF Leave
<1>7. Len(ts) = 2 => v[n] \in BOOLEAN
  <2> DEFINE F == {blocks[k].name : k \in {j \in DOMAIN blocks : Len(blocks[j].targets) = 2}}
  <2>1. v \in [F -> BOOLEAN]  BY DEF Valuations
  <2>2. Len(ts) = 2 => n \in F  OBVIOUS
  <2> HIDE DEF F
  <2> QED  BY <2>1, <2>2
<1> HIDE DEF b, n, ts
<1> QED  BY <1>1, <1>2, <1>4, <1>5, <1>6, <1>7 DEF b, n, ts

\* The block map of the graph as built.
BuiltEntry(b, e) ==
  /\ e.statements = IF b.code THEN <<Code(b.name)>> ELSE <<>>
  /\ e.targets = b.targets
  /\ Len(b.targets) = 2 => e.condition = b.name

LEMMA BuiltSimulates ==
  ASSUME NEW blocks, Proper(blocks), NEW m,
         \A i \in DOMAIN blocks : BuiltEntry(blocks[i], m[blocks[i].name])
  PROVE  \E R : Simulates(blocks, R, Labels(blocks), m)
<1> DEFINE R == {<<m[n].statements, n, Into(n)>> : n \in Labels(blocks)}
                  \cup {<<<<>>, n, OutOf(n)>> : n \in Labels(blocks)}
<1>1. ASSUME NEW n \in Labels(blocks), NEW v \in Valuations(blocks)
      PROVE  /\ IsSeq(m[n].statements)
             /\ Agrees(blocks, R, <<>>, n, m[n], OutOf(n), v)
             /\ Agrees(blocks, R, m[n].statements, n, m[n], Into(n), v)
  <2>1. PICK i \in DOMAIN blocks : blocks[i].name = n  BY DEF Labels
  <2> DEFINE b == blocks[i]
             k == m[n].statements
  <2>2. /\ k = IF b.code THEN <<Code(n)>> ELSE <<>>
        /\ m[n].targets = b.targets
        /\ Len(b.targets) = 2 => m[n].condition = n
    BY <2>1 DEF BuiltEntry
  <2>3. /\ ~b.code => Moves(blocks, Into(n), v, OutOf(n))
        /\ Len(b.targets) = 0 => Moves(blocks, OutOf(n), v, Returned)
        /\ Len(b.targets) = 1 => Moves(blocks, OutOf(n), v, Into(b.targets[1]))
        /\ Len(b.targets) = 2 =>
             /\ v[n] \in BOOLEAN
             /\ Moves(blocks, OutOf(n), v,
                      Into(IF v[n] THEN b.targets[1] ELSE b.targets[2]))
    BY <2>1, PastBlock
  <2>4. <<<<>>, n, OutOf(n)>> \in R  OBVIOUS
  <2> HIDE DEF R
  <2>5. Exits(blocks, m[n], OutOf(n), v)
    BY <2>2, <2>3, GoesMoves DEF Exits
  <2>6. Agrees(blocks, R, <<>>, n, m[n], OutOf(n), v)  BY <2>5 DEF Agrees
  <2>7. IsSeq(k) /\ Agrees(blocks, R, k, n, m[n], Into(n), v)
    <3>1. CASE b.code
      <4>1. /\ IsSeq(k) /\ k # <<>> /\ Head(k) = Code(n) /\ Tail(k) = <<>>
        BY <2>2, <3>1, OneStatement
      <4>2. Code(n).kind = "code" /\ Code(n).block = n  BY DEF Code
      <4>3. Waits(blocks, Into(n))  BY <2>1, <3>1 DEF Waits
      <4>4. Goes(blocks, Into(n), v, Into(n))  BY GoesMoves
      <4>5. RunsCode(blocks, R, k, n, Into(n), v)
        BY <2>4, <4>1, <4>2, <4>3, <4>4 DEF RunsCode
      <4> QED  BY <4>1, <4>5 DEF Agrees
    <3>2. CASE ~b.code
      <4>1. k = <<>> /\ IsSeq(k)  BY <2>2, <3>2, OneStatement
      <4>2. Goes(blocks, Into(n), v, OutOf(n))  BY <2>3, <3>2, GoesMoves
      <4>3. Agrees(blocks, R, <<>>, n, m[n], Into(n), v)
        BY <2>6, <4>2, AgreesEarlier
      <4> QED  BY <4>1, <4>3
    <3> QED  BY <3>1, <3>2
  <2> QED  BY <2>6, <2>7
<1>2. \A n \in Labels(blocks) :
        IsSeq(m[n].statements) /\ <<m[n].statements, n, Into(n)>> \in R
  <2> SUFFICES ASSUME NEW n \in Labels(blocks) PROVE IsSeq(m[n].statements)
    OBVIOUS
  <2>1. PICK i \in DOMAIN blocks : blocks[i].name = n  BY DEF Labels
  <2>2. m[n].statements = <<Code(n)>> \/ m[n].statements = <<>>
    BY <2>1 DEF BuiltEntry
  <2> QED  BY <2>2, OneStatement
<1>3. ASSUME NEW x \in R
      PROVE  /\ x = <<x[1], x[2], x[3]>> /\ IsSeq(x[1]) /\ x[2] \in Labels(blocks)
             /\ \A v \in Valuations(blocks) :
                  Agrees(blocks, R, x[1], x[2], m[x[2]], x[3], v)
  <2>1. PICK n \in Labels(blocks) : \/ x = <<m[n].statements, n, Into(n)>>
                                    \/ x = <<<<>>, n, OutOf(n)>>
    OBVIOUS
  <2> HIDE DEF R
  <2>2. CASE x = <<m[n].statements, n, Into(n)>>
    <3>1. x[1] = m[n].statements /\ x[2] = n /\ x[3] = Into(n)  BY <2>2
    <3> QED  BY <1>1, <1>2, <2>2, <3>1
  <2>3. CASE x = <<<<>>, n, OutOf(n)>>
    <3>1. x[1] = <<>> /\ x[2] = n /\ x[3] = OutOf(n)  BY <2>3
    <3> QED  BY <1>1, <2>3, <3>1, OneStatement
  <2> QED  BY <2>1, <2>2, <2>3
<1> HIDE DEF R
<1>4. Simulates(blocks, R, Labels(blocks), m)  BY <1>2, <1>3 DEF Simulates
<1> QED  BY <1>4

\* What lower_cfg accepts has a meaning.
LEMMA AcceptedIsProper ==
  ASSUME input \in Inputs, Accepted(input)
  PROVE  Proper(input) /\ Labels(input) = Names(input)
<1>1. \E n \in Nat : DOMAIN input = 1..n
  <2>1. input \in Seq(BlockLowering)  BY InputsAssumption
  <2> QED  BY <2>1
<1>2. Labels(input) = Names(input)  BY DEF Labels, Names
<1>3. ASSUME NEW i \in DOMAIN input
      PROVE  LET ts == input[i].targets
             IN \/ Len(ts) = 0
                \/ Len(ts) = 1 /\ ts[1] \in Labels(input)
                \/ Len(ts) = 2 /\ ts[1] \in Labels(input) /\ ts[2] \in Labels(input)
  <2> DEFINE ts == input[i].targets
  <2>1. ts \in Seq(Name) /\ Len(ts) <= 2  BY BuiltBlock
  <2>2. Listed(ts) \subseteq Labels(input)  BY <1>2 DEF Accepted, TargetsKnown
  <2> HIDE DEF ts
  <2>3. /\ Len(ts) = 0 \/ Len(ts) = 1 \/ Len(ts) = 2
        /\ Len(ts) = 1 => Listed(ts) = {ts[1]}
        /\ Len(ts) = 2 => Listed(ts) = {ts[1], ts[2]}
    BY <2>1, ListedFacts
  <2>4. \/ Len(ts) = 0
        \/ Len(ts) = 1 /\ ts[1] \in Labels(input)
        \/ Len(ts) = 2 /\ ts[1] \in Labels(input) /\ ts[2] \in Labels(input)
    BY <2>2, <2>3
  <2> QED  BY <2>4 DEF ts
<1>4. \A i, j \in DOMAIN input : input[i].name = input[j].name => i = j
  BY DEF Accepted, Unique
<1> QED  BY <1>1, <1>2, <1>3, <1>4 DEF Proper

LEMMA BuildGraphSimulates ==
  ASSUME Invariant, BuildGraph
  PROVE  \E R : Simulates(input, R, cfg'.nodes, map')
<1>1. input \in Inputs /\ Accepted(input) /\ map' = BuildMap(input)
  BY DEF Invariant, BuildGraph
<1>2. Proper(input) /\ cfg'.nodes = Labels(input)
  BY <1>1, AcceptedIsProper DEF BuildGraph, BuildCfg, BuildMap
<1>3. ASSUME NEW i \in DOMAIN input
      PROVE  BuiltEntry(input[i], map'[input[i].name])
  <2> DEFINE b == input[i]
             e == InitialEntry(b)
  <2>1. map'[b.name] = e  BY <1>1, BuiltBlock
  <2>2. e.targets = b.targets /\ (e.condition = NoCond <=> Len(b.targets) # 2)
    BY <1>1, BuiltBlock
  <2>3. /\ e.statements = IF b.code THEN <<Code(b.name)>> ELSE <<>>
        /\ e.condition = IF b.cond = "none" THEN NoCond ELSE b.name
    BY DEF InitialEntry, MapEntry
  <2> HIDE DEF e, b
  <2>4. BuiltEntry(b, e)  BY <2>2, <2>3 DEF BuiltEntry
  <2> QED  BY <2>1, <2>4 DEF b
<1> QED  BY <1>2, <1>3, BuiltSimulates

-----------------------------------------------------------------------------
(* The invariant of a run.                                                 *)

Simulated(blocks, nodes, m) == \E R : Simulates(blocks, R, nodes, m)

\* What lower_cfg returned: the statements of the one block left, which returns.
Lowered(blocks, m, stmts) ==
  \/ blocks = <<>> /\ stmts = <<>>
  \/ /\ blocks # <<>>
     /\ stmts = m[Entry].statements
     /\ Len(m[Entry].targets) = 0
     /\ Simulated(blocks, {Entry}, m)

\* k, what is left of the run, agrees with a position the source comes to from p,
\* and t tests were made on the way there.
Follows(blocks, m, k, p, v, t) ==
  /\ p \in Positions(blocks) /\ t \in Nat
  /\ \E R, q : \E i \in Nat :
       /\ Simulates(blocks, R, {Entry}, m)
       /\ <<k, Entry, q>> \in R
       /\ Leads(blocks, p, v, q, i)
       /\ t <= i

\* A run before it starts and after it ended, and a run under way.
Idle == at \in {NotStarted, Returned} /\ tests = 0
Underway ==
  /\ status = "reduced"
  /\ env \in Valuations(input)
  /\ \/ input = <<>> /\ rest = <<>> /\ at = Into(Entry) /\ tests = 0
     \/ /\ at \notin {NotStarted, Returned}
        /\ input # <<>> /\ Follows(input, map, rest, at, env, tests)

ExecInvariant ==
  /\ Invariant
  /\ status = "received" => body = <<>>
  /\ status \in {"reducing", "reduced"} /\ input # <<>> => Accepted(input)
  /\ status = "reducing" => input # <<>> /\ Simulated(input, cfg.nodes, map)
  /\ status = "reduced" => Lowered(input, map, body)
  /\ Idle \/ Underway

LEMMA PositionsDiffer ==
  ASSUME NEW n
  PROVE  /\ Into(n) \notin {NotStarted, Returned}
         /\ OutOf(n) \notin {NotStarted, Returned}
         /\ NotStarted # Returned
BY DEF Into, OutOf, NotStarted, Returned

\* A rewrite, or the building of the graph, leaves a simulated graph.
LEMMA NextSimulates ==
  ASSUME Invariant, Next, status' = "reducing",
         status = "reducing" => Simulated(input, cfg.nodes, map)
  PROVE  Simulated(input, cfg'.nodes, map')
<1>1. CASE BuildGraph  BY <1>1, BuildGraphSimulates DEF Simulated
<1>2. ASSUME NEW a \in cfg.nodes, NEW b \in cfg.succ[a], NEW c \in cfg.succ[a],
             ReduceShortCircuit(a, b, c)
      PROVE  Simulated(input, cfg'.nodes, map')
  <2>1. a # c  BY <1>2 DEF ReduceShortCircuit, Panic
  <2>2. PICK R : Simulates(input, R, cfg.nodes, map)
    BY <1>2 DEF ReduceShortCircuit, Simulated
  <2> QED  BY <1>2, <2>1, <2>2, ShortCircuitSimulates DEF Simulated
<1>3. ASSUME NEW a \in cfg.nodes, NEW b \in cfg.succ[a], ReduceSequential(a, b)
      PROVE  Simulated(input, cfg'.nodes, map')
  <2>1. a # b  BY <1>3 DEF ReduceSequential, Panic
  <2>2. PICK R : Simulates(input, R, cfg.nodes, map)
    BY <1>3 DEF ReduceSequential, Simulated
  <2> QED  BY <1>3, <2>1, <2>2, SequentialSimulates DEF Simulated
<1>4. ASSUME NEW n \in cfg.nodes, NEW exit \in cfg.succ[n], ReduceSelfLoop(n, exit)
      PROVE  Simulated(input, cfg'.nodes, map')
  <2>1. PICK R : Simulates(input, R, cfg.nodes, map)
    BY <1>4 DEF ReduceSelfLoop, Simulated
  <2> QED  BY <1>4, <2>1, SelfLoopSimulates DEF Simulated
<1>5. ASSUME NEW a \in cfg.nodes, NEW b \in cfg.succ[a], NEW c \in cfg.succ[a],
             NEW d \in cfg.succ[b], ReduceIfElse(a, b, c, d)
      PROVE  Simulated(input, cfg'.nodes, map')
  <2>1. PICK R : Simulates(input, R, cfg.nodes, map)
    BY <1>5 DEF ReduceIfElse, Simulated
  <2> QED  BY <1>5, <2>1, IfElseSimulates DEF Simulated
<1>6. ASSUME NEW a \in cfg.nodes, NEW b \in cfg.succ[a], NEW d \in cfg.succ[a],
             ReduceIfNoElse(a, b, d)
      PROVE  Simulated(input, cfg'.nodes, map')
  <2>1. PICK R : Simulates(input, R, cfg.nodes, map)
    BY <1>6 DEF ReduceIfNoElse, Simulated
  <2> QED  BY <1>6, <2>1, IfNoElseSimulates DEF Simulated
<1>7. ASSUME NEW a \in cfg.nodes, NEW b \in cfg.succ[a], NEW exit \in cfg.succ[a],
             ReduceWhile(a, b, exit)
      PROVE  Simulated(input, cfg'.nodes, map')
  <2>1. PICK R : Simulates(input, R, cfg.nodes, map)
    BY <1>7 DEF ReduceWhile, Simulated
  <2> QED  BY <1>7, <2>1, WhileSimulates DEF Simulated
<1>8. ~ReturnEmpty /\ ~RejectInput /\ ~Succeed /\ ~RejectIrreducible
  BY DEF ReturnEmpty, RejectInput, Succeed, RejectIrreducible
<1> QED  BY <1>1, <1>2, <1>3, <1>4, <1>5, <1>6, <1>7, <1>8 DEF Next

\* The block left when no rule matches returns: a jump to itself would match.
LEMMA SucceedReturns ==
  ASSUME Invariant, Succeed
  PROVE  Len(map[Entry].targets) = 0
<1>1. cfg.nodes = {Entry} /\ ~SequentialMatches
  BY DEF Succeed, NoRuleMatches
<1>2. /\ Entry \in Name /\ cfg.succ[Entry] \subseteq {Entry}
      /\ cfg.succ[Entry] = Listed(map[Entry].targets)
      /\ map[Entry].targets \in Seq(Name) /\ Len(map[Entry].targets) <= 2
  BY <1>1, NodeFacts
<1>3. CASE cfg.succ[Entry] = {Entry}
  <2>1. \A m \in Name : m \in cfg.pred[Entry] <=> m = Entry
    BY <1>1, <1>2, <1>3 DEF Invariant, GraphInSync, IndexesConverse
  <2>2. cfg.pred[Entry] \subseteq Name  BY <1>2 DEF Invariant, TypeOK, Cfg
  <2>3. cfg.pred[Entry] = {Entry}  BY <1>2, <2>1, <2>2
  <2>4. SequentialAt(Entry, Entry)  BY <1>2, <1>3, <2>3 DEF SequentialAt, InDegreeOne
  <2> QED  BY <1>1, <1>3, <2>4 DEF SequentialMatches
<1>4. CASE cfg.succ[Entry] = {}
  <2> DEFINE ts == map[Entry].targets
  <2>1. Listed(ts) = {} /\ ts \in Seq(Name) /\ Len(ts) <= 2  BY <1>2, <1>4
  <2> HIDE DEF ts
  <2>2. Len(ts) = 0  BY <2>1, ListedFacts
  <2> QED  BY <2>2 DEF ts
<1> QED  BY <1>2, <1>3, <1>4

\* The steps of lower_cfg: the call that ends well, and the ones before.
LEMMA NextStatus ==
  ASSUME Next
  PROVE  /\ status \in {"received", "reducing"} /\ input' = input
         /\ status' \in {"reducing", "reduced", "rejected", "panicked"}
         /\ status' = "reducing" => status = "reducing" \/ BuildGraph
         /\ status' = "reduced" => ReturnEmpty \/ Succeed
<1>1. CASE ReturnEmpty \/ RejectInput \/ BuildGraph
  BY <1>1 DEF ReturnEmpty, RejectInput, BuildGraph
<1>2. CASE Succeed \/ RejectIrreducible
  BY <1>2 DEF Succeed, RejectIrreducible
<1>3. ASSUME status = "reducing", input' = input,
             status' = "reducing" \/ status' = "panicked"
      PROVE  /\ status \in {"received", "reducing"} /\ input' = input
             /\ status' \in {"reducing", "reduced", "rejected", "panicked"}
             /\ status' = "reducing" => status = "reducing" \/ BuildGraph
             /\ status' = "reduced" => ReturnEmpty \/ Succeed
  BY <1>3
<1>4. ASSUME NEW a \in cfg.nodes, NEW b \in cfg.succ[a], NEW c \in cfg.succ[a],
             ReduceShortCircuit(a, b, c)
      PROVE  status = "reducing" /\ input' = input
             /\ (status' = "reducing" \/ status' = "panicked")
  BY <1>4 DEF ReduceShortCircuit, Panic, Absorb
<1>5. ASSUME NEW a \in cfg.nodes, NEW b \in cfg.succ[a], ReduceSequential(a, b)
      PROVE  status = "reducing" /\ input' = input
             /\ (status' = "reducing" \/ status' = "panicked")
  BY <1>5 DEF ReduceSequential, Panic, Absorb
<1>6. ASSUME NEW n \in cfg.nodes, NEW exit \in cfg.succ[n], ReduceSelfLoop(n, exit)
      PROVE  status = "reducing" /\ input' = input
             /\ (status' = "reducing" \/ status' = "panicked")
  BY <1>6 DEF ReduceSelfLoop, Panic, TakeCondition
<1>7. ASSUME NEW a \in cfg.nodes, NEW b \in cfg.succ[a], NEW c \in cfg.succ[a],
             NEW d \in cfg.succ[b], ReduceIfElse(a, b, c, d)
      PROVE  status = "reducing" /\ input' = input
             /\ (status' = "reducing" \/ status' = "panicked")
  BY <1>7 DEF ReduceIfElse, Panic, TakeCondition
<1>8. ASSUME NEW a \in cfg.nodes, NEW b \in cfg.succ[a], NEW d \in cfg.succ[a],
             ReduceIfNoElse(a, b, d)
      PROVE  status = "reducing" /\ input' = input
             /\ (status' = "reducing" \/ status' = "panicked")
  BY <1>8 DEF ReduceIfNoElse, Panic, TakeCondition
<1>9. ASSUME NEW a \in cfg.nodes, NEW b \in cfg.succ[a], NEW exit \in cfg.succ[a],
             ReduceWhile(a, b, exit)
      PROVE  status = "reducing" /\ input' = input
             /\ (status' = "reducing" \/ status' = "panicked")
  BY <1>9 DEF ReduceWhile, Panic, TakeCondition
<1> QED
  BY <1>1, <1>2, <1>3, <1>4, <1>5, <1>6, <1>7, <1>8, <1>9 DEF Next

LEMMA InitExec == ExecInit => ExecInvariant
<1> SUFFICES ASSUME ExecInit PROVE ExecInvariant
  OBVIOUS
<1>1. Invariant  BY InitInvariant DEF ExecInit
<1>2. status = "received" /\ body = <<>>  BY DEF ExecInit, Init
<1>3. Idle  BY DEF ExecInit, Idle
<1> QED  BY <1>1, <1>2, <1>3 DEF ExecInvariant

LEMMA ReduceKeeps ==
  ASSUME ExecInvariant, Reduce
  PROVE  ExecInvariant'
<1>1. /\ Next /\ UNCHANGED execVars /\ Invariant
      /\ status = "reducing" => input # <<>> /\ Accepted(input)
                                             /\ Simulated(input, cfg.nodes, map)
      /\ status = "received" => body = <<>>
  BY DEF Reduce, ExecInvariant
<1>2. Invariant'  BY <1>1, StepInvariant
<1>3. /\ status \in {"received", "reducing"} /\ input' = input
      /\ status' \in {"reducing", "reduced", "rejected", "panicked"}
      /\ status' = "reducing" => status = "reducing" \/ BuildGraph
      /\ status' = "reduced" => ReturnEmpty \/ Succeed
  BY <1>1, NextStatus
<1>4. Idle'
  <2>1. Idle  BY <1>3 DEF ExecInvariant, Underway
  <2> QED  BY <1>1, <2>1 DEF Idle, execVars
<1>5. CASE status' = "reducing"
  <2>1. input # <<>> /\ Accepted(input)  BY <1>1, <1>3, <1>5 DEF BuildGraph
  <2>2. Simulated(input, cfg'.nodes, map')  BY <1>1, <1>5, NextSimulates
  <2> QED  BY <1>2, <1>3, <1>4, <1>5, <2>1, <2>2 DEF ExecInvariant
<1>6. CASE status' = "reduced"
  <2>1. CASE ReturnEmpty
    <3>1. input = <<>> /\ body' = <<>>  BY <1>1, <2>1 DEF ReturnEmpty
    <3>2. Lowered(input, map', body')  BY <3>1 DEF Lowered
    <3> QED  BY <1>2, <1>3, <1>4, <1>6, <3>1, <3>2 DEF ExecInvariant
  <2>2. CASE Succeed
    <3>1. /\ status = "reducing" /\ cfg.nodes = {Entry}
          /\ map' = map /\ body' = map[Entry].statements
      BY <2>2 DEF Succeed
    <3>2. Len(map[Entry].targets) = 0  BY <1>1, <2>2, SucceedReturns
    <3>3. Lowered(input, map', body')
      <4>1. Simulated(input, {Entry}, map')  BY <1>1, <3>1
      <4>2. input # <<>> /\ body' = map'[Entry].statements
            /\ Len(map'[Entry].targets) = 0
        BY <1>1, <3>1, <3>2
      <4> QED  BY <4>1, <4>2 DEF Lowered
    <3> QED  BY <1>1, <1>2, <1>3, <1>4, <1>6, <3>1, <3>3 DEF ExecInvariant
  <2> QED  BY <1>3, <1>6, <2>1, <2>2
<1>7. CASE status' \in {"rejected", "panicked"}
  BY <1>2, <1>4, <1>7 DEF ExecInvariant
<1> QED  BY <1>3, <1>5, <1>6, <1>7

\* A step of the run leaves the call alone.
LEMMA RunKeeps ==
  ASSUME ExecInvariant, UNCHANGED vars, Idle' \/ Underway'
  PROVE  ExecInvariant'
<1>1. /\ input' = input /\ status' = status /\ cfg' = cfg /\ map' = map
      /\ body' = body
  BY DEF vars
<1>2. Invariant'  BY StepInvariant DEF ExecInvariant
<1> QED  BY <1>1, <1>2 DEF ExecInvariant

LEMMA StartKeeps ==
  ASSUME ExecInvariant, Start
  PROVE  Underway' /\ Source!Begin
<1>1. /\ status = "reduced" /\ at = NotStarted /\ rest' = body
      /\ at' = Into(Entry) /\ env' \in Valuations(input) /\ UNCHANGED vars
      /\ tests' = tests
  BY DEF Start
<1>2. Invariant /\ Lowered(input, map, body) /\ (input # <<>> => Accepted(input))
  BY <1>1 DEF ExecInvariant
<1>3. tests = 0
  BY <1>1, PositionsDiffer DEF ExecInvariant, Idle, Underway
<1>4. input' = input /\ map' = map /\ status' = status  BY <1>1 DEF vars
<1>5. CASE input = <<>>
  <2>1. body = <<>>  BY <1>2, <1>5 DEF Lowered
  <2>2. Underway'  BY <1>1, <1>3, <1>4, <1>5, <2>1 DEF Underway
  <2>3. Source!Meaningful
    <3>1. DOMAIN input = {}  BY <1>5
    <3> QED  BY <1>5, <3>1 DEF Source!Meaningful
  <2> QED
    BY <1>1, <1>4, <2>2, <2>3
    DEF Source!Begin, Source!NotStarted, NotStarted, Source!Into, Into,
        Source!Valuations, Valuations
<1>6. CASE input # <<>>
  <2>1. Proper(input) /\ Labels(input) = Names(input) /\ Accepted(input)
    BY <1>2, <1>6, AcceptedIsProper DEF Invariant
  <2>2. PICK R : Simulates(input, R, {Entry}, map) /\ body = map[Entry].statements
    BY <1>2, <1>6 DEF Lowered, Simulated
  <2>3. <<body, Entry, Into(Entry)>> \in R  BY <2>2 DEF Simulates
  <2>4. Into(Entry) \in Positions(input)  BY <2>1 DEF Accepted, Positions
  <2>5. Leads(input, Into(Entry), env', Into(Entry), 0)  BY LeadsNowhere
  <2>6. Follows(input, map, body, Into(Entry), env', 0)
    <3>1. 0 \in Nat /\ 0 <= 0  OBVIOUS
    <3> QED  BY <2>2, <2>3, <2>4, <2>5, <3>1 DEF Follows
  <2>7. Underway'
    BY <1>1, <1>3, <1>4, <1>6, <2>6, PositionsDiffer DEF Underway
  <2>8. Source!Meaningful
    <3>1. \A i, j \in DOMAIN input : input[i].name = input[j].name => i = j
      BY <2>1 DEF Accepted, Unique
    <3>2. Entry \in Labels(input)  BY <2>1 DEF Accepted
    <3>3. ASSUME NEW i \in DOMAIN input, NEW k \in DOMAIN input[i].targets
          PROVE  input[i].targets[k] \in Labels(input)
      <4>1. input[i].targets \in Seq(Name)  BY <1>2, <2>1, BuiltBlock DEF Invariant
      <4>2. DOMAIN input[i].targets = 1..Len(input[i].targets)  BY <4>1
      <4>3. input[i].targets[k] \in Listed(input[i].targets)  BY <4>2 DEF Listed
      <4> QED  BY <2>1, <4>3 DEF Accepted, TargetsKnown
    <3>4. Source!Labels(input) = Labels(input)  BY DEF Source!Labels, Labels
    <3> QED  BY <3>1, <3>2, <3>3, <3>4 DEF Source!Meaningful
  <2> QED
    BY <1>1, <1>4, <2>7, <2>8
    DEF Source!Begin, Source!NotStarted, NotStarted, Source!Into, Into,
        Source!Valuations, Valuations
<1> QED  BY <1>5, <1>6

\* The abstract specification walks the same graph.
LEMMA SameWalk ==
  ASSUME NEW p, NEW v
  PROVE  /\ Source!Walk(input, p, v) = Walk(input, p, v)
         /\ Source!Limit(input) = Limit(input)
         /\ Source!Waits(input, p) <=> Waits(input, p)
         /\ Source!Valuations(input) = Valuations(input)
         /\ Source!Returned = Returned /\ Source!NotStarted = NotStarted
         /\ Source!OutOf(p) = OutOf(p)
<1>1. Source!Walk(input, p, v) = Walk(input, p, v)
  BY DEF Source!Walk, Walk, Source!Pass, Pass, Source!Onward, Onward, Source!Leave,
         Leave, Source!Block, Block, Source!Waits, Waits, Source!Returned, Returned,
         Source!Into, Into, Source!OutOf, OutOf, Source!Labels, Labels
<1>2. Source!Limit(input) = Limit(input)
  BY DEF Source!Limit, Limit, Source!Cardinality, Cardinality, Source!IsFiniteSet,
         IsFiniteSet, Source!Positions, Positions, Source!Returned, Returned,
         Source!Into, Into, Source!OutOf, OutOf, Source!Labels, Labels
<1>3. Source!Waits(input, p) <=> Waits(input, p)
  BY DEF Source!Waits, Waits, Source!Returned, Returned, Source!Into, Into
<1>4. Source!Valuations(input) = Valuations(input)
  BY DEF Source!Valuations, Valuations
<1>5. /\ Source!Returned = Returned /\ Source!NotStarted = NotStarted
      /\ Source!OutOf(p) = OutOf(p)
  BY DEF Source!Returned, Returned, Source!NotStarted, NotStarted, Source!OutOf, OutOf
<1> QED  BY <1>1, <1>2, <1>3, <1>4, <1>5

\* Where the walk stops, the abstract specification proceeds.
LEMMA WalkProceeds ==
  ASSUME NEW q, at \notin {NotStarted, Returned}, UNCHANGED input,
         Walk(input, at, env)[Limit(input)] = q, Waits(input, q),
         at' = IF q = Returned THEN Returned ELSE OutOf(q[2]),
         env' \in Valuations(input)
  PROVE  Source!Proceed
<1>1. Source!Walk(input, at, env)[Source!Limit(input)] = q  BY SameWalk
<1>2. Source!Waits(input, q) /\ env' \in Source!Valuations(input)  BY SameWalk
<1>3. at' = IF q = Source!Returned THEN Source!Returned ELSE Source!OutOf(q[2])
  <2>1. Source!OutOf(q[2]) = OutOf(q[2])  BY SameWalk
  <2>2. Source!Returned = Returned  BY SameWalk
  <2> QED  BY <2>1, <2>2
<1>4. at \notin {Source!NotStarted, Source!Returned}  BY SameWalk
<1> QED  BY <1>1, <1>2, <1>3, <1>4 DEF Source!Proceed

\* A run under way with a block to run, at a position its statements agree with.
LEMMA RunningFollows ==
  ASSUME ExecInvariant, Running, input # <<>>
  PROVE  /\ Proper(input) /\ at \in Positions(input) /\ env \in Valuations(input)
         /\ tests \in Nat /\ Len(map[Entry].targets) = 0
         /\ \E R, q : \E i \in Nat :
              /\ Simulates(input, R, {Entry}, map)
              /\ <<rest, Entry, q>> \in R
              /\ Leads(input, at, env, q, i)
              /\ tests <= i
<1>1. /\ status = "reduced" /\ at \notin {NotStarted, Returned}  BY DEF Running
<1>2. env \in Valuations(input) /\ Follows(input, map, rest, at, env, tests)
  BY <1>1 DEF ExecInvariant, Idle, Underway
<1>3. Proper(input)  BY <1>1, AcceptedIsProper DEF ExecInvariant, Invariant
<1>4. Len(map[Entry].targets) = 0  BY <1>1 DEF ExecInvariant, Lowered
<1> QED  BY <1>2, <1>3, <1>4 DEF Follows

LEMMA RunCodeKeeps ==
  ASSUME ExecInvariant, RunCode
  PROVE  Underway' /\ Source!Proceed
<1> DEFINE n == Head(rest).block
<1>1. /\ Running /\ rest # <<>> /\ Head(rest).kind = "code"
      /\ rest' = Tail(rest) /\ at' = OutOf(n) /\ env' \in Valuations(input)
      /\ tests' = 0 /\ UNCHANGED vars
  BY DEF RunCode
<1>2. /\ status = "reduced" /\ at \notin {NotStarted, Returned}
      /\ input' = input /\ map' = map /\ status' = status
  BY <1>1 DEF Running, vars
<1>3. input # <<>>  BY <1>1, <1>2 DEF ExecInvariant, Idle, Underway
<1>4. Proper(input) /\ at \in Positions(input) /\ env \in Valuations(input)
  BY <1>1, <1>3, RunningFollows
<1>5. PICK R, q : \E i \in Nat :
        /\ Simulates(input, R, {Entry}, map)
        /\ <<rest, Entry, q>> \in R
        /\ Leads(input, at, env, q, i)
        /\ tests <= i
  BY <1>1, <1>3, RunningFollows
<1>6. Agrees(input, R, rest, Entry, map[Entry], q, env)
  BY <1>4, <1>5, SimulatesOne
<1>7. RunsCode(input, R, rest, Entry, q, env)
  <2>1. ~Tests(input, R, rest, Entry, q, env)  BY <1>1 DEF Tests, IsTest
  <2> QED  BY <1>1, <1>6, <2>1 DEF Agrees
<1>8. /\ Goes(input, q, env, Into(n)) /\ Waits(input, Into(n))
      /\ <<Tail(rest), Entry, OutOf(n)>> \in R
  BY <1>7 DEF RunsCode
<1> HIDE DEF n
<1>9. Underway'
  <2>1. n \in Labels(input)
    <3>1. PICK k \in DOMAIN input : Into(n) = Into(input[k].name)
      BY <1>8, PositionsDiffer DEF Waits
    <3>2. n = input[k].name  BY <3>1 DEF Into
    <3> QED  BY <3>2 DEF Labels
  <2>2. OutOf(n) \in Positions(input)  BY <2>1 DEF Positions
  <2>3. Leads(input, OutOf(n), env', OutOf(n), 0)  BY LeadsNowhere
  <2>4. Follows(input, map, Tail(rest), OutOf(n), env', 0)
    <3>1. 0 \in Nat /\ 0 <= 0  OBVIOUS
    <3> QED  BY <1>5, <1>8, <2>2, <2>3, <3>1 DEF Follows
  <2> QED  BY <1>1, <1>2, <1>3, <2>4, PositionsDiffer DEF Underway
<1>10. Source!Proceed
  <2>1. PICK j : Leads(input, at, env, Into(n), j)
    BY <1>5, <1>8, LeadsOn DEF Goes
  <2>2. Walk(input, at, env)[Limit(input)] = Into(n)
    BY <1>4, <1>8, <2>1, StopsWithinLimit
  <2>3. Into(n) # Returned /\ Into(n)[2] = n  BY DEF Into, Returned
  <2> QED  BY <1>1, <1>2, <1>8, <2>2, <2>3, WalkProceeds
<1> QED  BY <1>9, <1>10

LEMMA TestKeeps ==
  ASSUME ExecInvariant, TestIf \/ TestWhile
  PROVE  Underway' /\ UNCHANGED <<vars, at, env>>
<1>1. /\ Running /\ rest # <<>> /\ CountTest
      /\ Head(rest).kind \in {"if", "while"} /\ rest' = Tested(rest, env)
  BY DEF TestIf, TestWhile, Tested
<1>2. /\ status = "reduced" /\ at \notin {NotStarted, Returned}
      /\ input' = input /\ map' = map /\ status' = status
      /\ at' = at /\ env' = env /\ UNCHANGED vars
      /\ tests' = tests \/ tests' = tests + 1
  BY <1>1 DEF Running, CountTest, vars
<1>3. input # <<>>  BY <1>1, <1>2 DEF ExecInvariant, Idle, Underway
<1>4. /\ Proper(input) /\ at \in Positions(input) /\ env \in Valuations(input)
      /\ tests \in Nat
  BY <1>1, <1>3, RunningFollows
<1>5. PICK R, q : \E i \in Nat :
        /\ Simulates(input, R, {Entry}, map)
        /\ <<rest, Entry, q>> \in R
        /\ Leads(input, at, env, q, i)
        /\ tests <= i
  BY <1>1, <1>3, RunningFollows
<1>6. PICK i \in Nat : Leads(input, at, env, q, i) /\ tests <= i  BY <1>5
<1>7. Agrees(input, R, rest, Entry, map[Entry], q, env)
  BY <1>4, <1>5, SimulatesOne
<1>8. Tests(input, R, rest, Entry, q, env)
  <2>1. ~RunsCode(input, R, rest, Entry, q, env)  BY <1>1 DEF RunsCode
  <2> QED  BY <1>1, <1>7, <2>1 DEF Agrees
<1>9. PICK r : Moves(input, q, env, r) /\ <<rest', Entry, r>> \in R
  BY <1>1, <1>8 DEF Tests
<1>10. PICK j \in Nat \ {0} : Leads(input, q, env, r, j)  BY <1>9 DEF Moves
<1>11. /\ Leads(input, at, env, r, i + j) /\ i + j \in Nat
       /\ tests' \in Nat /\ tests' <= i + j
  BY <1>2, <1>4, <1>6, <1>10, LeadsOn
<1>12. Follows(input, map, rest', at, env, tests')
  BY <1>4, <1>5, <1>9, <1>11 DEF Follows
<1> QED  BY <1>2, <1>3, <1>4, <1>12 DEF Underway

LEMMA ReturnKeeps ==
  ASSUME ExecInvariant, Return
  PROVE  Idle' /\ Source!Proceed
<1>1. /\ Running /\ rest = <<>> /\ at' = Returned /\ tests' = 0
      /\ UNCHANGED vars /\ env' = env
  BY DEF Return
<1>2. /\ status = "reduced" /\ at \notin {NotStarted, Returned} /\ input' = input
  BY <1>1 DEF Running, vars
<1>3. env \in Valuations(input)  BY <1>2 DEF ExecInvariant, Idle, Underway
<1>4. Walk(input, at, env)[Limit(input)] = Returned
  <2>1. CASE input = <<>>
    <3>1. at = Into(Entry)  BY <1>2, <2>1 DEF ExecInvariant, Idle, Underway
    <3>2. DOMAIN input = {}  BY <2>1
    <3>3. ~Waits(input, at)  BY <1>2, <3>2 DEF Waits
    <3>4. Pass(input, at, env) = Returned  BY <2>1, <3>3 DEF Pass, Onward
    <3>5. Limit(input) = 1
      <4>1. Positions(input) = {Returned}  BY <3>2 DEF Positions, Labels
      <4> QED  BY <4>1, FS_Singleton DEF Limit
    <3>6. Walk(input, at, env)[0 + 1] = Pass(input, Walk(input, at, env)[0], env)
      BY WalkEquation
    <3> QED  BY <3>4, <3>5, <3>6, WalkEquation
  <2>2. CASE input # <<>>
    <3>1. /\ Proper(input) /\ at \in Positions(input)
          /\ Len(map[Entry].targets) = 0
      BY <1>1, <2>2, RunningFollows
    <3>2. PICK R, q : \E i \in Nat :
            /\ Simulates(input, R, {Entry}, map)
            /\ <<rest, Entry, q>> \in R
            /\ Leads(input, at, env, q, i)
            /\ tests <= i
      BY <1>1, <2>2, RunningFollows
    <3>3. Agrees(input, R, rest, Entry, map[Entry], q, env)
      BY <1>3, <3>2, SimulatesOne
    <3>4. Goes(input, q, env, Returned)  BY <1>1, <3>1, <3>3 DEF Agrees, Exits
    <3>5. PICK j : Leads(input, at, env, Returned, j)
      BY <3>2, <3>4, LeadsOn DEF Goes
    <3>6. Waits(input, Returned)  BY DEF Waits
    <3> QED  BY <3>1, <3>5, <3>6, StopsWithinLimit
  <2> QED  BY <2>1, <2>2
<1>5. Waits(input, Returned)  BY DEF Waits
<1>6. Idle'  BY <1>1 DEF Idle
<1>7. Source!Proceed  BY <1>1, <1>2, <1>3, <1>4, <1>5, WalkProceeds
<1> QED  BY <1>6, <1>7

-----------------------------------------------------------------------------
(* The theorems.                                                           *)

\* A step of the run keeps the invariant, and is one of the source or a stutter.
LEMMA ExecStep ==
  ASSUME ExecInvariant, [ExecNext]_<<vars, execVars>>
  PROVE  ExecInvariant' /\ [Source!Begin \/ Source!Proceed]_<<at, env>>
<1>1. CASE Reduce
  BY <1>1, ReduceKeeps DEF Reduce, execVars
<1>2. CASE Start
  BY <1>2, StartKeeps, RunKeeps DEF Start
<1>3. CASE RunCode
  BY <1>3, RunCodeKeeps, RunKeeps DEF RunCode
<1>4. CASE TestIf \/ TestWhile
  BY <1>4, TestKeeps, RunKeeps
<1>5. CASE Return
  BY <1>5, ReturnKeeps, RunKeeps DEF Return
<1>6. CASE UNCHANGED <<vars, execVars>>
  <2>1. UNCHANGED vars /\ UNCHANGED execVars  BY <1>6
  <2>2. Idle' \/ Underway'
    BY <2>1 DEF ExecInvariant, Idle, Underway, vars, execVars
  <2> QED  BY <2>1, <2>2, RunKeeps DEF execVars
<1> QED  BY <1>1, <1>2, <1>3, <1>4, <1>5, <1>6 DEF ExecNext

\* The statements that are left always agree with where the source is.
THEOREM ExecInvariantHolds == ExecSpec => []ExecInvariant
BY InitExec, ExecStep, PTL DEF ExecSpec

\* Whatever the blocks and whatever the conditions read, the emitted program runs
\* the code the control-flow graph runs, in that order, and returns when it does.
THEOREM ReductionKeepsMeaning == ExecSpec => ImplementsSource
<1>1. ExecInit => Source!SourceInit
  BY DEF ExecInit, Source!SourceInit, Source!NotStarted, NotStarted
<1>2. ExecInvariant /\ [ExecNext]_<<vars, execVars>>
        => [Source!Begin \/ Source!Proceed]_<<at, env>>
  BY ExecStep
<1> QED
  BY <1>1, <1>2, ExecInvariantHolds, PTL DEF ExecSpec, ImplementsSource, Source!SourceSpec

\* The emitted program makes no more tests between two codes than the walk of the
\* graph has steps: it never hangs where the graph does not.
THEOREM NoSilentLoopAdded == ExecSpec => []NoEndlessTests
<1>1. ExecInvariant => NoEndlessTests
  <2> SUFFICES ASSUME ExecInvariant, at # NotStarted, tests > 0
               PROVE  ~Waits(input, Walk(input, at, env)[tests - 1])
    BY DEF NoEndlessTests
  <2>1. Follows(input, map, rest, at, env, tests)
    BY DEF ExecInvariant, Idle, Underway
  <2>2. PICK R, q : \E i \in Nat : /\ Leads(input, at, env, q, i)
                                   /\ tests <= i
    BY <2>1 DEF Follows
  <2>3. PICK i \in Nat : Leads(input, at, env, q, i) /\ tests <= i  BY <2>2
  <2>4. tests - 1 \in Nat /\ tests - 1 < i  BY <2>1, <2>3 DEF Follows
  <2> QED  BY <2>3, <2>4 DEF Leads
<1> QED  BY <1>1, ExecInvariantHolds, PTL
=================================================================================
