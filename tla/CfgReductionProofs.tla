-------------------------- MODULE CfgReductionProofs --------------------------
(***************************************************************************)
(* For every set of block names and every list of block lowerings: the     *)
(* reducer's two views of the graph stay in agreement, a graph whose blocks *)
(* are all reachable stays so, the reducer does not panic on it, and every *)
(* rewrite shrinks the graph.                                              *)
(***************************************************************************)
EXTENDS CfgReduction, TLAPS

USE EntryAssumption

-----------------------------------------------------------------------------
(* Digraphs.                                                               *)

\* The two indexes of digraph g agree and mention only nodes.
Consistent(g) ==
  \A m, n \in Name :
    /\ n \in g.succ[m] <=> m \in g.pred[n]
    /\ n \in g.succ[m] => m \in g.nodes /\ n \in g.nodes

\* h is g without node n and its edges; with edges from src to dsts added; with
\* dsts for the successors of src; without the edge from src to dst.
Without(g, h, n) ==
  /\ h \in Cfg /\ Consistent(h) /\ h.nodes = g.nodes \ {n}
  /\ \A m \in Name : h.succ[m] = IF m = n THEN {} ELSE g.succ[m] \ {n}
WithEdges(g, h, src, dsts) ==
  /\ h \in Cfg /\ Consistent(h) /\ h.nodes = g.nodes
  /\ \A m \in Name : h.succ[m] = IF m = src THEN g.succ[m] \cup dsts
                                            ELSE g.succ[m]
WithOut(g, h, src, dsts) ==
  /\ h \in Cfg /\ Consistent(h) /\ h.nodes = g.nodes
  /\ \A m \in Name : h.succ[m] = IF m = src THEN dsts ELSE g.succ[m]
WithoutEdge(g, h, src, dst) ==
  /\ h \in Cfg /\ Consistent(h) /\ h.nodes = g.nodes
  /\ \A m \in Name : h.succ[m] = IF m = src THEN g.succ[m] \ {dst}
                                            ELSE g.succ[m]

\* remove_node drops the node and every edge at it, in both indexes.
LEMMA RemoveNodeFacts ==
  ASSUME NEW g \in Cfg, Consistent(g), NEW n \in Name
  PROVE  Without(g, RemoveNode(g, n), n)
<1> DEFINE h == RemoveNode(g, n)
<1>1. h \in Cfg /\ h.nodes = g.nodes \ {n}
  BY DEF Cfg, RemoveNode
<1>2. \A m \in Name : h.succ[m] = IF m = n THEN {} ELSE g.succ[m] \ {n}
  BY DEF Cfg, RemoveNode, Consistent
<1>3. \A m \in Name : h.pred[m] = IF m = n THEN {} ELSE g.pred[m] \ {n}
  BY DEF Cfg, RemoveNode, Consistent
<1>4. Consistent(h)
  <2> SUFFICES ASSUME NEW i \in Name, NEW j \in Name
               PROVE  /\ j \in h.succ[i] <=> i \in h.pred[j]
                      /\ j \in h.succ[i] => i \in h.nodes /\ j \in h.nodes
    BY DEF Consistent
  <2>1. h.succ[i] = (IF i = n THEN {} ELSE g.succ[i] \ {n})
    BY <1>2
  <2>2. h.pred[j] = (IF j = n THEN {} ELSE g.pred[j] \ {n})
    BY <1>3
  <2>3. /\ j \in g.succ[i] <=> i \in g.pred[j]
        /\ j \in g.succ[i] => i \in g.nodes /\ j \in g.nodes
    BY DEF Consistent
  <2>4. QED
    BY <1>1, <2>1, <2>2, <2>3
<1>5. QED
  BY <1>1, <1>2, <1>4 DEF Without

\* add_edge, for edges from a node to nodes, adds those edges and nothing else.
LEMMA AddEdgesFacts ==
  ASSUME NEW g \in Cfg, Consistent(g), NEW src \in g.nodes,
         NEW dsts \in SUBSET g.nodes
  PROVE  WithEdges(g, AddEdges(g, src, dsts), src, dsts)
<1> DEFINE h == AddEdges(g, src, dsts)
<1>0. src \in Name /\ dsts \subseteq Name
  BY DEF Cfg
<1>1. h \in Cfg /\ h.nodes = g.nodes
  BY <1>0 DEF Cfg, AddEdges
<1>2. \A m \in Name : h.succ[m] = IF m = src THEN g.succ[m] \cup dsts
                                            ELSE g.succ[m]
  BY <1>0 DEF Cfg, AddEdges
<1>3. \A m \in Name : h.pred[m] = IF m \in dsts THEN g.pred[m] \cup {src}
                                               ELSE g.pred[m]
  BY <1>0 DEF Cfg, AddEdges
<1>4. Consistent(h)
  <2> SUFFICES ASSUME NEW i \in Name, NEW j \in Name
               PROVE  /\ j \in h.succ[i] <=> i \in h.pred[j]
                      /\ j \in h.succ[i] => i \in h.nodes /\ j \in h.nodes
    BY DEF Consistent
  <2>1. h.succ[i] = (IF i = src THEN g.succ[i] \cup dsts ELSE g.succ[i])
    BY <1>2
  <2>2. h.pred[j] = (IF j \in dsts THEN g.pred[j] \cup {src} ELSE g.pred[j])
    BY <1>3
  <2>3. /\ j \in g.succ[i] <=> i \in g.pred[j]
        /\ j \in g.succ[i] => i \in g.nodes /\ j \in g.nodes
    BY DEF Consistent
  <2>4. QED
    BY <1>0, <1>1, <2>1, <2>2, <2>3
<1>5. QED
  BY <1>1, <1>2, <1>4 DEF WithEdges

\* remove_edge drops that edge from both indexes.
LEMMA RemoveEdgeFacts ==
  ASSUME NEW g \in Cfg, Consistent(g), NEW src \in Name, NEW dst \in Name
  PROVE  WithoutEdge(g, RemoveEdge(g, src, dst), src, dst)
<1> DEFINE h == RemoveEdge(g, src, dst)
<1>0. /\ g.succ \in [Name -> SUBSET Name] /\ g.pred \in [Name -> SUBSET Name]
      /\ g.nodes \in SUBSET Name
  BY DEF Cfg
<1>1. h = [nodes |-> g.nodes, succ |-> [g.succ EXCEPT ![src] = @ \ {dst}],
           pred |-> [g.pred EXCEPT ![dst] = @ \ {src}]]
  BY DEF RemoveEdge
<1> HIDE DEF h
<1>2. h \in Cfg /\ h.nodes = g.nodes
  BY <1>0, <1>1 DEF Cfg
<1>3. \A m \in Name : h.succ[m] = IF m = src THEN g.succ[m] \ {dst} ELSE g.succ[m]
  BY <1>0, <1>1
<1>4. \A m \in Name : h.pred[m] = IF m = dst THEN g.pred[m] \ {src} ELSE g.pred[m]
  BY <1>0, <1>1
<1>5. Consistent(h)
  <2> SUFFICES ASSUME NEW i \in Name, NEW j \in Name
               PROVE  /\ j \in h.succ[i] <=> i \in h.pred[j]
                      /\ j \in h.succ[i] => i \in h.nodes /\ j \in h.nodes
    BY DEF Consistent
  <2>1. h.succ[i] = (IF i = src THEN g.succ[i] \ {dst} ELSE g.succ[i])
    BY <1>3
  <2>2. h.pred[j] = (IF j = dst THEN g.pred[j] \ {src} ELSE g.pred[j])
    BY <1>4
  <2>3. /\ j \in g.succ[i] <=> i \in g.pred[j]
        /\ j \in g.succ[i] => i \in g.nodes /\ j \in g.nodes
    BY DEF Consistent
  <2>4. QED
    BY <1>2, <2>1, <2>2, <2>3
<1>6. QED
  BY <1>2, <1>3, <1>5 DEF h, WithoutEdge

\* set_out replaces the successors of a node by other nodes.
LEMMA SetOutFacts ==
  ASSUME NEW g \in Cfg, Consistent(g), NEW src \in g.nodes,
         NEW dsts \in SUBSET g.nodes
  PROVE  WithOut(g, SetOut(g, src, dsts), src, dsts)
<1> DEFINE h == [nodes |-> g.nodes,
                 succ  |-> [g.succ EXCEPT ![src] = {}],
                 pred  |-> [n \in Name |-> IF n \in g.succ[src]
                                           THEN g.pred[n] \ {src} ELSE g.pred[n]]]
<1>0. src \in Name
  BY DEF Cfg
<1>1. h \in Cfg /\ h.nodes = g.nodes
  BY <1>0 DEF Cfg
<1>2. \A m \in Name : h.succ[m] = IF m = src THEN {} ELSE g.succ[m]
  BY <1>0 DEF Cfg
<1>3. \A m \in Name : h.pred[m] = g.pred[m] \ {src}
  BY <1>0 DEF Consistent, Cfg
<1>4. Consistent(h)
  <2> SUFFICES ASSUME NEW i \in Name, NEW j \in Name
               PROVE  /\ j \in h.succ[i] <=> i \in h.pred[j]
                      /\ j \in h.succ[i] => i \in h.nodes /\ j \in h.nodes
    BY DEF Consistent
  <2>1. h.succ[i] = (IF i = src THEN {} ELSE g.succ[i])
    BY <1>2
  <2>2. h.pred[j] = (g.pred[j] \ {src})
    BY <1>3
  <2>3. /\ j \in g.succ[i] <=> i \in g.pred[j]
        /\ j \in g.succ[i] => i \in g.nodes /\ j \in g.nodes
    BY DEF Consistent
  <2>4. QED
    BY <1>1, <2>1, <2>2, <2>3
<1>5. SetOut(g, src, dsts) = AddEdges(h, src, dsts)
  BY DEF SetOut
<1> HIDE DEF h
<1>a. src \in h.nodes /\ dsts \in SUBSET h.nodes
  BY <1>1
<1>6. WithEdges(h, AddEdges(h, src, dsts), src, dsts)
  BY <1>1, <1>4, <1>a, AddEdgesFacts
<1>7. QED
  BY <1>0, <1>1, <1>2, <1>5, <1>6 DEF WithEdges, WithOut

-----------------------------------------------------------------------------
(* Every rewrite is a contraction: the blocks B, entered only from A and from *)
(* each other, disappear into A, which keeps exactly the exits its new target *)
(* list names.                                                              *)

\* The map part of TypeOK.
MapOK(m) ==
  /\ DOMAIN m \subseteq Name
  /\ \A n \in DOMAIN m :
       /\ m[n] = MapEntry(m[n].statements, m[n].condition, m[n].targets)
       /\ m[n].condition \in Name \cup {NoCond}
       /\ m[n].targets \in Seq(Name)
       /\ Len(m[n].targets) <= 2

\* The inductive invariant: the graph agrees with the map, and the input is one of
\* those lower_cfg may be called with (its blocks are what BuildGraph relies on).
Invariant == TypeOK /\ GraphInSync /\ input \in Inputs

GraphContracts(a, B) ==
  /\ a \in cfg.nodes /\ B \subseteq cfg.nodes /\ a \notin B
  /\ cfg' \in Cfg /\ Consistent(cfg') /\ cfg'.nodes = cfg.nodes \ B
  /\ \A n \in Name \ (B \cup {a}) : cfg'.succ[n] = cfg.succ[n]
  /\ \A n \in B : cfg'.succ[n] = {}
  /\ \A n \in B : cfg.pred[n] # {} /\ cfg.pred[n] \subseteq B \cup {a}
  /\ \A n \in B \cup {a} : cfg.succ[n] \ (B \cup {a}) \subseteq cfg'.succ[a]
  /\ \A d \in cfg'.succ[a] : \E n \in B \cup {a} : d \in cfg.succ[n]
  /\ B = {} => cfg'.succ[a] # cfg.succ[a] /\ cfg'.succ[a] \subseteq cfg.succ[a]

MapFollows(a) ==
  /\ MapOK(map')
  /\ cfg'.nodes \subseteq DOMAIN map'
  /\ \A n \in cfg'.nodes \ {a} : map'[n] = map[n]
  /\ cfg'.succ[a] = Listed(map'[a].targets)
  /\ map'[a].condition = NoCond <=> Len(map'[a].targets) # 2

Contracts(a, B) ==
  GraphContracts(a, B) /\ MapFollows(a) /\ UNCHANGED <<input, status, body>>

\* The successors of a block that lists at most two targets.
LEMMA ListedFacts ==
  ASSUME NEW t \in Seq(Name), Len(t) <= 2
  PROVE  /\ Len(t) = 0 \/ Len(t) = 1 \/ Len(t) = 2
         /\ Len(t) = 0 => Listed(t) = {}
         /\ Len(t) = 1 => Listed(t) = {t[1]}
         /\ Len(t) = 2 => Listed(t) = {t[1], t[2]}
         /\ Listed(t) \subseteq Name
<1>1. Len(t) = 0 \/ Len(t) = 1 \/ Len(t) = 2
  <2>1. \A k \in Nat : k <= 2 => k = 0 \/ k = 1 \/ k = 2
    OBVIOUS
  <2>2. Len(t) \in Nat
    OBVIOUS
  <2>3. QED
    BY <2>1, <2>2
<1>2. Len(t) = 0 => Listed(t) = {}
  <2>1. 1..0 = {}
    OBVIOUS
  <2>2. QED
    BY <2>1 DEF Listed
<1>3. Len(t) = 1 => Listed(t) = {t[1]}
  <2>1. 1..1 = {1}
    OBVIOUS
  <2>2. QED
    BY <2>1 DEF Listed
<1>4. Len(t) = 2 => Listed(t) = {t[1], t[2]}
  <2>1. 1..2 = {1, 2}
    OBVIOUS
  <2>2. QED
    BY <2>1 DEF Listed
<1>5. Listed(t) \subseteq Name
  BY DEF Listed
<1>6. QED
  BY <1>1, <1>2, <1>3, <1>4, <1>5

\* A block left with the single target d.
LEMMA ListedOne ==
  ASSUME NEW d \in Name
  PROVE  <<d>> \in Seq(Name) /\ Len(<<d>>) = 1 /\ Listed(<<d>>) = {d}
<1>1. <<d>> \in Seq(Name) /\ Len(<<d>>) = 1 /\ <<d>>[1] = d
  OBVIOUS
<1>2. Listed(<<d>>) = {<<d>>[1]}
  <2>1. 1..1 = {1}
    OBVIOUS
  <2>2. QED
    BY <1>1, <2>1 DEF Listed
<1>3. QED
  BY <1>1, <1>2

\* In agreement, the only predecessor of a successor of A is A.
LEMMA OnlyPredecessor ==
  ASSUME Invariant, NEW a \in cfg.nodes, NEW b \in cfg.succ[a], InDegreeOne(b)
  PROVE  /\ a \in Name /\ b \in Name /\ b \in cfg.nodes
         /\ cfg.pred[b] = {a}
         /\ \A n \in Name : b \in cfg.succ[n] => n = a
<1>1. a \in Name /\ b \in Name
  BY DEF Invariant, TypeOK, Cfg
<1>2. \A n \in Name : b \in cfg.succ[n] <=> n \in cfg.pred[b]
  BY <1>1 DEF Invariant, GraphInSync, IndexesConverse
<1>3. cfg.pred[b] = {a}
  BY <1>1, <1>2 DEF InDegreeOne
<1>4. b \in cfg.nodes
  BY <1>1 DEF Invariant, GraphInSync, IndexesConverse
<1>5. QED
  BY <1>1, <1>2, <1>3, <1>4

\* What the invariant says of one node.
LEMMA NodeFacts ==
  ASSUME Invariant, NEW a \in cfg.nodes
  PROVE  /\ a \in Name /\ a \in DOMAIN map
         /\ cfg.succ[a] \subseteq cfg.nodes
         /\ cfg.succ[a] = Listed(map[a].targets)
         /\ map[a].condition \in Name \cup {NoCond}
         /\ map[a].targets \in Seq(Name) /\ Len(map[a].targets) <= 2
         /\ map[a].condition = NoCond <=> Len(map[a].targets) # 2
<1>1. a \in Name /\ a \in DOMAIN map
  BY DEF Invariant, TypeOK, Cfg, GraphInSync, TargetsAgree
<1>2. cfg.succ[a] \subseteq Name
  BY <1>1 DEF Invariant, TypeOK, Cfg
<1>3. cfg.succ[a] \subseteq cfg.nodes
  BY <1>1, <1>2 DEF Invariant, GraphInSync, IndexesConverse
<1>4. QED
  BY <1>1, <1>3 DEF Invariant, TypeOK, GraphInSync, TargetsAgree

\* Absorbing blocks into A leaves a well-formed map.
LEMMA AbsorbFacts ==
  ASSUME Invariant, NEW a \in cfg.nodes, NEW B \in SUBSET cfg.nodes, a \notin B,
         NEW stmts, NEW last \in B, Absorb(a, B, stmts, last)
  PROVE  /\ MapOK(map')
         /\ cfg.nodes \ B \subseteq DOMAIN map'
         /\ \A n \in cfg.nodes \ (B \cup {a}) : map'[n] = map[n]
         /\ map'[a].targets = map[last].targets
         /\ map'[a].condition = map[last].condition
<1>1. /\ a \in DOMAIN map /\ last \in DOMAIN map /\ cfg.nodes \subseteq DOMAIN map
      /\ MapOK(map)
  BY NodeFacts DEF Invariant, TypeOK, MapOK, GraphInSync, TargetsAgree
<1> DEFINE e == MapEntry(map[a].statements \o stmts, map[last].condition,
                         map[last].targets)
<1>2. /\ DOMAIN map' = DOMAIN map \ B
      /\ map'[a] = e
      /\ \A n \in DOMAIN map' \ {a} : map'[n] = map[n]
  BY <1>1 DEF Absorb, Drop
<1>3. /\ e.targets = map[last].targets /\ e.condition = map[last].condition
      /\ e = MapEntry(e.statements, e.condition, e.targets)
  BY DEF MapEntry
<1>4. MapOK(map')
  BY <1>1, <1>2, <1>3 DEF MapOK
<1>5. QED
  BY <1>1, <1>2, <1>3, <1>4

\* Taking A's condition leaves a well-formed map.
LEMMA TakeFacts ==
  ASSUME Invariant, NEW a \in cfg.nodes, NEW stmts, NEW d \in Name,
         TakeCondition(a, stmts, d)
  PROVE  /\ MapOK(map')
         /\ cfg.nodes \subseteq DOMAIN map'
         /\ \A n \in cfg.nodes \ {a} : map'[n] = map[n]
         /\ Listed(map'[a].targets) = {d}
         /\ map'[a].condition = NoCond <=> Len(map'[a].targets) # 2
<1>1. a \in DOMAIN map /\ cfg.nodes \subseteq DOMAIN map /\ MapOK(map)
  BY NodeFacts DEF Invariant, TypeOK, MapOK, GraphInSync, TargetsAgree
<1> DEFINE e == MapEntry(stmts, NoCond, <<d>>)
<1>2. /\ DOMAIN map' = DOMAIN map
      /\ map'[a] = e
      /\ \A n \in DOMAIN map' \ {a} : map'[n] = map[n]
  BY <1>1 DEF TakeCondition
<1>3. /\ e.targets = <<d>> /\ e.condition = NoCond
      /\ e = MapEntry(e.statements, e.condition, e.targets)
  BY DEF MapEntry
<1>4. MapOK(map')
  <2>a. 1 <= 2
    OBVIOUS
  <2>b. <<d>> \in Seq(Name) /\ Len(<<d>>) <= 2
    BY <2>a, ListedOne
  <2>1. /\ e.condition \in Name \cup {NoCond}
        /\ e.targets \in Seq(Name) /\ Len(e.targets) <= 2
    <3> HIDE DEF e
    <3>1. QED
      BY <1>3, <2>b
  <2>2. QED
    BY <1>1, <1>2, <1>3, <2>1 DEF MapOK
<1>5. QED
  BY <1>1, <1>2, <1>3, <1>4, ListedOne

-----------------------------------------------------------------------------
(* The six rules, where they do not panic.                                 *)

\* Merging a block into its only predecessor.
LEMMA SequentialContracts ==
  ASSUME Invariant, NEW a \in cfg.nodes, NEW b \in cfg.succ[a],
         ReduceSequential(a, b), a # b
  PROVE  Contracts(a, {b})
<1> DEFINE h == RemoveNode(cfg, b)
           dsts == Listed(map[b].targets)
<1>0. /\ SequentialAt(a, b) /\ Absorb(a, {b}, map[b].statements, b)
      /\ cfg' = AddEdges(h, a, dsts)
      /\ cfg \in Cfg /\ Consistent(cfg)
  BY DEF ReduceSequential, Invariant, TypeOK, GraphInSync, IndexesConverse,
         Consistent
<1>1. /\ a \in Name /\ b \in cfg.nodes /\ b \in Name /\ cfg.pred[b] = {a}
      /\ \A n \in Name : b \in cfg.succ[n] => n = a
  BY <1>0, OnlyPredecessor DEF SequentialAt
<1>2. /\ cfg.succ[a] = {b} /\ dsts = cfg.succ[b]
      /\ dsts \subseteq cfg.nodes \ {b}
      /\ map[b].condition = NoCond <=> Len(map[b].targets) # 2
  BY <1>0, <1>1, NodeFacts DEF SequentialAt
<1>3. Without(cfg, h, b)
  BY <1>0, <1>1, RemoveNodeFacts
<1> HIDE DEF h, dsts
<1>4. WithEdges(h, cfg', a, dsts)
  <2>1. h \in Cfg /\ Consistent(h) /\ a \in h.nodes /\ dsts \in SUBSET h.nodes
    BY <1>2, <1>3 DEF Without
  <2>2. QED
    BY <1>0, <2>1, AddEdgesFacts
<1>5. /\ cfg' \in Cfg /\ Consistent(cfg') /\ cfg'.nodes = cfg.nodes \ {b}
      /\ cfg'.succ[a] = dsts /\ cfg'.succ[b] = {}
      /\ \A n \in Name \ {a, b} : cfg'.succ[n] = cfg.succ[n]
  <2>1. cfg' \in Cfg /\ Consistent(cfg') /\ cfg'.nodes = cfg.nodes \ {b}
    BY <1>3, <1>4 DEF Without, WithEdges
  <2>2. cfg'.succ[a] = dsts /\ cfg'.succ[b] = {}
    BY <1>1, <1>2, <1>3, <1>4 DEF Without, WithEdges
  <2>3. ASSUME NEW n \in Name \ {a, b} PROVE cfg'.succ[n] = cfg.succ[n]
    <3>1. b \notin cfg.succ[n]
      BY <1>1
    <3>2. cfg'.succ[n] = cfg.succ[n] \ {b}
      BY <1>3, <1>4 DEF Without, WithEdges
    <3>3. QED
      BY <3>1, <3>2
  <2>4. QED
    BY <2>1, <2>2, <2>3
<1>6. GraphContracts(a, {b})
  BY <1>1, <1>2, <1>5 DEF GraphContracts
<1>7. MapFollows(a)
  <2>1. /\ MapOK(map') /\ cfg.nodes \ {b} \subseteq DOMAIN map'
        /\ \A n \in cfg.nodes \ ({b} \cup {a}) : map'[n] = map[n]
        /\ map'[a].targets = map[b].targets
        /\ map'[a].condition = map[b].condition
    BY <1>0, <1>1, AbsorbFacts
  <2>2. QED
    BY <1>2, <1>5, <2>1 DEF MapFollows, dsts
<1>8. QED
  BY <1>0, <1>6, <1>7 DEF Contracts, Absorb

\* Folding the short-circuit shape into its head.
LEMMA ShortCircuitContracts ==
  ASSUME Invariant, NEW a \in cfg.nodes, NEW b \in cfg.succ[a],
         NEW c \in cfg.succ[a], ReduceShortCircuit(a, b, c), a # c
  PROVE  Contracts(a, {b, c})
<1> DEFINE h1 == RemoveNode(cfg, b)
           h2 == RemoveNode(h1, c)
           dsts == Listed(map[c].targets)
           stmts == map[b].statements \o map[c].statements
<1>0. /\ ShortCircuitAt(a, b, c) /\ Absorb(a, {b, c}, stmts, c)
      /\ cfg' = AddEdges(h2, a, dsts)
      /\ cfg \in Cfg /\ Consistent(cfg)
  BY DEF ReduceShortCircuit, Invariant, TypeOK, GraphInSync, IndexesConverse,
         Consistent
<1>1. /\ a \in Name /\ b \in cfg.nodes /\ b \in Name /\ cfg.pred[b] = {a}
      /\ \A n \in Name : b \in cfg.succ[n] => n = a
  BY <1>0, OnlyPredecessor DEF ShortCircuitAt
<1>2. /\ b # c /\ cfg.succ[a] = {b, c} /\ cfg.succ[b] = {c}
      /\ cfg.pred[c] = {a, b}
  BY <1>0 DEF ShortCircuitAt
<1>3. /\ c \in Name /\ c \in cfg.nodes /\ a # b
      /\ \A n \in Name : c \in cfg.succ[n] => n = a \/ n = b
  BY <1>0, <1>1, <1>2 DEF Consistent, Cfg
<1>4. /\ dsts = cfg.succ[c] /\ dsts \subseteq cfg.nodes \ {b, c}
      /\ map[c].condition = NoCond <=> Len(map[c].targets) # 2
  BY <1>1, <1>2, <1>3, NodeFacts
<1>5. Without(cfg, h1, b)
  BY <1>0, <1>1, RemoveNodeFacts
<1> HIDE DEF h1
<1>6. Without(h1, h2, c)
  <2>1. h1 \in Cfg /\ Consistent(h1) /\ c \in Name
    BY <1>3, <1>5 DEF Without
  <2>2. QED
    BY <2>1, RemoveNodeFacts
<1> HIDE DEF h2, dsts, stmts
<1>7. WithEdges(h2, cfg', a, dsts)
  <2>1. h2 \in Cfg /\ Consistent(h2) /\ a \in h2.nodes /\ dsts \in SUBSET h2.nodes
    BY <1>3, <1>4, <1>5, <1>6 DEF Without
  <2>2. QED
    BY <1>0, <2>1, AddEdgesFacts
<1>8. /\ cfg' \in Cfg /\ Consistent(cfg') /\ cfg'.nodes = cfg.nodes \ {b, c}
      /\ cfg'.succ[a] = dsts /\ cfg'.succ[b] = {} /\ cfg'.succ[c] = {}
      /\ \A n \in Name \ {a, b, c} : cfg'.succ[n] = cfg.succ[n]
  <2>1. cfg' \in Cfg /\ Consistent(cfg') /\ cfg'.nodes = cfg.nodes \ {b, c}
    BY <1>5, <1>6, <1>7 DEF Without, WithEdges
  <2>2. \A n \in Name :
          cfg'.succ[n] = IF n = b \/ n = c THEN {}
                         ELSE IF n = a THEN (cfg.succ[a] \ {b, c}) \cup dsts
                         ELSE cfg.succ[n] \ {b, c}
    <3> SUFFICES ASSUME NEW n \in Name
                 PROVE  cfg'.succ[n] =
                          IF n = b \/ n = c THEN {}
                          ELSE IF n = a THEN (cfg.succ[a] \ {b, c}) \cup dsts
                          ELSE cfg.succ[n] \ {b, c}
      OBVIOUS
    <3>1. h1.succ[n] = (IF n = b THEN {} ELSE cfg.succ[n] \ {b})
      BY <1>5 DEF Without
    <3>2. h2.succ[n] = (IF n = c THEN {} ELSE h1.succ[n] \ {c})
      BY <1>6 DEF Without
    <3>3. cfg'.succ[n] = (IF n = a THEN h2.succ[n] \cup dsts ELSE h2.succ[n])
      BY <1>7 DEF WithEdges
    <3>4. QED
      BY <3>1, <3>2, <3>3, <1>3
  <2>3. cfg'.succ[a] = dsts /\ cfg'.succ[b] = {} /\ cfg'.succ[c] = {}
    <3>1. cfg.succ[a] \ {b, c} = {} /\ a # b /\ a # c
      BY <1>1, <1>2, <1>3
    <3>2. cfg'.succ[a] = (cfg.succ[a] \ {b, c}) \cup dsts
      BY <2>2, <3>1, <1>1
    <3>3. cfg'.succ[b] = {} /\ cfg'.succ[c] = {}
      BY <2>2, <1>1, <1>2, <1>3
    <3>4. QED
      BY <3>1, <3>2, <3>3
  <2>4. ASSUME NEW n \in Name \ {a, b, c} PROVE cfg'.succ[n] = cfg.succ[n]
    <3>1. b \notin cfg.succ[n] /\ c \notin cfg.succ[n]
      BY <1>1, <1>2, <1>3
    <3>2. cfg'.succ[n] = cfg.succ[n] \ {b, c}
      BY <2>2
    <3>3. QED
      BY <3>1, <3>2
  <2>5. QED
    BY <2>1, <2>3, <2>4
<1>9. GraphContracts(a, {b, c})
  BY <1>1, <1>2, <1>3, <1>4, <1>8 DEF GraphContracts
<1>10. MapFollows(a)
  <2>1. {b, c} \in SUBSET cfg.nodes /\ a \notin {b, c} /\ c \in {b, c}
    BY <1>1, <1>3
  <2>2. /\ MapOK(map') /\ cfg.nodes \ {b, c} \subseteq DOMAIN map'
        /\ \A n \in cfg.nodes \ ({b, c} \cup {a}) : map'[n] = map[n]
        /\ map'[a].targets = map[c].targets
        /\ map'[a].condition = map[c].condition
    BY <1>0, <2>1, AbsorbFacts
  <2>3. QED
    BY <1>4, <1>8, <2>2 DEF MapFollows, dsts
<1>11. QED
  BY <1>0, <1>9, <1>10 DEF Contracts, Absorb

\* Turning a self-loop into a while: no block goes, the back edge does.
LEMMA SelfLoopContracts ==
  ASSUME Invariant, NEW a \in cfg.nodes, NEW exit \in cfg.succ[a],
         ReduceSelfLoop(a, exit), map[a].condition # NoCond
  PROVE  Contracts(a, {})
<1> DEFINE stmts == Append(map[a].statements, LoopOn(a, a, map[a].statements))
<1>0. /\ exit # a /\ cfg.succ[a] = {a, exit}
      /\ TakeCondition(a, stmts, exit)
      /\ cfg' = RemoveEdge(cfg, a, a)
      /\ cfg \in Cfg /\ Consistent(cfg)
  BY DEF ReduceSelfLoop, SelfLoopAt, Invariant, TypeOK, GraphInSync,
         IndexesConverse, Consistent
<1>1. a \in Name /\ exit \in Name
  BY <1>0 DEF Cfg
<1>2. WithoutEdge(cfg, cfg', a, a)
  BY <1>0, <1>1, RemoveEdgeFacts
<1>3. /\ cfg' \in Cfg /\ Consistent(cfg') /\ cfg'.nodes = cfg.nodes
      /\ cfg'.succ[a] = {exit}
      /\ \A n \in Name \ {a} : cfg'.succ[n] = cfg.succ[n]
  BY <1>0, <1>1, <1>2 DEF WithoutEdge
<1>4. GraphContracts(a, {})
  BY <1>0, <1>1, <1>3 DEF GraphContracts
<1>5. MapFollows(a)
  BY <1>0, <1>1, <1>3, TakeFacts DEF MapFollows
<1>6. QED
  BY <1>0, <1>4, <1>5 DEF Contracts, TakeCondition

\* Folding a diamond.
LEMMA IfElseContracts ==
  ASSUME Invariant, NEW a \in cfg.nodes, NEW b \in cfg.succ[a],
         NEW c \in cfg.succ[a], NEW d \in cfg.succ[b],
         ReduceIfElse(a, b, c, d), map[a].condition # NoCond
  PROVE  Contracts(a, {b, c})
<1> DEFINE h1 == RemoveNode(cfg, b)
           h2 == RemoveNode(h1, c)
           stmts == WithBranch(a, map[map[a].targets[1]].statements,
                               map[map[a].targets[2]].statements)
<1>0. /\ IfElseAt(a, b, c, d) /\ TakeCondition(a, stmts, d)
      /\ cfg' = AddEdges(h2, a, {d})
      /\ cfg \in Cfg /\ Consistent(cfg)
  BY DEF ReduceIfElse, Invariant, TypeOK, GraphInSync, IndexesConverse,
         Consistent
<1>1. /\ a \in Name /\ b \in cfg.nodes /\ b \in Name /\ cfg.pred[b] = {a}
      /\ \A n \in Name : b \in cfg.succ[n] => n = a
  BY <1>0, OnlyPredecessor DEF IfElseAt
<1>2. /\ c \in cfg.nodes /\ c \in Name /\ cfg.pred[c] = {a}
      /\ \A n \in Name : c \in cfg.succ[n] => n = a
  BY <1>0, OnlyPredecessor DEF IfElseAt
<1>3. /\ b # c /\ cfg.succ[a] = {b, c} /\ cfg.succ[b] = {d} /\ cfg.succ[c] = {d}
  BY <1>0 DEF IfElseAt
<1>4. a # b /\ a # c
  BY <1>3
<1>5. d \in Name /\ d \in cfg.nodes /\ d # b /\ d # c
  BY <1>0, <1>1, <1>2, <1>3, <1>4 DEF Consistent, Cfg
<1>6. Without(cfg, h1, b)
  BY <1>0, <1>1, RemoveNodeFacts
<1> HIDE DEF h1
<1>7. Without(h1, h2, c)
  BY <1>2, <1>6, RemoveNodeFacts DEF Without
<1> HIDE DEF h2, stmts
<1>8. WithEdges(h2, cfg', a, {d})
  <2>1. h2 \in Cfg /\ Consistent(h2) /\ a \in h2.nodes /\ {d} \in SUBSET h2.nodes
    BY <1>4, <1>5, <1>6, <1>7 DEF Without
  <2>2. QED
    BY <1>0, <2>1, AddEdgesFacts
<1>9. /\ cfg' \in Cfg /\ Consistent(cfg') /\ cfg'.nodes = cfg.nodes \ {b, c}
      /\ cfg'.succ[a] = {d} /\ cfg'.succ[b] = {} /\ cfg'.succ[c] = {}
      /\ \A n \in Name \ {a, b, c} : cfg'.succ[n] = cfg.succ[n]
  <2>1. cfg' \in Cfg /\ Consistent(cfg') /\ cfg'.nodes = cfg.nodes \ {b, c}
    BY <1>6, <1>7, <1>8 DEF Without, WithEdges
  <2>2. \A n \in Name :
          cfg'.succ[n] = IF n = b \/ n = c THEN {}
                         ELSE IF n = a THEN (cfg.succ[a] \ {b, c}) \cup {d}
                         ELSE cfg.succ[n] \ {b, c}
    <3> SUFFICES ASSUME NEW n \in Name
                 PROVE  cfg'.succ[n] =
                          IF n = b \/ n = c THEN {}
                          ELSE IF n = a THEN (cfg.succ[a] \ {b, c}) \cup {d}
                          ELSE cfg.succ[n] \ {b, c}
      OBVIOUS
    <3>1. h1.succ[n] = (IF n = b THEN {} ELSE cfg.succ[n] \ {b})
      BY <1>6 DEF Without
    <3>2. h2.succ[n] = (IF n = c THEN {} ELSE h1.succ[n] \ {c})
      BY <1>7 DEF Without
    <3>3. cfg'.succ[n] = (IF n = a THEN h2.succ[n] \cup {d} ELSE h2.succ[n])
      BY <1>8 DEF WithEdges
    <3>4. QED
      BY <3>1, <3>2, <3>3, <1>4
  <2>3. cfg'.succ[a] = {d} /\ cfg'.succ[b] = {} /\ cfg'.succ[c] = {}
    <3>1. cfg.succ[a] \ {b, c} = {} /\ a # b /\ a # c
      BY <1>1, <1>2, <1>3, <1>4
    <3>2. cfg'.succ[a] = (cfg.succ[a] \ {b, c}) \cup {d}
      BY <2>2, <3>1, <1>1
    <3>3. cfg'.succ[b] = {} /\ cfg'.succ[c] = {}
      BY <2>2, <1>1, <1>2, <1>3, <1>4
    <3>4. QED
      BY <3>1, <3>2, <3>3
  <2>4. ASSUME NEW n \in Name \ {a, b, c} PROVE cfg'.succ[n] = cfg.succ[n]
    <3>1. b \notin cfg.succ[n] /\ c \notin cfg.succ[n]
      BY <1>1, <1>2, <1>3, <1>4
    <3>2. cfg'.succ[n] = cfg.succ[n] \ {b, c}
      BY <2>2
    <3>3. QED
      BY <3>1, <3>2
  <2>5. QED
    BY <2>1, <2>3, <2>4
<1>10. GraphContracts(a, {b, c})
  BY <1>1, <1>2, <1>3, <1>4, <1>9 DEF GraphContracts
<1>11. MapFollows(a)
  BY <1>0, <1>5, <1>9, TakeFacts DEF MapFollows
<1>12. QED
  BY <1>0, <1>10, <1>11 DEF Contracts, TakeCondition

\* Folding a triangle.
LEMMA IfNoElseContracts ==
  ASSUME Invariant, NEW a \in cfg.nodes, NEW b \in cfg.succ[a],
         NEW d \in cfg.succ[a], ReduceIfNoElse(a, b, d), map[a].condition # NoCond
  PROVE  Contracts(a, {b})
<1> DEFINE stmts == IF map[a].targets[1] = b
                      THEN WithBranch(a, map[b].statements, <<>>)
                      ELSE WithBranch(a, <<>>, map[b].statements)
<1>0. /\ IfNoElseAt(a, b, d) /\ TakeCondition(a, stmts, d)
      /\ cfg' = RemoveNode(cfg, b)
      /\ cfg \in Cfg /\ Consistent(cfg)
  BY DEF ReduceIfNoElse, Invariant, TypeOK, GraphInSync, IndexesConverse,
         Consistent
<1>1. /\ a \in Name /\ b \in cfg.nodes /\ b \in Name /\ cfg.pred[b] = {a}
      /\ \A n \in Name : b \in cfg.succ[n] => n = a
  BY <1>0, OnlyPredecessor DEF IfNoElseAt
<1>2. /\ b # d /\ cfg.succ[a] = {b, d} /\ cfg.succ[b] = {d} /\ a # b /\ d \in Name
  BY <1>0, <1>1 DEF IfNoElseAt, Cfg
<1>3. Without(cfg, cfg', b)
  BY <1>0, <1>1, RemoveNodeFacts
<1>4. /\ cfg' \in Cfg /\ Consistent(cfg') /\ cfg'.nodes = cfg.nodes \ {b}
      /\ cfg'.succ[a] = {d} /\ cfg'.succ[b] = {}
      /\ \A n \in Name \ {a, b} : cfg'.succ[n] = cfg.succ[n]
  <2>1. cfg' \in Cfg /\ Consistent(cfg') /\ cfg'.nodes = cfg.nodes \ {b}
    BY <1>3 DEF Without
  <2>2. cfg'.succ[a] = {d} /\ cfg'.succ[b] = {}
    BY <1>1, <1>2, <1>3 DEF Without
  <2>3. ASSUME NEW n \in Name \ {a, b} PROVE cfg'.succ[n] = cfg.succ[n]
    <3>1. b \notin cfg.succ[n]
      BY <1>1
    <3>2. cfg'.succ[n] = cfg.succ[n] \ {b}
      BY <1>3 DEF Without
    <3>3. QED
      BY <3>1, <3>2
  <2>4. QED
    BY <2>1, <2>2, <2>3
<1>5. GraphContracts(a, {b})
  BY <1>1, <1>2, <1>4 DEF GraphContracts
<1> HIDE DEF stmts
<1>6. MapFollows(a)
  BY <1>0, <1>2, <1>4, TakeFacts DEF MapFollows
<1>7. QED
  BY <1>0, <1>5, <1>6 DEF Contracts, TakeCondition

\* Folding a while.
LEMMA WhileContracts ==
  ASSUME Invariant, NEW a \in cfg.nodes, NEW b \in cfg.succ[a],
         NEW exit \in cfg.succ[a], ReduceWhile(a, b, exit), map[a].condition # NoCond
  PROVE  Contracts(a, {b})
<1> DEFINE h == RemoveNode(cfg, b)
           stmts == Append(map[a].statements, LoopOn(a, b, WhileBody(a, b)))
<1>0. /\ WhileAt(a, b, exit) /\ TakeCondition(a, stmts, exit)
      /\ cfg' = SetOut(h, a, {exit})
      /\ cfg \in Cfg /\ Consistent(cfg)
  BY DEF ReduceWhile, Invariant, TypeOK, GraphInSync, IndexesConverse, Consistent
<1>1. /\ a \in Name /\ b \in cfg.nodes /\ b \in Name /\ cfg.pred[b] = {a}
      /\ \A n \in Name : b \in cfg.succ[n] => n = a
  BY <1>0, OnlyPredecessor DEF WhileAt
<1>2. /\ b # exit /\ cfg.succ[a] = {b, exit} /\ cfg.succ[b] = {a} /\ a # b
      /\ exit \in Name /\ exit \in cfg.nodes
  BY <1>0, <1>1 DEF WhileAt, Cfg, Consistent
<1>3. Without(cfg, h, b)
  BY <1>0, <1>1, RemoveNodeFacts
<1> HIDE DEF h, stmts
<1>4. WithOut(h, cfg', a, {exit})
  <2>1. h \in Cfg /\ Consistent(h) /\ a \in h.nodes /\ {exit} \in SUBSET h.nodes
    BY <1>2, <1>3 DEF Without
  <2>2. QED
    BY <1>0, <2>1, SetOutFacts
<1>5. /\ cfg' \in Cfg /\ Consistent(cfg') /\ cfg'.nodes = cfg.nodes \ {b}
      /\ cfg'.succ[a] = {exit} /\ cfg'.succ[b] = {}
      /\ \A n \in Name \ {a, b} : cfg'.succ[n] = cfg.succ[n]
  <2>1. cfg' \in Cfg /\ Consistent(cfg') /\ cfg'.nodes = cfg.nodes \ {b}
    BY <1>3, <1>4 DEF Without, WithOut
  <2>2. cfg'.succ[a] = {exit} /\ cfg'.succ[b] = {}
    BY <1>1, <1>2, <1>3, <1>4 DEF Without, WithOut
  <2>3. ASSUME NEW n \in Name \ {a, b} PROVE cfg'.succ[n] = cfg.succ[n]
    <3>1. b \notin cfg.succ[n]
      BY <1>1
    <3>2. cfg'.succ[n] = cfg.succ[n] \ {b}
      BY <1>3, <1>4 DEF Without, WithOut
    <3>3. QED
      BY <3>1, <3>2
  <2>4. QED
    BY <2>1, <2>2, <2>3
<1>6. GraphContracts(a, {b})
  BY <1>1, <1>2, <1>5 DEF GraphContracts
<1>7. MapFollows(a)
  BY <1>0, <1>2, <1>5, TakeFacts DEF MapFollows
<1>8. QED
  BY <1>0, <1>6, <1>7 DEF Contracts, TakeCondition

-----------------------------------------------------------------------------
(* What a contraction preserves.                                           *)

\* A contraction keeps the two views of the graph in agreement.
LEMMA ContractionKeepsInvariant ==
  ASSUME Invariant, NEW a, NEW B, Contracts(a, B), status = "reducing"
  PROVE  Invariant'
<1>1. /\ cfg' \in Cfg /\ Consistent(cfg') /\ MapOK(map')
      /\ cfg'.nodes = cfg.nodes \ B /\ a \in cfg.nodes
      /\ UNCHANGED <<input, status>>
  BY DEF Contracts, GraphContracts, MapFollows
<1>2. TypeOK'
  BY <1>1 DEF Invariant, TypeOK, MapOK
<1>3. IndexesConverse'
  BY <1>1 DEF Consistent, IndexesConverse
<1>4. TargetsAgree'
  <2>1. cfg'.nodes \subseteq DOMAIN map'
    BY DEF Contracts, MapFollows
  <2>2. ASSUME NEW n \in cfg'.nodes
        PROVE  /\ cfg'.succ[n] = Listed(map'[n].targets)
               /\ map'[n].condition = NoCond <=> Len(map'[n].targets) # 2
    <3>1. CASE n = a
      BY <3>1 DEF Contracts, MapFollows
    <3>2. CASE n # a
      <4>1. n \in cfg.nodes /\ n \in Name \ (B \cup {a})
        BY <1>1, <2>2, <3>2, NodeFacts
      <4>2. cfg'.succ[n] = cfg.succ[n] /\ map'[n] = map[n]
        BY <2>2, <3>2, <4>1 DEF Contracts, GraphContracts, MapFollows
      <4>3. QED
        BY <4>1, <4>2, NodeFacts
    <3>3. QED
      BY <3>1, <3>2
  <2>3. QED
    BY <2>1, <2>2 DEF TargetsAgree
<1>5. QED
  BY <1>1, <1>2, <1>3, <1>4 DEF Invariant, GraphInSync

\* A contraction keeps every block reachable from the entry.
LEMMA ContractionKeepsReachability ==
  ASSUME Invariant, NEW a, NEW B, Contracts(a, B), EntryReachesAll
  PROVE  EntryReachesAll'
<1>1. GraphContracts(a, B)
  BY DEF Contracts
<1>2. a \in cfg.nodes /\ B \subseteq cfg.nodes /\ a \notin B
      /\ cfg'.nodes = cfg.nodes \ B /\ cfg.nodes \subseteq Name
  BY <1>1 DEF GraphContracts, Invariant, TypeOK, Cfg
<1>3. \A m, n \in Name : n \in cfg.succ[m] <=> m \in cfg.pred[n]
  BY DEF Invariant, GraphInSync, IndexesConverse
<1>4. Entry \in cfg'.nodes
  BY <1>1, <1>2 DEF EntryReachesAll, GraphContracts
<1>5. cfg'.pred[Entry] = {}
  <2>1. cfg' \in Cfg /\ Consistent(cfg')
    BY <1>1 DEF GraphContracts
  <2>2. ASSUME NEW m \in Name PROVE Entry \notin cfg'.succ[m]
    <3>1. \A n \in Name : Entry \notin cfg.succ[n]
      BY <1>3 DEF EntryReachesAll
    <3>2. CASE m = a
      BY <1>1, <1>2, <3>1, <3>2 DEF GraphContracts
    <3>3. CASE m \in B
      BY <1>1, <3>3 DEF GraphContracts
    <3>4. CASE m \in Name \ (B \cup {a})
      BY <1>1, <3>1, <3>4 DEF GraphContracts
    <3>5. QED
      BY <3>2, <3>3, <3>4
  <2>3. \A m \in Name : m \notin cfg'.pred[Entry]
    BY <2>1, <2>2 DEF Consistent
  <2>4. cfg'.pred[Entry] \subseteq Name
    BY <2>1 DEF Cfg
  <2>5. QED
    BY <2>3, <2>4
<1>6. ASSUME NEW S \in SUBSET (cfg'.nodes \ {Entry}), S # {}
      PROVE  \E m \in cfg'.nodes \ S : cfg'.succ[m] \cap S # {}
  <2> DEFINE T == IF a \in S THEN S \cup B ELSE S
  <2>1. T \in SUBSET (cfg.nodes \ {Entry}) /\ T # {}
    BY <1>2, <1>4, <1>6
  <2>2. PICK m \in cfg.nodes \ T : cfg.succ[m] \cap T # {}
    BY <2>1 DEF EntryReachesAll
  <2>3. PICK y \in T : y \in cfg.succ[m]
    BY <2>2
  <2>4. y \in cfg.nodes /\ y \in Name /\ m \in Name
    BY <1>2, <2>1, <2>2, <2>3
  <2>5. \A x \in B : x \in cfg.succ[m] => m \in B \cup {a}
    BY <1>1, <1>2, <1>3, <2>4 DEF GraphContracts
  <2>6. CASE a \in S
    <3>1. m \notin B \cup {a} /\ m \notin S
      BY <2>2, <2>6
    <3>2. y \in S
      BY <2>3, <2>5, <2>6, <3>1
    <3>3. cfg'.succ[m] = cfg.succ[m]
      BY <1>1, <2>4, <3>1 DEF GraphContracts
    <3>4. QED
      BY <1>2, <2>2, <2>3, <3>1, <3>2, <3>3
  <2>7. CASE a \notin S
    <3>1. y \in S /\ y \notin B \cup {a} /\ m \notin S
      BY <1>2, <1>6, <2>2, <2>3, <2>7
    <3>2. CASE m \in B \cup {a}
      <4>1. y \in cfg'.succ[a]
        BY <1>1, <2>3, <3>1, <3>2 DEF GraphContracts
      <4>2. QED
        BY <1>2, <2>7, <3>1, <4>1
    <3>3. CASE m \notin B \cup {a}
      <4>1. cfg'.succ[m] = cfg.succ[m]
        BY <1>1, <2>4, <3>3 DEF GraphContracts
      <4>2. QED
        BY <1>2, <2>2, <2>3, <3>1, <3>3, <4>1
    <3>4. QED
      BY <3>2, <3>3
  <2>8. QED
    BY <2>6, <2>7
<1>7. QED
  BY <1>4, <1>5, <1>6 DEF EntryReachesAll

\* A contraction removes a node, or an edge of A and nothing else.
LEMMA ContractionShrinks ==
  ASSUME Invariant, NEW a, NEW B, Contracts(a, B)
  PROVE  Shrinks
<1>1. /\ a \in cfg.nodes /\ a \in Name /\ B \subseteq cfg.nodes
      /\ cfg'.nodes = cfg.nodes \ B
  BY NodeFacts DEF Contracts, GraphContracts
<1>2. CASE B = {}
  <2>1. /\ cfg'.succ[a] # cfg.succ[a] /\ cfg'.succ[a] \subseteq cfg.succ[a]
        /\ \A n \in Name \ {a} : cfg'.succ[n] = cfg.succ[n]
    BY <1>2 DEF Contracts, GraphContracts
  <2>2. QED
    BY <1>1, <1>2, <2>1 DEF Shrinks
<1>3. CASE B # {}
  BY <1>1, <1>3 DEF Shrinks
<1>4. QED
  BY <1>2, <1>3

-----------------------------------------------------------------------------
(* The graph built from an accepted input.                                 *)

\* Each accepted block gets the map entry its lowering describes.
LEMMA BuiltBlock ==
  ASSUME input \in Inputs, Accepted(input), NEW i \in DOMAIN input
  PROVE  /\ input[i].name \in Name
         /\ BuildMap(input)[input[i].name] = InitialEntry(input[i])
         /\ InitialEntry(input[i]).targets = input[i].targets
         /\ input[i].targets \in Seq(Name) /\ Len(input[i].targets) <= 2
         /\ InitialEntry(input[i]).condition \in Name \cup {NoCond}
         /\ InitialEntry(input[i]).condition = NoCond
              <=> Len(input[i].targets) # 2
         /\ InitialEntry(input[i]) =
              MapEntry(InitialEntry(input[i]).statements,
                       InitialEntry(input[i]).condition,
                       InitialEntry(input[i]).targets)
<1> DEFINE b == input[i]
           n == b.name
<1>1. WellFormedBlock(b) /\ b \in BlockLowering
  BY InputsAssumption DEF WellFormedBlock
<1>2. /\ n \in Name /\ b.targets \in Seq(Name) /\ Len(b.targets) <= 2
      /\ b.cond = "none" <=> Len(b.targets) # 2
  BY <1>1 DEF WellFormedBlock, BlockLowering
<1>3. n \in Names(input) /\ BlockNamed(input, n) = b
  <2>1. \A j \in DOMAIN input : input[j].name = n => j = i
    BY DEF Accepted, Unique
  <2>2. (CHOOSE j \in DOMAIN input : input[j].name = n) = i
    BY <2>1
  <2>3. QED
    BY <2>2 DEF Names, BlockNamed
<1>4. BuildMap(input)[n] = InitialEntry(b)
  BY <1>3 DEF BuildMap
<1> DEFINE e == InitialEntry(b)
           c == IF b.cond = "none" THEN NoCond ELSE n
           st == IF b.code THEN <<Code(n)>> ELSE <<>>
<1>5. e = MapEntry(st, c, b.targets)
  BY DEF InitialEntry
<1> HIDE DEF b, n, c, st, e
<1>6. /\ e.targets = b.targets /\ e.condition = c
      /\ e = MapEntry(e.statements, e.condition, e.targets)
  BY <1>5 DEF MapEntry
<1>7. c \in Name \cup {NoCond} /\ (c = NoCond <=> Len(b.targets) # 2)
  BY <1>2 DEF c
<1>8. QED
  BY <1>2, <1>4, <1>6, <1>7 DEF e, n, b

\* The freshly built graph agrees with the freshly built map.
LEMMA BuildEstablishesInvariant ==
  ASSUME Invariant, BuildGraph
  PROVE  Invariant'
<1>0. /\ input \in Inputs /\ Accepted(input) /\ map' = BuildMap(input)
      /\ cfg' = BuildCfg(map') /\ status' = "reducing"
      /\ input' = input /\ body' = body
  BY DEF BuildGraph, Invariant
<1>1. DOMAIN map' = Names(input)
  BY <1>0 DEF BuildMap
<1>2. ASSUME NEW n \in DOMAIN map'
      PROVE  /\ n \in Name
             /\ map'[n] = MapEntry(map'[n].statements, map'[n].condition,
                                   map'[n].targets)
             /\ map'[n].condition \in Name \cup {NoCond}
             /\ map'[n].targets \in Seq(Name) /\ Len(map'[n].targets) <= 2
             /\ map'[n].condition = NoCond <=> Len(map'[n].targets) # 2
             /\ Listed(map'[n].targets) \subseteq DOMAIN map'
  <2>1. PICK i \in DOMAIN input : input[i].name = n
    BY <1>1 DEF Names
  <2>2. Listed(input[i].targets) \subseteq Names(input)
    BY <1>0 DEF Accepted, TargetsKnown
  <2>3. QED
    BY <1>0, <1>1, <2>1, <2>2, BuiltBlock
<1>3. MapOK(map')
  BY <1>2 DEF MapOK
<1>4. /\ cfg'.nodes = DOMAIN map'
      /\ \A n \in Name : cfg'.succ[n] = IF n \in DOMAIN map'
                                          THEN Listed(map'[n].targets) ELSE {}
      /\ \A n \in Name : cfg'.pred[n] =
                           {p \in DOMAIN map' : n \in Listed(map'[p].targets)}
  BY <1>0 DEF BuildCfg
<1>5. cfg' \in Cfg
  <2>1. DOMAIN map' \subseteq Name
    BY <1>2
  <2>2. \A n \in Name : (IF n \in DOMAIN map' THEN Listed(map'[n].targets) ELSE {})
                          \in SUBSET Name
    BY <1>2, <2>1
  <2>3. \A n \in Name : {p \in DOMAIN map' : n \in Listed(map'[p].targets)}
                          \in SUBSET Name
    BY <2>1
  <2>4. QED
    BY <1>0, <2>1, <2>2, <2>3 DEF BuildCfg, Cfg
<1>6. IndexesConverse'
  <2> SUFFICES ASSUME NEW m \in Name, NEW n \in Name
               PROVE  /\ n \in cfg'.succ[m] <=> m \in cfg'.pred[n]
                      /\ n \in cfg'.succ[m] => m \in cfg'.nodes /\ n \in cfg'.nodes
    BY DEF IndexesConverse
  <2>1. cfg'.succ[m] = (IF m \in DOMAIN map' THEN Listed(map'[m].targets) ELSE {})
    BY <1>4
  <2>2. cfg'.pred[n] = {p \in DOMAIN map' : n \in Listed(map'[p].targets)}
    BY <1>4
  <2>3. QED
    BY <1>2, <1>4, <2>1, <2>2
<1>7. TargetsAgree'
  BY <1>2, <1>4 DEF TargetsAgree
<1>8. TypeOK'
  BY <1>0, <1>3, <1>5 DEF Invariant, TypeOK, MapOK
<1>9. QED
  BY <1>0, <1>6, <1>7, <1>8 DEF Invariant, GraphInSync

\* A sound input is built into a graph whose entry reaches every node.
LEMMA BuildEstablishesReachability ==
  ASSUME Invariant, BuildGraph, SoundInput
  PROVE  EntryReachesAll'
<1>0. /\ input \in Inputs /\ Accepted(input) /\ map' = BuildMap(input)
      /\ cfg' = BuildCfg(map')
  BY DEF BuildGraph, Invariant
<1>1. DOMAIN map' = Names(input)
  BY <1>0 DEF BuildMap
<1>2. Invariant'
  BY BuildEstablishesInvariant
<1>3. ASSUME NEW i \in DOMAIN input
      PROVE  /\ input[i].name \in Name
             /\ map'[input[i].name].targets = input[i].targets
  BY <1>0, BuiltBlock
<1>4. cfg'.nodes = Names(input) /\ cfg' \in Cfg
  BY <1>0, <1>1, <1>2 DEF BuildCfg, Invariant, TypeOK
<1>5. cfg'.pred[Entry] = {}
  <2>1. cfg'.pred[Entry] = {p \in DOMAIN map' : Entry \in Listed(map'[p].targets)}
    BY <1>0 DEF BuildCfg
  <2>2. ASSUME NEW p \in DOMAIN map' PROVE Entry \notin Listed(map'[p].targets)
    <3>1. PICK i \in DOMAIN input : input[i].name = p
      BY <1>1 DEF Names
    <3>2. Entry \notin Listed(input[i].targets)
      BY DEF SoundInput
    <3>3. QED
      BY <1>3, <3>1, <3>2
  <2>3. QED
    BY <2>1, <2>2
<1>6. ASSUME NEW S \in SUBSET (cfg'.nodes \ {Entry}), S # {}
      PROVE  \E m \in cfg'.nodes \ S : cfg'.succ[m] \cap S # {}
  <2>1. PICK i \in DOMAIN input : /\ input[i].name \notin S
                                 /\ Listed(input[i].targets) \cap S # {}
    BY <1>4, <1>6 DEF SoundInput
  <2>2. input[i].name \in cfg'.nodes \ S
    BY <1>4, <2>1 DEF Names
  <2>3. cfg'.succ[input[i].name] = Listed(input[i].targets)
    BY <1>0, <1>3, <1>4, <1>1, <2>2 DEF BuildCfg
  <2>4. QED
    BY <2>1, <2>2, <2>3
<1>7. Entry \in cfg'.nodes
  BY <1>0, <1>4 DEF Accepted
<1>8. QED
  BY <1>5, <1>6, <1>7 DEF EntryReachesAll

-----------------------------------------------------------------------------
(* Every step, and the theorems.                                           *)

\* A node with two successors has the condition a rule takes from it.
LEMMA TwoSuccessors ==
  ASSUME Invariant, NEW a \in cfg.nodes, NEW b, NEW c, b # c,
         cfg.succ[a] = {b, c}
  PROVE  map[a].condition # NoCond
<1> DEFINE t == map[a].targets
<1>1. /\ Listed(t) = {b, c} /\ t \in Seq(Name) /\ Len(t) <= 2
      /\ map[a].condition = NoCond <=> Len(t) # 2
  BY NodeFacts
<1> HIDE DEF t
<1>2. CASE Len(t) = 0
  BY <1>1, <1>2, ListedFacts
<1>3. CASE Len(t) = 1
  BY <1>1, <1>3, ListedFacts
<1>4. CASE Len(t) = 2
  BY <1>1, <1>4
<1>5. QED
  BY <1>1, <1>2, <1>3, <1>4, ListedFacts

\* The two places where a rule can match a block as its own partner.
SelfMatch ==
  \E a \in cfg.nodes :
    SequentialAt(a, a) \/ \E b \in cfg.succ[a] : ShortCircuitAt(a, b, a)

\* A step builds the graph, ends the call, contracts the graph, or panics where a
\* rule matches a block as its own partner; it never panics on a missing condition.
LEMMA NextCases ==
  ASSUME Invariant, Next
  PROVE  \/ BuildGraph
         \/ /\ status' \in {"reduced", "rejected"}
            /\ UNCHANGED <<input, cfg, map>>
         \/ status = "reducing" /\ \E a, B : Contracts(a, B)
         \/ status = "reducing" /\ Panic /\ SelfMatch
<1>1. CASE ReturnEmpty
  BY <1>1 DEF ReturnEmpty
<1>2. CASE RejectInput
  BY <1>2 DEF RejectInput
<1>3. CASE BuildGraph
  BY <1>3
<1>4. ASSUME NEW a \in cfg.nodes, NEW b \in cfg.succ[a], NEW c \in cfg.succ[a],
             ReduceShortCircuit(a, b, c)
      PROVE  status = "reducing" /\ ((\E x, B : Contracts(x, B)) \/ (Panic /\ SelfMatch))
  <2>1. CASE a = c
    BY <1>4, <2>1 DEF ReduceShortCircuit, SelfMatch
  <2>2. CASE a # c
    BY <1>4, <2>2, ShortCircuitContracts DEF ReduceShortCircuit
  <2>3. QED
    BY <2>1, <2>2
<1>5. ASSUME NEW a \in cfg.nodes, NEW b \in cfg.succ[a], ReduceSequential(a, b)
      PROVE  status = "reducing" /\ ((\E x, B : Contracts(x, B)) \/ (Panic /\ SelfMatch))
  <2>1. CASE a = b
    BY <1>5, <2>1 DEF ReduceSequential, SelfMatch
  <2>2. CASE a # b
    BY <1>5, <2>2, SequentialContracts DEF ReduceSequential
  <2>3. QED
    BY <2>1, <2>2
<1>6. ASSUME NEW a \in cfg.nodes, NEW exit \in cfg.succ[a], ReduceSelfLoop(a, exit)
      PROVE  status = "reducing" /\ \E x, B : Contracts(x, B)
  <2>1. map[a].condition # NoCond
    BY <1>6, TwoSuccessors DEF ReduceSelfLoop, SelfLoopAt
  <2>2. QED
    BY <1>6, <2>1, SelfLoopContracts DEF ReduceSelfLoop
<1>7. ASSUME NEW a \in cfg.nodes, NEW b \in cfg.succ[a], NEW c \in cfg.succ[a],
             NEW d \in cfg.succ[b], ReduceIfElse(a, b, c, d)
      PROVE  status = "reducing" /\ \E x, B : Contracts(x, B)
  <2>1. map[a].condition # NoCond
    BY <1>7, TwoSuccessors DEF ReduceIfElse, IfElseAt
  <2>2. QED
    BY <1>7, <2>1, IfElseContracts DEF ReduceIfElse
<1>8. ASSUME NEW a \in cfg.nodes, NEW b \in cfg.succ[a], NEW d \in cfg.succ[a],
             ReduceIfNoElse(a, b, d)
      PROVE  status = "reducing" /\ \E x, B : Contracts(x, B)
  <2>1. map[a].condition # NoCond
    BY <1>8, TwoSuccessors DEF ReduceIfNoElse, IfNoElseAt
  <2>2. QED
    BY <1>8, <2>1, IfNoElseContracts DEF ReduceIfNoElse
<1>9. ASSUME NEW a \in cfg.nodes, NEW b \in cfg.succ[a], NEW exit \in cfg.succ[a],
             ReduceWhile(a, b, exit)
      PROVE  status = "reducing" /\ \E x, B : Contracts(x, B)
  <2>1. map[a].condition # NoCond
    BY <1>9, TwoSuccessors DEF ReduceWhile, WhileAt
  <2>2. QED
    BY <1>9, <2>1, WhileContracts DEF ReduceWhile
<1>10. CASE Succeed
  BY <1>10 DEF Succeed
<1>11. CASE RejectIrreducible
  BY <1>11 DEF RejectIrreducible
<1>12. QED
  BY <1>1, <1>2, <1>3, <1>4, <1>5, <1>6, <1>7, <1>8, <1>9, <1>10, <1>11 DEF Next

\* Where every node is reachable from the entry, no block is its own partner: the
\* blocks of such a match would be entered from nowhere else.
LEMMA ReachableHasNoSelfMatch ==
  ASSUME Invariant, EntryReachesAll
  PROVE  ~SelfMatch
<1>0. /\ cfg.nodes \subseteq Name
      /\ \A m, n \in Name : n \in cfg.succ[m] <=> m \in cfg.pred[n]
      /\ \A m \in cfg.nodes : cfg.succ[m] \subseteq cfg.nodes
  BY NodeFacts DEF Invariant, TypeOK, Cfg, GraphInSync, IndexesConverse
<1>1. ASSUME NEW a \in cfg.nodes, SequentialAt(a, a) PROVE FALSE
  <2>1. cfg.pred[a] = {a}
    BY <1>0, <1>1 DEF SequentialAt, InDegreeOne
  <2>2. a # Entry /\ {a} \in SUBSET (cfg.nodes \ {Entry})
    BY <2>1 DEF EntryReachesAll
  <2>3. PICK m \in cfg.nodes \ {a} : cfg.succ[m] \cap {a} # {}
    BY <2>2 DEF EntryReachesAll
  <2>4. m \in cfg.pred[a]
    BY <1>0, <2>3
  <2>5. QED
    BY <2>1, <2>3, <2>4
<1>2. ASSUME NEW a \in cfg.nodes, NEW b \in cfg.succ[a], ShortCircuitAt(a, b, a)
      PROVE  FALSE
  <2>1. cfg.pred[a] = {a, b} /\ cfg.pred[b] = {a} /\ b \in cfg.nodes
    BY <1>0, <1>2 DEF ShortCircuitAt, InDegreeOne
  <2>2. {a, b} \in SUBSET (cfg.nodes \ {Entry})
    BY <2>1 DEF EntryReachesAll
  <2>3. PICK m \in cfg.nodes \ {a, b} : cfg.succ[m] \cap {a, b} # {}
    BY <2>2 DEF EntryReachesAll
  <2>4. m \in cfg.pred[a] \/ m \in cfg.pred[b]
    BY <1>0, <2>1, <2>3
  <2>5. QED
    BY <2>1, <2>3, <2>4
<1>3. QED
  BY <1>1, <1>2 DEF SelfMatch

LEMMA InitInvariant == Init => Invariant
<1> SUFFICES ASSUME Init PROVE Invariant
  OBVIOUS
<1>1. EmptyCfg \in Cfg
  BY DEF EmptyCfg, Cfg
<1>2. DOMAIN map = {}
  BY DEF Init
<1>3. TypeOK
  BY <1>1, <1>2, InputsAssumption DEF Init, TypeOK
<1>4. GraphInSync
  BY <1>2 DEF Init, EmptyCfg, GraphInSync, IndexesConverse, TargetsAgree
<1>5. QED
  BY <1>3, <1>4 DEF Init, Invariant

\* Every step, and every stutter, keeps the graph and the map in agreement.
LEMMA StepInvariant == Invariant /\ [Next]_vars => Invariant'
<1> SUFFICES ASSUME Invariant, [Next]_vars PROVE Invariant'
  OBVIOUS
<1>1. ASSUME status' \in {"received", "reducing", "reduced", "rejected", "panicked"},
             UNCHANGED <<input, cfg, map>>
      PROVE  Invariant'
  BY <1>1 DEF Invariant, TypeOK, GraphInSync, IndexesConverse, TargetsAgree
<1>2. CASE BuildGraph
  BY <1>2, BuildEstablishesInvariant
<1>3. CASE status = "reducing" /\ \E a, B : Contracts(a, B)
  BY <1>3, ContractionKeepsInvariant
<1>4. CASE Panic
  BY <1>1, <1>4 DEF Panic
<1>5. CASE status' \in {"reduced", "rejected"} /\ UNCHANGED <<input, cfg, map>>
  BY <1>1, <1>5
<1>6. CASE UNCHANGED vars
  BY <1>1, <1>6 DEF vars, Invariant, TypeOK
<1>7. QED
  BY <1>2, <1>3, <1>4, <1>5, <1>6, NextCases

\* SoundInput speaks of the argument only.
LEMMA SoundInputStable ==
  ASSUME input' = input
  PROVE  SoundInput' <=> SoundInput
BY DEF SoundInput, Accepted, Unique, Names, TargetsKnown, Listed

\* Whatever the input, the indexes, the map and the types are kept together.
THEOREM InvariantHolds == Spec => []Invariant
BY InitInvariant, StepInvariant, PTL DEF Spec

\* lower_cfg's variables keep their types.
THEOREM TypeCorrect == Spec => []TypeOK
<1>1. Invariant => TypeOK
  BY DEF Invariant
<1>2. QED
  BY <1>1, InvariantHolds, PTL

\* Whatever the input and whatever the hash order, the two indexes of the digraph
\* and the branch targets of the blocks describe one graph at every step.
THEOREM GraphStaysInSync == Spec => []GraphInSync
<1>1. Invariant => GraphInSync
  BY DEF Invariant
<1>2. QED
  BY <1>1, InvariantHolds, PTL

\* A step that keeps the invariant keeps the reachability of what is left.
LEMMA ReachabilityStep == Invariant /\ ReachabilityKept /\ [Next]_vars => ReachabilityKept'
<1> SUFFICES ASSUME Invariant, ReachabilityKept, [Next]_vars,
                    SoundInput', status' = "reducing"
             PROVE  EntryReachesAll'
  BY DEF ReachabilityKept
<1>1. CASE BuildGraph
  <2>1. SoundInput
    BY <1>1, SoundInputStable DEF BuildGraph
  <2>2. QED
    BY <1>1, <2>1, BuildEstablishesReachability
<1>2. CASE status = "reducing" /\ \E a, B : Contracts(a, B)
  <2>1. SoundInput
    BY <1>2, SoundInputStable DEF Contracts
  <2>2. QED
    BY <1>2, <2>1, ContractionKeepsReachability DEF ReachabilityKept
<1>3. CASE UNCHANGED vars
  <2>1. SoundInput /\ status = "reducing"
    BY <1>3, SoundInputStable DEF vars
  <2>2. QED
    BY <1>3, <2>1 DEF vars, ReachabilityKept, EntryReachesAll
<1>4. CASE Panic
  BY <1>4 DEF Panic
<1>5. QED
  BY <1>1, <1>2, <1>3, <1>4, NextCases

\* From a sound input, every node of every intermediate graph is reachable from
\* the entry.
THEOREM ReachabilityStaysKept == Spec => []ReachabilityKept
<1>1. Init => ReachabilityKept
  BY DEF Init, ReachabilityKept
<1>2. Invariant /\ ReachabilityKept /\ [Next]_vars => ReachabilityKept'
  BY ReachabilityStep
<1>3. QED
  BY <1>1, <1>2, InvariantHolds, PTL DEF Spec

\* From a sound input no step panics.
LEMMA NoPanicStep ==
  Invariant /\ ReachabilityKept /\ NoPanicOnSoundInput /\ [Next]_vars
    => NoPanicOnSoundInput'
<1> SUFFICES ASSUME Invariant, ReachabilityKept, NoPanicOnSoundInput,
                    [Next]_vars, SoundInput'
             PROVE  status' # "panicked"
  BY DEF NoPanicOnSoundInput
<1>1. CASE BuildGraph
  BY <1>1 DEF BuildGraph
<1>2. CASE status' \in {"reduced", "rejected"}
  BY <1>2
<1>3. CASE status = "reducing" /\ \E a, B : Contracts(a, B)
  BY <1>3 DEF Contracts
<1>4. CASE status = "reducing" /\ Panic /\ SelfMatch
  <2>1. SoundInput
    BY <1>4, SoundInputStable DEF Panic
  <2>2. QED
    BY <1>4, <2>1, ReachableHasNoSelfMatch DEF ReachabilityKept
<1>5. CASE UNCHANGED vars
  <2>1. SoundInput
    BY <1>5, SoundInputStable DEF vars
  <2>2. QED
    BY <1>5, <2>1 DEF vars, NoPanicOnSoundInput
<1>6. QED
  BY <1>1, <1>2, <1>3, <1>4, <1>5, NextCases

\* lower_cfg panics on no input whose entry has no predecessor and whose other
\* blocks are all reachable from it.
THEOREM NoPanicOnReachableCode == Spec => []NoPanicOnSoundInput
<1>1. Init => NoPanicOnSoundInput
  BY DEF Init, NoPanicOnSoundInput
<1>2. Invariant /\ ReachabilityKept /\ NoPanicOnSoundInput /\ [Next]_vars
        => NoPanicOnSoundInput'
  BY NoPanicStep
<1>3. QED
  BY <1>1, <1>2, InvariantHolds, ReachabilityStaysKept, PTL DEF Spec

\* Every rewrite removes a node or an edge and adds no node: the measure that ends
\* the reduction loop decreases at every step, for every input and hash order.
THEOREM RewritesShrink == Spec => EveryStepShrinks
<1>1. Invariant /\ [Next]_vars => [Shrinks]_vars
  <2> SUFFICES ASSUME Invariant, Next PROVE Shrinks
    OBVIOUS
  <2>1. CASE BuildGraph
    BY <2>1 DEF BuildGraph, Shrinks
  <2>2. CASE status' \in {"reduced", "rejected"}
    BY <2>2 DEF Shrinks
  <2>3. CASE \E a, B : Contracts(a, B)
    BY <2>3, ContractionShrinks
  <2>4. CASE Panic
    BY <2>4 DEF Panic, Shrinks
  <2>5. QED
    BY <2>1, <2>2, <2>3, <2>4, NextCases
<1>2. QED
  BY <1>1, InvariantHolds, PTL DEF Spec, EveryStepShrinks
=============================================================================
