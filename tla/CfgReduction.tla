----------------------------- MODULE CfgReduction -----------------------------
(***************************************************************************)
(* Structural reduction of a control-flow graph to one statement list:     *)
(* lower_cfg and the six rewrite rules of cfg.rs.                          *)
(*                                                                         *)
(* The reducer keeps two views of the same graph: a small digraph (Cfg)    *)
(* whose successor and predecessor indexes it edits by hand, and a map     *)
(* from block name to the block being built (statements, condition,        *)
(* branch targets).  A rule reads both and rewrites both.  Which of several *)
(* matching places a rule takes is decided by the iteration order of a     *)
(* HashSet, which differs from process to process: here it is a choice.    *)
(***************************************************************************)
EXTENDS Naturals, Sequences

CONSTANTS
  Name,     \* the block names
  Entry,    \* the entry_name argument of lower_cfg
  NoCond,   \* the None of BlockLowering.condition
  Inputs    \* the lists of block lowerings lower_cfg may be called with

(***************************************************************************)
(* What the translator hands over for one basic block.  The statements of  *)
(* a block are abstracted to whether there are any, its condition to       *)
(* whether there is one and whether it is a top-level && or ||.            *)
(***************************************************************************)
BlockLowering ==
  [name: Name, code: BOOLEAN, cond: {"none", "plain", "compound"},
   targets: Seq(Name)]

WellFormedBlock(b) ==
  /\ b \in BlockLowering
  /\ Len(b.targets) <= 2
  /\ b.cond = "none" <=> Len(b.targets) # 2

ASSUME EntryAssumption == Entry \in Name /\ NoCond \notin Name

ASSUME InputsAssumption ==
  \A blocks \in Inputs :
    /\ blocks \in Seq(BlockLowering)
    /\ \A i \in DOMAIN blocks : WellFormedBlock(blocks[i])

VARIABLES
  input,    \* the argument: a list of block lowerings
  status,   \* "received", "reducing", "reduced", "rejected" or "panicked"
  cfg,      \* the digraph: nodes, and the successor and predecessor indexes
  map,      \* block name -> [statements, condition, targets]
  body      \* the statements returned, once status = "reduced"

vars == <<input, status, cfg, map, body>>

-----------------------------------------------------------------------------
(* The emitted statements.  The code of source block n is one indivisible  *)
(* statement Code(n); a condition is named after the block whose br it was. *)

Code(n) == [kind |-> "code", block |-> n]
If(c, ifBlock, elseBlock) ==
  [kind |-> "if", cond |-> c, ifBlock |-> ifBlock, elseBlock |-> elseBlock]
While(c, negated, stmts) ==
  [kind |-> "while", cond |-> c, negated |-> negated, body |-> stmts]

MapEntry(stmts, cond, targets) ==
  [statements |-> stmts, condition |-> cond, targets |-> targets]

Listed(s) == {s[i] : i \in 1..Len(s)}

-----------------------------------------------------------------------------
(* The digraph of cfg.rs.  A node that is absent has no entry in out and   *)
(* inn; every query then answers empty, which is what these functions hold. *)

EmptyCfg == [nodes |-> {}, succ |-> [n \in Name |-> {}],
             pred |-> [n \in Name |-> {}]]

\* Mutant of AddEdges: only the predecessor index is told.
AddEdges_PredOnly(g, src, dsts) ==
  [g EXCEPT !.pred = [n \in Name |-> IF n \in dsts THEN @[n] \cup {src} ELSE @[n]]]

AddEdges(g, src, dsts) ==
  [nodes |-> IF dsts = {} THEN g.nodes ELSE g.nodes \cup {src} \cup dsts,
   succ  |-> [g.succ EXCEPT ![src] = @ \cup dsts],
   pred  |-> [n \in Name |-> IF n \in dsts THEN g.pred[n] \cup {src}
                                           ELSE g.pred[n]]]

\* Removes n and, through each index, its mention in the other one.
RemoveNode(g, n) ==
  [nodes |-> g.nodes \ {n},
   succ  |-> [m \in Name |-> IF m = n THEN {}
                             ELSE IF m \in g.pred[n] THEN g.succ[m] \ {n}
                             ELSE g.succ[m]],
   pred  |-> [m \in Name |-> IF m = n THEN {}
                             ELSE IF m \in g.succ[n] THEN g.pred[m] \ {n}
                             ELSE g.pred[m]]]

\* Mutant of RemoveEdge: only the predecessor index is told.
RemoveEdge_PredOnly(g, src, dst) == [g EXCEPT !.pred[dst] = @ \ {src}]

RemoveEdge(g, src, dst) ==
  [nodes |-> g.nodes,
   succ  |-> [g.succ EXCEPT ![src] = @ \ {dst}],
   pred  |-> [g.pred EXCEPT ![dst] = @ \ {src}]]

SetOut(g, src, dsts) ==
  AddEdges([nodes |-> g.nodes,
            succ  |-> [g.succ EXCEPT ![src] = {}],
            pred  |-> [n \in Name |-> IF n \in g.succ[src]
                                      THEN g.pred[n] \ {src} ELSE g.pred[n]]],
           src, dsts)

InDegreeOne(n)  == \E p \in Name : cfg.pred[n] = {p}

-----------------------------------------------------------------------------
(* lower_cfg up to the reduction loop: argument checks, then the graph.    *)

Names(blocks) == {blocks[i].name : i \in DOMAIN blocks}

Unique(blocks) ==
  \A i, j \in DOMAIN blocks : blocks[i].name = blocks[j].name => i = j

TargetsKnown(blocks) ==
  \A i \in DOMAIN blocks : Listed(blocks[i].targets) \subseteq Names(blocks)

\* Mutant of Accepted: a second block of the same label replaces the first.
Accepted_Duplicates(blocks) == Entry \in Names(blocks) /\ TargetsKnown(blocks)

Accepted(blocks) ==
  Unique(blocks) /\ Entry \in Names(blocks) /\ TargetsKnown(blocks)

BlockNamed(blocks, n) ==
  blocks[CHOOSE i \in DOMAIN blocks : blocks[i].name = n]

InitialEntry(b) ==
  MapEntry(IF b.code THEN <<Code(b.name)>> ELSE <<>>,
           IF b.cond = "none" THEN NoCond ELSE b.name,
           b.targets)

BuildMap(blocks) ==
  [n \in Names(blocks) |-> InitialEntry(BlockNamed(blocks, n))]

BuildCfg(m) ==
  [nodes |-> DOMAIN m,
   succ  |-> [n \in Name |-> IF n \in DOMAIN m THEN Listed(m[n].targets)
                                               ELSE {}],
   pred  |-> [n \in Name |-> {p \in DOMAIN m : n \in Listed(m[p].targets)}]]

\* is_compound_boolean of the condition that block n's br carried.
Compound(n) ==
  \E i \in DOMAIN input : input[i].name = n /\ input[i].cond = "compound"

Init ==
  /\ input \in Inputs
  /\ status = "received"
  /\ cfg = EmptyCfg
  /\ map = <<>>
  /\ body = <<>>

\* An empty list is an empty program.
ReturnEmpty ==
  /\ status = "received"
  /\ input = <<>>
  /\ status' = "reduced"
  /\ UNCHANGED <<input, cfg, map, body>>

\* A duplicate label, a missing entry or an unknown target is an error.
RejectInput ==
  /\ status = "received"
  /\ input # <<>>
  /\ ~Accepted(input)
  /\ status' = "rejected"
  /\ UNCHANGED <<input, cfg, map, body>>

BuildGraph ==
  /\ status = "received"
  /\ input # <<>>
  /\ Accepted(input)
  /\ map' = BuildMap(input)
  /\ cfg' = BuildCfg(map')
  /\ status' = "reducing"
  /\ UNCHANGED <<input, body>>

-----------------------------------------------------------------------------
(* Where each rule matches.                                                *)

\* A has one successor, B one predecessor.  Nothing says A # B.
SequentialAt(a, b) == cfg.succ[a] = {b} /\ InDegreeOne(b)

\* Mutant of ShortCircuitAt: B may have statements.
ShortCircuitAt_FullRhs(a, b, c) ==
  /\ b # c
  /\ cfg.succ[a] = {b, c}
  /\ InDegreeOne(b)
  /\ cfg.succ[b] = {c}
  /\ cfg.pred[c] = {a, b}
  /\ map[c].condition # NoCond /\ Compound(map[c].condition)

\* A -> {B, C}, B -> C; B empty, C guarded by a compound condition.
ShortCircuitAt(a, b, c) ==
  /\ b # c
  /\ cfg.succ[a] = {b, c}
  /\ InDegreeOne(b)
  /\ cfg.succ[b] = {c}
  /\ cfg.pred[c] = {a, b}
  /\ map[c].condition # NoCond /\ Compound(map[c].condition)
  /\ map[b].statements = <<>>

SelfLoopAt(n, exit) == exit # n /\ cfg.succ[n] = {n, exit}

IfElseAt(a, b, c, d) ==
  /\ b # c
  /\ cfg.succ[a] = {b, c}
  /\ InDegreeOne(b) /\ InDegreeOne(c)
  /\ cfg.succ[b] = {d} /\ cfg.succ[c] = {d}

\* Mutants of IfNoElseAt: the arm may have other predecessors; only an arm on the
\* true branch is matched.
IfNoElseAt_SharedArm(a, b, d) ==
  b # d /\ cfg.succ[a] = {b, d} /\ cfg.succ[b] = {d}
IfNoElseAt_ThenOnly(a, b, d) ==
  /\ b # d /\ cfg.succ[a] = {b, d} /\ InDegreeOne(b) /\ cfg.succ[b] = {d}
  /\ map[a].targets[1] = b

IfNoElseAt(a, b, d) ==
  b # d /\ cfg.succ[a] = {b, d} /\ InDegreeOne(b) /\ cfg.succ[b] = {d}

WhileAt(a, b, exit) ==
  b # exit /\ cfg.succ[a] = {b, exit} /\ InDegreeOne(b) /\ cfg.succ[b] = {a}

(* The loop of lower_cfg restarts from the first rule after every rewrite: *)
(* a rule runs only where no rule before it matches anywhere.              *)

ShortCircuitMatches ==
  \E a \in cfg.nodes : \E b, c \in cfg.succ[a] : ShortCircuitAt(a, b, c)
SequentialMatches ==
  \E a \in cfg.nodes : \E b \in cfg.succ[a] : SequentialAt(a, b)
SelfLoopMatches ==
  \E n \in cfg.nodes : \E exit \in cfg.succ[n] : SelfLoopAt(n, exit)
IfElseMatches ==
  \E a \in cfg.nodes : \E b, c \in cfg.succ[a] :
    \E d \in cfg.succ[b] : IfElseAt(a, b, c, d)
IfNoElseMatches ==
  \E a \in cfg.nodes : \E b, d \in cfg.succ[a] : IfNoElseAt(a, b, d)
WhileMatches ==
  \E a \in cfg.nodes : \E b, exit \in cfg.succ[a] : WhileAt(a, b, exit)

-----------------------------------------------------------------------------
(* The rewrites.                                                           *)

Drop(m, ns) == [n \in DOMAIN m \ ns |-> m[n]]

\* An unwrap or expect that finds nothing.
Panic ==
  /\ status' = "panicked"
  /\ UNCHANGED <<input, cfg, map, body>>

\* Mutant of Absorb: the absorbed targets are added to A's own.
Absorb_TargetsAppended(a, absorbed, stmts, last) ==
  /\ map' = [Drop(map, absorbed) EXCEPT
               ![a] = MapEntry(map[a].statements \o stmts, map[last].condition,
                               map[a].targets \o map[last].targets)]
  /\ UNCHANGED <<input, status, body>>

\* Mutant of Absorb: the statements are those the last block was received with.
Absorb_AsReceived(a, absorbed, stmts, last) ==
  /\ map' = [Drop(map, absorbed) EXCEPT
               ![a] = MapEntry(map[a].statements
                                 \o InitialEntry(BlockNamed(input, last)).statements,
                               map[last].condition, map[last].targets)]
  /\ UNCHANGED <<input, status, body>>

\* A absorbs B: statements appended, condition and targets inherited.
Absorb(a, absorbed, stmts, last) ==
  /\ map' = [Drop(map, absorbed) EXCEPT
               ![a] = MapEntry(map[a].statements \o stmts,
                               map[last].condition, map[last].targets)]
  /\ UNCHANGED <<input, status, body>>

\* merge_sequential removes B from the map before it looks A up.
ReduceSequential(a, b) ==
  /\ status = "reducing"
  /\ SequentialAt(a, b)
  /\ ~ShortCircuitMatches
  /\ IF a = b
       THEN Panic
       ELSE /\ Absorb(a, {b}, map[b].statements, b)
            /\ cfg' = AddEdges(RemoveNode(cfg, b), a, Listed(map[b].targets))

ReduceShortCircuit(a, b, c) ==
  /\ status = "reducing"
  /\ ShortCircuitAt(a, b, c)
  /\ IF a = c
       THEN Panic
       ELSE /\ Absorb(a, {b, c}, map[b].statements \o map[c].statements, c)
            /\ cfg' = AddEdges(RemoveNode(RemoveNode(cfg, b), c), a,
                               Listed(map[c].targets))

\* The rules below take A's condition and leave A with the one target next.
TakeCondition(a, stmts, next) ==
  /\ map' = [map EXCEPT ![a] = MapEntry(stmts, NoCond, <<next>>)]
  /\ UNCHANGED <<input, status, body>>

\* Mutant of LoopOn: the polarity of the back edge is forgotten.
LoopOn_AlwaysTrue(a, first, stmts) == While(map[a].condition, FALSE, stmts)

\* The test of the emitted while is negated (cond == 0) when the body is on
\* the false branch.
LoopOn(a, first, stmts) ==
  While(map[a].condition, map[a].targets[1] # first, stmts)

ReduceSelfLoop(n, exit) ==
  /\ status = "reducing"
  /\ SelfLoopAt(n, exit)
  /\ ~ShortCircuitMatches /\ ~SequentialMatches
  /\ IF map[n].condition = NoCond
       THEN Panic
       ELSE /\ TakeCondition(n, Append(map[n].statements,
                                       LoopOn(n, n, map[n].statements)), exit)
            /\ cfg' = RemoveEdge(cfg, n, n)

\* No if is emitted when both arms are empty; the condition is taken anyway.
WithBranch(a, ifBlock, elseBlock) ==
  IF ifBlock = <<>> /\ elseBlock = <<>>
    THEN map[a].statements
    ELSE Append(map[a].statements, If(map[a].condition, ifBlock, elseBlock))

ReduceIfElse(a, b, c, d) ==
  /\ status = "reducing"
  /\ IfElseAt(a, b, c, d)
  /\ ~ShortCircuitMatches /\ ~SequentialMatches /\ ~SelfLoopMatches
  /\ IF map[a].condition = NoCond
       THEN Panic
       ELSE /\ TakeCondition(a, WithBranch(a, map[map[a].targets[1]].statements,
                                           map[map[a].targets[2]].statements), d)
            /\ cfg' = AddEdges(RemoveNode(RemoveNode(cfg, b), c), a, {d})

\* Mutant of ReduceIfNoElse: an if with nothing in it is skipped, graph and all,
\* and the rule still reports a match.
ReduceIfNoElse_SkipEmpty(a, b, d) ==
  /\ status = "reducing"
  /\ IfNoElseAt(a, b, d)
  /\ ~ShortCircuitMatches /\ ~SequentialMatches /\ ~SelfLoopMatches
  /\ ~IfElseMatches
  /\ IF map[b].statements = <<>> THEN UNCHANGED vars
     ELSE /\ TakeCondition(a, WithBranch(a, map[b].statements, <<>>), d)
          /\ cfg' = RemoveNode(cfg, b)

ReduceIfNoElse(a, b, d) ==
  /\ status = "reducing"
  /\ IfNoElseAt(a, b, d)
  /\ ~ShortCircuitMatches /\ ~SequentialMatches /\ ~SelfLoopMatches
  /\ ~IfElseMatches
  /\ IF map[a].condition = NoCond
       THEN Panic
       ELSE /\ TakeCondition(a, IF map[a].targets[1] = b
                                  THEN WithBranch(a, map[b].statements, <<>>)
                                  ELSE WithBranch(a, <<>>, map[b].statements), d)
            /\ cfg' = RemoveNode(cfg, b)

\* The header runs again before every test but the first.
WhileBody(a, b) == map[b].statements \o map[a].statements

ReduceWhile(a, b, exit) ==
  /\ status = "reducing"
  /\ WhileAt(a, b, exit)
  /\ ~ShortCircuitMatches /\ ~SequentialMatches /\ ~SelfLoopMatches
  /\ ~IfElseMatches /\ ~IfNoElseMatches
  /\ IF map[a].condition = NoCond
       THEN Panic
       ELSE /\ TakeCondition(a, Append(map[a].statements,
                                       LoopOn(a, b, WhileBody(a, b))), exit)
            /\ cfg' = SetOut(RemoveNode(cfg, b), a, {exit})

NoRuleMatches ==
  ~ShortCircuitMatches /\ ~SequentialMatches /\ ~SelfLoopMatches /\ ~IfElseMatches
    /\ ~IfNoElseMatches /\ ~WhileMatches

Succeed ==
  /\ status = "reducing"
  /\ NoRuleMatches
  /\ cfg.nodes = {Entry}
  /\ status' = "reduced"
  /\ body' = map[Entry].statements
  /\ UNCHANGED <<input, cfg, map>>

RejectIrreducible ==
  /\ status = "reducing"
  /\ NoRuleMatches
  /\ cfg.nodes # {Entry}
  /\ status' = "rejected"
  /\ UNCHANGED <<input, cfg, map, body>>

Next ==
  \/ ReturnEmpty
  \/ RejectInput
  \/ BuildGraph
  \/ \E a \in cfg.nodes : \E b, c \in cfg.succ[a] : ReduceShortCircuit(a, b, c)
  \/ \E a \in cfg.nodes : \E b \in cfg.succ[a] : ReduceSequential(a, b)
  \/ \E n \in cfg.nodes : \E exit \in cfg.succ[n] : ReduceSelfLoop(n, exit)
  \/ \E a \in cfg.nodes : \E b, c \in cfg.succ[a] :
       \E d \in cfg.succ[b] : ReduceIfElse(a, b, c, d)
  \/ \E a \in cfg.nodes : \E b, d \in cfg.succ[a] : ReduceIfNoElse(a, b, d)
  \/ \E a \in cfg.nodes : \E b, exit \in cfg.succ[a] : ReduceWhile(a, b, exit)
  \/ Succeed
  \/ RejectIrreducible

Spec == Init /\ [][Next]_vars

\* lower_cfg runs to its end: it is one call of a sequential function.
FairSpec == Spec /\ WF_vars(Next)

-----------------------------------------------------------------------------
(* Properties.                                                             *)

Cfg == [nodes: SUBSET Name, succ: [Name -> SUBSET Name],
        pred: [Name -> SUBSET Name]]

\* Each variable has its type; every map entry has at most two targets and a
\* condition that some block's br carried.
TypeOK ==
  /\ input \in Seq(BlockLowering)
  /\ status \in {"received", "reducing", "reduced", "rejected", "panicked"}
  /\ cfg \in Cfg
  /\ DOMAIN map \subseteq Name
  /\ \A n \in DOMAIN map :
       /\ map[n] = MapEntry(map[n].statements, map[n].condition, map[n].targets)
       /\ map[n].condition \in Name \cup {NoCond}
       /\ map[n].targets \in Seq(Name)
       /\ Len(map[n].targets) <= 2

\* The predecessor index is the converse of the successor index, and no edge
\* touches a removed node (add_edge, remove_node, remove_edge and set_out edit
\* the two indexes separately).
IndexesConverse ==
  \A m, n \in Name :
    /\ n \in cfg.succ[m] <=> m \in cfg.pred[n]
    /\ n \in cfg.succ[m] => m \in cfg.nodes /\ n \in cfg.nodes

\* The digraph and the blocks agree: every node still has its block, its
\* successors are the block's targets, and a block has a condition exactly when
\* it lists two targets, which is what the expects of the rules rely on.
TargetsAgree ==
  /\ cfg.nodes \subseteq DOMAIN map
  /\ \A n \in cfg.nodes :
       /\ cfg.succ[n] = Listed(map[n].targets)
       /\ map[n].condition = NoCond <=> Len(map[n].targets) # 2

\* The two views of the graph that every rule edits stay the same graph.
GraphInSync == IndexesConverse /\ TargetsAgree

\* No block jumps to the entry, and every other block can be reached from it:
\* each set of non-entry blocks is entered from outside the set.
SoundInput ==
  /\ Accepted(input)
  /\ \A i \in DOMAIN input : Entry \notin Listed(input[i].targets)
  /\ \A S \in SUBSET (Names(input) \ {Entry}) :
       S # {} => \E i \in DOMAIN input :
                   /\ input[i].name \notin S
                   /\ Listed(input[i].targets) \cap S # {}

\* Every node is still reachable from an entry nothing jumps to: no rewrite cuts
\* a block off, and the entry is never the one absorbed.
EntryReachesAll ==
  /\ Entry \in cfg.nodes
  /\ cfg.pred[Entry] = {}
  /\ \A S \in SUBSET (cfg.nodes \ {Entry}) :
       S # {} => \E m \in cfg.nodes \ S : cfg.succ[m] \cap S # {}

\* While a sound input is being reduced, the graph keeps its entry and its
\* reachability.
ReachabilityKept ==
  SoundInput /\ status = "reducing" => EntryReachesAll

\* lower_cfg returns Ok or a clean Err on every sound input: none of its unwraps
\* and expects can fire.
NoPanicOnSoundInput == status = "panicked" => ~SoundInput

\* What the module doc of the crate's robustness tests asks of every input,
\* malformed ones included: an error value, never a panic.
NeverPanics == status # "panicked"

\* Every rewrite makes the graph smaller: it drops a node and adds none, or drops
\* an edge and nothing else. The reduction loop has no other reason to stop.
Shrinks ==
  \/ status' # "reducing"
  \/ status = "received"
  \/ cfg'.nodes \subseteq cfg.nodes /\ cfg'.nodes # cfg.nodes
  \/ /\ cfg'.nodes = cfg.nodes
     /\ \A n \in Name : cfg'.succ[n] \subseteq cfg.succ[n]
     /\ \E n \in Name : cfg'.succ[n] # cfg.succ[n]

EveryStepShrinks == [][Shrinks]_vars

\* lower_cfg returns: the rules cannot rewrite forever, and when none matches
\* the call ends with a result or an error.
Terminates == <>(status \in {"reduced", "rejected", "panicked"})
=============================================================================
