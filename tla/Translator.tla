----------------------------- MODULE Translator -----------------------------
(***************************************************************************)
(* The instruction walk of translator.rs: build_program lowers the blocks   *)
(* of the entry point in textual order, one instruction at a time, over one *)
(* symbol table; a phi may still append to a block lowered before.  The     *)
(* lowered blocks go to lower_cfg (module CfgReduction), then the registers *)
(* are sized.                                                              *)
(***************************************************************************)
EXTENDS ClassicalLowering, CallLowering, TLC

CONSTANT Modules   \* the parsed modules: [signatures, blocks]

ASSUME ModulesAssumption == \A m \in Modules : ParsedModule(m)

VARIABLES
  module,      \* the module being translated
  status,      \* "lowering", "reducing" (in lower_cfg), "translated", "rejected"
  lowerings,   \* the blocks lowered so far (prior_lowerings)
  statements,  \* the statements of the block being lowered
  pc,          \* the instruction of that block lowered next
  symbols,     \* the symbol table
  ints,        \* the initial values of the int variables declared so far
  registers    \* the sizes of q and c, once translated

vars == <<module, status, lowerings, statements, pc, symbols, ints, registers>>

-----------------------------------------------------------------------------
\* assign_block_names: an unnamed block is named after its position.
CanonicalName(n) ==
  IF module.blocks[n].name = "" THEN ToString(n - 1) ELSE module.blocks[n].name

Current     == Len(lowerings) + 1
CurrentName == CanonicalName(Current)
Insts       == module.blocks[Current].insts
Inst        == Insts[pc]

BlocksLeft == status = "lowering" /\ Current <= Len(module.blocks)
At(kind)   == BlocksLeft /\ pc <= Len(Insts) /\ Inst.kind = kind

\* A lowered block: condition is empty where the code's is None.
Lowering(name, stmts, condition, targets) ==
  [name |-> name, statements |-> stmts, condition |-> condition, targets |-> targets]

Init ==
  /\ module \in Modules
  /\ status = "lowering"
  /\ lowerings = <<>>
  /\ statements = <<>>
  /\ pc = 1
  /\ symbols = EmptyTable
  /\ ints = <<>>
  /\ registers = [qubits |-> 0, bits |-> 0]

-----------------------------------------------------------------------------
(* The arms of lower_block.  Bind is an arm that only changes the table.   *)

Bind(s) ==
  /\ symbols' = s
  /\ pc' = pc + 1
  /\ UNCHANGED <<module, status, lowerings, statements, ints, registers>>

CallArm ==
  /\ At("call")
  /\ \E o \in LowerCall(symbols, module.signatures, Inst) :
       /\ symbols' = o.symbols
       /\ statements' = statements \o o.stmts
  /\ pc' = pc + 1
  /\ UNCHANGED <<module, status, lowerings, ints, registers>>

IcmpArm     == At("icmp")   /\ \E s \in LowerIcmp(symbols, Inst) : Bind(s)
BinaryI1Arm == At("binary") /\ \E s \in LowerBinaryI1(symbols, Inst) : Bind(s)
SelectArm   == At("select") /\ \E s \in LowerSelect(symbols, Inst) : Bind(s)
IntArithArm == At("arith")  /\ \E s \in LowerIntArith(symbols, Inst) : Bind(s)

ZextArm ==
  At("zext") /\ \E x \in LookupSsa(symbols, Inst.src) :
                  Bind(RecordSsa(symbols, Inst.result, x))

\* resolve_ptr_index_operand: a constant that fits and is not negative.
PtrIndex(op) ==
  {n \in CASE op.op = "int" -> {op.int}
           [] op.op = "ssa" -> {x.integer : x \in {x \in LookupSsa(symbols, op.ssa) :
                                                     x.e = "integer"}}
           [] OTHER -> {} : n \in Nat /\ FitsI64(n)}

IntToPtrArm ==
  At("inttoptr") /\ \E n \in PtrIndex(Inst.src) :
                      Bind(RecordPtrIndex(symbols, Inst.result, n))

AllocaArm == At("alloca") /\ Bind(RecordAlloca(symbols, Inst.result))
AliasArm  == At("alias") /\ Bind(RecordAlias(symbols, Inst.result, Inst.src, Inst.offset))
StoreArm  == At("store") /\ Bind(StoreToSlot(symbols, Inst.ptr, Inst.value))

\* Mutant of LoadArm: only a load that finds a constant moves on.
LoadArm_Waits ==
  /\ At("load")
  /\ \E x \in LoadFromSlot(symbols, Inst.ptr) :
       Bind(RecordSsa(symbols, Inst.result, x))

\* A load from a slot with no constant in it binds nothing and is no error.
LoadArm ==
  /\ At("load")
  /\ \/ \E x \in LoadFromSlot(symbols, Inst.ptr) :
          Bind(RecordSsa(symbols, Inst.result, x))
     \/ LoadFromSlot(symbols, Inst.ptr) = {} /\ Bind(symbols)

IgnoredArm == At("ignored") /\ Bind(symbols)

-----------------------------------------------------------------------------
(* phi.                                                                    *)

LoopCarried == \E n \in DOMAIN Inst.incomings : Inst.incomings[n].pred = CurrentName

\* The first lowered block that satisfies P.
First(S) == {j \in S : \A k \in S : j <= k}
Named(n) == First({j \in DOMAIN lowerings : lowerings[j].name = n})

\* pred_conditions: a HashMap, so of the blocks of one name the last counts.
PredConditions ==
  LET branching == {j \in DOMAIN lowerings : lowerings[j].condition # {}}
      last(n)   == {j \in branching : lowerings[j].name = n /\
                      \A k \in branching : lowerings[k].name = n => k <= j}
  IN  [n \in {lowerings[j].name : j \in branching} |->
         UNION {lowerings[j].condition : j \in last(n)}]

PhiI1Arm ==
  /\ At("phi") /\ Inst.ty = "i1" /\ ~LoopCarried
  /\ \E s \in LowerPhiI1(symbols, Inst, PredConditions) : Bind(s)

IsIntegerPhi ==
  At("phi") /\ Inst.ty \in {"i32", "i64"} /\ ~LoopCarried /\ Len(Inst.incomings) = 2

LandingPad(n) ==
  \E j \in Named(n) : /\ lowerings[j].condition = {}
                      /\ lowerings[j].statements = <<>>
                      /\ Len(lowerings[j].targets) = 1

\* try_bind_phi_i64_landing_pad: 0 and 1 arrive from two empty blocks that one
\* conditional br leads to, so the phi is that condition or its complement.
LandingPadValue ==
  LET a == Inst.incomings[1]
      b == Inst.incomings[2]
      ancestor == First({j \in DOMAIN lowerings :
                           /\ lowerings[j].condition # {}
                           /\ Len(lowerings[j].targets) = 2
                           /\ {a.pred, b.pred} \subseteq Listed(lowerings[j].targets)})
      onTrue(j) == IF a.pred = lowerings[j].targets[1] THEN a.value ELSE b.value
  IN  IF \/ ConstantI1(a.value) = {} \/ ConstantI1(b.value) = {}
         \/ ConstantI1(a.value) = ConstantI1(b.value)
         \/ ~LandingPad(a.pred) \/ ~LandingPad(b.pred)
        THEN {}
        ELSE UNION {{IF TRUE \in ConstantI1(onTrue(j)) THEN x ELSE Bin("-", Integer(1), x) :
                       x \in lowerings[j].condition} : j \in ancestor}

LandingPadArm ==
  /\ IsIntegerPhi
  /\ \E x \in LandingPadValue : Bind(RecordSsa(symbols, Inst.result, x))

(* The if-merge: one incoming from a block with a conditional br (the       *)
(* initial value), one from a block without (the update).                  *)

IfMerge(initial, update) ==
  \A j \in Named(initial.pred), k \in Named(update.pred) :
    lowerings[j].condition # {} /\ lowerings[k].condition = {}

\* The variable, reused when the initial value is one already declared.
MergeVariable(x) == IF x.e = "var" /\ x.var < Len(ints) THEN x.var ELSE Len(ints)

\* Mutants of MergePhi: the update is appended to the block that branches; the
\* variable is numbered from one.
MergePhi_AtBranch(initial, update, x, y) ==
  LET k == MergeVariable(x) IN
  /\ ints' = IF k = Len(ints) THEN Append(ints, x) ELSE ints
  /\ \E j \in Named(initial.pred) :
       lowerings' = [lowerings EXCEPT ![j].statements = Append(@, Assign(k, y))]
  /\ symbols' = RecordSsa(symbols, Inst.result, IntVar(k))
MergePhi_FromOne(initial, update, x, y) ==
  LET k == MergeVariable(x) + 1 IN
  /\ ints' = IF k = Len(ints) + 1 THEN Append(ints, x) ELSE ints
  /\ \E j \in Named(update.pred) :
       lowerings' = [lowerings EXCEPT ![j].statements = Append(@, Assign(k, y))]
  /\ symbols' = RecordSsa(symbols, Inst.result, IntVar(k))

\* A new variable is declared at the top of the program with the initial value;
\* the update is assigned at the end of the unconditional block.
MergePhi(initial, update, x, y) ==
  LET k == MergeVariable(x) IN
  /\ ints' = IF k = Len(ints) THEN Append(ints, x) ELSE ints
  /\ \E j \in Named(update.pred) :
       lowerings' = IF y.e = "var" /\ y.var = k THEN lowerings
                    ELSE [lowerings EXCEPT ![j].statements = Append(@, Assign(k, y))]
  /\ symbols' = RecordSsa(symbols, Inst.result, IntVar(k))

\* Mutant of InitialIncoming: only the first incoming may be the initial value.
InitialIncoming_InOrder ==
  {n \in {1} : /\ Named(Inst.incomings[1].pred) # {}
               /\ Named(Inst.incomings[2].pred) # {}
               /\ IfMerge(Inst.incomings[n], Inst.incomings[3 - n])}

\* The incoming of Inst that is an if-merge's initial value; the other is its
\* update.  Both predecessors must have been lowered.
InitialIncoming ==
  {n \in {1, 2} : /\ Named(Inst.incomings[1].pred) # {}
                  /\ Named(Inst.incomings[2].pred) # {}
                  /\ IfMerge(Inst.incomings[n], Inst.incomings[3 - n])}

Merges ==   \* the choices of MergePhi: one, or none where the phi is refused
  {c \in UNION {{<<n, x, y>> : x \in ResolveInteger(symbols, Inst.incomings[n].value),
                               y \in ResolveInteger(symbols, Inst.incomings[3 - n].value)} :
                  n \in InitialIncoming} : LandingPadValue = {}}

IfMergeArm ==
  /\ IsIntegerPhi
  /\ \E c \in Merges : MergePhi(Inst.incomings[c[1]], Inst.incomings[3 - c[1]], c[2], c[3])
  /\ pc' = pc + 1
  /\ UNCHANGED <<module, status, statements, registers>>

-----------------------------------------------------------------------------
(* The end of a block: a terminator, or no instruction left.  What follows  *)
(* a terminator is never read.                                             *)

FinishBlock(condition, targets) ==
  /\ lowerings' = Append(lowerings, Lowering(CurrentName, statements, condition, targets))
  /\ statements' = <<>>
  /\ pc' = 1
  /\ UNCHANGED <<module, status, symbols, ints, registers>>

BrArm  == At("br") /\ FinishBlock({}, <<Inst.target>>)
RetArm == At("ret") /\ FinishBlock({}, <<>>)

BranchOn(op) == IF op.op = "bool" THEN {Boolean(op.bool)} ELSE LookupSsa(symbols, op.ssa)

\* Mutant of BrCondArm: a br whose two targets are one is taken for a jump.
BrCondArm_OneTarget ==
  /\ At("brcond")
  /\ \E x \in BranchOn(Inst.cond) :
       FinishBlock({x}, IF Inst.targets[1] = Inst.targets[2]
                          THEN <<Inst.targets[1]>> ELSE Inst.targets)

\* Mutant of BrCondArm: a constant is taken for no condition.
BrCondArm_NoConstant ==
  At("brcond") /\ \E x \in BranchOn(Inst.cond) :
                    FinishBlock(IF Inst.cond.op = "bool" THEN {} ELSE {x}, Inst.targets)

BrCondArm ==
  At("brcond") /\ \E x \in BranchOn(Inst.cond) : FinishBlock({x}, Inst.targets)

EndOfBlock == BlocksLeft /\ pc > Len(Insts) /\ FinishBlock({}, <<>>)

-----------------------------------------------------------------------------
(* Errors: the first instruction that cannot be lowered ends the call.     *)

Stop(result) ==
  /\ status' = result
  /\ UNCHANGED <<module, lowerings, statements, pc, symbols, ints, registers>>

PhiRefused ==
  \/ LoopCarried
  \/ Inst.ty = "i1" /\ LowerPhiI1(symbols, Inst, PredConditions) = {}
  \/ Inst.ty \notin {"i1", "i32", "i64"}
  \/ /\ Inst.ty \in {"i32", "i64"}
     /\ ~IsIntegerPhi \/ (LandingPadValue = {} /\ Merges = {})

Refused ==
  CASE Inst.kind = "call"     -> LowerCall(symbols, module.signatures, Inst) = {}
    [] Inst.kind = "icmp"     -> LowerIcmp(symbols, Inst) = {}
    [] Inst.kind = "binary"   -> LowerBinaryI1(symbols, Inst) = {}
    [] Inst.kind = "select"   -> LowerSelect(symbols, Inst) = {}
    [] Inst.kind = "arith"    -> LowerIntArith(symbols, Inst) = {}
    [] Inst.kind = "zext"     -> LookupSsa(symbols, Inst.src) = {}
    [] Inst.kind = "inttoptr" -> PtrIndex(Inst.src) = {}
    [] Inst.kind = "phi"      -> PhiRefused
    [] Inst.kind = "brcond"   -> BranchOn(Inst.cond) = {}
    [] OTHER -> Inst.kind = "unsupported"

RefuseInstruction == BlocksLeft /\ pc <= Len(Insts) /\ Refused /\ Stop("rejected")

-----------------------------------------------------------------------------
(* After the last block.                                                   *)

HandOver == status = "lowering" /\ ~BlocksLeft /\ Stop("reducing")

\* lower_cfg may refuse the blocks: CfgReduction says when.
CfgRefused == status = "reducing" /\ Stop("rejected")

\* checked_add
TooLarge == symbols.maxQubit = MaxInt \/ symbols.maxResult = MaxInt

RefuseSize == status = "reducing" /\ TooLarge /\ Stop("rejected")

SizeRegisters ==
  /\ status = "reducing"
  /\ ~TooLarge
  /\ registers' = [qubits |-> symbols.maxQubit + 1, bits |-> symbols.maxResult + 1]
  /\ status' = "translated"
  /\ UNCHANGED <<module, lowerings, statements, pc, symbols, ints>>

Next ==
  \/ CallArm \/ IcmpArm \/ BinaryI1Arm \/ SelectArm \/ IntArithArm
  \/ ZextArm \/ IntToPtrArm \/ AllocaArm \/ AliasArm \/ StoreArm \/ LoadArm
  \/ IgnoredArm \/ PhiI1Arm \/ LandingPadArm \/ IfMergeArm
  \/ BrArm \/ RetArm \/ BrCondArm \/ EndOfBlock \/ RefuseInstruction
  \/ HandOver \/ CfgRefused \/ RefuseSize \/ SizeRegisters

Spec == Init /\ [][Next]_vars

\* build_program runs to its end.
FairSpec == Spec /\ WF_vars(Next)

-----------------------------------------------------------------------------
(* What the program built so far uses.                                     *)

Statements == Listed(statements) \cup UNION {Listed(lowerings[j].statements) :
                                               j \in DOMAIN lowerings}
Conditions == UNION {lowerings[j].condition : j \in DOMAIN lowerings}

-----------------------------------------------------------------------------
(* Properties.                                                             *)

\* Each variable has its type: the walk stays inside the blocks, and the largest
\* indexes only grow from -1, which a register of size 0 stands for.
TypeOK ==
  /\ status \in {"lowering", "reducing", "translated", "rejected"}
  /\ Len(lowerings) \in 0..Len(module.blocks)
  /\ IF BlocksLeft THEN pc \in 1..(Len(Insts) + 1) ELSE pc \in Nat
  /\ symbols.maxQubit \in Int /\ symbols.maxQubit >= -1
  /\ symbols.maxResult \in Int /\ symbols.maxResult >= -1

\* The declared registers cover every qubit and bit the program names, in the
\* statements, in the conditions and in the initial values of the int variables,
\* although the sizes are kept beside the statements (record_qubit, record_result)
\* and an expression may be emitted far from the call that recorded its bit; and
\* the sizes, one more than the largest indexes, are still i64 values.
RegistersCoverProgram ==
  status = "translated" =>
    /\ registers.qubits <= MaxInt /\ registers.bits <= MaxInt
    /\ \A st \in Statements :
         /\ \A q \in QubitsOf(st) : q < registers.qubits
         /\ \A c \in BitsOf(st) : c < registers.bits
    /\ \A x \in Conditions \cup Listed(ints) : \A c \in x.bits : c < registers.bits

\* What lower_cfg's expects rely on (CfgReduction assumes it of its input): a
\* lowered block has a condition exactly when it has two targets, and never more.
LoweredBlocksWellFormed ==
  \A j \in DOMAIN lowerings :
    /\ Len(lowerings[j].targets) <= 2
    /\ lowerings[j].condition = {} <=> Len(lowerings[j].targets) # 2

\* Every int variable that is read or assigned is declared, and an initial value
\* reads only variables declared before it.
IntsDeclaredBeforeUse ==
  /\ \A st \in Statements : \A k \in VarsOf(st) : k < Len(ints)
  /\ \A x \in Conditions : \A k \in x.vars : k < Len(ints)
  /\ \A n \in DOMAIN ints : \A k \in ints[n].vars : k < n - 1

\* A block already lowered changes only by an assignment appended to it, and only
\* when it ends in an unconditional branch: no assignment can come between the
\* statements and the condition that was computed for the block's br.
OnlyAppended(old, new) ==
  \/ new = old
  \/ /\ old.condition = {}
     /\ \E k \in 0..Len(ints), x \in {new.statements[Len(new.statements)].value} :
          new = [old EXCEPT !.statements = Append(@, Assign(k, x))]

LoweredBlocksOnlyGrow ==
  [][\A j \in DOMAIN lowerings : OnlyAppended(lowerings[j], lowerings'[j])]_vars

\* Every instruction is either lowered or refused: the walk always ends.
Finishes == <>(status \in {"translated", "rejected"})

\* The index of every qubit and bit is one a register can have: what
\* resolve_ptr_index_operand says of all qubit and result indices.
IndexesNonNegative ==
  status = "translated" =>
    \A st \in Statements : \A n \in QubitsOf(st) \cup BitsOf(st) : n >= 0
=============================================================================
