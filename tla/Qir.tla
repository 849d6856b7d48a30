--------------------------------- MODULE Qir ---------------------------------
(***************************************************************************)
(* The parsed form of a QIR entry point: ir/model.rs.  SSA names, labels    *)
(* and callees are plain values; a callee __quantum__qis__h__body is the    *)
(* triple <<"qis", "h", "body">>.                                          *)
(***************************************************************************)
EXTENDS Integers, Sequences

CONSTANTS
  MaxInt,    \* i64::MAX
  NoResult   \* the None of a call's result

ASSUME MaxIntAssumption == MaxInt \in Nat /\ MaxInt > 0

FitsI64(n) == n >= -MaxInt - 1 /\ n <= MaxInt

Listed(s) == {s[n] : n \in DOMAIN s}
IsSeq(s)  == s \in Seq(Listed(s))

-----------------------------------------------------------------------------
(* Operands.                                                               *)

IntOp(n)     == [op |-> "int", int |-> n]           \* an i128
BoolOp(b)    == [op |-> "bool", bool |-> b]
FloatOp(f)   == [op |-> "float", float |-> f]
PtrOp(i)     == [op |-> "ptr", index |-> i]         \* null or inttoptr (iN i to ..)
SsaOp(k)     == [op |-> "ssa", ssa |-> k]
GlobalOp(c)  == [op |-> "global", global |-> c]     \* @c, bare or in a bitcast
GepOp        == [op |-> "gep"]
NullOp       == [op |-> "i8null"]

-----------------------------------------------------------------------------
(* Instructions.  ty is the LLVM type of the operands; where the parser     *)
(* drops it the translator never looks at it.                              *)

Call(result, callee, args) ==
  [kind |-> "call", result |-> result, callee |-> callee, args |-> args]
Icmp(result, pred, ty, lhs, rhs) ==
  [kind |-> "icmp", result |-> result, pred |-> pred, ty |-> ty,
   lhs |-> lhs, rhs |-> rhs]
BinaryI1(result, fn, lhs, rhs) ==
  [kind |-> "binary", result |-> result, fn |-> fn, lhs |-> lhs, rhs |-> rhs]
Select(result, ty, cond, lhs, rhs) ==
  [kind |-> "select", result |-> result, ty |-> ty, cond |-> cond,
   lhs |-> lhs, rhs |-> rhs]
IntArith(result, fn, ty, lhs, rhs) ==
  [kind |-> "arith", result |-> result, fn |-> fn, ty |-> ty,
   lhs |-> lhs, rhs |-> rhs]
Phi(result, ty, incomings) ==
  [kind |-> "phi", result |-> result, ty |-> ty, incomings |-> incomings]
Incoming(value, pred) == [value |-> value, pred |-> pred]
Br(target)   == [kind |-> "br", target |-> target]
BrCond(cond, ifTrue, ifFalse) ==
  [kind |-> "brcond", cond |-> cond, targets |-> <<ifTrue, ifFalse>>]
Ret          == [kind |-> "ret"]
Ignored      == [kind |-> "ignored"]
Unsupported  == [kind |-> "unsupported"]
Alloca(result)           == [kind |-> "alloca", result |-> result]
Gep(result, src, offset) ==      \* a bitcast is a Gep of offset 0
  [kind |-> "alias", result |-> result, src |-> src, offset |-> offset]
Store(value, ptr)        == [kind |-> "store", value |-> value, ptr |-> ptr]
Load(result, ptr)        == [kind |-> "load", result |-> result, ptr |-> ptr]
Zext(result, src)        == [kind |-> "zext", result |-> result, src |-> src]
IntToPtr(result, src)    == [kind |-> "inttoptr", result |-> result, src |-> src]

Block(name, insts) == [name |-> name, insts |-> insts]

(* A signature keeps the canonical parameter types and whether it is        *)
(* variadic; a module keeps its signatures and its entry point's blocks.   *)
Signature(params, variadic) == [params |-> params, variadic |-> variadic]

(* What the translator relies on in a parsed module.                       *)

ParsedInst(i) ==
  /\ i.kind = "call" =>
       /\ IsSeq(i.args)
       /\ \A n \in DOMAIN i.args : i.args[n].op = "ptr" =>
                                   i.args[n].index \in Int /\ FitsI64(i.args[n].index)
  /\ i.kind = "brcond" => IsSeq(i.targets) /\ Len(i.targets) = 2

ParsedModule(m) ==
  /\ \A c \in DOMAIN m.signatures : IsSeq(m.signatures[c].params)
  /\ IsSeq(m.blocks) /\ m.blocks # <<>>
  /\ \A b \in DOMAIN m.blocks :
       /\ IsSeq(m.blocks[b].insts)
       /\ \A n \in DOMAIN m.blocks[b].insts : ParsedInst(m.blocks[b].insts[n])
=============================================================================
