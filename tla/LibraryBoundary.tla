---------------------------- MODULE LibraryBoundary ----------------------------
(***************************************************************************)
(* The library as its callers see it: the C interface (qirtoqasm-ffi), the  *)
(* C++ wrapper over it, and the Python and Rust entry points, called from    *)
(* several threads over one heap.                                          *)
(*                                                                         *)
(* A call is a record: api; for "c" also slots (both of out and err are      *)
(* given), qir, opts; for "cpp" qir and opts; for "python" and "rust" the    *)
(* QIR text and the options of the Exporter; for "version" nothing more.    *)
(* A C string is [ptr, utf8, value]; what a NULL or an odd one holds is      *)
(* never read.                                                             *)
(***************************************************************************)
EXTENDS Integers, Sequences

CONSTANTS
  Callers,        \* the threads that call the library
  Addresses,      \* of the strings it allocates
  Sessions,       \* the calls each caller makes, in order
  Ending(_),      \* how the core ends on a QIR text: "ok", an error, "panic"
  Text(_, _)      \* the text it makes, given the options of its Exporter

VARIABLES
  todo,    \* the calls each caller has still to make, the one under way first
  reply,   \* each caller's last answer
  frame,   \* each caller's stack frame
  heap     \* the strings that are allocated: [owner, text] by address

vars == <<todo, reply, frame, heap>>

V1Size == 16   \* sizeof(qirtoqasm_options_t)

OfC == {"c", "cpp"}

Message(about) == [is |-> "message", about |-> about]
NoText         == [is |-> "none"]
Reply(code, result) == [code |-> code, text |-> result]

\* at: "idle", "inside" qirtoqasm_translate, "returned", "read".  A slot is
\* "unset", "null" or an address; owes are the slots still to be freed.
Idle == [at |-> "idle", out |-> "unset", err |-> "unset", code |-> "none",
         text |-> NoText, owes |-> {}]

ASSUME SessionsAssumption ==
  \A s \in Sessions :
    /\ s = [c \in Callers |-> s[c]]
    /\ \A c \in Callers : s[c] \in Seq({s[c][n] : n \in DOMAIN s[c]})

ASSUME AddressesAssumption == {"unset", "null"} \cap Addresses = {}

Errors == {"syntax", "unsupported", "unsupported_cfg", "internal"}

\* A C string that can be read as text.
Readable(s) == s.ptr # "null" /\ s.utf8

\* The core returns a text or one of its four errors, or it panics.
ASSUME EndingAssumption ==
  \A s \in Sessions : \A c \in Callers : \A n \in DOMAIN s[c] :
    s[c][n].api \in OfC /\ Readable(s[c][n].qir) =>
      Ending(s[c][n].qir.value) \in Errors \cup {"ok", "panic"}

Init ==
  /\ todo \in Sessions
  /\ reply = [c \in Callers |-> <<>>]
  /\ frame = [c \in Callers |-> Idle]
  /\ heap = <<>>

Asked(c) == Head(todo[c])
Pending(c, apis) == frame[c].at = "idle" /\ todo[c] # <<>> /\ Asked(c).api \in apis

-----------------------------------------------------------------------------
(* The heap.                                                               *)

Fresh == Addresses \ DOMAIN heap
With(a, c, content) ==
  [x \in DOMAIN heap \cup {a} |-> IF x = a THEN [owner |-> c, text |-> content] ELSE heap[x]]
Without(a) == [x \in DOMAIN heap \ {a} |-> heap[x]]

\* What is found where a slot points to.
Contents(slot) ==
  IF slot \in DOMAIN heap THEN heap[slot].text
  ELSE IF slot = "null" THEN NoText ELSE Message("garbage")

-----------------------------------------------------------------------------
(* qirtoqasm_translate.                                                    *)

\* read_optional_cstr
Optional(s) ==
  CASE s.ptr = "null" -> {<<>>}
    [] Readable(s)    -> {s.value}
    [] OTHER -> {}

\* build_options: the producer, or none where the struct is refused.
Producer(opts) ==
  IF ~opts.given THEN {<<>>}
  ELSE IF opts.size < V1Size \/ opts.version = 0 THEN {}
  ELSE Optional(opts.producer)

\* translate of lib.rs: an Exporter with the defaults and the producer.
Facade(producer) == [includes |-> <<>>, output |-> FALSE, producer |-> producer]

\* No slot to answer in: nothing is written.
RefuseSlots(c) ==
  /\ Pending(c, {"c"}) /\ ~Asked(c).slots
  /\ frame' = [frame EXCEPT ![c].at = "returned", ![c].code = "internal"]
  /\ UNCHANGED <<todo, reply, heap>>

\* Mutant of ClearSlots: out is written on success only.
ClearSlots_ErrOnly(c) ==
  /\ Pending(c, OfC) /\ (Asked(c).api = "c" => Asked(c).slots)
  /\ frame' = [frame EXCEPT ![c].at = "inside", ![c].err = "null"]
  /\ UNCHANGED <<todo, reply, heap>>

ClearSlots(c) ==
  /\ Pending(c, OfC) /\ (Asked(c).api = "c" => Asked(c).slots)
  /\ frame' = [frame EXCEPT ![c].at = "inside", ![c].out = "null", ![c].err = "null"]
  /\ UNCHANGED <<todo, reply, heap>>

\* Every other exit allocates one string and puts it in one slot.
ReturnOut(c, result) ==
  /\ \E a \in Fresh :
       /\ heap' = With(a, c, result)
       /\ frame' = [frame EXCEPT ![c].at = "returned", ![c].out = a, ![c].code = "ok"]
  /\ UNCHANGED <<todo, reply>>

ReturnErr(c, error, about) ==
  /\ \E a \in Fresh :
       /\ heap' = With(a, c, Message(about))
       /\ frame' = [frame EXCEPT ![c].at = "returned", ![c].err = a, ![c].code = error]
  /\ UNCHANGED <<todo, reply>>

Inside(c)  == frame[c].at = "inside"
HasText(c) == Readable(Asked(c).qir)

RefuseNullQir(c)  == Inside(c) /\ Asked(c).qir.ptr = "null" /\ ReturnErr(c, "internal", "null qir")

RefuseEncoding(c) ==
  /\ Inside(c) /\ Asked(c).qir.ptr # "null" /\ ~Asked(c).qir.utf8
  /\ ReturnErr(c, "syntax", "encoding")

RefuseOptions(c) ==
  Inside(c) /\ HasText(c) /\ Producer(Asked(c).opts) = {} /\ ReturnErr(c, "internal", "options")

\* Mutant of CodeOf: a variant is reported as its neighbour.
CodeOf_Merged(class) ==
  CASE class \in {"unsupported", "unsupported_cfg"} -> "unsupported"
    [] class = "panic" -> "internal"
    [] OTHER -> class

\* The class of an error is its code; a panic is caught and is internal.
CodeOf(class) == IF class = "panic" THEN "internal" ELSE class

Translate(c) ==
  /\ Inside(c) /\ HasText(c)
  /\ \E producer \in Producer(Asked(c).opts) :
       LET qir == Asked(c).qir.value
       IN  IF Ending(qir) = "ok" THEN ReturnOut(c, Text(qir, Facade(producer)))
           ELSE ReturnErr(c, CodeOf(Ending(qir)), Ending(qir))

\* qirtoqasm_version
Version(c) == Pending(c, {"version"}) /\ ReturnOut(c, Message("version"))

-----------------------------------------------------------------------------
(* The caller, once a call has returned.  The C++ wrapper copies the string *)
(* it was given, then frees err before out, or only out; a C caller frees    *)
(* what its slots hold, in either order.                                   *)

Slots(c) ==
  IF Asked(c).api = "c" THEN IF Asked(c).slots THEN {"out", "err"} ELSE {}
  ELSE IF frame[c].code = "ok" THEN {"out"} ELSE {"err", "out"}

\* Mutant of TakeResult: the wrapper frees nothing when it throws.
TakeResult_Throws(c) ==
  /\ frame[c].at = "returned"
  /\ frame' = [frame EXCEPT
       ![c].at = "read",
       ![c].text = Contents(IF frame[c].code = "ok" THEN frame[c].out ELSE frame[c].err),
       ![c].owes = IF frame[c].code = "ok" THEN Slots(c) ELSE {}]
  /\ UNCHANGED <<todo, reply, heap>>

TakeResult(c) ==
  /\ frame[c].at = "returned"
  /\ frame' = [frame EXCEPT
       ![c].at = "read",
       ![c].text = IF Slots(c) = {} THEN NoText
                   ELSE Contents(IF frame[c].code = "ok" THEN frame[c].out ELSE frame[c].err),
       ![c].owes = Slots(c)]
  /\ UNCHANGED <<todo, reply, heap>>

\* Mutant of Free: the library does not get past a NULL.
Free_NotNull(c, slot) ==
  /\ frame[c].at = "read" /\ slot \in frame[c].owes
  /\ frame[c][slot] # "null"
  /\ heap' = Without(frame[c][slot])
  /\ frame' = [frame EXCEPT ![c].owes = @ \ {slot}]
  /\ UNCHANGED <<todo, reply>>

\* qirtoqasm_free_string: NULL is no string.
Free(c, slot) ==
  /\ frame[c].at = "read" /\ slot \in frame[c].owes
  /\ Asked(c).api = "cpp" /\ slot = "out" => "err" \notin frame[c].owes
  /\ heap' = Without(frame[c][slot])
  /\ frame' = [frame EXCEPT ![c].owes = @ \ {slot}]
  /\ UNCHANGED <<todo, reply>>

Finish(c, answer) ==
  /\ reply' = [reply EXCEPT ![c] = answer]
  /\ todo' = [todo EXCEPT ![c] = Tail(@)]

\* Mutant of Deliver: the slots are used again as they are.
Deliver_SlotsKept(c) ==
  /\ frame[c].at = "read" /\ frame[c].owes = {}
  /\ Finish(c, Reply(frame[c].code, frame[c].text))
  /\ frame' = [frame EXCEPT ![c].at = "idle"]
  /\ UNCHANGED heap

\* The wrapper returns or throws.
Deliver(c) ==
  /\ frame[c].at = "read" /\ frame[c].owes = {}
  /\ Finish(c, Reply(frame[c].code, frame[c].text))
  /\ frame' = [frame EXCEPT ![c] = Idle]
  /\ UNCHANGED heap

-----------------------------------------------------------------------------
(* Rust and Python call the core in their own process: no C string is made. *)
(* Python has one exception for every error; a panic is not an error.       *)

Direct(c) ==
  /\ Pending(c, {"python", "rust"})
  /\ LET qir   == Asked(c).qir
         rust  == Asked(c).api = "rust"
         error == Ending(qir)
     IN  Finish(c, CASE error = "ok" ->
                          Reply("ok", Text(qir, IF rust THEN Asked(c).exporter
                                                ELSE Facade(Asked(c).producer)))
                     [] error = "panic" -> Reply("panic", Message("panic"))
                     [] OTHER -> Reply(IF rust THEN error ELSE "QirToQasmError", Message(error)))
  /\ UNCHANGED <<frame, heap>>

CallStep(c) ==
  \/ RefuseSlots(c) \/ ClearSlots(c) \/ RefuseNullQir(c) \/ RefuseEncoding(c)
  \/ RefuseOptions(c) \/ Translate(c) \/ Version(c)
  \/ TakeResult(c) \/ Free(c, "out") \/ Free(c, "err") \/ Deliver(c) \/ Direct(c)

Next == \E c \in Callers : CallStep(c)

Spec == Init /\ [][Next]_vars

\* Every thread goes on with its call.
FairSpec == Spec /\ \A c \in Callers : WF_vars(CallStep(c))

-----------------------------------------------------------------------------
(* Properties.                                                             *)

\* Types; a frame that is not in use holds nothing.
TypeOK ==
  /\ DOMAIN heap \subseteq Addresses
  /\ \A c \in Callers :
       /\ frame[c].at \in {"idle", "inside", "returned", "read"}
       /\ {frame[c].out, frame[c].err} \subseteq Addresses \cup {"unset", "null"}
       /\ frame[c].code \in Errors \cup {"none", "ok"}
       /\ frame[c].owes \subseteq {"out", "err"}
       /\ frame[c].at = "idle" => frame[c] = Idle

\* Whatever way qirtoqasm_translate is left, exactly one of the caller's two slots
\* points to a string: out if the code is OK, err otherwise; the other is NULL.
\* Slots that were not both given are not written.
OneStringPerCall ==
  \A c \in Callers : frame[c].at = "returned" /\ Asked(c).api \in OfC =>
    IF Asked(c).api = "c" /\ ~Asked(c).slots
      THEN frame[c].out = "unset" /\ frame[c].err = "unset" /\ frame[c].code = "internal"
    ELSE IF frame[c].code = "ok"
      THEN frame[c].out \in Addresses /\ frame[c].err = "null"
    ELSE frame[c].err \in Addresses /\ frame[c].out = "null"

\* The strings c has still to free.
Held(c) ==
  {frame[c][slot] : slot \in CASE frame[c].at = "returned" -> Slots(c)
                              [] frame[c].at = "read"     -> frame[c].owes
                              [] OTHER                    -> {}} \ {"null"}

\* Every string is held by the one caller it was made for, and by no other: none
\* leaks, none is freed twice or read after it was freed, although an address
\* that was freed is given out again.
OneOwner ==
  /\ \A c \in Callers : \A a \in Held(c) : a \in DOMAIN heap /\ heap[a].owner = c
  /\ \A a \in DOMAIN heap : \E c \in Callers : a \in Held(c)

\* What the header and the docs of the bindings promise of an answer.
GoodText(call) == Readable(call.qir) /\ (call.api = "c" => call.slots)
GoodOptions(opts) ==
  opts.given => /\ opts.version # 0 /\ ~(opts.size < V1Size)
                /\ opts.producer.ptr = "null" \/ Readable(opts.producer)
Label(opts) == IF opts.given /\ opts.producer.ptr # "null" THEN opts.producer.value ELSE <<>>

\* The text, or the code promised for an error and a message.
Result(qir, exporter, error, answer) ==
  IF Ending(qir) = "ok" THEN answer = Reply("ok", Text(qir, exporter))
  ELSE answer.code = error /\ answer.text.is = "message"

Promised(call, answer) ==
  CASE call.api = "version" -> answer = Reply("ok", Message("version"))
    [] call.api = "rust"    -> Result(call.qir, call.exporter, Ending(call.qir), answer)
    [] call.api = "python"  ->
         Result(call.qir, Facade(call.producer),
                IF Ending(call.qir) = "panic" THEN "panic" ELSE "QirToQasmError", answer)
    [] call.api \in OfC /\ GoodText(call) /\ GoodOptions(call.opts) ->
         Result(call.qir.value, Facade(Label(call.opts)),
                IF Ending(call.qir.value) \in Errors THEN Ending(call.qir.value) ELSE "internal",
                answer)
    [] OTHER -> answer.code \in Errors

Service == INSTANCE TranslationService

\* Every answer is the one promised to the call it answers, whatever the other
\* threads do and wherever the strings are put.
ImplementsService == Service!Spec

\* Every call is answered: no argument leaves the library or a wrapper stuck.
Answered == \A c \in Callers : <>(todo[c] = <<>>)
=============================================================================
