----------------------------- MODULE LibraryProofs -----------------------------
(***************************************************************************)
(* For any callers, any calls and any heap: every string has one owner, and *)
(* every answer is the one promised.                                       *)
(*                                                                         *)
(* The invariant has three layers.  FrameOK relates one caller's frame to    *)
(* the call it is answering; no step of another caller touches either.      *)
(* Owned relates the frames to the heap they share.  Answers says that what   *)
(* a frame holds of an answer, in its slot and then copied out of it, is      *)
(* what was promised to its call.                                          *)
(***************************************************************************)
EXTENDS LibraryBoundary, SequenceTheorems, TLAPS

Fields == {"at", "out", "err", "code", "text", "owes"}

SlotsOf(call, code) ==
  IF call.api = "c" THEN IF call.slots THEN {"out", "err"} ELSE {}
  ELSE IF code = "ok" THEN {"out"} ELSE {"err", "out"}

\* What stands in the slots once qirtoqasm_translate has returned.
Returned(f, call) ==
  IF call.api = "c" /\ ~call.slots
    THEN f.out = "unset" /\ f.err = "unset" /\ f.code = "internal"
  ELSE IF f.code = "ok"
    THEN f.out \in Addresses /\ f.err = (IF call.api = "version" THEN "unset" ELSE "null")
  ELSE call.api \in OfC /\ f.err \in Addresses /\ f.out = "null"

FrameOK(f, call) ==
  /\ DOMAIN f = Fields
  /\ f.at \in {"idle", "inside", "returned", "read"}
  /\ {f.out, f.err} \subseteq Addresses \cup {"unset", "null"}
  /\ f.code \in Errors \cup {"none", "ok"}
  /\ f.owes \subseteq {"out", "err"}
  /\ f.at = "idle" => f = Idle
  /\ f.at # "idle" => call.api \in OfC \cup {"version"}
  /\ f.at = "inside" =>
       call.api \in OfC /\ (call.api = "c" => call.slots) /\ f.out = "null" /\ f.err = "null"
  /\ f.at \in {"returned", "read"} => Returned(f, call)
  /\ f.at = "read" => f.owes \subseteq SlotsOf(call, f.code)

\* The strings a frame holds.
HeldIn(f, call) ==
  {f[slot] : slot \in CASE f.at = "returned" -> SlotsOf(call, f.code)
                       [] f.at = "read"     -> f.owes
                       [] OTHER             -> {}} \ {"null"}

\* The calls of all sessions.
Calls == UNION {UNION {{s[c][n] : n \in DOMAIN s[c]} : c \in Callers} : s \in Sessions}

Shape ==
  /\ DOMAIN frame = Callers
  /\ DOMAIN todo = Callers /\ \A c \in Callers : todo[c] \in Seq(Calls)
  /\ DOMAIN reply = Callers
  /\ DOMAIN heap \subseteq Addresses

Frames ==
  \A c \in Callers :
    /\ FrameOK(frame[c], Asked(c))
    /\ frame[c].at # "idle" => todo[c] # <<>>

Owned ==
  /\ \A c \in Callers : \A a \in HeldIn(frame[c], Asked(c)) : a \in DOMAIN heap /\ heap[a].owner = c
  /\ \A a \in DOMAIN heap : \E c \in Callers : a \in HeldIn(frame[c], Asked(c))

Inv == Shape /\ Frames /\ Owned
-----------------------------------------------------------------------------
(* Steps touch one caller's frame, and the heap at one address.             *)

\* A step of c that is no end of a call.
OwnStep(c) ==
  /\ c \in Callers
  /\ todo[c] # <<>>
  /\ todo' = todo /\ reply' = reply
  /\ DOMAIN frame' = DOMAIN frame
  /\ \A d \in Callers \ {c} : frame'[d] = frame[d]

\* c makes no string and frees none.
Quiet(c) ==
  /\ DOMAIN heap' = DOMAIN heap
  /\ \A a \in DOMAIN heap : heap'[a] = heap[a]
  /\ HeldIn(frame'[c], Asked(c)) = HeldIn(frame[c], Asked(c))

\* c makes a string at a and holds it.
Makes(c, a) ==
  /\ a \in Fresh
  /\ DOMAIN heap' = DOMAIN heap \cup {a}
  /\ heap'[a].owner = c
  /\ \A b \in DOMAIN heap : heap'[b] = heap[b]
  /\ HeldIn(frame'[c], Asked(c)) = {a}
  /\ HeldIn(frame[c], Asked(c)) = {}

\* c frees the string at a, and holds it no more.
Frees(c, a) ==
  /\ a \in HeldIn(frame[c], Asked(c))
  /\ heap' = Without(a)
  /\ HeldIn(frame'[c], Asked(c)) = HeldIn(frame[c], Asked(c)) \ {a}

\* What a step of c that is no end of a call does.
Touches(c) ==
  /\ OwnStep(c)
  /\ Quiet(c) \/ (\E a : Makes(c, a)) \/ (\E a : Frees(c, a))

LEMMA QuietKeeps ==
  ASSUME Inv, NEW c, OwnStep(c), Quiet(c), FrameOK(frame'[c], Asked(c))
  PROVE  Inv'
<1>1. \A d \in Callers : Asked(d)' = Asked(d)  BY DEF Asked, OwnStep
<1>2. Shape'  BY DEF Inv, Shape, OwnStep, Quiet
<1>3. Frames'  BY <1>1 DEF Inv, Frames, OwnStep
<1>4. Owned'
  <2>1. \A d \in Callers : HeldIn(frame'[d], Asked(d)') = HeldIn(frame[d], Asked(d))
    BY <1>1 DEF OwnStep, Quiet
  <2> QED  BY <2>1 DEF Inv, Owned, Quiet
<1> QED  BY <1>2, <1>3, <1>4 DEF Inv

LEMMA MakesKeeps ==
  ASSUME Inv, NEW c, NEW a, OwnStep(c), Makes(c, a), FrameOK(frame'[c], Asked(c))
  PROVE  Inv'
<1>1. \A d \in Callers : Asked(d)' = Asked(d)  BY DEF Asked, OwnStep
<1>2. Shape'  BY DEF Inv, Shape, OwnStep, Makes, Fresh
<1>3. Frames'  BY <1>1 DEF Inv, Frames, OwnStep
<1>4. Owned'
  <2>1. \A d \in Callers \ {c} : HeldIn(frame'[d], Asked(d)') = HeldIn(frame[d], Asked(d))
    BY <1>1 DEF OwnStep
  <2>2. HeldIn(frame'[c], Asked(c)') = {a}  BY <1>1 DEF OwnStep, Makes
  <2>3. \A d \in Callers : \A x \in HeldIn(frame'[d], Asked(d)') :
          x \in DOMAIN heap' /\ heap'[x].owner = d
    BY <2>1, <2>2 DEF Inv, Owned, Makes
  <2>4. \A x \in DOMAIN heap' : \E d \in Callers : x \in HeldIn(frame'[d], Asked(d)')
    <3>1. ASSUME NEW x \in DOMAIN heap  PROVE \E d \in Callers : x \in HeldIn(frame'[d], Asked(d)')
      <4>1. PICK d \in Callers : x \in HeldIn(frame[d], Asked(d))  BY DEF Inv, Owned
      <4>2. d # c  BY <4>1 DEF Makes
      <4> QED  BY <4>1, <4>2, <2>1
    <3> QED  BY <3>1, <2>2 DEF Makes, OwnStep
  <2> QED  BY <2>3, <2>4 DEF Owned
<1> QED  BY <1>2, <1>3, <1>4 DEF Inv

LEMMA FreesKeeps ==
  ASSUME Inv, NEW c, NEW a, OwnStep(c), Frees(c, a), FrameOK(frame'[c], Asked(c))
  PROVE  Inv'
<1>1. \A d \in Callers : Asked(d)' = Asked(d)  BY DEF Asked, OwnStep
<1>2. /\ DOMAIN heap' = DOMAIN heap \ {a}
      /\ \A b \in DOMAIN heap' : heap'[b] = heap[b]
  BY DEF Frees, Without
<1>3. Shape'  BY <1>2 DEF Inv, Shape, OwnStep
<1>4. Frames'  BY <1>1 DEF Inv, Frames, OwnStep
<1>5. Owned'
  <2>1. \A d \in Callers \ {c} : HeldIn(frame'[d], Asked(d)') = HeldIn(frame[d], Asked(d))
    BY <1>1 DEF OwnStep
  <2>2. HeldIn(frame'[c], Asked(c)') = HeldIn(frame[c], Asked(c)) \ {a}
    BY <1>1 DEF OwnStep, Frees
  <2>3. a \in DOMAIN heap /\ heap[a].owner = c  BY DEF Inv, Owned, Frees, OwnStep
  <2>4. \A d \in Callers : \A x \in HeldIn(frame'[d], Asked(d)') :
          x \in DOMAIN heap' /\ heap'[x].owner = d
    <3> SUFFICES ASSUME NEW d \in Callers, NEW x \in HeldIn(frame'[d], Asked(d)')
                 PROVE  x \in DOMAIN heap' /\ heap'[x].owner = d
      OBVIOUS
    <3>1. x \in HeldIn(frame[d], Asked(d))  BY <2>1, <2>2
    <3>2. x \in DOMAIN heap /\ heap[x].owner = d  BY <3>1 DEF Inv, Owned
    <3>3. x # a  BY <3>2, <2>2, <2>3
    <3> QED  BY <3>2, <3>3, <1>2
  <2>5. \A x \in DOMAIN heap' : \E d \in Callers : x \in HeldIn(frame'[d], Asked(d)')
    BY <1>2, <2>1, <2>2 DEF Inv, Owned, OwnStep
  <2> QED  BY <2>4, <2>5 DEF Owned
<1> QED  BY <1>3, <1>4, <1>5 DEF Inv

\* c has its answer and leaves nothing behind.
Ends(c) ==
  /\ c \in Callers
  /\ todo[c] # <<>>
  /\ todo' = [todo EXCEPT ![c] = Tail(@)]
  /\ DOMAIN reply' = DOMAIN reply
  /\ DOMAIN frame' = DOMAIN frame
  /\ \A d \in Callers \ {c} : frame'[d] = frame[d]
  /\ frame'[c] = Idle
  /\ HeldIn(frame[c], Asked(c)) = {}
  /\ heap' = heap

LEMMA IdleOK ==
  ASSUME NEW call
  PROVE  FrameOK(Idle, call) /\ HeldIn(Idle, call) = {}
BY DEF FrameOK, HeldIn, Idle, Fields

LEMMA EndsKeeps ==
  ASSUME Inv, NEW c, Ends(c)
  PROVE  Inv'
<1>1. \A d \in Callers \ {c} : todo'[d] = todo[d] /\ Asked(d)' = Asked(d)
  BY DEF Asked, Ends, Inv, Shape
<1>2. Shape'
  <2>1. todo'[c] \in Seq(Calls)  BY DEF Ends, Inv, Shape
  <2> QED  BY <1>1, <2>1 DEF Ends, Inv, Shape
<1>3. Frames'
  <2>1. FrameOK(frame'[c], Asked(c)')  BY IdleOK DEF Ends
  <2>2. frame'[c].at = "idle"  BY DEF Ends, Idle
  <2>3. \A d \in Callers : /\ FrameOK(frame'[d], Asked(d)')
                           /\ frame'[d].at # "idle" => todo'[d] # <<>>
    <3> TAKE d \in Callers
    <3>1. CASE d = c  BY <2>1, <2>2, <3>1 DEF Asked
    <3>2. CASE d # c  BY <1>1, <3>2 DEF Inv, Frames, Ends
    <3> QED  BY <3>1, <3>2
  <2> QED  BY <2>3 DEF Frames
<1>4. Owned'
  <2>1. \A d \in Callers : HeldIn(frame'[d], Asked(d)') = HeldIn(frame[d], Asked(d))
    BY <1>1, IdleOK DEF Ends
  <2> QED  BY <2>1 DEF Inv, Owned, Ends
<1> QED  BY <1>2, <1>3, <1>4 DEF Inv

-----------------------------------------------------------------------------
(* The actions.                                                            *)

LEMMA AskedKnown ==
  ASSUME Inv, NEW c \in Callers, todo[c] # <<>>,
         Asked(c).api \in OfC, HasText(c)
  PROVE  Ending(Asked(c).qir.value) \in Errors \cup {"ok", "panic"}
<1>1. Asked(c) \in Calls  BY DEF Asked, Inv, Shape
<1>2. PICK s \in Sessions : \E d \in Callers : \E n \in DOMAIN s[d] : Asked(c) = s[d][n]
  BY <1>1 DEF Calls
<1> QED  BY <1>2, EndingAssumption DEF HasText

LEMMA RefuseSlotsKeeps ==
  ASSUME Inv, NEW c \in Callers, RefuseSlots(c)
  PROVE  Inv' /\ Touches(c)
<1> DEFINE f == frame[c]
           g == [frame[c] EXCEPT !.at = "returned", !.code = "internal"]
<1>1. FrameOK(f, Asked(c)) /\ f = Idle /\ Asked(c).api = "c" /\ ~Asked(c).slots
  BY DEF RefuseSlots, Pending, Inv, Frames, FrameOK
<1>2. frame'[c] = g  BY DEF RefuseSlots, Inv, Shape
<1>3. FrameOK(g, Asked(c)) /\ HeldIn(g, Asked(c)) = {}
  BY <1>1 DEF FrameOK, HeldIn, SlotsOf, Returned, Idle, Fields, OfC, Errors
<1>4. OwnStep(c)  BY DEF OwnStep, RefuseSlots, Pending, Inv, Shape
<1>5. HeldIn(f, Asked(c)) = {}  BY <1>1, IdleOK
<1>6. Quiet(c)  BY <1>2, <1>3, <1>5 DEF Quiet, RefuseSlots
<1> HIDE DEF f, g
<1> QED  BY <1>2, <1>3, <1>4, <1>6, QuietKeeps DEF Touches

LEMMA ClearSlotsKeeps ==
  ASSUME Inv, NEW c \in Callers, ClearSlots(c)
  PROVE  Inv' /\ Touches(c)
<1> DEFINE f == frame[c]
           g == [frame[c] EXCEPT !.at = "inside", !.out = "null", !.err = "null"]
<1>1. /\ FrameOK(f, Asked(c)) /\ f = Idle
      /\ Asked(c).api \in OfC /\ (Asked(c).api = "c" => Asked(c).slots)
  BY DEF ClearSlots, Pending, Inv, Frames, FrameOK
<1>2. frame'[c] = g  BY DEF ClearSlots, Inv, Shape
<1>3. FrameOK(g, Asked(c)) /\ HeldIn(g, Asked(c)) = {}
  BY <1>1 DEF FrameOK, HeldIn, Idle, Fields
<1>4. OwnStep(c)  BY DEF OwnStep, ClearSlots, Pending, Inv, Shape
<1>5. HeldIn(f, Asked(c)) = {}  BY <1>1, IdleOK
<1>6. Quiet(c)  BY <1>2, <1>3, <1>5 DEF Quiet, ClearSlots
<1> HIDE DEF f, g
<1> QED  BY <1>2, <1>3, <1>4, <1>6, QuietKeeps DEF Touches

\* A new string in one slot, from a frame that holds none.
LEMMA ReturnErrKeeps ==
  ASSUME Inv, NEW c \in Callers, NEW error \in Errors, NEW about,
         Inside(c), ReturnErr(c, error, about)
  PROVE  Inv' /\ Touches(c)
<1>1. PICK a \in Fresh :
        /\ heap' = With(a, c, Message(about))
        /\ frame' = [frame EXCEPT ![c].at = "returned", ![c].err = a, ![c].code = error]
  BY DEF ReturnErr
<1> DEFINE f == frame[c]
           g == [frame[c] EXCEPT !.at = "returned", !.err = a, !.code = error]
<1>2. FrameOK(f, Asked(c)) /\ f.at = "inside"  BY DEF Inside, Inv, Frames
<1>3. frame'[c] = g  BY <1>1 DEF Inv, Shape
<1>4. a \in Addresses /\ a # "null" /\ a # "unset"  BY AddressesAssumption DEF Fresh
<1>5. FrameOK(g, Asked(c)) /\ HeldIn(g, Asked(c)) = {a} /\ HeldIn(f, Asked(c)) = {}
  BY <1>2, <1>4 DEF FrameOK, HeldIn, SlotsOf, Returned, Fields, OfC, Errors
<1>6. OwnStep(c)  BY <1>1, <1>2 DEF OwnStep, ReturnErr, Inv, Shape, Frames
<1>7. Makes(c, a)  BY <1>1, <1>3, <1>5 DEF Makes, With, Fresh
<1> HIDE DEF f, g
<1> QED  BY <1>3, <1>5, <1>6, <1>7, MakesKeeps DEF Touches

LEMMA ReturnOutKeeps ==
  ASSUME Inv, NEW c \in Callers, NEW result,
         Inside(c) \/ Pending(c, {"version"}), ReturnOut(c, result)
  PROVE  Inv' /\ Touches(c)
<1>1. PICK a \in Fresh :
        /\ heap' = With(a, c, result)
        /\ frame' = [frame EXCEPT ![c].at = "returned", ![c].out = a, ![c].code = "ok"]
  BY DEF ReturnOut
<1> DEFINE f == frame[c]
           g == [frame[c] EXCEPT !.at = "returned", !.out = a, !.code = "ok"]
<1>2. /\ FrameOK(f, Asked(c))
      /\ f.at = "inside" \/ (f = Idle /\ Asked(c).api = "version")
      /\ todo[c] # <<>>
  BY DEF Inside, Pending, Inv, Frames, FrameOK
<1>3. frame'[c] = g  BY <1>1 DEF Inv, Shape
<1>4. a \in Addresses /\ a # "null" /\ a # "unset"  BY AddressesAssumption DEF Fresh
<1>5. FrameOK(g, Asked(c)) /\ HeldIn(g, Asked(c)) = {a} /\ HeldIn(f, Asked(c)) = {}
  <2>1. CASE f.at = "inside"
    BY <1>2, <1>4, <2>1 DEF FrameOK, HeldIn, SlotsOf, Returned, Fields, OfC, Errors
  <2>2. CASE f = Idle /\ Asked(c).api = "version"
    <3>1. /\ DOMAIN g = Fields /\ g.at = "returned" /\ g.out = a /\ g.code = "ok"
          /\ g.err = "unset" /\ g.owes = {}
      BY <1>2, <2>2 DEF FrameOK, Fields, Idle
    <3> HIDE DEF g
    <3>2. SlotsOf(Asked(c), g.code) = {"out"}  BY <2>2, <3>1 DEF SlotsOf
    <3>3. HeldIn(g, Asked(c)) = {a}  BY <1>4, <3>1, <3>2 DEF HeldIn
    <3>4. FrameOK(g, Asked(c))  BY <1>4, <2>2, <3>1 DEF FrameOK, Returned, OfC
    <3> QED  BY <2>2, <3>3, <3>4, IdleOK
  <2> QED  BY <1>2, <2>1, <2>2
<1>6. OwnStep(c)  BY <1>1, <1>2 DEF OwnStep, ReturnOut, Inv, Shape, Frames
<1>7. Makes(c, a)  BY <1>1, <1>3, <1>5 DEF Makes, With, Fresh
<1> HIDE DEF f, g
<1> QED  BY <1>3, <1>5, <1>6, <1>7, MakesKeeps DEF Touches

LEMMA TranslateKeeps ==
  ASSUME Inv, NEW c \in Callers, Translate(c)
  PROVE  Inv' /\ Touches(c)
<1> DEFINE qir == Asked(c).qir.value
<1>1. Inside(c) /\ HasText(c)  BY DEF Translate
<1>2. PICK producer \in Producer(Asked(c).opts) :
        IF Ending(qir) = "ok" THEN ReturnOut(c, Text(qir, Facade(producer)))
        ELSE ReturnErr(c, CodeOf(Ending(qir)), Ending(qir))
  BY DEF Translate
<1>3. todo[c] # <<>> /\ Asked(c).api \in OfC  BY <1>1 DEF Inside, Inv, Frames, FrameOK
<1>4. Ending(qir) \in Errors \cup {"ok", "panic"}  BY <1>1, <1>3, AskedKnown
<1>5. CASE Ending(qir) = "ok"
  <2>1. ReturnOut(c, Text(qir, Facade(producer)))  BY <1>2, <1>5
  <2> QED  BY <1>1, <2>1, ReturnOutKeeps
<1>6. CASE Ending(qir) # "ok"
  <2>1. ReturnErr(c, CodeOf(Ending(qir)), Ending(qir))  BY <1>2, <1>6
  <2>2. CodeOf(Ending(qir)) \in Errors  BY <1>4, <1>6 DEF CodeOf, Errors
  <2> QED  BY <1>1, <2>1, <2>2, ReturnErrKeeps
<1> QED  BY <1>5, <1>6

\* Reading the answer frees nothing: the caller now owes what it was given.
LEMMA TakeResultKeeps ==
  ASSUME Inv, NEW c \in Callers, TakeResult(c)
  PROVE  Inv' /\ Touches(c)
<1> DEFINE call == Asked(c)
           found == IF Slots(c) = {} THEN NoText
                    ELSE Contents(IF frame[c].code = "ok" THEN frame[c].out ELSE frame[c].err)
           f == frame[c]
           g == [frame[c] EXCEPT !.at = "read", !.text = found, !.owes = Slots(c)]
<1>1. FrameOK(f, call) /\ f.at = "returned" /\ todo[c] # <<>>
  BY DEF TakeResult, Inv, Frames
<1>2. frame'[c] = g  BY DEF TakeResult, Inv, Shape
<1>3. Slots(c) = SlotsOf(call, f.code)  BY DEF Slots, SlotsOf
<1>4. /\ DOMAIN g = Fields /\ g.at = "read" /\ g.owes = SlotsOf(call, f.code)
      /\ g.out = f.out /\ g.err = f.err /\ g.code = f.code
  BY <1>1, <1>3 DEF FrameOK, Fields
<1>5. OwnStep(c)  BY <1>1 DEF OwnStep, TakeResult, Inv, Shape
<1>6. SlotsOf(call, f.code) \subseteq {"out", "err"}  BY DEF SlotsOf
<1> HIDE DEF g
<1>7. FrameOK(g, call)
  BY <1>1, <1>4, <1>6 DEF FrameOK, Returned
<1>8. HeldIn(g, call) = HeldIn(f, call)
  <2>1. g["out"] = f["out"] /\ g["err"] = f["err"]  BY <1>4
  <2>2. \A slot \in SlotsOf(call, f.code) : g[slot] = f[slot]  BY <1>6, <2>1
  <2>3. HeldIn(g, call) = {g[slot] : slot \in SlotsOf(call, f.code)} \ {"null"}
    BY <1>4 DEF HeldIn
  <2>4. HeldIn(f, call) = {f[slot] : slot \in SlotsOf(call, f.code)} \ {"null"}
    BY <1>1 DEF HeldIn
  <2> QED  BY <2>2, <2>3, <2>4
<1>9. Quiet(c)  BY <1>2, <1>8 DEF Quiet, TakeResult
<1> QED  BY <1>2, <1>5, <1>7, <1>9, QuietKeeps DEF Touches

\* A slot that is NULL is freed to no effect; the string of any other is not in
\* the other slot.
LEMMA FreeKeeps ==
  ASSUME Inv, NEW c \in Callers, NEW slot \in {"out", "err"}, Free(c, slot)
  PROVE  Inv' /\ Touches(c)
<1> DEFINE call == Asked(c)
           f == frame[c]
           g == [frame[c] EXCEPT !.owes = @ \ {slot}]
<1>1. FrameOK(f, call) /\ f.at = "read" /\ slot \in f.owes /\ todo[c] # <<>>
  BY DEF Free, Inv, Frames
<1>2. frame'[c] = g  BY DEF Free, Inv, Shape
<1>3. /\ DOMAIN g = Fields /\ g.at = "read" /\ g.owes = f.owes \ {slot}
      /\ g.out = f.out /\ g.err = f.err /\ g.code = f.code
  BY <1>1 DEF FrameOK, Fields
<1>4. OwnStep(c)  BY <1>1 DEF OwnStep, Free, Inv, Shape
<1> HIDE DEF g
<1>5. FrameOK(g, call)  BY <1>1, <1>3 DEF FrameOK, Returned
<1>6. HeldIn(f, call) = {f[x] : x \in f.owes} \ {"null"}  BY <1>1 DEF HeldIn
<1>7. HeldIn(g, call) = {f[x] : x \in f.owes \ {slot}} \ {"null"}
  <2>1. g["out"] = f["out"] /\ g["err"] = f["err"]  BY <1>3
  <2>2. \A x \in f.owes \ {slot} : g[x] = f[x]  BY <2>1, <1>1 DEF FrameOK
  <2>3. HeldIn(g, call) = {g[x] : x \in f.owes \ {slot}} \ {"null"}  BY <1>3 DEF HeldIn
  <2> QED  BY <2>2, <2>3
<1>8. heap' = Without(f[slot])  BY DEF Free
<1>9. "null" \notin Addresses  BY AddressesAssumption
<1>10. CASE f[slot] = "null"
  <2>1. HeldIn(g, call) = HeldIn(f, call)  BY <1>6, <1>7, <1>10
  <2>2. "null" \notin DOMAIN heap  BY <1>9 DEF Inv, Shape
  <2>3. DOMAIN heap' = DOMAIN heap /\ \A a \in DOMAIN heap : heap'[a] = heap[a]
    BY <1>8, <1>10, <2>2 DEF Without
  <2>4. Quiet(c)  BY <1>2, <2>1, <2>3 DEF Quiet
  <2> QED  BY <1>2, <1>4, <1>5, <2>4, QuietKeeps DEF Touches
<1>11. CASE f[slot] # "null"
  <2>1. \A x \in f.owes \ {slot} : f[x] # f[slot]
    <3>1. f.owes \subseteq SlotsOf(call, f.code) /\ f.owes \subseteq {"out", "err"}
          /\ Returned(f, call)
      BY <1>1 DEF FrameOK
    <3>2. ASSUME "out" \in f.owes, "err" \in f.owes  PROVE f.out # f.err
      <4>1. call.api = "c" => call.slots  BY <3>1, <3>2 DEF SlotsOf
      <4>2. call.api # "version" \/ f.code # "ok"  BY <3>1, <3>2 DEF SlotsOf
      <4> QED  BY <3>1, <4>1, <4>2, <1>9 DEF Returned
    <3> SUFFICES ASSUME NEW x \in f.owes \ {slot}  PROVE f[x] # f[slot]
      OBVIOUS
    <3>3. \/ x = "out" /\ slot = "err"
          \/ x = "err" /\ slot = "out"
      BY <3>1
    <3>4. f["out"] # f["err"]  BY <1>1, <3>2, <3>3
    <3> QED  BY <3>3, <3>4
  <2>2. HeldIn(g, call) = HeldIn(f, call) \ {f[slot]}  BY <1>6, <1>7, <2>1
  <2>3. f[slot] \in HeldIn(f, call)  BY <1>1, <1>6, <1>11
  <2>4. Frees(c, f[slot])  BY <1>2, <1>8, <2>2, <2>3 DEF Frees
  <2> QED  BY <1>2, <1>4, <1>5, <2>4, FreesKeeps DEF Touches
<1> QED  BY <1>10, <1>11

LEMMA DeliverKeeps ==
  ASSUME Inv, NEW c \in Callers, Deliver(c)
  PROVE  Inv' /\ Ends(c)
<1>1. todo[c] # <<>>  BY DEF Deliver, Inv, Frames
<1>2. HeldIn(frame[c], Asked(c)) = {}  BY DEF Deliver, HeldIn
<1>3. Ends(c)  BY <1>1, <1>2 DEF Deliver, Finish, Ends, Inv, Shape
<1> QED  BY <1>3, EndsKeeps

LEMMA DirectKeeps ==
  ASSUME Inv, NEW c \in Callers, Direct(c)
  PROVE  Inv' /\ Ends(c)
<1>1. todo[c] # <<>> /\ frame[c] = Idle  BY DEF Direct, Pending, Inv, Frames, FrameOK
<1>2. HeldIn(frame[c], Asked(c)) = {}  BY <1>1, IdleOK
<1>3. todo' = [todo EXCEPT ![c] = Tail(@)] /\ DOMAIN reply' = DOMAIN reply
      /\ frame' = frame /\ heap' = heap
  BY DEF Direct, Finish, Inv, Shape
<1>4. Ends(c)  BY <1>1, <1>2, <1>3 DEF Ends
<1> QED  BY <1>4, EndsKeeps

LEMMA CallStepKeeps ==
  ASSUME Inv, NEW c \in Callers, CallStep(c)
  PROVE  Inv'
<1>1. CASE RefuseSlots(c)  BY <1>1, RefuseSlotsKeeps
<1>2. CASE ClearSlots(c)  BY <1>2, ClearSlotsKeeps
<1>3. CASE RefuseNullQir(c)  BY <1>3, ReturnErrKeeps DEF RefuseNullQir, Errors
<1>4. CASE RefuseEncoding(c)  BY <1>4, ReturnErrKeeps DEF RefuseEncoding, Errors
<1>5. CASE RefuseOptions(c)  BY <1>5, ReturnErrKeeps DEF RefuseOptions, Errors
<1>6. CASE Translate(c)  BY <1>6, TranslateKeeps
<1>7. CASE Version(c)  BY <1>7, ReturnOutKeeps DEF Version
<1>8. CASE TakeResult(c)  BY <1>8, TakeResultKeeps
<1>9. CASE Free(c, "out") \/ Free(c, "err")  BY <1>9, FreeKeeps
<1>10. CASE Deliver(c)  BY <1>10, DeliverKeeps
<1>11. CASE Direct(c)  BY <1>11, DirectKeeps
<1> QED  BY <1>1, <1>2, <1>3, <1>4, <1>5, <1>6, <1>7, <1>8, <1>9, <1>10, <1>11 DEF CallStep

LEMMA InitHolds == Init => Inv
<1> SUFFICES ASSUME Init  PROVE Inv  OBVIOUS
<1>1. Shape
  <2>1. \A c \in Callers : {todo[c][n] : n \in DOMAIN todo[c]} \subseteq Calls
    <3> SUFFICES ASSUME NEW c \in Callers, NEW n \in DOMAIN todo[c]
                 PROVE  todo[c][n] \in Calls
      OBVIOUS
    <3> DEFINE OfCaller(s, d) == {s[d][m] : m \in DOMAIN s[d]}
               Of(s) == UNION {OfCaller(s, d) : d \in Callers}
    <3>1. todo[c][n] \in OfCaller(todo, c)  OBVIOUS
    <3>2. OfCaller(todo, c) \subseteq Of(todo)  OBVIOUS
    <3>3. Of(todo) \subseteq UNION {Of(s) : s \in Sessions}  BY DEF Init
    <3>4. Calls = UNION {Of(s) : s \in Sessions}  BY DEF Calls
    <3> QED  BY <3>1, <3>2, <3>3, <3>4
  <2>2. DOMAIN todo = Callers /\ \A c \in Callers : todo[c] \in Seq({todo[c][n] : n \in DOMAIN todo[c]})
    BY SessionsAssumption DEF Init
  <2>3. \A c \in Callers : todo[c] \in Seq(Calls)
    <3> SUFFICES ASSUME NEW c \in Callers  PROVE todo[c] \in Seq(Calls)  OBVIOUS
    <3> DEFINE s == todo[c]
               R == {s[n] : n \in DOMAIN s}
    <3>1. s \in Seq(R) /\ R \subseteq Calls  BY <2>1, <2>2
    <3> HIDE DEF s, R
    <3>2. PICK k \in Nat : s \in [1 .. k -> R]  BY <3>1, SeqDef
    <3>3. s \in [1 .. k -> Calls]  BY <3>1, <3>2
    <3>4. s \in Seq(Calls)  BY <3>3, SeqDef
    <3> QED  BY <3>4 DEF s
  <2>4. DOMAIN heap = {}  BY DEF Init
  <2> QED  BY <2>2, <2>3, <2>4 DEF Shape, Init
<1>2. \A c \in Callers : frame[c] = Idle  BY DEF Init
<1>3. Frames
  <2>1. Idle.at = "idle"  BY DEF Idle
  <2> QED  BY <1>2, <2>1, IdleOK DEF Frames
<1>4. Owned
  <2>1. DOMAIN heap = {}  BY DEF Init
  <2> QED  BY <1>2, <2>1, IdleOK DEF Owned
<1> QED  BY <1>1, <1>3, <1>4 DEF Inv

LEMMA Stutters ==
  ASSUME Inv, UNCHANGED vars
  PROVE  Inv'
BY DEF Inv, Shape, Frames, Owned, vars, Asked

\* The invariant holds of every caller and every heap.
THEOREM InvHolds == Spec => []Inv
<1>1. Init => Inv  BY InitHolds
<1>2. Inv /\ [Next]_vars => Inv'  BY CallStepKeeps, Stutters DEF Next
<1> QED  BY <1>1, <1>2, PTL DEF Spec

\* A frame that is not in use holds nothing, and addresses are addresses.
THEOREM LibraryTypeCorrect == Spec => []TypeOK
<1>1. Inv => TypeOK  BY DEF Inv, Shape, Frames, FrameOK, TypeOK
<1> QED  BY <1>1, InvHolds, PTL

\* However qirtoqasm_translate is left, one slot has the string and the other NULL.
THEOREM OneStringPerCallHolds == Spec => []OneStringPerCall
<1>1. Inv => OneStringPerCall
  BY DEF Inv, Frames, FrameOK, Returned, OneStringPerCall, OfC
<1> QED  BY <1>1, InvHolds, PTL

\* No string leaks, is freed twice or is read after it was freed.
THEOREM OneOwnerHolds == Spec => []OneOwner
<1>1. Inv => OneOwner
  <2>1. \A c \in Callers : Held(c) = HeldIn(frame[c], Asked(c))
    BY DEF Held, HeldIn, Slots, SlotsOf
  <2> QED  BY <2>1 DEF Inv, Owned, OneOwner
<1> QED  BY <1>1, InvHolds, PTL
-----------------------------------------------------------------------------
(* The answers.                                                            *)

\* What a caller finds in its slots.
Found(f, call, h) ==
  LET slot == IF f.code = "ok" THEN f.out ELSE f.err
  IN  IF SlotsOf(call, f.code) = {} THEN NoText
      ELSE IF slot \in DOMAIN h THEN h[slot].text
      ELSE IF slot = "null" THEN NoText ELSE Message("garbage")

\* An answer that waits in the slots, or was read from them, is the promised one.
AnswerOK(f, call, h) ==
  /\ f.at = "returned" => Promised(call, Reply(f.code, Found(f, call, h)))
  /\ f.at = "read" => Promised(call, Reply(f.code, f.text))

Answers == \A c \in Callers : AnswerOK(frame[c], Asked(c), heap)

\* The slot of the answer is one the frame holds.
LEMMA AnswerHeld ==
  ASSUME NEW f, NEW call, FrameOK(f, call), f.at = "returned", SlotsOf(call, f.code) # {}
  PROVE  (IF f.code = "ok" THEN f.out ELSE f.err) \in HeldIn(f, call)
<1>1. Returned(f, call) /\ "null" \notin Addresses  BY AddressesAssumption DEF FrameOK
<1>2. HeldIn(f, call) = {f[slot] : slot \in SlotsOf(call, f.code)} \ {"null"}  BY DEF HeldIn
<1>3. CASE f.code = "ok"
  <2>1. "out" \in SlotsOf(call, f.code)  BY <1>3 DEF SlotsOf
  <2>2. f.out \in Addresses  BY <1>1, <1>3 DEF Returned
  <2>3. f["out"] \in HeldIn(f, call)  BY <1>1, <1>2, <2>1, <2>2
  <2> QED  BY <1>3, <2>3
<1>4. CASE f.code # "ok"
  <2>1. "err" \in SlotsOf(call, f.code)  BY <1>4 DEF SlotsOf
  <2>2. f.err \in Addresses  BY <1>1, <1>4, <2>1 DEF Returned, SlotsOf
  <2>3. f["err"] \in HeldIn(f, call)  BY <1>1, <1>2, <2>1, <2>2
  <2> QED  BY <1>4, <2>3
<1> QED  BY <1>3, <1>4

\* A frame's answer is not touched by what happens to other strings.
LEMMA AnswerStays ==
  ASSUME NEW f, NEW call, FrameOK(f, call), NEW h, NEW k, AnswerOK(f, call, h),
         \A a \in HeldIn(f, call) : a \in DOMAIN h /\ a \in DOMAIN k /\ k[a] = h[a]
  PROVE  AnswerOK(f, call, k)
<1>1. f.at = "returned" => Found(f, call, k) = Found(f, call, h)  BY AnswerHeld DEF Found
<1> QED  BY <1>1 DEF AnswerOK

LEMMA OthersStay ==
  ASSUME Inv, Answers, NEW c, Touches(c),
         AnswerOK(frame'[c], Asked(c), heap')
  PROVE  Answers'
<1>1. \A d \in Callers : Asked(d)' = Asked(d)  BY DEF Asked, OwnStep, Touches
<1>2. ASSUME NEW d \in Callers \ {c}  PROVE AnswerOK(frame[d], Asked(d), heap')
  <2>1. FrameOK(frame[d], Asked(d)) /\ AnswerOK(frame[d], Asked(d), heap)
    BY DEF Inv, Frames, Answers
  <2>2. ASSUME NEW a \in HeldIn(frame[d], Asked(d))
        PROVE  a \in DOMAIN heap /\ a \in DOMAIN heap' /\ heap'[a] = heap[a]
    <3>1. a \in DOMAIN heap /\ heap[a].owner = d  BY <2>2 DEF Inv, Owned
    <3>2. CASE Quiet(c)  BY <3>1, <3>2 DEF Quiet
    <3>3. CASE \E b : Makes(c, b)  BY <3>1, <3>3 DEF Makes
    <3>4. CASE \E b : Frees(c, b)
      <4>1. PICK b : Frees(c, b)  BY <3>4
      <4>2. heap[b].owner = c  BY <4>1 DEF Inv, Owned, Frees, OwnStep, Touches
      <4>3. a # b  BY <3>1, <4>2
      <4> QED  BY <3>1, <4>1, <4>3 DEF Frees, Without
    <3> QED  BY <3>2, <3>3, <3>4 DEF Touches
  <2> QED  BY <2>1, <2>2, AnswerStays
<1>3. ASSUME NEW d \in Callers  PROVE AnswerOK(frame'[d], Asked(d)', heap')
  <2>1. Asked(d)' = Asked(d)  BY <1>1
  <2>2. AnswerOK(frame'[d], Asked(d), heap')  BY <1>2 DEF OwnStep, Touches
  <2> QED  BY <2>1, <2>2
<1> QED  BY <1>3 DEF Answers

LEMMA EndedStays ==
  ASSUME Inv, Answers, NEW c, Ends(c)
  PROVE  Answers'
<1>1. \A d \in Callers \ {c} : Asked(d)' = Asked(d)  BY DEF Asked, Ends, Inv, Shape
<1>2. ASSUME NEW d \in Callers  PROVE AnswerOK(frame'[d], Asked(d)', heap')
  <2>1. CASE d = c
    <3>1. frame'[d] = Idle  BY <2>1 DEF Ends
    <3> QED  BY <3>1 DEF AnswerOK, Idle
  <2>2. CASE d # c
    <3>1. AnswerOK(frame[d], Asked(d), heap)  BY DEF Answers
    <3>2. frame'[d] = frame[d] /\ heap' = heap /\ Asked(d)' = Asked(d)  BY <1>1, <2>2 DEF Ends
    <3> QED  BY <3>1, <3>2
  <2> QED  BY <2>1, <2>2
<1> QED  BY <1>2 DEF Answers

\* What is not asked for as the header says is answered by some error.
LEMMA AnyErrorPromised ==
  ASSUME NEW call, call.api \in OfC, ~(GoodText(call) /\ GoodOptions(call.opts)),
         NEW error \in Errors, NEW found
  PROVE  Promised(call, Reply(error, found))
<1>1. call.api \notin {"version", "rust", "python"}  BY DEF OfC
<1>2. Reply(error, found).code = error  BY DEF Reply
<1> QED  BY <1>1, <1>2 DEF Promised

LEMMA ProducerIsLabel ==
  ASSUME NEW opts
  PROVE  /\ Producer(opts) = {} <=> ~GoodOptions(opts)
         /\ \A producer \in Producer(opts) : producer = Label(opts)
BY DEF Producer, Optional, GoodOptions, Label, Readable

\* What the core makes of a call that is as the header says is promised.
LEMMA ResultPromised ==
  ASSUME NEW call, call.api \in OfC, GoodText(call), NEW producer \in Producer(call.opts),
         Ending(call.qir.value) \in Errors \cup {"ok", "panic"}
  PROVE  LET qir == call.qir.value
         IN  Promised(call, IF Ending(qir) = "ok" THEN Reply("ok", Text(qir, Facade(producer)))
                            ELSE Reply(CodeOf(Ending(qir)), Message(Ending(qir))))
<1> DEFINE qir == call.qir.value
           error == IF Ending(qir) \in Errors THEN Ending(qir) ELSE "internal"
           answer == IF Ending(qir) = "ok" THEN Reply("ok", Text(qir, Facade(producer)))
                     ELSE Reply(CodeOf(Ending(qir)), Message(Ending(qir)))
<1>1. GoodOptions(call.opts) /\ producer = Label(call.opts)  BY ProducerIsLabel
<1>2. call.api \notin {"version", "rust", "python"}  BY DEF OfC
<1>3. Result(qir, Facade(Label(call.opts)), error, answer)
  <2>1. CASE Ending(qir) = "ok"  BY <1>1, <2>1 DEF Result
  <2>2. CASE Ending(qir) # "ok"
    <3>1. CodeOf(Ending(qir)) = error  BY <2>2 DEF CodeOf, Errors
    <3>2. answer = Reply(error, Message(Ending(qir)))  BY <2>2, <3>1
    <3>3. answer.code = error /\ answer.text.is = "message"  BY <3>2 DEF Reply, Message
    <3> QED  BY <2>2, <3>3 DEF Result
  <2> QED  BY <2>1, <2>2
<1>4. Promised(call, answer) <=> Result(qir, Facade(Label(call.opts)), error, answer)
  <2> HIDE DEF answer
  <2> QED  BY <1>1, <1>2 DEF Promised
<1> QED  BY <1>3, <1>4
LEMMA RefuseSlotsAnswers ==
  ASSUME Inv, NEW c \in Callers, RefuseSlots(c)
  PROVE  AnswerOK(frame'[c], Asked(c), heap')
<1> DEFINE call == Asked(c)
<1>1. call.api = "c" /\ ~call.slots  BY DEF RefuseSlots, Pending
<1>2. DOMAIN frame[c] = Fields  BY DEF Inv, Frames, FrameOK
<1>3. frame'[c].at = "returned" /\ frame'[c].code = "internal"
  BY <1>2 DEF RefuseSlots, Fields, Inv, Shape
<1>4. Promised(call, Reply("internal", Found(frame'[c], call, heap')))
  BY <1>1, AnyErrorPromised DEF OfC, GoodText, Errors
<1> HIDE DEF call
<1> QED  BY <1>3, <1>4 DEF AnswerOK, call

LEMMA ReturnErrAnswers ==
  ASSUME Inv, NEW c \in Callers, NEW error \in Errors, NEW about,
         Inside(c), ReturnErr(c, error, about),
         Promised(Asked(c), Reply(error, Message(about)))
  PROVE  AnswerOK(frame'[c], Asked(c), heap')
<1>1. PICK a \in Fresh :
        /\ heap' = With(a, c, Message(about))
        /\ frame' = [frame EXCEPT ![c].at = "returned", ![c].err = a, ![c].code = error]
  BY DEF ReturnErr
<1>2. FrameOK(frame[c], Asked(c)) /\ frame[c].at = "inside"  BY DEF Inside, Inv, Frames
<1>3. frame'[c].at = "returned" /\ frame'[c].err = a /\ frame'[c].code = error
  BY <1>1, <1>2 DEF FrameOK, Fields, Inv, Shape
<1>4. a \in DOMAIN heap' /\ heap'[a].text = Message(about)  BY <1>1 DEF With
<1>5. error # "ok"  BY DEF Errors
<1>6. Asked(c).api \in OfC /\ (Asked(c).api = "c" => Asked(c).slots)  BY <1>2 DEF FrameOK
<1>7. SlotsOf(Asked(c), error) # {}  BY <1>5, <1>6 DEF SlotsOf
<1>8. Found(frame'[c], Asked(c), heap') = Message(about)  BY <1>3, <1>4, <1>5, <1>7 DEF Found
<1> QED  BY <1>3, <1>8 DEF AnswerOK

LEMMA ReturnOutAnswers ==
  ASSUME Inv, NEW c \in Callers, NEW result,
         Inside(c) \/ Pending(c, {"version"}), ReturnOut(c, result),
         Promised(Asked(c), Reply("ok", result))
  PROVE  AnswerOK(frame'[c], Asked(c), heap')
<1>1. PICK a \in Fresh :
        /\ heap' = With(a, c, result)
        /\ frame' = [frame EXCEPT ![c].at = "returned", ![c].out = a, ![c].code = "ok"]
  BY DEF ReturnOut
<1>2. FrameOK(frame[c], Asked(c))  BY DEF Inv, Frames
<1>3. frame'[c].at = "returned" /\ frame'[c].out = a /\ frame'[c].code = "ok"
  BY <1>1, <1>2 DEF FrameOK, Fields, Inv, Shape
<1>4. a \in DOMAIN heap' /\ heap'[a].text = result  BY <1>1 DEF With
<1>5. Asked(c).api = "version" \/ (Asked(c).api \in OfC /\ (Asked(c).api = "c" => Asked(c).slots))
  BY <1>2 DEF FrameOK, Inside, Pending
<1>6. SlotsOf(Asked(c), "ok") # {}  BY <1>5 DEF SlotsOf
<1>7. Found(frame'[c], Asked(c), heap') = result  BY <1>3, <1>4, <1>6 DEF Found
<1> QED  BY <1>3, <1>7 DEF AnswerOK

\* The three refusals before the core is called.
LEMMA RefusalsAnswer ==
  ASSUME Inv, NEW c \in Callers,
         RefuseNullQir(c) \/ RefuseEncoding(c) \/ RefuseOptions(c)
  PROVE  AnswerOK(frame'[c], Asked(c), heap')
<1>1. Inside(c) /\ Asked(c).api \in OfC
  <2>1. Inside(c)  BY DEF RefuseNullQir, RefuseEncoding, RefuseOptions
  <2> QED  BY <2>1 DEF Inside, Inv, Frames, FrameOK
<1>2. ~(GoodText(Asked(c)) /\ GoodOptions(Asked(c).opts))
  <2>1. CASE RefuseNullQir(c) \/ RefuseEncoding(c)
    BY <2>1 DEF RefuseNullQir, RefuseEncoding, GoodText, Readable
  <2>2. CASE RefuseOptions(c)
    <3>1. Producer(Asked(c).opts) = {}  BY <2>2 DEF RefuseOptions
    <3> QED  BY <3>1, ProducerIsLabel
  <2> QED  BY <2>1, <2>2
<1>3. PICK error \in Errors : \E about : ReturnErr(c, error, about)
  <2>1. "internal" \in Errors /\ "syntax" \in Errors  BY DEF Errors
  <2> QED  BY <2>1 DEF RefuseNullQir, RefuseEncoding, RefuseOptions
<1>4. PICK about : ReturnErr(c, error, about)  BY <1>3
<1>5. Promised(Asked(c), Reply(error, Message(about)))  BY <1>1, <1>2, AnyErrorPromised
<1> QED  BY <1>1, <1>4, <1>5, ReturnErrAnswers

LEMMA TranslateAnswers ==
  ASSUME Inv, NEW c \in Callers, Translate(c)
  PROVE  AnswerOK(frame'[c], Asked(c), heap')
<1> DEFINE qir == Asked(c).qir.value
<1>1. Inside(c) /\ HasText(c)  BY DEF Translate
<1>2. PICK producer \in Producer(Asked(c).opts) :
        IF Ending(qir) = "ok" THEN ReturnOut(c, Text(qir, Facade(producer)))
        ELSE ReturnErr(c, CodeOf(Ending(qir)), Ending(qir))
  BY DEF Translate
<1>3. /\ todo[c] # <<>> /\ Asked(c).api \in OfC
      /\ Asked(c).api = "c" => Asked(c).slots
  BY <1>1 DEF Inside, Inv, Frames, FrameOK
<1>4. Ending(qir) \in Errors \cup {"ok", "panic"}  BY <1>1, <1>3, AskedKnown
<1>5. GoodText(Asked(c))  BY <1>1, <1>3 DEF GoodText, HasText
<1>6. Promised(Asked(c), IF Ending(qir) = "ok" THEN Reply("ok", Text(qir, Facade(producer)))
                         ELSE Reply(CodeOf(Ending(qir)), Message(Ending(qir))))
  BY <1>3, <1>4, <1>5, ResultPromised
<1>7. CASE Ending(qir) = "ok"
  <2>1. ReturnOut(c, Text(qir, Facade(producer)))  BY <1>2, <1>7
  <2>2. Promised(Asked(c), Reply("ok", Text(qir, Facade(producer))))  BY <1>6, <1>7
  <2> QED  BY <1>1, <2>1, <2>2, ReturnOutAnswers
<1>8. CASE Ending(qir) # "ok"
  <2>1. ReturnErr(c, CodeOf(Ending(qir)), Ending(qir))  BY <1>2, <1>8
  <2>2. CodeOf(Ending(qir)) \in Errors  BY <1>4, <1>8 DEF CodeOf, Errors
  <2>3. Promised(Asked(c), Reply(CodeOf(Ending(qir)), Message(Ending(qir))))  BY <1>6, <1>8
  <2> QED  BY <1>1, <2>1, <2>2, <2>3, ReturnErrAnswers
<1> QED  BY <1>7, <1>8

\* What is promised of a call that is not made in C.
LEMMA DirectPromised ==
  ASSUME NEW call, NEW answer
  PROVE  /\ call.api = "version" => (Promised(call, answer) <=> answer = Reply("ok", Message("version")))
         /\ call.api = "rust" =>
              (Promised(call, answer) <=> Result(call.qir, call.exporter, Ending(call.qir), answer))
         /\ call.api = "python" =>
              (Promised(call, answer) <=>
                 Result(call.qir, Facade(call.producer),
                        IF Ending(call.qir) = "panic" THEN "panic" ELSE "QirToQasmError", answer))
<1>1. CASE call.api = "version"
  <2>1. call.api \notin OfC /\ call.api \notin {"rust", "python"}  BY <1>1 DEF OfC
  <2> QED  BY <1>1, <2>1 DEF Promised
<1>2. CASE call.api = "rust"
  <2>1. call.api \notin OfC /\ call.api \notin {"version", "python"}  BY <1>2 DEF OfC
  <2> QED  BY <1>2, <2>1 DEF Promised
<1>3. CASE call.api = "python"
  <2>1. call.api \notin OfC /\ call.api \notin {"version", "rust"}  BY <1>3 DEF OfC
  <2> QED  BY <1>3, <2>1 DEF Promised
<1> QED  BY <1>1, <1>2, <1>3

LEMMA VersionAnswers ==
  ASSUME Inv, NEW c \in Callers, Version(c)
  PROVE  AnswerOK(frame'[c], Asked(c), heap')
<1>1. Asked(c).api = "version" /\ Pending(c, {"version"}) /\ ReturnOut(c, Message("version"))
  BY DEF Version, Pending
<1>2. Promised(Asked(c), Reply("ok", Message("version")))  BY <1>1, DirectPromised
<1> QED  BY <1>1, <1>2, ReturnOutAnswers

LEMMA TakeResultAnswers ==
  ASSUME Inv, Answers, NEW c \in Callers, TakeResult(c)
  PROVE  AnswerOK(frame'[c], Asked(c), heap')
<1>1. FrameOK(frame[c], Asked(c)) /\ frame[c].at = "returned"  BY DEF TakeResult, Inv, Frames
<1>2. Slots(c) = SlotsOf(Asked(c), frame[c].code)  BY DEF Slots, SlotsOf
<1>3. /\ frame'[c].at = "read" /\ frame'[c].code = frame[c].code
      /\ frame'[c].text = IF Slots(c) = {} THEN NoText
                          ELSE Contents(IF frame[c].code = "ok" THEN frame[c].out ELSE frame[c].err)
  BY <1>1 DEF TakeResult, FrameOK, Fields, Inv, Shape
<1>4. frame'[c].text = Found(frame[c], Asked(c), heap)  BY <1>2, <1>3 DEF Found, Contents
<1>5. Promised(Asked(c), Reply(frame[c].code, Found(frame[c], Asked(c), heap)))
  BY <1>1 DEF Answers, AnswerOK
<1> QED  BY <1>3, <1>4, <1>5 DEF AnswerOK

LEMMA FreeAnswers ==
  ASSUME Inv, Answers, NEW c \in Callers, NEW slot \in {"out", "err"}, Free(c, slot)
  PROVE  AnswerOK(frame'[c], Asked(c), heap')
<1>1. FrameOK(frame[c], Asked(c)) /\ frame[c].at = "read"  BY DEF Free, Inv, Frames
<1>2. /\ frame'[c].at = "read" /\ frame'[c].code = frame[c].code
      /\ frame'[c].text = frame[c].text
  BY <1>1 DEF Free, FrameOK, Fields, Inv, Shape
<1>3. Promised(Asked(c), Reply(frame[c].code, frame[c].text))  BY <1>1 DEF Answers, AnswerOK
<1> QED  BY <1>2, <1>3 DEF AnswerOK

\* What Rust and Python are given is promised by what the core returned.
LEMMA DirectAnswers ==
  ASSUME Inv, NEW c \in Callers, Direct(c)
  PROVE  Promised(Asked(c), reply'[c])
<1> DEFINE call == Asked(c)
           rust == call.api = "rust"
           error == Ending(call.qir)
           exporter == IF rust THEN call.exporter ELSE Facade(call.producer)
<1>1. call.api \in {"python", "rust"}  BY DEF Direct, Pending
<1>2. reply'[c] = CASE error = "ok" -> Reply("ok", Text(call.qir, exporter))
                    [] error = "panic" -> Reply("panic", Message("panic"))
                    [] OTHER -> Reply(IF rust THEN error ELSE "QirToQasmError", Message(error))
  BY DEF Direct, Finish, Inv, Shape
<1>3. CASE error = "ok"
  <2>1. reply'[c] = Reply("ok", Text(call.qir, exporter))  BY <1>2, <1>3
  <2>2. CASE rust
    <3>1. Result(call.qir, call.exporter, Ending(call.qir), reply'[c])  BY <1>3, <2>1, <2>2 DEF Result
    <3> QED  BY <2>2, <3>1, DirectPromised
  <2>3. CASE ~rust
    <3>1. Result(call.qir, Facade(call.producer),
                 IF Ending(call.qir) = "panic" THEN "panic" ELSE "QirToQasmError", reply'[c])
      BY <1>3, <2>1, <2>3 DEF Result
    <3> QED  BY <1>1, <2>3, <3>1, DirectPromised
  <2> QED  BY <2>2, <2>3
<1>4. CASE error # "ok"
  <2>1. reply'[c] = IF error = "panic" THEN Reply("panic", Message("panic"))
                    ELSE Reply(IF rust THEN error ELSE "QirToQasmError", Message(error))
    BY <1>2, <1>4
  <2>2. /\ reply'[c].code = IF rust THEN error
                            ELSE IF error = "panic" THEN "panic" ELSE "QirToQasmError"
        /\ reply'[c].text.is = "message"
    BY <2>1 DEF Reply, Message
  <2>3. CASE rust
    <3>1. Result(call.qir, call.exporter, Ending(call.qir), reply'[c])  BY <1>4, <2>2, <2>3 DEF Result
    <3> QED  BY <2>3, <3>1, DirectPromised
  <2>4. CASE ~rust
    <3>1. Result(call.qir, Facade(call.producer),
                 IF Ending(call.qir) = "panic" THEN "panic" ELSE "QirToQasmError", reply'[c])
      BY <1>4, <2>2, <2>4 DEF Result
    <3> QED  BY <1>1, <2>4, <3>1, DirectPromised
  <2> QED  BY <2>3, <2>4
<1> QED  BY <1>3, <1>4

LEMMA DeliverAnswers ==
  ASSUME Inv, Answers, NEW c \in Callers, Deliver(c)
  PROVE  Promised(Asked(c), reply'[c])
<1>1. reply'[c] = Reply(frame[c].code, frame[c].text) /\ frame[c].at = "read"
  BY DEF Deliver, Finish, Inv, Shape
<1> QED  BY <1>1 DEF Answers, AnswerOK

\* The end of a call is a step of the service, and nothing else is seen of it.
LEMMA EndAnswers ==
  ASSUME Inv, NEW c \in Callers, Ends(c), Deliver(c) \/ Direct(c), Promised(Asked(c), reply'[c])
  PROVE  Service!Next
<1>1. \A d \in Callers \ {c} : reply'[d] = reply[d]  BY DEF Deliver, Direct, Finish, Inv, Shape
<1>2. Service!Answer(c)  BY <1>1 DEF Service!Answer, Ends, Asked
<1> QED  BY <1>2 DEF Service!Next

LEMMA StepAnswers ==
  ASSUME Inv, Answers, NEW c \in Callers, CallStep(c)
  PROVE  Answers' /\ (Service!Next \/ UNCHANGED <<todo, reply>>)
<1>1. ASSUME Touches(c), AnswerOK(frame'[c], Asked(c), heap')
      PROVE  Answers' /\ UNCHANGED <<todo, reply>>
  <2>1. Answers'  BY <1>1, OthersStay
  <2> QED  BY <1>1, <2>1 DEF Touches, OwnStep
<1>2. ASSUME Ends(c), Deliver(c) \/ Direct(c), Promised(Asked(c), reply'[c])
      PROVE  Answers' /\ Service!Next
  BY <1>2, EndedStays, EndAnswers
<1>3. CASE RefuseSlots(c)  BY <1>1, <1>3, RefuseSlotsKeeps, RefuseSlotsAnswers
<1>4. CASE ClearSlots(c)
  <2>1. DOMAIN frame[c] = Fields  BY DEF Inv, Frames, FrameOK
  <2>2. frame'[c].at = "inside"  BY <1>4, <2>1 DEF ClearSlots, Fields, Inv, Shape
  <2> QED  BY <1>1, <1>4, <2>2, ClearSlotsKeeps DEF AnswerOK
<1>5. CASE RefuseNullQir(c) \/ RefuseEncoding(c) \/ RefuseOptions(c)
  <2>1. Touches(c)
    BY <1>5, ReturnErrKeeps DEF RefuseNullQir, RefuseEncoding, RefuseOptions, Errors
  <2> QED  BY <1>1, <1>5, <2>1, RefusalsAnswer
<1>6. CASE Translate(c)  BY <1>1, <1>6, TranslateKeeps, TranslateAnswers
<1>7. CASE Version(c)
  <2>1. Touches(c)  BY <1>7, ReturnOutKeeps DEF Version
  <2> QED  BY <1>1, <1>7, <2>1, VersionAnswers
<1>8. CASE TakeResult(c)  BY <1>1, <1>8, TakeResultKeeps, TakeResultAnswers
<1>9. CASE Free(c, "out") \/ Free(c, "err")  BY <1>1, <1>9, FreeKeeps, FreeAnswers
<1>10. CASE Deliver(c)  BY <1>2, <1>10, DeliverKeeps, DeliverAnswers
<1>11. CASE Direct(c)  BY <1>2, <1>11, DirectKeeps, DirectAnswers
<1> QED  BY <1>3, <1>4, <1>5, <1>6, <1>7, <1>8, <1>9, <1>10, <1>11 DEF CallStep

\* Every answer is the one promised to the call it answers: the library, with its
\* heap, its slots and its threads, implements the service.
THEOREM LibraryImplementsService == Spec => ImplementsService
<1>1. Init => Answers
  <2> SUFFICES ASSUME Init, NEW c \in Callers  PROVE AnswerOK(frame[c], Asked(c), heap)
    BY DEF Answers
  <2>1. frame[c].at = "idle"  BY DEF Init, Idle
  <2> QED  BY <2>1 DEF AnswerOK
<1>2. Init => Service!Init  BY DEF Init, Service!Init
<1>3. ASSUME Inv, Answers, [Next]_vars
      PROVE  Answers' /\ [Service!Next]_<<todo, reply>>
  <2>1. CASE Next  BY <1>3, <2>1, StepAnswers DEF Next
  <2>2. CASE UNCHANGED vars  BY <1>3, <2>2 DEF Answers, vars, Asked
  <2> QED  BY <1>3, <2>1, <2>2
<1>4. Inv /\ Answers /\ [Next]_vars => Answers'  BY <1>3
<1>5. Inv /\ Answers /\ [Next]_vars => [Service!Next]_<<todo, reply>>  BY <1>3
<1>6. Spec => Service!Init /\ [][Service!Next]_<<todo, reply>>
  BY <1>1, <1>2, <1>4, <1>5, InvHolds, PTL DEF Spec
<1> QED  BY <1>6 DEF ImplementsService, Service!Spec
=============================================================================
