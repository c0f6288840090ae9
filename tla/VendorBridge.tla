---------------------------- MODULE VendorBridge ----------------------------
(***************************************************************************)
(* The WebAuthn tunnel over the vendor interface                           *)
(* (src/transport/vendor-bridge.js, createVendorBridgeCtap): a credential  *)
(* ID goes out in indexed frames, an answer comes back in indexed reports. *)
(* okcrypto calls getAssertion inside the transport's lane; this module is *)
(* that call with the lane around it.                                      *)
(*                                                                         *)
(* The key is external: the model takes from the source only that it reads *)
(* frames in order, that it refuses with a text, and that an answer comes  *)
(* when it comes.                                                          *)
(***************************************************************************)
EXTENDS Naturals, Sequences, FiniteSets, SequencesExt

CONSTANTS
  Conv,      (* the getAssertion calls, each made once                     *)
  Frames,    (* frames in a request                                        *)
  Reports    (* reports in an answer                                       *)

ASSUME SizeAssumption == Frames \in Nat \ {0} /\ Reports \in Nat \ {0}

VARIABLES
  running, waiting, phase,   (* the lane, see Lane                         *)
  sent,      (* frames of each call given to transport.write()             *)
  looping,   (* calls whose write loop has not ended                       *)
  pending,   (* vendor-bridge.js `pending`                                 *)
  next,      (* `next`: the report index each call expects                 *)
  heard,     (* whose reports each call has put together                   *)
  outcome,   (* how each call ended                                        *)
  key        (* the key: who wrote the frames it holds, and what it says   *)

lvars == <<running, waiting, phase>>
bvars == <<sent, looping, pending, next, heard, outcome>>
vars == <<lvars, bvars, key>>

L == INSTANCE Lane WITH Urgent <- {}

Outcome == {"none", "answer", "EKEYREFUSED", "order", "ETIMEDOUT", "ECANCELED", "writeError"}

(* A report of an answer worked out from the frames of the calls in `of`,  *)
(* or a refusal in text ("VB order" and its like), which has no index.     *)
Refusal == [index |-> Reports, of |-> {}]
Report == [index : 0 .. Reports - 1, of : SUBSET Conv] \cup {Refusal}

TypeOK ==
  /\ L!TypeOK
  /\ sent \in [Conv -> 0 .. Frames]
  /\ looping \subseteq Conv /\ pending \subseteq Conv
  /\ next \in [Conv -> 0 .. Reports]
  /\ heard \in [Conv -> SUBSET SUBSET Conv]
  /\ outcome \in [Conv -> Outcome]
  /\ key.frames \in Seq(Conv) /\ Len(key.frames) < Frames
  /\ key.says \in Seq(Report)

Init ==
  /\ L!Init
  /\ sent = [c \in Conv |-> 0]
  /\ looping = {} /\ pending = {}
  /\ next = [c \in Conv |-> 0]
  /\ heard = [c \in Conv |-> {}]
  /\ outcome = [c \in Conv |-> "none"]
  /\ key = [frames |-> <<>>, says |-> <<>>]

-----------------------------------------------------------------------------
(* getAssertion: pending, timer and listener first, then the write loop in *)
(* a later microtask.                                                      *)
Begin(c) ==
  /\ pending' = pending \cup {c}
  /\ looping' = looping \cup {c}
  /\ UNCHANGED <<sent, next, heard, outcome, key>>

CallAtOnce(c) ==
  /\ outcome[c] = "none"
  /\ phase[c] = "outside"
  /\ running' = TRUE
  /\ phase' = [phase EXCEPT ![c] = "talking"]
  /\ Begin(c)
  /\ UNCHANGED waiting

Call(c) ==
  /\ outcome[c] = "none"
  /\ \/ L!CallIdle(c) /\ Begin(c)
     \/ L!CallBusy(c) /\ UNCHANGED <<bvars, key>>

Release(c) ==
  /\ L!Release(c)
  /\ IF waiting = <<>> THEN UNCHANGED <<bvars, key>> ELSE Begin(Head(waiting))

(* done(fn, v): the listener off, out of `pending`, the promise settled.   *)
(* The write loop is not told.                                             *)
Done(c, how) ==
  /\ c \in pending
  /\ pending' = pending \ {c}
  /\ outcome' = [outcome EXCEPT ![c] = how]
  /\ L!Settle(c)

(* The key takes frame i of c: index 0 begins a request, another index     *)
(* must be the one it waits for, the last one makes it work out an answer. *)
KeyTakes(c, i) ==
  LET frames == IF i = 0 THEN <<c>> ELSE Append(key.frames, c)
      answer == [r \in 1 .. Reports |-> [index |-> r - 1, of |-> ToSet(frames)]]
  IN IF i # 0 /\ i # Len(key.frames)
       THEN key' = [frames |-> <<>>, says |-> Append(key.says, Refusal)]
       ELSE IF i < Frames - 1
              THEN key' = [key EXCEPT !.frames = frames]
              ELSE \/ key' = [frames |-> <<>>, says |-> key.says \o answer]
                   \/ key' = [frames |-> <<>>, says |-> Append(key.says, Refusal)]

(* for (const f of frames) await transport.write(f): the loop is not asked *)
(* whether its request still waits.                                        *)
WriteFrame(c) ==
  /\ c \in looping
  /\ sent' = [sent EXCEPT ![c] = @ + 1]
  /\ looping' = IF sent[c] + 1 = Frames THEN looping \ {c} ELSE looping
  /\ KeyTakes(c, sent[c])
  /\ UNCHANGED <<lvars, pending, next, heard, outcome>>

(* A write rejects: the loop ends and the request with it, if it is still  *)
(* there.                                                                  *)
WriteFails(c) ==
  /\ c \in looping
  /\ looping' = looping \ {c}
  /\ IF c \in pending THEN Done(c, "writeError")
                      ELSE UNCHANGED <<lvars, pending, outcome>>
  /\ UNCHANGED <<sent, next, heard, key>>

(* The timer runs from the start, written or not.                          *)
Timeout(c) ==
  /\ Done(c, "ETIMEDOUT")
  /\ UNCHANGED <<sent, looping, next, heard, key>>

HearCounts(c, r) ==
  IF r = Refusal
    THEN Done(c, "EKEYREFUSED") /\ UNCHANGED <<next, heard>>
    ELSE /\ next' = [next EXCEPT ![c] = @ + 1]
         /\ heard' = [heard EXCEPT ![c] = @ \cup {r.of}]
         /\ IF next[c] = Reports - 1 THEN Done(c, "answer")
                                     ELSE UNCHANGED <<lvars, pending, outcome>>

(* The report listener of a pending request: a refusal ends it, a report   *)
(* that is not the next ends it, the last one resolves it.                 *)
Hear(c, r) ==
  IF r = Refusal
    THEN Done(c, "EKEYREFUSED") /\ UNCHANGED <<next, heard>>
    ELSE IF r.index # next[c]
      THEN Done(c, "order") /\ UNCHANGED <<next, heard>>
      ELSE /\ next' = [next EXCEPT ![c] = @ + 1]
           /\ heard' = [heard EXCEPT ![c] = @ \cup {r.of}]
           /\ IF r.index = Reports - 1 THEN Done(c, "answer")
                                       ELSE UNCHANGED <<lvars, pending, outcome>>

(* The key's next report arrives: at the request that listens, if any.     *)
KeySays ==
  /\ key.says # <<>>
  /\ key' = [key EXCEPT !.says = Tail(@)]
  /\ IF pending = {}
       THEN UNCHANGED <<lvars, pending, next, heard, outcome>>
       ELSE \E c \in pending : Hear(c, Head(key.says))
  /\ UNCHANGED <<sent, looping>>

CancelForgets ==
  /\ key' = [frames |-> <<>>, says |-> <<>>]
  /\ pending' = {}
  /\ UNCHANGED <<outcome, lvars, sent, looping, next, heard>>

(* cancel(): the key went away.  Every pending request ends now; whatever  *)
(* the key held is gone.                                                   *)
Cancel ==
  /\ key' = [frames |-> <<>>, says |-> <<>>]
  /\ pending' = {}
  /\ outcome' = [c \in Conv |-> IF c \in pending THEN "ECANCELED" ELSE outcome[c]]
  /\ phase' = [c \in Conv |-> IF c \in pending THEN "settled" ELSE phase[c]]
  /\ UNCHANGED <<running, waiting, sent, looping, next, heard>>

Next ==
  \/ \E c \in Conv :
       Call(c) \/ Release(c) \/ WriteFrame(c) \/ WriteFails(c) \/ Timeout(c)
  \/ KeySays \/ Cancel

(* Timers fire and the event loop runs promise jobs; the key owes nothing. *)
Fairness == \A c \in Conv : WF_vars(Release(c)) /\ WF_vars(Timeout(c))

Spec == Init /\ [][Next]_vars /\ Fairness

-----------------------------------------------------------------------------
(* getAssertion keeps the lane's contract: it lets go of the lane exactly  *)
(* once, whatever the key says and whenever cancel() comes.                *)
IsALane == L!Spec

(* Who is pending is who talks: cancel() ends every request that waits,    *)
(* and none is left in `pending` (its promise would never settle).         *)
PendingTalks == TypeOK /\ pending = {c \in Conv : phase[c] = "talking"}

(* "another conversation's report cannot be here (the lane)"               *)
(* (vendor-bridge.js:97): a request hears no report of another's, nor of   *)
(* frames mixed with another's, unless one was given up before.            *)
GivenUp == \E c \in Conv : outcome[c] \notin {"none", "answer", "EKEYREFUSED"}

OwnUntilGivenUp == ~GivenUp => \A c \in Conv : \A of \in heard[c] : of = {c}

(* An answer is one answer: it is never put together from the reports of   *)
(* two, however many requests were given up before it, until one was it is *)
(* the call's own, and no promise is left that nobody will settle.         *)
AnswerIsOne ==
  /\ PendingTalks
  /\ \A c \in Conv : outcome[c] = "answer" => Cardinality(heard[c]) = 1 /\ next[c] = Reports
  /\ OwnUntilGivenUp

(* The lane "holds one CONVERSATION: from the first write until its answer *)
(* is in" (lane.js:20-21): no frame goes out for a call that is not the    *)
(* one in the lane.                                                        *)
FramesInLane ==
  [][\A c \in Conv : sent'[c] # sent[c] => phase[c] \in {"talking", "settled"}]_vars
=============================================================================
