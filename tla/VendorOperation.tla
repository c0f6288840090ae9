--------------------------- MODULE VendorOperation ---------------------------
(* A signature or a decryption over the vendor interface                   *)
(* (plugins/okcrypto/index.js, deviceOperation and what it calls): the host *)
(* may be asked first, a request a budget pays is announced, the packets go *)
(* out in the lane, someone presses, and the next report is the answer.    *)
(* "Error device locked" is waited out once.                               *)
(*                                                                         *)
(* The key is external: what it does is what the comments of               *)
(* deviceOperationBusyAware and settleStaleTimers say of it.               *)
EXTENDS Naturals, Sequences

CONSTANTS
  Ops,        (* the operations, each called once                          *)
  PaidOps,    (* those whose caller says a budget pays: no press is said   *)
  BudgetOps,  (* those the login's hook would have a budget pay            *)
  AskedOps,   (* those whose caller hands a confirm()                      *)
  LongOps,    (* those that expect an answer of two reports, not one       *)
  Packets     (* packets in a request                                      *)

ASSUME OpAssumption ==
  /\ PaidOps \subseteq Ops /\ BudgetOps \subseteq Ops
  /\ AskedOps \subseteq Ops /\ LongOps \subseteq Ops
  /\ Packets \in Nat \ {0}

VARIABLES
  stage,      (* how far each call is                                      *)
  announced,  (* those the key took the announcement of                    *)
  opLane,     (* the calls in the lane, its holder first                   *)
  try,        (* the holder's attempt: 1, or 2 after a wait                *)
  out,        (* packets the attempt has written                           *)
  listens,    (* its listener is on the transport                          *)
  clock,      (* its timer runs                                            *)
  answer,     (* how its promise stands                                    *)
  parts,      (* the reports it has put together                           *)
  took,       (* what each call resolved with                              *)
  sheet,      (* presses said 'asked' and not yet 'done'                   *)
  okey,       (* the key                                                   *)
  onAir,      (* reports on their way                                      *)
  old,        (* the firmware leaves its timers running (staleFadeGuard)   *)
  left        (* an attempt ended before the key was done with it          *)

opVars == <<stage, announced, opLane, try, out, listens, clock, answer, parts, took,
            sheet, okey, onAir, old, left>>

Over == {"ok", "notAllowed", "locked", "timeout", "noResponse", "writeError", "threw", "notFiled"}
Stages == {"new", "queued", "settling", "sending", "confirming", "waiting", "resting", "filing"} \cup Over

Holder == Head(opLane)
At(where) == opLane # <<>> /\ stage[Holder] = where

(* The run of an announced request is given no confirm().                  *)
Confirms(o) == o \in AskedOps \ announced
Size(o) == IF o \in LongOps THEN 2 ELSE 1

(* A report of an answer to the packets in `of`, or a sentence.            *)
Parts(request, o) == [i \in 1 .. Size(o) |-> [kind |-> "part", of |-> request, i |-> i]]
Sentence(kind) == [kind |-> kind, of |-> <<>>, i |-> 0]
Request(o, n) == [i \in 1 .. Packets |-> <<o, n, i>>]

OpInit ==
  /\ stage = [o \in Ops |-> "new"] /\ announced = {} /\ opLane = <<>>
  /\ try = 1 /\ out = 0 /\ listens = FALSE /\ clock = FALSE
  /\ answer = "pending" /\ parts = <<>>
  /\ took = [o \in Ops |-> <<>>] /\ sheet = 0
  /\ okey = [state |-> "idle", got |-> <<>>, timers |-> "off", deaf |-> FALSE]
  /\ onAir = <<>> /\ old \in BOOLEAN /\ left = FALSE

Goes(where) == stage' = [stage EXCEPT ![Holder] = where]

-----------------------------------------------------------------------------
(* beforePress(), where the host has one and nobody said paid; then the     *)
(* hook, whose announcement the key may not take; then the lane.           *)
NotAllowed(o) ==
  /\ stage[o] = "new" /\ o \notin PaidOps
  /\ stage' = [stage EXCEPT ![o] = "notAllowed"]
  /\ UNCHANGED <<announced, opLane, try, out, listens, clock, answer, parts, took, sheet, okey, onAir, old, left>>

CallOp(o) ==
  /\ stage[o] = "new"
  /\ stage' = [stage EXCEPT ![o] = "queued"] /\ opLane' = Append(opLane, o)
  /\ announced' \in {announced, announced \cup ({o} \cap BudgetOps)}
  /\ UNCHANGED <<try, out, listens, clock, answer, parts, took, sheet, okey, onAir, old, left>>

(* deviceOperationNow: the listener and the timer before anything else.    *)
Attempt(n) ==
  /\ Goes("settling")
  /\ try' = n /\ out' = 0 /\ listens' = TRUE /\ clock' = TRUE
  /\ answer' = "pending" /\ parts' = <<>>
  /\ UNCHANGED <<announced, opLane, took, sheet, okey, onAir, old, left>>

TakeTurn == At("queued") /\ Attempt(1)

(* The time since the last answer that came is past the key's timers.      *)
Settles == old => okey.timers # "known"

Settle ==
  /\ At("settling") /\ Settles
  /\ Goes("sending")
  /\ UNCHANGED <<announced, opLane, try, out, listens, clock, answer, parts, took, sheet, okey, onAir, old, left>>

(* A packet reaches the key; the last one, by its header, makes a request. *)
KeyHolds(packet, final) ==
  IF okey.state # "idle" THEN /\ onAir' = Append(onAir, Sentence("locked"))
                              /\ UNCHANGED okey
  ELSE /\ okey' = [okey EXCEPT !.got = Append(@, packet),
                               !.state = IF final THEN "asked" ELSE @,
                               !.deaf = final /\ old /\ okey.timers # "off"]
       /\ UNCHANGED onAir

(* sendSlotStream; after the last packet the challenge is said, and a      *)
(* press asked for.                                                        *)
SendPacket ==
  /\ At("sending")
  /\ out' = out + 1
  /\ KeyHolds(<<Holder, try, out'>>, out' = Packets)
  /\ IF out' < Packets THEN UNCHANGED <<stage, sheet>>
     ELSE /\ Goes(IF Confirms(Holder) THEN "confirming" ELSE "waiting")
          /\ sheet' = sheet + (IF Holder \in PaidOps THEN 0 ELSE 1)
  /\ UNCHANGED <<announced, opLane, try, listens, clock, answer, parts, took, old, left>>

(* What an attempt may leave behind it.                                    *)
KeyNotDone ==
  okey.state = "asked" \/ okey.got # <<>> \/ onAir # <<>> \/ (old /\ okey.timers = "unknown")

(* The attempt's locals go with it; a timer that still runs (confirm()     *)
(* threw) rejects a promise nobody awaits.                                 *)
LocalsGo ==
  /\ opLane' = Tail(opLane)
  /\ try' = 1 /\ out' = 0 /\ parts' = <<>>
  /\ listens' = FALSE /\ clock' = FALSE /\ answer' = "pending"

(* The attempt ends, and with it the turn.                                 *)
Ends(how) ==
  /\ stage' = [stage EXCEPT ![Holder] = how]
  /\ LocalsGo
  /\ left' = (left \/ KeyNotDone)
  /\ UNCHANGED <<announced, onAir, old>>

(* A write that fails takes the listener and the timer down with it.       *)
WriteRefused ==
  /\ At("sending")
  /\ Ends("writeError")
  /\ UNCHANGED <<took, sheet, okey>>

ClockUnhears ==
  /\ clock /\ clock' = FALSE
  /\ listens' = FALSE
  /\ UNCHANGED <<stage, announced, opLane, try, out, answer, parts, took, sheet, okey, onAir, old, left>>

(* The timer: it may run out before the last packet is written.            *)
ClockRunsOut ==
  /\ clock /\ clock' = FALSE
  /\ listens' = FALSE
  /\ answer' = IF listens THEN "noResponse" ELSE answer
  /\ UNCHANGED <<stage, announced, opLane, try, out, parts, took, sheet, okey, onAir, old, left>>

(* 'report': sentences are recognised before the first byte only.          *)
HearReport ==
  /\ onAir # <<>> /\ onAir' = Tail(onAir)
  /\ LET report == Head(onAir)
     IN  \/ ~listens /\ UNCHANGED <<listens, clock, answer, parts>>
         \/ /\ listens /\ parts = <<>> /\ report.kind # "part"
            /\ listens' = FALSE /\ clock' = FALSE /\ answer' = report.kind
            /\ UNCHANGED parts
         \/ /\ listens /\ (parts # <<>> \/ report.kind = "part")
            /\ parts' = Append(parts, report)
            /\ IF Len(parts') < Size(Holder) THEN UNCHANGED <<listens, clock, answer>>
               ELSE listens' = FALSE /\ clock' = FALSE /\ answer' = "ok"
  /\ UNCHANGED <<stage, announced, opLane, try, out, took, sheet, okey, old, left>>

(* confirm() comes back, or throws, whatever has been heard by then.       *)
ConfirmReturns ==
  /\ At("confirming")
  /\ Goes("waiting")
  /\ UNCHANGED <<announced, opLane, try, out, listens, clock, answer, parts, took, sheet, okey, onAir, old, left>>

Said == IF Holder \in PaidOps THEN sheet ELSE sheet - 1

ConfirmThrowsUnsaid ==
  /\ At("confirming")
  /\ Ends("threw")
  /\ UNCHANGED <<took, sheet, okey>>

ConfirmThrows ==
  /\ At("confirming")
  /\ Ends("threw")
  /\ sheet' = Said
  /\ UNCHANGED <<took, okey>>

(* The timers that run now are over after the wait that follows.           *)
Recorded == IF okey.timers = "off" THEN okey ELSE [okey EXCEPT !.timers = "known"]

(* The answer is in: when it came is remembered, the lane is let go; a use *)
(* that was announced is filed after.                                      *)
Answered ==
  /\ At("waiting") /\ answer = "ok"
  /\ stage' = [stage EXCEPT ![Holder] = IF Holder \in announced THEN "filing" ELSE "ok"]
  /\ LocalsGo
  /\ took' = [took EXCEPT ![Holder] = parts]
  /\ okey' = Recorded
  /\ sheet' = Said
  /\ UNCHANGED <<announced, onAir, old, left>>

(* It is refused, or never came.                                           *)
Refused ==
  /\ At("waiting") /\ answer \in {"locked", "timeout", "noResponse"}
  /\ ~(answer = "locked" /\ try = 1)
  /\ Ends(answer)
  /\ sheet' = Said
  /\ UNCHANGED <<took, okey>>

(* "Error device locked", the first time.                                  *)
Busy ==
  /\ At("waiting") /\ answer = "locked" /\ try = 1
  /\ Goes("resting")
  /\ sheet' = Said
  /\ left' = (left \/ okey.state = "asked" \/ okey.got # <<>>)
  /\ okey' = Recorded
  /\ UNCHANGED <<announced, opLane, try, out, listens, clock, answer, parts, took, onAir, old>>

RestedAtOnce == TRUE

(* CRYPTO_BUSY_WAIT_MS is longer than the key's wipe and the timers that   *)
(* ran when it began, and than any report takes.                           *)
Rested == okey.state # "gaveUp" /\ okey.timers # "known" /\ onAir = <<>>

TryAgain == At("resting") /\ Rested /\ Attempt(2)

(* after(): the receipt is filed, or the answered call rejects.            *)
FileUse(o) ==
  /\ stage[o] = "filing"
  /\ \E how \in {"ok", "notFiled"} : stage' = [stage EXCEPT ![o] = how]
  /\ UNCHANGED <<announced, opLane, try, out, listens, clock, answer, parts, took, sheet, okey, onAir, old, left>>

-----------------------------------------------------------------------------
(* The key: pressed (or paid) it answers the request it holds, and arms its *)
(* timers.                                                                 *)
KeyDoes(what, says) ==
  /\ okey' = what
  /\ onAir' = onAir \o says
  /\ UNCHANGED <<stage, announced, opLane, try, out, listens, clock, answer, parts, took, sheet, old, left>>

KeyAnswers ==
  /\ okey.state = "asked" /\ ~okey.deaf
  /\ KeyDoes([okey EXCEPT !.state = "idle", !.got = <<>>, !.timers = "unknown"],
             Parts(okey.got, okey.got[Len(okey.got)][1]))

(* Nobody presses for 20 s: it says so, and stays busy until its wipe.     *)
KeyGivesUp ==
  /\ okey.state = "asked" /\ ~okey.deaf
  /\ KeyDoes([okey EXCEPT !.state = "gaveUp", !.got = <<>>], <<Sentence("timeout")>>)

KeyWipes ==
  /\ okey.state = "gaveUp"
  /\ KeyDoes([okey EXCEPT !.state = "idle"], <<>>)

(* Its timers run out; in a request's window they take the presses with    *)
(* them, and it says nothing.                                              *)
KeyTimersEnd ==
  /\ okey.timers # "off" \/ okey.deaf
  /\ KeyDoes(IF okey.deaf THEN [okey EXCEPT !.state = "idle", !.got = <<>>, !.timers = "off", !.deaf = FALSE]
             ELSE [okey EXCEPT !.timers = "off"], <<>>)

(* A request whose rest never comes may be forgotten.                      *)
KeyForgets ==
  /\ okey.state = "idle" /\ okey.got # <<>> /\ ~At("sending")
  /\ KeyDoes([okey EXCEPT !.got = <<>>], <<>>)

-----------------------------------------------------------------------------
HostGoesOn ==
  \/ TakeTurn \/ Settle \/ SendPacket \/ ClockRunsOut \/ HearReport \/ ConfirmReturns
  \/ Answered \/ Refused \/ Busy \/ TryAgain \/ \E o \in Ops : FileUse(o)

OpNext ==
  \/ \E o \in Ops : NotAllowed(o) \/ CallOp(o)
  \/ HostGoesOn \/ WriteRefused \/ ConfirmThrows
  \/ KeyAnswers \/ KeyGivesUp \/ KeyWipes \/ KeyTimersEnd \/ KeyForgets

(* The host's waits end, a confirm() among them, and so do the key's timers; *)
(* nobody need press.                                                      *)
OpOnward == HostGoesOn \/ KeyWipes \/ KeyTimersEnd

OpSpec == OpInit /\ [][OpNext]_opVars /\ WF_opVars(OpOnward)

-----------------------------------------------------------------------------
(* Properties.                                                             *)
OpTypeOK ==
  /\ stage \in [Ops -> Stages] /\ try \in {1, 2} /\ out \in 0 .. Packets
  /\ answer \in {"pending", "ok", "locked", "timeout", "noResponse"}
  /\ listens => clock /\ answer = "pending"
  /\ okey.state \in {"idle", "asked", "gaveUp"} /\ okey.timers \in {"off", "known", "unknown"}

(* A press said 'asked' is said 'done', by whatever way the call ends, and *)
(* one at most is asked at a time.                                         *)
SheetIsPutAway ==
  /\ sheet \in {0, 1}
  /\ (\A i \in DOMAIN opLane : stage[opLane[i]] = "queued") => sheet = 0

(* Until an attempt is given up with the key still at it (its timer ran    *)
(* out, a write failed, confirm() threw, a wipe fell between two packets), *)
(* every call that resolves has the answer to the whole of its request and *)
(* to nothing else; none is told the key is locked because of the 5-second *)
(* wipe; and old firmware never takes a press for one of its own timers.   *)
AnswersItsRequest ==
  /\ OpTypeOK
  /\ ~left =>
       /\ \A o \in Ops : stage[o] \in {"ok", "filing"} =>
            \E n \in {1, 2} : took[o] = Parts(Request(o, n), o)
       /\ \A o \in Ops : stage[o] # "locked"
       /\ ~okey.deaf

(* Every call ends, and lets the lane go.                                  *)
OperationsEnd ==
  []<>(opLane = <<>> /\ \A o \in Ops : stage[o] \in {"new"} \cup Over)
=============================================================================
