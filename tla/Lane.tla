-------------------------------- MODULE Lane --------------------------------
(***************************************************************************)
(* The one lane a transport has (src/transport/lane.js): conversations     *)
(* with the key run one at a time, in the order they asked, except that an *)
(* urgent one (a Hold, a Revoke) goes in front of those that only wait.    *)
(*                                                                         *)
(* A conversation is a caller and the function it hands to the lane.  What *)
(* the function does is not looked at here: it starts, and later its       *)
(* promise settles.  PipeTransport and the modules above it say what       *)
(* happens in between.                                                     *)
(***************************************************************************)
EXTENDS Naturals, Sequences, FiniteSets, SequencesExt

CONSTANTS
  Conv,      (* the callers: each has at most one conversation at a time  *)
  Urgent     (* those that call with {urgent: true}                       *)

ASSUME UrgentAssumption == Urgent \subseteq Conv

VARIABLES
  running,   (* lane.js `running`                                         *)
  waiting,   (* lane.js `waiting`, first to start first                   *)
  phase      (* where each caller is                                      *)

vars == <<running, waiting, phase>>

Phase == {"outside", "waiting", "talking", "settled"}

TypeOK ==
  /\ running \in BOOLEAN
  /\ waiting \in Seq(Conv)
  /\ phase \in [Conv -> Phase]

Init ==
  /\ running = FALSE
  /\ waiting = <<>>
  /\ phase = [c \in Conv |-> "outside"]

(* `while (at < waiting.length && waiting[at].urgent) at += 1`: how many   *)
(* urgent items stand at the front.                                        *)
UrgentFront(s) ==
  CHOOSE k \in 0 .. Len(s) :
    /\ \A i \in 1 .. k : s[i] \in Urgent
    /\ k < Len(s) => s[k + 1] \notin Urgent

(* Mutants: plausible mistakes in the definition that follows them, which  *)
(* the properties of this module tell from the code.                       *)
QueueAtEnd(s, c) == Append(s, c)
QueueOnTop(s, c) == <<c>> \o s

(* Where a busy lane puts c: behind earlier urgent ones, or at the end.    *)
Queue(s, c) ==
  IF c \in Urgent THEN InsertAt(s, UrgentFront(s) + 1, c) ELSE Append(s, c)

(* lane(fn, opts): an idle lane starts fn in the same tick.                *)
CallIdle(c) ==
  /\ phase[c] = "outside"
  /\ ~running
  /\ running' = TRUE
  /\ phase' = [phase EXCEPT ![c] = "talking"]
  /\ UNCHANGED waiting

(* lane(fn, opts) while another conversation holds the lane.               *)
CallBusy(c) ==
  /\ phase[c] = "outside"
  /\ running
  /\ waiting' = Queue(waiting, c)
  /\ phase' = [phase EXCEPT ![c] = "waiting"]
  /\ UNCHANGED running

(* fn's promise resolves or rejects (fn throwing at once included).  The   *)
(* lane hears of it in a later microtask: until then it is still running.  *)
Settle(c) ==
  /\ phase[c] = "talking"
  /\ phase' = [phase EXCEPT ![c] = "settled"]
  /\ UNCHANGED <<running, waiting>>

ReleaseNewest(c) ==
  /\ phase[c] = "settled"
  /\ IF waiting = <<>>
       THEN /\ running' = FALSE
            /\ phase' = [phase EXCEPT ![c] = "outside"]
            /\ UNCHANGED waiting
       ELSE /\ waiting' = Front(waiting)
            /\ phase' = [phase EXCEPT ![c] = "outside", ![Last(waiting)] = "talking"]
            /\ UNCHANGED running

(* run.then(item.resolve, item.reject); run.then(next, next): the caller   *)
(* has its result, and the head of the queue starts before the caller's    *)
(* own continuation can call the lane again.                               *)
Release(c) ==
  /\ phase[c] = "settled"
  /\ \/ /\ waiting = <<>>
        /\ running' = FALSE
        /\ phase' = [phase EXCEPT ![c] = "outside"]
        /\ UNCHANGED waiting
     \/ /\ waiting # <<>>
        /\ waiting' = Tail(waiting)
        /\ phase' = [phase EXCEPT ![c] = "outside", ![Head(waiting)] = "talking"]
        /\ UNCHANGED running

Next == \E c \in Conv : CallIdle(c) \/ CallBusy(c) \/ Settle(c) \/ Release(c)

(* A conversation ends: each carries a timer of its own.  The promise jobs *)
(* are run by the host's event loop.                                       *)
Fairness == \A c \in Conv : WF_vars(Settle(c)) /\ WF_vars(Release(c))

Spec == Init /\ [][Next]_vars /\ Fairness

-----------------------------------------------------------------------------
InLane(c) == phase[c] \in {"talking", "settled"}

(* ONE conversation with the key at a time (lane.js, the module comment).  *)
OneConversation == \A c, d \in Conv : InLane(c) /\ InLane(d) => c = d

(* The flag tells the truth: it is TRUE exactly while a conversation has   *)
(* not been released, so nothing ever waits for a lane nobody holds.       *)
RunningIsHeld == running <=> \E c \in Conv : InLane(c)

(* The queue holds exactly the waiting callers, each once: no call is lost *)
(* and none would be started twice.                                        *)
QueueIsWaiting ==
  /\ \A c \in Conv : phase[c] = "waiting" <=> \E i \in 1 .. Len(waiting) : waiting[i] = c
  /\ \A i, j \in 1 .. Len(waiting) : waiting[i] = waiting[j] => i = j
  /\ waiting # <<>> => running

(* No ordinary conversation stands in front of an urgent one.              *)
UrgentFirst ==
  \A i, j \in 1 .. Len(waiting) :
    i < j /\ waiting[j] \in Urgent => waiting[i] \in Urgent

(* All of it: the lane is the mutual exclusion and the order of its users. *)
LaneInv == OneConversation /\ RunningIsHeld /\ QueueIsWaiting /\ UrgentFirst

(* The contract, with the holder read from the phases and the order of     *)
(* service from the places in the queue.                                   *)
Holding == {c \in Conv : InLane(c)}

Before ==
  [c \in {waiting[i] : i \in 1 .. Len(waiting)} |->
     {waiting[j] : j \in {k \in 1 .. Len(waiting) :
                           \A i \in 1 .. k : waiting[i] # c}}]

Contract == INSTANCE LaneContract WITH holding <- Holding, before <- Before

(* laneOf() implements the contract, the hand-over that always comes       *)
(* included: the array, its splice and its shift are one way to keep it.   *)
KeepsContract == Contract!ContractSpec

(* An urgent caller waits only for urgent ones before it and for the one   *)
(* conversation that already runs: it is served however often the others   *)
(* call.  An ordinary one is served unless urgent ones never stop waiting. *)
UrgentServed == \A c \in Urgent : phase[c] = "waiting" ~> phase[c] = "talking"

OrdinaryServed ==
  \A c \in Conv \ Urgent :
    <>[](\A u \in Urgent : phase[u] # "waiting")
      => (phase[c] = "waiting" ~> phase[c] = "talking")

(* Nobody waits for ever: an urgent caller because of the order of the     *)
(* queue (lane.js 72-75), an ordinary one once the urgent ones let it.     *)
Served == UrgentServed /\ OrdinaryServed
=============================================================================
