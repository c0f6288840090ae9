---------------------------- MODULE PipeTransport ----------------------------
(***************************************************************************)
(* One request at a time over a byte pipe (src/transport/pipeTransport.js, *)
(* request and requestNow), in the transport's lane, against a key that    *)
(* answers each write at most once, in order, when it likes, and that      *)
(* emits status broadcasts nobody asked for.                               *)
(*                                                                         *)
(* A reply carries no request id: a request that is given up (its timer    *)
(* ran out, its write failed after the bytes had left) leaves an answer    *)
(* behind, and whoever listens next takes it.  `result` says whose answer  *)
(* a request resolved with.                                                *)
(***************************************************************************)
EXTENDS Naturals, Sequences, FiniteSets

CONSTANTS
  Conv,       (* the requests, each made once                              *)
  Fido,       (* the requests on the FIDO interface; the rest are vendor   *)
  Matching    (* those that pass `match` and so refuse a broadcast         *)

ASSUME RequestAssumption == Fido \subseteq Conv /\ Matching \subseteq Conv

VARIABLES
  running, waiting, phase,   (* the lane, see Lane                         *)
  subscribed,  (* onStream is attached to the pipe                         *)
  up,          (* pipe.isRunning()                                         *)
  writing,     (* requests whose pipe.write() has not settled              *)
  taken,       (* requests whose bytes reached the key                     *)
  owed,        (* requests the key has still to answer, in order           *)
  listening,   (* requests whose `listening` is true                       *)
  armed,       (* requests whose reply timer runs                          *)
  result       (* how each request ended                                   *)

lvars == <<running, waiting, phase>>
pvars == <<subscribed, up, writing, taken, owed, listening, armed, result>>
vars == <<lvars, pvars>>

(* request() hands the lane no options: no request is urgent.              *)
L == INSTANCE Lane WITH Urgent <- {}

Result == {"none", "own", "late", "swapped", "crossed", "broadcast", "noReply", "writeError"}

TypeOK ==
  /\ L!TypeOK
  /\ subscribed \in BOOLEAN /\ up \in BOOLEAN
  /\ writing \subseteq Conv /\ taken \subseteq Conv
  /\ owed \in Seq(Conv)
  /\ listening \subseteq Conv /\ armed \subseteq Conv
  /\ result \in [Conv -> Result]

Init ==
  /\ L!Init
  /\ subscribed = TRUE /\ up = FALSE
  /\ writing = {} /\ taken = {} /\ owed = <<>>
  /\ listening = {} /\ armed = {}
  /\ result = [c \in Conv |-> "none"]

SameInterface(c, d) == c \in Fido <=> d \in Fido

-----------------------------------------------------------------------------
(* requestNow: subscribed before the write, and no timer yet.              *)
Issue(c) ==
  /\ listening' = listening \cup {c}
  /\ writing' = writing \cup {c}
  /\ UNCHANGED <<subscribed, up, taken, owed, armed, result>>

CallAtOnce(c) ==
  /\ result[c] = "none"
  /\ phase[c] = "outside"
  /\ phase' = [phase EXCEPT ![c] = "talking"]
  /\ running' = TRUE
  /\ UNCHANGED waiting
  /\ Issue(c)

(* request(opts): an idle lane issues it in the same tick.                 *)
Call(c) ==
  /\ result[c] = "none"
  /\ \/ L!CallIdle(c) /\ Issue(c)
     \/ L!CallBusy(c) /\ UNCHANGED pvars

(* The lane gives the promise its result and issues the next request.      *)
Release(c) ==
  /\ L!Release(c)
  /\ IF waiting = <<>> THEN UNCHANGED pvars ELSE Issue(Head(waiting))

(* The bytes reach the key: they may, long before the pipe says so.        *)
KeyTakes(c) ==
  /\ up
  /\ c \in writing \ taken
  /\ taken' = taken \cup {c}
  /\ owed' = Append(owed, c)
  /\ UNCHANGED <<lvars, subscribed, up, writing, listening, armed, result>>

ArmAlways(c) == armed \cup {c}
(* arm(): the clock starts when the write is out, unless the answer has    *)
(* already come.                                                           *)
Arm(c) == IF c \in listening THEN armed \cup {c} ELSE armed

WriteDone(c) ==
  /\ c \in writing \cap taken
  /\ writing' = writing \ {c}
  /\ armed' = Arm(c)
  /\ UNCHANGED <<lvars, subscribed, up, taken, owed, listening, result>>

(* The write rejects, its bytes gone or not: off(), reject(err).  A        *)
(* request that was answered meanwhile is not changed by it.               *)
WriteFails(c) ==
  /\ c \in writing
  /\ writing' = writing \ {c}
  /\ listening' = listening \ {c}
  /\ IF c \in listening
       THEN L!Settle(c) /\ result' = [result EXCEPT ![c] = "writeError"]
       ELSE UNCHANGED <<lvars, result>>
  /\ UNCHANGED <<subscribed, up, taken, owed, armed>>

TimeoutUnheard(c) ==
  /\ c \in armed
  /\ armed' = armed \ {c}
  /\ listening' = listening \ {c}
  /\ UNCHANGED <<lvars, result, subscribed, up, writing, taken, owed>>

(* The reply timer fires.                                                  *)
Timeout(c) ==
  /\ c \in armed
  /\ armed' = armed \ {c}
  /\ listening' = listening \ {c}
  /\ L!Settle(c)
  /\ result' = [result EXCEPT ![c] = "noReply"]
  /\ UNCHANGED <<subscribed, up, writing, taken, owed>>

-----------------------------------------------------------------------------
(* Whose report c resolved with, when it is the answer to d.               *)
Whose(c, d) ==
  IF d = c THEN "own"
  ELSE IF ~SameInterface(c, d) THEN "crossed"
  ELSE IF result[d] = "none" THEN "swapped" ELSE "late"

(* onReport resolves every request in S: clearTimeout, off, resolve.       *)
Resolve(S, how) ==
  /\ listening' = listening \ S
  /\ armed' = armed \ S
  /\ result' = [c \in Conv |-> IF c \in S THEN how[c] ELSE result[c]]
  /\ phase' = [c \in Conv |-> IF c \in S THEN "settled" ELSE phase[c]]
  /\ UNCHANGED <<running, waiting, subscribed, up, writing, taken>>

HearersOnAny(d) == IF subscribed THEN listening ELSE {}

(* onStream emits 'report' to the listeners; each filters by interface.    *)
Hearers(d) == IF subscribed THEN {c \in listening : SameInterface(c, d)} ELSE {}

(* The key answers the oldest request it still owes an answer.             *)
Answer ==
  /\ up /\ owed # <<>>
  /\ owed' = Tail(owed)
  /\ Resolve(Hearers(Head(owed)), [c \in Conv |-> Whose(c, Head(owed))])

(* It never will answer that one.                                          *)
KeyIgnores ==
  /\ up /\ owed # <<>>
  /\ owed' = Tail(owed)
  /\ UNCHANGED <<lvars, subscribed, up, writing, taken, listening, armed, result>>

(* A locked key says its status every second, on the vendor interface.     *)
BroadcastHearers == IF subscribed THEN listening \ (Fido \cup Matching) ELSE {}

Broadcast ==
  /\ up
  /\ Resolve(BroadcastHearers, [c \in Conv |-> "broadcast"])
  /\ UNCHANGED owed

(* open() and close(): a key that is stopped forgets what it owed.         *)
Open ==
  /\ ~up
  /\ up' = TRUE
  /\ UNCHANGED <<lvars, subscribed, writing, taken, owed, listening, armed, result>>

Close ==
  /\ up
  /\ up' = FALSE
  /\ owed' = <<>>
  /\ UNCHANGED <<lvars, subscribed, writing, taken, listening, armed, result>>

(* destroy(): unsubscribe, drop the listeners, close.                      *)
Destroy ==
  /\ subscribed
  /\ subscribed' = FALSE
  /\ up' = FALSE
  /\ owed' = <<>>
  /\ UNCHANGED <<lvars, writing, taken, listening, armed, result>>

Next ==
  \/ \E c \in Conv :
       \/ Call(c) \/ Release(c)
       \/ KeyTakes(c) \/ WriteDone(c) \/ WriteFails(c) \/ Timeout(c)
  \/ Answer \/ KeyIgnores \/ Broadcast
  \/ Open \/ Close \/ Destroy

(* The pipe settles every write, one way or the other, and timers fire.    *)
(* Nothing is assumed of the key.                                          *)
Fairness ==
  \A c \in Conv :
    /\ WF_vars(Release(c))
    /\ WF_vars(WriteDone(c) \/ WriteFails(c))
    /\ WF_vars(Timeout(c))

Spec == Init /\ [][Next]_vars /\ Fairness

-----------------------------------------------------------------------------
(* The lane's contract holds of real requests: each step is a step of the  *)
(* lane or leaves it alone, and the timers give the lane what it assumes,  *)
(* that whoever holds it lets go (lane.js; pipeTransport.js 196-243).  So  *)
(* every request ends, even when the transport is destroyed under it.      *)
IsALane == L!Spec

(* A request never takes the answer of one that still waits for it, nor    *)
(* one of another interface; a matched one takes no broadcast.  This is    *)
(* what the lane and the filters are for: without ids, a reply is          *)
(* "whatever comes next".                                                  *)
NoSwap ==
  \A c \in Conv :
    /\ result[c] \notin {"swapped", "crossed"}
    /\ result[c] = "broadcast" => c \notin Matching

Abandoned == {c \in Conv : result[c] \in {"noReply", "writeError", "broadcast"}}

(* Answers slip by one only after a request was given up or was satisfied  *)
(* by a broadcast: until then every request has its own answer.  Not even  *)
(* then is one swapped with another that still waits.                      *)
SlipNeedsACause ==
  /\ NoSwap
  /\ Abandoned = {} => \A c \in Conv : result[c] \in {"none", "own"}

(* Nothing outlives a request: it listens exactly while it talks, and its  *)
(* timer runs only then and only once the write is out.                    *)
NothingLeftBehind ==
  /\ TypeOK
  /\ \A c \in Conv : c \in listening <=> phase[c] = "talking"
  /\ armed \subseteq listening \ writing
=============================================================================
