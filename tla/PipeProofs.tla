----------------------------- MODULE PipeProofs -----------------------------
(***************************************************************************)
(* Theorems about requests over a byte pipe: a reply goes to whoever is    *)
(* next, and yet to nobody it was not meant for until a request was given  *)
(* up.                                                                     *)
(*                                                                         *)
(* The key owes answers to requests whose bytes it took, each once.  Of    *)
(* those only the one in the lane still waits; the others ended before     *)
(* their answer came, which is what it is to be given up.                  *)
(***************************************************************************)
EXTENDS PipeTransport, BleRoom, SequenceTheorems, TLAPS

-----------------------------------------------------------------------------
(* The lane inside the transport: what LaneProofs says of any lane, of one *)
(* with nobody urgent.                                                     *)
LP == INSTANCE LaneProofs WITH Urgent <- {}

LaneOK == L!TypeOK /\ L!LaneInv

(* The two names of each formula are one formula.                          *)
LEMMA SameLane ==
  /\ L!TypeOK <=> LP!TypeOK
  /\ L!LaneInv <=> LP!LaneInv
  /\ L!Init <=> LP!Init
  /\ [L!Next]_lvars => [LP!Next]_(LP!vars)
<1>1. L!TypeOK <=> LP!TypeOK
  BY DEF L!TypeOK, LP!TypeOK, L!Phase, LP!Phase
<1>2. L!LaneInv <=> LP!LaneInv
  BY DEF L!LaneInv, LP!LaneInv, L!OneConversation, LP!OneConversation, L!RunningIsHeld,
         LP!RunningIsHeld, L!QueueIsWaiting, LP!QueueIsWaiting, L!UrgentFirst, LP!UrgentFirst,
         L!InLane, LP!InLane
<1>3. L!Init <=> LP!Init
  BY DEF L!Init, LP!Init
<1>4. [L!Next]_lvars => [LP!Next]_(LP!vars)
  BY DEF L!Next, L!CallIdle, L!CallBusy, L!Settle, L!Release, L!Queue, lvars,
         LP!Next, LP!CallIdle, LP!CallBusy, LP!Settle, LP!Release, LP!Queue, LP!vars
<1>5. QED BY <1>1, <1>2, <1>3, <1>4

(* And so they are after a step.                                           *)
LEMMA SameLaneNext == LaneOK' <=> (LP!TypeOK /\ LP!LaneInv)'
BY DEF LaneOK, L!TypeOK, LP!TypeOK, L!Phase, LP!Phase,
       L!LaneInv, LP!LaneInv, L!OneConversation, LP!OneConversation, L!RunningIsHeld,
       LP!RunningIsHeld, L!QueueIsWaiting, LP!QueueIsWaiting, L!UrgentFirst, LP!UrgentFirst,
       L!InLane, LP!InLane

(* The transport begins with a lane in order (LaneProofs).                 *)
LEMMA LaneAtFirst == L!Init => LaneOK
BY SameLane, LP!TypesAtFirst, LP!OrderAtFirst DEF LaneOK

(* A step of the lane keeps it in order, whoever takes it.                 *)
LEMMA LaneKept == LaneOK /\ [L!Next]_lvars => LaneOK'
BY SameLane, SameLaneNext, LP!TypesKept, LP!OrderKept DEF LaneOK

-----------------------------------------------------------------------------
(* The inductive invariant.                                                *)

(* A request is made once: it has a result when it has talked, and before  *)
(* it talked nothing of it was written.                                    *)
Requests ==
  \A c \in Conv :
    /\ phase[c] \in {"waiting", "talking"} => result[c] = "none"
    /\ result[c] = "none" /\ phase[c] # "talking" =>
         phase[c] \in {"outside", "waiting"} /\ c \notin writing \cup taken

(* The key owes an answer once to each whose bytes it took, and no more to *)
(* those that have it.                                                     *)
Owes ==
  /\ \A i \in 1 .. Len(owed) : owed[i] \in taken /\ result[owed[i]] # "own"
  /\ \A i, j \in 1 .. Len(owed) : owed[i] = owed[j] => i = j
  /\ \A c \in Conv : result[c] = "own" => c \in taken

QInv == LaneOK /\ NothingLeftBehind /\ Requests /\ Owes /\ SlipNeedsACause

-----------------------------------------------------------------------------
(* The steps of the transport.                                             *)

(* A request that listens is the one in the lane, and the only one.        *)
LEMMA Alone ==
  ASSUME QInv, NEW c \in listening
  PROVE  listening = {c} /\ c \in Conv /\ phase[c] = "talking" /\ result[c] = "none"
BY DEF QInv, NothingLeftBehind, TypeOK, LaneOK, L!LaneInv, L!OneConversation, L!InLane, Requests

(* A lane with nobody in it, or whose holder has settled, hears nothing.   *)
LEMMA NobodyListens ==
  ASSUME QInv, ~running \/ \E c \in Conv : phase[c] = "settled"
  PROVE  listening = {}
BY DEF QInv, NothingLeftBehind, TypeOK, LaneOK, L!LaneInv, L!OneConversation, L!RunningIsHeld,
       L!InLane

(* A request is issued: it listens, and the write begins.                  *)
LEMMA IssueHolds ==
  ASSUME QInv, NEW c \in Conv, listening = {}, c \notin writing \cup taken, result[c] = "none",
         Issue(c), LaneOK', phase'[c] = "talking",
         \A d \in Conv \ {c} : phase'[d] = phase[d] \/ (phase'[d] = "outside" /\ result[d] # "none")
  PROVE  QInv'
<1>1. /\ subscribed' = subscribed /\ up' = up /\ taken' = taken /\ owed' = owed /\ armed' = armed
      /\ result' = result /\ listening' = {c} /\ writing' = writing \cup {c}
  BY DEF Issue
<1>2. armed = {}
  BY DEF QInv, NothingLeftBehind
<1>3. NothingLeftBehind'
  <2>1. TypeOK'
    BY <1>1 DEF QInv, NothingLeftBehind, TypeOK, LaneOK
  <2>2. \A d \in Conv : phase'[d] = "talking" <=> d = c
    BY DEF QInv, NothingLeftBehind
  <2>3. QED BY <1>1, <1>2, <2>1, <2>2 DEF NothingLeftBehind
<1>4. Requests'
  BY <1>1 DEF QInv, Requests
<1>5. Owes' /\ SlipNeedsACause'
  BY <1>1 DEF QInv, Owes, SlipNeedsACause, NoSwap, Abandoned
<1>6. QED BY <1>3, <1>4, <1>5 DEF QInv

(* request(): at once, or when the lane comes to it.                       *)
LEMMA CallHolds ==
  ASSUME QInv, NEW c \in Conv, Call(c)
  PROVE  QInv'
<1>1. LaneOK'
  BY LaneKept DEF QInv, Call, L!Next
<1>2. CASE L!CallIdle(c) /\ Issue(c)
  <2>1. listening = {} /\ c \notin writing \cup taken /\ result[c] = "none"
    BY <1>2, NobodyListens DEF Call, L!CallIdle, QInv, Requests
  <2>2. phase'[c] = "talking" /\ \A d \in Conv \ {c} : phase'[d] = phase[d]
    BY <1>2 DEF L!CallIdle, QInv, LaneOK, L!TypeOK
  <2>3. QED BY <1>1, <1>2, <2>1, <2>2, IssueHolds
<1>3. CASE L!CallBusy(c) /\ UNCHANGED pvars
  <2>1. /\ phase[c] = "outside" /\ phase'[c] = "waiting" /\ \A d \in Conv \ {c} : phase'[d] = phase[d]
        /\ result[c] = "none"
    BY <1>3 DEF L!CallBusy, QInv, LaneOK, L!TypeOK, Call
  <2>2. /\ subscribed' = subscribed /\ up' = up /\ taken' = taken /\ owed' = owed /\ armed' = armed
        /\ result' = result /\ listening' = listening /\ writing' = writing
    BY <1>3 DEF pvars
  <2>3. NothingLeftBehind'
    BY <1>1, <2>1, <2>2 DEF QInv, NothingLeftBehind, TypeOK, LaneOK
  <2>4. Requests'
    BY <2>1, <2>2 DEF QInv, Requests
  <2>5. Owes' /\ SlipNeedsACause'
    BY <2>2 DEF QInv, Owes, SlipNeedsACause, NoSwap, Abandoned
  <2>6. QED BY <1>1, <2>3, <2>4, <2>5 DEF QInv
<1>4. QED BY <1>2, <1>3 DEF Call

(* The lane is let go, and the next request in it is issued.               *)
LEMMA ReleaseHolds ==
  ASSUME QInv, NEW c \in Conv, Release(c)
  PROVE  QInv'
<1>1. LaneOK'
  BY LaneKept DEF QInv, Release, L!Next
<1>2. phase[c] = "settled" /\ listening = {} /\ result[c] # "none"
  BY NobodyListens DEF Release, L!Release, QInv, Requests
<1>3. CASE waiting = <<>>
  <2>1. phase'[c] = "outside" /\ \A d \in Conv \ {c} : phase'[d] = phase[d]
    BY <1>3 DEF Release, L!Release, QInv, LaneOK, L!TypeOK
  <2>2. /\ subscribed' = subscribed /\ up' = up /\ taken' = taken /\ owed' = owed /\ armed' = armed
        /\ result' = result /\ listening' = listening /\ writing' = writing
    BY <1>3 DEF Release, pvars
  <2>3. NothingLeftBehind'
    BY <1>1, <1>2, <2>1, <2>2 DEF QInv, NothingLeftBehind, TypeOK, LaneOK
  <2>4. Requests'
    BY <1>2, <2>1, <2>2 DEF QInv, Requests
  <2>5. Owes' /\ SlipNeedsACause'
    BY <2>2 DEF QInv, Owes, SlipNeedsACause, NoSwap, Abandoned
  <2>6. QED BY <1>1, <2>3, <2>4, <2>5 DEF QInv
<1>4. CASE waiting # <<>>
  <2> DEFINE h == Head(waiting)
  <2>1. h \in Conv /\ h = waiting[1] /\ 1 \in 1 .. Len(waiting)
    BY <1>4, HeadTailProperties, LenProperties DEF QInv, LaneOK, L!TypeOK
  <2>2. Issue(h) /\ phase' = [phase EXCEPT ![c] = "outside", ![h] = "talking"]
    BY <1>4 DEF Release, L!Release
  <2> HIDE DEF h
  <2>3. phase[h] = "waiting" /\ h # c
    BY <1>2, <2>1 DEF QInv, LaneOK, L!LaneInv, L!QueueIsWaiting
  <2>4. h \notin writing \cup taken /\ result[h] = "none"
    BY <2>1, <2>3 DEF QInv, Requests
  <2>5. phase'[h] = "talking" /\ phase'[c] = "outside" /\ \A d \in Conv \ {h, c} : phase'[d] = phase[d]
    BY <2>1, <2>2, <2>3 DEF QInv, LaneOK, L!TypeOK
  <2>6. QED BY <1>1, <1>2, <2>1, <2>2, <2>4, <2>5, IssueHolds
<1>5. QED BY <1>3, <1>4

(* The bytes reach the key, once: the answer is owed from then on.         *)
LEMMA KeyTakesHolds ==
  ASSUME QInv, NEW c \in Conv, KeyTakes(c)
  PROVE  QInv'
<1>1. /\ running' = running /\ waiting' = waiting /\ phase' = phase
      /\ subscribed' = subscribed /\ up' = up /\ writing' = writing
      /\ listening' = listening /\ armed' = armed /\ result' = result
      /\ c \in writing /\ c \notin taken /\ taken' = taken \cup {c} /\ owed' = Append(owed, c)
  BY DEF KeyTakes, lvars
<1>2. LaneOK'
  BY <1>1, LaneKept DEF QInv, lvars
<1>3. /\ owed \in Seq(Conv) /\ owed' \in Seq(Conv) /\ Len(owed') = Len(owed) + 1 /\ Len(owed) \in Nat
      /\ \A i \in 1 .. Len(owed) : owed'[i] = owed[i]
      /\ owed'[Len(owed) + 1] = c
  BY <1>1, AppendProperties, LenProperties DEF QInv, NothingLeftBehind, TypeOK
<1>4. NothingLeftBehind'
  BY <1>1, <1>2, <1>3 DEF QInv, NothingLeftBehind, TypeOK, LaneOK
<1>5. Requests'
  BY <1>1 DEF QInv, Requests
<1>6. \A i \in 1 .. Len(owed') : owed'[i] \in taken' /\ result'[owed'[i]] # "own"
  BY <1>1, <1>3 DEF QInv, Owes
<1>7. \A i, j \in 1 .. Len(owed') : owed'[i] = owed'[j] => i = j
  BY <1>1, <1>3 DEF QInv, Owes
<1>8. Owes'
  BY <1>1, <1>6, <1>7 DEF QInv, Owes
<1>9. SlipNeedsACause'
  BY <1>1 DEF QInv, SlipNeedsACause, NoSwap, Abandoned
<1>10. QED BY <1>2, <1>4, <1>5, <1>8, <1>9 DEF QInv

(* The write is out: the clock starts, if the answer has not come.         *)
LEMMA WriteDoneHolds ==
  ASSUME QInv, NEW c \in Conv, WriteDone(c)
  PROVE  QInv'
<1>1. /\ running' = running /\ waiting' = waiting /\ phase' = phase
      /\ subscribed' = subscribed /\ up' = up /\ writing' = writing \ {c}
      /\ listening' = listening /\ result' = result /\ taken' = taken /\ owed' = owed
      /\ armed' = IF c \in listening THEN armed \cup {c} ELSE armed
  BY DEF WriteDone, Arm, lvars
<1>2. LaneOK'
  BY <1>1, LaneKept DEF QInv, lvars
<1>3. NothingLeftBehind'
  BY <1>1, <1>2 DEF QInv, NothingLeftBehind, TypeOK, LaneOK
<1>4. Requests' /\ Owes' /\ SlipNeedsACause'
  BY <1>1 DEF QInv, Requests, Owes, SlipNeedsACause, NoSwap, Abandoned
<1>5. QED BY <1>2, <1>3, <1>4 DEF QInv

(* The one that listens ends, one way or another: `how` says how.          *)
LEMMA EndHolds ==
  ASSUME QInv, NEW c \in listening, NEW how \in Result \ {"none"},
         L!Settle(c), result' = [result EXCEPT ![c] = how],
         listening' = listening \ {c}, armed' = armed \ {c},
         writing' \in {writing, writing \ {c}}, taken' = taken, subscribed' = subscribed, up' = up,
         owed' \in Seq(Conv), Owes', SlipNeedsACause'
  PROVE  QInv'
<1>1. listening = {c} /\ c \in Conv /\ phase[c] = "talking" /\ result[c] = "none"
  BY Alone
<1>2. LaneOK'
  BY <1>1, LaneKept DEF QInv, L!Next
<1>3. phase'[c] = "settled" /\ \A d \in Conv \ {c} : phase'[d] = phase[d]
  BY <1>1 DEF L!Settle, QInv, LaneOK, L!TypeOK
<1>4. result' \in [Conv -> Result] /\ result'[c] = how /\ \A d \in Conv \ {c} : result'[d] = result[d]
  BY <1>1 DEF QInv, NothingLeftBehind, TypeOK
<1>5. NothingLeftBehind'
  <2>1. TypeOK'
    BY <1>1, <1>2, <1>4 DEF QInv, NothingLeftBehind, TypeOK, LaneOK
  <2>2. armed' = {}
    BY <1>1 DEF QInv, NothingLeftBehind
  <2>3. QED BY <1>1, <1>3, <2>1, <2>2 DEF QInv, NothingLeftBehind
<1>6. Requests'
  BY <1>1, <1>3, <1>4 DEF QInv, Requests
<1>7. QED BY <1>2, <1>5, <1>6 DEF QInv

(* It is given up: from now on nothing is promised of answers that slip.   *)
LEMMA GivenUpHolds ==
  ASSUME QInv, NEW c \in listening, NEW how \in {"noReply", "writeError", "broadcast"},
         how = "broadcast" => c \notin Matching,
         L!Settle(c), result' = [result EXCEPT ![c] = how],
         listening' = listening \ {c}, armed' = armed \ {c},
         writing' \in {writing, writing \ {c}}, UNCHANGED <<subscribed, up, taken, owed>>
  PROVE  QInv'
<1>1. c \in Conv /\ result[c] = "none"
  BY Alone
<1>2. result'[c] = how /\ \A d \in Conv \ {c} : result'[d] = result[d]
  BY <1>1 DEF QInv, NothingLeftBehind, TypeOK
<1>3. /\ subscribed' = subscribed /\ up' = up /\ taken' = taken /\ owed' = owed
      /\ owed \in Seq(Conv)
  BY DEF QInv, NothingLeftBehind, TypeOK
<1>4. \A i \in 1 .. Len(owed) : owed[i] \in Conv
  BY <1>3, ElementOfSeq
<1>5. Owes'
  BY <1>1, <1>2, <1>3, <1>4 DEF QInv, Owes
<1>6. SlipNeedsACause'
  BY <1>1, <1>2 DEF QInv, SlipNeedsACause, NoSwap, Abandoned
<1>7. how \in Result \ {"none"}
  BY DEF Result
<1>8. QED BY <1>3, <1>5, <1>6, <1>7, EndHolds

(* A write that rejects gives the request up, or finds it answered.        *)
LEMMA WriteFailsHolds ==
  ASSUME QInv, NEW c \in Conv, WriteFails(c)
  PROVE  QInv'
<1>1. CASE c \in listening
  <2>1. /\ L!Settle(c) /\ result' = [result EXCEPT ![c] = "writeError"]
        /\ listening' = listening \ {c} /\ writing' = writing \ {c}
        /\ UNCHANGED <<subscribed, up, taken, owed>> /\ armed' = armed
    BY <1>1 DEF WriteFails
  <2>2. armed' = armed \ {c}
    BY <2>1 DEF WriteFails, QInv, NothingLeftBehind
  <2>3. QED BY <1>1, <2>1, <2>2, GivenUpHolds
<1>2. CASE c \notin listening
  <2>1. /\ running' = running /\ waiting' = waiting /\ phase' = phase
        /\ subscribed' = subscribed /\ up' = up /\ writing' = writing \ {c}
        /\ listening' = listening /\ result' = result /\ taken' = taken /\ owed' = owed
        /\ armed' = armed
    BY <1>2 DEF WriteFails, lvars
  <2>2. LaneOK'
    BY <2>1, LaneKept DEF QInv, lvars
  <2>3. NothingLeftBehind'
    BY <2>1, <2>2 DEF QInv, NothingLeftBehind, TypeOK, LaneOK
  <2>4. Requests' /\ Owes' /\ SlipNeedsACause'
    BY <2>1 DEF QInv, Requests, Owes, SlipNeedsACause, NoSwap, Abandoned
  <2>5. QED BY <2>2, <2>3, <2>4 DEF QInv
<1>3. QED BY <1>1, <1>2

(* The reply timer gives it up.                                            *)
LEMMA TimeoutHolds ==
  ASSUME QInv, NEW c \in Conv, Timeout(c)
  PROVE  QInv'
<1>1. c \in listening
  BY DEF Timeout, QInv, NothingLeftBehind
<1>2. QED BY <1>1, GivenUpHolds DEF Timeout

(* What is left of the answers when the first has come.                    *)
LEMMA OwedTail ==
  ASSUME QInv, owed # <<>>
  PROVE  /\ Head(owed) \in taken /\ result[Head(owed)] # "own" /\ Head(owed) \in Conv
         /\ Tail(owed) \in Seq(Conv)
         /\ \A i \in 1 .. Len(Tail(owed)) :
              Tail(owed)[i] \in taken /\ result[Tail(owed)[i]] # "own" /\ Tail(owed)[i] # Head(owed)
         /\ \A i, j \in 1 .. Len(Tail(owed)) : Tail(owed)[i] = Tail(owed)[j] => i = j
<1>1. owed \in Seq(Conv)
  BY DEF QInv, NothingLeftBehind, TypeOK
<1>2. /\ Head(owed) = owed[1] /\ Head(owed) \in Conv /\ Tail(owed) \in Seq(Conv)
      /\ Len(Tail(owed)) = Len(owed) - 1 /\ Len(owed) \in Nat /\ Len(owed) # 0
      /\ \A i \in 1 .. Len(Tail(owed)) : Tail(owed)[i] = owed[i + 1]
  BY <1>1, HeadTailProperties, LenProperties, EmptySeq
<1>3. \A i \in 1 .. Len(Tail(owed)) : i + 1 \in 1 .. Len(owed) /\ i + 1 # 1
  BY <1>2
<1>4. 1 \in 1 .. Len(owed)
  BY <1>2
<1>5. \A i, j \in 1 .. Len(Tail(owed)) : i + 1 = j + 1 => i = j
  OBVIOUS
<1>6. QED BY <1>2, <1>3, <1>4, <1>5 DEF QInv, Owes

(* An answer is lost: the key has one less to give.                        *)
LEMMA AnswerLostHolds ==
  ASSUME QInv, owed # <<>>, owed' = Tail(owed),
         UNCHANGED <<lvars, subscribed, up, writing, taken, listening, armed, result>>
  PROVE  QInv'
<1>1. /\ running' = running /\ waiting' = waiting /\ phase' = phase
      /\ subscribed' = subscribed /\ up' = up /\ writing' = writing /\ taken' = taken
      /\ listening' = listening /\ armed' = armed /\ result' = result
  BY DEF lvars
<1>2. LaneOK'
  BY <1>1, LaneKept DEF QInv, lvars
<1>3. NothingLeftBehind'
  BY <1>1, <1>2, OwedTail DEF QInv, NothingLeftBehind, TypeOK, LaneOK
<1>4. Owes'
  BY <1>1, OwedTail DEF QInv, Owes
<1>5. Requests' /\ SlipNeedsACause'
  BY <1>1 DEF QInv, Requests, SlipNeedsACause, NoSwap, Abandoned
<1>6. QED BY <1>2, <1>3, <1>4, <1>5 DEF QInv

(* When nobody is to be resolved, Resolve leaves all as it is.             *)
LEMMA ResolveNobody ==
  ASSUME QInv, NEW how, Resolve({}, how)
  PROVE  UNCHANGED <<lvars, subscribed, up, writing, taken, listening, armed, result>>
<1>1. result' = result /\ phase' = phase
  BY DEF Resolve, QInv, LaneOK, L!TypeOK, NothingLeftBehind, TypeOK
<1>2. QED BY <1>1 DEF Resolve, lvars

(* With one to resolve, it is that request that settles, and no other.     *)
LEMMA ResolveOne ==
  ASSUME QInv, NEW c \in listening, NEW how, Resolve({c}, how)
  PROVE  /\ L!Settle(c) /\ result' = [result EXCEPT ![c] = how[c]]
         /\ listening' = listening \ {c} /\ armed' = armed \ {c}
         /\ writing' = writing /\ taken' = taken /\ subscribed' = subscribed /\ up' = up
<1>1. c \in Conv /\ phase[c] = "talking"
  BY Alone
<1>2. result' = [result EXCEPT ![c] = how[c]] /\ phase' = [phase EXCEPT ![c] = "settled"]
  BY <1>1 DEF Resolve, QInv, LaneOK, L!TypeOK, NothingLeftBehind, TypeOK
<1>3. QED BY <1>1, <1>2 DEF Resolve, L!Settle

(* The answer that comes is the listener's own, or that of a request which *)
(* ended without it: the only other that could wait for one would be in    *)
(* the lane too.                                                           *)
LEMMA WhoseIsTold ==
  ASSUME QInv, NEW c \in listening, NEW d \in taken, SameInterface(c, d), result[d] # "own"
  PROVE  /\ (Whose(c, d) = "own" /\ d = c) \/ (Whose(c, d) = "late" /\ d # c)
         /\ Whose(c, d) = "late" => Abandoned # {}
<1>1. listening = {c} /\ c \in Conv /\ d \in Conv
  BY Alone DEF QInv, NothingLeftBehind, TypeOK
<1>2. CASE d = c
  BY <1>2 DEF Whose
<1>3. CASE d # c
  <2>1. result[d] # "none"
    BY <1>1, <1>3 DEF QInv, Requests, NothingLeftBehind
  <2>2. Whose(c, d) = "late"
    BY <1>3, <2>1 DEF Whose
  <2>3. Abandoned # {}
    BY <1>1, <2>1 DEF QInv, SlipNeedsACause
  <2>4. QED BY <1>3, <2>2, <2>3
<1>4. QED BY <1>2, <1>3

(* The answer is heard.                                                    *)
LEMMA AnswerHeardHolds ==
  ASSUME QInv, owed # <<>>, owed' = Tail(owed), NEW c \in listening,
         SameInterface(c, Head(owed)),
         Resolve({c}, [x \in Conv |-> Whose(x, Head(owed))])
  PROVE  QInv'
<1> DEFINE d == Head(owed)
           how == Whose(c, d)
           all == [x \in Conv |-> Whose(x, d)]
<1>1. c \in Conv /\ result[c] = "none"
  BY Alone
<1>2. /\ L!Settle(c) /\ result' = [result EXCEPT ![c] = how]
      /\ listening' = listening \ {c} /\ armed' = armed \ {c}
      /\ writing' = writing /\ taken' = taken /\ subscribed' = subscribed /\ up' = up
  <2>1. all[c] = how
    BY <1>1
  <2> HIDE DEF all
  <2>2. /\ L!Settle(c) /\ result' = [result EXCEPT ![c] = all[c]]
        /\ listening' = listening \ {c} /\ armed' = armed \ {c}
        /\ writing' = writing /\ taken' = taken /\ subscribed' = subscribed /\ up' = up
    <3>1. Resolve({c}, all)
      BY DEF all
    <3>2. QED BY <3>1, ResolveOne
  <2>3. QED BY <2>1, <2>2
<1>3. /\ (how = "own" /\ d = c) \/ (how = "late" /\ d # c)
      /\ how = "late" => Abandoned # {}
  BY OwedTail, WhoseIsTold
<1>4. /\ d \in taken
      /\ owed' \in Seq(Conv)
      /\ \A i \in 1 .. Len(owed') : owed'[i] \in taken /\ result[owed'[i]] # "own" /\ owed'[i] # d
      /\ \A i, j \in 1 .. Len(owed') : owed'[i] = owed'[j] => i = j
  BY OwedTail
<1> HIDE DEF d, how
<1>5. result'[c] = how /\ \A x \in Conv \ {c} : result'[x] = result[x]
  BY <1>1, <1>2 DEF QInv, NothingLeftBehind, TypeOK
<1>6. \A i \in 1 .. Len(owed') : owed'[i] \in Conv
  BY <1>4 DEF QInv, NothingLeftBehind, TypeOK
<1>7. Owes'
  BY <1>2, <1>3, <1>4, <1>5, <1>6 DEF QInv, Owes
<1>8. SlipNeedsACause'
  <2>1. NoSwap'
    BY <1>1, <1>3, <1>5 DEF QInv, SlipNeedsACause, NoSwap
  <2>2. Abandoned = Abandoned'
    BY <1>1, <1>3, <1>5 DEF Abandoned
  <2>3. QED BY <1>3, <1>5, <2>1, <2>2 DEF QInv, SlipNeedsACause
<1>9. how \in Result \ {"none"}
  BY <1>3 DEF Result
<1>10. QED BY <1>2, <1>4, <1>7, <1>8, <1>9, EndHolds

(* The key answers.                                                        *)
LEMMA AnswerHolds ==
  ASSUME QInv, Answer
  PROVE  QInv'
<1>1. owed # <<>> /\ owed' = Tail(owed)
  BY DEF Answer
<1>2. CASE Hearers(Head(owed)) = {}
  BY <1>1, <1>2, ResolveNobody, AnswerLostHolds DEF Answer
<1>3. CASE Hearers(Head(owed)) # {}
  <2>1. PICK c \in Hearers(Head(owed)) : TRUE
    BY <1>3
  <2>2. c \in listening /\ SameInterface(c, Head(owed))
    BY <2>1 DEF Hearers
  <2>3. Hearers(Head(owed)) = {c}
    BY <2>1, <2>2, Alone DEF Hearers
  <2>4. QED BY <1>1, <2>2, <2>3, AnswerHeardHolds DEF Answer
<1>4. QED BY <1>2, <1>3

(* A broadcast that somebody hears gives its request up.                   *)
LEMMA BroadcastHolds ==
  ASSUME QInv, Broadcast
  PROVE  QInv'
<1> DEFINE how == [c \in Conv |-> "broadcast"]
<1>1. CASE BroadcastHearers = {}
  <2>1. UNCHANGED <<lvars, subscribed, up, writing, taken, listening, armed, result>>
    BY <1>1, ResolveNobody DEF Broadcast
  <2>2. UNCHANGED owed
    BY DEF Broadcast
  <2>3. LaneOK'
    BY <2>1, LaneKept DEF QInv
  <2>4. QED BY <2>1, <2>2, <2>3 DEF QInv, lvars, LaneOK, NothingLeftBehind, TypeOK, Requests, Owes,
              SlipNeedsACause, NoSwap, Abandoned
<1>2. CASE BroadcastHearers # {}
  <2>1. PICK c \in BroadcastHearers : TRUE
    BY <1>2
  <2>2. c \in listening /\ c \notin Matching
    BY <2>1 DEF BroadcastHearers
  <2>3. BroadcastHearers = {c} /\ c \in Conv
    BY <2>1, <2>2, Alone DEF BroadcastHearers
  <2>4. Resolve({c}, how) /\ owed' = owed /\ how[c] = "broadcast"
    BY <2>3 DEF Broadcast
  <2>5. QED BY <2>2, <2>4, ResolveOne, GivenUpHolds
<1>3. QED BY <1>1, <1>2

(* open(), close(), destroy(): the key owes what it did, or nothing.       *)
LEMMA PipeHolds ==
  ASSUME QInv, Open \/ Close \/ Destroy
  PROVE  QInv'
<1>1. /\ running' = running /\ waiting' = waiting /\ phase' = phase
      /\ writing' = writing /\ taken' = taken
      /\ listening' = listening /\ armed' = armed /\ result' = result
      /\ owed' = owed \/ owed' = <<>>
      /\ subscribed' \in BOOLEAN /\ up' \in BOOLEAN
  BY DEF Open, Close, Destroy, lvars, QInv, NothingLeftBehind, TypeOK
<1>2. LaneOK'
  BY <1>1, LaneKept DEF QInv, lvars
<1>3. NothingLeftBehind'
  <2>1. owed \in Seq(Conv) /\ <<>> \in Seq(Conv)
    BY EmptySeq DEF QInv, NothingLeftBehind, TypeOK
  <2>2. owed' \in Seq(Conv)
    BY <1>1, <2>1
  <2>3. QED BY <1>1, <1>2, <2>2 DEF QInv, NothingLeftBehind, TypeOK, LaneOK
<1>4. Owes'
  <2>1. CASE owed' = owed
    BY <1>1, <2>1 DEF QInv, Owes
  <2>2. CASE owed' = <<>>
    <3>1. 1 .. Len(owed') = {}
      BY <2>2
    <3>2. QED BY <1>1, <3>1 DEF QInv, Owes
  <2>3. QED BY <1>1, <2>1, <2>2
<1>5. Requests' /\ SlipNeedsACause'
  BY <1>1 DEF QInv, Requests, SlipNeedsACause, NoSwap, Abandoned
<1>6. QED BY <1>2, <1>3, <1>4, <1>5 DEF QInv

(* The transport begins in the invariant.                                  *)
LEMMA TransportAtFirst ==
  ASSUME Init
  PROVE  QInv
<1>1. LaneOK
  BY LaneAtFirst DEF Init
<1>2. NothingLeftBehind
  <2>1. owed \in Seq(Conv)
    BY EmptySeq DEF Init
  <2>2. TypeOK
    BY <1>1, <2>1 DEF Init, LaneOK, TypeOK, Result
  <2>3. QED BY <2>2 DEF Init, L!Init, NothingLeftBehind
<1>3. Owes
  <2>1. 1 .. Len(owed) = {}
    BY DEF Init
  <2>2. QED BY <2>1 DEF Init, Owes
<1>4. Requests /\ SlipNeedsACause
  BY DEF Init, L!Init, Requests, SlipNeedsACause, NoSwap
<1>5. QED BY <1>1, <1>2, <1>3, <1>4 DEF QInv

(* Every step of the transport, the pipe and the key keeps it.             *)
LEMMA TransportKept ==
  ASSUME QInv, [Next]_vars
  PROVE  QInv'
<1>1. CASE UNCHANGED vars
  <2>1. /\ running' = running /\ waiting' = waiting /\ phase' = phase
        /\ subscribed' = subscribed /\ up' = up /\ writing' = writing /\ taken' = taken
        /\ owed' = owed /\ listening' = listening /\ armed' = armed /\ result' = result
    BY <1>1 DEF vars, lvars, pvars
  <2>2. LaneOK'
    BY <2>1, LaneKept DEF QInv, lvars
  <2>3. QED BY <2>1, <2>2 DEF QInv, LaneOK, NothingLeftBehind, TypeOK, Requests, Owes,
              SlipNeedsACause, NoSwap, Abandoned
<1>2. ASSUME NEW c \in Conv,
             \/ Call(c) \/ Release(c)
             \/ KeyTakes(c) \/ WriteDone(c) \/ WriteFails(c) \/ Timeout(c)
      PROVE  QInv'
  BY <1>2, CallHolds, ReleaseHolds, KeyTakesHolds, WriteDoneHolds, WriteFailsHolds, TimeoutHolds
<1>3. ASSUME KeyIgnores
      PROVE  QInv'
  BY <1>3, AnswerLostHolds DEF KeyIgnores
<1>4. QED BY <1>1, <1>2, <1>3, AnswerHolds, BroadcastHolds, PipeHolds DEF Next

(* The inductive invariant holds in every state, for any set of requests   *)
(* and any of them matched.                                                *)
THEOREM TransportInvariant == Spec => []QInv
<1>1. Init => QInv
  BY TransportAtFirst
<1>2. QInv /\ [Next]_vars => QInv'
  BY TransportKept
<1>3. QED BY <1>1, <1>2, PTL DEF Spec

(* A request listens exactly while it talks, and its timer runs only then  *)
(* and only once its write is out (NothingLeftBehind), however writes,     *)
(* answers, timers and the ends of the transport fall.                     *)
THEOREM NothingOutlivesARequest == Spec => []NothingLeftBehind
<1>1. QInv => NothingLeftBehind
  BY DEF QInv
<1>2. QED BY <1>1, TransportInvariant, PTL

(* Without ids on the wire, and with a key that answers when it likes, no  *)
(* request takes the answer of one that still waits or one of another      *)
(* interface, and until one was given up each has its own                  *)
(* (SlipNeedsACause).                                                      *)
THEOREM SlipsHaveACause == Spec => []SlipNeedsACause
<1>1. QInv => SlipNeedsACause
  BY DEF QInv
<1>2. QED BY <1>1, TransportInvariant, PTL

(* The lane's safety inside the transport.                                 *)
LEMMA PipeLaneSteps ==
  ASSUME QInv, [Next]_vars
  PROVE  [L!Next]_lvars
<1>1. ASSUME NEW c \in Conv,
             \/ Call(c) \/ Release(c)
             \/ KeyTakes(c) \/ WriteDone(c) \/ WriteFails(c) \/ Timeout(c)
      PROVE  [L!Next]_lvars
  BY <1>1 DEF Call, Release, KeyTakes, WriteDone, WriteFails, Timeout, L!Next, pvars
<1>2. ASSUME NEW S, NEW how, Resolve(S, how), S = {} \/ \E c \in listening : S = {c}
      PROVE  [L!Next]_lvars
  <2>1. CASE S = {}
    BY <1>2, <2>1, ResolveNobody
  <2>2. ASSUME NEW c \in listening, S = {c}
        PROVE  [L!Next]_lvars
    <3>1. L!Settle(c)
      BY <1>2, <2>2, ResolveOne
    <3>2. c \in Conv
      BY Alone
    <3>3. QED BY <3>1, <3>2 DEF L!Next
  <2>3. QED BY <1>2, <2>1, <2>2
<1>3. \A S : S \subseteq listening => S = {} \/ \E c \in listening : S = {c}
  BY Alone
<1>4. Hearers(Head(owed)) \subseteq listening /\ BroadcastHearers \subseteq listening
  BY DEF Hearers, BroadcastHearers
<1>5. Answer \/ Broadcast => [L!Next]_lvars
  BY <1>2, <1>3, <1>4 DEF Answer, Broadcast
<1>6. KeyIgnores \/ Open \/ Close \/ Destroy => [L!Next]_lvars
  BY DEF KeyIgnores, Open, Close, Destroy
<1>7. QED BY <1>1, <1>5, <1>6 DEF Next, vars

(* Requests keep the lane's rules (IsALane, without its fairness): each    *)
(* lets go of the lane once, in the states in which Lane lets it.          *)
THEOREM TransportUsesALane == Spec => L!Init /\ [][L!Next]_lvars
<1>1. Init => L!Init
  BY DEF Init
<1>2. QInv /\ [Next]_vars => [L!Next]_lvars
  BY PipeLaneSteps
<1>3. QED BY <1>1, <1>2, TransportInvariant, PTL DEF Spec

-----------------------------------------------------------------------------
(***************************************************************************)
(* The room's socket over Bluetooth: a text handed on is one whole text of *)
(* its own socket, and two quiet ends agree.                               *)
(*                                                                         *)
(* Texts travel whole as long as nothing of them is lost (TextsWhole); one *)
(* socket at a time is spoken of as long as no dial crosses what the       *)
(* server still says (OneSocket); and then the server is told of the end   *)
(* of its socket if and only if the phone has none, or the phone is to     *)
(* hear a CLOSE (EndsAgree).                                               *)
(***************************************************************************)

Piece == [kind : {"part", "text"}, n : Sockets, t : Nat, i : 1 .. 2, of : 1 .. 2]
PhoneMessage == [kind : {"here", "opened", "close"}, n : Sockets] \cup Piece
ServerMessage ==
  [kind : {"open", "close"}, n : Sockets] \cup [kind : {"where"}, n : {0}, open : BOOLEAN]
    \cup Piece

(* The two pieces of one text.                                             *)
IsPart(m) == m \in Piece /\ m.kind = "part" /\ m.i = 1 /\ m.of = 2
IsRest(p, m) ==
  m \in Piece /\ m.kind = "text" /\ m.i = 2 /\ m.of = 2 /\ m.n = p.n /\ m.t = p.t

ServerType == [link : BOOLEAN, socket : Sockets, parts : Seq(Piece)]
PhoneType == [link : BOOLEAN, socket : Sockets, open : BOOLEAN, parts : Seq(Piece),
              here : BOOLEAN]
TallyType == [dials : Sockets, texts : Nat, lost : Nat, links : Nat, asks : Nat]

BleTyped ==
  /\ radio \in BOOLEAN /\ why \subseteq Excuses
  /\ toPhone \in Seq(PhoneMessage) /\ toServer \in Seq(ServerMessage)
  /\ server \in ServerType /\ phone \in PhoneType /\ tally \in TallyType
  /\ heard \in [at : {"none", "phone", "server"}, socket : Sockets, pieces : Seq(Piece)]

(* Both have the link while there is one, and nothing travels without.     *)
LinkHolds ==
  /\ radio => server.link /\ phone.link
  /\ ~radio => toPhone = <<>> /\ toServer = <<>>
  /\ ~phone.link => phone.socket = 0 /\ ~phone.open /\ ~phone.here
  /\ phone.open => phone.socket # 0

(* A text in two pieces travels as its part and what is right behind it;   *)
(* `orphan`: what comes first may have lost its part.                      *)
InPieces(parts, q, orphan) ==
  /\ parts # <<>> => /\ Len(parts) = 1 /\ IsPart(parts[1])
                     /\ q # <<>> => IsRest(parts[1], q[1])
  /\ \A j \in 1 .. Len(q) :
       /\ q[j].kind = "part" => IsPart(q[j]) /\ j + 1 \in 1 .. Len(q) /\ IsRest(q[j], q[j + 1])
       /\ q[j].kind = "text" => q[j].i = q[j].of
       /\ q[j].kind = "text" /\ q[j].of = 2 =>
            \/ j = 1 /\ orphan
            \/ j = 1 /\ parts # <<>> /\ IsRest(parts[1], q[1])
            \/ j > 1 /\ q[j - 1].kind = "part"

ServerWhole ==
  "lost" \notin why => InPieces(server.parts, toServer, FALSE)
                       /\ (radio => server.parts = <<>> \/ toServer # <<>>)
PhoneWhole ==
  "cut" \notin why => InPieces(phone.parts, toPhone, ~phone.open)
                      /\ (phone.parts = <<>> \/ toPhone # <<>>)
TextsWhole == ServerWhole /\ PhoneWhole

(* Uncrossed, there is no socket but the last that was dialled.            *)
AllOf(q, n) == \A j \in 1 .. Len(q) : OfASocket(q[j]) => q[j].n = n

OneSocket ==
  "crossed" \notin why =>
    /\ server.socket \in {0, tally.dials} /\ phone.socket \in {0, tally.dials}
    /\ AllOf(toPhone, tally.dials) /\ AllOf(toServer, tally.dials)

(* The server has a socket, or will have; what ends it.                    *)
Ends(m) == m.kind = "close" \/ (m.kind = "where" /\ ~m.open)
IsIn(q, kind) == \E j \in 1 .. Len(q) : q[j].kind = kind

NoneOf(q) == \A j \in 1 .. Len(q) : ~OfASocket(q[j])

OpensFirst ==
  \A i \in 1 .. Len(toServer) : toServer[i].kind = "open" =>
    /\ server.socket = 0
    /\ \A j \in 1 .. i - 1 : ~OfASocket(toServer[j])
    /\ NoneOf(toPhone)

(* From `i` on, the server is told of the end if and only if the phone has *)
(* no socket; else it is to hear that it is open.                          *)
EndFrom(q, i) == \E j \in i .. Len(q) : Ends(q[j])

WillAgree ==
  /\ server.socket # 0 =>
       /\ EndFrom(toServer, 1) <=> phone.socket = 0
       /\ phone.socket # 0 => ~IsIn(toPhone, "close") /\ (phone.open \/ IsIn(toPhone, "opened"))
  /\ \A i \in 1 .. Len(toServer) :
       toServer[i].kind = "open" => (EndFrom(toServer, i) <=> phone.socket = 0)
  /\ server.socket = 0 /\ ~IsIn(toServer, "open") /\ phone.socket # 0 => IsIn(toPhone, "close")

EndsAgree == radio /\ why \cap {"lost", "crossed"} = {} => OpensFirst /\ WillAgree

HeardWell ==
  heard.pieces # <<>> =>
       /\ (IF heard.at = "phone" THEN "cut" ELSE "lost") \in why \/ WholeOf(heard.pieces)
       /\ "crossed" \in why \/ heard.pieces[Len(heard.pieces)].n = heard.socket

BleInv == BleTyped /\ LinkHolds /\ TextsWhole /\ OneSocket /\ EndsAgree /\ HeardWell

-----------------------------------------------------------------------------
(* Queues.                                                                 *)

(* What is left of a queue when its first message is taken.                *)
LEMMA TailIs ==
  ASSUME NEW S, NEW q \in Seq(S), q # <<>>
  PROVE  /\ Tail(q) \in Seq(S) /\ Len(Tail(q)) = Len(q) - 1 /\ Len(q) \in Nat \ {0}
         /\ Head(q) = q[1] /\ q[1] \in S
         /\ \A i \in 1 .. Len(q) - 1 : Tail(q)[i] = q[i + 1]
BY HeadTailProperties, LenProperties

(* What a queue is with more behind it.                                    *)
LEMMA MoreIs ==
  ASSUME NEW S, NEW q \in Seq(S), NEW more \in Seq(S)
  PROVE  /\ q \o more \in Seq(S) /\ Len(q \o more) = Len(q) + Len(more)
         /\ Len(q) \in Nat /\ Len(more) \in Nat
         /\ \A i \in 1 .. Len(q) : (q \o more)[i] = q[i]
         /\ \A i \in 1 .. Len(more) : (q \o more)[Len(q) + i] = more[i]
<1>1. Len(q) \in Nat /\ Len(more) \in Nat
  BY LenProperties
<1>2. /\ q \o more \in Seq(S) /\ Len(q \o more) = Len(q) + Len(more)
      /\ \A i \in 1 .. Len(q) + Len(more) :
           (q \o more)[i] = IF i <= Len(q) THEN q[i] ELSE more[i - Len(q)]
  BY ConcatProperties
<1>3. QED BY <1>1, <1>2

(* A text, in one piece or two.                                            *)
LEMMA TextIs ==
  ASSUME BleTyped, NEW n \in Sockets, NEW text \in Texts(n)
  PROVE  /\ text \in Seq(Piece) /\ Len(text) \in 1 .. 2
         /\ \A j \in 1 .. Len(text) : text[j].n = n
         /\ Len(text) = 1 => text[1].kind = "text" /\ text[1].i = 1 /\ text[1].of = 1
         /\ Len(text) = 2 => IsPart(text[1]) /\ IsRest(text[1], text[2])
<1> DEFINE P(of) == [i \in 1 .. of |-> [kind |-> IF i = of THEN "text" ELSE "part",
                                        n |-> n, t |-> tally.texts + 1, i |-> i, of |-> of]]
<1>1. PICK of \in 1 .. 2 : text = P(of)
  BY DEF Texts
<1>2. tally.texts + 1 \in Nat
  BY DEF BleTyped, TallyType
<1>3. \A i \in 1 .. of : P(of)[i] \in Piece
  BY <1>2 DEF Piece
<1>4. text \in Seq(Piece) /\ Len(text) = of
  BY <1>1, <1>3, SeqDef, LenProperties
<1>5. QED BY <1>1, <1>2, <1>4 DEF IsPart, IsRest, Piece

(* Pieces stay whole with more texts behind them ...                       *)
LEMMA WholeWithMore ==
  ASSUME NEW S, NEW parts \in Seq(Piece), NEW q \in Seq(S), NEW more \in Seq(S), NEW orphan,
         InPieces(parts, q, orphan), InPieces(<<>>, more, FALSE), q # <<>> \/ parts = <<>>
  PROVE  InPieces(parts, q \o more, orphan)
<1>1. /\ q \o more \in Seq(S) /\ Len(q \o more) = Len(q) + Len(more)
      /\ Len(q) \in Nat /\ Len(more) \in Nat
      /\ \A i \in 1 .. Len(q) : (q \o more)[i] = q[i]
      /\ \A i \in 1 .. Len(more) : (q \o more)[Len(q) + i] = more[i]
  BY MoreIs
<1> DEFINE z == q \o more
<1>2. parts # <<>> => Len(parts) = 1 /\ IsPart(parts[1]) /\ (z # <<>> => IsRest(parts[1], z[1]))
  <2>1. q # <<>> => Len(q) # 0
    BY EmptySeq
  <2>2. QED BY <1>1, <2>1 DEF InPieces
<1> HIDE DEF z
<1>3. ASSUME NEW j \in 1 .. Len(z)
      PROVE  /\ z[j].kind = "part" => IsPart(z[j]) /\ j + 1 \in 1 .. Len(z) /\ IsRest(z[j], z[j + 1])
             /\ z[j].kind = "text" => z[j].i = z[j].of
             /\ z[j].kind = "text" /\ z[j].of = 2 =>
                  \/ j = 1 /\ orphan
                  \/ j = 1 /\ parts # <<>> /\ IsRest(parts[1], z[1])
                  \/ j > 1 /\ z[j - 1].kind = "part"
  <2>1. CASE j <= Len(q)
    <3>1. j \in 1 .. Len(q) /\ z[j] = q[j] /\ z[1] = q[1]
      BY <1>1, <2>1 DEF z
    <3>2. j + 1 \in 1 .. Len(q) => j + 1 \in 1 .. Len(z) /\ z[j + 1] = q[j + 1]
      BY <1>1 DEF z
    <3>3. j > 1 => z[j - 1] = q[j - 1]
      BY <1>1, <2>1 DEF z
    <3>4. QED BY <3>1, <3>2, <3>3 DEF InPieces
  <2>2. CASE j > Len(q)
    <3> DEFINE k == j - Len(q)
    <3>1. k \in 1 .. Len(more) /\ z[j] = more[k]
      BY <1>1, <2>2 DEF z
    <3>2. k + 1 \in 1 .. Len(more) => j + 1 \in 1 .. Len(z) /\ z[j + 1] = more[k + 1]
      <4>1. j + 1 = Len(q) + (k + 1)
        BY <1>1
      <4>2. QED BY <1>1, <4>1 DEF z
    <3>3. k > 1 => z[j - 1] = more[k - 1] /\ j > 1
      <4>1. j - 1 = Len(q) + (k - 1)
        BY <1>1
      <4>2. k > 1 => k - 1 \in 1 .. Len(more)
        BY <1>1, <3>1
      <4>3. QED BY <1>1, <3>1, <4>1, <4>2 DEF z
    <3> HIDE DEF k
    <3>4. QED BY <3>1, <3>2, <3>3 DEF InPieces
  <2>3. QED BY <1>1, <2>1, <2>2
<1>4. QED BY <1>2, <1>3 DEF z, InPieces

(* ... and when the first is taken: a part is held until the rest comes.   *)
LEMMA WholeWhenTaken ==
  ASSUME NEW S, NEW parts \in Seq(Piece), NEW q \in Seq(S), NEW orphan, NEW later,
         q # <<>>, InPieces(parts, q, orphan)
  PROVE  /\ q[1].kind = "part" =>
              /\ parts = <<>> /\ IsPart(q[1]) /\ Tail(q) # <<>>
              /\ InPieces(<<q[1]>>, Tail(q), later)
         /\ q[1].kind # "part" => InPieces(<<>>, Tail(q), later)
         /\ q[1].kind \notin {"part", "text"} => parts = <<>>
         /\ q[1].kind = "text" /\ q[1].of = 1 => parts = <<>> /\ q[1].i = 1
         /\ q[1].kind = "text" /\ q[1].of = 2 /\ ~orphan =>
              /\ Len(parts) = 1 /\ IsPart(parts[1]) /\ IsRest(parts[1], q[1])
<1> DEFINE z == Tail(q)
<1>1. /\ z \in Seq(S) /\ Len(z) = Len(q) - 1 /\ Len(q) \in Nat \ {0}
      /\ \A i \in 1 .. Len(q) - 1 : z[i] = q[i + 1]
  BY TailIs
<1>2. parts # <<>> => Len(parts) = 1 /\ IsPart(parts[1]) /\ IsRest(parts[1], q[1])
  BY DEF InPieces
<1>3. parts # <<>> => q[1].kind = "text" /\ q[1].of = 2
  BY <1>2 DEF IsRest
<1>4. 1 \in 1 .. Len(q)
  BY <1>1
<1>5. q[1].kind = "text" => /\ q[1].i = q[1].of
                            /\ q[1].of = 2 /\ ~orphan => parts # <<>>
  BY <1>4 DEF InPieces
<1>6. q[1].kind = "part" => IsPart(q[1]) /\ 2 \in 1 .. Len(q) /\ IsRest(q[1], q[2])
  BY <1>4 DEF InPieces
<1>7. q[1].kind = "part" => z # <<>> /\ z[1] = q[2]
  <2>1. q[1].kind = "part" => Len(z) # 0 /\ 1 \in 1 .. Len(q) - 1
    BY <1>1, <1>6
  <2>2. Len(z) # 0 => z # <<>>
    BY EmptySeq
  <2>3. 1 + 1 = 2
    OBVIOUS
  <2> HIDE DEF z
  <2>4. QED BY <1>1, <2>1, <2>2, <2>3
<1> DEFINE held == IF q[1].kind = "part" THEN <<q[1]>> ELSE <<>>
<1>8. /\ held # <<>> <=> q[1].kind = "part"
      /\ held # <<>> => Len(held) = 1 /\ held[1] = q[1]
  <2>1. Len(<<q[1]>>) = 1 /\ <<q[1]>>[1] = q[1] /\ <<q[1]>> # <<>>
    OBVIOUS
  <2>2. CASE q[1].kind = "part"
    BY <2>1, <2>2
  <2>3. CASE q[1].kind # "part"
    BY <2>3
  <2>4. QED BY <2>2, <2>3
<1> HIDE DEF z, held
<1>9. ASSUME NEW j \in 1 .. Len(z)
      PROVE  /\ z[j].kind = "part" => IsPart(z[j]) /\ j + 1 \in 1 .. Len(z) /\ IsRest(z[j], z[j + 1])
             /\ z[j].kind = "text" => z[j].i = z[j].of
             /\ z[j].kind = "text" /\ z[j].of = 2 =>
                  \/ j = 1 /\ q[1].kind = "part" /\ IsRest(q[1], z[1])
                  \/ j > 1 /\ z[j - 1].kind = "part"
  <2>1. j + 1 \in 1 .. Len(q) /\ z[j] = q[j + 1] /\ j + 1 # 1
    BY <1>1
  <2>2. j + 2 \in 1 .. Len(q) => j + 1 \in 1 .. Len(z) /\ z[j + 1] = q[j + 2]
    <3>1. j + 2 = (j + 1) + 1
      OBVIOUS
    <3>2. QED BY <1>1, <3>1
  <2>3. j > 1 => z[j - 1] = q[j]
    <3>1. j > 1 => j - 1 \in 1 .. Len(q) - 1 /\ (j - 1) + 1 = j
      BY <1>1
    <3>2. QED BY <1>1, <3>1
  <2>4. /\ q[j + 1].kind = "part" =>
             IsPart(q[j + 1]) /\ (j + 1) + 1 \in 1 .. Len(q) /\ IsRest(q[j + 1], q[(j + 1) + 1])
        /\ q[j + 1].kind = "text" => q[j + 1].i = q[j + 1].of
        /\ q[j + 1].kind = "text" /\ q[j + 1].of = 2 => q[(j + 1) - 1].kind = "part"
    BY <2>1 DEF InPieces
  <2>5. (j + 1) + 1 = j + 2 /\ (j + 1) - 1 = j
    OBVIOUS
  <2>6. j = 1 /\ q[1].kind = "part" => IsRest(q[1], z[1])
    BY <1>6, <2>1
  <2>7. QED BY <2>1, <2>2, <2>3, <2>4, <2>5, <2>6
<1>10. InPieces(held, z, later)
  <2>1. held # <<>> => /\ Len(held) = 1 /\ IsPart(held[1])
                       /\ z # <<>> => IsRest(held[1], z[1])
    BY <1>6, <1>7, <1>8
  <2>2. \A j \in 1 .. Len(z) : j = 1 /\ q[1].kind = "part" /\ IsRest(q[1], z[1]) =>
          held # <<>> /\ IsRest(held[1], z[1])
    BY <1>8
  <2>3. QED BY <1>9, <2>1, <2>2, Zenon DEF InPieces
<1>11. /\ q[1].kind = "part" => InPieces(<<q[1]>>, Tail(q), later)
       /\ q[1].kind # "part" => InPieces(<<>>, Tail(q), later)
  BY <1>10 DEF z, held
<1>12. q[1].kind = "part" => parts = <<>> /\ Tail(q) # <<>>
  BY <1>3, <1>7 DEF z
<1>13. q[1].kind \notin {"part", "text"} => parts = <<>>
  BY <1>3
<1>14. q[1].kind = "text" /\ q[1].of = 1 => parts = <<>> /\ q[1].i = 1
  BY <1>3, <1>5
<1>15. q[1].kind = "text" /\ q[1].of = 2 /\ ~orphan =>
         Len(parts) = 1 /\ IsPart(parts[1]) /\ IsRest(parts[1], q[1])
  BY <1>2, <1>5
<1>16. QED BY <1>6, <1>11, <1>12, <1>13, <1>14, <1>15

(* One text, or one message that is none, is whole.                        *)
LEMMA OneIsWhole ==
  /\ InPieces(<<>>, <<>>, FALSE)
  /\ \A m : m.kind # "part" /\ m.kind # "text" => InPieces(<<>>, <<m>>, FALSE)
  /\ \A m, n : (m.kind # "part" /\ m.kind # "text") /\ (n.kind # "part" /\ n.kind # "text") =>
       InPieces(<<>>, <<m, n>>, FALSE)
<1>1. ASSUME NEW q, \A j \in 1 .. Len(q) : q[j].kind # "part" /\ q[j].kind # "text"
      PROVE  InPieces(<<>>, q, FALSE)
  <2>1. ASSUME NEW j \in 1 .. Len(q) PROVE q[j].kind # "part" /\ q[j].kind # "text"
    BY <1>1
  <2>2. QED BY <2>1, Zenon DEF InPieces
<1>2. InPieces(<<>>, <<>>, FALSE)
  <2>1. \A j \in 1 .. Len(<<>>) : FALSE
    OBVIOUS
  <2>2. QED BY <2>1, Zenon DEF InPieces
<1>3. ASSUME NEW m, m.kind # "part" /\ m.kind # "text" PROVE InPieces(<<>>, <<m>>, FALSE)
  <2> DEFINE q == <<m>>
  <2>1. \A j \in 1 .. Len(q) : q[j] = m
    OBVIOUS
  <2> HIDE DEF q
  <2>2. InPieces(<<>>, q, FALSE)
    BY <1>1, <1>3, <2>1, Zenon
  <2>3. QED BY <2>2 DEF q
<1>4. ASSUME NEW m, NEW n, m.kind # "part" /\ m.kind # "text", n.kind # "part" /\ n.kind # "text"
      PROVE  InPieces(<<>>, <<m, n>>, FALSE)
  <2> DEFINE q == <<m, n>>
  <2>1. \A j \in 1 .. Len(q) : q[j] = m \/ q[j] = n
    OBVIOUS
  <2> HIDE DEF q
  <2>2. \A j \in 1 .. Len(q) : q[j].kind # "part" /\ q[j].kind # "text"
    BY <1>4, <2>1, Zenon
  <2>3. InPieces(<<>>, q, FALSE)
    BY <1>1, <2>2, Zenon
  <2>4. QED BY <2>3 DEF q
<1>5. QED BY <1>2, <1>3, <1>4

(* What one end says as a text is whole.                                   *)
LEMMA TextIsWhole ==
  ASSUME BleTyped, NEW n \in Sockets, NEW text \in Texts(n)
  PROVE  InPieces(<<>>, text, FALSE)
<1>1. /\ text \in Seq(Piece) /\ Len(text) \in 1 .. 2
      /\ Len(text) = 1 => text[1].kind = "text" /\ text[1].i = 1 /\ text[1].of = 1
      /\ Len(text) = 2 => IsPart(text[1]) /\ IsRest(text[1], text[2])
  BY TextIs
<1>2. CASE Len(text) = 1
  BY <1>1, <1>2 DEF InPieces
<1>3. CASE Len(text) = 2
  BY <1>1, <1>3 DEF InPieces, IsPart, IsRest
<1>4. Len(text) = 1 \/ Len(text) = 2
  BY <1>1
<1>5. QED BY <1>2, <1>3, <1>4

-----------------------------------------------------------------------------
(* The links and the queues, step by step.                                 *)

(* What either queue becomes.                                              *)
LEMMA SendsIs ==
  ASSUME BleTyped, NEW more \in Seq(ServerMessage), Sends(more)
  PROVE  toServer' \in Seq(ServerMessage) /\ (~radio => toServer' = toServer)
BY MoreIs DEF Sends, BleTyped

(* What the server says goes to the phone, or ends its socket.             *)
LEMMA SaysIs ==
  ASSUME BleTyped, LinkHolds, NEW n \in Sockets, NEW text \in Texts(n), Says(text)
  PROVE  /\ toPhone' \in Seq(PhoneMessage)
         /\ server' \in ServerType
         /\ server'.link = server.link /\ server'.parts = server.parts
         /\ radio => toPhone' = toPhone \o text /\ server' = server
         /\ ~radio => toPhone' = toPhone /\ server'.socket = 0
<1>1. text \in Seq(PhoneMessage)
  BY TextIs, SeqMonotonic DEF PhoneMessage
<1>2. 0 \in Sockets
  BY BleAssumption DEF Sockets
<1>3. toPhone \o text \in Seq(PhoneMessage)
  BY <1>1, MoreIs DEF BleTyped
<1>4. QED BY <1>2, <1>3 DEF Says, BleTyped, ServerType

(* A counted step leaves the dials as they are.                            *)
LEMMA PlusIs ==
  ASSUME BleTyped, NEW c \in {"texts", "lost", "links", "asks"}, Plus(c)
  PROVE  tally' \in TallyType /\ tally'.dials = tally.dials
<1>1. tally' = [tally EXCEPT ![c] = tally[c] + 1]
  BY DEF Plus
<1>2. tally \in TallyType /\ tally[c] \in Nat
  BY DEF BleTyped, TallyType
<1>3. CASE c = "texts" \/ c = "lost"
  BY <1>1, <1>2, <1>3 DEF TallyType
<1>4. CASE c = "links" \/ c = "asks"
  BY <1>1, <1>2, <1>4 DEF TallyType
<1>5. QED BY <1>3, <1>4

(* Types are kept, and nothing travels without a link.                     *)
LEMMA LinkSteps ==
  ASSUME BleTyped, LinkHolds,
         LinkComesUp \/ LinkDrops \/ ServerHearsDown \/ PhoneHearsDown \/ NotificationLost
  PROVE  BleTyped' /\ LinkHolds'
<1>1. 0 \in Sockets /\ <<>> \in Seq(Piece) /\ <<>> \in Seq(PhoneMessage) /\ <<>> \in Seq(ServerMessage)
  BY BleAssumption, EmptySeq DEF Sockets
<1>2. CASE LinkComesUp
  <2>1. <<Simple("here", 0)>> \in Seq(PhoneMessage)
    BY <1>1 DEF Simple, PhoneMessage
  <2>2. tally' \in TallyType
    BY <1>2, PlusIs DEF LinkComesUp
  <2>3. server' \in ServerType /\ server'.link
    BY <1>1, <1>2 DEF LinkComesUp, FreshServer, ServerType
  <2>4. /\ phone' \in PhoneType
        /\ phone'.link /\ phone'.open = phone.open /\ phone'.socket = phone.socket
    BY <1>2 DEF LinkComesUp, BleTyped, PhoneType
  <2>5. QED BY <1>2, <2>1, <2>2, <2>3, <2>4 DEF LinkComesUp, BleTyped, LinkHolds
<1>3. CASE LinkDrops
  <2>1. why' \subseteq Excuses
    BY <1>3 DEF LinkDrops, BleTyped, Excuses
  <2>2. QED BY <1>1, <1>3, <2>1 DEF LinkDrops, BleTyped, LinkHolds
<1>4. CASE ServerHearsDown
  <2>1. server' \in ServerType
    BY <1>1, <1>4 DEF ServerHearsDown, BleTyped, ServerType
  <2>2. QED BY <1>4, <2>1 DEF ServerHearsDown, BleTyped, LinkHolds
<1>5. CASE PhoneHearsDown
  <2>1. /\ phone' \in PhoneType
        /\ phone'.socket = 0 /\ ~phone'.open /\ ~phone'.here
    BY <1>1, <1>5 DEF PhoneHearsDown, PhoneDown, BleTyped, PhoneType
  <2>2. QED BY <1>5, <2>1 DEF PhoneHearsDown, BleTyped, LinkHolds
<1>6. CASE NotificationLost
  <2>1. Tail(toServer) \in Seq(ServerMessage) /\ why' \subseteq Excuses /\ radio
    BY <1>6, TailIs DEF NotificationLost, BleTyped, LinkHolds, Excuses
  <2>2. tally' \in TallyType
    BY <1>6, PlusIs DEF NotificationLost
  <2>3. QED BY <1>6, <2>1, <2>2 DEF NotificationLost, BleTyped, LinkHolds
<1>7. QED BY <1>2, <1>3, <1>4, <1>5, <1>6

(* What the phone does of itself keeps them too.                           *)
LEMMA PhoneSteps ==
  ASSUME BleTyped, LinkHolds, Dials \/ PhoneSays \/ PhoneCloses \/ Asks
  PROVE  BleTyped' /\ LinkHolds'
<1>1. 0 \in Sockets /\ <<>> \in Seq(Piece)
  BY BleAssumption, EmptySeq DEF Sockets
<1>2. phone \in PhoneType /\ tally \in TallyType
  BY DEF BleTyped
<1>3. CASE Dials
  <2>1. tally.dials + 1 \in Sockets /\ tally.dials + 1 # 0
    <3>1. tally.dials \in Nat /\ tally.dials < MaxDials /\ MaxDials \in Nat
      BY <1>2, <1>3, BleAssumption DEF Dials, TallyType, Sockets
    <3>2. QED BY <3>1 DEF Sockets
  <2>2. <<Simple("open", tally.dials + 1)>> \in Seq(ServerMessage)
    BY <2>1 DEF Simple, ServerMessage
  <2>3. tally' \in TallyType
    BY <1>2, <1>3, <2>1 DEF Dials, Plus, TallyType
  <2>4. phone' \in PhoneType /\ phone'.link = phone.link /\ ~phone'.open /\ phone'.here
    BY <1>2, <1>3, <2>1 DEF Dials, PhoneType
  <2>5. why' \subseteq Excuses
    BY <1>3 DEF Dials, BleTyped, Excuses
  <2>6. toServer' \in Seq(ServerMessage) /\ (~radio => toServer' = toServer)
    BY <1>3, <2>2, SendsIs DEF Dials
  <2>7. QED BY <1>3, <2>3, <2>4, <2>5, <2>6 DEF Dials, BleTyped, LinkHolds
<1>4. CASE PhoneSays
  <2>1. PICK text \in Texts(phone.socket) : Sends(text)
    BY <1>4 DEF PhoneSays
  <2>2. text \in Seq(ServerMessage)
    BY <1>2, <2>1, TextIs, SeqMonotonic DEF ServerMessage, PhoneType
  <2>3. toServer' \in Seq(ServerMessage) /\ (~radio => toServer' = toServer)
    BY <2>1, <2>2, SendsIs
  <2>4. tally' \in TallyType
    BY <1>4, PlusIs DEF PhoneSays
  <2>5. QED BY <1>4, <2>3, <2>4 DEF PhoneSays, BleTyped, LinkHolds
<1>5. CASE PhoneCloses
  <2>1. <<Simple("close", phone.socket)>> \in Seq(ServerMessage)
    BY <1>2 DEF Simple, ServerMessage, PhoneType
  <2>2. toServer' \in Seq(ServerMessage) /\ (~radio => toServer' = toServer)
    BY <1>5, <2>1, SendsIs DEF PhoneCloses
  <2>3. /\ phone' \in PhoneType /\ phone'.link = phone.link /\ ~phone'.open
        /\ phone'.socket = 0 /\ phone'.here = phone.here
    BY <1>1, <1>2, <1>5 DEF PhoneCloses, PhoneType
  <2>4. QED BY <1>5, <2>2, <2>3 DEF PhoneCloses, BleTyped, LinkHolds
<1>6. CASE Asks
  <2>1. \A b \in BOOLEAN : <<WhereSays(b)>> \in Seq(ServerMessage)
    BY DEF WhereSays, ServerMessage
  <2>2. PICK b \in BOOLEAN : Sends(<<WhereSays(b)>>)
    BY <1>6 DEF Asks
  <2>3. toServer' \in Seq(ServerMessage) /\ (~radio => toServer' = toServer)
    BY <2>1, <2>2, SendsIs
  <2>4. tally' \in TallyType
    BY <1>6, PlusIs DEF Asks
  <2>5. /\ phone' \in PhoneType /\ phone'.link
        /\ phone'.open => phone'.socket # 0
    <3>1. CASE UNCHANGED phone
      BY <1>2, <1>6, <3>1 DEF Asks, LinkHolds
    <3>2. CASE phone' = [link |-> TRUE, socket |-> 0, open |-> FALSE, parts |-> <<>>, here |-> FALSE]
      BY <1>1, <3>2 DEF PhoneType
    <3>3. QED BY <1>6, <3>1, <3>2 DEF Asks
  <2>6. QED BY <1>6, <2>3, <2>4, <2>5 DEF Asks, BleTyped, LinkHolds
<1>7. QED BY <1>3, <1>4, <1>5, <1>6

(* What a message is, by its kind.                                         *)
LEMMA KindsAre ==
  /\ \A m \in PhoneMessage :
       /\ m.kind \in {"here", "opened", "close", "part", "text"} /\ m.n \in Sockets
       /\ m.kind \in {"part", "text"} => m \in Piece
  /\ \A m \in ServerMessage :
       /\ m.kind \in {"open", "close", "where", "part", "text"} /\ m.n \in Sockets
       /\ m.kind \in {"part", "text"} => m \in Piece
       /\ m.kind = "where" => m.open \in BOOLEAN
<1>1. 0 \in Sockets
  BY BleAssumption DEF Sockets
<1>2. \A m \in Piece : m.kind \in {"part", "text"} /\ m.n \in Sockets
  BY DEF Piece
<1>3. \A m \in PhoneMessage :
        m \in Piece \/ (m.kind \in {"here", "opened", "close"} /\ m.n \in Sockets)
  BY DEF PhoneMessage
<1>4. \A m \in ServerMessage :
        \/ m \in Piece
        \/ m.kind \in {"open", "close"} /\ m.n \in Sockets
        \/ m.kind = "where" /\ m.n \in Sockets /\ m.open \in BOOLEAN
  BY <1>1 DEF ServerMessage
<1>5. QED BY <1>2, <1>3, <1>4

(* What the phone makes of a message.                                      *)
LEMMA PhoneHearsIs ==
  ASSUME BleTyped, LinkHolds, PhoneHears, NEW m, m = toPhone[1]
  PROVE  /\ toPhone # <<>> /\ toPhone' = Tail(toPhone) /\ m \in PhoneMessage /\ phone' \in PhoneType
         /\ phone'.link = phone.link /\ radio
         /\ m.kind = "here" =>
              /\ phone'.open = phone.open /\ phone'.socket = phone.socket
              /\ phone'.parts = phone.parts /\ heard' = heard
         /\ m.kind = "opened" =>
              /\ phone'.open = (phone.socket # 0) /\ phone'.socket = phone.socket
              /\ phone'.parts = phone.parts /\ heard' = heard
         /\ m.kind = "part" =>
              /\ phone'.open = phone.open /\ phone'.socket = phone.socket
              /\ phone'.parts = Append(phone.parts, m) /\ heard' = heard
         /\ m.kind = "text" =>
              /\ phone'.open = phone.open /\ phone'.socket = phone.socket
              /\ phone'.parts = <<>>
              /\ heard' = IF phone.open
                          THEN [at |-> "phone", socket |-> phone.socket,
                                pieces |-> Append(phone.parts, m)]
                          ELSE heard
         /\ m.kind = "close" =>
              /\ ~phone'.open /\ phone'.socket = 0 /\ phone'.parts = <<>> /\ heard' = heard
<1>1. /\ toPhone # <<>> /\ toPhone' = Tail(toPhone) /\ Head(toPhone) = m /\ m \in PhoneMessage
      /\ phone \in PhoneType /\ radio
  BY TailIs DEF PhoneHears, BleTyped, LinkHolds
<1>2. 0 \in Sockets /\ <<>> \in Seq(Piece)
  BY BleAssumption, EmptySeq DEF Sockets
<1>3. m.kind \in {"here", "opened", "close", "part", "text"}
      /\ (m.kind = "part" => Append(phone.parts, m) \in Seq(Piece))
  BY <1>1, KindsAre, AppendProperties DEF PhoneType
<1>4. CASE m.kind = "here"
  <2>1. phone' = [phone EXCEPT !.here = TRUE] /\ heard' = heard
    BY <1>1, <1>4 DEF PhoneHears
  <2>2. QED BY <1>1, <1>4, <2>1 DEF PhoneType
<1>5. CASE m.kind = "opened"
  <2>1. phone' = [phone EXCEPT !.open = phone.socket # 0] /\ heard' = heard
    BY <1>1, <1>5 DEF PhoneHears
  <2>2. QED BY <1>1, <1>5, <2>1 DEF PhoneType
<1>6. CASE m.kind = "part"
  <2>1. phone' = [phone EXCEPT !.parts = Append(phone.parts, m)] /\ heard' = heard
    BY <1>1, <1>6 DEF PhoneHears
  <2>2. QED BY <1>1, <1>3, <1>6, <2>1 DEF PhoneType
<1>7. CASE m.kind = "text"
  <2>1. phone' = [phone EXCEPT !.parts = <<>>]
    BY <1>1, <1>7 DEF PhoneHears
  <2>2. heard' = IF phone.open
                 THEN [at |-> "phone", socket |-> phone.socket, pieces |-> Append(phone.parts, m)]
                 ELSE heard
    BY <1>1, <1>7 DEF PhoneHears
  <2>3. QED BY <1>1, <1>2, <1>7, <2>1, <2>2 DEF PhoneType
<1>8. CASE m.kind = "close"
  <2>1. phone' = [phone EXCEPT !.parts = <<>>, !.socket = 0, !.open = FALSE] /\ heard' = heard
    BY <1>1, <1>8 DEF PhoneHears
  <2>2. QED BY <1>1, <1>2, <1>8, <2>1 DEF PhoneType
<1>9. QED BY <1>3, <1>4, <1>5, <1>6, <1>7, <1>8

(* What the server makes of one.                                           *)
LEMMA ServerHearsIs ==
  ASSUME BleTyped, LinkHolds, ServerHears, NEW m, m = toServer[1]
  PROVE  /\ toServer # <<>> /\ toServer' = Tail(toServer) /\ m \in ServerMessage
         /\ server' \in ServerType /\ server'.link = server.link /\ radio
         /\ m.kind = "where" =>
              /\ server'.socket = (IF m.open THEN server.socket ELSE 0)
              /\ toPhone' = Append(toPhone, Simple("here", 0))
              /\ server'.parts = server.parts /\ heard' = heard
         /\ m.kind = "open" =>
              /\ \/ server'.socket = m.n /\ toPhone' = Append(toPhone, Simple("opened", m.n))
                 \/ /\ server'.socket = 0
                    /\ toPhone' = toPhone \o <<Simple("opened", m.n), Simple("close", m.n)>>
              /\ server'.parts = server.parts /\ heard' = heard
         /\ m.kind = "part" =>
              /\ server'.socket = server.socket /\ toPhone' = toPhone
              /\ server'.parts = Append(server.parts, m) /\ heard' = heard
         /\ m.kind = "text" =>
              /\ server'.socket = server.socket /\ server'.parts = <<>> /\ toPhone' = toPhone
              /\ heard' = IF server.socket = 0 THEN heard
                          ELSE [at |-> "server", socket |-> server.socket,
                                pieces |-> Append(server.parts, m)]
         /\ m.kind = "close" =>
              /\ server'.socket = 0 /\ server'.parts = <<>> /\ toPhone' = toPhone /\ heard' = heard
<1>1. /\ toServer # <<>> /\ toServer' = Tail(toServer) /\ Head(toServer) = m /\ m \in ServerMessage
      /\ server \in ServerType /\ radio
  BY TailIs DEF ServerHears, BleTyped, LinkHolds
<1>2. 0 \in Sockets /\ <<>> \in Seq(Piece) /\ m.n \in Sockets
  BY <1>1, KindsAre, BleAssumption, EmptySeq DEF Sockets
<1>3. m.kind \in {"open", "close", "where", "part", "text"}
      /\ (m.kind = "part" => Append(server.parts, m) \in Seq(Piece))
  BY <1>1, KindsAre, AppendProperties DEF ServerType
<1>4. CASE m.kind = "where"
  <2>1. /\ server' = [server EXCEPT !.socket = AfterWhere(m)] /\ heard' = heard
        /\ toPhone' = Append(toPhone, Simple("here", 0))
    BY <1>1, <1>4 DEF ServerHears
  <2>2. QED BY <1>1, <1>2, <1>4, <2>1 DEF ServerType, AfterWhere
<1>5. CASE m.kind = "open"
  <2>1. \/ /\ server' = [server EXCEPT !.socket = m.n]
           /\ toPhone' = Append(toPhone, Simple("opened", m.n))
        \/ /\ server' = [server EXCEPT !.socket = 0]
           /\ toPhone' = toPhone \o <<Simple("opened", m.n), Simple("close", m.n)>>
    BY <1>1, <1>5 DEF ServerHears
  <2>2. heard' = heard
    BY <1>1, <1>5 DEF ServerHears
  <2>3. QED BY <1>1, <1>2, <1>5, <2>1, <2>2 DEF ServerType
<1>6. CASE m.kind = "part"
  <2>1. server' = [server EXCEPT !.parts = Append(server.parts, m)] /\ heard' = heard /\ toPhone' = toPhone
    BY <1>1, <1>6 DEF ServerHears
  <2>2. QED BY <1>1, <1>3, <1>6, <2>1 DEF ServerType
<1>7. CASE m.kind = "text"
  <2>1. server' = [server EXCEPT !.parts = <<>>] /\ toPhone' = toPhone
    BY <1>1, <1>7 DEF ServerHears
  <2>2. heard' = IF server.socket = 0 THEN heard
                 ELSE [at |-> "server", socket |-> server.socket, pieces |-> Append(server.parts, m)]
    BY <1>1, <1>7 DEF ServerHears
  <2>3. QED BY <1>1, <1>2, <1>7, <2>1, <2>2 DEF ServerType
<1>8. CASE m.kind = "close"
  <2>1. server' = [server EXCEPT !.parts = <<>>, !.socket = 0] /\ heard' = heard /\ toPhone' = toPhone
    BY <1>1, <1>8 DEF ServerHears
  <2>2. QED BY <1>1, <1>2, <1>8, <2>1 DEF ServerType
<1>9. QED BY <1>3, <1>4, <1>5, <1>6, <1>7, <1>8

(* And so does a message taken at either end,                              *)
LEMMA HearingSteps ==
  ASSUME BleTyped, LinkHolds, PhoneHears \/ ServerHears
  PROVE  BleTyped' /\ LinkHolds'
<1> DEFINE HeardType == [at : {"none", "phone", "server"}, socket : Sockets, pieces : Seq(Piece)]
<1>1. CASE PhoneHears
  <2> DEFINE m == toPhone[1]
  <2>1. /\ toPhone # <<>> /\ toPhone' = Tail(toPhone) /\ m \in PhoneMessage /\ phone' \in PhoneType
        /\ phone'.link = phone.link /\ radio
    BY <1>1, PhoneHearsIs
  <2>2. Tail(toPhone) \in Seq(PhoneMessage)
    BY <2>1, TailIs DEF BleTyped
  <2>3. m.kind \in {"here", "opened", "close", "part", "text"} /\ (m.kind = "text" => m \in Piece)
    BY <2>1, KindsAre
  <2>4. heard' \in HeardType /\ (phone'.open => phone'.socket # 0)
    <3>1. m.kind = "text" => Append(phone.parts, m) \in Seq(Piece) /\ phone.socket \in Sockets
      BY <2>3, AppendProperties DEF BleTyped, PhoneType
    <3>2. heard \in HeardType
      BY DEF BleTyped
    <3>3. \/ heard' = heard
          \/ m.kind = "text" /\ heard' = [at |-> "phone", socket |-> phone.socket,
                                          pieces |-> Append(phone.parts, m)]
      BY <1>1, <2>3, PhoneHearsIs
    <3>4. phone'.open => phone'.socket # 0
      BY <1>1, <2>3, PhoneHearsIs DEF LinkHolds
    <3>5. CASE heard' = heard
      BY <3>2, <3>4, <3>5
    <3>6. CASE m.kind = "text" /\ heard' = [at |-> "phone", socket |-> phone.socket,
                                           pieces |-> Append(phone.parts, m)]
      BY <3>1, <3>4, <3>6
    <3>7. QED BY <3>3, <3>5, <3>6
  <2>5. QED BY <1>1, <2>1, <2>2, <2>4 DEF PhoneHears, BleTyped, LinkHolds
<1>2. CASE ServerHears
  <2> DEFINE m == toServer[1]
  <2>1. /\ toServer # <<>> /\ toServer' = Tail(toServer) /\ m \in ServerMessage
        /\ server' \in ServerType /\ server'.link = server.link /\ radio
    BY <1>2, ServerHearsIs
  <2>2. Tail(toServer) \in Seq(ServerMessage)
    BY <2>1, TailIs DEF BleTyped
  <2>3. /\ m.kind \in {"open", "close", "where", "part", "text"} /\ (m.kind = "text" => m \in Piece)
        /\ m.n \in Sockets
    BY <2>1, KindsAre
  <2>4. heard' \in HeardType
    <3>1. m.kind = "text" => Append(server.parts, m) \in Seq(Piece) /\ server.socket \in Sockets
      BY <2>3, AppendProperties DEF BleTyped, ServerType
    <3>2. heard \in HeardType
      BY DEF BleTyped
    <3>3. \/ heard' = heard
          \/ m.kind = "text" /\ heard' = [at |-> "server", socket |-> server.socket,
                                          pieces |-> Append(server.parts, m)]
      BY <1>2, <2>3, ServerHearsIs
    <3>4. CASE heard' = heard
      BY <3>2, <3>4
    <3>5. CASE m.kind = "text" /\ heard' = [at |-> "server", socket |-> server.socket,
                                           pieces |-> Append(server.parts, m)]
      BY <3>1, <3>5
    <3>6. QED BY <3>3, <3>4, <3>5
  <2>5. toPhone' \in Seq(PhoneMessage)
    <3>1. \A kind \in {"here", "opened", "close"}, n \in Sockets : Simple(kind, n) \in PhoneMessage
      BY DEF Simple, PhoneMessage
    <3>2. 0 \in Sockets /\ toPhone \in Seq(PhoneMessage)
      BY BleAssumption DEF Sockets, BleTyped
    <3>3. \/ toPhone' = toPhone
          \/ toPhone' = Append(toPhone, Simple("here", 0))
          \/ toPhone' = Append(toPhone, Simple("opened", m.n))
          \/ toPhone' = toPhone \o <<Simple("opened", m.n), Simple("close", m.n)>>
      BY <1>2, <2>3, ServerHearsIs
    <3>4. Simple("here", 0) \in PhoneMessage /\ Simple("opened", m.n) \in PhoneMessage
          /\ Simple("close", m.n) \in PhoneMessage
      BY <2>3, <3>1, <3>2
    <3> DEFINE a == Simple("opened", m.n)
               b == Simple("close", m.n)
               c == Simple("here", 0)
    <3> HIDE DEF a, b, c
    <3>5. <<a, b>> \in Seq(PhoneMessage)
      BY <3>4 DEF a, b
    <3>6. /\ toPhone \o <<a, b>> \in Seq(PhoneMessage) /\ Append(toPhone, a) \in Seq(PhoneMessage)
          /\ Append(toPhone, c) \in Seq(PhoneMessage)
      BY <3>2, <3>4, <3>5, MoreIs, AppendProperties DEF a, c
    <3>7. QED BY <3>2, <3>3, <3>6 DEF a, b, c
  <2>6. QED BY <1>2, <2>1, <2>2, <2>4, <2>5 DEF ServerHears, BleTyped, LinkHolds
<1>3. QED BY <1>1, <1>2

(* and what the server says or closes.                                     *)
LEMMA ServerSteps ==
  ASSUME BleTyped, LinkHolds, ServerSays \/ ServerCloses
  PROVE  BleTyped' /\ LinkHolds'
<1>1. CASE ServerSays
  <2>1. PICK text \in Texts(server.socket) : Says(text)
    BY <1>1 DEF ServerSays
  <2>2. server.socket \in Sockets
    BY DEF BleTyped, ServerType
  <2>3. /\ toPhone' \in Seq(PhoneMessage) /\ server' \in ServerType
        /\ server'.link = server.link /\ (~radio => toPhone' = toPhone)
    BY <2>1, <2>2, SaysIs
  <2>4. tally' \in TallyType
    BY <1>1, PlusIs DEF ServerSays
  <2>5. QED BY <1>1, <2>3, <2>4 DEF ServerSays, BleTyped, LinkHolds
<1>2. CASE ServerCloses
  <2>1. 0 \in Sockets /\ server \in ServerType
    BY BleAssumption DEF Sockets, BleTyped
  <2>2. Append(toPhone, Simple("close", server.socket)) \in Seq(PhoneMessage)
    <3>1. Simple("close", server.socket) \in PhoneMessage
      BY <2>1 DEF Simple, PhoneMessage, ServerType
    <3>2. QED BY <3>1, AppendProperties DEF BleTyped
  <2>3. toPhone' \in Seq(PhoneMessage) /\ (~radio => toPhone' = toPhone)
    BY <1>2, <2>2 DEF ServerCloses, BleTyped
  <2>4. server' \in ServerType /\ server'.link = server.link
    BY <1>2, <2>1 DEF ServerCloses, ServerType
  <2>5. QED BY <1>2, <2>3, <2>4 DEF ServerCloses, BleTyped, LinkHolds
<1>3. QED BY <1>1, <1>2

(* Every step keeps them.                                                  *)
LEMMA BleTypedKept ==
  ASSUME BleTyped, LinkHolds, BleNext
  PROVE  BleTyped' /\ LinkHolds'
BY LinkSteps, PhoneSteps, HearingSteps, ServerSteps DEF BleNext

-----------------------------------------------------------------------------
(* Texts come whole.                                                       *)

(* Less is asked of what may have lost its part, or of nothing.            *)
LEMMA WholeIsLess ==
  ASSUME NEW parts, NEW q, NEW orphan, InPieces(parts, q, orphan)
  PROVE  /\ \A later \in BOOLEAN : (orphan => later) => InPieces(parts, q, later)
         /\ InPieces(<<>>, q, TRUE)
         /\ InPieces(parts, <<>>, FALSE)
<1>1. \A j \in 1 .. Len(<<>>) : FALSE
  OBVIOUS
<1>2. ASSUME NEW later \in BOOLEAN, orphan => later PROVE InPieces(parts, q, later)
  BY <1>2, Zenon DEF InPieces
<1>3. InPieces(<<>>, q, TRUE)
  BY DEF InPieces
<1>4. InPieces(parts, <<>>, FALSE)
  BY <1>1, Zenon DEF InPieces
<1>5. QED BY <1>2, <1>3, <1>4

(* What is said has no text in it but a whole one.                         *)
LEMMA MoreWhole ==
  ASSUME NEW S, NEW parts \in Seq(Piece), NEW q \in Seq(S), NEW more \in Seq(S), NEW orphan,
         InPieces(parts, q, orphan), parts = <<>> \/ q # <<>>,
         InPieces(<<>>, more, FALSE), more # <<>>
  PROVE  InPieces(parts, q \o more, orphan) /\ q \o more # <<>>
<1>1. Len(q) \in Nat /\ Len(more) \in Nat /\ Len(q \o more) = Len(q) + Len(more) /\ Len(more) # 0
  BY MoreIs, EmptySeq
<1>2. q \o more # <<>>
  BY <1>1
<1>3. QED BY <1>2, WholeWithMore

(* A message that is no text, alone.                                       *)
LEMMA OneMessage ==
  ASSUME NEW S, NEW a \in S, a.kind # "part" /\ a.kind # "text"
  PROVE  <<a>> \in Seq(S) /\ <<a>> # <<>> /\ InPieces(<<>>, <<a>>, FALSE)
<1>1. <<a>> \in Seq(S) /\ <<a>> # <<>>
  OBVIOUS
<1>2. InPieces(<<>>, <<a>>, FALSE)
  BY OneIsWhole, Zenon
<1>3. QED BY <1>1, <1>2

(* Two of them.                                                            *)
LEMMA TwoMessages ==
  ASSUME NEW S, NEW a \in S, NEW b \in S,
         a.kind # "part" /\ a.kind # "text", b.kind # "part" /\ b.kind # "text"
  PROVE  <<a, b>> \in Seq(S) /\ <<a, b>> # <<>> /\ InPieces(<<>>, <<a, b>>, FALSE)
<1>1. <<a, b>> \in Seq(S) /\ <<a, b>> # <<>>
  OBVIOUS
<1>2. InPieces(<<>>, <<a, b>>, FALSE)
  BY OneIsWhole, Zenon
<1>3. QED BY <1>1, <1>2

(* No step tears a text on its way to the server,                          *)
LEMMA ServerWholeKept ==
  ASSUME BleTyped, LinkHolds, ServerWhole, BleNext
  PROVE  ServerWhole'
<1> SUFFICES ASSUME "lost" \notin why'
             PROVE  InPieces(server'.parts, toServer', FALSE)
                    /\ (radio' => server'.parts = <<>> \/ toServer' # <<>>)
  BY DEF ServerWhole, InPieces
<1> DEFINE Goal == InPieces(server'.parts, toServer', FALSE)
                   /\ (radio' => server'.parts = <<>> \/ toServer' # <<>>)
<1>1. ASSUME "lost" \notin why PROVE Goal
  <2>1. /\ InPieces(server.parts, toServer, FALSE)
        /\ radio => server.parts = <<>> \/ toServer # <<>>
        /\ ~radio => toServer = <<>>
        /\ server.parts \in Seq(Piece) /\ toServer \in Seq(ServerMessage) /\ server \in ServerType
    BY <1>1 DEF ServerWhole, LinkHolds, BleTyped, ServerType
  <2>2. ASSUME server'.parts = server.parts, toServer' = toServer, radio' = radio PROVE Goal
    BY <2>1, <2>2
  <2>3. ASSUME NEW more \in Seq(ServerMessage), InPieces(<<>>, more, FALSE), more # <<>>, Sends(more),
               server' = server, radio' = radio
        PROVE  Goal
    <3>1. CASE radio
      <4>1. toServer' = toServer \o more
        BY <2>3, <3>1 DEF Sends
      <4>2. InPieces(server.parts, toServer \o more, FALSE) /\ toServer \o more # <<>>
        BY <2>1, <2>3, <3>1, MoreWhole
      <4>3. QED BY <2>3, <4>1, <4>2
    <3>2. CASE ~radio
      BY <2>2, <2>3, <3>2 DEF Sends
    <3>3. QED BY <3>1, <3>2
  <2>4. CASE LinkComesUp
    BY <2>1, <2>4, OneIsWhole DEF LinkComesUp, FreshServer
  <2>5. CASE LinkDrops
    BY <2>1, <2>5, WholeIsLess DEF LinkDrops
  <2>6. CASE NotificationLost
    <3>1. "lost" \in why'
      BY <2>6 DEF NotificationLost
    <3>2. QED BY <3>1
  <2>7. CASE ServerHearsDown \/ PhoneHearsDown \/ PhoneHears \/ ServerCloses
    <3>1. server'.parts = server.parts
      BY <2>1, <2>7 DEF ServerHearsDown, PhoneHearsDown, PhoneHears, ServerCloses, ServerType
    <3>2. QED BY <2>2, <2>7, <3>1 DEF ServerHearsDown, PhoneHearsDown, PhoneHears, ServerCloses
  <2>8. CASE ServerSays
    <3>1. PICK text \in Texts(server.socket) : Says(text)
      BY <2>8 DEF ServerSays
    <3>2. server'.parts = server.parts
      BY <2>1, <3>1, SaysIs DEF ServerType
    <3>3. QED BY <2>2, <2>8, <3>2 DEF ServerSays
  <2>9. CASE Dials
    <3> DEFINE a == Simple("open", tally.dials + 1)
    <3>1. a.kind = "open" /\ a \in ServerMessage
      <4>1. tally.dials + 1 \in Sockets
        <5>1. tally.dials \in Nat /\ tally.dials < MaxDials /\ MaxDials \in Nat
          BY <2>9, BleAssumption DEF Dials, BleTyped, TallyType, Sockets
        <5>2. QED BY <5>1 DEF Sockets
      <4>2. QED BY <4>1 DEF Simple, ServerMessage
    <3>2. Sends(<<a>>)
      BY <2>9 DEF Dials
    <3> HIDE DEF a
    <3>3. <<a>> \in Seq(ServerMessage) /\ <<a>> # <<>> /\ InPieces(<<>>, <<a>>, FALSE)
      BY <3>1, OneMessage
    <3>4. QED BY <2>3, <2>9, <3>2, <3>3 DEF Dials
  <2>10. CASE PhoneSays
    <3>1. PICK text \in Texts(phone.socket) : Sends(text)
      BY <2>10 DEF PhoneSays
    <3>2. phone.socket \in Sockets
      BY DEF BleTyped, PhoneType
    <3>3. text \in Seq(ServerMessage) /\ text # <<>> /\ InPieces(<<>>, text, FALSE)
      <4>1. text \in Seq(Piece) /\ Len(text) \in 1 .. 2
        BY <3>2, TextIs
      <4>2. text # <<>>
        BY <4>1, EmptySeq
      <4>3. text \in Seq(ServerMessage)
        BY <4>1, SeqMonotonic DEF ServerMessage
      <4>4. QED BY <3>2, <4>2, <4>3, TextIsWhole
    <3>4. QED BY <2>3, <2>10, <3>1, <3>3 DEF PhoneSays
  <2>11. CASE PhoneCloses
    <3> DEFINE a == Simple("close", phone.socket)
    <3>1. a.kind = "close" /\ a \in ServerMessage
      BY DEF BleTyped, PhoneType, Simple, ServerMessage
    <3>2. Sends(<<a>>)
      BY <2>11 DEF PhoneCloses
    <3> HIDE DEF a
    <3>3. <<a>> \in Seq(ServerMessage) /\ <<a>> # <<>> /\ InPieces(<<>>, <<a>>, FALSE)
      BY <3>1, OneMessage
    <3>4. QED BY <2>3, <2>11, <3>2, <3>3 DEF PhoneCloses
  <2>12. CASE Asks
    <3>1. PICK a : (\E b \in BOOLEAN : a = WhereSays(b)) /\ Sends(<<a>>)
      BY <2>12 DEF Asks
    <3>2. a.kind = "where" /\ a \in ServerMessage
      BY <3>1 DEF WhereSays, ServerMessage
    <3>3. <<a>> \in Seq(ServerMessage) /\ <<a>> # <<>> /\ InPieces(<<>>, <<a>>, FALSE)
      BY <3>2, OneMessage
    <3>4. QED BY <2>3, <2>12, <3>1, <3>3 DEF Asks
  <2>13. CASE ServerHears
    <3> DEFINE m == toServer[1]
    <3>1. /\ toServer # <<>> /\ toServer' = Tail(toServer) /\ m \in ServerMessage
          /\ m.kind = "part" => server'.parts = Append(server.parts, m)
          /\ m.kind \in {"where", "open"} => server'.parts = server.parts
          /\ m.kind \in {"text", "close"} => server'.parts = <<>>
      BY <2>13, ServerHearsIs
    <3>2. m.kind \in {"open", "close", "where", "part", "text"}
      BY <3>1, KindsAre
    <3>3. /\ m.kind = "part" => /\ server.parts = <<>> /\ Tail(toServer) # <<>>
                                /\ InPieces(<<m>>, Tail(toServer), FALSE)
          /\ m.kind # "part" => InPieces(<<>>, Tail(toServer), FALSE)
          /\ m.kind \notin {"part", "text"} => server.parts = <<>>
      BY <2>1, <3>1, WholeWhenTaken
    <3>4. Append(<<>>, m) = <<m>>
      OBVIOUS
    <3> HIDE DEF m
    <3>5. QED BY <3>1, <3>2, <3>3, <3>4
  <2>14. QED
    BY <2>4, <2>5, <2>6, <2>7, <2>8, <2>9, <2>10, <2>11, <2>12, <2>13 DEF BleNext
<1>2. why \subseteq why'
  BY DEF BleNext, LinkComesUp, LinkDrops, ServerHearsDown, PhoneHearsDown, NotificationLost,
         Dials, PhoneSays, PhoneCloses, Asks, PhoneHears, ServerSays, ServerCloses, ServerHears
<1>3. QED BY <1>1, <1>2

(* What the server sends in answer, or of its own.                         *)
LEMMA AnswersAre ==
  ASSUME BleTyped, LinkHolds, ServerHears, NEW m, m = toServer[1]
  PROVE  \/ toPhone' = toPhone
         \/ \E more \in Seq(PhoneMessage) :
              /\ toPhone' = toPhone \o more /\ more # <<>> /\ InPieces(<<>>, more, FALSE)
              /\ \/ m.kind = "where" /\ more = <<Simple("here", 0)>>
                 \/ /\ m.kind = "open"
                    /\ \/ more = <<Simple("opened", m.n)>>
                       \/ more = <<Simple("opened", m.n), Simple("close", m.n)>>
<1> DEFINE a == Simple("opened", m.n)
           b == Simple("close", m.n)
           c == Simple("here", 0)
<1>1. /\ m \in ServerMessage
      /\ m.kind = "where" => toPhone' = Append(toPhone, c)
      /\ m.kind = "open" => toPhone' = Append(toPhone, a) \/ toPhone' = toPhone \o <<a, b>>
      /\ m.kind \in {"part", "text", "close"} => toPhone' = toPhone
  BY ServerHearsIs
<1>2. m.kind \in {"open", "close", "where", "part", "text"} /\ m.n \in Sockets /\ 0 \in Sockets
  BY <1>1, KindsAre, BleAssumption DEF Sockets
<1>3. /\ a \in PhoneMessage /\ b \in PhoneMessage /\ c \in PhoneMessage
      /\ a.kind = "opened" /\ b.kind = "close" /\ c.kind = "here"
  BY <1>2 DEF Simple, PhoneMessage
<1> HIDE DEF a, b, c
<1>4. toPhone \in Seq(PhoneMessage)
  BY DEF BleTyped
<1>5. Append(toPhone, a) = toPhone \o <<a>> /\ Append(toPhone, c) = toPhone \o <<c>>
  BY <1>3, <1>4, AppendIsConcat
<1>6. /\ <<a>> \in Seq(PhoneMessage) /\ <<a>> # <<>> /\ InPieces(<<>>, <<a>>, FALSE)
      /\ <<c>> \in Seq(PhoneMessage) /\ <<c>> # <<>> /\ InPieces(<<>>, <<c>>, FALSE)
  BY <1>3, OneMessage
<1>7. <<a, b>> \in Seq(PhoneMessage) /\ <<a, b>> # <<>> /\ InPieces(<<>>, <<a, b>>, FALSE)
  <2>1. a.kind # "part" /\ a.kind # "text" /\ b.kind # "part" /\ b.kind # "text"
    BY <1>3
  <2>2. QED BY <1>3, <2>1, TwoMessages
<1>8. CASE m.kind = "where"
  BY <1>1, <1>5, <1>6, <1>8 DEF c
<1>9. CASE m.kind = "open"
  BY <1>1, <1>5, <1>6, <1>7, <1>9 DEF a, b
<1>10. QED BY <1>1, <1>2, <1>8, <1>9

(* nor one on its way to the phone.                                        *)
LEMMA PhoneWholeKept ==
  ASSUME BleTyped, LinkHolds, PhoneWhole, BleNext
  PROVE  PhoneWhole'
<1> SUFFICES ASSUME "cut" \notin why'
             PROVE  InPieces(phone'.parts, toPhone', ~phone'.open)
                    /\ (phone'.parts = <<>> \/ toPhone' # <<>>)
  BY DEF PhoneWhole, InPieces
<1> DEFINE Goal == InPieces(phone'.parts, toPhone', ~phone'.open)
                   /\ (phone'.parts = <<>> \/ toPhone' # <<>>)
<1>1. ASSUME "cut" \notin why PROVE Goal
  <2>1. /\ InPieces(phone.parts, toPhone, ~phone.open)
        /\ phone.parts = <<>> \/ toPhone # <<>>
        /\ ~radio => toPhone = <<>>
        /\ phone.parts \in Seq(Piece) /\ toPhone \in Seq(PhoneMessage) /\ phone \in PhoneType
        /\ phone.open \in BOOLEAN
    BY <1>1 DEF PhoneWhole, LinkHolds, BleTyped, PhoneType
  <2>2. ASSUME phone'.parts = phone.parts, toPhone' = toPhone, phone'.open \in BOOLEAN,
               phone'.open => phone.open
        PROVE Goal
    <3>1. (~phone'.open) \in BOOLEAN /\ (~phone.open => ~phone'.open)
      BY <2>2
    <3>2. InPieces(phone.parts, toPhone, ~phone'.open)
      BY <2>1, <3>1, WholeIsLess
    <3>3. QED BY <2>1, <2>2, <3>2
  <2>3. ASSUME NEW more \in Seq(PhoneMessage), InPieces(<<>>, more, FALSE), more # <<>>,
               toPhone' = toPhone \o more, phone' = phone
        PROVE  Goal
    <3>1. InPieces(phone.parts, toPhone \o more, ~phone.open) /\ toPhone \o more # <<>>
      BY <2>1, <2>3, MoreWhole
    <3>2. QED BY <2>3, <3>1
  <2>4. CASE LinkComesUp
    <3> DEFINE a == Simple("here", 0)
    <3>1. toPhone = <<>> /\ phone.parts = <<>>
      BY <2>1, <2>4 DEF LinkComesUp
    <3>2. a \in PhoneMessage /\ a.kind = "here"
      BY BleAssumption DEF Simple, PhoneMessage, Sockets
    <3>3. toPhone' = <<a>> /\ phone'.parts = <<>> /\ phone'.open = phone.open
      BY <2>1, <2>4, <3>1 DEF LinkComesUp, PhoneType
    <3> HIDE DEF a
    <3>4. <<a>> # <<>> /\ InPieces(<<>>, <<a>>, FALSE)
      BY <3>2, OneMessage
    <3>5. InPieces(<<>>, <<a>>, ~phone.open)
      BY <2>1, <3>4, WholeIsLess
    <3>6. QED BY <3>3, <3>4, <3>5
  <2>5. CASE LinkDrops
    <3>1. phone.parts = <<>> /\ phone' = phone /\ toPhone' = <<>>
      BY <2>5 DEF LinkDrops
    <3>2. InPieces(<<>>, <<>>, ~phone.open)
      BY <2>1, OneIsWhole, WholeIsLess
    <3>3. QED BY <3>1, <3>2
  <2>6. CASE ServerHearsDown \/ NotificationLost \/ PhoneSays
    BY <2>1, <2>2, <2>6 DEF ServerHearsDown, NotificationLost, PhoneSays
  <2>7. CASE PhoneHearsDown \/ Dials \/ PhoneCloses
    <3>1. phone'.parts = phone.parts /\ ~phone'.open /\ phone'.open \in BOOLEAN
      BY <2>1, <2>7 DEF PhoneHearsDown, PhoneDown, Dials, PhoneCloses, PhoneType
    <3>2. QED BY <2>2, <2>7, <3>1 DEF PhoneHearsDown, Dials, PhoneCloses
  <2>8. CASE Asks
    <3>1. CASE UNCHANGED phone
      BY <2>1, <2>2, <2>8, <3>1 DEF Asks
    <3>2. CASE phone' = [link |-> TRUE, socket |-> 0, open |-> FALSE, parts |-> <<>>, here |-> FALSE]
      <4>1. phone'.parts = <<>> /\ phone'.open = FALSE /\ toPhone' = toPhone
        BY <2>8, <3>2 DEF Asks
      <4>2. InPieces(<<>>, toPhone, TRUE)
        BY <2>1, WholeIsLess
      <4>3. (~phone'.open) = TRUE
        BY <4>1
      <4>4. QED BY <4>1, <4>2, <4>3
    <3>3. QED BY <2>8, <3>1, <3>2 DEF Asks
  <2>9. CASE ServerSays
    <3>1. PICK text \in Texts(server.socket) : Says(text)
      BY <2>9 DEF ServerSays
    <3>2. server.socket \in Sockets
      BY DEF BleTyped, ServerType
    <3>3. text \in Seq(PhoneMessage) /\ text # <<>> /\ InPieces(<<>>, text, FALSE)
      <4>1. text \in Seq(Piece) /\ Len(text) \in 1 .. 2
        BY <3>2, TextIs
      <4>2. text # <<>>
        BY <4>1, EmptySeq
      <4>3. text \in Seq(PhoneMessage)
        BY <4>1, SeqMonotonic DEF PhoneMessage
      <4>4. QED BY <3>2, <4>2, <4>3, TextIsWhole
    <3>4. toPhone' = toPhone \o text \/ toPhone' = toPhone
      BY <3>1, <3>2, SaysIs DEF LinkHolds, BleTyped
    <3>5. phone' = phone
      BY <2>9 DEF ServerSays
    <3>6. QED BY <2>1, <2>2, <2>3, <3>3, <3>4, <3>5
  <2>10. CASE ServerCloses
    <3> DEFINE a == Simple("close", server.socket)
    <3>1. a.kind = "close" /\ a \in PhoneMessage
      BY DEF BleTyped, ServerType, Simple, PhoneMessage
    <3>2. toPhone' = (IF radio THEN Append(toPhone, a) ELSE toPhone) /\ phone' = phone
      BY <2>10 DEF ServerCloses
    <3> HIDE DEF a
    <3>3. <<a>> \in Seq(PhoneMessage) /\ <<a>> # <<>> /\ InPieces(<<>>, <<a>>, FALSE)
      BY <3>1, OneMessage
    <3>4. Append(toPhone, a) = toPhone \o <<a>>
      BY <2>1, <3>1, AppendIsConcat
    <3>5. QED BY <2>1, <2>2, <2>3, <3>2, <3>3, <3>4
  <2>11. CASE ServerHears
    <3>1. phone' = phone
      BY <2>11 DEF ServerHears
    <3>2. QED BY <2>1, <2>2, <2>3, <2>11, <3>1, AnswersAre
  <2>12. CASE PhoneHears
    <3> DEFINE m == toPhone[1]
               late == ~phone'.open
    <3>1. /\ toPhone # <<>> /\ toPhone' = Tail(toPhone) /\ m \in PhoneMessage
          /\ m.kind = "part" => phone'.parts = Append(phone.parts, m)
          /\ m.kind \in {"here", "opened"} => phone'.parts = phone.parts
          /\ m.kind \in {"text", "close"} => phone'.parts = <<>>
      BY <2>12, PhoneHearsIs
    <3>2. m.kind \in {"here", "opened", "close", "part", "text"}
      BY <3>1, KindsAre
    <3>3. /\ m.kind = "part" => /\ phone.parts = <<>> /\ Tail(toPhone) # <<>>
                                /\ InPieces(<<m>>, Tail(toPhone), late)
          /\ m.kind # "part" => InPieces(<<>>, Tail(toPhone), late)
          /\ m.kind \notin {"part", "text"} => phone.parts = <<>>
      BY <2>1, <3>1, WholeWhenTaken
    <3>4. Append(<<>>, m) = <<m>>
      OBVIOUS
    <3>5. (~phone'.open) = late
      OBVIOUS
    <3> HIDE DEF m, late
    <3>6. QED BY <3>1, <3>2, <3>3, <3>4, <3>5
  <2>13. QED
    BY <2>4, <2>5, <2>6, <2>7, <2>8, <2>9, <2>10, <2>11, <2>12 DEF BleNext
<1>2. why \subseteq why'
  BY DEF BleNext, LinkComesUp, LinkDrops, ServerHearsDown, PhoneHearsDown, NotificationLost,
         Dials, PhoneSays, PhoneCloses, Asks, PhoneHears, ServerSays, ServerCloses, ServerHears
<1>3. QED BY <1>1, <1>2

(* What is put together of a whole queue is one whole text.                *)
LEMMA TakenIsWhole ==
  ASSUME NEW S, NEW parts \in Seq(Piece), NEW q \in Seq(S), NEW m \in Piece,
         q # <<>>, InPieces(parts, q, FALSE), m = q[1], m.kind = "text"
  PROVE  WholeOf(Append(parts, m))
<1>1. m.of = 1 \/ m.of = 2
  BY DEF Piece
<1>2. CASE m.of = 1
  <2>1. parts = <<>> /\ m.i = 1
    BY <1>2, WholeWhenTaken
  <2> DEFINE z == Append(parts, m)
  <2>2. Len(z) = 1 /\ z[1] = m /\ DOMAIN z = {1}
    BY <2>1
  <2> HIDE DEF z
  <2>3. WholeOf(z)
    BY <1>2, <2>1, <2>2 DEF WholeOf
  <2>4. QED BY <2>3 DEF z
<1>3. CASE m.of = 2
  <2>1. Len(parts) = 1 /\ IsPart(parts[1]) /\ IsRest(parts[1], m)
    BY <1>3, WholeWhenTaken
  <2> DEFINE z == Append(parts, m)
  <2>2. Len(z) = 2 /\ z[1] = parts[1] /\ z[2] = m /\ DOMAIN z = 1 .. 2
    <3>1. 1 \in 1 .. Len(parts) /\ Len(parts) + 1 = 2
      BY <2>1
    <3>2. z \in Seq(Piece) /\ Len(z) = Len(parts) + 1 /\ z[1] = parts[1] /\ z[Len(parts) + 1] = m
      BY <3>1, AppendProperties
    <3>3. QED BY <3>1, <3>2, LenProperties
  <2> HIDE DEF z
  <2>3. WholeOf(z)
    BY <2>1, <2>2 DEF WholeOf, IsPart, IsRest
  <2>4. QED BY <2>3 DEF z
<1>4. QED BY <1>1, <1>2, <1>3

(* What is handed on is whole, and of the socket it is handed to.          *)
LEMMA HeardWellKept ==
  ASSUME BleTyped, LinkHolds, ServerWhole, PhoneWhole, OneSocket, HeardWell, BleNext
  PROVE  HeardWell'
<1>1. why \subseteq why'
  BY DEF BleNext, LinkComesUp, LinkDrops, ServerHearsDown, PhoneHearsDown, NotificationLost,
         Dials, PhoneSays, PhoneCloses, Asks, PhoneHears, ServerSays, ServerCloses, ServerHears
<1>2. ASSUME heard' = heard PROVE HeardWell'
  BY <1>1, <1>2 DEF HeardWell, WholeOf
<1>3. ASSUME NEW parts \in Seq(Piece), NEW m \in Piece
      PROVE  Append(parts, m)[Len(Append(parts, m))] = m
  BY <1>3, AppendProperties, LenProperties
<1>4. CASE PhoneHears
  <2> DEFINE m == toPhone[1]
  <2>1. toPhone # <<>> /\ m \in PhoneMessage /\ toPhone \in Seq(PhoneMessage)
        /\ phone.parts \in Seq(Piece) /\ why' = why
    BY <1>4, PhoneHearsIs DEF BleTyped, PhoneType, PhoneHears
  <2>2. CASE heard' # heard
    <3>1. m.kind = "text" /\ m \in Piece /\ phone.open
          /\ heard' = [at |-> "phone", socket |-> phone.socket, pieces |-> Append(phone.parts, m)]
      BY <1>4, <2>1, <2>2, PhoneHearsIs, KindsAre
    <3>2. "cut" \notin why => WholeOf(Append(phone.parts, m))
      <4>1. "cut" \notin why => InPieces(phone.parts, toPhone, FALSE)
        <5>1. (~phone.open) = FALSE
          BY <3>1 DEF BleTyped, PhoneType
        <5>2. QED BY <5>1 DEF PhoneWhole
      <4>2. QED BY <2>1, <3>1, <4>1, TakenIsWhole
    <3>3. "crossed" \notin why => m.n = phone.socket
      <4>1. 1 \in 1 .. Len(toPhone)
        BY <2>1, TailIs
      <4>2. OfASocket(m)
        BY <3>1 DEF OfASocket
      <4>3. QED BY <3>1, <4>1, <4>2 DEF OneSocket, AllOf, LinkHolds
    <3>4. Append(phone.parts, m)[Len(Append(phone.parts, m))] = m
      BY <1>3, <2>1, <3>1
    <3> DEFINE z == Append(phone.parts, m)
    <3> HIDE DEF z
    <3>5. HeardWell'
      BY <2>1, <3>1, <3>2, <3>3, <3>4 DEF HeardWell, z
    <3>6. QED BY <3>5
  <2>3. QED BY <1>2, <2>2
<1>5. CASE ServerHears
  <2> DEFINE m == toServer[1]
  <2>1. toServer # <<>> /\ m \in ServerMessage /\ toServer \in Seq(ServerMessage)
        /\ server.parts \in Seq(Piece) /\ why' = why
    BY <1>5, ServerHearsIs DEF BleTyped, ServerType, ServerHears
  <2>2. CASE heard' # heard
    <3>1. m.kind = "text" /\ m \in Piece /\ server.socket # 0
          /\ heard' = [at |-> "server", socket |-> server.socket, pieces |-> Append(server.parts, m)]
      BY <1>5, <2>1, <2>2, ServerHearsIs, KindsAre
    <3>2. "lost" \notin why => WholeOf(Append(server.parts, m))
      BY <2>1, <3>1, TakenIsWhole DEF ServerWhole
    <3>3. "crossed" \notin why => m.n = server.socket
      <4>1. 1 \in 1 .. Len(toServer)
        BY <2>1, TailIs
      <4>2. OfASocket(m)
        BY <3>1 DEF OfASocket
      <4>3. QED BY <3>1, <4>1, <4>2 DEF OneSocket, AllOf
    <3>4. Append(server.parts, m)[Len(Append(server.parts, m))] = m
      BY <1>3, <2>1, <3>1
    <3> DEFINE z == Append(server.parts, m)
    <3> HIDE DEF z
    <3>5. HeardWell'
      BY <2>1, <3>1, <3>2, <3>3, <3>4 DEF HeardWell, z
    <3>6. QED BY <3>5
  <2>3. QED BY <1>2, <2>2
<1>6. PhoneHears \/ ServerHears \/ heard' = heard
  BY DEF BleNext, LinkComesUp, LinkDrops, ServerHearsDown, PhoneHearsDown, NotificationLost,
         Dials, PhoneSays, PhoneCloses, Asks, ServerSays, ServerCloses
<1>7. QED BY <1>2, <1>4, <1>5, <1>6

-----------------------------------------------------------------------------
(* One socket.                                                             *)

(* What a queue speaks of, when more comes or the first is taken.          *)
LEMMA SpeaksOf ==
  ASSUME NEW S, NEW q \in Seq(S), NEW n
  PROVE  /\ \A more \in Seq(S) : AllOf(q, n) /\ AllOf(more, n) => AllOf(q \o more, n)
         /\ \A more \in Seq(S) : NoneOf(q) /\ NoneOf(more) => NoneOf(q \o more)
         /\ q # <<>> /\ AllOf(q, n) => AllOf(Tail(q), n) /\ (OfASocket(q[1]) => q[1].n = n)
         /\ q # <<>> /\ NoneOf(q) => NoneOf(Tail(q)) /\ ~OfASocket(q[1])
         /\ NoneOf(q) => AllOf(q, n)
<1>1. ASSUME NEW more \in Seq(S)
      PROVE  \A j \in 1 .. Len(q \o more) :
               \/ \E k \in 1 .. Len(q) : (q \o more)[j] = q[k]
               \/ \E k \in 1 .. Len(more) : (q \o more)[j] = more[k]
  <2> DEFINE z == q \o more
  <2>1. /\ Len(z) = Len(q) + Len(more) /\ Len(q) \in Nat /\ Len(more) \in Nat
        /\ \A i \in 1 .. Len(q) : z[i] = q[i]
        /\ \A i \in 1 .. Len(more) : z[Len(q) + i] = more[i]
    BY MoreIs
  <2>2. SUFFICES ASSUME NEW j \in 1 .. Len(z)
                 PROVE  \/ \E k \in 1 .. Len(q) : z[j] = q[k]
                        \/ \E k \in 1 .. Len(more) : z[j] = more[k]
    OBVIOUS
  <2> HIDE DEF z
  <2>3. CASE j <= Len(q)
    BY <2>1, <2>3
  <2>4. CASE j > Len(q)
    <3>1. j - Len(q) \in 1 .. Len(more) /\ j = Len(q) + (j - Len(q))
      BY <2>1, <2>4
    <3> DEFINE k == j - Len(q)
    <3>2. k \in 1 .. Len(more) /\ z[j] = z[Len(q) + k]
      BY <3>1
    <3> HIDE DEF k
    <3>3. z[Len(q) + k] = more[k]
      BY <2>1, <3>2
    <3>4. QED BY <3>2, <3>3
  <2>5. j \in Nat /\ Len(q) \in Nat
    BY <2>1
  <2>6. QED BY <2>3, <2>4, <2>5
<1>2. \A more \in Seq(S) : AllOf(q, n) /\ AllOf(more, n) => AllOf(q \o more, n)
  <2>1. SUFFICES ASSUME NEW more \in Seq(S), AllOf(q, n), AllOf(more, n)
                 PROVE  AllOf(q \o more, n)
    OBVIOUS
  <2> DEFINE z == q \o more
  <2>2. \A j \in 1 .. Len(z) : (\E k \in 1 .. Len(q) : z[j] = q[k])
                              \/ (\E k \in 1 .. Len(more) : z[j] = more[k])
    BY <1>1
  <2> HIDE DEF z
  <2>3. AllOf(z, n)
    BY <2>1, <2>2 DEF AllOf
  <2>4. QED BY <2>3 DEF z
<1>3. \A more \in Seq(S) : NoneOf(q) /\ NoneOf(more) => NoneOf(q \o more)
  BY <1>1, Zenon DEF NoneOf
<1>4. q # <<>> => 1 \in 1 .. Len(q) /\ \A j \in 1 .. Len(Tail(q)) : \E k \in 1 .. Len(q) : Tail(q)[j] = q[k]
  BY TailIs
<1>5. q # <<>> /\ AllOf(q, n) => AllOf(Tail(q), n) /\ (OfASocket(q[1]) => q[1].n = n)
  BY <1>4, Zenon DEF AllOf
<1>6. q # <<>> /\ NoneOf(q) => NoneOf(Tail(q)) /\ ~OfASocket(q[1])
  BY <1>4, Zenon DEF NoneOf
<1>7. NoneOf(q) => AllOf(q, n)
  BY DEF NoneOf, AllOf
<1>8. QED BY <1>2, <1>3, <1>5, <1>6, <1>7

(* What is said is of the socket it is said on; HERE and WHERE of none.    *)
LEMMA TextOf ==
  ASSUME BleTyped, NEW n \in Sockets, NEW text \in Texts(n)
  PROVE  /\ AllOf(text, n) /\ text # <<>>
         /\ \A j \in 1 .. Len(text) : text[j].kind \in {"part", "text"}
         /\ text \in Seq(PhoneMessage) /\ text \in Seq(ServerMessage)
<1>1. /\ text \in Seq(Piece) /\ Len(text) \in 1 .. 2
      /\ \A j \in 1 .. Len(text) : text[j].n = n
  BY TextIs
<1>2. \A j \in 1 .. Len(text) : text[j] \in Piece
  BY <1>1
<1>3. text \in Seq(PhoneMessage) /\ text \in Seq(ServerMessage)
  BY <1>1, SeqMonotonic DEF PhoneMessage, ServerMessage
<1>4. text # <<>>
  BY <1>1
<1>5. QED BY <1>1, <1>2, <1>3, <1>4 DEF AllOf, Piece

(* The same of the messages that are no texts.                             *)
LEMMA SaidOf ==
  /\ \A kind, n : AllOf(<<Simple(kind, n)>>, n)
  /\ \A kind, last, n : AllOf(<<Simple(kind, n), Simple(last, n)>>, n)
  /\ \A b : NoneOf(<<WhereSays(b)>>)
  /\ \A n : NoneOf(<<Simple("here", n)>>) /\ NoneOf(<<>>)
<1>1. ASSUME NEW kind, NEW n PROVE AllOf(<<Simple(kind, n)>>, n)
  BY DEF AllOf, Simple
<1>2. ASSUME NEW kind, NEW last, NEW n PROVE AllOf(<<Simple(kind, n), Simple(last, n)>>, n)
  <2> DEFINE a == Simple(kind, n)
             b == Simple(last, n)
             q == <<a, b>>
  <2>1. a.n = n /\ b.n = n
    BY DEF Simple
  <2> HIDE DEF a, b
  <2>2. \A j \in 1 .. Len(q) : q[j] = a \/ q[j] = b
    OBVIOUS
  <2> HIDE DEF q
  <2>3. AllOf(q, n)
    BY <2>1, <2>2 DEF AllOf
  <2>4. QED BY <2>3 DEF q, a, b
<1>3. ASSUME NEW b PROVE NoneOf(<<WhereSays(b)>>)
  BY DEF NoneOf, WhereSays, OfASocket
<1>4. ASSUME NEW n PROVE NoneOf(<<Simple("here", n)>>) /\ NoneOf(<<>>)
  BY DEF NoneOf, Simple, OfASocket
<1>5. QED BY <1>1, <1>2, <1>3, <1>4

(* No step but a dial that crosses brings a second socket.                 *)
LEMMA OneSocketKept ==
  ASSUME BleTyped, LinkHolds, OneSocket, BleNext
  PROVE  OneSocket'
<1> DEFINE d == tally.dials
           Goal == /\ server'.socket \in {0, tally'.dials} /\ phone'.socket \in {0, tally'.dials}
                   /\ AllOf(toPhone', tally'.dials) /\ AllOf(toServer', tally'.dials)
<1>1. why \subseteq why'
  BY DEF BleNext, LinkComesUp, LinkDrops, ServerHearsDown, PhoneHearsDown, NotificationLost,
         Dials, PhoneSays, PhoneCloses, Asks, PhoneHears, ServerSays, ServerCloses, ServerHears
<1>2. SUFFICES ASSUME "crossed" \notin why, "crossed" \notin why' PROVE Goal
  BY <1>1, Zenon DEF OneSocket, AllOf
<1>3. /\ server.socket \in {0, d} /\ phone.socket \in {0, d}
      /\ AllOf(toPhone, d) /\ AllOf(toServer, d)
  BY <1>2 DEF OneSocket
<1>4. /\ server \in ServerType /\ phone \in PhoneType /\ tally \in TallyType
      /\ toPhone \in Seq(PhoneMessage) /\ toServer \in Seq(ServerMessage)
  BY DEF BleTyped
<1>5. \A n : AllOf(<<>>, n) /\ AllOf(<<Simple("here", 0)>>, n) /\ \A b : AllOf(<<WhereSays(b)>>, n)
  <2>1. TAKE n
  <2>2. AllOf(<<>>, n)
    BY DEF AllOf
  <2>3. AllOf(<<Simple("here", 0)>>, n)
    BY DEF AllOf, Simple, OfASocket
  <2>4. \A b : AllOf(<<WhereSays(b)>>, n)
    BY DEF AllOf, WhereSays, OfASocket
  <2>5. QED BY <2>2, <2>3, <2>4
<1>6. ASSUME NEW more \in Seq(ServerMessage), AllOf(more, d), Sends(more)
      PROVE  AllOf(toServer', d)
  BY <1>3, <1>4, <1>6, SpeaksOf DEF Sends
<1>7. CASE LinkComesUp
  <2>1. tally'.dials = d
    BY <1>7, PlusIs DEF LinkComesUp
  <2>2. server'.socket = 0 /\ phone'.socket = phone.socket
    BY <1>4, <1>7 DEF LinkComesUp, FreshServer, PhoneType
  <2>3. QED BY <1>3, <1>5, <1>7, <2>1, <2>2 DEF LinkComesUp
<1>8. CASE LinkDrops
  BY <1>3, <1>5, <1>8 DEF LinkDrops
<1>9. CASE ServerHearsDown \/ PhoneHearsDown
  <2>1. server'.socket \in {0, server.socket} /\ phone'.socket \in {0, phone.socket}
    BY <1>4, <1>9 DEF ServerHearsDown, PhoneHearsDown, PhoneDown, ServerType, PhoneType
  <2>2. QED BY <1>3, <1>9, <2>1 DEF ServerHearsDown, PhoneHearsDown
<1>10. CASE NotificationLost
  <2>1. tally'.dials = d
    BY <1>10, PlusIs DEF NotificationLost
  <2>2. AllOf(Tail(toServer), d)
    BY <1>3, <1>4, <1>10, SpeaksOf DEF NotificationLost
  <2>3. QED BY <1>3, <1>10, <2>1, <2>2 DEF NotificationLost
<1>11. CASE Dials
  <2>1. tally'.dials = d + 1 /\ phone'.socket = d + 1
    BY <1>4, <1>11 DEF Dials, Plus, TallyType, PhoneType
  <2>2. ~Crosses
    BY <1>2, <1>11 DEF Dials
  <2>3. server.socket = 0 /\ NoneOf(toPhone) /\ NoneOf(toServer)
    BY <1>4, <2>2 DEF Crosses, NoneOf
  <2>4. AllOf(toPhone, d + 1) /\ AllOf(toServer, d + 1)
    BY <1>4, <2>3, SpeaksOf
  <2>5. d + 1 \in Sockets
    <3>1. d \in Nat /\ d < MaxDials /\ MaxDials \in Nat
      BY <1>4, <1>11, BleAssumption DEF Dials, TallyType, Sockets
    <3>2. QED BY <3>1 DEF Sockets
  <2>6. <<Simple("open", d + 1)>> \in Seq(ServerMessage)
    BY <2>5 DEF Simple, ServerMessage
  <2>7. AllOf(toServer \o <<Simple("open", d + 1)>>, d + 1)
    <3>1. AllOf(<<Simple("open", d + 1)>>, d + 1)
      BY SaidOf
    <3> DEFINE more == <<Simple("open", d + 1)>>
    <3>2. more \in Seq(ServerMessage) /\ AllOf(more, d + 1)
      BY <2>6, <3>1
    <3> HIDE DEF more
    <3>3. AllOf(toServer \o more, d + 1)
      BY <1>4, <2>4, <3>2, SpeaksOf
    <3>4. QED BY <3>3 DEF more
  <2>8. QED BY <1>11, <2>1, <2>3, <2>4, <2>7 DEF Dials, Sends
<1>12. CASE PhoneSays
  <2>1. PICK text \in Texts(phone.socket) : Sends(text)
    BY <1>12 DEF PhoneSays
  <2>2. phone.socket = d /\ d \in Sockets
    BY <1>3, <1>4, <1>12 DEF PhoneSays, LinkHolds, PhoneType
  <2>3. text \in Seq(ServerMessage) /\ AllOf(text, d)
    BY <2>1, <2>2, TextOf
  <2>4. tally'.dials = d
    BY <1>12, PlusIs DEF PhoneSays
  <2>5. QED BY <1>3, <1>6, <1>12, <2>1, <2>3, <2>4 DEF PhoneSays
<1>13. CASE PhoneCloses
  <2>1. phone.socket = d /\ d \in Sockets /\ phone'.socket = 0
    BY <1>3, <1>4, <1>13 DEF PhoneCloses, PhoneType
  <2>2. <<Simple("close", d)>> \in Seq(ServerMessage)
    BY <2>1 DEF Simple, ServerMessage
  <2>3. AllOf(toServer', d)
    BY <1>6, <1>13, <2>1, <2>2, SaidOf DEF PhoneCloses
  <2>4. QED BY <1>3, <1>13, <2>1, <2>3 DEF PhoneCloses
<1>14. CASE Asks
  <2>1. PICK b \in BOOLEAN : Sends(<<WhereSays(b)>>)
    BY <1>14 DEF Asks
  <2>2. <<WhereSays(b)>> \in Seq(ServerMessage)
    BY DEF WhereSays, ServerMessage
  <2>3. AllOf(toServer', d)
    BY <1>5, <1>6, <2>1, <2>2
  <2>4. phone'.socket \in {0, phone.socket}
    BY <1>14 DEF Asks
  <2>5. tally'.dials = d
    BY <1>14, PlusIs DEF Asks
  <2>6. QED BY <1>3, <1>14, <2>3, <2>4, <2>5 DEF Asks
<1>15. CASE PhoneHears
  <2> DEFINE m == toPhone[1]
  <2>1. toPhone # <<>> /\ toPhone' = Tail(toPhone) /\ m \in PhoneMessage
    BY <1>15, PhoneHearsIs
  <2>2. phone'.socket \in {0, phone.socket}
    BY <1>15, <2>1, PhoneHearsIs, KindsAre
  <2>3. AllOf(toPhone', d)
    BY <1>3, <1>4, <2>1, SpeaksOf
  <2>4. QED BY <1>3, <1>15, <2>2, <2>3 DEF PhoneHears
<1>16. CASE ServerSays
  <2>1. PICK text \in Texts(server.socket) : Says(text)
    BY <1>16 DEF ServerSays
  <2>2. server.socket = d /\ d \in Sockets
    BY <1>3, <1>4, <1>16 DEF ServerSays, ServerType
  <2>3. text \in Seq(PhoneMessage) /\ AllOf(text, d)
    BY <2>1, <2>2, TextOf
  <2>4. tally'.dials = d
    BY <1>16, PlusIs DEF ServerSays
  <2>5. AllOf(toPhone \o text, d)
    BY <1>3, <1>4, <2>3, SpeaksOf
  <2>6. server'.socket \in {0, server.socket} /\ AllOf(toPhone', d)
    BY <1>3, <1>4, <2>1, <2>5 DEF Says, ServerType
  <2>7. QED BY <1>3, <1>16, <2>4, <2>6 DEF ServerSays
<1>17. CASE ServerCloses
  <2>1. server.socket = d /\ d \in Sockets /\ server'.socket = 0
    BY <1>3, <1>4, <1>17 DEF ServerCloses, ServerType
  <2>2. Simple("close", d) \in PhoneMessage /\ <<Simple("close", d)>> \in Seq(PhoneMessage)
    BY <2>1 DEF Simple, PhoneMessage
  <2>3. Append(toPhone, Simple("close", d)) = toPhone \o <<Simple("close", d)>>
    BY <1>4, <2>2, AppendIsConcat
  <2>4. AllOf(toPhone \o <<Simple("close", d)>>, d)
    <3>1. AllOf(<<Simple("close", d)>>, d)
      BY SaidOf
    <3> DEFINE more == <<Simple("close", d)>>
    <3>2. more \in Seq(PhoneMessage) /\ AllOf(more, d)
      BY <2>2, <3>1
    <3> HIDE DEF more
    <3>3. AllOf(toPhone \o more, d)
      BY <1>3, <1>4, <3>2, SpeaksOf
    <3>4. QED BY <3>3 DEF more
  <2>5. AllOf(toPhone', d)
    BY <1>3, <1>17, <2>1, <2>3, <2>4 DEF ServerCloses
  <2>6. QED BY <1>3, <1>17, <2>1, <2>5 DEF ServerCloses
<1>18. CASE ServerHears
  <2> DEFINE m == toServer[1]
  <2>1. toServer # <<>> /\ toServer' = Tail(toServer) /\ m \in ServerMessage
    BY <1>18, ServerHearsIs
  <2>2. AllOf(toServer', d) /\ (OfASocket(m) => m.n = d)
    BY <1>3, <1>4, <2>1, SpeaksOf
  <2>3. server'.socket \in {0, server.socket} \/ (m.kind = "open" /\ server'.socket = m.n)
    BY <1>18, <2>1, ServerHearsIs, KindsAre
  <2>4. m.kind = "open" => m.n = d
    BY <2>2 DEF OfASocket
  <2>5. AllOf(toPhone', d)
    <3>1. ASSUME NEW more \in Seq(PhoneMessage), toPhone' = toPhone \o more,
                 \/ m.kind = "where" /\ more = <<Simple("here", 0)>>
                 \/ /\ m.kind = "open"
                    /\ \/ more = <<Simple("opened", m.n)>>
                       \/ more = <<Simple("opened", m.n), Simple("close", m.n)>>
          PROVE  AllOf(toPhone', d)
      <4>1. AllOf(more, d)
        <5>1. AllOf(<<Simple("opened", d)>>, d) /\ AllOf(<<Simple("opened", d), Simple("close", d)>>, d)
          BY SaidOf
        <5> HIDE DEF d, m
        <5>2. QED BY <1>5, <2>4, <3>1, <5>1
      <4>2. QED BY <1>3, <1>4, <3>1, <4>1, SpeaksOf
    <3>2. QED BY <1>3, <1>18, <3>1, AnswersAre
  <2>6. QED BY <1>3, <1>18, <2>2, <2>3, <2>4, <2>5 DEF ServerHears
<1>19. QED
  BY <1>7, <1>8, <1>9, <1>10, <1>11, <1>12, <1>13, <1>14, <1>15, <1>16, <1>17, <1>18 DEF BleNext

-----------------------------------------------------------------------------
(* The two ends agree.                                                     *)

(* What is in a queue, and what ends are told of in it, with more behind.  *)
LEMMA MoreToTell ==
  ASSUME NEW S, NEW q \in Seq(S), NEW more \in Seq(S)
  PROVE  /\ \A i \in 1 .. Len(q) + 1 :
              EndFrom(q \o more, i) <=> EndFrom(q, i) \/ EndFrom(more, 1)
         /\ Len(q) \in Nat /\ Len(more) \in Nat /\ Len(q \o more) = Len(q) + Len(more)
         /\ \A j \in 1 .. Len(q) : (q \o more)[j] = q[j]
         /\ \A j \in 1 .. Len(more) : (q \o more)[Len(q) + j] = more[j]
         /\ \A j \in 1 .. Len(q \o more) :
              j \in 1 .. Len(q) \/ (j - Len(q) \in 1 .. Len(more) /\ (q \o more)[j] = more[j - Len(q)])
<1> DEFINE z == q \o more
<1>1. /\ Len(z) = Len(q) + Len(more) /\ Len(q) \in Nat /\ Len(more) \in Nat
      /\ \A j \in 1 .. Len(q) : z[j] = q[j]
      /\ \A j \in 1 .. Len(more) : z[Len(q) + j] = more[j]
  BY MoreIs
<1> HIDE DEF z
<1>2. ASSUME NEW j \in 1 .. Len(z), j \notin 1 .. Len(q)
      PROVE  j - Len(q) \in 1 .. Len(more) /\ z[j] = more[j - Len(q)]
  <2>1. j - Len(q) \in 1 .. Len(more) /\ j = Len(q) + (j - Len(q))
    BY <1>1, <1>2
  <2> DEFINE k == j - Len(q)
  <2>2. k \in 1 .. Len(more) /\ z[j] = z[Len(q) + k]
    BY <2>1
  <2> HIDE DEF k
  <2>3. z[j] = more[k]
    BY <1>1, <2>2
  <2>4. QED BY <2>2, <2>3 DEF k
<1>3. ASSUME NEW i \in 1 .. Len(q) + 1
      PROVE  EndFrom(z, i) <=> EndFrom(q, i) \/ EndFrom(more, 1)
  <2>1. ASSUME EndFrom(z, i) PROVE EndFrom(q, i) \/ EndFrom(more, 1)
    <3>1. PICK j \in i .. Len(z) : Ends(z[j])
      BY <2>1 DEF EndFrom
    <3>2. j \in 1 .. Len(z)
      BY <1>1
    <3>3. CASE j \in 1 .. Len(q)
      <4>1. j \in i .. Len(q) /\ z[j] = q[j]
        BY <1>1, <3>3
      <4>2. QED BY <3>1, <4>1 DEF EndFrom
    <3>4. CASE j \notin 1 .. Len(q)
      BY <1>2, <3>1, <3>2, <3>4, Zenon DEF EndFrom
    <3>5. QED BY <3>3, <3>4
  <2>2. ASSUME EndFrom(q, i) PROVE EndFrom(z, i)
    <3>1. PICK j \in i .. Len(q) : Ends(q[j])
      BY <2>2 DEF EndFrom
    <3>2. j \in i .. Len(z) /\ z[j] = q[j]
      BY <1>1
    <3>3. QED BY <3>1, <3>2 DEF EndFrom
  <2>3. ASSUME EndFrom(more, 1) PROVE EndFrom(z, i)
    <3>1. PICK j \in 1 .. Len(more) : Ends(more[j])
      BY <2>3 DEF EndFrom
    <3>2. Len(q) + j \in i .. Len(z) /\ z[Len(q) + j] = more[j]
      BY <1>1
    <3>3. QED BY <3>1, <3>2, Zenon DEF EndFrom
  <2>4. QED BY <2>1, <2>2, <2>3
<1>4. QED BY <1>1, <1>2, <1>3 DEF z

(* And when the first is taken.                                            *)
LEMMA RestToTell ==
  ASSUME NEW S, NEW q \in Seq(S), q # <<>>
  PROVE  /\ \A i \in 1 .. Len(Tail(q)) + 1 : EndFrom(Tail(q), i) <=> EndFrom(q, i + 1)
         /\ EndFrom(q, 1) <=> Ends(q[1]) \/ EndFrom(q, 2)
         /\ EndFrom(Tail(q), 1) <=> EndFrom(q, 2)
         /\ Len(q) \in Nat \ {0} /\ Len(Tail(q)) = Len(q) - 1
         /\ \A i \in 1 .. Len(Tail(q)) : i + 1 \in 1 .. Len(q) /\ Tail(q)[i] = q[i + 1]
<1> DEFINE z == Tail(q)
<1>1. /\ Len(q) \in Nat \ {0} /\ Len(z) = Len(q) - 1
      /\ \A i \in 1 .. Len(q) - 1 : z[i] = q[i + 1]
  BY TailIs
<1> HIDE DEF z
<1>2. \A i \in 1 .. Len(z) : i + 1 \in 1 .. Len(q) /\ z[i] = q[i + 1]
  BY <1>1
<1>3. ASSUME NEW i \in 1 .. Len(z) + 1 PROVE EndFrom(z, i) <=> EndFrom(q, i + 1)
  <2>1. ASSUME EndFrom(z, i) PROVE EndFrom(q, i + 1)
    <3>1. PICK j \in i .. Len(z) : Ends(z[j])
      BY <2>1 DEF EndFrom
    <3>2. j + 1 \in i + 1 .. Len(q) /\ z[j] = q[j + 1]
      BY <1>1, <1>2
    <3>3. QED BY <3>1, <3>2, Zenon DEF EndFrom
  <2>2. ASSUME EndFrom(q, i + 1) PROVE EndFrom(z, i)
    <3>1. PICK j \in i + 1 .. Len(q) : Ends(q[j])
      BY <2>2 DEF EndFrom
    <3>2. j - 1 \in i .. Len(z) /\ (j - 1) + 1 = j /\ j - 1 \in 1 .. Len(z)
      BY <1>1
    <3>3. z[j - 1] = q[(j - 1) + 1]
      BY <1>2, <3>2
    <3>4. QED BY <3>1, <3>2, <3>3 DEF EndFrom
  <2>3. QED BY <2>1, <2>2
<1>4. EndFrom(q, 1) <=> Ends(q[1]) \/ EndFrom(q, 2)
  <2>1. \A j : j \in 1 .. Len(q) <=> j = 1 \/ j \in 2 .. Len(q)
    BY <1>1
  <2>2. QED BY <2>1 DEF EndFrom
<1>5. EndFrom(z, 1) <=> EndFrom(q, 2)
  <2>1. 1 + 1 = 2 /\ 1 \in 1 .. Len(z) + 1
    BY <1>1
  <2>2. QED BY <1>3, <2>1
<1>6. QED BY <1>1, <1>2, <1>3, <1>4, <1>5 DEF z

(* The same of one kind of message.                                        *)
LEMMA OneKind ==
  ASSUME NEW S, NEW q \in Seq(S), NEW kind
  PROVE  /\ \A more \in Seq(S) : IsIn(q \o more, kind) <=> IsIn(q, kind) \/ IsIn(more, kind)
         /\ q # <<>> => (IsIn(q, kind) <=> q[1].kind = kind \/ IsIn(Tail(q), kind))
<1>1. ASSUME NEW more \in Seq(S)
      PROVE  IsIn(q \o more, kind) <=> IsIn(q, kind) \/ IsIn(more, kind)
  <2> DEFINE z == q \o more
  <2>1. /\ Len(z) = Len(q) + Len(more) /\ Len(q) \in Nat /\ Len(more) \in Nat
        /\ \A j \in 1 .. Len(q) : z[j] = q[j]
        /\ \A j \in 1 .. Len(more) : z[Len(q) + j] = more[j]
        /\ \A j \in 1 .. Len(z) :
             j \in 1 .. Len(q) \/ (j - Len(q) \in 1 .. Len(more) /\ z[j] = more[j - Len(q)])
    BY MoreToTell
  <2> HIDE DEF z
  <2>2. \A j \in 1 .. Len(q) : j \in 1 .. Len(z) /\ z[j] = q[j]
    BY <2>1
  <2>3. \A j \in 1 .. Len(more) : Len(q) + j \in 1 .. Len(z) /\ z[Len(q) + j] = more[j]
    BY <2>1
  <2>4. ASSUME IsIn(z, kind) PROVE IsIn(q, kind) \/ IsIn(more, kind)
    <3>1. PICK j \in 1 .. Len(z) : z[j].kind = kind
      BY <2>4 DEF IsIn
    <3>2. CASE j \in 1 .. Len(q)
      BY <3>1, <3>2, <2>2 DEF IsIn
    <3>3. CASE j - Len(q) \in 1 .. Len(more) /\ z[j] = more[j - Len(q)]
      BY <3>1, <3>3 DEF IsIn
    <3>4. QED BY <2>1, <3>2, <3>3
  <2>5. ASSUME IsIn(q, kind) PROVE IsIn(z, kind)
    <3>1. PICK j \in 1 .. Len(q) : q[j].kind = kind
      BY <2>5 DEF IsIn
    <3>2. j \in 1 .. Len(z) /\ z[j].kind = kind
      BY <3>1, <2>2
    <3>3. QED BY <3>2 DEF IsIn
  <2>6. ASSUME IsIn(more, kind) PROVE IsIn(z, kind)
    <3>1. PICK j \in 1 .. Len(more) : more[j].kind = kind
      BY <2>6 DEF IsIn
    <3>2. Len(q) + j \in 1 .. Len(z) /\ z[Len(q) + j].kind = kind
      BY <3>1, <2>3
    <3>3. QED BY <3>2 DEF IsIn
  <2>7. QED BY <2>4, <2>5, <2>6 DEF z
<1>2. ASSUME q # <<>> PROVE IsIn(q, kind) <=> q[1].kind = kind \/ IsIn(Tail(q), kind)
  <2> DEFINE z == Tail(q)
  <2>1. /\ Len(q) \in Nat \ {0} /\ Len(z) = Len(q) - 1
        /\ \A i \in 1 .. Len(z) : i + 1 \in 1 .. Len(q) /\ z[i] = q[i + 1]
    BY <1>2, RestToTell
  <2> HIDE DEF z
  <2>2. ASSUME NEW j \in 1 .. Len(q), q[j].kind = kind PROVE q[1].kind = kind \/ IsIn(z, kind)
    <3>1. CASE j = 1
      BY <2>2, <3>1
    <3>2. CASE j # 1
      <4>1. j - 1 \in 1 .. Len(z) /\ (j - 1) + 1 = j
        BY <2>1, <3>2
      <4>2. z[j - 1] = q[(j - 1) + 1]
        BY <2>1, <4>1
      <4>3. QED BY <2>2, <4>1, <4>2 DEF IsIn
    <3>3. QED BY <3>1, <3>2
  <2>3. 1 \in 1 .. Len(q)
    BY <2>1
  <2>4. ASSUME IsIn(z, kind) PROVE IsIn(q, kind)
    <3>1. PICK j \in 1 .. Len(z) : z[j].kind = kind
      BY <2>4 DEF IsIn
    <3>2. j + 1 \in 1 .. Len(q) /\ q[j + 1].kind = kind
      BY <3>1, <2>1
    <3>3. QED BY <3>2 DEF IsIn
  <2>5. q[1].kind = kind => IsIn(q, kind)
    BY <2>3, Zenon DEF IsIn
  <2>6. IsIn(q, kind) => q[1].kind = kind \/ IsIn(z, kind)
    BY <2>2, Zenon DEF IsIn
  <2>7. QED BY <2>4, <2>5, <2>6 DEF z
<1>3. QED BY <1>1, <1>2

(* The phone says something that is no dial: it tells of the end of its    *)
(* socket if and only if it has none.                                      *)
LEMMA PhoneTells ==
  ASSUME BleTyped, OpensFirst, WillAgree,
         NEW more \in Seq(ServerMessage), ~IsIn(more, "open"), toServer' = toServer \o more,
         toPhone' = toPhone, server' = server,
         \/ phone'.socket = 0 /\ EndFrom(more, 1)
         \/ /\ phone'.socket = phone.socket /\ phone'.open = phone.open /\ phone.socket # 0
            /\ ~EndFrom(more, 1)
  PROVE  OpensFirst' /\ WillAgree'
<1>1. toServer \in Seq(ServerMessage)
  BY DEF BleTyped
<1>2. /\ \A i \in 1 .. Len(toServer) + 1 :
            EndFrom(toServer', i) <=> EndFrom(toServer, i) \/ EndFrom(more, 1)
      /\ Len(toServer) \in Nat
      /\ \A j \in 1 .. Len(toServer) : toServer'[j] = toServer[j]
      /\ \A j \in 1 .. Len(toServer') :
           \/ j \in 1 .. Len(toServer)
           \/ j - Len(toServer) \in 1 .. Len(more) /\ toServer'[j] = more[j - Len(toServer)]
  BY <1>1, MoreToTell
<1>3. ASSUME NEW i \in 1 .. Len(toServer'), toServer'[i].kind = "open"
      PROVE  i \in 1 .. Len(toServer) /\ toServer[i].kind = "open"
  BY <1>2, <1>3, Zenon DEF IsIn
<1>4. OpensFirst'
  <2>1. ASSUME NEW i \in 1 .. Len(toServer'), toServer'[i].kind = "open"
        PROVE  /\ server'.socket = 0 /\ NoneOf(toPhone')
               /\ \A j \in 1 .. i - 1 : ~OfASocket(toServer'[j])
    <3>1. i \in 1 .. Len(toServer) /\ toServer[i].kind = "open"
      BY <1>3, <2>1
    <3>2. \A j \in 1 .. i - 1 : j \in 1 .. Len(toServer)
      BY <1>2, <3>1
    <3>3. server.socket = 0 /\ NoneOf(toPhone) /\ \A j \in 1 .. i - 1 : ~OfASocket(toServer[j])
      BY <3>1, Zenon DEF OpensFirst
    <3>4. \A j \in 1 .. i - 1 : toServer'[j] = toServer[j]
      BY <1>2, <3>2, Zenon
    <3>5. \A j \in 1 .. i - 1 : ~OfASocket(toServer'[j])
      BY <3>3, <3>4 DEF OfASocket
    <3>6. QED BY <3>3, <3>5
  <2>2. QED BY <2>1, Zenon DEF OpensFirst
<1>5. \A i \in 1 .. Len(toServer) + 1 :
        (EndFrom(toServer, i) <=> phone.socket = 0) => (EndFrom(toServer', i) <=> phone'.socket = 0)
  BY <1>2
<1>6. 1 \in 1 .. Len(toServer) + 1 /\ \A i \in 1 .. Len(toServer) : i \in 1 .. Len(toServer) + 1
  BY <1>2
<1>7. server'.socket # 0 =>
        /\ EndFrom(toServer', 1) <=> phone'.socket = 0
        /\ phone'.socket # 0 => ~IsIn(toPhone', "close") /\ (phone'.open \/ IsIn(toPhone', "opened"))
  <2>1. server.socket # 0 =>
          /\ EndFrom(toServer, 1) <=> phone.socket = 0
          /\ phone.socket # 0 => ~IsIn(toPhone, "close") /\ (phone.open \/ IsIn(toPhone, "opened"))
    BY DEF WillAgree
  <2>2. QED BY <1>5, <1>6, <2>1
<1>8. \A i \in 1 .. Len(toServer') :
        toServer'[i].kind = "open" => (EndFrom(toServer', i) <=> phone'.socket = 0)
  <2>1. \A i \in 1 .. Len(toServer) :
          toServer[i].kind = "open" => (EndFrom(toServer, i) <=> phone.socket = 0)
    BY DEF WillAgree
  <2>2. QED BY <1>3, <1>5, <1>6, <2>1
<1>9. server'.socket = 0 /\ ~IsIn(toServer', "open") /\ phone'.socket # 0 => IsIn(toPhone', "close")
  <2>1. IsIn(toServer', "open") <=> IsIn(toServer, "open")
    BY <1>1, OneKind
  <2>2. QED BY <2>1 DEF WillAgree
<1>10. QED BY <1>4, <1>7, <1>8, <1>9, Zenon DEF WillAgree

(* The server says something on a socket it has, or closes it.             *)
LEMMA ServerTells ==
  ASSUME BleTyped, OpensFirst, WillAgree, server.socket # 0,
         NEW more \in Seq(PhoneMessage), toPhone' = toPhone \o more,
         toServer' = toServer, phone' = phone,
         \/ server'.socket = 0 /\ IsIn(more, "close")
         \/ server'.socket = server.socket /\ ~IsIn(more, "close")
  PROVE  OpensFirst' /\ WillAgree'
<1>1. toPhone \in Seq(PhoneMessage)
  BY DEF BleTyped
<1>2. \A i \in 1 .. Len(toServer) : toServer[i].kind # "open"
  BY DEF OpensFirst
<1>3. OpensFirst'
  BY <1>2 DEF OpensFirst
<1>4. /\ IsIn(toPhone', "close") <=> IsIn(toPhone, "close") \/ IsIn(more, "close")
      /\ IsIn(toPhone', "opened") <=> IsIn(toPhone, "opened") \/ IsIn(more, "opened")
  BY <1>1, OneKind
<1>5. QED BY <1>2, <1>3, <1>4 DEF WillAgree

(* The phone takes a message.                                              *)
LEMMA PhoneTakes ==
  ASSUME BleTyped, LinkHolds, OpensFirst, WillAgree, PhoneHears
  PROVE  OpensFirst' /\ WillAgree'
<1> DEFINE m == toPhone[1]
<1>1. /\ toPhone # <<>> /\ toPhone' = Tail(toPhone) /\ m \in PhoneMessage
      /\ m.kind \in {"here", "part", "text"} =>
           phone'.open = phone.open /\ phone'.socket = phone.socket
      /\ m.kind = "opened" =>
           phone'.open = (phone.socket # 0) /\ phone'.socket = phone.socket
      /\ m.kind = "close" => phone'.socket = 0
  BY PhoneHearsIs
<1>2. m.kind \in {"here", "opened", "close", "part", "text"}
  BY <1>1, KindsAre
<1>3. server' = server /\ toServer' = toServer /\ toPhone \in Seq(PhoneMessage)
  BY DEF PhoneHears, BleTyped
<1>4. NoneOf(toPhone) => NoneOf(toPhone') /\ m.kind # "close"
  BY <1>1, <1>3, SpeaksOf DEF OfASocket
<1>5. OpensFirst'
  BY <1>3, <1>4 DEF OpensFirst
<1>6. /\ IsIn(toPhone, "close") <=> m.kind = "close" \/ IsIn(toPhone', "close")
      /\ IsIn(toPhone, "opened") <=> m.kind = "opened" \/ IsIn(toPhone', "opened")
  BY <1>1, <1>3, OneKind
<1> HIDE DEF m
<1>7. m.kind = "close" /\ server.socket # 0 => phone.socket = 0
  BY <1>6 DEF WillAgree
<1>8. m.kind = "close" => \A i \in 1 .. Len(toServer) : toServer[i].kind # "open"
  BY <1>4 DEF OpensFirst
<1>9. CASE m.kind = "close"
  BY <1>1, <1>3, <1>5, <1>7, <1>8, <1>9 DEF WillAgree
<1>10. CASE m.kind # "close"
  <2>1. phone'.socket = phone.socket /\ (m.kind # "opened" => phone'.open = phone.open)
        /\ (m.kind = "opened" => (phone'.open <=> phone.socket # 0))
    BY <1>1, <1>2, <1>10
  <2>2. IsIn(toPhone, "close") <=> IsIn(toPhone', "close")
    BY <1>6, <1>10
  <2>3. phone.socket # 0 /\ (phone.open \/ IsIn(toPhone, "opened")) =>
          phone'.open \/ IsIn(toPhone', "opened")
    BY <1>6, <2>1
  <2>4. QED BY <1>3, <1>5, <2>1, <2>2, <2>3 DEF WillAgree
<1>11. QED BY <1>9, <1>10

(* The server takes one that is no dial: an end of its socket is the end.  *)
LEMMA ServerTakes ==
  ASSUME BleTyped, OpensFirst, WillAgree, NEW m, m = toServer[1], m.kind # "open",
         toServer # <<>>, toServer' = Tail(toServer), phone' = phone,
         NEW more \in Seq(PhoneMessage), NoneOf(more), toPhone' = toPhone \o more,
         Ends(m) => server'.socket = 0, ~Ends(m) => server'.socket = server.socket
  PROVE  OpensFirst' /\ WillAgree'
<1>1. toPhone \in Seq(PhoneMessage) /\ toServer \in Seq(ServerMessage)
  BY DEF BleTyped
<1>2. /\ \A i \in 1 .. Len(toServer') + 1 : EndFrom(toServer', i) <=> EndFrom(toServer, i + 1)
      /\ EndFrom(toServer, 1) <=> Ends(m) \/ EndFrom(toServer', 1)
      /\ Len(toServer) \in Nat \ {0} /\ Len(toServer') = Len(toServer) - 1
      /\ \A i \in 1 .. Len(toServer') : i + 1 \in 1 .. Len(toServer) /\ toServer'[i] = toServer[i + 1]
  BY <1>1, RestToTell
<1>3. IsIn(toServer', "open") <=> IsIn(toServer, "open")
  BY <1>1, OneKind
<1>4. ~IsIn(more, "close") /\ ~IsIn(more, "opened")
  BY DEF NoneOf, IsIn, OfASocket
<1>5. /\ IsIn(toPhone', "close") <=> IsIn(toPhone, "close")
      /\ IsIn(toPhone', "opened") <=> IsIn(toPhone, "opened")
      /\ NoneOf(toPhone) => NoneOf(toPhone')
  BY <1>1, <1>4, OneKind, SpeaksOf
<1>6. OpensFirst'
  <2>1. ASSUME NEW i \in 1 .. Len(toServer'), toServer'[i].kind = "open"
        PROVE  /\ server'.socket = 0 /\ NoneOf(toPhone')
               /\ \A j \in 1 .. i - 1 : ~OfASocket(toServer'[j])
    <3>1. i + 1 \in 1 .. Len(toServer) /\ toServer[i + 1].kind = "open"
      BY <1>2, <2>1
    <3>2. /\ server.socket = 0 /\ NoneOf(toPhone)
          /\ \A j \in 1 .. (i + 1) - 1 : ~OfASocket(toServer[j])
      BY <3>1, Zenon DEF OpensFirst
    <3>3. \A j \in 1 .. i - 1 : /\ j \in 1 .. Len(toServer') /\ j + 1 \in 1 .. (i + 1) - 1
                                /\ toServer'[j] = toServer[j + 1]
      BY <1>2
    <3>4. \A j \in 1 .. i - 1 : ~OfASocket(toServer'[j])
      BY <3>2, <3>3, Zenon DEF OfASocket
    <3>5. QED BY <1>5, <3>2, <3>4
  <2>2. QED BY <2>1, Zenon DEF OpensFirst
<1>7. server'.socket # 0 =>
        /\ EndFrom(toServer', 1) <=> phone'.socket = 0
        /\ phone'.socket # 0 => ~IsIn(toPhone', "close") /\ (phone'.open \/ IsIn(toPhone', "opened"))
  BY <1>2, <1>5 DEF WillAgree
<1>8. ASSUME NEW i \in 1 .. Len(toServer'), toServer'[i].kind = "open"
      PROVE  EndFrom(toServer', i) <=> phone'.socket = 0
  <2>1. i + 1 \in 1 .. Len(toServer) /\ toServer[i + 1].kind = "open" /\ i \in 1 .. Len(toServer') + 1
    BY <1>2, <1>8
  <2>2. EndFrom(toServer, i + 1) <=> phone.socket = 0
    BY <2>1, Zenon DEF WillAgree
  <2>3. QED BY <1>2, <2>1, <2>2
<1>9. ASSUME server'.socket = 0, ~IsIn(toServer', "open"), phone'.socket # 0
      PROVE  IsIn(toPhone', "close")
  <2>1. CASE server.socket = 0
    BY <1>3, <1>5, <1>9, <2>1 DEF WillAgree
  <2>2. CASE server.socket # 0
    <3>1. Ends(m)
      BY <1>9, <2>2
    <3>2. EndFrom(toServer, 1) <=> phone.socket = 0
      BY <2>2 DEF WillAgree
    <3>3. QED BY <1>2, <1>9, <3>1, <3>2
  <2>3. QED BY <2>1, <2>2
<1>10. QED BY <1>6, <1>7, <1>8, <1>9, Zenon DEF WillAgree

(* It takes the dial: the one it has heard of, and nothing of another.     *)
LEMMA ServerOpens ==
  ASSUME BleTyped, OpensFirst, WillAgree, NEW m, m = toServer[1], m.kind = "open",
         toServer # <<>>, toServer' = Tail(toServer), phone' = phone,
         phone.socket \in {0, m.n},
         \/ server'.socket = m.n /\ toPhone' = toPhone \o <<Simple("opened", m.n)>>
         \/ /\ server'.socket = 0
            /\ toPhone' = toPhone \o <<Simple("opened", m.n), Simple("close", m.n)>>
  PROVE  OpensFirst' /\ WillAgree'
<1> DEFINE a == Simple("opened", m.n)
           b == Simple("close", m.n)
<1>1. toPhone \in Seq(PhoneMessage) /\ toServer \in Seq(ServerMessage)
  BY DEF BleTyped
<1>2. /\ EndFrom(toServer, 1) <=> Ends(m) \/ EndFrom(toServer', 1)
      /\ Len(toServer) \in Nat \ {0} /\ Len(toServer') = Len(toServer) - 1
      /\ \A i \in 1 .. Len(toServer') : i + 1 \in 1 .. Len(toServer) /\ toServer'[i] = toServer[i + 1]
  BY <1>1, RestToTell
<1>3. 1 \in 1 .. Len(toServer)
  BY <1>2
<1>4. NoneOf(toPhone) /\ (EndFrom(toServer, 1) <=> phone.socket = 0)
  BY <1>3, Zenon DEF OpensFirst, WillAgree
<1>5. ASSUME NEW i \in 1 .. Len(toServer'), toServer'[i].kind = "open" PROVE FALSE
  <2>1. i + 1 \in 1 .. Len(toServer) /\ toServer[i + 1].kind = "open" /\ 1 \in 1 .. (i + 1) - 1
    BY <1>2, <1>5
  <2>2. \A j \in 1 .. (i + 1) - 1 : ~OfASocket(toServer[j])
    BY <2>1, Zenon DEF OpensFirst
  <2>3. QED BY <2>1, <2>2 DEF OfASocket
<1>6. OpensFirst'
  BY <1>5, Zenon DEF OpensFirst
<1>7. ~Ends(m)
  BY DEF Ends
<1>8. EndFrom(toServer', 1) <=> phone'.socket = 0
  BY <1>2, <1>4, <1>7
<1>9. ~IsIn(toPhone, "close")
  BY <1>4 DEF NoneOf, IsIn, OfASocket
<1>10. m.n \in Sockets
  BY <1>1, <1>3, KindsAre
<1>11. a \in PhoneMessage /\ b \in PhoneMessage /\ a.kind = "opened" /\ b.kind = "close"
  BY <1>10 DEF Simple, PhoneMessage
<1> HIDE DEF a, b
<1>12. /\ <<a>> \in Seq(PhoneMessage) /\ <<a, b>> \in Seq(PhoneMessage)
       /\ IsIn(<<a>>, "opened") /\ ~IsIn(<<a>>, "close") /\ IsIn(<<a, b>>, "close")
  <2>1. <<a>> \in Seq(PhoneMessage) /\ <<a, b>> \in Seq(PhoneMessage)
    BY <1>11
  <2>2. IsIn(<<a>>, "opened") /\ ~IsIn(<<a>>, "close")
    BY <1>11 DEF IsIn
  <2>3. IsIn(<<a, b>>, "close")
    <3> DEFINE q == <<a, b>>
    <3>1. 2 \in 1 .. Len(q) /\ q[2] = b
      OBVIOUS
    <3> HIDE DEF q
    <3>2. IsIn(q, "close")
      BY <1>11, <3>1 DEF IsIn
    <3>3. QED BY <3>2 DEF q
  <2>4. QED BY <2>1, <2>2, <2>3
<1>13. CASE server'.socket = m.n /\ toPhone' = toPhone \o <<a>>
  <2>1. ~IsIn(toPhone', "close") /\ IsIn(toPhone', "opened")
    BY <1>1, <1>9, <1>12, <1>13, OneKind
  <2>2. server'.socket = 0 => phone'.socket = 0
    BY <1>13
  <2>3. QED BY <1>5, <1>6, <1>8, <2>1, <2>2, Zenon DEF WillAgree
<1>14. CASE server'.socket = 0 /\ toPhone' = toPhone \o <<a, b>>
  <2>1. IsIn(toPhone', "close")
    BY <1>1, <1>12, <1>14, OneKind
  <2>2. QED BY <1>5, <1>6, <1>8, <1>14, <2>1, Zenon DEF WillAgree
<1>15. QED BY <1>13, <1>14 DEF a, b

(* A queue with one message more.                                          *)
LEMMA OneMore ==
  ASSUME NEW S, NEW q \in Seq(S), NEW a \in S
  PROVE  /\ Len(q) \in Nat /\ Len(q \o <<a>>) = Len(q) + 1
         /\ \A j \in 1 .. Len(q) : (q \o <<a>>)[j] = q[j]
         /\ (q \o <<a>>)[Len(q) + 1] = a
<1>1. <<a>> \in Seq(S) /\ Len(<<a>>) = 1 /\ <<a>>[1] = a
  OBVIOUS
<1>2. /\ Len(q) \in Nat /\ Len(q \o <<a>>) = Len(q) + 1
      /\ \A j \in 1 .. Len(q) : (q \o <<a>>)[j] = q[j]
      /\ \A j \in 1 .. 1 : (q \o <<a>>)[Len(q) + j] = <<a>>[j]
  BY <1>1, MoreIs
<1>3. QED BY <1>1, <1>2

(* Every step keeps the two ends on the way to agreeing.                   *)
LEMMA EndsAgreeKept ==
  ASSUME BleTyped, LinkHolds, OneSocket, EndsAgree, BleNext
  PROVE  EndsAgree'
<1>1. why \subseteq why'
  BY DEF BleNext, LinkComesUp, LinkDrops, ServerHearsDown, PhoneHearsDown, NotificationLost,
         Dials, PhoneSays, PhoneCloses, Asks, PhoneHears, ServerSays, ServerCloses, ServerHears
<1>2. SUFFICES ASSUME radio', "lost" \notin why', "crossed" \notin why'
               PROVE  OpensFirst' /\ WillAgree'
  <2>1. (why \cap {"lost", "crossed"} = {})' => "lost" \notin why' /\ "crossed" \notin why'
    OBVIOUS
  <2>2. QED BY <2>1 DEF EndsAgree
<1>3. "lost" \notin why /\ "crossed" \notin why
  BY <1>1, <1>2
<1>4. radio => OpensFirst /\ WillAgree
  <2>1. why \cap {"lost", "crossed"} = {}
    BY <1>3
  <2>2. QED BY <2>1 DEF EndsAgree
<1>5. /\ server \in ServerType /\ phone \in PhoneType /\ tally \in TallyType
      /\ toPhone \in Seq(PhoneMessage) /\ toServer \in Seq(ServerMessage)
  BY DEF BleTyped
<1>6. LinkComesUp \/ radio
  BY <1>2 DEF BleNext, LinkDrops, ServerHearsDown, PhoneHearsDown, NotificationLost,
              Dials, PhoneSays, PhoneCloses, Asks, PhoneHears, ServerSays, ServerCloses, ServerHears
<1>7. CASE LinkComesUp
  <2>1. toServer = <<>> /\ toServer' = <<>> /\ phone.socket = 0
    BY <1>7 DEF LinkComesUp, LinkHolds
  <2>2. server'.socket = 0 /\ phone'.socket = 0
    BY <1>5, <1>7, <2>1 DEF LinkComesUp, FreshServer, PhoneType
  <2>3. \A i \in 1 .. Len(toServer') : FALSE
    BY <2>1
  <2>4. OpensFirst'
    BY <2>3, Zenon DEF OpensFirst
  <2>5. QED BY <2>2, <2>3, <2>4, Zenon DEF WillAgree
<1>8. CASE Dials
  <2> DEFINE d == tally.dials
             a == Simple("open", d + 1)
  <2>1. radio /\ ~Crosses /\ toPhone' = toPhone /\ server' = server /\ phone'.socket = d + 1
        /\ toServer' = toServer \o <<a>>
    BY <1>2, <1>5, <1>8 DEF Dials, Sends, PhoneType
  <2>2. server.socket = 0 /\ NoneOf(toPhone) /\ NoneOf(toServer)
    BY <1>5, <2>1 DEF Crosses, NoneOf
  <2>3. d + 1 \in Sockets /\ d + 1 # 0
    <3>1. d \in Nat /\ d < MaxDials /\ MaxDials \in Nat
      BY <1>5, <1>8, BleAssumption DEF Dials, TallyType, Sockets
    <3>2. QED BY <3>1 DEF Sockets
  <2>4. a.kind = "open" /\ a \in ServerMessage /\ ~Ends(a)
    BY <2>3 DEF Simple, ServerMessage, Ends
  <2> HIDE DEF a, d
  <2>5. /\ Len(toServer) \in Nat /\ Len(toServer') = Len(toServer) + 1
        /\ \A j \in 1 .. Len(toServer) : toServer'[j] = toServer[j]
        /\ toServer'[Len(toServer) + 1] = a
    BY <1>5, <2>1, <2>4, OneMore
  <2>6. \A j \in 1 .. Len(toServer) : ~OfASocket(toServer'[j])
    BY <2>2, <2>5 DEF NoneOf, OfASocket
  <2>7. ASSUME NEW i \in 1 .. Len(toServer'), toServer'[i].kind = "open"
        PROVE  i = Len(toServer) + 1
    <3>1. i \notin 1 .. Len(toServer)
      BY <2>6, <2>7 DEF OfASocket
    <3>2. QED BY <2>5, <3>1
  <2>8. OpensFirst'
    <3>1. ASSUME NEW i \in 1 .. Len(toServer'), toServer'[i].kind = "open"
          PROVE  \A j \in 1 .. i - 1 : ~OfASocket(toServer'[j])
      BY <2>5, <2>6, <2>7, <3>1
    <3>2. server'.socket = 0 /\ NoneOf(toPhone')
      BY <2>1, <2>2
    <3>3. QED BY <3>1, <3>2, Zenon DEF OpensFirst
  <2>9. ~EndFrom(toServer', Len(toServer) + 1)
    BY <2>4, <2>5 DEF EndFrom
  <2>10. IsIn(toServer', "open")
    BY <2>4, <2>5 DEF IsIn
  <2>11. phone'.socket # 0 /\ server'.socket = 0
    BY <2>1, <2>2, <2>3
  <2>12. ASSUME NEW i \in 1 .. Len(toServer'), toServer'[i].kind = "open"
         PROVE  EndFrom(toServer', i) <=> phone'.socket = 0
    BY <2>7, <2>9, <2>11, <2>12
  <2>13. QED BY <2>8, <2>10, <2>11, <2>12, Zenon DEF WillAgree
<1>9. CASE PhoneSays
  <2>1. radio /\ phone.socket # 0 /\ phone.socket \in Sockets /\ phone' = phone
        /\ toPhone' = toPhone /\ server' = server
    BY <1>2, <1>5, <1>9 DEF PhoneSays, LinkHolds, PhoneType
  <2>2. PICK text \in Texts(phone.socket) : toServer' = toServer \o text
    BY <1>9, <2>1 DEF PhoneSays, Sends
  <2>3. text \in Seq(ServerMessage) /\ \A j \in 1 .. Len(text) : text[j].kind \in {"part", "text"}
    BY <2>1, <2>2, TextOf
  <2>4. ~IsIn(text, "open") /\ ~EndFrom(text, 1)
    BY <2>3 DEF IsIn, EndFrom, Ends
  <2>5. QED BY <1>4, <2>1, <2>2, <2>3, <2>4, PhoneTells
<1>10. ASSUME NEW a \in ServerMessage, a.kind # "open"
       PROVE  /\ <<a>> \in Seq(ServerMessage) /\ ~IsIn(<<a>>, "open")
              /\ EndFrom(<<a>>, 1) <=> Ends(a)
  <2>1. <<a>> \in Seq(ServerMessage)
    OBVIOUS
  <2> DEFINE q == <<a>>
  <2>2. Len(q) = 1 /\ q[1] = a
    OBVIOUS
  <2> HIDE DEF q
  <2>3. ~IsIn(q, "open") /\ (EndFrom(q, 1) <=> Ends(a))
    BY <1>10, <2>2 DEF IsIn, EndFrom
  <2>4. QED BY <2>1, <2>3 DEF q
<1>11. CASE PhoneCloses
  <2> DEFINE a == Simple("close", phone.socket)
  <2>1. a \in ServerMessage /\ a.kind # "open" /\ Ends(a)
    BY <1>5 DEF Simple, ServerMessage, Ends, PhoneType
  <2>2. radio /\ phone'.socket = 0 /\ toPhone' = toPhone /\ server' = server
        /\ toServer' = toServer \o <<a>>
    BY <1>2, <1>5, <1>11 DEF PhoneCloses, PhoneType, Sends
  <2> HIDE DEF a
  <2>3. <<a>> \in Seq(ServerMessage) /\ ~IsIn(<<a>>, "open") /\ EndFrom(<<a>>, 1)
    BY <1>10, <2>1
  <2>4. QED BY <1>4, <2>2, <2>3, PhoneTells
<1>12. CASE Asks
  <2>1. radio /\ toPhone' = toPhone /\ server' = server
    BY <1>2, <1>12 DEF Asks
  <2>2. ASSUME NEW b \in BOOLEAN, Sends(<<WhereSays(b)>>),
               \/ phone'.socket = 0 /\ ~b
               \/ phone' = phone /\ b = (phone.socket # 0)
        PROVE  OpensFirst' /\ WillAgree'
    <3> DEFINE a == WhereSays(b)
    <3>1. a \in ServerMessage /\ a.kind # "open" /\ (Ends(a) <=> ~b)
      BY DEF WhereSays, ServerMessage, Ends
    <3>2. toServer' = toServer \o <<a>>
      BY <2>1, <2>2 DEF Sends
    <3> HIDE DEF a
    <3>3. <<a>> \in Seq(ServerMessage) /\ ~IsIn(<<a>>, "open") /\ (EndFrom(<<a>>, 1) <=> ~b)
      BY <1>10, <3>1
    <3>4. \/ phone'.socket = 0 /\ EndFrom(<<a>>, 1)
          \/ /\ phone'.socket = phone.socket /\ phone'.open = phone.open /\ phone.socket # 0
             /\ ~EndFrom(<<a>>, 1)
      BY <2>2, <3>3
    <3>5. QED BY <1>4, <2>1, <3>2, <3>3, <3>4, PhoneTells
  <2>3. CASE UNCHANGED phone /\ Sends(<<WhereSays(phone.socket # 0)>>)
    <3>1. (phone.socket # 0) \in BOOLEAN
      OBVIOUS
    <3>2. QED BY <2>2, <2>3, <3>1
  <2>4. CASE phone' = [link |-> TRUE, socket |-> 0, open |-> FALSE, parts |-> <<>>, here |-> FALSE]
             /\ Sends(<<WhereSays(FALSE)>>)
    BY <2>2, <2>4
  <2>5. QED BY <1>12, <2>3, <2>4 DEF Asks
<1>13. CASE PhoneHears
  BY <1>4, <1>6, <1>13, PhoneTakes DEF PhoneHears, LinkComesUp
<1>14. CASE ServerSays
  <2>1. radio /\ server.socket # 0 /\ server.socket \in Sockets /\ phone' = phone
        /\ toServer' = toServer
    BY <1>2, <1>5, <1>14 DEF ServerSays, ServerType
  <2>2. PICK text \in Texts(server.socket) : toPhone' = toPhone \o text /\ server' = server
    BY <1>14, <2>1 DEF ServerSays, Says
  <2>3. text \in Seq(PhoneMessage) /\ \A j \in 1 .. Len(text) : text[j].kind \in {"part", "text"}
    BY <2>1, <2>2, TextOf
  <2>4. ~IsIn(text, "close")
    BY <2>3 DEF IsIn
  <2>5. QED BY <1>4, <2>1, <2>2, <2>3, <2>4, ServerTells
<1>15. CASE ServerCloses
  <2> DEFINE a == Simple("close", server.socket)
  <2>1. a \in PhoneMessage /\ a.kind = "close"
    BY <1>5 DEF Simple, PhoneMessage, ServerType
  <2>2. radio /\ server.socket # 0 /\ server'.socket = 0 /\ phone' = phone /\ toServer' = toServer
        /\ toPhone' = Append(toPhone, a)
    BY <1>2, <1>5, <1>15 DEF ServerCloses, ServerType
  <2> HIDE DEF a
  <2>3. Append(toPhone, a) = toPhone \o <<a>> /\ <<a>> \in Seq(PhoneMessage)
    BY <1>5, <2>1, AppendIsConcat
  <2>4. IsIn(<<a>>, "close")
    BY <2>1 DEF IsIn
  <2>5. QED BY <1>4, <2>2, <2>3, <2>4, ServerTells
<1>16. CASE ServerHears
  <2> DEFINE m == toServer[1]
  <2>1. /\ toServer # <<>> /\ toServer' = Tail(toServer) /\ m \in ServerMessage /\ radio
        /\ m.kind = "where" => server'.socket = (IF m.open THEN server.socket ELSE 0)
        /\ m.kind \in {"part", "text"} => server'.socket = server.socket /\ toPhone' = toPhone
        /\ m.kind = "close" => server'.socket = 0 /\ toPhone' = toPhone
    BY <1>16, ServerHearsIs
  <2>2. m.kind \in {"open", "close", "where", "part", "text"} /\ (m.kind = "where" => m.open \in BOOLEAN)
    BY <2>1, KindsAre
  <2>3. phone' = phone
    BY <1>16 DEF ServerHears
  <2>4. CASE m.kind = "open"
    <3>1. phone.socket \in {0, m.n}
      <4>1. OfASocket(m)
        BY <2>4 DEF OfASocket
      <4>2. m.n = tally.dials
        BY <1>3, <1>5, <2>1, <4>1, SpeaksOf DEF OneSocket
      <4>3. QED BY <1>3, <4>2 DEF OneSocket
    <3>2. \/ server'.socket = m.n /\ toPhone' = Append(toPhone, Simple("opened", m.n))
          \/ /\ server'.socket = 0
             /\ toPhone' = toPhone \o <<Simple("opened", m.n), Simple("close", m.n)>>
      BY <1>16, <2>4, ServerHearsIs
    <3>3. Append(toPhone, Simple("opened", m.n)) = toPhone \o <<Simple("opened", m.n)>>
      <4>1. m.n \in Sockets
        BY <2>1, KindsAre
      <4>2. Simple("opened", m.n) \in PhoneMessage
        BY <4>1 DEF Simple, PhoneMessage
      <4>3. QED BY <1>5, <4>2, AppendIsConcat
    <3>4. QED BY <1>4, <2>1, <2>3, <2>4, <3>1, <3>2, <3>3, ServerOpens
  <2>5. CASE m.kind # "open"
    <3>1. (Ends(m) => server'.socket = 0) /\ (~Ends(m) => server'.socket = server.socket)
      BY <2>1, <2>2, <2>5 DEF Ends
    <3>2. \E more \in Seq(PhoneMessage) : NoneOf(more) /\ toPhone' = toPhone \o more
      <4>1. CASE toPhone' = toPhone
        <5>1. toPhone \o <<>> = toPhone /\ <<>> \in Seq(PhoneMessage) /\ NoneOf(<<>>)
          BY <1>5, EmptySeq, ConcatEmptySeq, SaidOf
        <5>2. QED BY <4>1, <5>1
      <4>2. CASE m.kind = "where"
        <5> DEFINE here == <<Simple("here", 0)>>
        <5>1. NoneOf(here)
          BY SaidOf
        <5>2. \/ toPhone' = toPhone
              \/ \E more \in Seq(PhoneMessage) : toPhone' = toPhone \o more /\ more = here
          BY <1>16, <4>2, AnswersAre
        <5> HIDE DEF here
        <5>3. QED BY <4>1, <5>1, <5>2
      <4>3. QED BY <2>1, <2>2, <2>5, <4>1, <4>2
    <3>3. QED BY <1>4, <2>1, <2>3, <2>5, <3>1, <3>2, ServerTakes
  <2>6. QED BY <2>4, <2>5
<1>17. CASE LinkDrops \/ ServerHearsDown \/ PhoneHearsDown \/ NotificationLost
  BY <1>2, <1>3, <1>17 DEF LinkDrops, ServerHearsDown, PhoneHearsDown, NotificationLost
<1>18. QED
  BY <1>7, <1>8, <1>9, <1>11, <1>12, <1>13, <1>14, <1>15, <1>16, <1>17 DEF BleNext

-----------------------------------------------------------------------------
(* At first there is no link and nothing is said.                          *)
LEMMA BleInitOK ==
  ASSUME BleInit
  PROVE  BleInv
<1>1. 0 \in Sockets /\ <<>> \in Seq(Piece) /\ <<>> \in Seq(PhoneMessage) /\ <<>> \in Seq(ServerMessage)
  BY BleAssumption, EmptySeq DEF Sockets
<1>2. server \in ServerType /\ phone \in PhoneType /\ tally \in TallyType
  BY <1>1 DEF BleInit, ServerType, PhoneType, TallyType
<1>3. BleTyped /\ LinkHolds
  BY <1>1, <1>2 DEF BleInit, BleTyped, LinkHolds
<1>4. TextsWhole
  <2>1. InPieces(<<>>, <<>>, FALSE)
    BY OneIsWhole
  <2>2. InPieces(<<>>, <<>>, ~phone.open)
    BY <2>1 DEF InPieces
  <2>3. QED BY <2>1, <2>2 DEF BleInit, TextsWhole, ServerWhole, PhoneWhole
<1>5. OneSocket
  BY DEF BleInit, OneSocket, AllOf
<1>6. EndsAgree /\ HeardWell
  BY DEF BleInit, EndsAgree, HeardWell
<1>7. QED BY <1>3, <1>4, <1>5, <1>6 DEF BleInv

(* Every step keeps the whole invariant.                                   *)
LEMMA BleStepOK ==
  ASSUME BleInv, [BleNext]_bleVars
  PROVE  BleInv'
<1>1. CASE BleNext
  <2>1. BleTyped' /\ LinkHolds'
    BY <1>1, BleTypedKept DEF BleInv
  <2>2. TextsWhole'
    BY <1>1, ServerWholeKept, PhoneWholeKept DEF BleInv, TextsWhole
  <2>3. OneSocket' /\ EndsAgree' /\ HeardWell'
    BY <1>1, OneSocketKept, EndsAgreeKept, HeardWellKept DEF BleInv, TextsWhole
  <2>4. QED BY <2>1, <2>2, <2>3 DEF BleInv
<1>2. CASE UNCHANGED bleVars
  <2>1. BleTyped' /\ LinkHolds'
    BY <1>2 DEF bleVars, BleInv, BleTyped, LinkHolds
  <2>2. TextsWhole' /\ OneSocket'
    BY <1>2 DEF bleVars, BleInv, TextsWhole, ServerWhole, PhoneWhole, InPieces, OneSocket, AllOf
  <2>3. EndsAgree' /\ HeardWell'
    BY <1>2 DEF bleVars, BleInv, EndsAgree, OpensFirst, WillAgree, NoneOf, EndFrom, Ends, IsIn,
                OfASocket, HeardWell, WholeOf
  <2>4. QED BY <2>1, <2>2, <2>3 DEF BleInv
<1>3. QED BY <1>1, <1>2

(* The invariant says what is to be heard, and that quiet ends agree.      *)
LEMMA BleInvSays ==
  ASSUME BleInv
  PROVE  HeardAsSaid
<1>1. BleTypeOK
  BY DEF BleInv, BleTyped, LinkHolds, BleTypeOK, ServerType, PhoneType
<1>2. QuietAgrees
  <2>1. SUFFICES ASSUME radio, toPhone = <<>>, toServer = <<>>, why \cap {"lost", "crossed"} = {}
                 PROVE  /\ server.socket = phone.socket
                        /\ phone.socket # 0 => phone.open
    BY DEF QuietAgrees
  <2>2. WillAgree /\ "crossed" \notin why
    BY <2>1 DEF BleInv, EndsAgree
  <2>3. \A kind : ~IsIn(toPhone, kind) /\ ~IsIn(toServer, kind)
    BY <2>1 DEF IsIn
  <2>4. ~EndFrom(toServer, 1)
    BY <2>1 DEF EndFrom
  <2>5. server.socket \in {0, tally.dials} /\ phone.socket \in {0, tally.dials}
    BY <2>2 DEF BleInv, OneSocket
  <2>6. server.socket # 0 => phone.socket # 0 /\ phone.open
    BY <2>2, <2>3, <2>4 DEF WillAgree
  <2>7. server.socket = 0 => phone.socket = 0
    BY <2>2, <2>3 DEF WillAgree
  <2>8. QED BY <2>5, <2>6, <2>7
<1>3. QED BY <1>1, <1>2 DEF BleInv, HeardWell, HeardAsSaid

(* On every run of the socket's two ends the invariant holds: texts travel *)
(* whole, one socket at a time, and what ends it is on its way to the      *)
(* other end (src/transport/ble-socket.js, src/edge/mcp/localhost/ble.js). *)
THEOREM BleInvariant == BleSpec => []BleInv
<1>1. BleInit => BleInv
  BY BleInitOK
<1>2. BleInv /\ [BleNext]_bleVars => BleInv'
  BY BleStepOK
<1>3. QED BY <1>1, <1>2, PTL DEF BleSpec

(* A text handed on over Bluetooth is one whole text of the socket it is   *)
(* handed to, except after what may excuse it, and the two ends agree on   *)
(* the socket whenever nothing is on its way: for every number of dials,   *)
(* texts, links, losses and questions.                                     *)
THEOREM SocketHeardAsSaid == BleSpec => []HeardAsSaid
<1>1. BleInv => HeardAsSaid
  BY BleInvSays
<1>2. QED BY <1>1, BleInvariant, PTL
=============================================================================
