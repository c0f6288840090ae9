---------------------------- MODULE VendorProofs ----------------------------
(***************************************************************************)
(* Theorems about the vendor interface.  First getAssertion: an answer is  *)
(* one answer, and its caller's.  Then a signature or a decryption: the    *)
(* sheet comes down, and the answer is the request's own.                  *)
(*                                                                         *)
(* The reports the key has yet to say to getAssertion are a chain: behind  *)
(* one that is not the last of an answer comes the next of the same.  So a *)
(* call that took the first takes the rest of it or none of it, whoever's  *)
(* it is; and until a call was given up, what the key holds and says is    *)
(* the pending call's.                                                     *)
(*                                                                         *)
(* Of an operation the invariant says of each stage of the attempt that    *)
(* runs what the key may hold and what may be on its way (KeyHeeds).  It   *)
(* ends with `left`: an attempt that ended before the key was done with it *)
(* leaves packets, a request or reports behind, and then nothing is        *)
(* promised.                                                               *)
(***************************************************************************)
EXTENDS VendorBridge, VendorOperation, FiniteSetTheorems, SequenceTheorems, TLAPS

-----------------------------------------------------------------------------
(* The lane inside the bridge: what LaneProofs says of any lane, of one    *)
(* with nobody urgent.                                                     *)
LP == INSTANCE LaneProofs WITH Urgent <- {}

LaneOK == L!TypeOK /\ L!LaneInv

(* The two names of each formula are one formula.                          *)
LEMMA SameLane ==
  /\ L!TypeOK <=> LP!TypeOK
  /\ L!LaneInv <=> LP!LaneInv
  /\ L!Init <=> LP!Init
  /\ [L!Next]_lvars => [LP!Next]_(LP!vars)
<1>1. L!TypeOK <=> LP!TypeOK
  BY DEF L!TypeOK, LP!TypeOK, L!Phase, LP!Phase
<1>2. L!LaneInv <=> LP!LaneInv
  BY DEF L!LaneInv, LP!LaneInv, L!OneConversation, LP!OneConversation, L!RunningIsHeld,
         LP!RunningIsHeld, L!QueueIsWaiting, LP!QueueIsWaiting, L!UrgentFirst, LP!UrgentFirst,
         L!InLane, LP!InLane
<1>3. L!Init <=> LP!Init
  BY DEF L!Init, LP!Init
<1>4. [L!Next]_lvars => [LP!Next]_(LP!vars)
  BY DEF L!Next, L!CallIdle, L!CallBusy, L!Settle, L!Release, L!Queue, lvars,
         LP!Next, LP!CallIdle, LP!CallBusy, LP!Settle, LP!Release, LP!Queue, LP!vars
<1>5. QED BY <1>1, <1>2, <1>3, <1>4

(* And so they are after a step.                                           *)
LEMMA SameLaneNext == LaneOK' <=> (LP!TypeOK /\ LP!LaneInv)'
BY DEF LaneOK, L!TypeOK, LP!TypeOK, L!Phase, LP!Phase,
       L!LaneInv, LP!LaneInv, L!OneConversation, LP!OneConversation, L!RunningIsHeld,
       LP!RunningIsHeld, L!QueueIsWaiting, LP!QueueIsWaiting, L!UrgentFirst, LP!UrgentFirst,
       L!InLane, LP!InLane

(* The bridge begins with a lane in order (LaneProofs).                    *)
LEMMA LaneAtFirst == L!Init => LaneOK
BY SameLane, LP!TypesAtFirst, LP!OrderAtFirst DEF LaneOK

(* A step of the lane keeps it in order, whoever takes it.                 *)
LEMMA LaneKept == LaneOK /\ [L!Next]_lvars => LaneOK'
BY SameLane, SameLaneNext, LP!TypesKept, LP!OrderKept DEF LaneOK

-----------------------------------------------------------------------------
(* The bridge: the inductive invariant.                                    *)

Fresh(c) == sent[c] = 0 /\ next[c] = 0 /\ heard[c] = {} /\ c \notin looping

(* A call is made once: it has an outcome when it has talked.              *)
Calls ==
  \A c \in Conv :
    /\ phase[c] \in {"waiting", "talking"} => outcome[c] = "none"
    /\ outcome[c] = "none" /\ phase[c] # "talking" => phase[c] \in {"outside", "waiting"} /\ Fresh(c)
    /\ c \in looping => sent[c] < Frames

(* Behind a report of an answer that is not its last comes the next of it. *)
Chain(s) ==
  \A i \in 1 .. Len(s) :
    s[i].index < Reports - 1 =>
      /\ i < Len(s)
      /\ s[i + 1] = [index |-> s[i].index + 1, of |-> s[i].of]

(* A call that has heard some of an answer hears the rest of it next.      *)
Halfway ==
  \A c \in pending :
    IF next[c] = 0 THEN heard[c] = {}
    ELSE /\ next[c] < Reports /\ key.says # <<>>
         /\ key.says[1].index = next[c] /\ heard[c] = {key.says[1].of}

Wholes ==
  \A c \in Conv :
    outcome[c] = "answer" => (\E of \in SUBSET Conv : heard[c] = {of}) /\ next[c] = Reports

(* Until a call is given up, the key holds frames of the one that writes,  *)
(* or what is left of its answer, and nothing of another.                  *)
Own ==
  ~GivenUp =>
    /\ \A c \in Conv : heard[c] \subseteq {{c}}
    /\ looping \subseteq pending
    /\ pending = {} => key.frames = <<>> /\ key.says = <<>>
    /\ \A c \in looping :
         /\ key.says = <<>> /\ next[c] = 0 /\ Len(key.frames) = sent[c]
         /\ \A i \in 1 .. Len(key.frames) : key.frames[i] = c
    /\ \A c \in pending \ looping :
         /\ key.frames = <<>>
         /\ \/ key.says = <<Refusal>>
            \/ /\ next[c] < Reports /\ Len(key.says) = Reports - next[c]
               /\ \A i \in 1 .. Len(key.says) : key.says[i] = [index |-> next[c] + i - 1, of |-> {c}]

KeyShape == key = [frames |-> key.frames, says |-> key.says]

Typed == LaneOK /\ PendingTalks /\ KeyShape
IInv == Typed /\ Calls /\ Chain(key.says) /\ Halfway /\ Wholes /\ Own

-----------------------------------------------------------------------------
(* What the key says, as a sequence.                                       *)

(* Behind the first report of what the key says comes a chain again.       *)
LEMMA ChainTail ==
  ASSUME NEW s \in Seq(Report), s # <<>>, Chain(s)
  PROVE  Chain(Tail(s)) /\ Tail(s) \in Seq(Report)
BY SizeAssumption DEF Chain

(* A report is one of an answer, by its index, or the refusal.             *)
LEMMA ReportTypes ==
  ASSUME NEW r \in Report
  PROVE  /\ r.index \in 0 .. Reports /\ r.of \in SUBSET Conv
         /\ r # Refusal => r.index \in 0 .. Reports - 1
         /\ r.index = Reports => r = Refusal
         /\ r = [index |-> r.index, of |-> r.of]
BY SizeAssumption DEF Report, Refusal

(* A refusal in text is a report, with an index no part of an answer has.  *)
LEMMA RefusalIsReport == Refusal \in Report /\ Refusal.index = Reports
BY DEF Report, Refusal

(* An answer to some frames.                                               *)
Answer(of) == [r \in 1 .. Reports |-> [index |-> r - 1, of |-> of]]

(* An answer is its reports in order, each of the same frames.             *)
LEMMA AnswerIsChain ==
  ASSUME NEW of \in SUBSET Conv
  PROVE  /\ Answer(of) \in Seq(Report) /\ Len(Answer(of)) = Reports
         /\ \A i \in 1 .. Reports : Answer(of)[i] = [index |-> i - 1, of |-> of]
BY SizeAssumption DEF Answer, Report

(* What stands where in two sequences put together.                        *)
LEMMA Joined ==
  ASSUME NEW S, NEW s \in Seq(S), NEW t \in Seq(S)
  PROVE  /\ s \o t \in Seq(S) /\ Len(s \o t) = Len(s) + Len(t)
         /\ \A i \in 1 .. Len(s) : (s \o t)[i] = s[i]
         /\ \A i \in 1 .. Len(t) : (s \o t)[Len(s) + i] = t[i]
OBVIOUS

(* A refusal said after a chain leaves a chain: it begins nothing that     *)
(* would have to go on.                                                    *)
LEMMA ChainAppend ==
  ASSUME NEW s \in Seq(Report), Chain(s)
  PROVE  Chain(Append(s, Refusal)) /\ Append(s, Refusal) \in Seq(Report)
<1>1. \A i \in 1 .. Len(s) : s[i] \in Report
  OBVIOUS
<1>2. QED BY <1>1, RefusalIsReport, ReportTypes, SizeAssumption DEF Chain

(* A whole answer said after a chain leaves a chain.                       *)
LEMMA ChainAnswer ==
  ASSUME NEW s \in Seq(Report), Chain(s), NEW of, NEW a \in Seq(Report), Len(a) = Reports,
         \A i \in 1 .. Reports : a[i] = [index |-> i - 1, of |-> of]
  PROVE  Chain(s \o a) /\ s \o a \in Seq(Report)
<1>1. /\ s \o a \in Seq(Report) /\ Len(s \o a) = Len(s) + Len(a)
      /\ \A i \in 1 .. Len(s) : (s \o a)[i] = s[i]
      /\ \A i \in 1 .. Len(a) : (s \o a)[Len(s) + i] = a[i]
  <2>1. \A t \in Seq(Report) :
          /\ s \o t \in Seq(Report) /\ Len(s \o t) = Len(s) + Len(t)
          /\ \A i \in 1 .. Len(s) : (s \o t)[i] = s[i]
          /\ \A i \in 1 .. Len(t) : (s \o t)[Len(s) + i] = t[i]
    BY Joined
  <2>2. QED BY <2>1, Zenon
<1>2. ASSUME NEW i \in 1 .. Len(s \o a), (s \o a)[i].index < Reports - 1
      PROVE  /\ i < Len(s \o a)
             /\ (s \o a)[i + 1] = [index |-> (s \o a)[i].index + 1, of |-> (s \o a)[i].of]
  <2>1. CASE i \in 1 .. Len(s)
    BY <1>1, <1>2, <2>1, SizeAssumption DEF Chain
  <2>2. CASE i \notin 1 .. Len(s)
    <3>1. i - Len(s) \in 1 .. Reports /\ i = Len(s) + (i - Len(s))
      BY <1>1, <2>2, SizeAssumption
    <3>2. (s \o a)[i] = [index |-> i - Len(s) - 1, of |-> of]
      BY <1>1, <3>1
    <3>3. i - Len(s) < Reports
      BY <1>2, <3>1, <3>2, SizeAssumption
    <3>4. i - Len(s) + 1 \in 1 .. Reports /\ i + 1 = Len(s) + (i - Len(s) + 1)
      BY <3>1, <3>3, SizeAssumption
    <3>5. (s \o a)[i + 1] = [index |-> i - Len(s), of |-> of]
      BY <1>1, <3>4
    <3>6. QED BY <1>1, <3>2, <3>3, <3>5, SizeAssumption
  <2>3. QED BY <2>1, <2>2
<1>3. QED BY <1>1, <1>2 DEF Chain

-----------------------------------------------------------------------------
(* The steps of the bridge.                                                *)

(* A request that is pending is the one in the lane, and the only one.     *)
LEMMA Alone ==
  ASSUME IInv, NEW c \in pending
  PROVE  pending = {c} /\ c \in Conv /\ phase[c] = "talking" /\ outcome[c] = "none"
BY DEF IInv, Typed, PendingTalks, LaneOK, L!LaneInv, L!OneConversation, L!InLane, Calls

(* A lane with nobody in it, or whose holder has settled, waits for nobody. *)
LEMMA NobodyTalks ==
  ASSUME IInv, ~running \/ \E c \in Conv : phase[c] = "settled"
  PROVE  pending = {}
BY DEF IInv, Typed, PendingTalks, LaneOK, L!LaneInv, L!OneConversation, L!RunningIsHeld, L!InLane

(* A call begins to talk.                                                  *)
LEMMA BeginHolds ==
  ASSUME IInv, NEW c \in Conv, pending = {}, Fresh(c), outcome[c] = "none", Begin(c), LaneOK',
         phase'[c] = "talking",
         \A d \in Conv \ {c} : phase'[d] = phase[d] \/ (phase'[d] = "outside" /\ outcome[d] # "none")
  PROVE  IInv'
<1>1. PendingTalks' /\ KeyShape'
  <2>1. \A d \in Conv : phase'[d] = "talking" <=> d = c
    BY DEF IInv, Typed, PendingTalks
  <2>2. TypeOK'
    BY DEF IInv, Typed, PendingTalks, TypeOK, Begin, LaneOK
  <2>3. QED BY <2>1, <2>2 DEF IInv, Typed, PendingTalks, KeyShape, Begin
<1>2. Calls'
  BY SizeAssumption DEF IInv, Typed, Calls, Begin, Fresh
<1>3. Chain(key.says)' /\ Wholes'
  BY DEF IInv, Chain, Wholes, Begin
<1>4. Halfway'
  BY DEF Halfway, Begin, Fresh
<1>5. Own'
  BY DEF IInv, Own, GivenUp, Begin, Fresh
<1>6. QED BY <1>1, <1>2, <1>3, <1>4, <1>5 DEF IInv, Typed

(* A call starts at once or waits; either way the invariant holds after.   *)
LEMMA CallHolds ==
  ASSUME IInv, NEW c \in Conv, Call(c)
  PROVE  IInv'
<1>1. LaneOK'
  BY LaneKept DEF IInv, Typed, Call, L!Next
<1>2. CASE L!CallIdle(c) /\ Begin(c)
  <2>1. pending = {} /\ Fresh(c) /\ outcome[c] = "none"
    BY <1>2, NobodyTalks DEF Call, L!CallIdle, IInv, Calls
  <2>2. phase'[c] = "talking" /\ \A d \in Conv \ {c} : phase'[d] = phase[d]
    BY <1>2 DEF L!CallIdle, IInv, Typed, LaneOK, L!TypeOK
  <2>3. QED BY <1>1, <1>2, <2>1, <2>2, BeginHolds
<1>3. CASE L!CallBusy(c) /\ UNCHANGED <<bvars, key>>
  <2>1. /\ phase[c] = "outside" /\ phase'[c] = "waiting" /\ \A d \in Conv \ {c} : phase'[d] = phase[d]
    BY <1>3 DEF L!CallBusy, IInv, Typed, LaneOK, L!TypeOK
  <2>2. PendingTalks' /\ KeyShape'
    BY <1>1, <1>3, <2>1 DEF IInv, Typed, PendingTalks, TypeOK, LaneOK, KeyShape, bvars
  <2>3. Calls'
    BY <1>3, <2>1 DEF IInv, Calls, bvars, Call, Fresh
  <2>4. Chain(key.says)' /\ Wholes' /\ Halfway' /\ Own'
    BY <1>3 DEF IInv, Chain, Wholes, Halfway, Own, GivenUp, bvars
  <2>5. QED BY <1>1, <2>2, <2>3, <2>4 DEF IInv, Typed
<1>4. QED BY <1>2, <1>3 DEF Call

(* The lane is let go, and the next call in it, if there is one, begins.   *)
LEMMA ReleaseHolds ==
  ASSUME IInv, NEW c \in Conv, Release(c)
  PROVE  IInv'
<1>1. LaneOK'
  BY LaneKept DEF IInv, Typed, Release, L!Next
<1>2. phase[c] = "settled" /\ pending = {} /\ outcome[c] # "none"
  BY NobodyTalks DEF Release, L!Release, IInv, Calls
<1>3. CASE waiting = <<>>
  <2>1. phase'[c] = "outside" /\ (\A d \in Conv \ {c} : phase'[d] = phase[d]) /\ UNCHANGED <<bvars, key>>
    BY <1>3 DEF Release, L!Release, IInv, Typed, LaneOK, L!TypeOK
  <2>2. PendingTalks' /\ KeyShape'
    BY <1>1, <1>2, <2>1 DEF IInv, Typed, PendingTalks, TypeOK, LaneOK, KeyShape, bvars
  <2>3. Calls'
    BY <1>2, <2>1 DEF IInv, Calls, bvars, Fresh
  <2>4. UNCHANGED <<sent, looping, pending, next, heard, outcome, key>>
    BY <2>1 DEF bvars
  <2>5. Chain(key.says)'
    BY <2>4 DEF IInv, Chain
  <2>6. Wholes'
    BY <2>4 DEF IInv, Wholes
  <2>7. Halfway'
    BY <2>4 DEF IInv, Halfway
  <2>8. Own'
    BY <2>4 DEF IInv, Own, GivenUp
  <2>9. QED BY <1>1, <2>2, <2>3, <2>5, <2>6, <2>7, <2>8 DEF IInv, Typed
<1>4. CASE waiting # <<>>
  <2> DEFINE h == Head(waiting)
  <2>1. h \in Conv /\ h = waiting[1] /\ 1 \in 1 .. Len(waiting)
    BY <1>4, HeadTailProperties, LenProperties DEF IInv, Typed, LaneOK, L!TypeOK
  <2>2. Begin(h) /\ phase' = [phase EXCEPT ![c] = "outside", ![h] = "talking"]
    BY <1>4 DEF Release, L!Release
  <2> HIDE DEF h
  <2>3. phase[h] = "waiting" /\ h # c
    BY <1>2, <2>1 DEF IInv, Typed, LaneOK, L!LaneInv, L!QueueIsWaiting
  <2>4. Fresh(h) /\ outcome[h] = "none"
    BY <2>1, <2>3 DEF IInv, Calls
  <2>5. phase'[h] = "talking" /\ phase'[c] = "outside" /\ \A d \in Conv \ {h, c} : phase'[d] = phase[d]
    BY <2>1, <2>2, <2>3 DEF IInv, Typed, LaneOK, L!TypeOK
  <2>6. QED BY <1>1, <1>2, <2>1, <2>2, <2>4, <2>5, BeginHolds
<1>5. QED BY <1>3, <1>4

(* A pending call ends.                                                    *)
LEMMA DoneIs ==
  ASSUME IInv, NEW c \in pending, NEW how, Done(c, how)
  PROVE  /\ LaneOK' /\ pending' = {}
         /\ phase[c] = "talking" /\ phase'[c] = "settled"
         /\ \A d \in Conv \ {c} : phase'[d] = phase[d] /\ phase[d] # "talking"
         /\ outcome'[c] = how /\ outcome[c] = "none"
         /\ \A d \in Conv \ {c} : outcome'[d] = outcome[d]
<1>1. pending = {c} /\ c \in Conv
  BY Alone
<1>2. LaneOK'
  BY <1>1, LaneKept DEF IInv, Typed, Done, L!Next
<1>3. QED
  BY <1>1, <1>2, Alone DEF IInv, Typed, PendingTalks, TypeOK, LaneOK, L!TypeOK, Done, L!Settle

(* It is given up: what the key goes on saying is another's to hear.       *)
LEMMA GivenUpHolds ==
  ASSUME IInv, NEW c \in pending, NEW how \in {"order", "ETIMEDOUT", "writeError"}, Done(c, how),
         looping' \subseteq looping, UNCHANGED <<sent, next, heard>>,
         KeyShape', key'.frames = key.frames, key'.says \in Seq(Report), Chain(key'.says)
  PROVE  IInv'
<1>1. /\ c \in Conv /\ pending = {c} /\ LaneOK' /\ pending' = {}
      /\ phase[c] = "talking" /\ phase'[c] = "settled"
      /\ \A d \in Conv \ {c} : phase'[d] = phase[d] /\ phase[d] # "talking"
      /\ outcome'[c] = how /\ outcome[c] = "none"
      /\ \A d \in Conv \ {c} : outcome'[d] = outcome[d]
  BY DoneIs, Alone
<1>2. PendingTalks'
  BY <1>1 DEF IInv, Typed, PendingTalks, TypeOK, LaneOK, Done, Outcome
<1>3. Calls'
  BY <1>1 DEF IInv, Calls, Fresh
<1>4. Halfway'
  BY <1>1 DEF Halfway
<1>5. Wholes'
  BY <1>1 DEF IInv, Wholes
<1>6. GivenUp'
  BY <1>1 DEF GivenUp
<1>7. QED BY <1>1, <1>2, <1>3, <1>4, <1>5, <1>6 DEF IInv, Typed, Own, Chain

(* The timer is one way to be given up.                                    *)
LEMMA TimeoutHolds ==
  ASSUME IInv, NEW c \in Conv, Timeout(c)
  PROVE  IInv'
BY GivenUpHolds DEF Timeout, Done, IInv, Typed, KeyShape, PendingTalks, TypeOK

(* A write that rejects is another; a loop that outlived its request ends  *)
(* and changes nothing else.                                               *)
LEMMA WriteFailsHolds ==
  ASSUME IInv, NEW c \in Conv, WriteFails(c)
  PROVE  IInv'
<1>1. CASE c \in pending
  <2>1. Done(c, "writeError") /\ looping' \subseteq looping /\ UNCHANGED <<sent, next, heard, key>>
    BY <1>1 DEF WriteFails
  <2>2. KeyShape' /\ key'.frames = key.frames /\ key'.says \in Seq(Report) /\ Chain(key'.says)
    BY <2>1 DEF IInv, Typed, KeyShape, PendingTalks, TypeOK
  <2>3. QED BY <1>1, <2>1, <2>2, GivenUpHolds
<1>2. CASE c \notin pending
  <2>1. looping' = looping \ {c} /\ UNCHANGED <<lvars, pending, outcome, sent, next, heard, key>>
    BY <1>2 DEF WriteFails
  <2>2. LaneOK'
    BY <2>1, LaneKept DEF IInv, Typed
  <2>3. PendingTalks' /\ KeyShape'
    BY <2>1, <2>2 DEF IInv, Typed, PendingTalks, TypeOK, LaneOK, KeyShape, lvars
  <2>4. Calls'
    BY <2>1 DEF IInv, Calls, lvars, Fresh
  <2>5. Chain(key.says)'
    BY <2>1 DEF IInv, Chain
  <2>6. Wholes'
    BY <2>1 DEF IInv, Wholes
  <2>7. Halfway'
    BY <2>1 DEF IInv, Halfway
  <2>8. Own'
    <3>1. GivenUp
      BY <1>2 DEF IInv, Own, WriteFails
    <3>2. GivenUp'
      BY <2>1, <3>1 DEF GivenUp
    <3>3. QED BY <3>2 DEF Own
  <2>9. QED BY <2>2, <2>3, <2>4, <2>5, <2>6, <2>7, <2>8 DEF IInv, Typed
<1>3. QED BY <1>1, <1>2

(* A frame of c: where the key puts it, and what it says of it.            *)
Put(c) == IF sent[c] = 0 THEN <<c>> ELSE Append(key.frames, c)

(* What the key does with a frame: it keeps it, refuses, or answers with   *)
(* all it holds.                                                           *)
LEMMA KeyTakesIs ==
  ASSUME IInv, NEW c \in Conv, KeyTakes(c, sent[c])
  PROVE  /\ KeyShape'
         /\ \/ /\ sent[c] < Frames - 1
               /\ sent[c] # 0 => sent[c] = Len(key.frames)
               /\ key'.frames = Put(c) /\ key'.says = key.says
            \/ /\ sent[c] < Frames - 1 => sent[c] # 0 /\ sent[c] # Len(key.frames)
               /\ key'.frames = <<>> /\ key'.says = Append(key.says, Refusal)
            \/ /\ sent[c] >= Frames - 1
               /\ key'.frames = <<>> /\ key'.says = key.says \o Answer(ToSet(Put(c)))
<1>1. sent[c] \in Nat
  BY SizeAssumption DEF IInv, Typed, PendingTalks, TypeOK
<1>2. CASE sent[c] # 0 /\ sent[c] # Len(key.frames)
  <2>1. key' = [frames |-> <<>>, says |-> Append(key.says, Refusal)]
    BY <1>2 DEF KeyTakes
  <2>2. QED BY <1>2, <2>1 DEF KeyShape
<1>3. CASE (sent[c] = 0 \/ sent[c] = Len(key.frames)) /\ sent[c] < Frames - 1
  <2>1. key' = [key EXCEPT !.frames = Put(c)]
    BY <1>3 DEF KeyTakes, Put
  <2>2. key = [frames |-> key.frames, says |-> key.says]
    BY DEF IInv, Typed, KeyShape
  <2>3. key' = [frames |-> Put(c), says |-> key.says]
    BY <2>1, <2>2
  <2>4. key'.frames = Put(c) /\ key'.says = key.says /\ KeyShape'
    BY <2>3 DEF KeyShape
  <2>5. QED BY <1>3, <2>4
<1>4. CASE (sent[c] = 0 \/ sent[c] = Len(key.frames)) /\ ~(sent[c] < Frames - 1)
  <2>1. \/ key' = [frames |-> <<>>, says |-> key.says \o Answer(ToSet(Put(c)))]
        \/ key' = [frames |-> <<>>, says |-> Append(key.says, Refusal)]
    BY <1>4, Zenon DEF KeyTakes, Put, Answer
  <2>2. sent[c] >= Frames - 1
    BY <1>1, <1>4, SizeAssumption
  <2> DEFINE a == Answer(ToSet(Put(c)))
  <2>3. \/ key' = [frames |-> <<>>, says |-> key.says \o a]
        \/ key' = [frames |-> <<>>, says |-> Append(key.says, Refusal)]
    BY <2>1
  <2> HIDE DEF a
  <2>4. KeyShape' /\ key'.frames = <<>>
        /\ (key'.says = key.says \o a \/ key'.says = Append(key.says, Refusal))
    BY <2>3 DEF KeyShape
  <2>5. QED BY <1>4, <2>2, <2>4 DEF a
<1>5. QED BY <1>1, <1>2, <1>3, <1>4

(* What the key holds with c's next frame: c's alone, if what it held was  *)
(* c's.                                                                    *)
LEMMA PutIs ==
  ASSUME IInv, NEW c \in Conv
  PROVE  /\ Put(c) \in Seq(Conv) /\ ToSet(Put(c)) \in SUBSET Conv
         /\ sent[c] = 0 => Len(Put(c)) = 1 /\ ToSet(Put(c)) = {c}
         /\ sent[c] # 0 => Len(Put(c)) = Len(key.frames) + 1
         /\ (\A i \in 1 .. Len(key.frames) : key.frames[i] = c) =>
              /\ \A i \in 1 .. Len(Put(c)) : Put(c)[i] = c
              /\ ToSet(Put(c)) = {c}
<1>1. key.frames \in Seq(Conv)
  BY DEF IInv, Typed, PendingTalks, TypeOK
<1>2. \A s \in Seq(Conv) : ToSet(s) \in SUBSET Conv
  BY DEF ToSet
<1>3. CASE sent[c] = 0
  BY <1>1, <1>2, <1>3 DEF Put, ToSet
<1>4. CASE sent[c] # 0
  <2>1. Put(c) = Append(key.frames, c) /\ Put(c) \in Seq(Conv) /\ Len(Put(c)) = Len(key.frames) + 1
    BY <1>1, <1>4 DEF Put
  <2>2. ASSUME \A i \in 1 .. Len(key.frames) : key.frames[i] = c
        PROVE  \A i \in 1 .. Len(Put(c)) : Put(c)[i] = c
    BY <1>1, <2>1, <2>2
  <2>3. ASSUME NEW s \in Seq(Conv), Len(s) >= 1, \A i \in 1 .. Len(s) : s[i] = c
        PROVE  ToSet(s) = {c}
    BY <2>3 DEF ToSet
  <2>4. Len(Put(c)) >= 1
    BY <1>1, <2>1, LenProperties
  <2>5. QED BY <1>2, <1>4, <2>1, <2>2, <2>3, <2>4
<1>5. QED BY <1>3, <1>4

(* A frame goes out, and the key keeps it, refuses or answers. Until a     *)
(* call is given up it is the pending call's, and so is every frame the    *)
(* key holds.                                                              *)
LEMMA WriteFrameHolds ==
  ASSUME IInv, NEW c \in Conv, WriteFrame(c)
  PROVE  IInv'
<1>1. /\ c \in looping /\ KeyTakes(c, sent[c])
      /\ sent' = [sent EXCEPT ![c] = @ + 1]
      /\ looping' = IF sent[c] + 1 = Frames THEN looping \ {c} ELSE looping
      /\ UNCHANGED <<lvars, pending, next, heard, outcome>>
  BY DEF WriteFrame
<1>2. /\ sent \in [Conv -> 0 .. Frames] /\ sent[c] < Frames /\ sent[c] \in Nat /\ Frames \in Nat \ {0}
      /\ key.says \in Seq(Report) /\ key.frames \in Seq(Conv) /\ Len(key.frames) < Frames
  BY <1>1, SizeAssumption DEF IInv, Typed, PendingTalks, TypeOK, Calls
<1>3. /\ Put(c) \in Seq(Conv) /\ ToSet(Put(c)) \in SUBSET Conv
      /\ sent[c] = 0 => Len(Put(c)) = 1
      /\ sent[c] # 0 => Len(Put(c)) = Len(key.frames) + 1
  BY PutIs
<1>4. sent[c] = 0 \/ sent[c] = Len(key.frames) => Len(Put(c)) = sent[c] + 1
  <2>1. CASE sent[c] = 0
    BY <1>3, <2>1
  <2>2. CASE sent[c] # 0
    BY <1>3, <2>2
  <2>3. QED BY <2>1, <2>2
<1>5. KeyShape'
  BY <1>1, KeyTakesIs
<1>6. key'.frames \in Seq(Conv) /\ Len(key'.frames) < Frames
  <2>1. CASE key'.frames = <<>>
    BY <1>2, <2>1
  <2>2. CASE key'.frames = Put(c) /\ sent[c] < Frames - 1 /\ (sent[c] # 0 => sent[c] = Len(key.frames))
    <3>1. Len(Put(c)) = sent[c] + 1
      BY <1>4, <2>2, Zenon
    <3>2. sent[c] + 1 < Frames
      BY <1>2, <2>2
    <3>3. QED BY <1>3, <2>2, <3>1, <3>2
  <2>3. \/ key'.frames = <<>>
        \/ /\ key'.frames = Put(c) /\ sent[c] < Frames - 1
           /\ sent[c] # 0 => sent[c] = Len(key.frames)
    BY <1>1, KeyTakesIs, Zenon
  <2>4. QED BY <2>1, <2>2, <2>3
<1>7. /\ Chain(key'.says) /\ key'.says \in Seq(Report)
      /\ key.says # <<>> => key'.says # <<>> /\ key'.says[1] = key.says[1]
  <2>1. Chain(key.says)
    BY DEF IInv
  <2>2. CASE key'.says = key.says
    BY <1>2, <2>1, <2>2
  <2>3. CASE key'.says = Append(key.says, Refusal)
    <3>1. Chain(Append(key.says, Refusal)) /\ Append(key.says, Refusal) \in Seq(Report)
      BY <1>2, <2>1, ChainAppend
    <3>2. \A s \in Seq(Report) : s # <<>> => Append(s, Refusal) # <<>> /\ Append(s, Refusal)[1] = s[1]
      BY RefusalIsReport
    <3>3. QED BY <1>2, <2>3, <3>1, <3>2
  <2>4. CASE key'.says = key.says \o Answer(ToSet(Put(c)))
    <3> DEFINE of == ToSet(Put(c))
               a == Answer(of)
    <3>1. /\ of \in SUBSET Conv /\ key'.says = key.says \o a
      BY <1>3, <2>4
    <3> HIDE DEF of
    <3>2. /\ a \in Seq(Report) /\ Len(a) = Reports
          /\ \A i \in 1 .. Reports : a[i] = [index |-> i - 1, of |-> of]
      BY <3>1, AnswerIsChain
    <3> HIDE DEF a
    <3>3. Chain(key.says \o a) /\ key.says \o a \in Seq(Report)
      BY <1>2, <2>1, <3>2, ChainAnswer
    <3>4. \A s, t \in Seq(Report) : s # <<>> => s \o t # <<>> /\ (s \o t)[1] = s[1]
      OBVIOUS
    <3>5. key.says # <<>> => key.says \o a # <<>> /\ (key.says \o a)[1] = key.says[1]
      BY <1>2, <3>2, <3>4, Zenon
    <3>6. QED BY <3>1, <3>3, <3>5
  <2>5. QED BY <1>1, KeyTakesIs, <2>2, <2>3, <2>4
<1>8. LaneOK'
  BY <1>1, LaneKept DEF IInv, Typed
<1>9. /\ sent' \in [Conv -> 0 .. Frames] /\ sent'[c] = sent[c] + 1
      /\ \A d \in Conv \ {c} : sent'[d] = sent[d]
  BY <1>1, <1>2
<1>10. PendingTalks'
  BY <1>1, <1>6, <1>7, <1>8, <1>9 DEF IInv, Typed, PendingTalks, TypeOK, LaneOK, lvars
<1>11. Calls'
  <2>1. ASSUME NEW d \in Conv
        PROVE  /\ outcome[d] = "none" /\ phase[d] # "talking" => d # c /\ Fresh(d)'
               /\ d \in looping' => sent'[d] < Frames
    BY <1>1, <1>2, <1>9, <2>1 DEF IInv, Calls, Fresh
  <2>2. UNCHANGED <<phase, outcome>>
    BY <1>1 DEF lvars
  <2>3. QED BY <2>1, <2>2 DEF IInv, Calls
<1>12. Wholes'
  BY <1>1 DEF IInv, Wholes
<1>13. Halfway'
  BY <1>1, <1>7 DEF IInv, Halfway
<1>14. Own'
  <2> SUFFICES ASSUME ~GivenUp'
               PROVE  /\ \A d \in Conv : heard'[d] \subseteq {{d}}
                      /\ looping' \subseteq pending'
                      /\ pending' = {} => key'.frames = <<>> /\ key'.says = <<>>
                      /\ \A d \in looping' :
                           /\ key'.says = <<>> /\ next'[d] = 0 /\ Len(key'.frames) = sent'[d]
                           /\ \A i \in 1 .. Len(key'.frames) : key'.frames[i] = d
                      /\ \A d \in pending' \ looping' :
                           /\ key'.frames = <<>>
                           /\ \/ key'.says = <<Refusal>>
                              \/ /\ next'[d] < Reports /\ Len(key'.says) = Reports - next'[d]
                                 /\ \A i \in 1 .. Len(key'.says) :
                                      key'.says[i] = [index |-> next'[d] + i - 1, of |-> {d}]
    BY DEF Own
  <2>1. ~GivenUp
    BY <1>1 DEF GivenUp
  <2>2. /\ pending = {c} /\ looping = {c} /\ key.says = <<>> /\ next[c] = 0
        /\ Len(key.frames) = sent[c] /\ \A i \in 1 .. Len(key.frames) : key.frames[i] = c
        /\ \A d \in Conv : heard[d] \subseteq {{d}}
    BY <1>1, <2>1, Alone DEF IInv, Own
  <2>3. ToSet(Put(c)) = {c} /\ \A i \in 1 .. Len(Put(c)) : Put(c)[i] = c
    BY <2>2, PutIs
  <2>4. CASE sent[c] < Frames - 1
    <3>1. key'.frames = Put(c) /\ key'.says = <<>>
      BY <1>1, <1>2, <2>2, <2>4, KeyTakesIs
    <3>2. Len(Put(c)) = sent'[c] /\ looping' = {c}
      <4>1. sent[c] + 1 # Frames
        BY <1>2, <2>4
      <4>2. Len(Put(c)) = sent[c] + 1
        BY <1>4, <2>2
      <4>3. QED BY <1>1, <1>9, <2>2, <4>1, <4>2
    <3>3. QED BY <1>1, <2>2, <2>3, <3>1, <3>2
  <2>5. CASE ~(sent[c] < Frames - 1)
    <3>1. looping' = {}
      BY <1>1, <1>2, <2>2, <2>5
    <3>2. key'.frames = <<>> /\ (key'.says = <<Refusal>> \/ key'.says = <<>> \o Answer({c}))
      <4>1. \/ key'.frames = <<>> /\ key'.says = Append(key.says, Refusal)
            \/ key'.frames = <<>> /\ key'.says = key.says \o Answer(ToSet(Put(c)))
        BY <1>1, <2>5, KeyTakesIs, Zenon
      <4>2. Append(<<>>, Refusal) = <<Refusal>>
        OBVIOUS
      <4>3. QED BY <2>2, <2>3, <4>1, <4>2, Zenon
    <3> DEFINE a == Answer({c})
    <3>3. /\ a \in Seq(Report) /\ Len(a) = Reports
          /\ \A i \in 1 .. Reports : a[i] = [index |-> i - 1, of |-> {c}]
      BY AnswerIsChain
    <3>4. key'.says = <<Refusal>> \/ key'.says = <<>> \o a
      BY <3>2
    <3> HIDE DEF a
    <3>5. \A s \in Seq(Report) : <<>> \o s = s
      OBVIOUS
    <3>6. key'.says = <<Refusal>> \/ key'.says = a
      BY <3>3, <3>4, <3>5
    <3>7. /\ next'[c] < Reports /\ Reports - next'[c] = Reports
          /\ \A i \in 1 .. Reports : next'[c] + i - 1 = i - 1
      BY <1>1, <2>2, SizeAssumption
    <3>8. \/ key'.says = <<Refusal>>
          \/ /\ next'[c] < Reports /\ Len(key'.says) = Reports - next'[c]
             /\ \A i \in 1 .. Len(key'.says) : key'.says[i] = [index |-> next'[c] + i - 1, of |-> {c}]
      BY <3>3, <3>6, <3>7
    <3>9. QED BY <1>1, <2>2, <3>1, <3>2, <3>8
  <2>6. QED BY <2>4, <2>5
<1>15. QED BY <1>5, <1>7, <1>8, <1>10, <1>11, <1>12, <1>13, <1>14 DEF IInv, Typed

(* What is left when the first report has gone.                            *)
LEMMA FirstIs ==
  ASSUME IInv, key.says # <<>>
  PROVE  /\ Head(key.says) = key.says[1] /\ Head(key.says) \in Report
         /\ Chain(Tail(key.says)) /\ Tail(key.says) \in Seq(Report)
         /\ Len(Tail(key.says)) = Len(key.says) - 1 /\ Len(key.says) \in Nat \ {0}
         /\ \A i \in 1 .. Len(key.says) - 1 : Tail(key.says)[i] = key.says[i + 1]
<1>1. key.says \in Seq(Report) /\ Chain(key.says)
  BY DEF IInv, Typed, PendingTalks, TypeOK
<1>2. QED BY <1>1, ChainTail

(* A sequence is empty when its length is zero.                            *)
LEMMA EmptyIs ==
  ASSUME NEW S, NEW s \in Seq(S)
  PROVE  s = <<>> <=> Len(s) = 0
BY EmptySeq

(* What is left of a sequence without its head.                            *)
LEMMA TailIs ==
  ASSUME NEW S, NEW s \in Seq(S), s # <<>>
  PROVE  /\ Len(Tail(s)) = Len(s) - 1 /\ Len(s) \in Nat \ {0}
         /\ \A i \in 1 .. Len(s) - 1 : Tail(s)[i] = s[i + 1]
         /\ Len(s) = 1 => Tail(s) = <<>>
         /\ Len(s) > 1 => Tail(s) # <<>> /\ Tail(s)[1] = s[2]
<1> DEFINE t == Tail(s)
<1>1. t \in Seq(S) /\ Len(t) = Len(s) - 1 /\ Len(s) \in Nat \ {0}
  OBVIOUS
<1>2. \A i \in 1 .. Len(s) - 1 : t[i] = s[i + 1]
  OBVIOUS
<1> HIDE DEF t
<1>3. t = <<>> <=> Len(t) = 0
  BY <1>1, EmptyIs, Zenon
<1>4. Len(s) = 1 => t = <<>>
  BY <1>1, <1>3
<1>5. Len(s) > 1 => t # <<>>
  BY <1>1, <1>3
<1>6. Len(s) > 1 => t[1] = s[2]
  BY <1>1, <1>2
<1>7. QED BY <1>1, <1>2, <1>4, <1>5, <1>6 DEF t

(* Behind a report that is not an answer's last stands the next of the     *)
(* same answer.                                                            *)
LEMMA NextFollows ==
  ASSUME NEW s \in Seq(Report), s # <<>>, Chain(s), s[1].index < Reports - 1
  PROVE  /\ Tail(s) # <<>>
         /\ Tail(s)[1] = [index |-> s[1].index + 1, of |-> s[1].of]
<1>1. 1 < Len(s) /\ s[1 + 1] = [index |-> s[1].index + 1, of |-> s[1].of]
  BY DEF Chain
<1>2. Len(s) > 1 => Tail(s) # <<>> /\ Tail(s)[1] = s[2]
  BY TailIs, Zenon
<1>3. Len(s) > 1 /\ 1 + 1 = 2
  BY <1>1
<1>4. QED BY <1>1, <1>2, <1>3, Zenon

(* What is left of the answer to c's own frames, when n reports are heard. *)
Rest(s, n, c) ==
  /\ n < Reports /\ Len(s) = Reports - n
  /\ \A i \in 1 .. Len(s) : s[i] = [index |-> n + i - 1, of |-> {c}]

(* What is left of c's answer from report n begins with report n.          *)
LEMMA RestHead ==
  ASSUME NEW s \in Seq(Report), NEW n \in Nat, NEW c, Rest(s, n, c)
  PROVE  s[1] = [index |-> n, of |-> {c}]
<1>1. 1 \in 1 .. Len(s) /\ n + 1 - 1 = n
  BY SizeAssumption DEF Rest
<1>2. QED BY <1>1 DEF Rest

(* And without it, is what is left from the next.                          *)
LEMMA RestTail ==
  ASSUME NEW s \in Seq(Report), NEW n \in Nat, NEW c, Rest(s, n, c)
  PROVE  IF n = Reports - 1 THEN Tail(s) = <<>> ELSE Rest(Tail(s), n + 1, c)
<1>1. /\ Len(s) = Reports - n /\ n < Reports /\ Len(Tail(s)) = Len(s) - 1
      /\ \A i \in 1 .. Len(s) - 1 : Tail(s)[i] = s[i + 1]
  BY SizeAssumption DEF Rest
<1>2. CASE n = Reports - 1
  <2>1. Len(s) = 1
    <3>1. n \in Nat /\ Reports \in Nat /\ Len(s) = Reports - n
      BY <1>1, SizeAssumption
    <3>2. QED BY <1>2, <3>1
  <2>2. s # <<>>
    <3>1. s = <<>> <=> Len(s) = 0
      BY EmptyIs, Zenon
    <3>2. QED BY <2>1, <3>1
  <2>3. QED BY <1>2, <2>1, <2>2, TailIs, Zenon
<1>3. CASE n # Reports - 1
  <2>1. n + 1 < Reports /\ Len(Tail(s)) = Reports - (n + 1)
    BY <1>1, <1>3, SizeAssumption
  <2>2. ASSUME NEW i \in 1 .. Len(Tail(s))
        PROVE  Tail(s)[i] = [index |-> (n + 1) + i - 1, of |-> {c}]
    <3>1. i \in 1 .. Len(s) - 1 /\ i + 1 \in 1 .. Len(s) /\ n + (i + 1) - 1 = (n + 1) + i - 1
      BY <1>1
    <3>2. s[i + 1] = [index |-> n + (i + 1) - 1, of |-> {c}]
      BY <3>1 DEF Rest
    <3>3. QED BY <1>1, <3>1, <3>2
  <2>3. QED BY <1>3, <2>1, <2>2 DEF Rest
<1>4. QED BY <1>2, <1>3

(* A report nobody listens for is dropped.                                 *)
LEMMA SaidToNobodyHolds ==
  ASSUME IInv, KeySays, pending = {}
  PROVE  IInv'
<1>1. /\ key.says # <<>> /\ key' = [key EXCEPT !.says = Tail(@)]
      /\ UNCHANGED <<lvars, pending, next, heard, outcome, sent, looping>>
  BY DEF KeySays
<1>2. key' = [frames |-> key.frames, says |-> Tail(key.says)]
  BY <1>1 DEF IInv, Typed, KeyShape
<1>3. LaneOK'
  BY <1>1, LaneKept DEF IInv, Typed
<1>4. PendingTalks' /\ KeyShape' /\ Chain(key.says)'
  BY <1>1, <1>2, <1>3, FirstIs
     DEF IInv, Typed, PendingTalks, TypeOK, LaneOK, KeyShape, lvars, Chain
<1>5. Calls'
  BY <1>1 DEF IInv, Calls, lvars, Fresh
<1>6. Wholes'
  BY <1>1 DEF IInv, Wholes
<1>7. Halfway'
  BY <1>1 DEF Halfway
<1>8. Own'
  <2>1. GivenUp
    BY <1>1 DEF IInv, Own
  <2>2. QED BY <1>1, <2>1 DEF Own, GivenUp
<1>9. QED BY <1>3, <1>4, <1>5, <1>6, <1>7, <1>8 DEF IInv, Typed

(* The listener takes a report: the next of the answer it puts together, a *)
(* refusal, or one out of order. What it has put together so far is of one *)
(* answer, because the reports behind the first of them are.               *)
LEMMA HeardHolds ==
  ASSUME IInv, NEW c \in pending, key.says # <<>>, key' = [key EXCEPT !.says = Tail(@)],
         Hear(c, Head(key.says)), UNCHANGED <<sent, looping>>
  PROVE  IInv'
<1> DEFINE r == Head(key.says)
<1>1. key'.frames = key.frames /\ key'.says = Tail(key.says) /\ KeyShape'
  <2>1. key' = [frames |-> key.frames, says |-> Tail(key.says)]
    BY DEF IInv, Typed, KeyShape
  <2>2. QED BY <2>1 DEF KeyShape
<1>2. /\ r = key.says[1] /\ r \in Report /\ key.says \in Seq(Report)
      /\ Chain(key'.says) /\ key'.says \in Seq(Report)
  BY <1>1, FirstIs DEF IInv, Typed, PendingTalks, TypeOK
<1>3. pending = {c} /\ c \in Conv /\ phase[c] = "talking" /\ outcome[c] = "none"
  BY Alone
<1>4. Hear(c, r)
  OBVIOUS
<1> HIDE DEF r
<1>5. ASSUME ~GivenUp
      PROVE  /\ looping = {} /\ key.frames = <<>>
             /\ key.says = <<Refusal>> \/ Rest(key.says, next[c], c)
  BY <1>3, <1>5 DEF IInv, Own, Rest
<1>6. /\ next \in [Conv -> 0 .. Reports] /\ heard \in [Conv -> SUBSET SUBSET Conv]
      /\ Reports \in Nat \ {0} /\ next[c] \in Nat
  BY <1>3, SizeAssumption DEF IInv, Typed, PendingTalks, TypeOK
<1>7. key'.frames \in Seq(Conv) /\ Len(key'.frames) < Frames
  BY <1>1 DEF IInv, Typed, PendingTalks, TypeOK
<1>8. CASE r = Refusal
  <2>1. Done(c, "EKEYREFUSED") /\ UNCHANGED <<next, heard>>
    BY <1>4, <1>8 DEF Hear
  <2>2. /\ LaneOK' /\ pending' = {}
        /\ phase'[c] = "settled" /\ \A d \in Conv \ {c} : phase'[d] = phase[d] /\ phase[d] # "talking"
        /\ outcome'[c] = "EKEYREFUSED" /\ \A d \in Conv \ {c} : outcome'[d] = outcome[d]
    BY <2>1, DoneIs
  <2>3. PendingTalks'
    <3>1. sent' = sent /\ looping' = looping /\ next' = next /\ heard' = heard
      BY <2>1
    <3>2. outcome' \in [Conv -> Outcome]
      BY <1>3, <2>1 DEF IInv, Typed, PendingTalks, TypeOK, Done, Outcome
    <3>3. TypeOK'
      BY <1>2, <1>7, <2>2, <3>1, <3>2 DEF IInv, Typed, PendingTalks, TypeOK, LaneOK
    <3>4. QED BY <2>2, <3>3 DEF PendingTalks
  <2>4. Calls'
    BY <1>3, <2>1, <2>2 DEF IInv, Calls, Fresh
  <2>5. Wholes'
    BY <1>3, <2>1, <2>2 DEF IInv, Wholes
  <2>6. Halfway'
    BY <2>2 DEF Halfway
  <2>7. Own'
    <3>1. SUFFICES ASSUME ~GivenUp' PROVE Own'
      BY DEF Own
    <3>2. ~GivenUp
      BY <1>3, <2>2, <3>1 DEF GivenUp
    <3>3. ~Rest(key.says, next[c], c)
      <4>1. SUFFICES ASSUME Rest(key.says, next[c], c) PROVE FALSE
        OBVIOUS
      <4>2. r = [index |-> next[c], of |-> {c}] /\ next[c] < Reports
        BY <1>2, <1>6, <4>1, RestHead, Zenon DEF Rest
      <4>3. QED BY <1>6, <1>8, <4>2, RefusalIsReport
    <3>4. key.says = <<Refusal>>
      BY <1>5, <3>2, <3>3
    <3>5. key'.says = <<>> /\ key'.frames = <<>> /\ looping' = {}
      BY <1>1, <1>5, <3>2, <3>4
    <3>6. QED BY <2>1, <2>2, <3>2, <3>5 DEF IInv, Own
  <2>8. QED BY <1>1, <1>2, <2>2, <2>3, <2>4, <2>5, <2>6, <2>7 DEF IInv, Typed, Chain
<1>9. CASE r # Refusal /\ r.index # next[c]
  <2>1. Done(c, "order") /\ UNCHANGED <<next, heard>>
    BY <1>4, <1>9 DEF Hear
  <2>2. QED BY <1>1, <1>2, <2>1, GivenUpHolds
<1>10. CASE r # Refusal /\ r.index = next[c]
  <2>1. /\ next' = [next EXCEPT ![c] = @ + 1] /\ heard' = [heard EXCEPT ![c] = @ \cup {r.of}]
        /\ r.index \in 0 .. Reports - 1 /\ r.of \in SUBSET Conv
        /\ r = [index |-> r.index, of |-> r.of]
    BY <1>2, <1>4, <1>10, ReportTypes DEF Hear
  <2>2. /\ next'[c] = next[c] + 1 /\ heard'[c] = {r.of}
        /\ \A d \in Conv \ {c} : next'[d] = next[d] /\ heard'[d] = heard[d]
        /\ next' \in [Conv -> 0 .. Reports] /\ heard' \in [Conv -> SUBSET SUBSET Conv]
    <3>1. heard[c] = {} \/ heard[c] = {r.of}
      BY <1>2, <1>3 DEF IInv, Halfway
    <3>2. next[c] + 1 \in 0 .. Reports
      BY <1>6, <1>10, <2>1
    <3>3. QED BY <1>3, <1>6, <2>1, <3>1, <3>2
  <2>3. ASSUME ~GivenUp
        PROVE  looping = {} /\ key.frames = <<>> /\ Rest(key.says, next[c], c) /\ r.of = {c}
    <3>1. key.says # <<Refusal>>
      BY <1>2, <1>10
    <3>2. Rest(key.says, next[c], c)
      BY <1>5, <2>3, <3>1
    <3>3. r = [index |-> next[c], of |-> {c}]
      BY <1>2, <1>6, <3>2, RestHead
    <3>4. QED BY <1>5, <2>3, <3>2, <3>3
  <2>4. CASE r.index = Reports - 1
    <3>1. Done(c, "answer")
      BY <1>4, <1>10, <2>4 DEF Hear
    <3>2. /\ LaneOK' /\ pending' = {}
          /\ phase'[c] = "settled" /\ \A d \in Conv \ {c} : phase'[d] = phase[d] /\ phase[d] # "talking"
          /\ outcome'[c] = "answer" /\ \A d \in Conv \ {c} : outcome'[d] = outcome[d]
      BY <3>1, DoneIs
    <3>3. PendingTalks'
      <4>1. outcome' \in [Conv -> Outcome]
        BY <1>3, <3>1 DEF IInv, Typed, PendingTalks, TypeOK, Done, Outcome
      <4>2. sent' = sent /\ looping' = looping
        OBVIOUS
      <4>3. TypeOK'
        BY <1>2, <1>7, <2>2, <3>2, <4>1, <4>2 DEF IInv, Typed, PendingTalks, TypeOK, LaneOK
      <4>4. QED BY <3>2, <4>3 DEF PendingTalks
    <3>4. Calls'
      BY <1>3, <2>2, <3>2 DEF IInv, Calls, Fresh
    <3>5. Wholes'
      <4>1. next'[c] = Reports
        BY <1>6, <1>10, <2>2, <2>4
      <4>2. QED BY <2>1, <2>2, <3>2, <4>1 DEF IInv, Wholes
    <3>6. Halfway'
      BY <3>2 DEF Halfway
    <3>7. Own'
      <4>1. SUFFICES ASSUME ~GivenUp' PROVE Own'
        BY DEF Own
      <4>2. ~GivenUp
        BY <1>3, <3>2, <4>1 DEF GivenUp
      <4>3. Tail(key.says) = <<>>
        BY <1>2, <1>6, <1>10, <2>3, <2>4, <4>2, RestTail
      <4>4. key'.says = <<>> /\ key'.frames = <<>> /\ looping' = {}
        BY <1>1, <2>3, <4>2, <4>3
      <4>5. QED BY <2>2, <2>3, <3>2, <4>2, <4>4 DEF IInv, Own
    <3>8. QED BY <1>1, <1>2, <3>2, <3>3, <3>4, <3>5, <3>6, <3>7 DEF IInv, Typed, Chain
  <2>5. CASE r.index # Reports - 1
    <3>1. UNCHANGED <<lvars, pending, outcome>>
      BY <1>4, <1>10, <2>5 DEF Hear
    <3>2. LaneOK'
      BY <3>1, LaneKept DEF IInv, Typed
    <3>3. PendingTalks'
      BY <1>2, <1>3, <1>7, <2>2, <3>1, <3>2 DEF IInv, Typed, PendingTalks, TypeOK, LaneOK, lvars
    <3>4. Calls'
      BY <1>3, <2>2, <3>1 DEF IInv, Calls, Fresh, lvars
    <3>5. Wholes'
      BY <1>3, <2>2, <3>1 DEF IInv, Wholes
    <3>6. next'[c] < Reports /\ next[c] # Reports - 1
      BY <1>6, <1>10, <2>1, <2>2, <2>5
    <3>7. Halfway'
      <4>1. key.says[1].index < Reports - 1
        BY <1>2, <1>6, <2>1, <2>5
      <4>2. key'.says # <<>> /\ key'.says[1] = [index |-> r.index + 1, of |-> r.of]
        BY <1>1, <1>2, <4>1, NextFollows DEF IInv
      <4>3. next'[c] = r.index + 1 /\ heard'[c] = {r.of} /\ pending' = {c} /\ next'[c] # 0
        BY <1>3, <1>6, <1>10, <2>2, <3>1
      <4>4. QED BY <3>6, <4>2, <4>3 DEF Halfway
    <3>8. Own'
      <4>1. SUFFICES ASSUME ~GivenUp' PROVE Own'
        BY DEF Own
      <4>2. ~GivenUp
        BY <3>1, <4>1 DEF GivenUp
      <4>3. looping' = {} /\ key'.frames = <<>> /\ pending' = {c}
        BY <1>1, <1>3, <2>3, <3>1, <4>2
      <4>4. \A d \in Conv : heard'[d] \subseteq {{d}}
        BY <2>2, <2>3, <4>2 DEF IInv, Own
      <4>5. Rest(key'.says, next'[c], c)
        BY <1>1, <1>2, <1>6, <2>2, <2>3, <3>6, <4>2, RestTail
      <4>6. QED BY <4>3, <4>4, <4>5 DEF Own, Rest
    <3>9. QED BY <1>1, <1>2, <3>2, <3>3, <3>4, <3>5, <3>7, <3>8 DEF IInv, Typed, Chain
  <2>6. QED BY <2>4, <2>5
<1>11. QED BY <1>8, <1>9, <1>10

(* Every report goes to nobody or to the one that listens.                 *)
LEMMA KeySaysHolds ==
  ASSUME IInv, KeySays
  PROVE  IInv'
<1>1. CASE pending = {}
  BY <1>1, SaidToNobodyHolds
<1>2. CASE pending # {}
  <2>1. PICK c \in pending : Hear(c, Head(key.says))
    BY <1>2 DEF KeySays
  <2>2. QED BY <2>1, HeardHolds DEF KeySays
<1>3. QED BY <1>1, <1>2

(* cancel(): every pending request ends, and the key is empty.             *)
LEMMA CancelHolds ==
  ASSUME IInv, Cancel
  PROVE  IInv'
<1>1. /\ pending' = {} /\ key' = [frames |-> <<>>, says |-> <<>>]
      /\ UNCHANGED <<running, waiting, sent, looping, next, heard>>
      /\ \A d \in Conv : outcome'[d] = IF d \in pending THEN "ECANCELED" ELSE outcome[d]
      /\ \A d \in Conv : phase'[d] = IF d \in pending THEN "settled" ELSE phase[d]
  BY DEF Cancel
<1>2. key'.frames = <<>> /\ key'.says = <<>> /\ KeyShape'
  BY <1>1 DEF KeyShape
<1>3. LaneOK'
  <2>1. CASE pending = {}
    <3>1. phase' = phase
      BY <2>1 DEF Cancel, IInv, Typed, LaneOK, L!TypeOK
    <3>2. QED BY <1>1, <3>1, LaneKept DEF IInv, Typed, lvars
  <2>2. CASE pending # {}
    <3>1. PICK c \in pending : TRUE
      BY <2>2
    <3>2. pending = {c} /\ c \in Conv /\ phase[c] = "talking"
      BY <3>1, Alone
    <3>3. phase' = [phase EXCEPT ![c] = "settled"]
      BY <3>2 DEF Cancel, IInv, Typed, LaneOK, L!TypeOK
    <3>4. L!Settle(c)
      BY <1>1, <3>2, <3>3 DEF L!Settle
    <3>5. QED BY <3>2, <3>4, LaneKept DEF IInv, Typed, L!Next
  <2>3. QED BY <2>1, <2>2
<1>4. PendingTalks'
  <2>1. TypeOK'
    BY <1>1, <1>2, <1>3, SizeAssumption
       DEF IInv, Typed, PendingTalks, TypeOK, LaneOK, Cancel, Outcome
  <2>2. \A d \in Conv : phase'[d] # "talking"
    BY <1>1 DEF IInv, Typed, PendingTalks
  <2>3. QED BY <1>1, <2>1, <2>2 DEF PendingTalks
<1>5. Calls'
  BY <1>1 DEF IInv, Typed, PendingTalks, Calls, Fresh
<1>6. Chain(key.says)' /\ Halfway'
  BY <1>1, <1>2 DEF Chain, Halfway
<1>7. Wholes'
  BY <1>1 DEF IInv, Wholes
<1>8. Own'
  <2>1. SUFFICES ASSUME ~GivenUp' PROVE Own'
    BY DEF Own
  <2>2. pending = {}
    BY <1>1, <2>1 DEF GivenUp, IInv, Typed, PendingTalks
  <2>3. ~GivenUp
    BY <1>1, <2>1, <2>2 DEF GivenUp
  <2>4. QED BY <1>1, <1>2, <2>2, <2>3 DEF IInv, Own
<1>9. QED BY <1>2, <1>3, <1>4, <1>5, <1>6, <1>7, <1>8 DEF IInv, Typed

(* The bridge begins in the invariant.                                     *)
LEMMA BridgeAtFirst ==
  ASSUME Init
  PROVE  IInv
<1>1. LaneOK
  BY LaneAtFirst DEF Init
<1>2. key.frames = <<>> /\ key.says = <<>> /\ KeyShape
  BY DEF Init, KeyShape
<1>3. PendingTalks
  BY <1>1, <1>2, SizeAssumption DEF PendingTalks, TypeOK, LaneOK, Init, L!Init, Outcome
<1>4. Calls
  BY DEF Calls, Init, L!Init, Fresh
<1>5. Chain(key.says) /\ Halfway /\ Wholes /\ Own
  BY <1>2 DEF Chain, Halfway, Wholes, Own, Init
<1>6. QED BY <1>1, <1>2, <1>3, <1>4, <1>5 DEF IInv, Typed

(* Every step of the bridge and of the key keeps it.                       *)
LEMMA BridgeKept ==
  ASSUME IInv, [Next]_vars
  PROVE  IInv'
<1>1. CASE UNCHANGED vars
  <2>1. /\ UNCHANGED <<lvars, sent, looping, pending, next, heard, outcome, key>>
    BY <1>1 DEF vars, bvars
  <2>2. LaneOK'
    BY <2>1, LaneKept DEF IInv, Typed
  <2>3. PendingTalks' /\ KeyShape' /\ Chain(key.says)'
    BY <2>1, <2>2 DEF IInv, Typed, PendingTalks, TypeOK, LaneOK, KeyShape, lvars, Chain
  <2>4. Calls' /\ Wholes' /\ Halfway'
    BY <2>1 DEF IInv, Calls, lvars, Fresh, Wholes, Halfway
  <2>5. Own'
    BY <2>1 DEF IInv, Own, GivenUp
  <2>6. QED BY <2>2, <2>3, <2>4, <2>5 DEF IInv, Typed
<1>2. ASSUME NEW c \in Conv,
             Call(c) \/ Release(c) \/ WriteFrame(c) \/ WriteFails(c) \/ Timeout(c)
      PROVE  IInv'
  BY <1>2, CallHolds, ReleaseHolds, WriteFrameHolds, WriteFailsHolds, TimeoutHolds
<1>3. QED BY <1>1, <1>2, KeySaysHolds, CancelHolds DEF Next

(* The inductive invariant holds in every state, for any number of calls,  *)
(* frames and reports.                                                     *)
THEOREM BridgeInvariant == Spec => []IInv
<1>1. Init => IInv
  BY BridgeAtFirst
<1>2. IInv /\ [Next]_vars => IInv'
  BY BridgeKept
<1>3. QED BY <1>1, <1>2, PTL DEF Spec

(* An answer getAssertion resolves with is one answer, whole, and the      *)
(* call's own until a request was given up before it (AnswerIsOne):        *)
(* whatever the key says when, whatever writes fail, and whenever cancel() *)
(* comes.                                                                  *)
THEOREM OneAnswerToOneCall == Spec => []AnswerIsOne
<1>1. ASSUME IInv
      PROVE  AnswerIsOne
  <2>1. \A of : Cardinality({of}) = 1
    BY FS_Singleton
  <2>2. \A c \in Conv : outcome[c] = "answer" => Cardinality(heard[c]) = 1 /\ next[c] = Reports
    BY <1>1, <2>1 DEF IInv, Wholes
  <2>3. OwnUntilGivenUp
    BY <1>1 DEF IInv, Own, OwnUntilGivenUp
  <2>4. QED BY <1>1, <2>2, <2>3 DEF IInv, Typed, AnswerIsOne
<1>2. IInv => AnswerIsOne
  BY <1>1
<1>3. QED BY <1>2, BridgeInvariant, PTL

(* The lane's safety inside the bridge.                                    *)
LEMMA LaneSteps ==
  ASSUME IInv, [Next]_vars
  PROVE  [L!Next]_lvars
<1>1. ASSUME NEW c \in Conv, Call(c) \/ Release(c) \/ WriteFrame(c) \/ WriteFails(c) \/ Timeout(c)
      PROVE  [L!Next]_lvars
  BY <1>1 DEF Call, Release, WriteFrame, WriteFails, Timeout, Done, L!Next, IInv, Typed, PendingTalks
<1>2. ASSUME KeySays
      PROVE  [L!Next]_lvars
  <2>1. CASE pending = {}
    BY <1>2, <2>1 DEF KeySays
  <2>2. CASE pending # {}
    <3>1. PICK c \in pending : Hear(c, Head(key.says))
      BY <1>2, <2>2 DEF KeySays
    <3>2. c \in Conv
      BY Alone
    <3>3. QED BY <3>1, <3>2 DEF Hear, Done, L!Next
  <2>3. QED BY <2>1, <2>2
<1>3. ASSUME Cancel
      PROVE  [L!Next]_lvars
  <2>1. CASE pending = {}
    BY <1>3, <2>1 DEF Cancel, IInv, Typed, LaneOK, L!TypeOK, lvars
  <2>2. CASE pending # {}
    <3>1. PICK c \in pending : TRUE
      BY <2>2
    <3>2. pending = {c} /\ c \in Conv /\ phase[c] = "talking"
      BY <3>1, Alone
    <3>3. phase' = [phase EXCEPT ![c] = "settled"]
      BY <1>3, <3>2 DEF Cancel, IInv, Typed, LaneOK, L!TypeOK
    <3>4. QED BY <1>3, <3>2, <3>3 DEF Cancel, L!Settle, L!Next
  <2>3. QED BY <2>1, <2>2
<1>4. QED BY <1>1, <1>2, <1>3 DEF Next, vars

(* The calls keep the lane's rules (IsALane, without its fairness): each   *)
(* lets go of the lane exactly once, in the states in which Lane lets it.  *)
THEOREM BridgeUsesALane == Spec => L!Init /\ [][L!Next]_lvars
<1>1. Init => L!Init
  BY DEF Init
<1>2. IInv /\ [Next]_vars => [L!Next]_lvars
  BY LaneSteps
<1>3. QED BY <1>1, <1>2, BridgeInvariant, PTL DEF Spec

-----------------------------------------------------------------------------
(* A signature or a decryption.                                            *)

(* The packets, and the messages: parts of answers, or the two sentences.  *)
Packet == Ops \X {1, 2} \X (1 .. Packets)
Message ==
  [kind : {"part"}, of : Seq(Packet), i : {1, 2}] \cup {Sentence("locked"), Sentence("timeout")}

(* The stages of a call that is in the lane.                               *)
Turn == {"queued", "settling", "sending", "confirming", "waiting", "resting"}

(* The key has its four fields and no other.                               *)
OKeyShape == okey = [state |-> okey.state, got |-> okey.got, timers |-> okey.timers, deaf |-> okey.deaf]

(* Every variable has its type.                                            *)
OTyped ==
  /\ OpTypeOK
  /\ opLane \in Seq(Ops) /\ parts \in Seq(Message) /\ onAir \in Seq(Message)
  /\ took \in [Ops -> Seq(Message)] /\ okey.got \in Seq(Packet) /\ okey.deaf \in BOOLEAN
  /\ OKeyShape

(* The lane: everyone in it once, and only its holder under way.           *)
Turns ==
  /\ \A i, j \in 1 .. Len(opLane) : opLane[i] = opLane[j] => i = j
  /\ \A i \in 2 .. Len(opLane) : stage[opLane[i]] = "queued"
  /\ \A o \in Ops : stage[o] \in Turn <=> \E i \in 1 .. Len(opLane) : opLane[i] = o

(* How far the attempt that runs is.                                       *)
Now == IF opLane = <<>> \/ stage[Holder] = "queued" THEN "none" ELSE stage[Holder]

(* The locals as an attempt finds them.                                    *)
LocalsAreNew == try = 1 /\ out = 0 /\ parts = <<>> /\ ~listens /\ ~clock /\ answer = "pending"

(* Between attempts the locals are those of none; each stage has its own.  *)
Attempts ==
  /\ Now = "none" => LocalsAreNew
  /\ Now = "settling" => out = 0
  /\ Now = "sending" => out < Packets
  /\ Now = "resting" => try = 1 /\ ~listens

(* The sheet is up while the holder has asked for a press.                 *)
Sheets == sheet = IF Now \in {"confirming", "waiting"} /\ Holder \notin PaidOps THEN 1 ELSE 0

(* The first k packets of o's n-th attempt.                                *)
Sent(o, n, k) == [i \in 1 .. k |-> <<o, n, i>>]

(* What a run of an attempt may look like while none was given up.         *)
Lost == ~listens /\ (answer \in {"noResponse", "timeout"} \/ (answer = "locked" /\ try = 1))
Refusing == listens /\ try = 1 /\ parts = <<>> /\ onAir # <<>> /\ onAir[1] = Sentence("locked")
Written ==
  /\ listens /\ onAir = <<>> /\ parts = <<>> /\ okey.got = Sent(Holder, try, out)
  /\ okey.state = "idle" \/ (okey.state = "gaveUp" /\ out = 0 /\ try = 1)
Asked ==
  /\ listens /\ onAir = <<>> /\ parts = <<>>
  /\ okey.state = "asked" /\ okey.got = Request(Holder, try)
Coming ==
  /\ okey.state = "idle" /\ okey.got = <<>>
  /\ listens /\ parts \o onAir = Parts(Request(Holder, try), Holder) /\ Len(parts) < Size(Holder)
Whole ==
  /\ okey.state = "idle" /\ okey.got = <<>>
  /\ ~listens /\ answer = "ok" /\ onAir = <<>> /\ parts = Parts(Request(Holder, try), Holder)
GaveUp ==
  /\ listens /\ onAir = <<Sentence("timeout")>> /\ parts = <<>>
  /\ okey.state # "asked" /\ okey.got = <<>>

Clean == okey.state # "asked" /\ okey.got = <<>>
Remembered == old => okey.timers # "unknown"

(* Until something was left behind: what the key and the air have of the   *)
(* attempt that runs, and that they have nothing of any other.             *)
KeyHeeds ==
  /\ ~okey.deaf
  /\ Now = "none" => Clean /\ onAir = <<>> /\ Remembered
  /\ Now = "settling" =>
       /\ Clean /\ onAir = <<>> /\ Remembered
       /\ try = 2 => okey.state = "idle"
       /\ Written \/ Lost
  /\ Now = "sending" =>
       /\ okey.state # "asked" /\ (old => okey.timers = "off")
       /\ try = 2 => okey.state = "idle"
       /\ Written \/ Lost \/ Refusing
  /\ Now \in {"confirming", "waiting"} => Lost \/ Refusing \/ Asked \/ Coming \/ Whole \/ GaveUp
  /\ Now = "resting" => Clean /\ okey.timers # "unknown"

(* What the calls that ended were told.                                    *)
Told ==
  /\ \A o \in Ops : stage[o] \in {"ok", "filing"} => \E n \in {1, 2} : took[o] = Parts(Request(o, n), o)
  /\ \A o \in Ops : stage[o] # "locked"

OInv == OTyped /\ Turns /\ Attempts /\ Sheets /\ (~left => KeyHeeds /\ Told)

-----------------------------------------------------------------------------
(* The lane.                                                               *)

(* The holder of a lane that is not empty is the first in it.              *)
LEMMA HolderIs ==
  ASSUME OTyped, opLane # <<>>
  PROVE  Holder \in Ops /\ Holder = opLane[1] /\ 1 \in 1 .. Len(opLane)
BY DEF OTyped, Holder

(* Where the attempt is says who runs, and how far.                        *)
LEMMA AtIs ==
  ASSUME OTyped, Turns, NEW where, At(where)
  PROVE  /\ opLane # <<>> /\ Holder \in Ops /\ stage[Holder] = where /\ where \in Turn
         /\ Now = IF where = "queued" THEN "none" ELSE where
BY HolderIs DEF At, Now, Turns

(* The holder goes on to another stage of its turn; nobody else moves.     *)
LEMMA Moves ==
  ASSUME OTyped, Turns, opLane # <<>>, NEW where \in Turn \ {"queued"}, Goes(where), opLane' = opLane
  PROVE  /\ Turns' /\ Now' = where /\ Holder' = Holder /\ opLane' \in Seq(Ops)
         /\ stage' \in [Ops -> Stages]
         /\ \A o \in Ops \ {Holder} : stage'[o] = stage[o]
         /\ Holder \in Ops /\ stage'[Holder] = where
<1>1. Holder \in Ops /\ Holder = opLane[1] /\ 1 \in 1 .. Len(opLane) /\ opLane \in Seq(Ops)
  BY HolderIs DEF OTyped
<1>2. Holder' = Holder
  BY DEF Holder
<1>3. stage' = [stage EXCEPT ![Holder] = where] /\ stage \in [Ops -> Stages] /\ where \in Stages
  BY DEF Goes, OTyped, OpTypeOK, Turn, Stages
<1> HIDE DEF Holder
<1>4. /\ stage' \in [Ops -> Stages] /\ \A o \in Ops \ {Holder} : stage'[o] = stage[o]
      /\ stage'[Holder] = where
  BY <1>1, <1>3
<1>5. Now' = where
  BY <1>2, <1>4 DEF Now
<1>6. stage[Holder] \in Turn
  BY <1>1 DEF Turns
<1>7. \A i \in 2 .. Len(opLane) : opLane[i] \in Ops \ {Holder}
  BY <1>1 DEF Turns
<1>8. Turns'
  BY <1>1, <1>4, <1>6, <1>7 DEF Turns
<1>9. QED BY <1>1, <1>2, <1>4, <1>5, <1>8

(* The holder's turn ends: the next in the lane is queued still.           *)
LEMMA Leaves ==
  ASSUME OTyped, Turns, opLane # <<>>, NEW how \in Stages \ Turn,
         stage' = [stage EXCEPT ![Holder] = how], opLane' = Tail(opLane)
  PROVE  /\ Turns' /\ Now' = "none" /\ opLane' \in Seq(Ops)
         /\ stage' \in [Ops -> Stages]
         /\ \A o \in Ops \ {Holder} : stage'[o] = stage[o]
         /\ Holder \in Ops /\ stage'[Holder] = how
<1> DEFINE t == Tail(opLane)
<1>1. Holder \in Ops /\ Holder = opLane[1] /\ 1 \in 1 .. Len(opLane) /\ opLane \in Seq(Ops)
  BY HolderIs DEF OTyped
<1>2. /\ t \in Seq(Ops) /\ Len(t) = Len(opLane) - 1 /\ Len(opLane) \in Nat \ {0}
      /\ \A i \in 1 .. Len(t) : t[i] = opLane[i + 1]
  BY <1>1
<1>3. opLane' = t /\ Holder' = Head(t)
  BY DEF Holder
<1> HIDE DEF t, Holder
<1>4. /\ stage' \in [Ops -> Stages] /\ \A o \in Ops \ {Holder} : stage'[o] = stage[o]
      /\ stage'[Holder] = how
  BY <1>1 DEF OTyped, OpTypeOK
<1>5. \A i \in 1 .. Len(t) : i + 1 \in 2 .. Len(opLane) /\ t[i] = opLane[i + 1] /\ t[i] \in Ops
  BY <1>2
<1>6. \A i \in 2 .. Len(opLane) : opLane[i] # Holder /\ opLane[i] = t[i - 1] /\ i - 1 \in 1 .. Len(t)
  BY <1>1, <1>2 DEF Turns
<1>7. \A i \in 1 .. Len(t) : t[i] \in Ops \ {Holder} /\ stage[t[i]] = "queued" /\ stage'[t[i]] = "queued"
  BY <1>4, <1>5, <1>6 DEF Turns
<1>8. Now' = "none"
  <2>1. CASE t = <<>>
    BY <1>3, <2>1 DEF Now
  <2>2. CASE t # <<>>
    <3>1. Head(t) = t[1] /\ 1 \in 1 .. Len(t)
      BY <1>2, <2>2
    <3>2. QED BY <1>3, <1>7, <3>1 DEF Now
  <2>3. QED BY <2>1, <2>2
<1>9. Turns'
  <2>1. \A i, j \in 1 .. Len(t) : t[i] = t[j] => i = j
    <3>1. TAKE i, j \in 1 .. Len(t)
    <3>2. HAVE t[i] = t[j]
    <3>3. i + 1 \in 1 .. Len(opLane) /\ j + 1 \in 1 .. Len(opLane) /\ opLane[i + 1] = opLane[j + 1]
      BY <1>2, <1>5, <3>2
    <3>4. i + 1 = j + 1
      BY <3>3 DEF Turns
    <3>5. QED BY <3>4
  <2>2. \A i \in 2 .. Len(t) : stage'[t[i]] = "queued"
    BY <1>2, <1>7
  <2>3. ASSUME NEW o \in Ops
        PROVE  stage'[o] \in Turn <=> \E i \in 1 .. Len(t) : t[i] = o
    <3>1. CASE o = Holder
      BY <1>4, <1>7, <3>1
    <3>2. CASE o # Holder
      <4>1. stage'[o] \in Turn <=> \E i \in 1 .. Len(opLane) : opLane[i] = o
        BY <1>4, <3>2 DEF Turns
      <4>2. ASSUME NEW i \in 1 .. Len(opLane), opLane[i] = o
            PROVE  \E k \in 1 .. Len(t) : t[k] = o
        <5>1. i # 1
          BY <1>1, <3>2, <4>2
        <5>2. i \in 2 .. Len(opLane)
          BY <1>2, <5>1
        <5>3. QED BY <1>6, <4>2, <5>2
      <4>3. ASSUME NEW i \in 1 .. Len(t), t[i] = o
            PROVE  \E k \in 1 .. Len(opLane) : opLane[k] = o
        <5>1. i + 1 \in 1 .. Len(opLane)
          BY <1>2
        <5>2. QED BY <1>5, <4>3, <5>1
      <4>4. QED BY <4>1, <4>2, <4>3
    <3>3. QED BY <3>1, <3>2
  <2>4. \A i, j \in 1 .. Len(opLane') : opLane'[i] = opLane'[j] => i = j
    BY <1>3, <2>1
  <2>5. \A i \in 2 .. Len(opLane') : stage'[opLane'[i]] = "queued"
    BY <1>3, <2>2
  <2>6. \A o \in Ops : stage'[o] \in Turn <=> \E i \in 1 .. Len(opLane') : opLane'[i] = o
    BY <1>3, <2>3
  <2>7. QED BY <2>4, <2>5, <2>6 DEF Turns
<1>10. QED BY <1>1, <1>2, <1>3, <1>4, <1>8, <1>9

(* A call outside the lane comes to its end, or is filed; the lane is as   *)
(* it was.                                                                 *)
LEMMA Elsewhere ==
  ASSUME OTyped, Turns, NEW o \in Ops, stage[o] \notin Turn, NEW where \in Stages \ Turn,
         stage' = [stage EXCEPT ![o] = where], opLane' = opLane
  PROVE  /\ Turns' /\ Now' = Now /\ Holder' = Holder /\ opLane' \in Seq(Ops)
         /\ stage' \in [Ops -> Stages] /\ stage'[o] = where
         /\ \A p \in Ops \ {o} : stage'[p] = stage[p]
<1>1. /\ stage' \in [Ops -> Stages] /\ stage'[o] = where
      /\ \A p \in Ops \ {o} : stage'[p] = stage[p]
  BY DEF OTyped, OpTypeOK
<1>2. Holder' = Holder /\ opLane \in Seq(Ops)
  BY DEF Holder, OTyped
<1>3. \A i \in 1 .. Len(opLane) : opLane[i] \in Ops \ {o}
  BY <1>2 DEF Turns
<1>4. Now' = Now
  <2>1. CASE opLane = <<>>
    BY <2>1 DEF Now
  <2>2. CASE opLane # <<>>
    <3>1. Holder \in Ops \ {o}
      BY <1>3, <2>2, HolderIs
    <3>2. QED BY <1>1, <1>2, <3>1 DEF Now
  <2>3. QED BY <2>1, <2>2
<1>5. Turns'
  BY <1>1, <1>3 DEF Turns
<1>6. QED BY <1>1, <1>2, <1>4, <1>5

(* A call joins the end of the lane.                                       *)
LEMMA Joins ==
  ASSUME OTyped, Turns, NEW o \in Ops, stage[o] = "new",
         stage' = [stage EXCEPT ![o] = "queued"], opLane' = Append(opLane, o)
  PROVE  /\ Turns' /\ Now' = Now /\ (Now # "none" => Holder' = Holder) /\ opLane' \in Seq(Ops)
         /\ stage' \in [Ops -> Stages] /\ stage'[o] = "queued"
         /\ \A p \in Ops \ {o} : stage'[p] = stage[p]
<1> DEFINE s == Append(opLane, o)
<1>1. /\ stage' \in [Ops -> Stages] /\ stage'[o] = "queued"
      /\ \A p \in Ops \ {o} : stage'[p] = stage[p]
  BY DEF OTyped, OpTypeOK, Stages
<1>2. /\ opLane \in Seq(Ops) /\ s \in Seq(Ops) /\ Len(s) = Len(opLane) + 1 /\ Len(opLane) \in Nat
      /\ \A i \in 1 .. Len(opLane) : s[i] = opLane[i]
      /\ s[Len(opLane) + 1] = o
  BY DEF OTyped
<1>3. opLane' = s /\ Holder' = Head(s)
  BY DEF Holder
<1>4. s # <<>> /\ Head(s) = s[1]
  BY <1>2
<1> HIDE DEF s
<1>5. \A i \in 1 .. Len(opLane) : opLane[i] \in Ops \ {o}
  BY <1>2 DEF Turns, Turn
<1>6. Now' = Now /\ (Now # "none" => Holder' = Holder)
  <2>1. CASE opLane = <<>>
    <3>1. Len(opLane) = 0
      BY <2>1
    <3>2. Head(s) = o
      BY <1>2, <1>4, <3>1
    <3>3. Now' = "none" /\ Now = "none"
      BY <1>1, <1>3, <2>1, <3>2 DEF Now
    <3>4. QED BY <3>3
  <2>2. CASE opLane # <<>>
    <3>1. Holder = opLane[1] /\ 1 \in 1 .. Len(opLane)
      BY <2>2, HolderIs
    <3>2. Holder' = Holder /\ Holder \in Ops \ {o}
      BY <1>2, <1>3, <1>4, <1>5, <3>1
    <3>3. QED BY <1>1, <1>3, <1>4, <2>2, <3>2 DEF Now
  <2>3. QED BY <2>1, <2>2
<1>7. Turns'
  <2>1. \A i \in 1 .. Len(s) : i \in 1 .. Len(opLane) \/ i = Len(opLane) + 1
    BY <1>2
  <2>2. \A i, j \in 1 .. Len(s) : s[i] = s[j] => i = j
    BY <1>2, <1>5, <2>1 DEF Turns
  <2>3. \A i \in 2 .. Len(s) : stage'[s[i]] = "queued"
    <3>1. TAKE i \in 2 .. Len(s)
    <3>2. i \in 1 .. Len(s)
      BY <1>2
    <3>3. CASE i = Len(opLane) + 1
      BY <1>1, <1>2, <3>3
    <3>4. CASE i \in 1 .. Len(opLane)
      <4>1. i \in 2 .. Len(opLane)
        BY <1>2, <3>4
      <4>2. QED BY <1>1, <1>2, <1>5, <3>4, <4>1 DEF Turns
    <3>5. QED BY <2>1, <3>2, <3>3, <3>4
  <2>4. ASSUME NEW p \in Ops
        PROVE  stage'[p] \in Turn <=> \E i \in 1 .. Len(s) : s[i] = p
    <3>1. CASE p = o
      <4>1. Len(opLane) + 1 \in 1 .. Len(s)
        BY <1>2
      <4>2. QED BY <1>1, <1>2, <3>1, <4>1 DEF Turn
    <3>2. CASE p # o
      <4>1. stage'[p] \in Turn <=> \E i \in 1 .. Len(opLane) : opLane[i] = p
        BY <1>1, <3>2 DEF Turns
      <4>2. (\E i \in 1 .. Len(opLane) : opLane[i] = p) <=> \E i \in 1 .. Len(s) : s[i] = p
        BY <1>2, <2>1, <3>2
      <4>3. QED BY <4>1, <4>2
    <3>3. QED BY <3>1, <3>2
  <2>5. QED BY <1>3, <2>2, <2>3, <2>4 DEF Turns
<1>8. QED BY <1>1, <1>2, <1>3, <1>6, <1>7

(* Nobody moves.                                                           *)
LEMMA Stays ==
  ASSUME OTyped, Turns, UNCHANGED <<stage, opLane>>
  PROVE  Turns' /\ Now' = Now /\ Holder' = Holder /\ opLane' \in Seq(Ops) /\ stage' \in [Ops -> Stages]
<1>1. stage' = stage /\ opLane' = opLane
  OBVIOUS
<1>2. Turns'
  <2>1. \A i, j \in 1 .. Len(opLane') : opLane'[i] = opLane'[j] => i = j
    BY <1>1 DEF Turns
  <2>2. \A i \in 2 .. Len(opLane') : stage'[opLane'[i]] = "queued"
    BY <1>1 DEF Turns
  <2>3. \A o \in Ops : stage'[o] \in Turn <=> \E i \in 1 .. Len(opLane') : opLane'[i] = o
    BY <1>1, Zenon DEF Turns
  <2>4. QED BY <2>1, <2>2, <2>3 DEF Turns
<1>3. Now' = Now /\ Holder' = Holder
  BY <1>1 DEF Now, Holder
<1>4. QED BY <1>1, <1>2, <1>3 DEF OTyped, OpTypeOK

-----------------------------------------------------------------------------
(* What goes over the air.                                                 *)

(* The key's two sentences are messages, and not parts of an answer.       *)
LEMMA SentencesAre ==
  /\ Sentence("locked") \in Message /\ Sentence("locked").kind = "locked"
  /\ Sentence("timeout") \in Message /\ Sentence("timeout").kind = "timeout"
BY DEF Message, Sentence

(* A message is a part or one of them.                                     *)
LEMMA MessageIs ==
  ASSUME NEW m \in Message
  PROVE  /\ m.kind \in {"part", "locked", "timeout"}
         /\ m.kind # "part" => m = Sentence("locked") \/ m = Sentence("timeout")
BY DEF Message, Sentence

(* An answer's messages are parts, as many as the call waits for.          *)
LEMMA PartsAre ==
  ASSUME NEW request \in Seq(Packet), NEW o
  PROVE  /\ Parts(request, o) \in Seq(Message) /\ Len(Parts(request, o)) = Size(o)
         /\ \A i \in 1 .. Size(o) : Parts(request, o)[i].kind = "part"
         /\ Size(o) \in {1, 2}
<1>1. Size(o) \in {1, 2}
  BY DEF Size
<1>2. \A i \in 1 .. Size(o) : [kind |-> "part", of |-> request, i |-> i] \in Message
  BY <1>1 DEF Message
<1>3. QED BY <1>1, <1>2 DEF Parts

(* The packets of an attempt, all of them, are its request; none of them   *)
(* is nothing.                                                             *)
LEMMA RequestIs ==
  ASSUME NEW o \in Ops, NEW n \in {1, 2}
  PROVE  /\ Request(o, n) \in Seq(Packet) /\ Len(Request(o, n)) = Packets
         /\ Packets \in 1 .. Packets /\ Request(o, n)[Packets] = <<o, n, Packets>>
         /\ Sent(o, n, Packets) = Request(o, n)
         /\ Sent(o, n, 0) = <<>>
<1>1. Packets \in Nat \ {0} /\ Packets \in 1 .. Packets
  BY OpAssumption
<1>2. \A i \in 1 .. Packets : <<o, n, i>> \in Packet
  BY DEF Packet
<1>3. Request(o, n) \in Seq(Packet) /\ Len(Request(o, n)) = Packets
  BY <1>1, <1>2 DEF Request
<1>4. Request(o, n)[Packets] = <<o, n, Packets>>
  BY <1>1 DEF Request
<1>5. Sent(o, n, Packets) = Request(o, n)
  BY DEF Sent, Request
<1>6. Sent(o, n, 0) = <<>>
  BY DEF Sent
<1>7. QED BY <1>1, <1>3, <1>4, <1>5, <1>6

(* One packet more is the next of the same request.                        *)
LEMMA SentGrows ==
  ASSUME NEW o \in Ops, NEW n \in {1, 2}, NEW k \in Nat, k < Packets
  PROVE  /\ Append(Sent(o, n, k), <<o, n, k + 1>>) = Sent(o, n, k + 1)
         /\ <<o, n, k + 1>> \in Packet
<1>1. <<o, n, k + 1>> \in Packet /\ \A i \in 1 .. k : <<o, n, i>> \in Packet
  BY OpAssumption DEF Packet
<1>2. Sent(o, n, k) \in Seq(Packet) /\ Len(Sent(o, n, k)) = k
  BY <1>1 DEF Sent
<1>3. QED BY <1>1, <1>2 DEF Sent

-----------------------------------------------------------------------------
(* The steps that leave the attempt alone.                                 *)

(* What the invariant says of the attempt that runs is kept by a step that *)
(* leaves it, the key and the air alone.                                   *)
LEMMA SameAttempt ==
  ASSUME OInv, UNCHANGED <<try, out, listens, clock, answer, parts, sheet, okey, onAir, old, left>>,
         Now' = Now, Now # "none" => Holder' = Holder
  PROVE  Attempts' /\ Sheets' /\ (~left' => KeyHeeds')
<1>1. /\ try' = try /\ out' = out /\ listens' = listens /\ clock' = clock /\ answer' = answer
      /\ parts' = parts /\ sheet' = sheet /\ okey' = okey /\ onAir' = onAir /\ old' = old
      /\ left' = left
  OBVIOUS
<1>2. Attempts' /\ Sheets'
  BY <1>1 DEF OInv, Attempts, LocalsAreNew, Sheets
<1>3. Lost' = Lost /\ Refusing' = Refusing /\ GaveUp' = GaveUp /\ Clean' = Clean /\ Remembered' = Remembered
  BY <1>1 DEF Lost, Refusing, GaveUp, Clean, Remembered
<1>4. Now # "none" => Written' = Written /\ Asked' = Asked /\ Coming' = Coming /\ Whole' = Whole
  BY <1>1 DEF Written, Asked, Coming, Whole
<1>5. ASSUME ~left', ~left, KeyHeeds
      PROVE  KeyHeeds'
  <2>1. CASE Now = "none"
    BY <1>1, <1>3, <1>5, <2>1 DEF KeyHeeds
  <2>2. CASE Now # "none"
    BY <1>1, <1>3, <1>4, <1>5, <2>2 DEF KeyHeeds
  <2>3. QED BY <2>1, <2>2
<1>6. QED BY <1>1, <1>2, <1>5 DEF OInv

(* What is typed of what does not change.                                  *)
LEMMA TypedAgain ==
  ASSUME OTyped, UNCHANGED <<try, out, listens, clock, answer, parts, took, okey, onAir>>,
         stage' \in [Ops -> Stages], opLane' \in Seq(Ops)
  PROVE  OTyped'
<1>1. /\ try' = try /\ out' = out /\ listens' = listens /\ clock' = clock /\ answer' = answer
      /\ parts' = parts /\ took' = took /\ okey' = okey /\ onAir' = onAir
  OBVIOUS
<1>2. QED BY <1>1 DEF OTyped, OpTypeOK, OKeyShape

(* beforePress() says no: the call never gets to the lane.                 *)
LEMMA NotAllowedHolds ==
  ASSUME OInv, NEW o \in Ops, NotAllowed(o)
  PROVE  OInv'
<1>1. /\ stage[o] = "new" /\ stage' = [stage EXCEPT ![o] = "notAllowed"] /\ opLane' = opLane
      /\ UNCHANGED <<try, out, listens, clock, answer, parts, took, sheet, okey, onAir, old, left>>
  BY DEF NotAllowed
<1>2. stage[o] \notin Turn /\ "notAllowed" \in Stages \ Turn
  BY <1>1 DEF Turn, Stages, Over
<1>3. /\ Turns' /\ Now' = Now /\ Holder' = Holder /\ opLane' \in Seq(Ops)
      /\ stage' \in [Ops -> Stages] /\ stage'[o] = "notAllowed"
      /\ \A p \in Ops \ {o} : stage'[p] = stage[p]
  BY <1>1, <1>2, Elsewhere DEF OInv
<1>4. OTyped'
  BY <1>1, <1>3, TypedAgain DEF OInv
<1>5. Told => Told'
  BY <1>1, <1>3 DEF Told
<1>6. QED BY <1>1, <1>3, <1>4, <1>5, SameAttempt DEF OInv

(* A use is filed, or is not: the answer stays the call's.                 *)
LEMMA FileUseHolds ==
  ASSUME OInv, NEW o \in Ops, FileUse(o)
  PROVE  OInv'
<1>1. PICK how \in {"ok", "notFiled"} : stage' = [stage EXCEPT ![o] = how]
  BY DEF FileUse
<1>2. /\ stage[o] = "filing" /\ opLane' = opLane
      /\ UNCHANGED <<try, out, listens, clock, answer, parts, took, sheet, okey, onAir, old, left>>
  BY DEF FileUse
<1>3. stage[o] \notin Turn /\ how \in Stages \ Turn
  BY <1>2 DEF Turn, Stages, Over
<1>4. /\ Turns' /\ Now' = Now /\ Holder' = Holder /\ opLane' \in Seq(Ops)
      /\ stage' \in [Ops -> Stages] /\ stage'[o] = how
      /\ \A p \in Ops \ {o} : stage'[p] = stage[p]
  BY <1>1, <1>2, <1>3, Elsewhere DEF OInv
<1>5. OTyped'
  BY <1>2, <1>4, TypedAgain DEF OInv
<1>6. Told => Told'
  BY <1>2, <1>4 DEF Told
<1>7. QED BY <1>2, <1>4, <1>5, <1>6, SameAttempt DEF OInv

(* A call queues behind those in the lane.                                 *)
LEMMA CallOpHolds ==
  ASSUME OInv, NEW o \in Ops, CallOp(o)
  PROVE  OInv'
<1>1. /\ stage[o] = "new" /\ stage' = [stage EXCEPT ![o] = "queued"] /\ opLane' = Append(opLane, o)
      /\ UNCHANGED <<try, out, listens, clock, answer, parts, took, sheet, okey, onAir, old, left>>
  BY DEF CallOp
<1>2. /\ Turns' /\ Now' = Now /\ (Now # "none" => Holder' = Holder) /\ opLane' \in Seq(Ops)
      /\ stage' \in [Ops -> Stages] /\ stage'[o] = "queued"
      /\ \A p \in Ops \ {o} : stage'[p] = stage[p]
  BY <1>1, Joins DEF OInv
<1>3. OTyped'
  BY <1>1, <1>2, TypedAgain DEF OInv
<1>4. Told => Told'
  BY <1>1, <1>2 DEF Told
<1>5. QED BY <1>1, <1>2, <1>3, <1>4, SameAttempt DEF OInv

-----------------------------------------------------------------------------
(* The steps of an attempt.                                                *)

(* An attempt begins: if nothing was left behind, the key holds nothing    *)
(* and nothing is on its way, so what is heard from here on is of this     *)
(* attempt.                                                                *)
LEMMA AttemptHolds ==
  ASSUME OInv, opLane # <<>>, NEW n \in {1, 2}, Attempt(n),
         ~left => /\ ~okey.deaf /\ Clean /\ onAir = <<>> /\ Remembered
                  /\ n = 2 => okey.state = "idle"
                  /\ okey.state \in {"idle", "gaveUp"},
         Now \notin {"confirming", "waiting"}
  PROVE  OInv'
<1>1. /\ try' = n /\ out' = 0 /\ listens' = TRUE /\ clock' = TRUE
      /\ answer' = "pending" /\ parts' = <<>> /\ opLane' = opLane /\ Goes("settling")
      /\ took' = took /\ sheet' = sheet /\ okey' = okey /\ onAir' = onAir /\ old' = old /\ left' = left
  BY DEF Attempt
<1>2. /\ Turns' /\ Now' = "settling" /\ Holder' = Holder /\ opLane' \in Seq(Ops)
      /\ stage' \in [Ops -> Stages]
      /\ \A o \in Ops \ {Holder} : stage'[o] = stage[o]
      /\ Holder \in Ops /\ stage'[Holder] = "settling"
  BY <1>1, Moves DEF OInv, Turn
<1>3. OTyped'
  BY <1>1, <1>2, OpAssumption DEF OInv, OTyped, OpTypeOK, OKeyShape
<1>4. Attempts' /\ Sheets'
  BY <1>1, <1>2, OpAssumption DEF OInv, Attempts, Sheets
<1>5. ~left => KeyHeeds'
  <2>1. SUFFICES ASSUME ~left PROVE KeyHeeds'
    OBVIOUS
  <2>2. Sent(Holder, n, 0) = <<>>
    BY <1>2, RequestIs
  <2>3. Written'
    BY <1>1, <1>2, <2>1, <2>2 DEF Written, Clean
  <2>4. Clean' /\ Remembered' /\ onAir' = <<>> /\ ~okey'.deaf /\ (try' = 2 => okey'.state = "idle")
    BY <1>1, <2>1 DEF Clean, Remembered
  <2>5. QED BY <1>2, <2>3, <2>4 DEF KeyHeeds
<1>6. Told => Told'
  BY <1>1, <1>2 DEF Told
<1>7. QED BY <1>1, <1>2, <1>3, <1>4, <1>5, <1>6 DEF OInv

(* The first attempt begins after a turn that left nothing, or as the      *)
(* first.                                                                  *)
LEMMA TakeTurnHolds ==
  ASSUME OInv, TakeTurn
  PROVE  OInv'
<1>1. opLane # <<>> /\ Now = "none" /\ Attempt(1)
  BY AtIs DEF TakeTurn, OInv
<1>2. ~left => /\ ~okey.deaf /\ Clean /\ onAir = <<>> /\ Remembered
               /\ okey.state \in {"idle", "gaveUp"}
  BY <1>1 DEF OInv, KeyHeeds, Clean, OTyped, OpTypeOK
<1>3. QED BY <1>1, <1>2, AttemptHolds

(* The second begins after the wait, the key's wipe and its timers over.   *)
LEMMA TryAgainHolds ==
  ASSUME OInv, TryAgain
  PROVE  OInv'
<1>1. opLane # <<>> /\ Now = "resting" /\ Attempt(2) /\ Rested
  BY AtIs DEF TryAgain, OInv
<1>2. ~left => /\ ~okey.deaf /\ Clean /\ onAir = <<>> /\ Remembered /\ okey.state = "idle"
  BY <1>1 DEF OInv, KeyHeeds, Clean, Remembered, Rested, OTyped, OpTypeOK
<1>3. QED BY <1>1, <1>2, AttemptHolds

(* The wait for old firmware's timers ends: they are off when the first    *)
(* packet goes.                                                            *)
LEMMA SettleHolds ==
  ASSUME OInv, Settle
  PROVE  OInv'
<1>1. /\ At("settling") /\ Settles /\ Goes("sending") /\ opLane' = opLane
      /\ try' = try /\ out' = out /\ listens' = listens /\ clock' = clock /\ answer' = answer
      /\ parts' = parts /\ took' = took /\ sheet' = sheet /\ okey' = okey /\ onAir' = onAir
      /\ old' = old /\ left' = left
  BY DEF Settle
<1>2. opLane # <<>> /\ Now = "settling"
  BY <1>1, AtIs DEF OInv
<1>3. /\ Turns' /\ Now' = "sending" /\ Holder' = Holder /\ opLane' \in Seq(Ops)
      /\ stage' \in [Ops -> Stages]
      /\ \A o \in Ops \ {Holder} : stage'[o] = stage[o]
      /\ Holder \in Ops /\ stage'[Holder] = "sending"
  BY <1>1, <1>2, Moves DEF OInv, Turn
<1>4. OTyped'
  BY <1>1, <1>3, TypedAgain DEF OInv
<1>5. Attempts' /\ Sheets'
  BY <1>1, <1>2, <1>3, OpAssumption DEF OInv, Attempts, Sheets
<1>6. ~left => KeyHeeds'
  <2>1. SUFFICES ASSUME ~left PROVE KeyHeeds'
    OBVIOUS
  <2>2. /\ Clean /\ Remembered /\ (try = 2 => okey.state = "idle") /\ (Written \/ Lost) /\ ~okey.deaf
    BY <1>2, <2>1 DEF OInv, KeyHeeds
  <2>3. Written' \/ Lost'
    BY <1>1, <1>3, <2>2 DEF Written, Lost
  <2>4. old => okey.timers = "off"
    BY <1>1, <2>2 DEF Settles, Remembered, OInv, OTyped, OpTypeOK
  <2>5. QED BY <1>1, <1>3, <2>2, <2>3, <2>4 DEF KeyHeeds, Clean
<1>7. Told => Told'
  BY <1>1, <1>3 DEF Told
<1>8. QED BY <1>1, <1>3, <1>4, <1>5, <1>6, <1>7 DEF OInv

(* confirm() comes back, whatever was heard meanwhile.                     *)
LEMMA ConfirmReturnsHolds ==
  ASSUME OInv, ConfirmReturns
  PROVE  OInv'
<1>1. /\ At("confirming") /\ Goes("waiting") /\ opLane' = opLane
      /\ try' = try /\ out' = out /\ listens' = listens /\ clock' = clock /\ answer' = answer
      /\ parts' = parts /\ took' = took /\ sheet' = sheet /\ okey' = okey /\ onAir' = onAir
      /\ old' = old /\ left' = left
  BY DEF ConfirmReturns
<1>2. opLane # <<>> /\ Now = "confirming"
  BY <1>1, AtIs DEF OInv
<1>3. /\ Turns' /\ Now' = "waiting" /\ Holder' = Holder /\ opLane' \in Seq(Ops)
      /\ stage' \in [Ops -> Stages]
      /\ \A o \in Ops \ {Holder} : stage'[o] = stage[o]
      /\ Holder \in Ops /\ stage'[Holder] = "waiting"
  BY <1>1, <1>2, Moves DEF OInv, Turn
<1>4. OTyped'
  BY <1>1, <1>3, TypedAgain DEF OInv
<1>5. Attempts' /\ Sheets'
  BY <1>1, <1>2, <1>3 DEF OInv, Attempts, Sheets
<1>6. ~left => KeyHeeds'
  <2>1. SUFFICES ASSUME ~left PROVE KeyHeeds'
    OBVIOUS
  <2>2. /\ Lost \/ Refusing \/ Asked \/ Coming \/ Whole \/ GaveUp
        /\ ~okey.deaf
    BY <1>2, <2>1 DEF OInv, KeyHeeds
  <2>3. (Lost \/ Refusing \/ Asked \/ Coming \/ Whole \/ GaveUp)'
    BY <1>1, <1>3, <2>2 DEF Lost, Refusing, Asked, Coming, Whole, GaveUp
  <2>4. QED BY <1>1, <1>3, <2>2, <2>3 DEF KeyHeeds
<1>7. Told => Told'
  BY <1>1, <1>3 DEF Told
<1>8. QED BY <1>1, <1>3, <1>4, <1>5, <1>6, <1>7 DEF OInv

(* The attempt ends.                                                       *)
LEMMA EndsHolds ==
  ASSUME OInv, opLane # <<>>, NEW how \in Over \ {"ok"}, Ends(how), UNCHANGED <<took, okey>>,
         ~left => how # "locked", sheet' = 0
  PROVE  OInv'
<1>1. /\ try' = 1 /\ out' = 0 /\ parts' = <<>> /\ listens' = FALSE /\ clock' = FALSE
      /\ answer' = "pending" /\ opLane' = Tail(opLane) /\ stage' = [stage EXCEPT ![Holder] = how]
      /\ took' = took /\ okey' = okey /\ onAir' = onAir /\ old' = old
  BY DEF Ends, LocalsGo
<1>2. left' = (left \/ KeyNotDone)
  BY DEF Ends
<1>3. how \in Stages \ Turn
  BY DEF Stages, Over, Turn
<1>4. /\ Turns' /\ Now' = "none" /\ opLane' \in Seq(Ops)
      /\ stage' \in [Ops -> Stages]
      /\ \A o \in Ops \ {Holder} : stage'[o] = stage[o]
      /\ Holder \in Ops /\ stage'[Holder] = how
  BY <1>1, <1>3, Leaves DEF OInv
<1>5. OTyped'
  BY <1>1, <1>4, OpAssumption DEF OInv, OTyped, OpTypeOK, OKeyShape
<1>6. Attempts' /\ Sheets'
  BY <1>1, <1>4 DEF Attempts, Sheets, LocalsAreNew
<1>7. ~left' => KeyHeeds' /\ Told'
  <2>1. SUFFICES ASSUME ~left' PROVE KeyHeeds' /\ Told'
    OBVIOUS
  <2>2. ~left /\ ~KeyNotDone
    BY <1>2, <2>1
  <2>3. ~okey.deaf /\ Told
    BY <2>2 DEF OInv, KeyHeeds
  <2>4. KeyHeeds'
    BY <1>1, <1>4, <2>2, <2>3 DEF KeyHeeds, KeyNotDone, Clean, Remembered
  <2>5. Told'
    BY <1>1, <1>4, <2>2, <2>3 DEF Told, Over
  <2>6. QED BY <2>4, <2>5
<1>8. QED BY <1>4, <1>5, <1>6, <1>7 DEF OInv

(* The sheet is up exactly while a press is asked for, so what is said     *)
(* done was said asked.                                                    *)
LEMMA SheetNow ==
  ASSUME OInv, At("sending") \/ At("confirming") \/ At("waiting") \/ At("resting")
  PROVE  /\ At("sending") \/ At("resting") => sheet = 0
         /\ At("confirming") \/ At("waiting") => Said = 0
         /\ opLane # <<>>
<1>1. \A where : At(where) => opLane # <<>> /\ Now = IF where = "queued" THEN "none" ELSE where
  BY AtIs DEF OInv
<1>2. sheet = IF Now \in {"confirming", "waiting"} /\ Holder \notin PaidOps THEN 1 ELSE 0
  BY DEF OInv, Sheets
<1>3. At("sending") \/ At("resting") => sheet = 0
  BY <1>1, <1>2
<1>4. At("confirming") \/ At("waiting") => Said = 0
  BY <1>1, <1>2 DEF Said
<1>5. QED BY <1>1, <1>3, <1>4

(* A write fails before any press is asked for; if the key holds packets,  *)
(* the attempt left them.                                                  *)
LEMMA WriteRefusedHolds ==
  ASSUME OInv, WriteRefused
  PROVE  OInv'
<1>1. opLane # <<>> /\ sheet' = 0 /\ Ends("writeError") /\ UNCHANGED <<took, okey>>
  BY SheetNow DEF WriteRefused
<1>2. "writeError" \in Over \ {"ok"} /\ "writeError" # "locked"
  BY DEF Over
<1>3. QED BY <1>1, <1>2, EndsHolds

(* confirm() throws: the sheet goes, and the key may still be asked.       *)
LEMMA ConfirmThrowsHolds ==
  ASSUME OInv, ConfirmThrows
  PROVE  OInv'
<1>1. opLane # <<>> /\ sheet' = 0 /\ Ends("threw") /\ UNCHANGED <<took, okey>>
  BY SheetNow DEF ConfirmThrows
<1>2. "threw" \in Over \ {"ok"} /\ "threw" # "locked"
  BY DEF Over
<1>3. QED BY <1>1, <1>2, EndsHolds

(* The attempt ends without an answer; told locked at the second attempt,  *)
(* it was left behind something.                                           *)
LEMMA RefusedHolds ==
  ASSUME OInv, Refused
  PROVE  OInv'
<1>1. /\ opLane # <<>> /\ sheet' = 0 /\ Ends(answer) /\ UNCHANGED <<took, okey>>
      /\ At("waiting")
  BY SheetNow DEF Refused
<1>2. Now = "waiting" /\ answer \in Over \ {"ok"}
  BY <1>1, AtIs DEF OInv, Refused, Over
<1>3. ASSUME ~left PROVE answer # "locked"
  <2>1. Lost \/ Refusing \/ Asked \/ Coming \/ Whole \/ GaveUp
    BY <1>2, <1>3 DEF OInv, KeyHeeds
  <2>2. listens => answer = "pending"
    BY DEF OInv, OTyped, OpTypeOK
  <2>3. QED BY <2>1, <2>2 DEF Lost, Refusing, Asked, Coming, Whole, GaveUp, Refused
<1>4. QED BY <1>1, <1>2, <1>3, EndsHolds

(* The answer is in and the key is done with the request: the next turn    *)
(* finds it idle, its timers known.                                        *)
LEMMA AnsweredHolds ==
  ASSUME OInv, Answered
  PROVE  OInv'
<1> DEFINE how == IF Holder \in announced THEN "filing" ELSE "ok"
<1>1. /\ At("waiting") /\ answer = "ok" /\ stage' = [stage EXCEPT ![Holder] = how]
      /\ try' = 1 /\ out' = 0 /\ parts' = <<>> /\ listens' = FALSE /\ clock' = FALSE
      /\ answer' = "pending" /\ opLane' = Tail(opLane)
      /\ took' = [took EXCEPT ![Holder] = parts] /\ okey' = Recorded /\ sheet' = Said
      /\ onAir' = onAir /\ old' = old /\ left' = left
  BY DEF Answered, LocalsGo
<1>2. opLane # <<>> /\ Now = "waiting" /\ Said = 0 /\ how \in {"filing", "ok"} /\ how \in Stages \ Turn
  BY <1>1, AtIs, SheetNow DEF OInv, Stages, Turn, Over
<1>3. /\ okey'.state = okey.state /\ okey'.got = okey.got /\ okey'.deaf = okey.deaf
      /\ okey'.timers \in {"off", "known"} /\ OKeyShape'
  <2>1. okey = [state |-> okey.state, got |-> okey.got, timers |-> okey.timers, deaf |-> okey.deaf]
    BY DEF OInv, OTyped, OKeyShape
  <2>2. \/ okey.timers = "off" /\ okey' = okey
        \/ okey' = [state |-> okey.state, got |-> okey.got, timers |-> "known", deaf |-> okey.deaf]
    BY <1>1, <2>1 DEF Recorded
  <2>3. QED BY <2>1, <2>2 DEF OKeyShape
<1>4. /\ Turns' /\ Now' = "none" /\ opLane' \in Seq(Ops)
      /\ stage' \in [Ops -> Stages]
      /\ \A o \in Ops \ {Holder} : stage'[o] = stage[o]
      /\ Holder \in Ops /\ stage'[Holder] = how
  BY <1>1, <1>2, Leaves DEF OInv
<1>5. /\ took' \in [Ops -> Seq(Message)] /\ took'[Holder] = parts
      /\ \A o \in Ops \ {Holder} : took'[o] = took[o]
  BY <1>1, <1>4 DEF OInv, OTyped
<1>6. OTyped'
  BY <1>1, <1>3, <1>4, <1>5, OpAssumption DEF OInv, OTyped, OpTypeOK
<1>7. Attempts' /\ Sheets'
  BY <1>1, <1>2, <1>4 DEF Attempts, Sheets, LocalsAreNew
<1>8. ASSUME ~left
      PROVE  KeyHeeds' /\ Told'
  <2>1. Whole /\ ~okey.deaf
    <3>1. /\ Lost \/ Refusing \/ Asked \/ Coming \/ Whole \/ GaveUp
          /\ ~okey.deaf
      BY <1>2, <1>8 DEF OInv, KeyHeeds
    <3>2. listens => answer = "pending"
      BY DEF OInv, OTyped, OpTypeOK
    <3>3. QED BY <1>1, <3>1, <3>2 DEF Lost, Refusing, Asked, Coming, GaveUp
  <2>2. KeyHeeds'
    BY <1>1, <1>3, <1>4, <2>1 DEF KeyHeeds, Whole, Clean, Remembered
  <2>3. try \in {1, 2} /\ took'[Holder] = Parts(Request(Holder, try), Holder)
    BY <1>5, <2>1 DEF Whole, OInv, OTyped, OpTypeOK
  <2>4. \A o \in Ops :
          stage'[o] \in {"ok", "filing"} => \E n \in {1, 2} : took'[o] = Parts(Request(o, n), o)
    <3>1. TAKE o \in Ops
    <3>2. CASE o = Holder
      BY <2>3, <3>2
    <3>3. CASE o # Holder
      BY <1>4, <1>5, <1>8, <3>3 DEF OInv, Told
    <3>4. QED BY <3>2, <3>3
  <2>5. \A o \in Ops : stage'[o] # "locked"
    BY <1>2, <1>4, <1>8 DEF OInv, Told
  <2>6. QED BY <2>2, <2>4, <2>5 DEF Told
<1>9. QED BY <1>1, <1>4, <1>6, <1>7, <1>8 DEF OInv

(* Told the key is busy with its wipe, the attempt rests and the sheet     *)
(* goes.                                                                   *)
LEMMA BusyHolds ==
  ASSUME OInv, Busy
  PROVE  OInv'
<1>1. /\ At("waiting") /\ answer = "locked" /\ try = 1 /\ Goes("resting") /\ opLane' = opLane
      /\ try' = try /\ out' = out /\ listens' = listens /\ clock' = clock /\ answer' = answer
      /\ parts' = parts /\ took' = took /\ sheet' = Said /\ okey' = Recorded /\ onAir' = onAir
      /\ old' = old
  BY DEF Busy
<1>2. left' = (left \/ okey.state = "asked" \/ okey.got # <<>>)
  BY DEF Busy
<1>3. opLane # <<>> /\ Now = "waiting" /\ Said = 0 /\ ~listens
  BY <1>1, AtIs, SheetNow DEF OInv, OTyped, OpTypeOK
<1>4. /\ okey'.state = okey.state /\ okey'.got = okey.got /\ okey'.deaf = okey.deaf
      /\ okey'.timers \in {"off", "known"} /\ OKeyShape'
  <2>1. okey = [state |-> okey.state, got |-> okey.got, timers |-> okey.timers, deaf |-> okey.deaf]
    BY DEF OInv, OTyped, OKeyShape
  <2>2. \/ okey.timers = "off" /\ okey' = okey
        \/ okey' = [state |-> okey.state, got |-> okey.got, timers |-> "known", deaf |-> okey.deaf]
    BY <1>1, <2>1 DEF Recorded
  <2>3. QED BY <2>1, <2>2 DEF OKeyShape
<1>5. /\ Turns' /\ Now' = "resting" /\ Holder' = Holder /\ opLane' \in Seq(Ops)
      /\ stage' \in [Ops -> Stages]
      /\ \A o \in Ops \ {Holder} : stage'[o] = stage[o]
      /\ Holder \in Ops /\ stage'[Holder] = "resting"
  BY <1>1, <1>3, Moves DEF OInv, Turn
<1>6. OTyped'
  BY <1>1, <1>4, <1>5 DEF OInv, OTyped, OpTypeOK
<1>7. Attempts' /\ Sheets'
  BY <1>1, <1>3, <1>5 DEF Attempts, Sheets
<1>8. ASSUME ~left'
      PROVE  KeyHeeds' /\ Told'
  <2>1. ~left /\ Clean
    BY <1>2, <1>8 DEF Clean
  <2>2. KeyHeeds'
    BY <1>4, <1>5, <2>1 DEF OInv, KeyHeeds, Clean
  <2>3. Told'
    BY <1>1, <1>5, <2>1 DEF OInv, Told
  <2>4. QED BY <2>2, <2>3
<1>9. QED BY <1>5, <1>6, <1>7, <1>8 DEF OInv

(* The timer, and a report.                                                *)
LEMMA ClockRunsOutHolds ==
  ASSUME OInv, ClockRunsOut
  PROVE  OInv'
<1>1. /\ clock /\ clock' = FALSE /\ listens' = FALSE
      /\ answer' = IF listens THEN "noResponse" ELSE answer
      /\ stage' = stage /\ opLane' = opLane /\ try' = try /\ out' = out /\ parts' = parts
      /\ took' = took /\ sheet' = sheet /\ okey' = okey /\ onAir' = onAir /\ old' = old /\ left' = left
  BY DEF ClockRunsOut
<1>2. Turns' /\ Now' = Now /\ Holder' = Holder /\ opLane' \in Seq(Ops) /\ stage' \in [Ops -> Stages]
  BY <1>1, Stays DEF OInv
<1>3. OTyped'
  BY <1>1, <1>2 DEF OInv, OTyped, OpTypeOK, OKeyShape
<1>4. Attempts' /\ Sheets'
  BY <1>1, <1>2 DEF OInv, Attempts, LocalsAreNew, Sheets
<1>5. ASSUME ~left
      PROVE  KeyHeeds'
  <2>1. Clean' = Clean /\ Remembered' = Remembered
    BY <1>1 DEF Clean, Remembered
  <2>2. CASE listens
    <3>1. Lost'
      BY <1>1, <2>2 DEF Lost
    <3>2. QED BY <1>1, <1>2, <1>5, <2>1, <3>1 DEF OInv, KeyHeeds
  <2>3. CASE ~listens
    <3>1. Lost' = Lost /\ Whole' = Whole /\ ~Written /\ ~Refusing /\ ~Asked /\ ~Coming /\ ~GaveUp
      BY <1>1, <1>2, <2>3 DEF Lost, Whole, Written, Refusing, Asked, Coming, GaveUp
    <3>2. QED BY <1>1, <1>2, <1>5, <2>1, <3>1 DEF OInv, KeyHeeds
  <2>4. QED BY <2>2, <2>3 DEF OInv, OTyped, OpTypeOK
<1>6. Told => Told'
  BY <1>1 DEF Told
<1>7. QED BY <1>1, <1>2, <1>3, <1>4, <1>5, <1>6 DEF OInv

(* A report heard: a sentence before the answer, or the next of an answer. *)
LEMMA HeardIs ==
  ASSUME OInv, HearReport
  PROVE  /\ onAir # <<>> /\ Head(onAir) = onAir[1] /\ Head(onAir) \in Message
         /\ onAir' = Tail(onAir) /\ onAir' \in Seq(Message)
         /\ UNCHANGED <<stage, opLane, try, out, took, sheet, okey, old, left>>
         /\ \/ ~listens /\ UNCHANGED <<listens, clock, answer, parts>>
            \/ /\ listens /\ parts = <<>> /\ Head(onAir).kind # "part"
               /\ ~listens' /\ ~clock' /\ answer' = Head(onAir).kind
               /\ UNCHANGED parts
            \/ /\ listens /\ (parts # <<>> \/ Head(onAir).kind = "part")
               /\ parts' = Append(parts, Head(onAir))
               /\ \/ Len(parts') < Size(Holder) /\ UNCHANGED <<listens, clock, answer>>
                  \/ Len(parts') >= Size(Holder) /\ ~listens' /\ ~clock' /\ answer' = "ok"
<1>1. onAir # <<>> /\ onAir' = Tail(onAir) /\ onAir \in Seq(Message)
  BY DEF HearReport, OInv, OTyped
<1>2. Head(onAir) = onAir[1] /\ Head(onAir) \in Message /\ onAir' \in Seq(Message)
  BY <1>1
<1>3. parts' \in Seq(Message) => Len(parts') \in Nat
  OBVIOUS
<1>4. \A s \in Seq(Message), m \in Message : Append(s, m) \in Seq(Message)
  OBVIOUS
<1>5. parts' = Append(parts, Head(onAir)) => Len(parts') \in Nat
  BY <1>2, <1>3, <1>4 DEF OInv, OTyped
<1>6. Size(Holder) \in Nat
  BY DEF Size
<1>7. Len(parts') \in Nat => (Len(parts') < Size(Holder) \/ Len(parts') >= Size(Holder))
  BY <1>6
<1>8. QED BY <1>1, <1>2, <1>5, <1>7 DEF HearReport

(* The first of what is to come.                                           *)
LEMMA ComesNext ==
  ASSUME NEW S, NEW s \in Seq(S), NEW t \in Seq(S), t # <<>>
  PROVE  /\ Append(s, Head(t)) \o Tail(t) = s \o t
         /\ Len(Append(s, Head(t))) = Len(s) + 1
         /\ Len(s \o t) = Len(s) + Len(t)
         /\ t[1] = (s \o t)[Len(s) + 1]
         /\ Len(s) + 1 \in 1 .. Len(s \o t)
         /\ Len(t) = 1 => Tail(t) = <<>>
<1> DEFINE a == Append(s, Head(t))
           b == Tail(t)
<1>1. /\ t[1] \in S /\ Head(t) = t[1] /\ Len(t) \in Nat \ {0} /\ Len(s) \in Nat
      /\ b \in Seq(S) /\ Len(b) = Len(t) - 1 /\ \A i \in 1 .. Len(t) - 1 : b[i] = t[i + 1]
  OBVIOUS
<1>2. /\ a \in Seq(S) /\ Len(a) = Len(s) + 1 /\ a[Len(s) + 1] = t[1]
      /\ \A i \in 1 .. Len(s) : a[i] = s[i]
  BY <1>1
<1> HIDE DEF a, b
<1>3. /\ s \o t \in Seq(S) /\ Len(s \o t) = Len(s) + Len(t)
      /\ \A i \in 1 .. Len(s) + Len(t) : (s \o t)[i] = IF i <= Len(s) THEN s[i] ELSE t[i - Len(s)]
  BY ConcatProperties
<1>4. /\ a \o b \in Seq(S) /\ Len(a \o b) = Len(a) + Len(b)
      /\ \A i \in 1 .. Len(a) + Len(b) : (a \o b)[i] = IF i <= Len(a) THEN a[i] ELSE b[i - Len(a)]
  BY <1>1, <1>2, ConcatProperties
<1>5. Len(a) + Len(b) = Len(s) + Len(t)
  BY <1>1, <1>2
<1>6. \A i \in 1 .. Len(s) + Len(t) : (a \o b)[i] = (s \o t)[i]
  <2>1. TAKE i \in 1 .. Len(s) + Len(t)
  <2>2. CASE i <= Len(s)
    BY <1>1, <1>2, <1>3, <1>4, <1>5, <2>2
  <2>3. CASE i = Len(s) + 1
    BY <1>1, <1>2, <1>3, <1>4, <1>5, <2>3
  <2>4. CASE i > Len(s) + 1
    <3>1. i - Len(a) \in 1 .. Len(t) - 1 /\ i - Len(a) + 1 = i - Len(s)
      BY <1>1, <1>2, <2>4
    <3>2. (a \o b)[i] = b[i - Len(a)] /\ (s \o t)[i] = t[i - Len(s)]
      BY <1>1, <1>2, <1>3, <1>4, <1>5, <2>4
    <3>3. QED BY <1>1, <3>1, <3>2
  <2>5. i \in Nat /\ Len(s) \in Nat
    BY <1>1
  <2>6. i <= Len(s) \/ i = Len(s) + 1 \/ i > Len(s) + 1
    BY <2>5
  <2>7. QED BY <2>2, <2>3, <2>4, <2>6, Zenon
<1>7. a \o b = s \o t
  BY <1>3, <1>4, <1>5, <1>6, SeqEqual
<1>8. t[1] = (s \o t)[Len(s) + 1] /\ Len(s) + 1 \in 1 .. Len(s \o t)
  BY <1>1, <1>3
<1>9. Len(t) = 1 => b = <<>>
  <2>1. b # <<>> => Len(b) \in Nat \ {0}
    BY <1>1, EmptySeq, Zenon
  <2>2. QED BY <1>1, <2>1
<1>10. QED BY <1>2, <1>3, <1>7, <1>8, <1>9 DEF a, b

(* A report comes in. Until something is left behind it is the key's       *)
(* sentence, or the next part of the answer to this attempt.               *)
LEMMA HearReportHolds ==
  ASSUME OInv, HearReport
  PROVE  OInv'
<1> DEFINE r == Head(onAir)
<1>1. /\ onAir # <<>> /\ r = onAir[1] /\ r \in Message /\ onAir' = Tail(onAir) /\ onAir' \in Seq(Message)
      /\ stage' = stage /\ opLane' = opLane /\ try' = try /\ out' = out
      /\ took' = took /\ sheet' = sheet /\ okey' = okey /\ old' = old /\ left' = left
  BY HeardIs
<1>2. \/ ~listens /\ UNCHANGED <<listens, clock, answer, parts>>
      \/ /\ listens /\ parts = <<>> /\ r.kind # "part"
         /\ ~listens' /\ ~clock' /\ answer' = r.kind
         /\ UNCHANGED parts
      \/ /\ listens /\ (parts # <<>> \/ r.kind = "part")
         /\ parts' = Append(parts, r)
         /\ \/ Len(parts') < Size(Holder) /\ UNCHANGED <<listens, clock, answer>>
            \/ Len(parts') >= Size(Holder) /\ ~listens' /\ ~clock' /\ answer' = "ok"
  BY HeardIs, Zenon
<1> HIDE DEF r
<1>3. Turns' /\ Now' = Now /\ Holder' = Holder /\ opLane' \in Seq(Ops) /\ stage' \in [Ops -> Stages]
  BY <1>1, Stays DEF OInv
<1>4. listens => clock /\ answer = "pending"
  BY DEF OInv, OTyped, OpTypeOK
<1>5. parts' \in Seq(Message)
  <2>1. parts' = parts \/ parts' = Append(parts, r)
    BY <1>2
  <2>2. \A s \in Seq(Message), m \in Message : Append(s, m) \in Seq(Message)
    OBVIOUS
  <2>3. parts \in Seq(Message)
    BY DEF OInv, OTyped
  <2>4. QED BY <1>1, <2>1, <2>2, <2>3, Zenon
<1>6. /\ listens' => clock' /\ answer' = "pending"
      /\ answer' \in {"pending", "ok", "locked", "timeout", "noResponse"}
  BY <1>1, <1>2, <1>4, MessageIs DEF OInv, OTyped, OpTypeOK
<1>7. OTyped'
  BY <1>1, <1>3, <1>5, <1>6 DEF OInv, OTyped, OpTypeOK, OKeyShape
<1>8. Attempts' /\ Sheets'
  BY <1>1, <1>2, <1>3 DEF OInv, Attempts, LocalsAreNew, Sheets
<1>9. Told => Told'
  BY <1>1 DEF Told
<1>10. ASSUME ~left
       PROVE  KeyHeeds'
  <2>1. Clean' = Clean /\ Remembered' = Remembered /\ okey'.deaf = okey.deaf
    BY <1>1 DEF Clean, Remembered
  <2>2. Now = "none" \/ Now = "settling" => FALSE
    <3>1. SUFFICES ASSUME Now = "none" \/ Now = "settling" PROVE FALSE
      OBVIOUS
    <3>2. QED BY <1>1, <1>10, <3>1 DEF OInv, KeyHeeds
  <2>3. Lost => Lost'
    BY <1>1, <1>2 DEF Lost
  <2>4. Whole => FALSE
    BY <1>1 DEF Whole
  <2>5. Written \/ Asked => FALSE
    BY <1>1 DEF Written, Asked
  <2>6. Refusing => Lost'
    BY <1>1, <1>2, SentencesAre DEF Refusing, Lost
  <2>7. GaveUp => Lost'
    <3>1. \A m : onAir = <<m>> => r = m
      BY <1>1
    <3>2. GaveUp => r = Sentence("timeout") /\ listens /\ parts = <<>>
      BY <3>1 DEF GaveUp
    <3>3. QED BY <1>2, <3>2, SentencesAre DEF Lost
  <2>8. ASSUME Coming, Now # "none"
        PROVE  Coming' \/ Whole'
    <3>1. Holder \in Ops /\ try \in {1, 2}
      BY <2>8, HolderIs DEF Now, OInv, OTyped, OpTypeOK
    <3> DEFINE p == Parts(Request(Holder, try), Holder)
    <3>2. /\ p \in Seq(Message) /\ Len(p) = Size(Holder)
          /\ \A i \in 1 .. Size(Holder) : p[i].kind = "part"
          /\ Size(Holder) \in {1, 2}
      BY <3>1, RequestIs, PartsAre
    <3>3. /\ parts \o onAir = p /\ listens /\ Len(parts) < Size(Holder)
          /\ okey.state = "idle" /\ okey.got = <<>>
      BY <2>8 DEF Coming
    <3>4. p' = p
      BY <1>1, <1>3 DEF Parts, Request
    <3>5. Size(Holder') = Size(Holder)
      BY <1>3
    <3> HIDE DEF p
    <3>6. parts \in Seq(Message) /\ onAir \in Seq(Message)
      BY DEF OInv, OTyped
    <3>7. /\ Append(parts, r) \o onAir' = parts \o onAir /\ Len(Append(parts, r)) = Len(parts) + 1
          /\ Len(parts \o onAir) = Len(parts) + Len(onAir)
          /\ r = (parts \o onAir)[Len(parts) + 1] /\ Len(parts) + 1 \in 1 .. Len(parts \o onAir)
          /\ Len(onAir) = 1 => onAir' = <<>>
      <4>1. r = Head(onAir)
        BY DEF r
      <4>2. \A s, t \in Seq(Message) : t # <<>> =>
              /\ Append(s, Head(t)) \o Tail(t) = s \o t
              /\ Len(Append(s, Head(t))) = Len(s) + 1
              /\ Len(s \o t) = Len(s) + Len(t)
              /\ t[1] = (s \o t)[Len(s) + 1]
              /\ Len(s) + 1 \in 1 .. Len(s \o t)
              /\ Len(t) = 1 => Tail(t) = <<>>
        BY ComesNext
      <4>3. QED BY <1>1, <3>6, <4>1, <4>2, Zenon
    <3>8. r.kind = "part"
      BY <3>2, <3>3, <3>7
    <3>9. /\ parts' = Append(parts, r)
          /\ \/ Len(parts') < Size(Holder) /\ UNCHANGED <<listens, clock, answer>>
             \/ Len(parts') >= Size(Holder) /\ ~listens' /\ ~clock' /\ answer' = "ok"
      BY <1>2, <3>3, <3>8
    <3>10. CASE Len(parts') < Size(Holder) /\ UNCHANGED <<listens, clock, answer>>
      <4>1. parts' \o onAir' = p'
        BY <3>3, <3>4, <3>7, <3>9, Zenon
      <4>2. listens' /\ okey'.state = "idle" /\ okey'.got = <<>>
        BY <1>1, <3>3, <3>10
      <4>3. Coming'
        BY <3>5, <3>10, <4>1, <4>2 DEF Coming, p
      <4>4. QED BY <4>3
    <3>11. CASE Len(parts') >= Size(Holder) /\ ~listens' /\ ~clock' /\ answer' = "ok"
      <4>1. Len(onAir) = 1
        <5>1. Len(parts) + Len(onAir) = Size(Holder) /\ Len(parts) + 1 >= Size(Holder)
          BY <3>2, <3>3, <3>7, <3>9, <3>11, Zenon
        <5>2. Len(parts) \in Nat /\ Len(onAir) \in Nat
          BY <3>6, LenProperties
        <5>3. Len(parts) < Size(Holder) /\ Size(Holder) \in Nat
          BY <3>2, <3>3
        <5>4. \A k, m, n \in Nat : k + m = n /\ k + 1 >= n /\ k < n => m = 1
          OBVIOUS
        <5>5. QED BY <5>1, <5>2, <5>3, <5>4, Zenon
      <4>2. onAir' = <<>> /\ parts' = p
        BY <1>1, <1>5, <3>3, <3>7, <3>9, <4>1
      <4>3. ~listens' /\ answer' = "ok" /\ okey'.state = "idle" /\ okey'.got = <<>>
        BY <1>1, <3>3, <3>11
      <4>4. parts' = p'
        BY <3>4, <4>2
      <4>5. Whole'
        BY <4>2, <4>3, <4>4 DEF Whole, p
      <4>6. QED BY <4>5
    <3>12. QED BY <3>9, <3>10, <3>11
  <2>9. QED BY <1>1, <1>3, <1>10, <2>1, <2>2, <2>3, <2>4, <2>5, <2>6, <2>7, <2>8 DEF OInv, KeyHeeds
<1>11. QED BY <1>1, <1>3, <1>7, <1>8, <1>9, <1>10 DEF OInv

-----------------------------------------------------------------------------
(* A packet.                                                               *)

(* What the key does with a packet: it says it is locked, or holds it.     *)
LEMMA KeyHoldsIs ==
  ASSUME OInv, NEW packet \in Packet, NEW final, KeyHolds(packet, final)
  PROVE  \/ /\ okey.state # "idle" /\ okey' = okey /\ onAir' = Append(onAir, Sentence("locked"))
         \/ /\ okey.state = "idle" /\ onAir' = onAir
            /\ OKeyShape' /\ okey'.got = Append(okey.got, packet) /\ okey'.timers = okey.timers
            /\ okey'.state = (IF final THEN "asked" ELSE "idle")
            /\ okey'.deaf = (final /\ old /\ okey.timers # "off")
<1>1. CASE okey.state # "idle"
  BY <1>1 DEF KeyHolds
<1>2. CASE okey.state = "idle"
  <2> DEFINE g == Append(okey.got, packet)
             a == IF final THEN "asked" ELSE okey.state
             d == final /\ old /\ okey.timers # "off"
  <2>1. okey' = [okey EXCEPT !.got = g, !.state = a, !.deaf = d] /\ onAir' = onAir
    BY <1>2 DEF KeyHolds
  <2>2. okey = [state |-> okey.state, got |-> okey.got, timers |-> okey.timers, deaf |-> okey.deaf]
    BY DEF OInv, OTyped, OKeyShape
  <2> HIDE DEF g, a, d
  <2>3. okey' = [state |-> a, got |-> g, timers |-> okey.timers, deaf |-> d]
    BY <2>1, <2>2
  <2>4. okey'.state = a /\ okey'.got = g /\ okey'.timers = okey.timers /\ okey'.deaf = d /\ OKeyShape'
    BY <2>3 DEF OKeyShape
  <2>5. a = IF final THEN "asked" ELSE "idle"
    BY <1>2 DEF a
  <2>6. QED BY <1>2, <2>1, <2>4, <2>5, Zenon DEF g, d
<1>3. QED BY <1>1, <1>2

(* A packet goes out: the key holds this attempt's packets in order, or,   *)
(* still to be wiped at the first, says it is locked.                      *)
LEMMA SendPacketHolds ==
  ASSUME OInv, SendPacket
  PROVE  OInv'
<1> DEFINE packet == <<Holder, try, out + 1>>
<1>1. At("sending") /\ out' = out + 1 /\ KeyHolds(packet, out' = Packets)
  BY DEF SendPacket
<1>2. /\ IF out' < Packets THEN UNCHANGED <<stage, sheet>>
         ELSE /\ Goes(IF Confirms(Holder) THEN "confirming" ELSE "waiting")
              /\ sheet' = sheet + (IF Holder \in PaidOps THEN 0 ELSE 1)
      /\ opLane' = opLane /\ try' = try /\ listens' = listens /\ clock' = clock /\ answer' = answer
      /\ parts' = parts /\ took' = took /\ old' = old /\ left' = left
  BY DEF SendPacket
<1>3. /\ opLane # <<>> /\ Holder \in Ops /\ Now = "sending" /\ out < Packets /\ out \in Nat
      /\ try \in {1, 2} /\ sheet = 0 /\ Packets \in Nat
  BY <1>1, AtIs, OpAssumption DEF OInv, Attempts, Sheets, OTyped, OpTypeOK
<1>4. packet \in Packet
  BY <1>3, SentGrows
<1>5. out' \in 0 .. Packets /\ (out' < Packets \/ out' = Packets) /\ ~(out' < Packets /\ out' = Packets)
  BY <1>1, <1>3
<1> DEFINE final == out' = Packets
<1>6. \/ /\ okey.state # "idle" /\ okey' = okey /\ onAir' = Append(onAir, Sentence("locked"))
      \/ /\ okey.state = "idle" /\ onAir' = onAir
         /\ OKeyShape' /\ okey'.got = Append(okey.got, packet) /\ okey'.timers = okey.timers
         /\ okey'.state = (IF final THEN "asked" ELSE "idle")
         /\ okey'.deaf = (final /\ old /\ okey.timers # "off")
  BY <1>1, <1>4, KeyHoldsIs, Zenon
<1> HIDE DEF packet
<1>7. /\ Turns' /\ Holder' = Holder /\ opLane' \in Seq(Ops) /\ stage' \in [Ops -> Stages]
      /\ \A o \in Ops : stage'[o] = stage[o] \/ stage'[o] \in {"confirming", "waiting"}
      /\ ~final => Now' = "sending" /\ sheet' = 0
      /\ final => /\ Now' \in {"confirming", "waiting"}
                  /\ sheet' = IF Holder \in PaidOps THEN 0 ELSE 1
  <2>1. CASE ~final
    <3>1. stage' = stage /\ sheet' = sheet /\ opLane' = opLane
      BY <1>2, <1>5, <2>1
    <3>2. Turns' /\ Now' = Now /\ Holder' = Holder /\ opLane' \in Seq(Ops) /\ stage' \in [Ops -> Stages]
      BY <3>1, Stays DEF OInv
    <3>3. QED BY <1>3, <2>1, <3>1, <3>2
  <2>2. CASE final
    <3>1. PICK where \in {"confirming", "waiting"} : Goes(where)
      BY <1>2, <1>5, <2>2
    <3>2. /\ Turns' /\ Now' = where /\ Holder' = Holder /\ opLane' \in Seq(Ops)
          /\ stage' \in [Ops -> Stages]
          /\ \A o \in Ops \ {Holder} : stage'[o] = stage[o]
          /\ Holder \in Ops /\ stage'[Holder] = where
      BY <1>2, <1>3, <3>1, Moves DEF OInv, Turn
    <3>3. sheet' = IF Holder \in PaidOps THEN 0 ELSE 1
      BY <1>2, <1>3, <1>5, <2>2
    <3>4. QED BY <2>2, <3>1, <3>2, <3>3
  <2>3. QED BY <2>1, <2>2
<1>8. onAir' \in Seq(Message)
  <2>1. \A s \in Seq(Message), m \in Message : Append(s, m) \in Seq(Message)
    OBVIOUS
  <2>2. onAir \in Seq(Message)
    BY DEF OInv, OTyped
  <2>3. onAir' = onAir \/ onAir' = Append(onAir, Sentence("locked"))
    BY <1>6
  <2>4. QED BY <2>1, <2>2, <2>3, SentencesAre, Zenon
<1>9. /\ okey'.got \in Seq(Packet) /\ okey'.deaf \in BOOLEAN /\ OKeyShape'
      /\ okey'.state \in {"idle", "asked", "gaveUp"} /\ okey'.timers \in {"off", "known", "unknown"}
  <2>1. \A s \in Seq(Packet), m \in Packet : Append(s, m) \in Seq(Packet)
    OBVIOUS
  <2>2. CASE okey' = okey
    BY <2>2 DEF OInv, OTyped, OpTypeOK, OKeyShape
  <2>3. CASE /\ okey.state = "idle" /\ OKeyShape'
             /\ okey'.got = Append(okey.got, packet) /\ okey'.timers = okey.timers
             /\ okey'.state = (IF final THEN "asked" ELSE "idle")
             /\ okey'.deaf = (final /\ old /\ okey.timers # "off")
    <3>1. okey'.got \in Seq(Packet)
      BY <1>4, <2>1, <2>3, Zenon DEF OInv, OTyped
    <3>2. okey'.deaf \in BOOLEAN
      BY <2>3, Zenon
    <3>3. QED BY <2>3, <3>1, <3>2 DEF OInv, OTyped, OpTypeOK
  <2>4. QED BY <1>6, <2>2, <2>3
<1>10. OTyped'
  BY <1>2, <1>5, <1>7, <1>8, <1>9 DEF OInv, OTyped, OpTypeOK
<1>11. Attempts' /\ Sheets'
  BY <1>2, <1>3, <1>5, <1>7 DEF Attempts, Sheets
<1>12. Told => Told'
  BY <1>2, <1>7 DEF Told
<1>13. ASSUME ~left
       PROVE  KeyHeeds'
  <2>1. /\ ~okey.deaf /\ okey.state \in {"idle", "gaveUp"} /\ (old => okey.timers = "off")
        /\ (try = 2 => okey.state = "idle")
        /\ (Written \/ Lost \/ Refusing)
    BY <1>3, <1>13 DEF OInv, KeyHeeds, OTyped, OpTypeOK
  <2>2. /\ ~okey'.deaf /\ okey'.timers = okey.timers
        /\ (~final => okey'.state \in {"idle", "gaveUp"} /\ (try = 2 => okey'.state = "idle"))
    <3>1. ~(final /\ old /\ okey.timers # "off")
      BY <2>1
    <3>2. ~okey'.deaf
      BY <1>6, <2>1, <3>1, Zenon
    <3>3. okey'.timers = okey.timers
      BY <1>6
    <3>4. QED BY <1>6, <2>1, <3>2, <3>3
  <2>3. Lost => Lost'
    BY <1>2 DEF Lost
  <2>4. Refusing => Refusing'
    <3>1. \A s \in Seq(Message), m \in Message : s # <<>> => Append(s, m) # <<>> /\ Append(s, m)[1] = s[1]
      OBVIOUS
    <3>2. onAir # <<>> => onAir' # <<>> /\ onAir'[1] = onAir[1]
      BY <1>6, <3>1, SentencesAre DEF OInv, OTyped
    <3>3. QED BY <1>2, <3>2 DEF Refusing
  <2>5. Written => IF final THEN Refusing' \/ Asked' ELSE Refusing' \/ Written'
    <3>1. HAVE Written
    <3>2. CASE okey.state # "idle"
      <4>1. okey.state = "gaveUp" /\ out = 0 /\ try = 1 /\ onAir = <<>> /\ parts = <<>> /\ listens
        BY <3>1, <3>2 DEF Written
      <4>2. onAir' = Append(<<>>, Sentence("locked"))
        BY <1>6, <3>2, <4>1
      <4>3. \A m : Append(<<>>, m) # <<>> /\ Append(<<>>, m)[1] = m
        OBVIOUS
      <4>4. Refusing'
        BY <1>2, <4>1, <4>2, <4>3 DEF Refusing
      <4>5. QED BY <4>4
    <3>3. CASE okey.state = "idle"
      <4>1. /\ okey'.got = Append(Sent(Holder, try, out), packet)
            /\ onAir' = <<>> /\ parts' = <<>> /\ listens'
            /\ okey'.state = (IF final THEN "asked" ELSE "idle")
        BY <1>2, <1>6, <3>1, <3>3 DEF Written
      <4>2. okey'.got = Sent(Holder, try, out + 1)
        BY <1>3, <4>1, SentGrows DEF packet
      <4>3. CASE final
        <5>1. Sent(Holder, try, out + 1) = Request(Holder, try)
          BY <1>1, <1>3, <4>3, RequestIs
        <5>2. Request(Holder, try)' = Request(Holder, try)
          BY <1>2, <1>7 DEF Request
        <5>3. Asked'
          BY <4>1, <4>2, <4>3, <5>1, <5>2 DEF Asked
        <5>4. QED BY <4>3, <5>3
      <4>4. CASE ~final
        <5>1. Sent(Holder, try, out)' = Sent(Holder, try, out + 1)
          BY <1>1, <1>2, <1>7 DEF Sent
        <5>2. Written'
          BY <4>1, <4>2, <4>4, <5>1 DEF Written
        <5>3. QED BY <4>4, <5>2
      <4>5. QED BY <4>3, <4>4
    <3>4. QED BY <3>2, <3>3
  <2>6. CASE final
    BY <1>7, <2>1, <2>2, <2>3, <2>4, <2>5, <2>6 DEF KeyHeeds
  <2>7. CASE ~final
    <3>1. Now' = "sending" /\ (Written' \/ Lost' \/ Refusing')
      BY <1>7, <2>1, <2>3, <2>4, <2>5, <2>7
    <3>2. okey'.state # "asked" /\ (old' => okey'.timers = "off") /\ (try' = 2 => okey'.state = "idle")
      BY <1>2, <2>1, <2>2, <2>7
    <3>3. QED BY <2>2, <3>1, <3>2 DEF KeyHeeds
  <2>8. QED BY <2>6, <2>7
<1>14. QED BY <1>2, <1>7, <1>10, <1>11, <1>12, <1>13 DEF OInv

-----------------------------------------------------------------------------
(* The key's own steps.                                                    *)

(* A step of the key, its types and what the attempt may then look like,   *)
(* keeps the invariant.                                                    *)
LEMMA KeyStep ==
  ASSUME OInv, NEW what, NEW says \in Seq(Message), KeyDoes(what, says),
         what = [state |-> what.state, got |-> what.got, timers |-> what.timers, deaf |-> what.deaf],
         what.state \in {"idle", "asked", "gaveUp"}, what.timers \in {"off", "known", "unknown"},
         what.deaf \in BOOLEAN, what.got \in Seq(Packet),
         ~left => KeyHeeds'
  PROVE  OInv'
<1>1. /\ okey' = what /\ onAir' = onAir \o says
      /\ stage' = stage /\ opLane' = opLane /\ try' = try /\ out' = out /\ listens' = listens
      /\ clock' = clock /\ answer' = answer /\ parts' = parts /\ took' = took /\ sheet' = sheet
      /\ old' = old /\ left' = left
  BY DEF KeyDoes
<1>2. Turns' /\ Now' = Now /\ Holder' = Holder /\ opLane' \in Seq(Ops) /\ stage' \in [Ops -> Stages]
  BY <1>1, Stays DEF OInv
<1>3. onAir' \in Seq(Message)
  BY <1>1, ConcatProperties DEF OInv, OTyped
<1>4. OTyped'
  BY <1>1, <1>2, <1>3 DEF OInv, OTyped, OpTypeOK, OKeyShape
<1>5. Attempts' /\ Sheets'
  BY <1>1, <1>2 DEF OInv, Attempts, LocalsAreNew, Sheets
<1>6. Told => Told'
  BY <1>1 DEF Told
<1>7. QED BY <1>1, <1>2, <1>4, <1>5, <1>6 DEF OInv

(* What the host has heard or will hear is not taken back.                 *)
LEMMA AirStays ==
  ASSUME OInv, NEW what, NEW says \in Seq(Message), KeyDoes(what, says)
  PROVE  /\ Lost => Lost'
         /\ Refusing => Refusing'
         /\ Now' = Now /\ Holder' = Holder
         /\ says = <<>> => onAir' = onAir
         /\ onAir = <<>> => onAir' = says
<1>1. /\ onAir' = onAir \o says
      /\ stage' = stage /\ opLane' = opLane /\ try' = try /\ listens' = listens
      /\ answer' = answer /\ parts' = parts
  BY DEF KeyDoes
<1>2. Lost => Lost'
  BY <1>1 DEF Lost
<1>3. onAir \in Seq(Message)
  BY DEF OInv, OTyped
<1>4. \A s, t \in Seq(Message) : s # <<>> => s \o t # <<>> /\ (s \o t)[1] = s[1]
  OBVIOUS
<1>5. onAir # <<>> => onAir' # <<>> /\ onAir'[1] = onAir[1]
  BY <1>1, <1>3, <1>4, Zenon
<1>6. Refusing => Refusing'
  BY <1>1, <1>5 DEF Refusing
<1>7. \A s \in Seq(Message) : s \o <<>> = s /\ <<>> \o s = s
  OBVIOUS
<1>8. QED BY <1>1, <1>2, <1>3, <1>6, <1>7 DEF Now, Holder

(* The key answers: until something was left behind, the request it holds  *)
(* is the attempt's, whole.                                                *)
LEMMA KeyAnswersHolds ==
  ASSUME OInv, KeyAnswers
  PROVE  OInv'
<1> DEFINE who == okey.got[Len(okey.got)][1]
           says == Parts(okey.got, who)
           what == [okey EXCEPT !.state = "idle", !.got = <<>>, !.timers = "unknown"]
<1>1. okey.state = "asked" /\ ~okey.deaf /\ KeyDoes(what, says)
  BY DEF KeyAnswers
<1>2. okey.got \in Seq(Packet) /\ says \in Seq(Message) /\ okey.deaf \in BOOLEAN
  BY PartsAre DEF OInv, OTyped
<1>3. what = [state |-> "idle", got |-> <<>>, timers |-> "unknown", deaf |-> okey.deaf]
  <2>1. okey = [state |-> okey.state, got |-> okey.got, timers |-> okey.timers, deaf |-> okey.deaf]
    BY DEF OInv, OTyped, OKeyShape
  <2>2. what = [okey EXCEPT !.state = "idle", !.got = <<>>, !.timers = "unknown"]
    OBVIOUS
  <2> HIDE DEF what
  <2>3. QED BY <2>1, <2>2
<1>4. /\ what.state = "idle" /\ what.got = <<>> /\ what.timers = "unknown" /\ what.deaf = okey.deaf
  BY <1>3
<1>5. /\ what = [state |-> what.state, got |-> what.got, timers |-> what.timers, deaf |-> what.deaf]
  BY <1>3, <1>4
<1>6. ASSUME NEW h \in Ops, NEW n \in {1, 2}, okey.got = Request(h, n)
      PROVE  says = Parts(Request(h, n), h)
  <2>1. okey.got[Len(okey.got)] = <<h, n, Packets>>
    BY <1>6, RequestIs
  <2>2. who = h
    BY <2>1
  <2> HIDE DEF who
  <2>3. QED BY <1>6, <2>2
<1> HIDE DEF what, says
<1>7. ASSUME ~left
      PROVE  KeyHeeds'
  <2>1. /\ ~okey.deaf
        /\ Now \in {"confirming", "waiting"} => Lost \/ Refusing \/ Asked \/ Coming \/ Whole \/ GaveUp
        /\ Now \notin {"none", "settling", "sending", "resting"}
    BY <1>1, <1>7 DEF OInv, KeyHeeds, Clean
  <2>2. ~Coming /\ ~Whole /\ ~GaveUp
    BY <1>1 DEF Coming, Whole, GaveUp
  <2>3. /\ Lost => Lost'
        /\ Refusing => Refusing'
        /\ Now' = Now /\ Holder' = Holder
        /\ onAir = <<>> => onAir' = says
    BY <1>1, <1>2, AirStays
  <2>4. okey'.state = "idle" /\ okey'.got = <<>> /\ okey'.deaf = okey.deaf
        /\ try' = try /\ listens' = listens /\ parts' = parts
    BY <1>1, <1>4 DEF KeyDoes
  <2>5. ASSUME Asked, Now # "none"
        PROVE  Coming'
    <3>1. Holder \in Ops /\ try \in {1, 2}
      BY <2>5, HolderIs DEF Now, OInv, OTyped, OpTypeOK
    <3>2. says = Parts(Request(Holder, try), Holder) /\ onAir' = says /\ parts = <<>> /\ listens
      BY <1>6, <2>3, <2>5, <3>1 DEF Asked
    <3>3. \A s \in Seq(Message) : <<>> \o s = s
      OBVIOUS
    <3>4. parts' \o onAir' = Parts(Request(Holder, try), Holder)
      BY <1>2, <2>4, <3>2, <3>3
    <3>5. Parts(Request(Holder, try), Holder)' = Parts(Request(Holder, try), Holder)
      BY <2>3, <2>4 DEF Parts, Request
    <3>6. Len(<<>>) = 0 /\ 0 < Size(Holder) /\ Size(Holder') = Size(Holder)
      BY <2>3 DEF Size
    <3>7. Len(parts') < Size(Holder')
      BY <2>4, <3>2, <3>6
    <3>8. QED BY <2>4, <3>2, <3>4, <3>5, <3>7 DEF Coming
  <2>6. QED BY <2>1, <2>2, <2>3, <2>4, <2>5 DEF KeyHeeds
<1>8. <<>> \in Seq(Packet)
  OBVIOUS
<1>9. QED BY <1>1, <1>2, <1>4, <1>5, <1>7, <1>8, KeyStep

(* The key gives up on a press: it says so, and holds nothing.             *)
LEMMA KeyGivesUpHolds ==
  ASSUME OInv, KeyGivesUp
  PROVE  OInv'
<1> DEFINE says == <<Sentence("timeout")>>
           what == [okey EXCEPT !.state = "gaveUp", !.got = <<>>]
<1>1. okey.state = "asked" /\ ~okey.deaf /\ KeyDoes(what, says)
  BY DEF KeyGivesUp
<1>2. says \in Seq(Message) /\ okey.deaf \in BOOLEAN /\ okey.timers \in {"off", "known", "unknown"}
  BY SentencesAre DEF OInv, OTyped, OpTypeOK
<1>3. what = [state |-> "gaveUp", got |-> <<>>, timers |-> okey.timers, deaf |-> okey.deaf]
  <2>1. okey = [state |-> okey.state, got |-> okey.got, timers |-> okey.timers, deaf |-> okey.deaf]
    BY DEF OInv, OTyped, OKeyShape
  <2>2. what = [okey EXCEPT !.state = "gaveUp", !.got = <<>>]
    OBVIOUS
  <2> HIDE DEF what
  <2>3. QED BY <2>1, <2>2
<1>4. /\ what.state = "gaveUp" /\ what.got = <<>> /\ what.timers = okey.timers /\ what.deaf = okey.deaf
  BY <1>3
<1>5. /\ what = [state |-> what.state, got |-> what.got, timers |-> what.timers, deaf |-> what.deaf]
  BY <1>3, <1>4
<1> HIDE DEF what
<1>6. ASSUME ~left
      PROVE  KeyHeeds'
  <2>1. /\ ~okey.deaf
        /\ Now \in {"confirming", "waiting"} => Lost \/ Refusing \/ Asked \/ Coming \/ Whole \/ GaveUp
        /\ Now \notin {"none", "settling", "sending", "resting"}
    BY <1>1, <1>6 DEF OInv, KeyHeeds, Clean
  <2>2. ~Coming /\ ~Whole /\ ~GaveUp
    BY <1>1 DEF Coming, Whole, GaveUp
  <2>3. /\ Lost => Lost'
        /\ Refusing => Refusing'
        /\ Now' = Now /\ Holder' = Holder
        /\ onAir = <<>> => onAir' = says
    BY <1>1, <1>2, AirStays
  <2>4. okey'.state = "gaveUp" /\ okey'.got = <<>> /\ okey'.deaf = okey.deaf
        /\ listens' = listens /\ parts' = parts
    BY <1>1, <1>4 DEF KeyDoes
  <2>5. Asked => GaveUp'
    BY <2>3, <2>4 DEF Asked, GaveUp
  <2>6. QED BY <2>1, <2>2, <2>3, <2>4, <2>5 DEF KeyHeeds
<1>7. <<>> \in Seq(Packet)
  OBVIOUS
<1> HIDE DEF says
<1>8. QED BY <1>1, <1>2, <1>4, <1>5, <1>6, <1>7, KeyStep

(* A step of the key that says nothing, with no request in its hands that  *)
(* anyone still waits for.                                                 *)
LEMMA KeyQuietlyHolds ==
  ASSUME OInv, NEW what, KeyDoes(what, <<>>),
         what = [state |-> what.state, got |-> what.got, timers |-> what.timers, deaf |-> what.deaf],
         what.state \in {"idle", "asked", "gaveUp"}, what.timers \in {"off", okey.timers},
         what.deaf \in BOOLEAN, what.got \in Seq(Packet),
         ~left => /\ ~what.deaf
                  /\ what.state = okey.state \/ (what.state = "idle" /\ okey.state = "gaveUp")
                  /\ what.got = okey.got \/ (what.got = <<>> /\ okey.state = "idle" /\ Now # "sending")
  PROVE  OInv'
<1>1. <<>> \in Seq(Message)
  OBVIOUS
<1>2. /\ Lost => Lost'
      /\ Refusing => Refusing'
      /\ Now' = Now /\ Holder' = Holder /\ onAir' = onAir
  BY <1>1, AirStays
<1>3. /\ okey' = what /\ out' = out /\ old' = old
      /\ try' = try /\ listens' = listens /\ parts' = parts /\ answer' = answer /\ left' = left
  BY DEF KeyDoes
<1>4. ASSUME ~left
      PROVE  KeyHeeds'
  <2>1. /\ ~okey'.deaf
        /\ okey'.state = okey.state \/ (okey'.state = "idle" /\ okey.state = "gaveUp")
        /\ okey'.got = okey.got \/ (okey'.got = <<>> /\ okey.state = "idle" /\ Now # "sending")
        /\ okey'.timers \in {"off", okey.timers}
    BY <1>3, <1>4
  <2>2. KeyHeeds
    BY <1>4 DEF OInv
  <2>3. Clean => Clean'
    BY <2>1 DEF Clean
  <2>4. Remembered => Remembered'
    BY <1>3, <2>1 DEF Remembered
  <2>5. Now = "sending" /\ Written => Written'
    <3>1. Sent(Holder, try, out)' = Sent(Holder, try, out)
      BY <1>2, <1>3 DEF Sent
    <3>2. QED BY <1>2, <1>3, <2>1, <3>1 DEF Written
  <2>6. Now = "settling" /\ Clean /\ Written => Written'
    <3>1. Sent(Holder, try, out)' = Sent(Holder, try, out)
      BY <1>2, <1>3 DEF Sent
    <3>2. QED BY <1>2, <1>3, <2>1, <3>1 DEF Written, Clean
  <2>7. Asked => Asked'
    <3>1. Request(Holder, try)' = Request(Holder, try)
      BY <1>2, <1>3 DEF Request
    <3>2. QED BY <1>2, <1>3, <2>1, <3>1 DEF Asked
  <2>8. (Coming => Coming') /\ (Whole => Whole')
    <3>1. Parts(Request(Holder, try), Holder)' = Parts(Request(Holder, try), Holder)
          /\ Size(Holder)' = Size(Holder)
      BY <1>2, <1>3 DEF Parts, Request, Size
    <3>2. QED BY <1>2, <1>3, <2>1, <3>1 DEF Coming, Whole
  <2>9. GaveUp => GaveUp'
    BY <1>2, <1>3, <2>1 DEF GaveUp
  <2>10. ~okey'.deaf /\ (try' = 2 => try = 2) /\ (okey.state = "idle" => okey'.state = "idle")
         /\ (okey.state # "asked" => okey'.state # "asked") /\ (old' => old)
         /\ (okey.timers = "off" => okey'.timers = "off")
         /\ (okey.timers # "unknown" => okey'.timers # "unknown")
    BY <1>3, <2>1
  <2>11. Now = "none" => Clean' /\ onAir' = <<>> /\ Remembered'
    BY <1>2, <2>2, <2>3, <2>4 DEF KeyHeeds
  <2>12. Now = "settling" =>
           /\ Clean' /\ onAir' = <<>> /\ Remembered'
           /\ try' = 2 => okey'.state = "idle"
           /\ Written' \/ Lost'
    BY <1>2, <2>2, <2>3, <2>4, <2>6, <2>10 DEF KeyHeeds
  <2>13. Now = "sending" =>
           /\ okey'.state # "asked" /\ (old' => okey'.timers = "off")
           /\ try' = 2 => okey'.state = "idle"
           /\ Written' \/ Lost' \/ Refusing'
    BY <1>2, <2>2, <2>5, <2>10 DEF KeyHeeds
  <2>14. Now \in {"confirming", "waiting"} => Lost' \/ Refusing' \/ Asked' \/ Coming' \/ Whole' \/ GaveUp'
    BY <1>2, <2>2, <2>7, <2>8, <2>9 DEF KeyHeeds
  <2>15. Now = "resting" => Clean' /\ okey'.timers # "unknown"
    BY <2>2, <2>3, <2>10 DEF KeyHeeds
  <2>16. QED BY <1>2, <2>10, <2>11, <2>12, <2>13, <2>14, <2>15 DEF KeyHeeds
<1>5. okey.timers \in {"off", "known", "unknown"}
  BY DEF OInv, OTyped, OpTypeOK
<1>6. QED BY <1>1, <1>4, <1>5, KeyStep

(* The wipe ends the key's five seconds of being busy.                     *)
LEMMA KeyWipesHolds ==
  ASSUME OInv, KeyWipes
  PROVE  OInv'
<1> DEFINE what == [okey EXCEPT !.state = "idle"]
<1>1. okey.state = "gaveUp" /\ KeyDoes(what, <<>>)
  BY DEF KeyWipes
<1>2. what = [state |-> "idle", got |-> okey.got, timers |-> okey.timers, deaf |-> okey.deaf]
  <2>1. okey = [state |-> okey.state, got |-> okey.got, timers |-> okey.timers, deaf |-> okey.deaf]
    BY DEF OInv, OTyped, OKeyShape
  <2>2. what = [okey EXCEPT !.state = "idle"]
    OBVIOUS
  <2> HIDE DEF what
  <2>3. QED BY <2>1, <2>2
<1>3. /\ what.state = "idle" /\ what.got = okey.got /\ what.timers = okey.timers /\ what.deaf = okey.deaf
  BY <1>2
<1>4. /\ what = [state |-> what.state, got |-> what.got, timers |-> what.timers, deaf |-> what.deaf]
  BY <1>2, <1>3
<1> HIDE DEF what
<1>5. okey.deaf \in BOOLEAN /\ okey.got \in Seq(Packet) /\ (~left => ~okey.deaf)
  BY DEF OInv, OTyped, KeyHeeds
<1>6. QED BY <1>1, <1>3, <1>4, <1>5, KeyQuietlyHolds

(* Its timers run out; with a window's presses only if it went deaf, which *)
(* it does only when something was left behind.                            *)
LEMMA KeyTimersEndHolds ==
  ASSUME OInv, KeyTimersEnd
  PROVE  OInv'
<1> DEFINE what == IF okey.deaf
                   THEN [okey EXCEPT !.state = "idle", !.got = <<>>, !.timers = "off", !.deaf = FALSE]
                   ELSE [okey EXCEPT !.timers = "off"]
<1>1. KeyDoes(what, <<>>)
  BY DEF KeyTimersEnd
<1>2. okey.deaf \in BOOLEAN /\ okey.got \in Seq(Packet) /\ (~left => ~okey.deaf)
      /\ okey.state \in {"idle", "asked", "gaveUp"}
  BY DEF OInv, OTyped, OpTypeOK, KeyHeeds
<1>3. what = IF okey.deaf THEN [state |-> "idle", got |-> <<>>, timers |-> "off", deaf |-> FALSE]
             ELSE [state |-> okey.state, got |-> okey.got, timers |-> "off", deaf |-> okey.deaf]
  <2>1. okey = [state |-> okey.state, got |-> okey.got, timers |-> okey.timers, deaf |-> okey.deaf]
    BY DEF OInv, OTyped, OKeyShape
  <2>2. /\ okey.deaf =>
             what = [okey EXCEPT !.state = "idle", !.got = <<>>, !.timers = "off", !.deaf = FALSE]
        /\ ~okey.deaf => what = [okey EXCEPT !.timers = "off"]
    BY <1>2
  <2> HIDE DEF what
  <2>3. okey.deaf => what = [state |-> "idle", got |-> <<>>, timers |-> "off", deaf |-> FALSE]
    BY <2>1, <2>2
  <2>4. ~okey.deaf => what = [state |-> okey.state, got |-> okey.got, timers |-> "off", deaf |-> okey.deaf]
    BY <2>1, <2>2
  <2>5. QED BY <1>2, <2>3, <2>4
<1>4. /\ what.timers = "off" /\ what.deaf = FALSE
      /\ what.state = (IF okey.deaf THEN "idle" ELSE okey.state)
      /\ what.got = (IF okey.deaf THEN <<>> ELSE okey.got)
      /\ what = [state |-> what.state, got |-> what.got, timers |-> what.timers, deaf |-> what.deaf]
  BY <1>2, <1>3
<1> HIDE DEF what
<1>5. <<>> \in Seq(Packet)
  OBVIOUS
<1>6. QED BY <1>1, <1>2, <1>4, <1>5, KeyQuietlyHolds

(* It forgets packets only outside a write, where none are held unless     *)
(* they were left.                                                         *)
LEMMA KeyForgetsHolds ==
  ASSUME OInv, KeyForgets
  PROVE  OInv'
<1> DEFINE what == [okey EXCEPT !.got = <<>>]
<1>1. okey.state = "idle" /\ ~At("sending") /\ KeyDoes(what, <<>>)
  BY DEF KeyForgets
<1>2. what = [state |-> okey.state, got |-> <<>>, timers |-> okey.timers, deaf |-> okey.deaf]
  <2>1. okey = [state |-> okey.state, got |-> okey.got, timers |-> okey.timers, deaf |-> okey.deaf]
    BY DEF OInv, OTyped, OKeyShape
  <2>2. what = [okey EXCEPT !.got = <<>>]
    OBVIOUS
  <2> HIDE DEF what
  <2>3. QED BY <2>1, <2>2
<1>3. /\ what.state = okey.state /\ what.got = <<>> /\ what.timers = okey.timers /\ what.deaf = okey.deaf
  BY <1>2
<1>4. /\ what = [state |-> what.state, got |-> what.got, timers |-> what.timers, deaf |-> what.deaf]
  BY <1>2, <1>3
<1> HIDE DEF what
<1>5. okey.deaf \in BOOLEAN /\ <<>> \in Seq(Packet) /\ (~left => ~okey.deaf)
      /\ okey.state \in {"idle", "asked", "gaveUp"} /\ Now # "sending"
  BY <1>1 DEF OInv, OTyped, OpTypeOK, KeyHeeds, At, Now
<1>6. QED BY <1>1, <1>3, <1>4, <1>5, KeyQuietlyHolds

-----------------------------------------------------------------------------
(* The host and the key begin in the invariant.                            *)
LEMMA OperationsAtFirst ==
  ASSUME OpInit
  PROVE  OInv
<1>1. opLane = <<>> /\ Len(opLane) = 0 /\ Now = "none"
  BY DEF OpInit, Now
<1>2. okey.state = "idle" /\ okey.got = <<>> /\ okey.timers = "off" /\ okey.deaf = FALSE /\ OKeyShape
  BY DEF OpInit, OKeyShape
<1>3. \A S : <<>> \in Seq(S)
  OBVIOUS
<1>4. OTyped
  BY <1>2, <1>3, OpAssumption DEF OpInit, OTyped, OpTypeOK, Stages
<1>5. Turns
  BY <1>1 DEF OpInit, Turns, Turn
<1>6. Attempts /\ Sheets
  BY <1>1 DEF OpInit, Attempts, LocalsAreNew, Sheets
<1>7. KeyHeeds /\ Told
  BY <1>1, <1>2 DEF OpInit, KeyHeeds, Told, Clean, Remembered
<1>8. QED BY <1>4, <1>5, <1>6, <1>7 DEF OInv

(* Every step of the host, the air and the key keeps it.                   *)
LEMMA OperationsKept ==
  ASSUME OInv, [OpNext]_opVars
  PROVE  OInv'
<1>1. CASE UNCHANGED opVars
  <2>1. UNCHANGED <<stage, opLane, try, out, listens, clock, answer, parts, took, sheet,
                    okey, onAir, old, left>>
    BY <1>1 DEF opVars
  <2>2. Turns' /\ Now' = Now /\ Holder' = Holder /\ opLane' \in Seq(Ops) /\ stage' \in [Ops -> Stages]
    BY <2>1, Stays DEF OInv
  <2>3. OTyped'
    BY <2>1, <2>2, TypedAgain DEF OInv
  <2>4. Told => Told'
    BY <2>1 DEF Told
  <2>5. QED BY <2>1, <2>2, <2>3, <2>4, SameAttempt DEF OInv
<1>2. CASE \E o \in Ops : NotAllowed(o) \/ CallOp(o)
  BY <1>2, NotAllowedHolds, CallOpHolds
<1>3. CASE HostGoesOn
  BY <1>3, TakeTurnHolds, SettleHolds, SendPacketHolds, ClockRunsOutHolds, HearReportHolds,
     ConfirmReturnsHolds, AnsweredHolds, RefusedHolds, BusyHolds, TryAgainHolds, FileUseHolds
     DEF HostGoesOn
<1>4. CASE WriteRefused \/ ConfirmThrows
  BY <1>4, WriteRefusedHolds, ConfirmThrowsHolds
<1>5. CASE KeyAnswers \/ KeyGivesUp \/ KeyWipes \/ KeyTimersEnd \/ KeyForgets
  BY <1>5, KeyAnswersHolds, KeyGivesUpHolds, KeyWipesHolds, KeyTimersEndHolds, KeyForgetsHolds
<1>6. QED BY <1>1, <1>2, <1>3, <1>4, <1>5 DEF OpNext

(* The inductive invariant holds in every state, for any set of calls,     *)
(* long, paid, asked or announced, and any number of packets.              *)
THEOREM OperationInvariant == OpSpec => []OInv
<1>1. OpInit => OInv
  BY OperationsAtFirst
<1>2. OInv /\ [OpNext]_opVars => OInv'
  BY OperationsKept
<1>3. QED BY <1>1, <1>2, PTL DEF OpSpec

(* Every press said asked is said done, and one at most is asked at a time *)
(* (SheetIsPutAway), by whatever way a call ends: answered, refused, timed *)
(* out, or a confirm() or a write that threw.                              *)
THEOREM PressesArePutAway == OpSpec => []SheetIsPutAway
<1>1. OInv => SheetIsPutAway
  <2>1. HAVE OInv
  <2>2. sheet \in {0, 1} /\ (Now = "none" => sheet = 0)
    BY <2>1 DEF OInv, Sheets
  <2>3. ASSUME \A i \in DOMAIN opLane : stage[opLane[i]] = "queued"
        PROVE  Now = "none"
    <3>1. CASE opLane = <<>>
      BY <3>1 DEF Now
    <3>2. CASE opLane # <<>>
      <4>1. Holder = opLane[1] /\ 1 \in 1 .. Len(opLane) /\ opLane \in Seq(Ops)
        BY <2>1, <3>2, HolderIs DEF OInv, OTyped
      <4>2. 1 \in DOMAIN opLane
        BY <4>1, LenProperties
      <4>3. QED BY <2>3, <4>1, <4>2 DEF Now
    <3>3. QED BY <3>1, <3>2
  <2>4. QED BY <2>2, <2>3 DEF SheetIsPutAway
<1>2. QED BY <1>1, OperationInvariant, PTL

(* Until an attempt ended before the key was done with it, a call resolves *)
(* with the answer to its own request and to nothing else, is never told   *)
(* the key is locked, and old firmware's timers never take its press       *)
(* (AnswersItsRequest).                                                    *)
THEOREM AnswersAreTheirOwn == OpSpec => []AnswersItsRequest
<1>1. OInv => AnswersItsRequest
  BY DEF OInv, OTyped, AnswersItsRequest, KeyHeeds, Told
<1>2. QED BY <1>1, OperationInvariant, PTL

=============================================================================
