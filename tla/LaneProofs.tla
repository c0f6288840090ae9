----------------------------- MODULE LaneProofs -----------------------------
(***************************************************************************)
(* Theorems about Lane: its types, and that one conversation at a time     *)
(* holds whatever the callers and however many of them are urgent.         *)
(***************************************************************************)
EXTENDS Lane, SequenceTheorems, WellFoundedInduction, TLAPS

(* What an insertion leaves where: everything before the place keeps its   *)
(* index, everything from it on moves up by one.                           *)
LEMMA InsertAtElements ==
  ASSUME NEW S, NEW s \in Seq(S), NEW i \in 1 .. Len(s) + 1, NEW e \in S
  PROVE  /\ InsertAt(s, i, e) \in Seq(S)
         /\ Len(InsertAt(s, i, e)) = Len(s) + 1
         /\ \A j \in 1 .. Len(s) + 1 :
              InsertAt(s, i, e)[j] = IF j < i THEN s[j]
                                     ELSE IF j = i THEN e ELSE s[j - 1]
<1> DEFINE front == SubSeq(s, 1, i - 1)
           back == SubSeq(s, i, Len(s))
<1>1. /\ front \in Seq(S)
      /\ Len(front) = i - 1
      /\ \A j \in 1 .. i - 1 : front[j] = s[j]
  <2>1. \A j \in 1 .. i - 1 : s[j] \in S
    BY ElementOfSeq, LenProperties
  <2>2. QED BY <2>1, SubSeqProperties, LenProperties
<1>2. /\ back \in Seq(S)
      /\ Len(back) = Len(s) - i + 1
      /\ \A j \in 1 .. Len(s) - i + 1 : back[j] = s[i + j - 1]
  <2>1. \A j \in i .. Len(s) : s[j] \in S
    BY ElementOfSeq, LenProperties
  <2>2. QED BY <2>1, SubSeqProperties, LenProperties
<1> HIDE DEF front, back
<1>3. /\ front \o <<e>> \in Seq(S)
      /\ Len(front \o <<e>>) = i
      /\ \A j \in 1 .. i : (front \o <<e>>)[j] = IF j < i THEN s[j] ELSE e
  BY <1>1
<1>4. InsertAt(s, i, e) = (front \o <<e>>) \o back
  BY DEF InsertAt, front, back
<1>5. /\ (front \o <<e>>) \o back \in Seq(S)
      /\ Len((front \o <<e>>) \o back) = Len(s) + 1
      /\ \A j \in 1 .. Len(s) + 1 :
           ((front \o <<e>>) \o back)[j] = IF j <= i THEN (front \o <<e>>)[j] ELSE back[j - i]
  BY <1>2, <1>3, ConcatProperties, LenProperties
<1>6. QED
  BY <1>2, <1>3, <1>4, <1>5, LenProperties

(* Every nonempty set of naturals has a least element. *)
LEMMA LeastNatural ==
  ASSUME NEW T, T \subseteq Nat, T # {}
  PROVE  \E m \in T : \A y \in T : m <= y
<1> DEFINE less == {ss \in Nat \X Nat : ss[1] < ss[2]}
<1>1. IsWellFoundedOn(less, Nat)
  BY NatLessThanWellFounded, Zenon DEF OpToRel
<1> HIDE DEF less
<1>2. PICK m \in T : \A y \in T : ~ (<<y, m>> \in less)
  BY <1>1, WFMin, Zenon
<1>3. \A y \in T : y < m => <<y, m>> \in less
  BY DEF less
<1>4. \A y \in T : ~ (y < m)
  BY <1>2, <1>3, Zenon
<1>5. QED BY <1>4

(* There is a place for an urgent item: the urgent ones at the front, up   *)
(* to the first ordinary one.                                              *)
LEMMA UrgentFrontExists ==
  ASSUME NEW s \in Seq(Conv)
  PROVE  /\ UrgentFront(s) \in 0 .. Len(s)
         /\ \A i \in 1 .. UrgentFront(s) : s[i] \in Urgent
         /\ UrgentFront(s) < Len(s) => s[UrgentFront(s) + 1] \notin Urgent
<1> DEFINE Ordinary == {i \in 1 .. Len(s) : s[i] \notin Urgent}
<1>1. \E k \in 0 .. Len(s) :
        /\ \A i \in 1 .. k : s[i] \in Urgent
        /\ k < Len(s) => s[k + 1] \notin Urgent
  <2>1. CASE Ordinary = {}
    BY <2>1, LenProperties
  <2>2. CASE Ordinary # {}
    <3>1. Ordinary \subseteq Nat
      BY LenProperties
    <3>2. PICK m \in Ordinary : \A y \in Ordinary : m <= y
      <4> HIDE DEF Ordinary
      <4>1. QED BY <2>2, <3>1, LeastNatural
    <3>3. WITNESS m - 1 \in 0 .. Len(s)
    <3>4. QED BY <3>2, LenProperties
  <2>3. QED BY <2>1, <2>2
<1>2. QED BY <1>1 DEF UrgentFront

(* What Queue does to the array: c is at one new place, everyone else      *)
(* keeps the order they had, and the place respects the urgent ones.       *)
LEMMA QueuePlaces ==
  ASSUME NEW s \in Seq(Conv), NEW c \in Conv
  PROVE  /\ Queue(s, c) \in Seq(Conv)
         /\ \E p \in 1 .. Len(s) + 1 :
              /\ Len(Queue(s, c)) = Len(s) + 1
              /\ \A j \in 1 .. Len(s) + 1 :
                   Queue(s, c)[j] = IF j < p THEN s[j] ELSE IF j = p THEN c ELSE s[j - 1]
              /\ c \in Urgent => \A j \in 1 .. p - 1 : s[j] \in Urgent
              /\ c \in Urgent /\ p <= Len(s) => s[p] \notin Urgent
              /\ c \notin Urgent => p = Len(s) + 1
<1>1. CASE c \in Urgent
  <2> DEFINE p == UrgentFront(s) + 1
  <2>1. p \in 1 .. Len(s) + 1
    BY UrgentFrontExists, LenProperties
  <2>2. /\ \A j \in 1 .. p - 1 : s[j] \in Urgent
        /\ p <= Len(s) => s[p] \notin Urgent
    BY UrgentFrontExists, LenProperties
  <2> HIDE DEF p
  <2>3. Queue(s, c) = InsertAt(s, p, c)
    BY <1>1 DEF Queue, p
  <2>4. /\ Queue(s, c) \in Seq(Conv)
        /\ Len(Queue(s, c)) = Len(s) + 1
        /\ \A j \in 1 .. Len(s) + 1 :
             Queue(s, c)[j] = IF j < p THEN s[j] ELSE IF j = p THEN c ELSE s[j - 1]
    <3>1. /\ InsertAt(s, p, c) \in Seq(Conv)
          /\ Len(InsertAt(s, p, c)) = Len(s) + 1
          /\ \A j \in 1 .. Len(s) + 1 :
               InsertAt(s, p, c)[j] = IF j < p THEN s[j] ELSE IF j = p THEN c ELSE s[j - 1]
      BY <2>1, InsertAtElements
    <3>2. QED BY <2>3, <3>1, Zenon
  <2>5. QED BY <1>1, <2>1, <2>2, <2>4, Zenon
<1>2. CASE c \notin Urgent
  <2>1. Queue(s, c) = Append(s, c)
    BY <1>2 DEF Queue
  <2>2. Len(s) + 1 \in 1 .. Len(s) + 1
    BY LenProperties
  <2>3. QED BY <1>2, <2>1, <2>2, AppendProperties, LenProperties
<1>3. QED BY <1>1, <1>2

(* The first state of a lane is well typed.                                *)
LEMMA TypesAtFirst == Init => TypeOK
BY EmptySeq DEF Init, TypeOK, Phase

(* A call, a settled promise and a release keep every variable's type:     *)
(* Queue and Tail give sequences of callers.                               *)
LEMMA TypesKept == TypeOK /\ [Next]_vars => TypeOK'
<1> SUFFICES ASSUME TypeOK, [Next]_vars PROVE TypeOK'
  OBVIOUS
<1>1. ASSUME NEW c \in Conv, CallIdle(c) PROVE TypeOK'
  BY <1>1 DEF TypeOK, CallIdle, Phase
<1>2. ASSUME NEW c \in Conv, CallBusy(c) PROVE TypeOK'
  BY <1>2, QueuePlaces DEF TypeOK, CallBusy, Phase
<1>3. ASSUME NEW c \in Conv, Settle(c) PROVE TypeOK'
  BY <1>3 DEF TypeOK, Settle, Phase
<1>4. ASSUME NEW c \in Conv, Release(c) PROVE TypeOK'
  <2>1. CASE waiting = <<>>
    BY <1>4, <2>1 DEF TypeOK, Release, Phase
  <2>2. CASE waiting # <<>>
    <3>1. Head(waiting) \in Conv /\ Tail(waiting) \in Seq(Conv)
      BY <2>2, HeadTailProperties DEF TypeOK
    <3>2. QED BY <1>4, <2>2, <3>1 DEF TypeOK, Release, Phase
  <2>3. QED BY <2>1, <2>2
<1>5. CASE UNCHANGED vars
  BY <1>5 DEF TypeOK, vars
<1>6. QED BY <1>1, <1>2, <1>3, <1>4, <1>5 DEF Next

(* Every variable keeps its type.                                          *)
THEOREM TypeCorrect == Spec => []TypeOK
BY TypesAtFirst, TypesKept, PTL DEF Spec

(* A lane nobody has called keeps its order.                               *)
LEMMA OrderAtFirst == Init => LaneInv
<1> SUFFICES ASSUME Init PROVE LaneInv
  OBVIOUS
<1>1. TypeOK /\ Len(waiting) = 0
  BY EmptySeq DEF Init, TypeOK, Phase
<1>2. \A c \in Conv : phase[c] = "outside"
  BY DEF Init
<1>3. OneConversation /\ RunningIsHeld
  BY <1>2 DEF Init, OneConversation, RunningIsHeld, InLane
<1>4. QueueIsWaiting /\ UrgentFirst
  BY <1>1, <1>2 DEF Init, QueueIsWaiting, UrgentFirst
<1>5. QED BY <1>1, <1>3, <1>4 DEF LaneInv

(* Each step keeps it: an idle lane is started by the one that calls, a    *)
(* busy one inserts a caller that was nowhere in the queue, and a release  *)
(* starts its head.                                                        *)
LEMMA OrderKept == TypeOK /\ LaneInv /\ [Next]_vars => LaneInv'
<1> SUFFICES ASSUME TypeOK, LaneInv, [Next]_vars PROVE LaneInv'
  OBVIOUS
<1> USE DEF InLane
<1>1. ASSUME NEW c \in Conv, CallIdle(c) PROVE LaneInv'
  <2>1. waiting = <<>> /\ waiting' = <<>>
    BY <1>1 DEF CallIdle, LaneInv, QueueIsWaiting
  <2>2. OneConversation' /\ RunningIsHeld'
    BY <1>1 DEF CallIdle, LaneInv, OneConversation, RunningIsHeld, TypeOK
  <2>3. QueueIsWaiting' /\ UrgentFirst'
    BY <1>1, <2>1 DEF CallIdle, LaneInv, QueueIsWaiting, UrgentFirst, TypeOK
  <2>4. QED BY <2>2, <2>3 DEF LaneInv
<1>2. ASSUME NEW c \in Conv, CallBusy(c) PROVE LaneInv'
  <2> DEFINE q == Queue(waiting, c)
  <2>1. waiting' = q /\ waiting \in Seq(Conv)
    BY <1>2 DEF CallBusy, TypeOK
  <2>2. PICK p \in 1 .. Len(waiting) + 1 :
          /\ Len(q) = Len(waiting) + 1
          /\ \A j \in 1 .. Len(waiting) + 1 :
               q[j] = IF j < p THEN waiting[j] ELSE IF j = p THEN c ELSE waiting[j - 1]
          /\ c \in Urgent => \A j \in 1 .. p - 1 : waiting[j] \in Urgent
          /\ c \in Urgent /\ p <= Len(waiting) => waiting[p] \notin Urgent
          /\ c \notin Urgent => p = Len(waiting) + 1
    BY <2>1, QueuePlaces, Zenon
  <2> HIDE DEF q
  <2>3. /\ Len(waiting') = Len(waiting) + 1
        /\ \A j \in 1 .. Len(waiting) + 1 :
             waiting'[j] = IF j < p THEN waiting[j] ELSE IF j = p THEN c ELSE waiting[j - 1]
        /\ c \in Urgent => \A j \in 1 .. p - 1 : waiting[j] \in Urgent
        /\ c \notin Urgent => p = Len(waiting) + 1
    BY <2>1, <2>2
  <2>4. Len(waiting) \in Nat
    BY LenProperties DEF TypeOK
  <2>5. OneConversation' /\ RunningIsHeld'
    BY <1>2 DEF CallBusy, LaneInv, OneConversation, RunningIsHeld, TypeOK
  <2>6. \A i \in 1 .. Len(waiting) : waiting[i] \in Conv /\ waiting[i] # c
    BY <1>2, ElementOfSeq DEF CallBusy, LaneInv, QueueIsWaiting, TypeOK
  <2>7. QueueIsWaiting'
    <3>1. ASSUME NEW d \in Conv
          PROVE phase'[d] = "waiting" <=> \E i \in 1 .. Len(waiting') : waiting'[i] = d
      <4>1. CASE d = c
        BY <1>2, <2>3, <2>4, <4>1 DEF CallBusy, TypeOK
      <4>2. CASE d # c
        <5>1. phase'[d] = phase[d]
          BY <1>2, <4>2 DEF CallBusy, TypeOK
        <5>2. ASSUME NEW i \in 1 .. Len(waiting), waiting[i] = d
              PROVE \E j \in 1 .. Len(waiting') : waiting'[j] = d
          <6>1. CASE i < p
            BY <2>3, <2>4, <5>2, <6>1
          <6>2. CASE i >= p
            <7>1. i + 1 \in 1 .. Len(waiting') /\ waiting'[i + 1] = d
              BY <2>3, <2>4, <5>2, <6>2
            <7>2. QED BY <7>1
          <6>3. QED BY <6>1, <6>2, <2>4
        <5>3. ASSUME NEW j \in 1 .. Len(waiting'), waiting'[j] = d
              PROVE \E i \in 1 .. Len(waiting) : waiting[i] = d
          BY <2>3, <2>4, <4>2, <5>3
        <5>4. QED BY <5>1, <5>2, <5>3 DEF LaneInv, QueueIsWaiting
      <4>3. QED BY <4>1, <4>2
    <3>2. ASSUME NEW i \in 1 .. Len(waiting'), NEW j \in 1 .. Len(waiting'),
                 waiting'[i] = waiting'[j]
          PROVE i = j
      BY <2>3, <2>4, <2>6, <3>2 DEF LaneInv, QueueIsWaiting
    <3>3. running'
      BY <1>2 DEF CallBusy
    <3>4. QED BY <3>1, <3>2, <3>3 DEF QueueIsWaiting
  <2>8. UrgentFirst'
    <3>1. ASSUME NEW i \in 1 .. Len(waiting'), NEW j \in 1 .. Len(waiting'),
                 i < j, waiting'[j] \in Urgent
          PROVE waiting'[i] \in Urgent
      <4>1. CASE i < p /\ j > p
        <5>1. /\ i \in 1 .. Len(waiting) /\ j - 1 \in 1 .. Len(waiting)
              /\ waiting'[i] = waiting[i] /\ waiting'[j] = waiting[j - 1]
          BY <2>3, <2>4, <3>1, <4>1
        <5>2. CASE i = j - 1
          BY <3>1, <5>1, <5>2
        <5>3. CASE i # j - 1
          BY <2>4, <3>1, <5>1, <5>3 DEF LaneInv, UrgentFirst
        <5>4. QED BY <5>2, <5>3
      <4>2. CASE i < p /\ j = p
        BY <2>3, <2>4, <3>1, <4>2
      <4>3. CASE i < p /\ j < p
        <5>1. /\ i \in 1 .. Len(waiting) /\ j \in 1 .. Len(waiting)
              /\ waiting'[i] = waiting[i] /\ waiting'[j] = waiting[j]
          BY <2>3, <2>4, <3>1, <4>3
        <5>2. QED BY <3>1, <5>1 DEF LaneInv, UrgentFirst
      <4>4. CASE i = p
        <5>1. /\ j - 1 \in 1 .. Len(waiting)
              /\ waiting'[i] = c /\ waiting'[j] = waiting[j - 1]
          BY <2>3, <2>4, <3>1, <4>4
        <5>2. CASE c \in Urgent
          BY <5>1, <5>2
        <5>3. CASE c \notin Urgent
          BY <2>3, <2>4, <3>1, <4>4, <5>3
        <5>4. QED BY <5>2, <5>3
      <4>5. CASE i > p
        <5>1. /\ i - 1 \in 1 .. Len(waiting) /\ j - 1 \in 1 .. Len(waiting)
              /\ i - 1 < j - 1
              /\ waiting'[i] = waiting[i - 1] /\ waiting'[j] = waiting[j - 1]
          BY <2>3, <2>4, <3>1, <4>5
        <5>2. QED BY <3>1, <5>1 DEF LaneInv, UrgentFirst
      <4>6. QED BY <2>3, <2>4, <3>1, <4>1, <4>2, <4>3, <4>4, <4>5
    <3>2. QED BY <3>1 DEF UrgentFirst
  <2>9. QED BY <2>5, <2>7, <2>8 DEF LaneInv
<1>3. ASSUME NEW c \in Conv, Settle(c) PROVE LaneInv'
  BY <1>3 DEF Settle, LaneInv, OneConversation, RunningIsHeld, QueueIsWaiting, UrgentFirst,
              TypeOK
<1>4. ASSUME NEW c \in Conv, Release(c) PROVE LaneInv'
  <2>1. \A d \in Conv : d # c => ~InLane(d)
    BY <1>4 DEF Release, LaneInv, OneConversation
  <2>2. CASE waiting = <<>>
    <3>1. /\ running' = FALSE
          /\ waiting' = <<>>
          /\ phase' = [phase EXCEPT ![c] = "outside"]
      BY <1>4, <2>2 DEF Release
    <3>2. \A d \in Conv : phase[d] # "waiting"
      BY <2>2 DEF LaneInv, QueueIsWaiting
    <3>3. QED
      BY <2>1, <3>1, <3>2 DEF LaneInv, OneConversation, RunningIsHeld, QueueIsWaiting,
                              UrgentFirst, TypeOK
  <2>3. CASE waiting # <<>>
    <3> DEFINE h == Head(waiting)
    <3>1. /\ waiting' = Tail(waiting)
          /\ running' = running
          /\ phase' = [phase EXCEPT ![c] = "outside", ![h] = "talking"]
      BY <1>4, <2>3 DEF Release
    <3>2. /\ h \in Conv
          /\ h = waiting[1]
          /\ Len(waiting) \in Nat \ {0}
          /\ Len(waiting') = Len(waiting) - 1
          /\ \A i \in 1 .. Len(waiting) - 1 : waiting'[i] = waiting[i + 1]
      BY <2>3, <3>1, HeadTailProperties, LenProperties DEF TypeOK
    <3> HIDE DEF h
    <3>3. phase[h] = "waiting" /\ h # c
      BY <1>4, <3>2 DEF LaneInv, QueueIsWaiting, Release
    <3>4. /\ phase'[h] = "talking"
          /\ phase'[c] = "outside"
          /\ \A d \in Conv \ {h, c} : phase'[d] = phase[d]
      BY <3>1, <3>2, <3>3 DEF TypeOK
    <3>5. OneConversation' /\ RunningIsHeld'
      <4>1. \A d \in Conv : InLane(d)' <=> d = h
        BY <2>1, <3>2, <3>3, <3>4
      <4>2. running'
        BY <2>3, <3>1 DEF LaneInv, QueueIsWaiting
      <4>3. QED BY <3>2, <4>1, <4>2 DEF OneConversation, RunningIsHeld
    <3>6. \A d \in Conv : phase'[d] = "waiting" <=> \E i \in 1 .. Len(waiting') : waiting'[i] = d
      <4>1. ASSUME NEW d \in Conv, phase'[d] = "waiting"
            PROVE \E i \in 1 .. Len(waiting') : waiting'[i] = d
        <5>1. phase[d] = "waiting" /\ d # h
          BY <3>4, <4>1
        <5>2. PICK j \in 1 .. Len(waiting) : waiting[j] = d
          BY <5>1 DEF LaneInv, QueueIsWaiting
        <5>3. j - 1 \in 1 .. Len(waiting')  /\ waiting'[j - 1] = d
          BY <3>2, <5>1, <5>2
        <5>4. QED BY <5>3
      <4>2. ASSUME NEW d \in Conv, NEW i \in 1 .. Len(waiting'), waiting'[i] = d
            PROVE phase'[d] = "waiting"
        <5>1. i + 1 \in 1 .. Len(waiting) /\ waiting[i + 1] = d
          BY <3>2, <4>2
        <5>2. phase[d] = "waiting" /\ d # h
          BY <3>2, <5>1 DEF LaneInv, QueueIsWaiting
        <5>3. d # c
          BY <1>4, <5>2 DEF Release
        <5>4. QED BY <3>4, <5>2, <5>3
      <4>3. QED BY <4>1, <4>2
    <3>7. QueueIsWaiting'
      <4>1. ASSUME NEW i \in 1 .. Len(waiting'), NEW j \in 1 .. Len(waiting'),
                   waiting'[i] = waiting'[j]
            PROVE i = j
        <5>1. /\ i + 1 \in 1 .. Len(waiting)
              /\ j + 1 \in 1 .. Len(waiting)
              /\ waiting[i + 1] = waiting[j + 1]
          BY <3>2, <4>1
        <5>2. i + 1 = j + 1
          BY <5>1 DEF LaneInv, QueueIsWaiting
        <5>3. QED BY <3>2, <5>2
      <4>2. running'
        BY <2>3, <3>1 DEF LaneInv, QueueIsWaiting
      <4>3. QED BY <3>6, <4>1, <4>2 DEF QueueIsWaiting
    <3>8. UrgentFirst'
      <4>1. ASSUME NEW i \in 1 .. Len(waiting'), NEW j \in 1 .. Len(waiting'),
                   i < j, waiting'[j] \in Urgent
            PROVE waiting'[i] \in Urgent
        <5>1. /\ i + 1 \in 1 .. Len(waiting)
              /\ j + 1 \in 1 .. Len(waiting)
              /\ i + 1 < j + 1
              /\ waiting'[i] = waiting[i + 1]
              /\ waiting'[j] = waiting[j + 1]
          BY <3>2, <4>1
        <5>2. QED BY <4>1, <5>1 DEF LaneInv, UrgentFirst
      <4>2. QED BY <4>1 DEF UrgentFirst
    <3>9. QED BY <3>5, <3>7, <3>8 DEF LaneInv
  <2>4. QED BY <2>2, <2>3
<1>5. CASE UNCHANGED vars
  BY <1>5 DEF vars, LaneInv, OneConversation, RunningIsHeld, QueueIsWaiting, UrgentFirst
<1>6. QED BY <1>1, <1>2, <1>3, <1>4, <1>5 DEF Next

(* One conversation at a time; the flag is TRUE exactly while there is     *)
(* one; the queue holds exactly those who wait, urgent ones first.  The    *)
(* four parts are inductive together with the types: starting the head is  *)
(* safe because the queue holds only callers that wait, and an idle lane   *)
(* is one nobody holds.                                                    *)
THEOREM LaneKeepsOrder == Spec => []LaneInv
BY OrderAtFirst, OrderKept, TypeCorrect, PTL DEF Spec

-----------------------------------------------------------------------------
(* The contract.                                                           *)

(* Who stands in s, and who stands in it before c: Before reads the queue  *)
(* with these two.                                                         *)
Standing(s) == {s[i] : i \in 1 .. Len(s)}
Ahead(s, c) == {s[j] : j \in {k \in 1 .. Len(s) : \A i \in 1 .. k : s[i] # c}}

(* Where nobody stands twice, those ahead of the one at place p are those  *)
(* at the places before p.                                                 *)
LEMMA AheadOfAPlace ==
  \A s \in Seq(Conv) :
    (\A i, j \in 1 .. Len(s) : s[i] = s[j] => i = j)
      => \A p \in 1 .. Len(s) : Ahead(s, s[p]) = {s[j] : j \in 1 .. p - 1}
<1> SUFFICES ASSUME NEW s \in Seq(Conv),
                    \A i, j \in 1 .. Len(s) : s[i] = s[j] => i = j,
                    NEW p \in 1 .. Len(s)
             PROVE  Ahead(s, s[p]) = {s[j] : j \in 1 .. p - 1}
  OBVIOUS
<1>1. Len(s) \in Nat
  BY LenProperties
<1>2. ASSUME NEW k \in 1 .. Len(s)
      PROVE (\A i \in 1 .. k : s[i] # s[p]) <=> k \in 1 .. p - 1
  <2>1. ASSUME \A i \in 1 .. k : s[i] # s[p] PROVE k < p
    <3>1. CASE p <= k
      BY <1>1, <2>1, <3>1
    <3>2. QED BY <1>1, <3>1
  <2>2. ASSUME k < p, NEW i \in 1 .. k PROVE s[i] # s[p]
    BY <1>1, <2>2
  <2>3. QED BY <1>1, <2>1, <2>2
<1>3. {k \in 1 .. Len(s) : \A i \in 1 .. k : s[i] # s[p]} = 1 .. p - 1
  BY <1>1, <1>2
<1>4. QED BY <1>3 DEF Ahead

(* A busy lane's array after the call: those ahead of each are those that  *)
(* were, and those who stand behind the newcomer have it ahead too.        *)
LEMMA QueueAheads ==
  ASSUME NEW s \in Seq(Conv), NEW c \in Conv,
         \A i, j \in 1 .. Len(s) : s[i] = s[j] => i = j,
         \A i, j \in 1 .. Len(s) : i < j /\ s[j] \in Urgent => s[i] \in Urgent,
         c \notin Standing(s)
  PROVE  /\ Standing(Queue(s, c)) = Standing(s) \cup {c}
         /\ Ahead(Queue(s, c), c) = IF c \in Urgent THEN Standing(s) \cap Urgent ELSE Standing(s)
         /\ \A d \in Standing(s) :
              Ahead(Queue(s, c), d) = IF c \in Urgent /\ d \notin Urgent
                                      THEN Ahead(s, d) \cup {c} ELSE Ahead(s, d)
<1> DEFINE q == Queue(s, c)
<1>1. Len(s) \in Nat /\ \A i \in 1 .. Len(s) : s[i] # c
  BY LenProperties DEF Standing
<1>2. PICK p \in 1 .. Len(s) + 1 :
        /\ Len(q) = Len(s) + 1
        /\ \A j \in 1 .. Len(s) + 1 : q[j] = IF j < p THEN s[j] ELSE IF j = p THEN c ELSE s[j - 1]
        /\ c \in Urgent => \A j \in 1 .. p - 1 : s[j] \in Urgent
        /\ c \in Urgent /\ p <= Len(s) => s[p] \notin Urgent
        /\ c \notin Urgent => p = Len(s) + 1
  BY QueuePlaces, Zenon
<1>3. q \in Seq(Conv)
  BY QueuePlaces, Zenon
<1> HIDE DEF q
<1>4. ASSUME NEW i \in 1 .. Len(q), NEW j \in 1 .. Len(q), q[i] = q[j] PROVE i = j
  <2> DEFINE At(k) == IF k < p THEN k ELSE k - 1
  <2>1. ASSUME NEW k \in 1 .. Len(q), k # p PROVE At(k) \in 1 .. Len(s) /\ q[k] = s[At(k)]
    BY <1>1, <1>2, <2>1
  <2>2. CASE i = p \/ j = p
    BY <1>1, <1>2, <1>4, <2>1, <2>2
  <2>3. CASE i # p /\ j # p
    <3>1. At(i) = At(j)
      BY <1>4, <2>1, <2>3, Zenon
    <3>2. QED BY <1>1, <1>2, <2>3, <3>1
  <2>4. QED BY <2>2, <2>3
<1>5. /\ p \in 1 .. Len(q) /\ q[p] = c
      /\ \A j \in 1 .. p - 1 : j \in 1 .. Len(s) /\ q[j] = s[j]
      /\ \A j \in p .. Len(s) : j + 1 \in 1 .. Len(q) /\ q[j + 1] = s[j]
  BY <1>1, <1>2
<1>6. Standing(q) = Standing(s) \cup {c}
  <2>1. ASSUME NEW j \in 1 .. Len(q) PROVE q[j] \in Standing(s) \cup {c}
    BY <1>1, <1>2 DEF Standing
  <2>2. ASSUME NEW j \in 1 .. Len(s) PROVE s[j] \in Standing(q)
    <3>1. CASE j < p
      BY <1>1, <1>2, <1>5, <3>1 DEF Standing
    <3>2. CASE j >= p
      BY <1>1, <1>2, <1>5, <3>2 DEF Standing
    <3>3. QED BY <1>1, <3>1, <3>2
  <2>3. c \in Standing(q)
    BY <1>5 DEF Standing
  <2>4. ASSUME NEW x \in Standing(q) PROVE x \in Standing(s) \cup {c}
    BY <2>1, <2>4 DEF Standing
  <2>5. ASSUME NEW x \in Standing(s) PROVE x \in Standing(q)
    BY <2>2, <2>5 DEF Standing
  <2>6. QED BY <2>3, <2>4, <2>5, Zenon
<1>7. c \in Urgent => \A j \in 1 .. Len(s) : s[j] \in Urgent <=> j < p
  BY <1>1, <1>2
<1>8. Ahead(q, c) = {s[j] : j \in 1 .. p - 1}
  <2>1. Ahead(q, q[p]) = {q[j] : j \in 1 .. p - 1}
    BY <1>3, <1>4, <1>5, AheadOfAPlace, Zenon
  <2>2. QED BY <1>5, <2>1
<1>9. Ahead(q, c) = IF c \in Urgent THEN Standing(s) \cap Urgent ELSE Standing(s)
  <2>1. CASE c \in Urgent
    BY <1>1, <1>5, <1>7, <1>8, <2>1 DEF Standing
  <2>2. CASE c \notin Urgent
    BY <1>1, <1>2, <1>8, <2>2 DEF Standing
  <2>3. QED BY <2>1, <2>2
<1>10. ASSUME NEW i \in 1 .. Len(s)
       PROVE  Ahead(q, s[i]) = IF c \in Urgent /\ s[i] \notin Urgent
                               THEN Ahead(s, s[i]) \cup {c} ELSE Ahead(s, s[i])
  <2>1. Ahead(s, s[i]) = {s[j] : j \in 1 .. i - 1}
    BY AheadOfAPlace, Zenon
  <2>2. CASE i < p
    <3>1. i \in 1 .. Len(q) /\ q[i] = s[i]
      BY <1>1, <1>2, <1>5, <2>2
    <3>2. Ahead(q, q[i]) = {q[j] : j \in 1 .. i - 1}
      BY <1>3, <1>4, <3>1, AheadOfAPlace, Zenon
    <3>3. \A j \in 1 .. i - 1 : q[j] = s[j]
      BY <1>1, <1>5, <2>2
    <3>4. {q[j] : j \in 1 .. i - 1} = {s[j] : j \in 1 .. i - 1}
      BY <3>3
    <3>5. QED BY <1>7, <2>1, <2>2, <3>1, <3>2, <3>4
  <2>3. CASE i >= p
    <3>1. i + 1 \in 1 .. Len(q) /\ q[i + 1] = s[i]
      BY <1>1, <1>2, <1>5, <2>3
    <3>2. Ahead(q, q[i + 1]) = {q[j] : j \in 1 .. (i + 1) - 1}
      BY <1>3, <1>4, <3>1, AheadOfAPlace, Zenon
    <3>3. \A j \in 1 .. i : q[j] = c \/ \E k \in 1 .. i - 1 : q[j] = s[k]
      BY <1>1, <1>2, <2>3
    <3>4. \A k \in 1 .. i - 1 : \E j \in 1 .. i : q[j] = s[k]
      <4>1. ASSUME NEW k \in 1 .. i - 1, k < p PROVE \E j \in 1 .. i : q[j] = s[k]
        BY <1>1, <1>5, <4>1
      <4>2. ASSUME NEW k \in 1 .. i - 1, k >= p PROVE \E j \in 1 .. i : q[j] = s[k]
        <5>1. k + 1 \in 1 .. i /\ q[k + 1] = s[k]
          BY <1>1, <1>2, <1>5, <4>2
        <5>2. QED BY <5>1
      <4>3. QED BY <1>1, <4>1, <4>2
    <3>5. {q[j] : j \in 1 .. i} = {s[j] : j \in 1 .. i - 1} \cup {c}
      <4>1. c \in {q[j] : j \in 1 .. i}
        BY <1>1, <1>5, <2>3
      <4>2. QED BY <3>3, <3>4, <4>1
    <3>6. c \in Urgent /\ s[i] \notin Urgent
      BY <1>1, <1>2, <1>7, <2>3
    <3>7. (i + 1) - 1 = i
      BY <1>1
    <3>8. QED BY <2>1, <3>1, <3>2, <3>5, <3>6, <3>7
  <2>4. QED BY <1>1, <2>2, <2>3
<1>11. QED BY <1>6, <1>9, <1>10 DEF Standing, q

(* When the head of the queue starts, it leaves everyone's list.           *)
LEMMA ShiftAheads ==
  ASSUME NEW s \in Seq(Conv), s # <<>>,
         \A i, j \in 1 .. Len(s) : s[i] = s[j] => i = j
  PROVE  /\ Head(s) \in Standing(s)
         /\ Ahead(s, Head(s)) = {}
         /\ Standing(Tail(s)) = Standing(s) \ {Head(s)}
         /\ \A d \in Standing(Tail(s)) : Ahead(Tail(s), d) = Ahead(s, d) \ {Head(s)}
<1> DEFINE t == Tail(s)
           h == Head(s)
<1>1. /\ h = s[1]
      /\ t \in Seq(Conv)
      /\ Len(s) \in Nat \ {0}
      /\ Len(t) = Len(s) - 1
      /\ \A i \in 1 .. Len(s) - 1 : t[i] = s[i + 1]
  BY HeadTailProperties, LenProperties, EmptySeq
<1> HIDE DEF t, h
<1>2. /\ 1 \in 1 .. Len(s)
      /\ \A i \in 1 .. Len(t) : i + 1 \in 1 .. Len(s) /\ t[i] = s[i + 1] /\ i + 1 # 1
      /\ \A i \in 1 .. Len(s) : i # 1 => i - 1 \in 1 .. Len(t) /\ t[i - 1] = s[i]
  BY <1>1
<1>3. h \in Standing(s)
  BY <1>1, <1>2 DEF Standing
<1>4. Ahead(s, h) = {}
  <2>1. Ahead(s, s[1]) = {s[j] : j \in 1 .. 1 - 1}
    BY <1>2, AheadOfAPlace, Zenon
  <2>2. QED BY <1>1, <2>1
<1>5. \A i \in 1 .. Len(t) : t[i] # h
  BY <1>1, <1>2
<1>6. Standing(t) = Standing(s) \ {h}
  <2>1. ASSUME NEW i \in 1 .. Len(s), s[i] # h PROVE s[i] \in Standing(t)
    BY <1>1, <1>2, <2>1 DEF Standing
  <2>2. ASSUME NEW i \in 1 .. Len(t) PROVE t[i] \in Standing(s)
    BY <1>2 DEF Standing
  <2>3. QED BY <1>5, <2>1, <2>2 DEF Standing
<1>7. \A i, j \in 1 .. Len(t) : t[i] = t[j] => i = j
  BY <1>1, <1>2
<1>8. ASSUME NEW i \in 1 .. Len(t) PROVE Ahead(t, t[i]) = Ahead(s, t[i]) \ {h}
  <2>1. Ahead(t, t[i]) = {t[j] : j \in 1 .. i - 1}
    BY <1>1, <1>7, AheadOfAPlace, Zenon
  <2>2. Ahead(s, t[i]) = {s[j] : j \in 1 .. (i + 1) - 1}
    <3>1. Ahead(s, s[i + 1]) = {s[j] : j \in 1 .. (i + 1) - 1}
      BY <1>2, AheadOfAPlace, Zenon
    <3>2. QED BY <1>2, <3>1
  <2>3. ASSUME NEW j \in 1 .. i - 1 PROVE t[j] \in {s[k] : k \in 1 .. (i + 1) - 1} \ {h}
    <3>1. j \in 1 .. Len(t) /\ j + 1 \in 1 .. (i + 1) - 1
      BY <1>1
    <3>2. t[j] = s[j + 1] /\ t[j] # h
      BY <1>2, <1>5, <3>1
    <3>3. QED BY <3>1, <3>2
  <2>4. ASSUME NEW j \in 1 .. (i + 1) - 1, s[j] # h PROVE s[j] \in {t[k] : k \in 1 .. i - 1}
    <3>1. j - 1 \in 1 .. i - 1 /\ t[j - 1] = s[j]
      BY <1>1, <1>2, <2>4
    <3>2. QED BY <3>1
  <2>5. QED BY <2>1, <2>2, <2>3, <2>4
<1>9. QED BY <1>3, <1>4, <1>6, <1>8 DEF t, h, Standing

(* An empty lane holds nobody and has nobody wait.                         *)
LEMMA ContractAtFirst == Init => Contract!ContractInit
<1> SUFFICES ASSUME Init PROVE Contract!ContractInit
  OBVIOUS
<1>1. waiting = <<>> /\ \A c \in Conv : phase[c] = "outside"
  BY DEF Init
<1>2. Holding = {}
  BY <1>1 DEF Holding, InLane
<1>3. Before = [c \in {} |-> {}]
  BY <1>1 DEF Before
<1>4. QED BY <1>2, <1>3 DEF Contract!ContractInit

(* Every step of the lane is a step of the contract or none: a call is an  *)
(* Ask, a settled promise is nothing yet, a release is the hand-over, and  *)
(* the one the array's shift takes is one with nobody left before it.      *)
LEMMA ContractKept ==
  TypeOK /\ LaneInv /\ [Next]_vars => [Contract!ContractNext]_(Contract!cvars)
<1> SUFFICES ASSUME TypeOK, LaneInv, [Next]_vars
             PROVE  Contract!ContractNext \/ (Holding' = Holding /\ Before' = Before)
  BY DEF Contract!cvars
<1> USE DEF InLane
<1>1. /\ Before = [c \in Standing(waiting) |-> Ahead(waiting, c)]
      /\ Contract!Asked = Standing(waiting)
  BY DEF Before, Standing, Ahead, Contract!Asked
<1>2. Before' = [c \in Standing(waiting') |-> Ahead(waiting', c)]
  BY DEF Before, Standing, Ahead
<1>3. waiting \in Seq(Conv)
  BY DEF TypeOK
<1>4. \A c \in Conv : c \in Standing(waiting) <=> phase[c] = "waiting"
  BY DEF LaneInv, QueueIsWaiting, Standing
<1>5. \A i, j \in 1 .. Len(waiting) : waiting[i] = waiting[j] => i = j
  BY DEF LaneInv, QueueIsWaiting
<1>6. \A i, j \in 1 .. Len(waiting) : i < j /\ waiting[j] \in Urgent => waiting[i] \in Urgent
  BY DEF LaneInv, UrgentFirst
<1>7. ASSUME NEW c \in Conv, CallIdle(c) PROVE Contract!ContractNext
  <2>1. phase[c] = "outside" /\ waiting' = waiting /\ waiting = <<>>
    BY <1>7 DEF CallIdle, LaneInv, QueueIsWaiting
  <2>2. Holding = {} /\ Holding' = {c}
    BY <1>7 DEF CallIdle, LaneInv, RunningIsHeld, Holding, TypeOK
  <2>3. c \notin Contract!Asked
    BY <1>1, <1>4, <2>1
  <2>4. Before' = Before
    BY <1>1, <1>2, <2>1
  <2>5. Contract!Ask(c)
    BY <2>2, <2>3, <2>4 DEF Contract!Ask
  <2>6. QED BY <2>5 DEF Contract!ContractNext
<1>8. ASSUME NEW c \in Conv, CallBusy(c) PROVE Contract!ContractNext
  <2>1. phase[c] = "outside" /\ waiting' = Queue(waiting, c)
    BY <1>8 DEF CallBusy
  <2>2. Holding' = Holding /\ Holding # {} /\ c \notin Holding
    BY <1>8 DEF CallBusy, LaneInv, RunningIsHeld, Holding, TypeOK
  <2>3. c \notin Standing(waiting)
    BY <1>4, <2>1
  <2>4. /\ Standing(waiting') = Standing(waiting) \cup {c}
        /\ Ahead(waiting', c) = IF c \in Urgent THEN Standing(waiting) \cap Urgent
                                ELSE Standing(waiting)
        /\ \A d \in Standing(waiting) :
             Ahead(waiting', d) = IF c \in Urgent /\ d \notin Urgent
                                  THEN Ahead(waiting, d) \cup {c} ELSE Ahead(waiting, d)
    <3>1. /\ Standing(Queue(waiting, c)) = Standing(waiting) \cup {c}
          /\ Ahead(Queue(waiting, c), c) = IF c \in Urgent THEN Standing(waiting) \cap Urgent
                                           ELSE Standing(waiting)
          /\ \A d \in Standing(waiting) :
               Ahead(Queue(waiting, c), d) = IF c \in Urgent /\ d \notin Urgent
                                             THEN Ahead(waiting, d) \cup {c}
                                             ELSE Ahead(waiting, d)
      BY <1>3, <1>5, <1>6, <2>3, QueueAheads
    <3>2. QED BY <2>1, <3>1
  <2>5. \A d \in Standing(waiting) : Before[d] = Ahead(waiting, d)
    BY <1>1
  <2>6. Before' = Contract!WithAsked(c)
    BY <1>1, <1>2, <2>3, <2>4, <2>5 DEF Contract!WithAsked
  <2>7. Contract!Ask(c)
    BY <1>1, <2>2, <2>3, <2>6 DEF Contract!Ask
  <2>8. QED BY <2>7 DEF Contract!ContractNext
<1>9. ASSUME NEW c \in Conv, Settle(c) PROVE Holding' = Holding /\ Before' = Before
  <2>1. Holding' = Holding
    BY <1>9 DEF Settle, Holding, TypeOK
  <2>2. QED BY <1>1, <1>2, <1>9, <2>1 DEF Settle
<1>10. ASSUME NEW c \in Conv, Release(c) PROVE Contract!ContractNext
  <2>1. phase[c] = "settled" /\ Holding = {c}
    BY <1>10 DEF Release, LaneInv, OneConversation, Holding
  <2>2. CASE waiting = <<>>
    <3>1. waiting' = waiting /\ phase' = [phase EXCEPT ![c] = "outside"]
      BY <1>10, <2>2 DEF Release
    <3>2. Holding' = {}
      BY <2>1, <3>1 DEF Holding, TypeOK
    <3>3. Standing(waiting) = {} /\ Before' = Before
      BY <1>1, <1>2, <2>2, <3>1 DEF Standing
    <3>4. Contract!HandOver
      BY <1>1, <2>1, <3>2, <3>3 DEF Contract!HandOver
    <3>5. QED BY <3>4 DEF Contract!ContractNext
  <2>3. CASE waiting # <<>>
    <3> DEFINE h == Head(waiting)
    <3>1. waiting' = Tail(waiting) /\ phase' = [phase EXCEPT ![c] = "outside", ![h] = "talking"]
      BY <1>10, <2>3 DEF Release
    <3>2. /\ h \in Standing(waiting)
          /\ Ahead(waiting, h) = {}
          /\ Standing(waiting') = Standing(waiting) \ {h}
          /\ \A d \in Standing(waiting') : Ahead(waiting', d) = Ahead(waiting, d) \ {h}
      BY <1>3, <1>5, <2>3, <3>1, ShiftAheads
    <3>3. h \in Conv
      BY <1>3, <2>3, HeadTailProperties
    <3> HIDE DEF h
    <3>4. phase[h] = "waiting" /\ h # c
      BY <1>4, <2>1, <3>2, <3>3
    <3>5. Holding' = {h}
      BY <2>1, <3>1, <3>3, <3>4 DEF Holding, TypeOK
    <3>6. \A d \in Standing(waiting) : Before[d] = Ahead(waiting, d)
      BY <1>1
    <3>7. Before' = [e \in Standing(waiting) \ {h} |-> Before[e] \ {h}]
      BY <1>2, <3>2, <3>6
    <3>8. Contract!HandOver
      BY <1>1, <2>1, <3>2, <3>5, <3>6, <3>7 DEF Contract!HandOver
    <3>9. QED BY <3>8 DEF Contract!ContractNext
  <2>4. QED BY <2>2, <2>3
<1>11. CASE UNCHANGED vars
  <2>1. Holding' = Holding
    BY <1>11 DEF vars, Holding
  <2>2. QED BY <1>1, <1>2, <1>11, <2>1 DEF vars
<1>12. QED BY <1>7, <1>8, <1>9, <1>10, <1>11 DEF Next

(* laneOf() implements the contract (KeepsContract, without its fairness,  *)
(* which is beyond this prover): whoever is called next had nobody left    *)
(* before it, and an urgent caller is put before every ordinary one only.  *)
THEOREM LaneImplementsContract ==
  Spec => Contract!ContractInit /\ [][Contract!ContractNext]_(Contract!cvars)
BY ContractAtFirst, ContractKept, TypeCorrect, LaneKeepsOrder, PTL DEF Spec
=============================================================================
