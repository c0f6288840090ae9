---------------------------- MODULE DeviceProofs ----------------------------
(***************************************************************************)
(* Theorems about the device plugin: the flag of config mode, the PIN      *)
(* bracket, and the writes; and about the edge copy, what a computer says  *)
(* of its copy of the key's chain.                                         *)
(***************************************************************************)
EXTENDS ConfigMode, PinBracket, DeviceWrites, EdgeCopy, Integers,
        SequenceTheorems, FiniteSetTheorems, WellFoundedInduction, TLAPS

-----------------------------------------------------------------------------
(* Config mode.                                                            *)

(* An unlock that neither asks nor began with a wrong flag has a key before *)
(* it that is locked, and would say that it opens.                         *)
SeesItOpen ==
  \A s \in Screens :
    op[s].kind \in {"pin", "wait"} /\ ~op[s].probing /\ ~op[s].blind => mode = "normal" /\ locked

CmInv == CmTypeOK /\ FlagIsToBlame /\ SeesItOpen

(* A screen's call becomes another, and those of the others stay.          *)
LEMMA OpsTyped ==
  ASSUME CmTypeOK, NEW s \in Screens, NEW o \in Ops
  PROVE  [op EXCEPT ![s] = o] \in [Screens -> Ops]
BY DEF CmTypeOK

(* No call is open.                                                        *)
LEMMA RestIs == Rest \in Ops /\ Rest.kind = "none"
BY ConfigModeAssumption DEF Rest, Ops, OpKinds

(* The key says that it opened: no unlock is left.                         *)
LEMMA AnnouncedIs ==
  ASSUME NEW o \in [Screens -> Ops]
  PROVE  /\ Announced(o) \in [Screens -> Ops]
         /\ \A s \in Screens : /\ Announced(o)[s].kind \notin {"pin", "wait"}
                               /\ o[s].kind = "poll" => Announced(o)[s] = o[s]
<1>1. \A s \in Screens : Announced(o)[s] = IF o[s].kind \in {"pin", "wait"} THEN Rest ELSE o[s]
  BY DEF Announced
<1>2. Announced(o) \in [Screens -> Ops]
  BY RestIs DEF Announced
<1>3. QED BY <1>1, <1>2, RestIs

(* Blame gives a cause, if there is one to give.                           *)
LEMMA BlameIs ==
  ASSUME CmTypeOK, NEW why \in SUBSET Causes, Blame(why), mode' \in {"normal", "config", "boot"},
         configMode' \in BOOLEAN
  PROVE  /\ causes' \subseteq Causes
         /\ why # {} => (Agree(configMode, mode) \/ causes # {})'
BY DEF Blame, CmTypeOK, Agree

(* The invariant holds at first.                                           *)
LEMMA CmAtFirst == CmInit => CmInv
<1> SUFFICES ASSUME CmInit PROVE CmInv
  OBVIOUS
<1>1. \A s \in Screens : op[s] = Rest
  BY DEF CmInit
<1>2. op \in [Screens -> Ops]
  BY RestIs DEF CmInit
<1>3. CmTypeOK
  <2>1. /\ locked \in BOOLEAN /\ console \in BOOLEAN /\ configMode \in BOOLEAN
        /\ falseAlarm \in BOOLEAN
    BY Zenon DEF CmInit
  <2>2. /\ mode \in {"normal", "config", "boot"} /\ causes \subseteq Causes
        /\ opCount \in 0 .. MaxOps /\ hands \in 0 .. MaxHands /\ busy \in 0 .. MaxBusy
    BY ConfigModeAssumption DEF CmInit
  <2>3. QED BY <1>2, <2>1, <2>2 DEF CmTypeOK
<1>4. SeesItOpen
  BY <1>1, RestIs DEF SeesItOpen
<1>5. QED BY <1>3, <1>4 DEF CmInit, CmInv, FlagIsToBlame, FlagNeedsACause, OpenKeyIsSeen, Agree

(* What a step changes, as the invariant sees it.                          *)
Blamed == (Agree(configMode, mode) \/ causes # {} \/ \E s \in Screens : op[s].kind = "poll")'

(* The invariant is its parts.                                             *)
LEMMA CmHolds ==
  ASSUME CmInv, CmTypeOK', Blamed, falseAlarm' = FALSE, SeesItOpen'
  PROVE  CmInv'
BY DEF CmInv, FlagIsToBlame, FlagNeedsACause, OpenKeyIsSeen, Blamed

(* A step that leaves key and flag as they are, in which one call goes on. *)
LEMMA CallMoves ==
  ASSUME CmInv, NEW s \in Screens, NEW o \in Ops, op' = [op EXCEPT ![s] = o],
         UNCHANGED <<keyVars, configMode, causes, falseAlarm>>,
         opCount' \in 0 .. MaxOps, hands' \in 0 .. MaxHands, busy' \in 0 .. MaxBusy,
         op[s].kind # "poll" \/ o.kind = "poll",
         o.kind \in {"pin", "wait"} /\ ~o.probing /\ ~o.blind =>
           (mode = "normal" /\ locked) \/
             (op[s].kind \in {"pin", "wait"} /\ ~op[s].probing /\ ~op[s].blind)
  PROVE  CmInv'
<1>1. /\ op' \in [Screens -> Ops] /\ op'[s] = o /\ \A t \in Screens \ {s} : op'[t] = op[t]
  BY OpsTyped DEF CmInv, CmTypeOK
<1>2. CmTypeOK'
  BY <1>1 DEF CmInv, CmTypeOK, keyVars
<1>3. Blamed
  BY <1>1 DEF CmInv, FlagIsToBlame, FlagNeedsACause, Blamed, Agree, keyVars
<1>4. SeesItOpen'
  BY <1>1 DEF CmInv, SeesItOpen, keyVars
<1>5. falseAlarm' = FALSE
  BY DEF CmInv, CmTypeOK, FlagIsToBlame, OpenKeyIsSeen
<1>6. QED BY <1>2, <1>3, <1>4, <1>5, CmHolds

(* Whatever becomes of key and flag, if no unlock was sure of it.          *)
LEMMA KeyMovesOn ==
  ASSUME CmInv, CmTypeOK', Blamed, falseAlarm' = falseAlarm,
         \A s \in Screens : op'[s] = op[s] \/ op'[s].kind \notin {"pin", "wait"},
         mode = "normal" /\ locked => mode' = "normal" /\ locked'
  PROVE  CmInv'
<1>1. SeesItOpen'
  BY DEF CmInv, SeesItOpen
<1>2. falseAlarm' = FALSE
  BY DEF CmInv, CmTypeOK, FlagIsToBlame, OpenKeyIsSeen
<1>3. QED BY <1>1, <1>2, CmHolds

(* enterConfigMode keeps the invariant.                                    *)
LEMMA EnterKeeps ==
  ASSUME CmInv, NEW s \in Screens, BeginEnter(s) \/ Hold(s) \/ PollFails(s) \/ PollDeadline(s)
  PROVE  CmInv'
<1>1. CmTypeOK /\ op[s] \in Ops
  BY DEF CmInv, CmTypeOK
<1>2. CASE BeginEnter(s)
  <2> DEFINE o == [Rest EXCEPT !.kind = "hold", !.attempt = 1]
  <2>1. o \in Ops /\ o.kind = "hold"
    <3>1. 1 \in 0 .. Attempts
      BY ConfigModeAssumption
    <3>2. QED BY <3>1, RestIs DEF Ops, OpKinds
  <2>2. op[s].kind # "poll" /\ op' = [op EXCEPT ![s] = o] /\ opCount' \in 0 .. MaxOps
    BY <1>1, <1>2, ConfigModeAssumption DEF BeginEnter, Start, CmTypeOK
  <2> HIDE DEF o
  <2>3. QED BY <1>1, <1>2, <2>1, <2>2, CallMoves DEF BeginEnter, CmTypeOK
<1>3. CASE Hold(s)
  <2> DEFINE o == [op[s] EXCEPT !.kind = "poll"]
  <2>1. o \in Ops /\ o.kind = "poll" /\ op' = [op EXCEPT ![s] = o]
    BY <1>1, <1>3 DEF Hold, Ops, OpKinds
  <2> HIDE DEF o
  <2>2. op' \in [Screens -> Ops] /\ op'[s] = o /\ \A t \in Screens \ {s} : op'[t] = op[t]
    BY <1>1, <2>1, OpsTyped DEF CmTypeOK
  <2>3. Blamed
    BY <2>1, <2>2 DEF Blamed
  <2>4. CmTypeOK'
    BY <1>1, <1>3, <2>2 DEF CmTypeOK, Hold, countVars
  <2>5. QED BY <1>3, <2>1, <2>2, <2>3, <2>4, KeyMovesOn DEF Hold
<1>4. CASE PollFails(s)
  <2>1. op' \in [Screens -> Ops] /\ op'[s] = Rest /\ \A t \in Screens \ {s} : op'[t] = op[t]
    BY <1>1, <1>4, OpsTyped, RestIs DEF PollFails, Ended, CmTypeOK
  <2>2. causes' \subseteq Causes /\ Blamed
    <3> DEFINE why == {IF locked \/ mode = "boot" THEN "otherLock" ELSE "busyRead"}
    <3>1. why # {} /\ why \in SUBSET Causes
      BY DEF Causes
    <3>2. Blame(why) /\ configMode' = TRUE /\ mode' = mode
      BY <1>4 DEF PollFails, keyVars
    <3> HIDE DEF why
    <3>3. QED BY <1>1, <3>1, <3>2, BlameIs DEF CmTypeOK, Blamed
  <2>3. CmTypeOK'
    BY <1>1, <1>4, <2>1, <2>2, ConfigModeAssumption DEF CmTypeOK, PollFails, keyVars
  <2>4. QED BY <1>4, <2>1, <2>2, <2>3, RestIs, KeyMovesOn DEF PollFails, keyVars
<1>5. CASE PollDeadline(s)
  <2>1. PICK o \in Ops : op' = [op EXCEPT ![s] = o] /\ o.kind \in {"hold", "none"}
    <3>1. CASE op[s].attempt < Attempts
      <4> DEFINE o == [op[s] EXCEPT !.kind = "hold", !.attempt = @ + 1]
      <4>1. op[s].attempt \in 0 .. Attempts
        BY <1>1 DEF Ops
      <4>2. o \in Ops /\ o.kind = "hold"
        <5>1. op[s].attempt + 1 \in 0 .. Attempts
          BY <3>1, <4>1, ConfigModeAssumption
        <5>2. QED BY <1>1, <5>1 DEF Ops, OpKinds
      <4>3. op' = [op EXCEPT ![s] = o]
        BY <1>1, <1>5, <3>1 DEF PollDeadline, CmTypeOK, Ops
      <4> HIDE DEF o
      <4>4. QED BY <4>2, <4>3
    <3>2. CASE ~(op[s].attempt < Attempts)
      BY <1>5, <3>2, RestIs DEF PollDeadline, Ended
    <3>3. QED BY <3>1, <3>2
  <2>2. op' \in [Screens -> Ops] /\ op'[s] = o /\ \A t \in Screens \ {s} : op'[t] = op[t]
    BY <1>1, <2>1, OpsTyped DEF CmTypeOK
  <2>3. causes' \subseteq Causes /\ Blamed
    <3>1. {"openedEarly"} \in SUBSET Causes
      BY DEF Causes
    <3>2. Blame({"openedEarly"}) /\ configMode' = configMode /\ mode' = mode
      BY <1>5 DEF PollDeadline, keyVars
    <3>3. QED BY <1>1, <3>1, <3>2, BlameIs DEF CmTypeOK, Blamed
  <2>4. CmTypeOK'
    BY <1>1, <1>5, <2>2, <2>3 DEF CmTypeOK, PollDeadline, keyVars, countVars
  <2>5. QED BY <1>5, <2>1, <2>2, <2>3, <2>4, KeyMovesOn DEF PollDeadline, keyVars
<1>6. QED BY <1>2, <1>3, <1>4, <1>5

(* So does unlock.                                                         *)
LEMMA UnlockKeeps ==
  ASSUME CmInv, NEW s \in Screens,
         BeginUnlock(s) \/ (\E right \in BOOLEAN : EnterPin(s, right)) \/ Probe(s) \/ UnlockTimesOut(s)
  PROVE  CmInv'
<1>1. CmTypeOK /\ op[s] \in Ops /\ mode \in {"normal", "config", "boot"} /\ configMode \in BOOLEAN
  BY DEF CmInv, CmTypeOK
<1>2. CASE BeginUnlock(s)
  <2> DEFINE o == [Rest EXCEPT !.kind = "pin", !.probing = configMode, !.blind = ~Agree(configMode, mode)]
  <2>1. o \in Ops /\ o.kind = "pin"
    BY <1>1, RestIs DEF Ops, OpKinds, Agree
  <2>2. ~o.probing /\ ~o.blind => mode = "normal" /\ locked
    BY <1>1, <1>2, RestIs DEF Ops, Agree, BeginUnlock
  <2>3. op[s].kind # "poll" /\ op' = [op EXCEPT ![s] = o] /\ opCount' \in 0 .. MaxOps
    BY <1>1, <1>2, ConfigModeAssumption DEF BeginUnlock, Start, CmTypeOK
  <2> HIDE DEF o
  <2>4. QED BY <1>1, <1>2, <2>1, <2>2, <2>3, CallMoves DEF BeginUnlock, CmTypeOK
<1>3. ASSUME NEW right \in BOOLEAN, EnterPin(s, right) PROVE CmInv'
  <2> DEFINE o == [op[s] EXCEPT !.kind = "wait"]
             p == [op EXCEPT ![s] = o]
  <2>1. /\ o \in Ops /\ o.kind = "wait" /\ o.probing = op[s].probing /\ o.blind = op[s].blind
        /\ op[s].kind = "pin" /\ [op EXCEPT ![s].kind = "wait"] = p
    BY <1>1, <1>3 DEF EnterPin, Ops, OpKinds
  <2>2. p \in [Screens -> Ops] /\ p[s] = o /\ \A t \in Screens \ {s} : p[t] = op[t]
    BY <1>1, <2>1, OpsTyped DEF CmTypeOK
  <2> HIDE DEF o
  <2>3. CASE right /\ locked /\ mode # "boot"
    <3>1. locked' = FALSE /\ op' = IF mode = "normal" THEN Announced(p) ELSE p
      BY <1>3, <2>1, <2>3 DEF EnterPin, Opens
    <3> HIDE DEF p
    <3>2. /\ op' \in [Screens -> Ops]
          /\ \A t \in Screens : op[t].kind = "poll" => op'[t] = op[t]
          /\ mode = "normal" => \A t \in Screens : op'[t].kind \notin {"pin", "wait"}
      BY <2>1, <2>2, <3>1, AnnouncedIs
    <3>3. Blamed
      BY <1>3, <3>2 DEF Blamed, CmInv, FlagIsToBlame, FlagNeedsACause, Agree, EnterPin
    <3>4. SeesItOpen'
      BY <1>1, <1>3, <2>1, <2>2, <3>1, <3>2 DEF EnterPin, CmInv, SeesItOpen
    <3>5. CmTypeOK'
      BY <1>1, <1>3, <3>1, <3>2 DEF CmTypeOK, EnterPin, countVars
    <3>6. falseAlarm' = FALSE
      BY <1>1, <1>3 DEF EnterPin, CmInv, CmTypeOK, FlagIsToBlame, OpenKeyIsSeen
    <3>7. QED BY <3>3, <3>4, <3>5, <3>6, CmHolds
  <2>4. CASE ~(right /\ locked /\ mode # "boot")
    <3>1. op' = [op EXCEPT ![s] = o] /\ UNCHANGED <<keyVars, configMode, causes, falseAlarm>>
      BY <1>3, <2>1, <2>4 DEF EnterPin, keyVars, o
    <3>2. opCount' \in 0 .. MaxOps /\ hands' \in 0 .. MaxHands /\ busy' \in 0 .. MaxBusy
      BY <1>1, <1>3 DEF EnterPin, CmTypeOK, countVars
    <3>3. QED BY <2>1, <3>1, <3>2, CallMoves
  <2>5. QED BY <2>3, <2>4
<1>4. CASE Probe(s)
  <2>1. /\ op' = [op EXCEPT ![s] = Rest] /\ op[s].kind # "poll"
        /\ opCount' \in 0 .. MaxOps /\ hands' \in 0 .. MaxHands /\ busy' \in 0 .. MaxBusy
    BY <1>1, <1>4 DEF Probe, Ended, CmTypeOK, countVars
  <2>2. QED BY <1>4, <2>1, RestIs, CallMoves DEF Probe
<1>5. CASE UnlockTimesOut(s)
  <2>1. /\ op' = [op EXCEPT ![s] = Rest] /\ op[s].kind # "poll"
        /\ opCount' \in 0 .. MaxOps /\ hands' \in 0 .. MaxHands /\ busy' \in 0 .. MaxBusy
    BY <1>1, <1>5 DEF UnlockTimesOut, Ended, CmTypeOK, countVars
  <2>2. ~(~locked /\ mode # "boot" /\ ~op[s].blind /\ ~op[s].probing)
    BY <1>1, <1>5 DEF UnlockTimesOut, CmInv, SeesItOpen
  <2>3. falseAlarm' = falseAlarm
    BY <1>5, <2>2 DEF UnlockTimesOut, CmInv, FlagIsToBlame, OpenKeyIsSeen, CmTypeOK
  <2>4. QED BY <1>5, <2>1, <2>3, RestIs, CallMoves DEF UnlockTimesOut
<1>6. QED BY <1>2, <1>3, <1>4, <1>5

(* A key that restarts is locked, in normal mode; if it does not, it is as *)
(* it was.                                                                 *)
LEMMA RestartsTyped ==
  ASSUME CmTypeOK, Restarted \/ UNCHANGED <<mode, locked>>
  PROVE  /\ mode' \in {"normal", "config", "boot"} /\ locked' \in BOOLEAN
         /\ mode = "normal" /\ locked => mode' = "normal" /\ locked'
BY DEF CmTypeOK, Restarted

(* Flag and mode change with a reason given.                               *)
LEMMA ReasonGiven ==
  ASSUME CmInv, NEW why \in SUBSET Causes, Blame(why),
         why # {} \/ Agree(configMode', mode'),
         mode' \in {"normal", "config", "boot"}, locked' \in BOOLEAN, configMode' \in BOOLEAN,
         mode = "normal" /\ locked => mode' = "normal" /\ locked',
         console' = console, falseAlarm' = falseAlarm, op' \in [Screens -> Ops],
         \A s \in Screens : op'[s] = op[s] \/ op'[s].kind \notin {"pin", "wait"},
         opCount' \in 0 .. MaxOps, hands' \in 0 .. MaxHands, busy' \in 0 .. MaxBusy
  PROVE  CmInv'
<1>1. CmTypeOK
  BY DEF CmInv
<1>2. causes' \subseteq Causes /\ Blamed
  BY <1>1, BlameIs DEF Blamed, Agree
<1>3. CmTypeOK'
  BY <1>1, <1>2 DEF CmTypeOK
<1>4. QED BY <1>2, <1>3, KeyMovesOn

(* What restarts the key, or is believed to, keeps the invariant.          *)
LEMMA RestartKeeps ==
  ASSUME CmInv, NEW s \in Screens,
         ConsoleRestart(s) \/ RestartByRestore(s) \/ BeginRestore(s) \/ Restore(s) \/ RestoreLost(s)
           \/ RequestFirmwareUpdate(s) \/ SendFirmware(s)
  PROVE  CmInv'
<1>1. /\ CmTypeOK /\ op[s] \in Ops /\ mode \in {"normal", "config", "boot"} /\ configMode \in BOOLEAN
      /\ op \in [Screens -> Ops]
      /\ opCount \in 0 .. MaxOps /\ hands \in 0 .. MaxHands /\ busy \in 0 .. MaxBusy
      /\ locked \in BOOLEAN
  BY DEF CmInv, CmTypeOK
<1>2. Start(s) => opCount' \in 0 .. MaxOps /\ op[s].kind = "none"
  BY <1>1, ConfigModeAssumption DEF Start
<1>3. /\ {"noConsole"} \in SUBSET Causes /\ {"silentDrop"} \in SUBSET Causes /\ {} \in SUBSET Causes
      /\ {"refusedRestore"} \in SUBSET Causes /\ {"firmware"} \in SUBSET Causes
  BY DEF Causes
<1>4. Ended(s) => /\ op' \in [Screens -> Ops]
                  /\ \A t \in Screens : op'[t] = op[t] \/ op'[t].kind \notin {"pin", "wait"}
  BY <1>1, RestIs DEF Ended
<1>5. CASE ConsoleRestart(s)
  <2>1. Restarted \/ UNCHANGED <<mode, locked>>
    BY <1>5 DEF ConsoleRestart
  <2>2. QED BY <1>1, <1>2, <1>3, <1>5, <2>1, RestartsTyped, ReasonGiven DEF ConsoleRestart
<1>6. CASE RestartByRestore(s)
  <2>1. CASE ~TakesRestore /\ UNCHANGED <<mode, locked, configMode, causes>>
    <3>1. op' = [op EXCEPT ![s] = op[s]]
      BY <1>1, <1>6 DEF RestartByRestore
    <3>2. UNCHANGED <<keyVars, configMode, causes, falseAlarm>>
      BY <1>6, <2>1 DEF RestartByRestore, keyVars
    <3>3. QED BY <1>1, <1>2, <1>6, <3>1, <3>2, CallMoves DEF RestartByRestore
  <2>2. CASE configMode' = FALSE /\ (Restarted \/ UNCHANGED <<mode, locked>>) /\ Blame({"silentDrop"})
    BY <1>1, <1>2, <1>3, <1>6, <2>2, RestartsTyped, ReasonGiven DEF RestartByRestore
  <2>3. QED BY <1>6, <2>1, <2>2 DEF RestartByRestore
<1>7. CASE BeginRestore(s)
  <2>1. PICK o \in Ops : /\ op' = [op EXCEPT ![s] = o]
                         /\ o.kind \notin {"poll", "pin", "wait"} \/ o = op[s]
    <3>1. CASE TakesRestore
      <4> DEFINE o == [op[s] EXCEPT !.kind = "restore"]
      <4>1. o \in Ops /\ o.kind = "restore"
        BY <1>1 DEF Ops, OpKinds
      <4>2. op' = [op EXCEPT ![s] = o]
        BY <1>1, <1>7, <3>1 DEF BeginRestore
      <4> HIDE DEF o
      <4>3. QED BY <4>1, <4>2
    <3>2. CASE ~TakesRestore
      <4>1. op' = [op EXCEPT ![s] = op[s]]
        BY <1>1, <1>7, <3>2 DEF BeginRestore
      <4>2. QED BY <1>1, <4>1
    <3>3. QED BY <3>1, <3>2
  <2>2. op[s].kind # "poll"
    BY <1>2, <1>7 DEF BeginRestore
  <2>3. QED BY <1>1, <1>2, <1>7, <2>1, <2>2, CallMoves DEF BeginRestore
<1>8. CASE Restore(s)
  <2>1. Restarted \/ UNCHANGED <<mode, locked>>
    BY <1>8 DEF Restore, StreamRestore
  <2>2. configMode' = FALSE /\ Blame({"refusedRestore"}) /\ Ended(s)
    BY <1>8 DEF Restore, StreamRestore
  <2>3. opCount' \in 0 .. MaxOps
    BY <1>1, <1>2, <1>8 DEF Restore
  <2>4. QED BY <1>1, <1>3, <1>4, <1>8, <2>1, <2>2, <2>3, RestartsTyped, ReasonGiven DEF Restore
<1>9. CASE RestoreLost(s)
  <2>1. mode' = mode /\ locked' = locked /\ configMode' = FALSE /\ Agree(configMode', mode')
    BY <1>1, <1>9 DEF RestoreLost, keyVars, Agree
  <2>2. QED BY <1>1, <1>3, <1>4, <1>9, <2>1, ReasonGiven DEF RestoreLost, keyVars, countVars
<1>10. CASE RequestFirmwareUpdate(s)
  <2>1. mode' \in {"normal", "config", "boot"} /\ (mode = "normal" => mode' = "normal")
    BY <1>1, <1>10 DEF RequestFirmwareUpdate, TakesRestore
  <2>2. QED BY <1>1, <1>2, <1>3, <1>10, <2>1, ReasonGiven DEF RequestFirmwareUpdate
<1>11. CASE SendFirmware(s)
  <2>1. mode' = "normal" /\ locked' = TRUE /\ Agree(configMode', mode') = Agree(configMode, mode)
    BY <1>1, <1>11 DEF SendFirmware, Restarted, Agree
  <2>2. Blamed
    BY <1>11, <2>1 DEF SendFirmware, Blamed, CmInv, FlagIsToBlame, FlagNeedsACause, Agree
  <2>3. CmTypeOK'
    BY <1>1, <1>2, <1>11, <2>1 DEF SendFirmware, CmTypeOK
  <2>4. QED BY <1>11, <2>1, <2>2, <2>3, KeyMovesOn DEF SendFirmware
<1>12. QED BY <1>5, <1>6, <1>7, <1>8, <1>9, <1>10, <1>11

(* And what the holder does by hand.                                       *)
LEMMA HandsKeep ==
  ASSUME CmInv, HandUnlock \/ HandLock \/ Replug
  PROVE  CmInv'
<1>1. /\ CmTypeOK /\ mode \in {"normal", "config", "boot"} /\ configMode \in BOOLEAN
      /\ op \in [Screens -> Ops]
      /\ opCount \in 0 .. MaxOps /\ hands \in 0 .. MaxHands /\ busy \in 0 .. MaxBusy
      /\ locked \in BOOLEAN
  BY DEF CmInv, CmTypeOK
<1>2. ByHand => hands' \in 0 .. MaxHands
  BY <1>1, ConfigModeAssumption DEF ByHand
<1>3. CASE HandUnlock
  <2>1. op' = (IF mode = "normal" THEN Announced(op) ELSE op) /\ locked' = FALSE
    BY <1>3 DEF HandUnlock, Opens
  <2>2. /\ op' \in [Screens -> Ops]
        /\ \A t \in Screens : op[t].kind = "poll" => op'[t] = op[t]
        /\ mode = "normal" => \A t \in Screens : op'[t].kind \notin {"pin", "wait"}
        /\ mode # "normal" => op' = op
    BY <1>1, <2>1, AnnouncedIs
  <2>3. Blamed
    BY <1>3, <2>2 DEF Blamed, CmInv, FlagIsToBlame, FlagNeedsACause, Agree, HandUnlock
  <2>4. SeesItOpen'
    BY <1>3, <2>1, <2>2 DEF HandUnlock, CmInv, SeesItOpen
  <2>5. CmTypeOK'
    BY <1>1, <1>2, <1>3, <2>1, <2>2 DEF CmTypeOK, HandUnlock
  <2>6. falseAlarm' = FALSE
    BY <1>1, <1>3 DEF HandUnlock, CmInv, CmTypeOK, FlagIsToBlame, OpenKeyIsSeen
  <2>7. QED BY <2>3, <2>4, <2>5, <2>6, CmHolds
<1>4. CASE HandLock
  <2>1. Blamed
    BY <1>4 DEF Blamed, CmInv, FlagIsToBlame, FlagNeedsACause, Agree, HandLock
  <2>2. CmTypeOK'
    BY <1>1, <1>2, <1>4 DEF CmTypeOK, HandLock
  <2>3. QED BY <1>1, <1>4, <2>1, <2>2, KeyMovesOn DEF HandLock
<1>5. CASE Replug
  <2>1. {"byHand"} \in SUBSET Causes
    BY DEF Causes
  <2>2. QED BY <1>1, <1>2, <1>5, <2>1, RestartsTyped, ReasonGiven DEF Replug
<1>6. QED BY <1>3, <1>4, <1>5

(* Every step keeps it.                                                    *)
LEMMA CmKept == CmInv /\ [CmNext]_cmVars => CmInv'
<1> SUFFICES ASSUME CmInv, [CmNext]_cmVars PROVE CmInv'
  OBVIOUS
<1>1. CASE UNCHANGED cmVars
  BY <1>1 DEF cmVars, CmInv, CmTypeOK, FlagIsToBlame, FlagNeedsACause, OpenKeyIsSeen, SeesItOpen, Agree
<1>2. ASSUME NEW s \in Screens, Answering(s) PROVE CmInv'
  <2>1. TRUE \in BOOLEAN /\ FALSE \in BOOLEAN
    OBVIOUS
  <2>2. QED BY <1>2, <2>1, EnterKeeps, UnlockKeeps, RestartKeeps, Zenon DEF Answering
<1>3. QED BY <1>1, <1>2, EnterKeeps, UnlockKeeps, RestartKeeps, HandsKeep, Zenon DEF CmNext

(* The inductive invariant of the flag: type, blame, and what an unlock    *)
(* without a doubt has before it.                                          *)
THEOREM FlagInvariant == CmSpec => []CmInv
BY CmAtFirst, CmKept, PTL DEF CmSpec

(* The flag differs from the key's mode, and an unlock misses an open key, *)
(* only for a cause that has a name (enterConfigMode, unlock, restart).    *)
THEOREM FlagHasACause == CmSpec => []FlagIsToBlame
<1>1. CmInv => FlagIsToBlame
  BY DEF CmInv
<1>2. QED BY <1>1, FlagInvariant, PTL

-----------------------------------------------------------------------------
(* The PIN bracket.                                                        *)

(* Nothing on its way, and the key not at work.                            *)
Still == okpin = 0 /\ typed = << >> /\ ~committing
Silent == vendor = << >> /\ log = << >> /\ heard = << >>

(* Each channel has just these lines, and nobody has heard them.           *)
Saying(onWire, onConsole) ==
  /\ vendor = onWire /\ log = IF debug THEN onConsole ELSE << >>
  /\ heard = << >>
Prompts(line) == Saying(<<line>>, <<line>>)

(* Where the key is when a step begins.                                    *)
Stage(s) ==
  /\ s = 1 => (late = 0 => at = 0)
  /\ s \in {2, 3} => at = 1
  /\ s = 4 => at = 2
  /\ s \in {5, 6} => at = 3
  /\ s \in {2, 5} => entry = << >>
  /\ s \in {3, 6} => entry = Digits
  /\ s \in {4, 5, 6} => first = Digits

(* The last step: the PIN is being written, or it has been.                *)
Writing == committing /\ entry = Digits
Written == ~committing /\ pinHeld = Digits
Commits ==
  /\ okpin = 0 /\ at = 0 /\ typed = << >>
  /\ \/ Writing /\ vendor = << >> /\ log = << >> /\ heard = <<"bothMatch">>
     \/ Written

(* A step has sent OKPIN, and the key has not taken it or has answered.    *)
(* Answers that do not fit are met in the first step, when the bracket     *)
(* before was left.                                                        *)
Misfits == late > 0 /\ ~Has({"enter"}, vendor) /\ ~Has({"enter"}, log) /\ ~Has({"enter"}, heard)
Sent(s) ==
  /\ typed = << >>
  /\ \/ okpin = 1 /\ ~committing /\ Silent /\ Stage(s)
     \/ /\ okpin = 0
        /\ \/ s = 1 /\ ((~committing /\ Prompts("enter") /\ Stage(2)) \/ Misfits)
           \/ s = 3 /\ ~committing /\ Prompts("storing") /\ Stage(4)
           \/ s = 4 /\ ~committing /\ Prompts("confirm") /\ Stage(5)
           \/ s = 6 /\ at = 0 /\ Writing /\ Saying(<< >>, <<"bothMatch">>)
           \/ s = 6 /\ at = 0 /\ Written /\ Saying(<<"setPin">>, <<"bothMatch", "setPin">>)

(* The digits are going in, and each is said on the console.               *)
Typing(s) ==
  /\ okpin = 0 /\ ~committing /\ vendor = << >>
  /\ at = (IF s = 2 THEN 1 ELSE 3) /\ (s = 5 => first = Digits)
  /\ entry \o typed = Digits
  /\ heard \in Seq({"ack"}) /\ log \in Seq({"ack"})
  /\ debug => Len(heard) + Len(log) + Len(typed) = Len(Digits)

(* Between brackets.                                                       *)
Apart ==
  /\ late = 0 => okpin = 0 /\ ~committing /\ at = 0 /\ (outcome # "ok" => typed = << >>)
  /\ outcome = "ok" => okpin = 0 /\ at = 0 /\ Written

InStep ==
  /\ step = 0 => Apart
  /\ step \in 1 .. 6 /\ phase = "start" => Still /\ Stage(step)
  /\ step = 7 => Commits
  /\ step \in {1, 3, 4, 6} /\ phase = "await" => Sent(step)
  /\ step \in {2, 5} /\ phase = "await" => Typing(step)

(* Nothing came late in this bracket, or in any.                           *)
Timely == late = 0 \/ ~spoiled

PinInv ==
  /\ PinTypeOK /\ NoCauseToRefuse
  /\ ~debug => hook /\ log = << >> /\ heard = << >>
  /\ Timely => InStep

(* What PIN_SEQUENCE does in each step, and what it waits for.             *)
LEMMA SequenceIs ==
  /\ Len(Sequence) = 7
  /\ \A s \in {1, 3, 4, 6} : Sequence[s].does = "send"
  /\ \A s \in {2, 5} : Sequence[s].does = "digits"
  /\ Sequence[7].does = "wait"
  /\ \A s \in {1, 3, 4, 6} : Sequence[s].expect = IF s = 1 THEN "enter" ELSE IF s = 3 THEN "storing"
                                                  ELSE IF s = 4 THEN "confirm" ELSE "matched"
  /\ Sequence[7].expect = "committed"
BY DEF Sequence

(* The lines each wait accepts, on each channel.                           *)
LEMMA ExpectIs ==
  /\ \A line \in {"enter", "storing", "confirm"} : OnWire(line) = {line} /\ OnConsole(line) = {line}
  /\ OnWire("matched") = {"setPin"} /\ OnConsole("matched") = {"bothMatch"}
  /\ OnConsole("committed") = {"setPin"}
BY DEF OnWire, OnConsole

(* The steps there are, by what they do.                                   *)
LEMMA StepsAre ==
  ASSUME NEW s \in 1 .. Len(Sequence)
  PROVE  /\ s \in 1 .. 7
         /\ Sequence[s].does = "send" <=> s \in {1, 3, 4, 6}
         /\ Sequence[s].does = "digits" <=> s \in {2, 5}
         /\ Sequence[s].does = "wait" <=> s = 7
BY SequenceIs

(* Which lines there are in a sequence of them.                            *)
LEMMA HasNone == ASSUME NEW L PROVE ~Has(L, << >>)
BY DEF Has

(* A sequence of one.                                                      *)
LEMMA HasOne == ASSUME NEW L, NEW x PROVE Has(L, <<x>>) <=> x \in L
BY DEF Has

(* One sequence behind another.                                            *)
LEMMA HasBoth ==
  ASSUME NEW L, NEW T, NEW s \in Seq(T), NEW t \in Seq(T)
  PROVE  Has(L, s \o t) <=> Has(L, s) \/ Has(L, t)
<1>1. /\ DOMAIN s = 1 .. Len(s) /\ DOMAIN t = 1 .. Len(t) /\ DOMAIN (s \o t) = 1 .. Len(s) + Len(t)
      /\ Len(s) \in Nat /\ Len(t) \in Nat
  BY ConcatProperties, LenProperties, ElementOfSeq
<1>2. /\ \A k \in 1 .. Len(s) : (s \o t)[k] = s[k]
      /\ \A k \in 1 .. Len(t) : (s \o t)[Len(s) + k] = t[k]
  BY ConcatProperties
<1>3. ASSUME Has(L, s \o t) PROVE Has(L, s) \/ Has(L, t)
  <2>1. PICK k \in 1 .. Len(s) + Len(t) : (s \o t)[k] \in L
    BY <1>1, <1>3 DEF Has
  <2>2. CASE k \in 1 .. Len(s)
    BY <1>1, <1>2, <2>1, <2>2 DEF Has
  <2>3. CASE k \notin 1 .. Len(s)
    <3>1. k - Len(s) \in 1 .. Len(t) /\ k = Len(s) + (k - Len(s))
      BY <1>1, <2>1, <2>3
    <3>2. t[k - Len(s)] \in L
      BY <1>2, <2>1, <3>1
    <3>3. QED BY <1>1, <3>1, <3>2 DEF Has
  <2>4. QED BY <2>2, <2>3
<1>4. ASSUME Has(L, s) PROVE Has(L, s \o t)
  <2>1. PICK k \in 1 .. Len(s) : s[k] \in L
    BY <1>1, <1>4 DEF Has
  <2>2. k \in 1 .. Len(s) + Len(t) /\ (s \o t)[k] \in L
    BY <1>1, <1>2, <2>1
  <2>3. QED BY <1>1, <2>2 DEF Has
<1>5. ASSUME Has(L, t) PROVE Has(L, s \o t)
  <2>1. PICK k \in 1 .. Len(t) : t[k] \in L
    BY <1>1, <1>5 DEF Has
  <2>2. Len(s) + k \in 1 .. Len(s) + Len(t) /\ (s \o t)[Len(s) + k] \in L
    BY <1>1, <1>2, <2>1
  <2>3. QED BY <1>1, <2>2 DEF Has
<1>6. QED BY <1>3, <1>4, <1>5

(* A line that was put in front of others.                                 *)
LEMMA HasHead ==
  ASSUME NEW L, NEW T, NEW s \in Seq(T), s # << >>
  PROVE  Head(s) \in L => Has(L, s)
<1>1. Head(s) = s[1] /\ 1 \in DOMAIN s
  BY HeadTailProperties, ElementOfSeq, LenProperties, EmptySeq
<1>2. QED BY <1>1 DEF Has

(* The rest of them has no others.                                         *)
LEMMA HasTail ==
  ASSUME NEW L, NEW T, NEW s \in Seq(T), s # << >>
  PROVE  Has(L, Tail(s)) => Has(L, s)
<1>1. /\ Tail(s) \in Seq(T) /\ Len(Tail(s)) = Len(s) - 1 /\ Len(s) \in Nat
      /\ \A i \in 1 .. Len(Tail(s)) : Tail(s)[i] = s[i + 1]
  BY HeadTailProperties, LenProperties
<1>2. DOMAIN s = 1 .. Len(s) /\ DOMAIN Tail(s) = 1 .. Len(Tail(s))
  BY <1>1, LenProperties
<1>3. QED BY <1>1, <1>2 DEF Has

(* Acks are counted by the length of what has nothing else.                *)
LEMMA AcksAre ==
  ASSUME NEW s \in Seq({"ack"})
  PROVE  LinesOf("ack", s) = Len(s)
<1>1. Len(s) \in Nat /\ DOMAIN s = 1 .. Len(s)
  BY LenProperties
<1>2. \A k \in 1 .. Len(s) : s[k] = "ack"
  BY <1>1, ElementOfSeq
<1>3. {k \in DOMAIN s : s[k] = "ack"} = 1 .. Len(s)
  BY <1>1, <1>2
<1>4. Cardinality(1 .. Len(s)) = Len(s)
  BY <1>1, FS_Interval
<1>5. QED BY <1>3, <1>4 DEF LinesOf

(* One line more.                                                          *)
LEMMA HasMore ==
  ASSUME NEW L, NEW T, NEW s \in Seq(T), NEW x \in T
  PROVE  Has(L, Append(s, x)) <=> Has(L, s) \/ x \in L
<1>1. Append(s, x) = s \o <<x>> /\ <<x>> \in Seq(T)
  BY AppendIsConcat
<1>2. Has(L, s \o <<x>>) <=> Has(L, s) \/ Has(L, <<x>>)
  BY <1>1, HasBoth, Zenon
<1>3. QED BY <1>1, <1>2, HasOne

(* What a bracket's invariant is to show of a step.                        *)
LEMMA PinHolds ==
  ASSUME PinTypeOK', late' = 0 => ~Has(Refusals, vendor') /\ ~Has(Refusals, log'),
         (~debug => hook /\ log = << >> /\ heard = << >>)', Timely' => InStep'
  PROVE  PinInv'
BY DEF PinInv, NoCauseToRefuse

(* The first of the lines that came, and the rest.                         *)
LEMMA LinesComeOff ==
  ASSUME NEW s \in Seq(Lines), s # << >>
  PROVE  Head(s) \in Lines /\ Tail(s) \in Seq(Lines)
BY HeadTailProperties

(* No bracket is under way when one begins.                                *)
LEMMA SetPinKeeps == PinInv /\ SetPin => PinInv'
<1> SUFFICES ASSUME PinInv, SetPin PROVE PinInv'
  OBVIOUS
<1>1. PinTypeOK
  BY DEF PinInv
<1>2. hook' \in BOOLEAN /\ (~debug => hook')
  BY DEF SetPin
<1>3. PinTypeOK'
  <2>1. spoiled' \in BOOLEAN
    BY DEF SetPin
  <2>2. step' \in 0 .. Len(Sequence) /\ calls' \in 0 .. MaxBrackets
    BY <1>1, SequenceIs, PinAssumption DEF SetPin, PinTypeOK
  <2>3. QED BY <1>1, <1>2, <2>1, <2>2 DEF SetPin, PinTypeOK, pinKeyVars
<1>4. ASSUME Timely' PROVE InStep'
  <2>1. Still /\ (late = 0 => at = 0)
    <3>1. CASE late = 0
      <4>1. Apart
        BY <3>1 DEF PinInv, Timely, InStep, SetPin
      <4>2. QED BY <3>1, <4>1 DEF Apart, Still, SetPin
    <3>2. CASE late # 0
      <4>1. ~spoiled'
        BY <1>4, <3>2 DEF Timely, SetPin
      <4>2. QED BY <3>2, <4>1 DEF SetPin, Still
    <3>3. QED BY <3>1, <3>2
  <2>2. step' = 1 /\ phase' = "start" /\ Still' /\ Stage(1)'
    BY <2>1 DEF SetPin, Still, Stage, pinKeyVars
  <2>3. QED BY <2>2 DEF InStep
<1>5. QED BY <1>2, <1>3, <1>4, PinHolds DEF SetPin, PinInv, NoCauseToRefuse

(* A step begins with both channels silent, or something is late.          *)
LEMMA LagIs ==
  ASSUME PinInv, ChannelMayLag
  PROVE  /\ late' \in 0 .. MaxLate /\ spoiled' \in BOOLEAN /\ (late' = 0 => late = 0)
         /\ Timely' => Timely /\ vendor = << >> /\ log = << >> /\ late' = late
<1>1. late \in 0 .. MaxLate /\ spoiled \in BOOLEAN /\ MaxLate \in Nat
  BY PinAssumption DEF PinInv, PinTypeOK
<1>2. CASE log = << >> /\ vendor = << >>
  BY <1>1, <1>2 DEF ChannelMayLag, Timely
<1>3. CASE ~(log = << >> /\ vendor = << >>)
  <2>1. late < MaxLate /\ late' = late + 1 /\ spoiled' = TRUE
    BY <1>3 DEF ChannelMayLag
  <2>2. ~Timely'
    BY <1>1, <2>1 DEF Timely
  <2>3. QED BY <1>1, <2>1, <2>2
<1>4. QED BY <1>2, <1>3

(* OKPIN goes out, and the step waits for what it brings.                  *)
LEMMA SendOkpinKeeps == PinInv /\ SendOkpin => PinInv'
<1> SUFFICES ASSUME PinInv, SendOkpin PROVE PinInv'
  OBVIOUS
<1>1. PinTypeOK /\ step \in 1 .. Len(Sequence) /\ step \in {1, 3, 4, 6}
  <2>1. PinTypeOK /\ step \in 1 .. Len(Sequence)
    BY SequenceIs DEF PinInv, PinTypeOK, SendOkpin
  <2>2. QED BY <2>1, StepsAre DEF SendOkpin
<1>2. PinTypeOK'
  <2>1. heard' \in Seq(Lines) /\ late' \in 0 .. MaxLate /\ spoiled' \in BOOLEAN
    BY LagIs DEF SendOkpin
  <2>2. QED BY <1>1, <2>1 DEF SendOkpin, PinTypeOK, pinKeyVars
<1>3. ASSUME Timely' PROVE InStep'
  <2>1. Timely /\ vendor = << >> /\ log = << >> /\ late' = late
    BY <1>3, LagIs DEF SendOkpin
  <2>2. Still /\ Stage(step)
    BY <1>1, <2>1 DEF PinInv, InStep, SendOkpin
  <2>3. Sent(step)'
    BY <1>1, <2>1, <2>2 DEF SendOkpin, Sent, Still, Silent, Stage, pinKeyVars
  <2>4. step' = step /\ phase' = "await"
    BY DEF SendOkpin
  <2>5. QED BY <1>1, <2>3, <2>4 DEF InStep
<1>4. late' = 0 => late = 0
  BY LagIs DEF SendOkpin
<1>5. QED BY <1>2, <1>3, <1>4, PinHolds DEF SendOkpin, PinInv, NoCauseToRefuse

(* The digits go out behind whatever is on its way.                        *)
LEMMA SendDigitsKeeps == PinInv /\ SendDigits => PinInv'
<1> SUFFICES ASSUME PinInv, SendDigits PROVE PinInv'
  OBVIOUS
<1>1. PinTypeOK /\ step \in 1 .. Len(Sequence) /\ step \in {2, 5}
  <2>1. PinTypeOK /\ step \in 1 .. Len(Sequence)
    BY SequenceIs DEF PinInv, PinTypeOK, SendDigits
  <2>2. QED BY <2>1, StepsAre DEF SendDigits
<1>2. PinTypeOK'
  <2>1. heard' \in Seq(Lines) /\ late' \in 0 .. MaxLate /\ spoiled' \in BOOLEAN
    BY LagIs DEF SendDigits
  <2>2. typed' \in Seq(Nat)
    BY <1>1, PinAssumption, ConcatProperties DEF SendDigits, PinTypeOK
  <2>3. QED BY <1>1, <2>1, <2>2 DEF SendDigits, PinTypeOK, pinKeyVars
<1>3. ASSUME Timely' PROVE InStep'
  <2>1. Timely /\ vendor = << >> /\ log = << >> /\ late' = late
    BY <1>3, LagIs DEF SendDigits
  <2>2. Still /\ Stage(step)
    BY <1>1, <2>1 DEF PinInv, InStep, SendDigits
  <2>3. typed' = Digits /\ entry' = << >> /\ entry' \o typed' = Digits
    BY <1>1, <2>2, PinAssumption, ConcatEmptySeq DEF SendDigits, Still, Stage, pinKeyVars
  <2>4. heard' = << >> /\ log' = << >> /\ << >> \in Seq({"ack"}) /\ Len(<< >>) = 0 /\ Len(Digits) \in Nat
    BY <2>1, PinAssumption, LenProperties DEF SendDigits
  <2>5. Typing(step)'
    BY <1>1, <2>1, <2>2, <2>3, <2>4 DEF SendDigits, Typing, Still, Stage, pinKeyVars
  <2>6. step' = step /\ phase' = "await"
    BY DEF SendDigits
  <2>7. QED BY <1>1, <2>5, <2>6 DEF InStep
<1>4. late' = 0 => late = 0
  BY LagIs DEF SendDigits
<1>5. QED BY <1>2, <1>3, <1>4, PinHolds DEF SendDigits, PinInv, NoCauseToRefuse

(* All digits are in once they were pressed, or all acks were heard.       *)
LEMMA DigitsInKeeps == PinInv /\ DigitsIn => PinInv'
<1> SUFFICES ASSUME PinInv, DigitsIn PROVE PinInv'
  OBVIOUS
<1>1. PinTypeOK /\ step \in 1 .. Len(Sequence) /\ step \in {2, 5} /\ phase = "await"
  <2>1. PinTypeOK /\ step \in 1 .. Len(Sequence)
    BY SequenceIs DEF PinInv, PinTypeOK, DigitsIn
  <2>2. QED BY <2>1, StepsAre DEF DigitsIn
<1>2. step' = step + 1 /\ phase' = "start" /\ outcome' = outcome
  BY <1>1, SequenceIs DEF DigitsIn, Passed
<1>3. PinTypeOK'
  BY <1>1, <1>2, SequenceIs DEF DigitsIn, PinTypeOK, pinKeyVars
<1>4. ASSUME Timely' PROVE InStep'
  <2>1. Typing(step)
    BY <1>1, <1>4 DEF PinInv, InStep, Timely, DigitsIn
  <2>2. Len(typed) \in Nat /\ Len(log) \in Nat /\ Len(heard) \in Nat /\ Len(Digits) \in Nat
    BY <1>1, PinAssumption, LenProperties DEF PinTypeOK
  <2>3. typed = << >>
    <3>1. CASE hook
      BY <3>1 DEF DigitsIn
    <3>2. CASE ~hook
      <4>1. debug
        BY <3>2 DEF PinInv
      <4>2. Len(heard) >= Len(Digits)
        BY <2>1, <3>2, AcksAre DEF DigitsIn, Typing
      <4>3. Len(typed) = 0
        BY <2>1, <2>2, <4>1, <4>2 DEF Typing
      <4>4. QED BY <1>1, <4>3, EmptySeq DEF PinTypeOK
    <3>3. QED BY <3>1, <3>2
  <2>4. entry = Digits
    BY <1>1, <2>1, <2>3, ConcatEmptySeq DEF Typing, PinTypeOK
  <2>5. step' \in {3, 6} /\ Still' /\ Stage(step)'
    BY <1>1, <1>2, <2>1, <2>3, <2>4 DEF DigitsIn, Typing, Still, Stage, pinKeyVars
  <2>6. QED BY <1>2, <2>5 DEF InStep
<1>5. QED BY <1>3, <1>4, PinHolds DEF DigitsIn, PinInv, NoCauseToRefuse

(* How a call of setPin goes on or ends.                                   *)
LEMMA GoesOnIs ==
  ASSUME PinTypeOK, step # 0,
         Passed \/ Failed \/ UNCHANGED <<step, phase, outcome>>
  PROVE  /\ step' \in 0 .. Len(Sequence) /\ phase' \in {"start", "await"}
         /\ outcome' \in {"none", "ok", "failed"}
<1> DEFINE last == Len(Sequence)
<1>1. last \in Nat /\ step \in 0 .. last
  BY SequenceIs DEF PinTypeOK
<1>2. phase \in {"start", "await"} /\ outcome \in {"none", "ok", "failed"}
  BY DEF PinTypeOK
<1> HIDE DEF last
<1>3. CASE Passed
  <2>1. CASE step = last
    BY <1>1, <1>3, <2>1 DEF Passed, last
  <2>2. CASE step # last
    <3>1. step' = step + 1 /\ phase' = "start" /\ outcome' = outcome
      BY <1>3, <2>2 DEF Passed, last
    <3>2. step' \in 0 .. last
      BY <1>1, <2>2, <3>1
    <3>3. QED BY <1>2, <3>1, <3>2 DEF last
  <2>3. QED BY <2>1, <2>2
<1>4. CASE Failed
  BY <1>1, <1>4 DEF Failed, last
<1>5. CASE UNCHANGED <<step, phase, outcome>>
  BY <1>1, <1>2, <1>5 DEF last
<1>6. QED BY <1>3, <1>4, <1>5

(* A line on the wire is of the step that waits for it.                    *)
LEMMA HearWireKeeps == PinInv /\ HearWire => PinInv'
<1> SUFFICES ASSUME PinInv, HearWire PROVE PinInv'
  OBVIOUS
<1> DEFINE line == Head(vendor)
           sends == step # 0 /\ phase # "start" /\ Sequence[step].does = "send"
<1>1. PinTypeOK /\ vendor \in Seq(Lines) /\ vendor # << >> /\ step \in 0 .. 7
      /\ phase \in {"start", "await"} /\ log \in Seq(Lines) /\ heard \in Seq(Lines)
  BY SequenceIs DEF PinInv, PinTypeOK, HearWire
<1>2. line \in Lines /\ vendor' \in Seq(Lines) /\ vendor' = Tail(vendor)
  BY <1>1, LinesComeOff DEF HearWire
<1>3. sends <=> step \in {1, 3, 4, 6} /\ phase = "await"
  BY <1>1, StepsAre, SequenceIs
<1>4. /\ ~sends => UNCHANGED <<step, phase, outcome>>
      /\ sends /\ line \in Refusals => Failed
      /\ sends /\ line \notin Refusals /\ line \in OnWire(Sequence[step].expect) => Passed
      /\ sends /\ line \notin Refusals /\ line \notin OnWire(Sequence[step].expect) =>
           UNCHANGED <<step, phase, outcome>>
  BY <1>1 DEF HearWire
<1>5. PinTypeOK'
  <2>1. /\ step' \in 0 .. Len(Sequence) /\ phase' \in {"start", "await"}
        /\ outcome' \in {"none", "ok", "failed"}
    <3>1. CASE sends
      BY <1>1, <1>4, <3>1, GoesOnIs
    <3>2. CASE ~sends
      BY <1>1, <1>4, <3>2, SequenceIs DEF PinTypeOK
    <3>3. QED BY <3>1, <3>2
  <2>2. QED BY <1>1, <1>2, <2>1 DEF PinTypeOK, HearWire, pinKeyVars
<1>6. late' = 0 => ~Has(Refusals, vendor') /\ ~Has(Refusals, log')
  BY <1>1, <1>2, HasTail DEF PinInv, NoCauseToRefuse, HearWire
<1>7. ASSUME Timely' PROVE InStep'
  <2>1. InStep
    BY <1>7 DEF PinInv, Timely, HearWire
  <2>2. /\ okpin' = okpin /\ typed' = typed /\ log' = log /\ heard' = heard /\ debug' = debug
        /\ at' = at /\ entry' = entry /\ first' = first /\ committing' = committing
        /\ pinHeld' = pinHeld /\ late' = late
    BY DEF HearWire, pinKeyVars
  <2>3. CASE ~sends
    <3>1. step' = step /\ phase' = phase /\ outcome' = outcome
      BY <1>4, <2>3
    <3>2. step = 0 => Apart'
      BY <2>1, <2>2, <3>1 DEF InStep, Apart, Written
    <3>3. step \in 1 .. 6 /\ phase = "start" => Still' /\ Stage(step)'
      BY <2>1, <2>2, <3>1 DEF InStep, Still, Stage
    <3>4. step = 7 => Commits'
      BY <1>1, <2>1, <2>2 DEF InStep, Commits, Written, Writing
    <3>5. ~(step \in {2, 5} /\ phase = "await")
      BY <1>1, <2>1 DEF InStep, Typing
    <3>6. QED BY <1>3, <2>3, <3>1, <3>2, <3>3, <3>4, <3>5 DEF InStep
  <2>4. CASE sends
    <3>1. Sent(step) /\ step \in {1, 3, 4, 6} /\ phase = "await"
      BY <1>3, <2>1, <2>4 DEF InStep
    <3>2. okpin = 0 /\ typed = << >>
      BY <1>1, <3>1 DEF Sent, Silent
    <3>3. CASE step = 1 /\ Misfits
      <4>1. line # "enter" /\ Misfits'
        <5>1. ~Has({"enter"}, vendor')
          BY <1>1, <1>2, <3>3, HasTail DEF Misfits
        <5>2. line # "enter"
          BY <1>1, <3>3, HasHead DEF Misfits
        <5>3. QED BY <2>2, <3>3, <5>1, <5>2 DEF Misfits
      <4>2. OnWire(Sequence[step].expect) = {"enter"}
        BY <3>3, SequenceIs, ExpectIs
      <4>3. CASE line \in Refusals
        <5>1. step' = 0 /\ outcome' = "failed" /\ late' # 0
          BY <1>1, <1>4, <2>2, <2>4, <3>3, <4>3 DEF Failed, Misfits, PinTypeOK
        <5>2. QED BY <5>1 DEF InStep, Apart
      <4>4. CASE line \notin Refusals
        <5>1. step' = step /\ phase' = phase
          BY <1>4, <2>4, <4>1, <4>2, <4>4
        <5>2. Sent(step)'
          BY <2>2, <3>2, <3>3, <4>1, <5>1 DEF Sent
        <5>3. QED BY <3>1, <3>3, <5>1, <5>2 DEF InStep
      <4>5. QED BY <4>3, <4>4
    <3>4. CASE step \in {1, 3, 4} /\ ~(step = 1 /\ Misfits)
      <4>1. ~committing /\ Stage(step + 1)
            /\ vendor = <<IF step = 1 THEN "enter" ELSE IF step = 3 THEN "storing" ELSE "confirm">>
        BY <3>1, <3>2, <3>4 DEF Sent, Prompts, Saying
      <4>2. line \in OnWire(Sequence[step].expect) /\ line \notin Refusals
        BY <3>4, <4>1, SequenceIs, ExpectIs DEF Refusals
      <4>3. step' = step + 1 /\ phase' = "start"
        BY <1>4, <2>4, <3>4, <4>2, SequenceIs DEF Passed
      <4>4. step' \in {2, 4, 5} /\ Still' /\ Stage(step)'
        BY <2>2, <3>2, <3>4, <4>1, <4>3 DEF Still, Stage
      <4>5. QED BY <4>3, <4>4 DEF InStep
    <3>5. CASE step = 6
      <4>1. at = 0 /\ Written /\ vendor = <<"setPin">>
        BY <1>1, <3>1, <3>2, <3>5 DEF Sent, Saying
      <4>2. line \in OnWire(Sequence[step].expect) /\ line \notin Refusals
        BY <3>5, <4>1, SequenceIs, ExpectIs DEF Refusals
      <4>3. step' = 7
        BY <1>4, <2>4, <3>5, <4>2, SequenceIs DEF Passed
      <4>4. Commits'
        BY <2>2, <3>2, <4>1 DEF Commits, Written
      <4>5. QED BY <4>3, <4>4 DEF InStep
    <3>6. QED BY <3>1, <3>3, <3>4, <3>5
  <2>5. QED BY <2>3, <2>4
<1>8. (~debug => hook /\ log = << >> /\ heard = << >>)'
  BY DEF PinInv, HearWire
<1>9. QED BY <1>5, <1>6, <1>7, <1>8, PinHolds

(* So is one on the console, with those heard before it.                   *)
LEMMA HearLogKeeps == PinInv /\ HearLog => PinInv'
<1> SUFFICES ASSUME PinInv, HearLog PROVE PinInv'
  OBVIOUS
<1> DEFINE line == Head(log)
           text == Append(heard, line)
           waits == step # 0 /\ phase # "start" /\ Sequence[step].does # "digits"
           sends == waits /\ Sequence[step].does = "send"
<1>1. PinTypeOK /\ log \in Seq(Lines) /\ log # << >> /\ step \in 0 .. 7
      /\ phase \in {"start", "await"} /\ vendor \in Seq(Lines) /\ heard \in Seq(Lines)
  BY SequenceIs DEF PinInv, PinTypeOK, HearLog
<1>2. line \in Lines /\ log' \in Seq(Lines) /\ log' = Tail(log)
  BY <1>1, LinesComeOff DEF HearLog
<1>3. heard' = text /\ text \in Seq(Lines)
  BY <1>1, <1>2, AppendProperties DEF HearLog
<1>4. /\ waits <=> step \in {1, 3, 4, 6, 7} /\ phase = "await"
      /\ sends <=> step \in {1, 3, 4, 6} /\ phase = "await"
  BY <1>1, StepsAre, SequenceIs
<1>5. debug
  BY <1>1 DEF PinInv
<1>6. /\ ~waits => UNCHANGED <<step, phase, outcome>>
      /\ sends /\ Has(Refusals, text) => Failed
      /\ waits /\ ~(sends /\ Has(Refusals, text)) /\ Has(OnConsole(Sequence[step].expect), text) =>
           Passed
      /\ waits /\ ~(sends /\ Has(Refusals, text)) /\ ~Has(OnConsole(Sequence[step].expect), text) =>
           UNCHANGED <<step, phase, outcome>>
  BY <1>1 DEF HearLog
<1> HIDE DEF text
<1>7. PinTypeOK'
  <2>1. /\ step' \in 0 .. Len(Sequence) /\ phase' \in {"start", "await"}
        /\ outcome' \in {"none", "ok", "failed"}
    <3>1. CASE waits
      BY <1>1, <1>6, <3>1, GoesOnIs
    <3>2. CASE ~waits
      BY <1>1, <1>6, <3>2, SequenceIs DEF PinTypeOK
    <3>3. QED BY <3>1, <3>2
  <2>2. QED BY <1>1, <1>2, <1>3, <2>1 DEF PinTypeOK, HearLog, pinKeyVars
<1>8. late' = 0 => ~Has(Refusals, vendor') /\ ~Has(Refusals, log')
  BY <1>1, <1>2, HasTail DEF PinInv, NoCauseToRefuse, HearLog
<1>9. ASSUME Timely' PROVE InStep'
  <2>1. InStep
    BY <1>9 DEF PinInv, Timely, HearLog
  <2>2. /\ okpin' = okpin /\ typed' = typed /\ vendor' = vendor /\ debug' = debug
        /\ at' = at /\ entry' = entry /\ first' = first /\ committing' = committing
        /\ pinHeld' = pinHeld /\ late' = late
    BY DEF HearLog, pinKeyVars
  <2>3. CASE step = 0
    <3>1. step' = step /\ outcome' = outcome
      BY <1>4, <1>6, <2>3
    <3>2. Apart'
      BY <2>1, <2>2, <2>3, <3>1 DEF InStep, Apart, Written
    <3>3. QED BY <2>3, <3>1, <3>2 DEF InStep
  <2>4. CASE step \in 1 .. 6 /\ phase = "start"
    <3>1. step' = step /\ phase' = phase
      BY <1>4, <1>6, <2>4
    <3>2. Still' /\ Stage(step)'
      BY <2>1, <2>2, <2>4, <3>1 DEF InStep, Still, Stage
    <3>3. QED BY <2>4, <3>1, <3>2 DEF InStep
  <2>5. CASE step \in {2, 5} /\ phase = "await"
    <3>1. step' = step /\ phase' = phase
      BY <1>4, <1>6, <2>5
    <3>2. Typing(step)
      BY <2>1, <2>5 DEF InStep
    <3>3. /\ heard' \in Seq({"ack"}) /\ log' \in Seq({"ack"})
          /\ Len(heard') = Len(heard) + 1 /\ Len(log') = Len(log) - 1
          /\ Len(heard) \in Nat /\ Len(log) \in Nat /\ Len(typed) \in Nat
      <4>1. log \in Seq({"ack"}) /\ heard \in Seq({"ack"}) /\ line \in {"ack"}
        BY <1>1, <3>2, HeadTailProperties DEF Typing
      <4>2. log' \in Seq({"ack"}) /\ Len(log') = Len(log) - 1
        BY <1>1, <1>2, <4>1, HeadTailProperties
      <4>3. heard' \in Seq({"ack"}) /\ Len(heard') = Len(heard) + 1
        BY <1>3, <4>1, AppendProperties DEF text
      <4>4. QED BY <1>1, <4>2, <4>3, LenProperties DEF PinTypeOK
    <3>4. Typing(step)'
      BY <2>2, <3>1, <3>2, <3>3 DEF Typing
    <3>5. QED BY <2>5, <3>1, <3>4 DEF InStep
  <2>6. CASE step = 7
    <3>1. okpin = 0 /\ at = 0 /\ typed = << >> /\ Written
      BY <1>1, <2>1, <2>6 DEF InStep, Commits
    <3>2. Commits'
      BY <2>2, <3>1 DEF Commits, Written
    <3>3. step' = 7 \/ (step' = 0 /\ outcome' = "ok")
      BY <1>4, <1>6, <2>6, SequenceIs DEF Passed
    <3>4. step' = 0 => Apart'
      BY <2>2, <3>1, <3>3 DEF Apart, Written
    <3>5. QED BY <3>2, <3>3, <3>4 DEF InStep
  <2>7. CASE step \in {1, 3, 4, 6} /\ phase = "await"
    <3>1. Sent(step) /\ sends
      BY <1>4, <2>1, <2>7 DEF InStep
    <3>2. okpin = 0 /\ typed = << >>
      BY <1>1, <3>1 DEF Sent, Silent
    <3>3. CASE step = 1 /\ Misfits
      <4>1. ~Has({"enter"}, text) /\ Misfits'
        <5>1. ~Has({"enter"}, log')
          BY <1>1, <1>2, <3>3, HasTail DEF Misfits
        <5>2. line # "enter"
          BY <1>1, <3>3, HasHead DEF Misfits
        <5>3. ~Has({"enter"}, text)
          BY <1>1, <1>2, <3>3, <5>2, HasMore DEF Misfits, text
        <5>4. QED BY <1>3, <2>2, <3>3, <5>1, <5>3 DEF Misfits
      <4>2. OnConsole(Sequence[step].expect) = {"enter"}
        BY <3>3, SequenceIs, ExpectIs
      <4>3. CASE Has(Refusals, text)
        <5>1. step' = 0 /\ outcome' = "failed" /\ late' # 0
          BY <1>1, <1>6, <2>2, <3>1, <3>3, <4>3 DEF Failed, Misfits, PinTypeOK
        <5>2. QED BY <5>1 DEF InStep, Apart
      <4>4. CASE ~Has(Refusals, text)
        <5>1. step' = step /\ phase' = phase
          BY <1>6, <3>1, <4>1, <4>2, <4>4
        <5>2. Sent(step)'
          BY <2>2, <3>2, <3>3, <4>1, <5>1 DEF Sent
        <5>3. QED BY <2>7, <3>3, <5>1, <5>2 DEF InStep
      <4>5. QED BY <4>3, <4>4
    <3>4. ASSUME heard = << >> PROVE text = <<line>>
      BY <1>2, <3>4 DEF text
    <3>5. CASE step \in {1, 3, 4} /\ ~(step = 1 /\ Misfits)
      <4>1. ~committing /\ Stage(step + 1) /\ heard = << >>
            /\ log = <<IF step = 1 THEN "enter" ELSE IF step = 3 THEN "storing" ELSE "confirm">>
        BY <1>5, <3>1, <3>2, <3>5 DEF Sent, Prompts, Saying
      <4>2. Has(OnConsole(Sequence[step].expect), text) /\ ~Has(Refusals, text)
        <5>1. line \in OnConsole(Sequence[step].expect) /\ line \notin Refusals
          BY <3>5, <4>1, SequenceIs, ExpectIs DEF Refusals
        <5>2. QED BY <3>4, <4>1, <5>1, HasOne
      <4>3. step' = step + 1 /\ phase' = "start"
        BY <1>6, <3>1, <3>5, <4>2, SequenceIs DEF Passed
      <4>4. step' \in {2, 4, 5} /\ Still' /\ Stage(step)'
        BY <2>2, <3>2, <3>5, <4>1, <4>3 DEF Still, Stage
      <4>5. QED BY <4>3, <4>4 DEF InStep
    <3>6. CASE step = 6
      <4>1. /\ at = 0 /\ heard = << >> /\ line = "bothMatch"
            /\ \/ Written
               \/ Writing /\ vendor = << >> /\ log = <<"bothMatch">>
        BY <1>1, <1>5, <3>1, <3>2, <3>6 DEF Sent, Saying
      <4>2. Has(OnConsole(Sequence[step].expect), text) /\ ~Has(Refusals, text)
        <5>1. line \in OnConsole(Sequence[step].expect) /\ line \notin Refusals
          BY <3>6, <4>1, SequenceIs, ExpectIs DEF Refusals
        <5>2. QED BY <3>4, <4>1, <5>1, HasOne
      <4>3. step' = 7
        BY <1>6, <3>1, <3>6, <4>2, SequenceIs DEF Passed
      <4>4. heard' = <<"bothMatch">> /\ (log = <<"bothMatch">> => log' = << >>)
        BY <1>2, <1>3, <3>4, <4>1
      <4>5. Commits'
        BY <2>2, <3>2, <4>1, <4>4 DEF Commits, Written, Writing
      <4>6. QED BY <4>3, <4>5 DEF InStep
    <3>7. QED BY <2>7, <3>3, <3>5, <3>6
  <2>8. QED BY <1>1, <2>3, <2>4, <2>5, <2>6, <2>7
<1>10. (~debug => hook /\ log = << >> /\ heard = << >>)'
  BY <1>5 DEF HearLog
<1>11. QED BY <1>7, <1>8, <1>9, <1>10, PinHolds

(* The last step goes on only over a PIN that was written.                 *)
LEMMA AwaitCommitKeeps == PinInv /\ AwaitCommit => PinInv'
<1> SUFFICES ASSUME PinInv, AwaitCommit PROVE PinInv'
  OBVIOUS
<1>1. PinTypeOK /\ step = 7 /\ phase = "start"
  <2>1. PinTypeOK /\ step \in 1 .. Len(Sequence)
    BY SequenceIs DEF PinInv, PinTypeOK, AwaitCommit
  <2>2. QED BY <2>1, StepsAre DEF AwaitCommit
<1> DEFINE goes == heard = << >> \/ Has(OnConsole(Sequence[step].expect), heard)
<1>2. /\ goes => step' = 0 /\ phase' = "start" /\ outcome' = "ok"
      /\ ~goes => step' = step /\ phase' = "await" /\ outcome' = outcome
  BY <1>1, SequenceIs DEF AwaitCommit, Passed
<1>3. PinTypeOK'
  BY <1>1, <1>2, SequenceIs DEF PinTypeOK, AwaitCommit, pinKeyVars
<1>4. ASSUME Timely' PROVE InStep'
  <2>1. Commits
    BY <1>1, <1>4 DEF PinInv, InStep, Timely, AwaitCommit
  <2>2. /\ okpin' = okpin /\ typed' = typed /\ vendor' = vendor /\ log' = log /\ heard' = heard
        /\ at' = at /\ entry' = entry /\ committing' = committing /\ pinHeld' = pinHeld
    BY DEF AwaitCommit, pinKeyVars
  <2>3. CASE goes
    <3>1. OnConsole(Sequence[step].expect) = {"setPin"}
      BY <1>1, SequenceIs, ExpectIs
    <3>2. heard # <<"bothMatch">>
      BY <2>3, <3>1, HasOne
    <3>3. Written
      BY <2>1, <3>2 DEF Commits
    <3>4. Apart'
      BY <2>1, <2>2, <3>3 DEF Apart, Commits, Written
    <3>5. QED BY <1>2, <2>3, <3>4 DEF InStep
  <2>4. CASE ~goes
    <3>1. Commits'
      BY <2>1, <2>2 DEF Commits, Written, Writing
    <3>2. QED BY <1>1, <1>2, <2>4, <3>1 DEF InStep
  <2>5. QED BY <2>3, <2>4
<1>5. QED BY <1>3, <1>4, PinHolds DEF AwaitCommit, PinInv, NoCauseToRefuse

(* In a bracket with nothing late, a timer fires only over a misfit, or    *)
(* when the PIN has been written.                                          *)
LEMMA TimesOutKeeps == PinInv /\ TimesOut => PinInv'
<1> SUFFICES ASSUME PinInv, TimesOut PROVE PinInv'
  OBVIOUS
<1>1. PinTypeOK /\ step \in 1 .. 7 /\ phase = "await" /\ late \in 0 .. MaxLate
  BY SequenceIs DEF PinInv, PinTypeOK, TimesOut
<1>2. /\ step = 7 => step' = 0 /\ outcome' = "ok"
      /\ step # 7 => step' = 0 /\ outcome' = "failed"
      /\ phase' = "start"
  BY <1>1, StepsAre, SequenceIs DEF TimesOut, Passed, Failed
<1>3. /\ late' \in 0 .. MaxLate /\ spoiled' \in BOOLEAN /\ (late' = 0 => late = 0)
      /\ Timely' => /\ Timely /\ late' = late /\ vendor = << >> /\ log = << >> /\ okpin = 0
                    /\ typed = << >> /\ ~committing
  <2>1. CASE late < MaxLate /\ late' = late + 1 /\ spoiled' = TRUE
    BY <1>1, <2>1, PinAssumption DEF Timely
  <2>2. CASE /\ vendor = << >> /\ log = << >> /\ okpin = 0 /\ typed = << >> /\ ~committing
             /\ UNCHANGED <<spoiled, late>>
    BY <1>1, <2>2 DEF Timely, PinTypeOK
  <2>3. QED BY <2>1, <2>2 DEF TimesOut
<1>4. PinTypeOK'
  BY <1>1, <1>2, <1>3, SequenceIs DEF PinTypeOK, TimesOut, pinKeyVars
<1>5. ASSUME Timely' PROVE InStep'
  <2>1. /\ InStep /\ late' = late /\ vendor = << >> /\ log = << >> /\ okpin = 0 /\ typed = << >>
        /\ ~committing
    BY <1>3, <1>5 DEF PinInv
  <2>2. /\ okpin' = okpin /\ at' = at /\ committing' = committing /\ pinHeld' = pinHeld
    BY DEF TimesOut, pinKeyVars
  <2>3. CASE step = 7
    <3>1. Written /\ at = 0
      BY <2>1, <2>3 DEF InStep, Commits, Writing
    <3>2. Apart'
      BY <2>1, <2>2, <3>1 DEF Apart, Written, TimesOut
    <3>3. QED BY <1>2, <2>3, <3>2 DEF InStep
  <2>4. CASE step \in {1, 3, 4, 6}
    <3>1. Sent(step)
      BY <1>1, <2>1, <2>4 DEF InStep
    <3>2. late # 0
      BY <1>1, <2>1, <2>4, <3>1 DEF Sent, Prompts, Saying, Writing, Misfits
    <3>3. Apart'
      BY <1>2, <2>1, <2>4, <3>2 DEF Apart
    <3>4. QED BY <1>2, <2>4, <3>3 DEF InStep
  <2>5. CASE step \in {2, 5}
    <3>1. Typing(step)
      BY <1>1, <2>1, <2>5 DEF InStep
    <3>2. debug /\ LinesOf("ack", heard) < Len(Digits)
      BY <1>1, <2>5, SequenceIs DEF TimesOut, PinInv
    <3>3. Len(heard) \in Nat /\ Len(log) = 0 /\ Len(typed) = 0
      BY <1>1, <2>1, LenProperties, EmptySeq DEF PinTypeOK
    <3>4. LinesOf("ack", heard) = Len(Digits)
      BY <3>1, <3>2, <3>3, AcksAre DEF Typing
    <3>5. Len(Digits) \in Nat
      BY PinAssumption, LenProperties
    <3>6. QED BY <3>2, <3>4, <3>5
  <2>6. QED BY <1>1, <2>3, <2>4, <2>5
<1>6. QED BY <1>3, <1>4, <1>5, PinHolds DEF TimesOut, PinInv, NoCauseToRefuse

(* What is pressed after the bracket goes nowhere.                         *)
LEMMA CallerPressesKeeps == PinInv /\ CallerPresses => PinInv'
<1> SUFFICES ASSUME PinInv, CallerPresses PROVE PinInv'
  OBVIOUS
<1>1. PinTypeOK
  BY DEF PinInv
<1>2. Head(Digits) \in Nat
  <2>1. Digits # << >>
    BY PinAssumption, EmptySeq
  <2>2. QED BY <2>1, PinAssumption, HeadTailProperties
<1>3. typed' \in Seq(Nat) /\ presses' \in 0 .. MaxPresses
  <2>1. typed \in Seq(Nat) /\ typed' = Append(typed, Head(Digits))
    BY <1>1 DEF CallerPresses, PinTypeOK
  <2>2. typed' \in Seq(Nat)
    BY <1>2, <2>1, AppendProperties
  <2>3. presses' \in 0 .. MaxPresses
    BY <1>1, PinAssumption DEF CallerPresses, PinTypeOK
  <2>4. QED BY <2>2, <2>3
<1>4. PinTypeOK'
  BY <1>1, <1>3 DEF PinTypeOK, CallerPresses, hostVars, pinKeyVars
<1>5. ASSUME Timely' PROVE InStep'
  <2>1. Apart
    BY <1>5 DEF PinInv, InStep, Timely, CallerPresses
  <2>2. step' = 0 /\ Apart'
    BY <2>1 DEF CallerPresses, hostVars, pinKeyVars, Apart, Written
  <2>3. QED BY <2>2 DEF InStep
<1>6. QED BY <1>4, <1>5, PinHolds DEF CallerPresses, hostVars, PinInv, NoCauseToRefuse

(* The key says lines on the wire, and on a console that there is.         *)
LEMMA SayIs ==
  ASSUME PinTypeOK, NEW w \in Seq(Lines), NEW c \in Seq(Lines), Say(w, c)
  PROVE  /\ vendor' \in Seq(Lines) /\ log' \in Seq(Lines)
         /\ \A L : /\ Has(L, vendor') => Has(L, vendor) \/ Has(L, w)
                   /\ Has(L, log') => Has(L, log) \/ Has(L, c)
         /\ vendor = << >> => vendor' = w
         /\ log = << >> => log' = IF debug THEN c ELSE << >>
         /\ w = << >> => vendor' = vendor
         /\ ~debug => log' = log
<1>1. /\ vendor \in Seq(Lines) /\ log \in Seq(Lines)
      /\ vendor' = vendor \o w /\ log' = IF debug THEN log \o c ELSE log
  BY DEF Say, PinTypeOK
<1>2. /\ vendor \o w \in Seq(Lines) /\ log \o c \in Seq(Lines)
      /\ << >> \o w = w /\ << >> \o c = c /\ vendor \o << >> = vendor
  BY <1>1, ConcatProperties, ConcatEmptySeq
<1>3. \A L : /\ Has(L, vendor') => Has(L, vendor) \/ Has(L, w)
             /\ Has(L, log') => Has(L, log) \/ Has(L, c)
  BY <1>1, HasBoth
<1>4. QED BY <1>1, <1>2, <1>3

(* A timely key meets the OKPIN it waits for, and says what is waited for. *)
LEMMA KeyTakesOkpinKeeps == PinInv /\ KeyTakesOkpin => PinInv'
<1> SUFFICES ASSUME PinInv, KeyTakesOkpin PROVE PinInv'
  OBVIOUS
<1>1. PinTypeOK /\ okpin \in Nat /\ okpin > 0 /\ at \in 0 .. 3 /\ step \in 0 .. 7
      /\ phase \in {"start", "await"}
  BY SequenceIs DEF PinInv, PinTypeOK, KeyTakesOkpin
<1>2. /\ step' = step /\ phase' = phase /\ outcome' = outcome /\ heard' = heard /\ typed' = typed
      /\ pinHeld' = pinHeld /\ late' = late /\ spoiled' = spoiled /\ debug' = debug /\ hook' = hook
      /\ okpin' = okpin - 1 /\ calls' = calls /\ presses' = presses
  BY DEF KeyTakesOkpin, hostVars
<1>3. PICK w \in Seq(Lines), c \in Seq(Lines) :
        /\ Say(w, c) /\ (Has(Refusals, w) \/ Has(Refusals, c) => PinRefused)
        /\ Has({"enter"}, w) \/ Has({"enter"}, c) => at = 0
        /\ PinOpens => w = <<IF at = 0 THEN "enter" ELSE "confirm">> /\ c = w
        /\ PinClosed => w = <<"storing">> /\ c = w
        /\ PinsMatch => w = << >> /\ c = <<"bothMatch">>
  <2>1. ASSUME PinOpens \/ PinRefused \/ PinClosed, NEW l \in Lines, Both(l),
               l \in Refusals => PinRefused, l = "enter" => at = 0,
               PinOpens => l = IF at = 0 THEN "enter" ELSE "confirm",
               PinClosed => l = "storing", ~PinsMatch
        PROVE  \E w \in Seq(Lines), c \in Seq(Lines) :
                 /\ Say(w, c) /\ (Has(Refusals, w) \/ Has(Refusals, c) => PinRefused)
                 /\ Has({"enter"}, w) \/ Has({"enter"}, c) => at = 0
                 /\ PinOpens => w = <<IF at = 0 THEN "enter" ELSE "confirm">> /\ c = w
                 /\ PinClosed => w = <<"storing">> /\ c = w
                 /\ PinsMatch => w = << >> /\ c = <<"bothMatch">>
    <3>1. <<l>> \in Seq(Lines) /\ Say(<<l>>, <<l>>)
      BY <2>1 DEF Both
    <3>2. /\ Has(Refusals, <<l>>) <=> l \in Refusals
          /\ Has({"enter"}, <<l>>) <=> l = "enter"
      BY HasOne
    <3>3. QED BY <2>1, <3>1, <3>2
  <2>2. CASE PinOpens
    <3> DEFINE l == IF at = 0 THEN "enter" ELSE "confirm"
    <3>1. l \in Lines /\ l \notin Refusals /\ Both(l) /\ (l = "enter" => at = 0)
          /\ ~PinClosed /\ ~PinsMatch
      BY <2>2 DEF PinOpens, Lines, Refusals, PinClosed, PinsMatch
    <3> HIDE DEF l
    <3>2. PinOpens => l = IF at = 0 THEN "enter" ELSE "confirm"
      BY DEF l
    <3>3. QED BY <2>1, <2>2, <3>1, <3>2
  <2>3. CASE PinRefused
    <3> DEFINE l == IF Len(entry) < MinDigits THEN "tooShort" ELSE "mismatch"
    <3>1. /\ l \in Lines /\ l # "enter" /\ Both(l) /\ ~PinOpens /\ ~PinClosed /\ ~PinsMatch
      BY <1>1, <2>3, PinAssumption, LenProperties
         DEF PinRefused, Lines, Refusals, PinOpens, PinClosed, PinsMatch, PinTypeOK
    <3> HIDE DEF l
    <3>2. QED BY <2>1, <2>3, <3>1
  <2>4. CASE PinClosed
    <3>1. Both("storing") /\ ~PinOpens /\ ~PinsMatch /\ "storing" \in Lines /\ "storing" \notin Refusals
      BY <2>4 DEF PinClosed, PinOpens, PinsMatch, Lines, Refusals
    <3>2. QED BY <2>1, <2>4, <3>1
  <2>5. CASE PinsMatch
    <3>1. /\ Say(<< >>, <<"bothMatch">>) /\ ~PinOpens /\ ~PinClosed
          /\ << >> \in Seq(Lines) /\ <<"bothMatch">> \in Seq(Lines)
      BY <2>5 DEF PinsMatch, PinOpens, PinClosed, Lines
    <3>2. /\ ~Has(Refusals, << >>) /\ ~Has(Refusals, <<"bothMatch">>)
          /\ ~Has({"enter"}, << >>) /\ ~Has({"enter"}, <<"bothMatch">>)
      BY HasOne, HasNone DEF Refusals
    <3>3. QED BY <3>1, <3>2
  <2>6. QED BY <2>2, <2>3, <2>4, <2>5 DEF KeyTakesOkpin
<1>4. /\ vendor' \in Seq(Lines) /\ log' \in Seq(Lines)
      /\ \A L : /\ Has(L, vendor') => Has(L, vendor) \/ Has(L, w)
                /\ Has(L, log') => Has(L, log) \/ Has(L, c)
      /\ vendor = << >> => vendor' = w
      /\ log = << >> => log' = IF debug THEN c ELSE << >>
      /\ ~debug => log' = log
  BY <1>1, <1>3, SayIs
<1>5. /\ at' \in 0 .. 3 /\ entry' \in Seq(Nat) /\ first' \in Seq(Nat) /\ committing' \in BOOLEAN
  <2>1. at \in 0 .. 3 /\ entry \in Seq(Nat) /\ first \in Seq(Nat) /\ committing \in BOOLEAN
    BY <1>1 DEF PinTypeOK
  <2>2. CASE PinOpens
    <3>1. at' \in 0 .. 3 /\ entry' = << >> /\ first' = first /\ committing' = committing
      BY <2>2 DEF PinOpens
    <3>2. QED BY <2>1, <3>1
  <2>3. CASE PinRefused
    <3>1. at' = 0 /\ entry' = entry /\ first' = first /\ committing' = committing
      BY <2>3 DEF PinRefused
    <3>2. QED BY <2>1, <3>1
  <2>4. CASE PinClosed
    <3>1. at' = 2 /\ entry' = entry /\ first' = entry /\ committing' = committing
      BY <2>4 DEF PinClosed
    <3>2. QED BY <2>1, <3>1
  <2>5. CASE PinsMatch
    <3>1. at' = 0 /\ entry' = entry /\ first' = first /\ committing' = TRUE
      BY <2>5 DEF PinsMatch
    <3>2. QED BY <2>1, <3>1
  <2>6. QED BY <2>2, <2>3, <2>4, <2>5 DEF KeyTakesOkpin
<1>6. PinTypeOK'
  BY <1>1, <1>2, <1>4, <1>5 DEF PinTypeOK
<1>7. ASSUME Timely
      PROVE  \/ step = 0 /\ late # 0 /\ outcome # "ok"
             \/ /\ step \in {1, 3, 4, 6} /\ phase = "await" /\ Sent(step)
                /\ okpin = 1 /\ ~committing /\ Silent /\ Stage(step) /\ typed = << >>
  <2>1. InStep
    BY <1>7 DEF PinInv
  <2>2. CASE step = 0
    BY <1>1, <2>1, <2>2 DEF InStep, Apart
  <2>3. ~(step \in 1 .. 6 /\ phase = "start") /\ step # 7 /\ ~(step \in {2, 5} /\ phase = "await")
    BY <1>1, <2>1 DEF InStep, Still, Commits, Typing
  <2>4. CASE step \in {1, 3, 4, 6} /\ phase = "await"
    <3>1. Sent(step)
      BY <2>1, <2>4 DEF InStep
    <3>2. QED BY <1>1, <2>4, <3>1 DEF Sent
  <2>5. QED BY <1>1, <2>2, <2>3, <2>4
<1>8. PinRefused => late # 0
  <2>1. SUFFICES ASSUME PinRefused, late = 0 PROVE FALSE
    OBVIOUS
  <2>2. step \in {1, 3, 4, 6} /\ Stage(step)
    BY <1>7, <2>1 DEF Timely
  <2>3. Len(Digits) \in Nat /\ ~(Len(Digits) < MinDigits)
    BY PinAssumption, LenProperties
  <2>4. QED BY <1>1, <2>1, <2>2, <2>3 DEF PinRefused, Stage
<1>9. late' = 0 => ~Has(Refusals, vendor') /\ ~Has(Refusals, log')
  BY <1>2, <1>3, <1>4, <1>8 DEF PinInv, NoCauseToRefuse
<1>10. ASSUME Timely' PROVE InStep'
  <2>1. Timely
    BY <1>2, <1>10 DEF Timely
  <2>2. CASE step = 0 /\ late # 0 /\ outcome # "ok"
    BY <1>2, <2>2 DEF InStep, Apart
  <2>3. CASE /\ step \in {1, 3, 4, 6} /\ phase = "await"
             /\ okpin = 1 /\ ~committing /\ Silent /\ Stage(step) /\ typed = << >>
    <3>1. okpin' = 0 /\ typed' = << >>
      BY <1>2, <2>3
    <3>2. vendor' = w /\ log' = (IF debug' THEN c ELSE << >>) /\ heard' = << >>
      BY <1>2, <1>4, <2>3 DEF Silent
    <3>3. Len(Digits) \in Nat /\ ~(Len(Digits) < MinDigits)
      BY PinAssumption, LenProperties
    <3>4. CASE step = 1 /\ at = 0
      <4>1. PinOpens
        BY <1>1, <3>4 DEF KeyTakesOkpin, PinRefused, PinClosed, PinsMatch
      <4>2. w = <<"enter">> /\ c = <<"enter">> /\ at' = 1 /\ entry' = << >> /\ ~committing'
        BY <1>3, <2>3, <3>4, <4>1 DEF PinOpens
      <4>3. Sent(1)'
        BY <3>1, <3>2, <4>2 DEF Sent, Prompts, Saying, Stage
      <4>4. QED BY <1>2, <2>3, <3>4, <4>3 DEF InStep
    <3>5. CASE step = 1 /\ at # 0
      <4>1. late # 0 /\ late \in Nat
        BY <1>1, <2>3, <3>5 DEF Stage, PinTypeOK
      <4>2. ~Has({"enter"}, vendor') /\ ~Has({"enter"}, log') /\ ~Has({"enter"}, heard')
        BY <1>3, <3>2, <3>5, HasNone
      <4>3. Misfits'
        <5>1. late' > 0
          BY <1>2, <4>1
        <5>2. QED BY <4>2, <5>1 DEF Misfits
      <4>4. Sent(1)'
        BY <3>1, <4>3 DEF Sent
      <4>5. QED BY <1>2, <2>3, <3>5, <4>4 DEF InStep
    <3>6. CASE step = 3
      <4>1. PinClosed
        BY <2>3, <3>3, <3>6 DEF Stage, KeyTakesOkpin, PinOpens, PinRefused, PinClosed, PinsMatch
      <4>2. w = <<"storing">> /\ c = <<"storing">> /\ at' = 2 /\ first' = Digits /\ ~committing'
        BY <1>3, <2>3, <3>6, <4>1 DEF PinClosed, Stage
      <4>3. Sent(3)'
        BY <3>1, <3>2, <4>2 DEF Sent, Prompts, Saying, Stage
      <4>4. QED BY <1>2, <2>3, <3>6, <4>3 DEF InStep
    <3>7. CASE step = 4
      <4>1. PinOpens /\ at = 2
        BY <2>3, <3>7 DEF Stage, KeyTakesOkpin, PinRefused, PinClosed, PinsMatch
      <4>2. /\ w = <<"confirm">> /\ c = <<"confirm">> /\ at' = 3 /\ entry' = << >> /\ first' = Digits
            /\ ~committing'
        BY <1>3, <2>3, <3>7, <4>1 DEF PinOpens, Stage
      <4>3. Sent(4)'
        BY <3>1, <3>2, <4>2 DEF Sent, Prompts, Saying, Stage
      <4>4. QED BY <1>2, <2>3, <3>7, <4>3 DEF InStep
    <3>8. CASE step = 6
      <4>1. PinsMatch
        BY <2>3, <3>3, <3>8 DEF Stage, KeyTakesOkpin, PinOpens, PinRefused, PinClosed
      <4>2. w = << >> /\ c = <<"bothMatch">> /\ at' = 0 /\ entry' = Digits /\ committing' = TRUE
        BY <1>3, <2>3, <3>8, <4>1 DEF PinsMatch, Stage
      <4>3. Sent(6)'
        BY <3>1, <3>2, <4>2 DEF Sent, Writing, Saying
      <4>4. QED BY <1>2, <2>3, <3>8, <4>3 DEF InStep
    <3>9. QED BY <2>3, <3>4, <3>5, <3>6, <3>7, <3>8
  <2>4. QED BY <1>7, <2>1, <2>2, <2>3
<1>11. (~debug => hook /\ log = << >> /\ heard = << >>)'
  BY <1>2, <1>4 DEF PinInv
<1>12. QED BY <1>6, <1>9, <1>10, <1>11, PinHolds

(* A digit that goes from the way to the buffer stays where it was.        *)
LEMMA DigitMoves ==
  ASSUME NEW s \in Seq(Nat), NEW t \in Seq(Nat), t # << >>
  PROVE  Append(s, Head(t)) \o Tail(t) = s \o t
<1>1. t = <<Head(t)>> \o Tail(t) /\ Head(t) \in Nat /\ Tail(t) \in Seq(Nat)
  BY HeadTailProperties, ConcatAssociative
<1>2. QED BY <1>1, AppendIsConcat, ConcatAssociative

(* A digit that was pressed is in the buffer, and said.                    *)
LEMMA KeyTakesDigitKeeps == PinInv /\ KeyTakesDigit => PinInv'
<1> SUFFICES ASSUME PinInv, KeyTakesDigit PROVE PinInv'
  OBVIOUS
<1> DEFINE takes == at \in {1, 3} \/ committing
<1>1. /\ PinTypeOK /\ typed \in Seq(Nat) /\ typed # << >> /\ step \in 0 .. 7
      /\ phase \in {"start", "await"} /\ entry \in Seq(Nat) /\ log \in Seq(Lines)
  BY SequenceIs DEF PinInv, PinTypeOK, KeyTakesDigit
<1>2. Head(typed) \in Nat /\ typed' \in Seq(Nat) /\ typed' = Tail(typed)
  BY <1>1, HeadTailProperties DEF KeyTakesDigit
<1>3. /\ step' = step /\ phase' = phase /\ outcome' = outcome /\ heard' = heard /\ okpin' = okpin
      /\ at' = at /\ first' = first /\ committing' = committing /\ pinHeld' = pinHeld
      /\ late' = late /\ spoiled' = spoiled /\ debug' = debug /\ hook' = hook
      /\ calls' = calls /\ presses' = presses
  BY DEF KeyTakesDigit, hostVars
<1>4. takes => entry' = Append(entry, Head(typed)) /\ Say(<< >>, <<"ack">>)
  BY DEF KeyTakesDigit
<1>5. ~takes => entry' = entry /\ vendor' = vendor /\ log' = log
  BY DEF KeyTakesDigit
<1>6. << >> \in Seq(Lines) /\ <<"ack">> \in Seq(Lines)
  BY DEF Lines
<1>7. /\ vendor' = vendor /\ log' \in Seq(Lines) /\ (~debug => log' = log)
      /\ Has(Refusals, log') => Has(Refusals, log)
  <2>1. CASE takes
    <3>1. ~Has(Refusals, <<"ack">>)
      BY HasOne DEF Refusals
    <3>2. QED BY <1>1, <1>4, <1>6, <2>1, <3>1, SayIs
  <2>2. CASE ~takes
    BY <1>1, <1>5, <2>2
  <2>3. QED BY <2>1, <2>2
<1>8. PinTypeOK'
  <2>1. entry' \in Seq(Nat)
    <3>1. Append(entry, Head(typed)) \in Seq(Nat)
      BY <1>1, <1>2, AppendProperties
    <3>2. QED BY <1>1, <1>4, <1>5, <3>1
  <2>2. QED BY <1>1, <1>2, <1>3, <1>7, <2>1 DEF PinTypeOK
<1>9. ASSUME Timely' PROVE InStep'
  <2>1. InStep
    BY <1>3, <1>9 DEF PinInv, Timely
  <2>2. CASE step = 0
    <3>1. Apart
      BY <2>1, <2>2 DEF InStep
    <3>2. Apart'
      BY <1>1, <1>3, <3>1 DEF Apart, Written
    <3>3. QED BY <1>3, <2>2, <3>2 DEF InStep
  <2>3. (step \in {2, 5} /\ phase = "await") \/ step = 0
    BY <1>1, <2>1 DEF InStep, Still, Commits, Sent
  <2>4. CASE step \in {2, 5} /\ phase = "await"
    <3>1. Typing(step) /\ takes
      BY <2>1, <2>4 DEF InStep, Typing
    <3>2. entry' \o typed' = Digits
      <4>1. entry' \o typed' = entry \o typed
        BY <1>1, <1>2, <1>4, <3>1, DigitMoves
      <4>2. QED BY <3>1, <4>1 DEF Typing
    <3>3. log' \in Seq({"ack"}) /\ (debug => Len(log') = Len(log) + 1)
      <4>1. log \in Seq({"ack"}) /\ <<"ack">> \in Seq({"ack"}) /\ Len(<<"ack">>) = 1
        BY <3>1 DEF Typing
      <4>2. log \o <<"ack">> \in Seq({"ack"}) /\ Len(log \o <<"ack">>) = Len(log) + 1
        BY <4>1, ConcatProperties
      <4>3. log' = IF debug THEN log \o <<"ack">> ELSE log
        BY <1>4, <3>1 DEF Say
      <4>4. QED BY <4>1, <4>2, <4>3
    <3>4. Len(typed') = Len(typed) - 1 /\ Len(typed) \in Nat /\ Len(log) \in Nat /\ Len(heard) \in Nat
      BY <1>1, <1>2, HeadTailProperties, LenProperties DEF PinTypeOK
    <3>5. debug' => Len(heard') + Len(log') + Len(typed') = Len(Digits)
      <4>1. debug => Len(heard) + Len(log) + Len(typed) = Len(Digits)
        BY <3>1 DEF Typing
      <4>2. Len(heard') = Len(heard)
        BY <1>3
      <4> DEFINE l == Len(log')
                 t == Len(typed')
      <4>3. (debug => l = Len(log) + 1) /\ t = Len(typed) - 1
        BY <3>3, <3>4
      <4> HIDE DEF l, t
      <4>4. debug => Len(heard) + l + t = Len(Digits)
        BY <3>4, <4>1, <4>3
      <4>5. QED BY <1>3, <4>2, <4>4 DEF l, t
    <3>6. Typing(step)'
      BY <1>3, <1>7, <3>1, <3>2, <3>3, <3>5 DEF Typing
    <3>7. QED BY <1>3, <2>4, <3>6 DEF InStep
  <2>5. QED BY <2>2, <2>3, <2>4
<1>10. late' = 0 => ~Has(Refusals, vendor') /\ ~Has(Refusals, log')
  BY <1>3, <1>7 DEF PinInv, NoCauseToRefuse
<1>11. (~debug => hook /\ log = << >> /\ heard = << >>)'
  BY <1>3, <1>7 DEF PinInv
<1>12. QED BY <1>8, <1>9, <1>10, <1>11, PinHolds

(* The PIN that is written is what the buffer holds.                       *)
LEMMA KeyCommitsKeeps == PinInv /\ KeyCommits => PinInv'
<1> SUFFICES ASSUME PinInv, KeyCommits PROVE PinInv'
  OBVIOUS
<1>1. /\ PinTypeOK /\ committing /\ entry \in Seq(Nat) /\ step \in 0 .. 7
      /\ phase \in {"start", "await"}
  BY SequenceIs DEF PinInv, PinTypeOK, KeyCommits
<1>2. /\ step' = step /\ phase' = phase /\ outcome' = outcome /\ heard' = heard /\ okpin' = okpin
      /\ at' = at /\ first' = first /\ entry' = entry /\ typed' = typed
      /\ late' = late /\ spoiled' = spoiled /\ debug' = debug /\ hook' = hook
      /\ calls' = calls /\ presses' = presses
  BY DEF KeyCommits, hostVars
<1>3. ~committing' /\ committing' \in BOOLEAN /\ pinHeld' = entry /\ Say(<<"setPin">>, <<"setPin">>)
  BY DEF KeyCommits, Both
<1>4. <<"setPin">> \in Seq(Lines) /\ ~Has(Refusals, <<"setPin">>)
  BY HasOne DEF Lines, Refusals
<1>5. /\ vendor' \in Seq(Lines) /\ log' \in Seq(Lines)
      /\ Has(Refusals, vendor') => Has(Refusals, vendor)
      /\ Has(Refusals, log') => Has(Refusals, log)
      /\ ~debug => log' = log
  BY <1>1, <1>3, <1>4, SayIs
<1>6. PinTypeOK'
  BY <1>1, <1>2, <1>3, <1>5 DEF PinTypeOK
<1>7. ASSUME Timely' PROVE InStep'
  <2>1. InStep
    BY <1>2, <1>7 DEF PinInv, Timely
  <2>2. CASE step = 0
    <3>1. late # 0 /\ outcome # "ok"
      BY <1>1, <2>1, <2>2 DEF InStep, Apart, Written
    <3>2. QED BY <1>2, <2>2, <3>1 DEF InStep, Apart
  <2>3. CASE step = 7
    <3>1. Commits /\ entry = Digits
      BY <1>1, <2>1, <2>3 DEF InStep, Commits, Writing, Written
    <3>2. Commits'
      BY <1>2, <1>3, <3>1 DEF Commits, Written
    <3>3. QED BY <1>2, <2>3, <3>2 DEF InStep
  <2>4. CASE step \in {1, 3, 4, 6} /\ phase = "await"
    <3>1. Sent(step) /\ (step = 6 \/ (step = 1 /\ Misfits)) /\ okpin = 0 /\ typed = << >>
      <4>1. Sent(step)
        BY <2>1, <2>4 DEF InStep
      <4>2. QED BY <1>1, <4>1, Zenon DEF Sent, Written
    <3>2. CASE step = 1 /\ Misfits
      <4>1. /\ ~Has({"enter"}, <<"setPin">>)
            /\ Has({"enter"}, vendor') => Has({"enter"}, vendor)
            /\ Has({"enter"}, log') => Has({"enter"}, log)
        <5>1. ~Has({"enter"}, <<"setPin">>)
          BY HasOne
        <5>2. QED BY <1>1, <1>3, <1>4, <5>1, SayIs
      <4>2. Misfits'
        BY <1>2, <3>2, <4>1 DEF Misfits
      <4>3. Sent(1)'
        BY <1>2, <3>1, <4>2 DEF Sent
      <4>4. QED BY <1>2, <2>4, <3>2, <4>3 DEF InStep
    <3>3. CASE step = 6
      <4>1. /\ at = 0 /\ Writing /\ vendor = << >> /\ heard = << >>
            /\ log = IF debug THEN <<"bothMatch">> ELSE << >>
        BY <1>1, <3>1, <3>3 DEF Sent, Written, Saying
      <4>2. vendor' = <<"setPin">>
        BY <1>1, <1>3, <1>4, <4>1, SayIs
      <4>3. log' = IF debug THEN <<"bothMatch", "setPin">> ELSE << >>
        <5>1. <<"bothMatch">> \o <<"setPin">> = <<"bothMatch", "setPin">>
          <6>1. Append(<<"bothMatch">>, "setPin") = <<"bothMatch">> \o <<"setPin">>
            BY AppendIsConcat DEF Lines
          <6>2. Append(<<"bothMatch">>, "setPin") = <<"bothMatch", "setPin">>
            <7>1. /\ <<"bothMatch">> \in Seq(Lines) /\ "setPin" \in Lines
                  /\ Len(<<"bothMatch">>) = 1 /\ <<"bothMatch">>[1] = "bothMatch"
              BY DEF Lines
            <7>2. /\ Append(<<"bothMatch">>, "setPin") \in Seq(Lines)
                  /\ Len(Append(<<"bothMatch">>, "setPin")) = 2
                  /\ Append(<<"bothMatch">>, "setPin")[1] = "bothMatch"
                  /\ Append(<<"bothMatch">>, "setPin")[2] = "setPin"
              BY <7>1, AppendProperties
            <7>3. /\ <<"bothMatch", "setPin">> \in Seq(Lines)
                  /\ Len(<<"bothMatch", "setPin">>) = 2
                  /\ <<"bothMatch", "setPin">>[1] = "bothMatch"
                  /\ <<"bothMatch", "setPin">>[2] = "setPin"
              BY DEF Lines
            <7>4. \A i \in 1 .. 2 : Append(<<"bothMatch">>, "setPin")[i] = <<"bothMatch", "setPin">>[i]
              <8>1. \A i \in 1 .. 2 : i = 1 \/ i = 2
                OBVIOUS
              <8>2. QED BY <7>2, <7>3, <8>1, Zenon
            <7>5. QED BY <7>2, <7>3, <7>4, SeqEqual
          <6>3. QED BY <6>1, <6>2
        <5>2. QED BY <1>3, <4>1, <5>1 DEF Say
      <4>4. Sent(6)'
        BY <1>2, <1>3, <3>1, <4>1, <4>2, <4>3 DEF Sent, Written, Writing, Saying
      <4>5. QED BY <1>2, <2>4, <3>3, <4>4 DEF InStep
    <3>4. QED BY <3>1, <3>2, <3>3
  <2>5. ~(step \in 1 .. 6 /\ phase = "start") /\ ~(step \in {2, 5} /\ phase = "await")
    BY <1>1, <2>1 DEF InStep, Still, Typing
  <2>6. QED BY <1>1, <2>2, <2>3, <2>4, <2>5
<1>8. late' = 0 => ~Has(Refusals, vendor') /\ ~Has(Refusals, log')
  BY <1>2, <1>5 DEF PinInv, NoCauseToRefuse
<1>9. (~debug => hook /\ log = << >> /\ heard = << >>)'
  BY <1>2, <1>5 DEF PinInv
<1>10. QED BY <1>6, <1>7, <1>8, <1>9, PinHolds

(* Nothing has been said of a PIN before the first bracket.                *)
LEMMA PinAtFirst == PinInit => PinInv
<1> SUFFICES ASSUME PinInit PROVE PinInv
  OBVIOUS
<1>1. PinTypeOK
  <2>1. /\ step \in 0 .. Len(Sequence) /\ calls \in 0 .. MaxBrackets
        /\ late \in 0 .. MaxLate /\ presses \in 0 .. MaxPresses /\ at \in 0 .. 3
    BY SequenceIs, PinAssumption DEF PinInit
  <2>2. /\ heard \in Seq(Lines) /\ vendor \in Seq(Lines) /\ log \in Seq(Lines)
        /\ typed \in Seq(Nat) /\ entry \in Seq(Nat) /\ first \in Seq(Nat) /\ pinHeld \in Seq(Nat)
    BY DEF PinInit, NoPin
  <2>3. /\ debug \in BOOLEAN /\ hook \in BOOLEAN /\ committing \in BOOLEAN /\ spoiled \in BOOLEAN
        /\ phase \in {"start", "await"} /\ outcome \in {"none", "ok", "failed"} /\ okpin \in Nat
    BY DEF PinInit
  <2>4. QED BY <2>1, <2>2, <2>3 DEF PinTypeOK
<1>2. NoCauseToRefuse
  BY HasNone DEF PinInit, NoCauseToRefuse
<1>3. InStep
  BY DEF PinInit, InStep, Apart, Written
<1>4. QED BY <1>1, <1>2, <1>3 DEF PinInv, PinInit

(* A bracket under way has no outcome yet.                                 *)
Undecided == step # 0 => outcome = "none"

(* An outcome ends the bracket.                                            *)
LEMMA UndecidedKept == PinTypeOK /\ Undecided /\ [PinNext]_pinVars => Undecided'
<1> SUFFICES ASSUME PinTypeOK, Undecided, [PinNext]_pinVars PROVE Undecided'
  OBVIOUS
<1>1. CASE SetPin
  BY <1>1 DEF SetPin, Undecided
<1>2. CASE (step # 0 /\ Passed) \/ Failed \/ UNCHANGED <<step, outcome>>
  BY <1>2, SequenceIs DEF PinTypeOK, Passed, Failed, Undecided
<1>3. CASE DigitsIn \/ TimesOut
  BY <1>2, <1>3 DEF DigitsIn, TimesOut
<1>4. CASE HearWire
  BY <1>2, <1>4 DEF HearWire
<1>5. CASE HearLog
  BY <1>2, <1>5 DEF HearLog
<1>6. CASE AwaitCommit
  BY <1>2, <1>6 DEF AwaitCommit
<1>7. CASE CallerPresses \/ SendOkpin \/ SendDigits
  BY <1>2, <1>7 DEF CallerPresses, SendOkpin, SendDigits, hostVars
<1>8. CASE KeyTakesOkpin \/ KeyTakesDigit \/ KeyCommits
  BY <1>2, <1>8 DEF KeyTakesOkpin, KeyTakesDigit, KeyCommits, hostVars
<1>9. CASE UNCHANGED pinVars
  BY <1>2, <1>9 DEF pinVars
<1>10. QED BY <1>1, <1>3, <1>4, <1>5, <1>6, <1>7, <1>8, <1>9 DEF PinNext, Onward

(* Every step of the bracket keeps its invariant.                          *)
LEMMA PinKept == PinInv /\ [PinNext]_pinVars => PinInv'
<1>1. PinInv /\ UNCHANGED pinVars => PinInv'
  <2> SUFFICES ASSUME PinInv, UNCHANGED pinVars PROVE PinInv'
    OBVIOUS
  <2>1. PinTypeOK' /\ (late' = 0 => ~Has(Refusals, vendor') /\ ~Has(Refusals, log'))
    BY DEF PinInv, PinTypeOK, NoCauseToRefuse, pinVars
  <2>2. Timely' => InStep'
    BY DEF PinInv, Timely, InStep, Apart, Written, Writing, Still, Stage, Commits, Sent, Typing,
           Misfits, Silent, Prompts, Saying, pinVars
  <2>3. QED BY <2>1, <2>2, PinHolds DEF PinInv, pinVars
<1>2. QED
  BY <1>1, SetPinKeeps, CallerPressesKeeps, SendOkpinKeeps, SendDigitsKeeps, DigitsInKeeps,
     HearWireKeeps, HearLogKeeps, AwaitCommitKeeps, TimesOutKeeps, KeyTakesOkpinKeeps,
     KeyTakesDigitKeeps, KeyCommitsKeeps, Zenon DEF PinNext, Onward

(* Where the key, its digits and both channels are at every point of a     *)
(* bracket that nothing late has spoiled, and that a first bracket in time *)
(* gives the key no cause to refuse (runPinSequence and waitForStep).      *)
THEOREM BracketInvariant == PinSpec => [](PinInv /\ Undecided)
<1>1. PinInit => PinInv /\ Undecided
  BY PinAtFirst DEF PinInit, Undecided
<1>2. PinInv /\ Undecided /\ [PinNext]_pinVars => (PinInv /\ Undecided)'
  BY PinKept, UndecidedKept DEF PinInv
<1>3. QED BY <1>1, <1>2, PTL DEF PinSpec

(* After setPin has succeeded the key holds the digits that were given and *)
(* is at rest, for any PIN and any number of brackets left half way before *)
(* (runPinSequence).                                                       *)
THEOREM SuccessSetsThePin == PinSpec => []SuccessIsThePin
<1>1. PinInv /\ Undecided => SuccessIsThePin
  BY DEF PinInv, Undecided, SuccessIsThePin, Timely, InStep, Apart, Written
<1>2. QED BY <1>1, BracketInvariant, PTL

-----------------------------------------------------------------------------
(* What is written to a key.                                               *)

FrameOf(c) == [n |-> c.n, kind |-> c.kind, step |-> c.step]

(* What is on its way of the conversation that has the turn: its frame, or *)
(* its answer, which is an error or says what has been stored.             *)
OneAnswer(c) ==
  /\ c.phase \in {"waiting", "quieting"}
  /\ \/ c.phase = "waiting" /\ inbox = <<FrameOf(c)>> /\ wire = << >>
     \/ inbox = << >> /\ wire = <<Said(c, "error")>>
     \/ /\ inbox = << >> /\ stored[<<c.n, c.step>>] > 0
        /\ \/ wire = <<Said(c, "ack")>> \/ wire = <<Said(c, "key")>>
           \/ c.kind = "wipeSlot" /\ wire = <<Said(c, "ack"), Said(c, "ack")>>

Quiet == inbox = << >> /\ wire = << >>
Flow == Quiet \/ (lane # << >> /\ OneAnswer(call[Head(lane)]))

(* The host was told of nothing else; a plan goes on when it was told.     *)
Trusted ==
  /\ Flow
  /\ \A p \in told : stored[p] > 0
  /\ \A a \in Open : call[a].step = 2 => stored[<<call[a].n, 1>>] > 0
  /\ \A n \in Numbers : stored[<<n, 2>>] > 0 => stored[<<n, 1>>] > 0

ToldInv == TypeOK /\ (~loose => Trusted)

(* Calls are numbered as they begin, and what is sent, stored and told has *)
(* the number of a call that has begun.                                    *)
Numbered ==
  /\ \A a \in Open : /\ call[a].n <= Len(begun) /\ begun[call[a].n] = call[a].kind
                     /\ call[a].step \in DOMAIN Plan(call[a].kind)
                     /\ <<call[a].n, 2>> \notin told
  /\ \A a, b \in Open : call[a].n = call[b].n => a = b
  /\ \A k \in DOMAIN inbox : /\ inbox[k].n <= Len(begun)
                             /\ begun[inbox[k].n] = inbox[k].kind
  /\ \A p \in told : p[1] <= Len(begun)
  /\ \A p \in Pairs : stored[p] > 0 => p[1] <= Len(begun)

(* A call that generates has one frame that asks for it, and no other is   *)
(* sent for it once that was looked at.                                    *)
Generates(n) == begun[n] \in {"generateEccKey", "generateKey"}
Asked(n) == {k \in DOMAIN inbox : inbox[k].n = n /\ inbox[k].step = 1}
AskedOnce ==
  /\ \A n \in DOMAIN begun : Generates(n) =>
       /\ stored[<<n, 1>>] <= 1
       /\ \A j, k \in Asked(n) : j = k
       /\ stored[<<n, 1>>] = 1 => Asked(n) = {}
  /\ \A a \in Open : Generates(call[a].n) /\ call[a].step = 1 /\ call[a].phase = "queued" =>
       stored[<<call[a].n, 1>>] = 0 /\ Asked(call[a].n) = {}

(* The calls that write a key and its label, and the two cells between     *)
(* such calls: they agree, or the call that wrote the key was refused the  *)
(* label and said so.                                                      *)
Naming == {"loadKey", "generateEccKey", "generateKey", "wipeKey"}
Nameless(n) ==
  /\ <<n, 1>> \in told /\ <<n, 2>> \notin told
  /\ store["key"] = Value(begun[n], n)
  /\ \A a \in Open : call[a].n # n
Named == store["label"] = store["key"] \/ \E n \in DOMAIN begun : Nameless(n)

(* What such a call says of its first frame.                               *)
Made(c) == Said(c, IF c.kind = "generateKey" THEN "key" ELSE "ack")

(* The cells while such a call is open.                                    *)
NamingStep(c) ==
  /\ c.step = 1 => stored[<<c.n, 2>>] = 0
  /\ c.step = 1 =>
       \/ stored[<<c.n, 1>>] = 0 /\ Named
       \/ /\ stored[<<c.n, 1>>] > 0 /\ store["key"] = Value(c.kind, c.n)
          /\ wire = <<Made(c)>>
  /\ c.step = 2 =>
       /\ store["key"] = Value(c.kind, c.n) /\ <<c.n, 1>> \in told
       /\ stored[<<c.n, 2>>] > 0 => store["label"] = Value(c.kind, c.n)

NamesInStep ==
  /\ \A a, b \in Open : call[a].kind \in Naming /\ call[b].kind \in Naming => a = b
  /\ \A a \in Open : call[a].kind \in Naming => NamingStep(call[a])
  /\ (\A a \in Open : call[a].kind \notin Naming) => Named

WritesInv ==
  /\ ToldInv /\ Numbered /\ AskedOnce
  /\ ~loose /\ ~shared => NamesInStep

(* The plan of each call, and what a naming call's frames set.             *)
LEMMA PlanIs ==
  ASSUME NEW kind \in Kinds
  PROVE  /\ Len(Plan(kind)) \in {1, 2} /\ DOMAIN Plan(kind) = 1 .. Len(Plan(kind))
         /\ kind = "wipeSlot" => Len(Plan(kind)) = 1
         /\ kind \in Naming => /\ Len(Plan(kind)) = 2
                               /\ Plan(kind)[1] = {"key"} /\ Plan(kind)[2] = {"label"}
         /\ kind \notin Naming => \A i \in DOMAIN Plan(kind) : /\ "key" \notin Plan(kind)[i]
                                                               /\ "label" \notin Plan(kind)[i]
<1>1. CASE kind = "setSlot"
  <2>1. Plan(kind) = << {"site"}, {"pass"} >>
    BY <1>1 DEF Plan
  <2>2. QED BY <1>1, <2>1 DEF Naming
<1>2. CASE kind = "setSilent"
  <2>1. Plan(kind) = << {"pref"} >>
    BY <1>2 DEF Plan
  <2>2. QED BY <1>2, <2>1 DEF Naming
<1>3. CASE kind = "wipeSlot"
  <2>1. Plan(kind) = << {"site", "pass"} >>
    BY <1>3 DEF Plan
  <2>2. QED BY <1>3, <2>1 DEF Naming
<1>4. CASE kind \notin {"setSlot", "setSilent", "wipeSlot"}
  <2>1. Plan(kind) = << {"key"}, {"label"} >> /\ kind \in Naming
    BY <1>4 DEF Plan, Kinds, Naming
  <2>2. QED BY <1>4, <2>1
<1>5. QED BY <1>1, <1>2, <1>3, <1>4

(* A call that is open, and its fields.                                    *)
LEMMA OpenIs ==
  ASSUME TypeOK, NEW a \in Apps
  PROVE  /\ a \in Open <=> call[a].phase # "idle"
         /\ a \in Open <=> call[a] \in OpenCalls
         /\ a \in Open => /\ call[a].kind \in Kinds /\ call[a].n \in Numbers /\ call[a].step \in {1, 2}
                          /\ call[a].try \in 1 .. Retries + 1
                          /\ call[a].phase \in {"queued", "waiting", "quieting"}
                          /\ <<call[a].n, call[a].step>> \in Pairs /\ FrameOf(call[a]) \in Frames
         /\ a \notin Open => call[a] = Idle
<1>1. call[a] \in OpenCalls \/ call[a] = Idle
  BY DEF TypeOK
<1>2. ASSUME NEW c \in OpenCalls
      PROVE  /\ c.kind \in Kinds /\ c.n \in Numbers /\ c.step \in {1, 2} /\ c.try \in 1 .. Retries + 1
             /\ c.phase \in {"queued", "waiting", "quieting"} /\ c.phase # "idle"
             /\ <<c.n, c.step>> \in Pairs /\ FrameOf(c) \in Frames
  BY DEF OpenCalls, Pairs, Frames, FrameOf
<1>3. Idle.phase = "idle"
  BY DEF Idle
<1>4. Idle \notin OpenCalls
  BY <1>2, <1>3
<1>5. QED BY <1>1, <1>2, <1>3, <1>4 DEF Open

(* One call moves on, or ends, and keeps its kind and number.              *)
WriteMoves(a) ==
  /\ call' \in [Apps -> OpenCalls \cup {Idle}]
  /\ \A b \in Apps \ {a} : call'[b] = call[b]
  /\ call'[a] = Idle \/ /\ call'[a] \in OpenCalls
                        /\ call'[a].kind = call[a].kind /\ call'[a].n = call[a].n

(* The records a call goes through.                                        *)
SecondStep(c) == [c EXCEPT !.step = 2, !.try = 1, !.phase = "queued"]
AskedAgain(c) == [c EXCEPT !.try = @ + 1, !.phase = "queued"]
InPhase(c, p) == [c EXCEPT !.phase = p]

(* A record that moves on is a call again, of the same kind and number.    *)
LEMMA RecordMoves ==
  ASSUME NEW c \in OpenCalls
  PROVE  /\ SecondStep(c) \in OpenCalls /\ SecondStep(c).kind = c.kind /\ SecondStep(c).n = c.n
         /\ SecondStep(c).step = 2 /\ SecondStep(c).phase = "queued"
         /\ c.try < Retries + 1 =>
              /\ AskedAgain(c) \in OpenCalls /\ AskedAgain(c).kind = c.kind /\ AskedAgain(c).n = c.n
              /\ AskedAgain(c).step = c.step /\ AskedAgain(c).phase = "queued"
         /\ \A p \in {"waiting", "quieting"} :
              /\ InPhase(c, p) \in OpenCalls /\ InPhase(c, p).kind = c.kind
              /\ InPhase(c, p).n = c.n /\ InPhase(c, p).step = c.step /\ InPhase(c, p).phase = p
<1>1. /\ SecondStep(c) \in OpenCalls /\ SecondStep(c).kind = c.kind /\ SecondStep(c).n = c.n
      /\ SecondStep(c).step = 2 /\ SecondStep(c).phase = "queued"
  <2> DEFINE tries == 1 .. Retries + 1
             Calls == [kind : Kinds, n : Numbers, step : {1, 2}, try : tries,
                       phase : {"queued", "waiting", "quieting"}]
  <2>1. OpenCalls = Calls /\ 1 \in tries
    BY DeviceWritesAssumption DEF OpenCalls
  <2> HIDE DEF tries
  <2>2. QED BY <2>1 DEF SecondStep
<1>2. ASSUME c.try < Retries + 1
      PROVE  /\ AskedAgain(c) \in OpenCalls /\ AskedAgain(c).kind = c.kind /\ AskedAgain(c).n = c.n
             /\ AskedAgain(c).step = c.step /\ AskedAgain(c).phase = "queued"
  <2> DEFINE tries == 1 .. Retries + 1
             Calls == [kind : Kinds, n : Numbers, step : {1, 2}, try : tries,
                       phase : {"queued", "waiting", "quieting"}]
             more == c.try + 1
  <2>1. OpenCalls = Calls
    BY DEF OpenCalls
  <2>2. more \in tries
    <3>1. c.try \in tries
      BY <2>1
    <3>2. QED BY <1>2, <3>1, DeviceWritesAssumption
  <2> HIDE DEF tries, more
  <2>3. AskedAgain(c) = [c EXCEPT !.try = more, !.phase = "queued"]
    BY DEF AskedAgain, more
  <2>4. QED BY <2>1, <2>2, <2>3
<1>3. ASSUME NEW p \in {"waiting", "quieting"}
      PROVE  /\ InPhase(c, p) \in OpenCalls /\ InPhase(c, p).kind = c.kind
             /\ InPhase(c, p).n = c.n /\ InPhase(c, p).step = c.step /\ InPhase(c, p).phase = p
  BY <1>3 DEF OpenCalls, InPhase
<1>4. QED BY <1>1, <1>2, <1>3

(* One call of the plugin is another record.                               *)
LEMMA CallIsNow ==
  ASSUME TypeOK, NEW a \in Apps, NEW d, call' = [call EXCEPT ![a] = d],
         d = Idle \/ (d \in OpenCalls /\ d.kind = call[a].kind /\ d.n = call[a].n)
  PROVE  WriteMoves(a) /\ call'[a] = d
<1>1. call \in [Apps -> OpenCalls \cup {Idle}]
  BY DEF TypeOK
<1>2. QED BY <1>1 DEF WriteMoves

(* A call that finishes is idle and leaves the lane.                       *)
LEMMA FinishIs ==
  ASSUME TypeOK, NEW a \in Apps, lane # << >>, Finish(a)
  PROVE  WriteMoves(a) /\ call'[a] = Idle /\ lane' = Tail(lane) /\ lane' \in Seq(Apps)
<1>1. lane \in Seq(Apps) /\ call \in [Apps -> OpenCalls \cup {Idle}]
  BY DEF TypeOK
<1>2. QED BY <1>1, HeadTailProperties DEF Finish, WriteMoves

(* A frame that is answered is the last of its call, or its second follows.*)
LEMMA AdvanceIs ==
  ASSUME TypeOK, NEW a \in Open, lane # << >>, Advance(a)
  PROVE  /\ WriteMoves(a) /\ lane' \in Seq(Apps)
         /\ \/ call[a].step = Len(Plan(call[a].kind)) /\ call'[a] = Idle
            \/ /\ call[a].step # Len(Plan(call[a].kind)) /\ call'[a] \in OpenCalls
               /\ call'[a].step = 2 /\ call'[a].phase = "queued"
<1> DEFINE c == call[a]
<1>1. /\ lane \in Seq(Apps) /\ call \in [Apps -> OpenCalls \cup {Idle}] /\ a \in Apps
      /\ c \in OpenCalls
  BY OpenIs DEF TypeOK, Open
<1>2. CASE c.step = Len(Plan(c.kind))
  BY <1>1, <1>2, FinishIs DEF Advance
<1>3. CASE c.step # Len(Plan(c.kind))
  <2>1. /\ call' = [call EXCEPT ![a] = SecondStep(c)]
        /\ lane' = IF c.kind = "generateKey" THEN lane ELSE Append(Tail(lane), a)
    BY <1>1, <1>3 DEF Advance, SecondStep
  <2>2. /\ SecondStep(c) \in OpenCalls /\ SecondStep(c).kind = c.kind /\ SecondStep(c).n = c.n
        /\ SecondStep(c).step = 2 /\ SecondStep(c).phase = "queued"
    BY <1>1, RecordMoves
  <2>3. WriteMoves(a) /\ call'[a] = SecondStep(c)
    BY <1>1, <2>1, <2>2, CallIsNow
  <2>4. lane' \in Seq(Apps)
    <3>1. Tail(lane) \in Seq(Apps)
      BY <1>1, HeadTailProperties
    <3>2. Append(Tail(lane), a) \in Seq(Apps)
      BY <1>1, <3>1, AppendProperties
    <3>3. QED BY <1>1, <2>1, <3>2
  <2>5. QED BY <1>3, <2>2, <2>3, <2>4
<1>4. QED BY <1>2, <1>3

(* Who talks is open, and has the turn.                                    *)
LEMMA TalkerIs ==
  ASSUME TypeOK, NEW a \in Apps, Talking(a)
  PROVE  a \in Open /\ lane # << >> /\ Head(lane) = a /\ call[a].phase \in {"waiting", "quieting"}
BY OpenIs DEF Talking

(* What each step of a call does to it.                                    *)
LEMMA AskIs ==
  ASSUME TypeOK, NEW a \in Apps, Ask(a)
  PROVE  /\ a \in Open /\ WriteMoves(a) /\ call'[a] \in OpenCalls /\ lane # << >> /\ Head(lane) = a
         /\ call[a].phase = "queued" /\ call'[a].phase = "waiting" /\ call'[a].step = call[a].step
<1>1. a \in Open /\ call[a] \in OpenCalls
  BY OpenIs DEF Ask
<1>2. call' = [call EXCEPT ![a] = InPhase(call[a], "waiting")]
  BY DEF Ask, InPhase, TypeOK
<1>3. InPhase(call[a], "waiting") \in OpenCalls /\ InPhase(call[a], "waiting").kind = call[a].kind
      /\ InPhase(call[a], "waiting").n = call[a].n /\ InPhase(call[a], "waiting").step = call[a].step
      /\ InPhase(call[a], "waiting").phase = "waiting"
  BY <1>1, RecordMoves
<1>4. WriteMoves(a) /\ call'[a] = InPhase(call[a], "waiting")
  BY <1>2, <1>3, CallIsNow
<1>5. QED BY <1>1, <1>3, <1>4 DEF Ask

(* The pair the host is told of.                                           *)
Pair(c) == <<c.n, c.step>>

(* A report that is heard ends the call, quiets a wipe, or moves it on.    *)
LEMMA HearIs ==
  ASSUME TypeOK, NEW a \in Apps, Hear(a)
  PROVE  /\ a \in Open /\ lane # << >> /\ Head(lane) = a /\ call[a].phase \in {"waiting", "quieting"}
         /\ wire # << >> /\ WriteMoves(a) /\ lane' \in Seq(Apps)
         /\ \/ Head(wire).what = "error" /\ told' = told /\ call'[a] = Idle
            \/ /\ Head(wire).what # "error" /\ told' = told \cup {Pair(call[a])}
               /\ call[a].kind = "wipeSlot" /\ call'[a] \in OpenCalls /\ lane' = lane
               /\ call'[a].step = call[a].step /\ call'[a].phase = "quieting"
            \/ /\ Head(wire).what # "error" /\ told' = told \cup {Pair(call[a])}
               /\ call[a].kind # "wipeSlot"
               /\ \/ call[a].step = Len(Plan(call[a].kind)) /\ call'[a] = Idle
                  \/ /\ call[a].step # Len(Plan(call[a].kind)) /\ call'[a] \in OpenCalls
                     /\ call'[a].step = 2 /\ call'[a].phase = "queued"
<1>1. Talking(a) /\ wire # << >>
  BY DEF Hear
<1>2. /\ a \in Open /\ lane # << >> /\ Head(lane) = a /\ call[a].phase \in {"waiting", "quieting"}
      /\ call[a] \in OpenCalls /\ lane \in Seq(Apps)
  BY <1>1, TalkerIs, OpenIs DEF TypeOK
<1>3. CASE Head(wire).what = "error"
  <2>1. Finish(a) /\ told' = told
    BY <1>3 DEF Hear
  <2>2. QED BY <1>1, <1>2, <1>3, <2>1, FinishIs
<1>4. CASE Head(wire).what # "error" /\ call[a].kind = "wipeSlot"
  <2>1. /\ call' = [call EXCEPT ![a] = InPhase(call[a], "quieting")] /\ lane' = lane
        /\ told' = told \cup {Pair(call[a])}
    BY <1>4 DEF Hear, InPhase, TypeOK, Pair
  <2>2. InPhase(call[a], "quieting") \in OpenCalls /\ InPhase(call[a], "quieting").kind = call[a].kind
        /\ InPhase(call[a], "quieting").n = call[a].n
        /\ InPhase(call[a], "quieting").step = call[a].step
        /\ InPhase(call[a], "quieting").phase = "quieting"
    BY <1>2, RecordMoves
  <2>3. WriteMoves(a) /\ call'[a] = InPhase(call[a], "quieting")
    BY <2>1, <2>2, CallIsNow
  <2>4. QED BY <1>1, <1>2, <1>4, <2>1, <2>2, <2>3
<1>5. CASE Head(wire).what # "error" /\ call[a].kind # "wipeSlot"
  <2>1. Advance(a) /\ told' = told \cup {Pair(call[a])}
    BY <1>5 DEF Hear, Pair
  <2>2. QED BY <1>1, <1>2, <1>5, <2>1, AdvanceIs
<1>6. QED BY <1>3, <1>4, <1>5

(* A window that has passed ends the call.                                 *)
LEMMA WindowEndsIs ==
  ASSUME TypeOK, NEW a \in Apps, WindowEnds(a)
  PROVE  /\ a \in Open /\ lane # << >> /\ Head(lane) = a /\ WriteMoves(a) /\ call'[a] = Idle
         /\ lane' \in Seq(Apps)
<1>1. a \in Open /\ lane # << >> /\ Head(lane) = a /\ Finish(a)
  BY TalkerIs DEF WindowEnds
<1>2. QED BY <1>1, FinishIs

(* A time-out asks again, or ends the call.                                *)
LEMMA TimeOutIs ==
  ASSUME TypeOK, NEW a \in Apps, TimeOut(a)
  PROVE  /\ a \in Open /\ lane # << >> /\ Head(lane) = a /\ WriteMoves(a) /\ lane' \in Seq(Apps)
         /\ \/ call'[a] = Idle
            \/ /\ call[a].try < Tries(call[a].kind, call[a].step) /\ call'[a] \in OpenCalls
               /\ call'[a].phase = "queued" /\ call'[a].step = call[a].step
<1>1. /\ a \in Open /\ lane # << >> /\ Head(lane) = a /\ call[a] \in OpenCalls /\ lane \in Seq(Apps)
  BY TalkerIs, OpenIs DEF TimeOut, TypeOK
<1>2. CASE ~(call[a].try < Tries(call[a].kind, call[a].step))
  <2>1. Finish(a)
    BY <1>2 DEF TimeOut
  <2>2. QED BY <1>1, <2>1, FinishIs
<1>3. CASE call[a].try < Tries(call[a].kind, call[a].step)
  <2>1. call' = [call EXCEPT ![a] = AskedAgain(call[a])] /\ lane' = Append(Tail(lane), a)
    BY <1>3 DEF TimeOut, AskedAgain, TypeOK
  <2>2. call[a].try < Retries + 1
    <3>1. call[a].try \in 1 .. Retries + 1 /\ Retries \in Nat
      BY <1>1, OpenIs, DeviceWritesAssumption DEF Open
    <3>2. QED BY <1>3, <3>1 DEF Tries
  <2>3. /\ AskedAgain(call[a]) \in OpenCalls /\ AskedAgain(call[a]).kind = call[a].kind
        /\ AskedAgain(call[a]).n = call[a].n /\ AskedAgain(call[a]).step = call[a].step
        /\ AskedAgain(call[a]).phase = "queued"
    BY <1>1, <2>2, RecordMoves
  <2>4. WriteMoves(a) /\ call'[a] = AskedAgain(call[a])
    BY <2>1, <2>3, CallIsNow
  <2>5. lane' \in Seq(Apps)
    <3>1. Tail(lane) \in Seq(Apps)
      BY <1>1, HeadTailProperties
    <3>2. QED BY <2>1, <3>1, AppendProperties
  <2>6. QED BY <1>1, <1>3, <2>3, <2>4, <2>5
<1>4. QED BY <1>2, <1>3

(* A call that begins has the next number.                                 *)
Begun(kind) == [kind |-> kind, n |-> Len(begun) + 1, step |-> 1, try |-> 1, phase |-> "queued"]

(* A call that begins is queued, and the last of those begun.              *)
LEMMA BeginIs ==
  ASSUME TypeOK, NEW a \in Apps, NEW kind \in Kinds, Begin(a, kind)
  PROVE  /\ call[a].phase = "idle" /\ call' \in [Apps -> OpenCalls \cup {Idle}]
         /\ \A b \in Apps \ {a} : call'[b] = call[b]
         /\ call'[a] = Begun(kind) /\ call'[a] \in OpenCalls /\ Len(begun) + 1 \in Numbers
         /\ lane' \in Seq(Apps) /\ Len(begun) \in Nat /\ begun' \in Seq(Kinds)
         /\ Len(begun') = Len(begun) + 1 /\ begun'[Len(begun) + 1] = kind
         /\ \A n \in 1 .. Len(begun) : begun'[n] = begun[n]
         /\ Len(begun') <= MaxCalls
<1>1. /\ call \in [Apps -> OpenCalls \cup {Idle}] /\ lane \in Seq(Apps) /\ begun \in Seq(Kinds)
      /\ Len(begun) \in Nat /\ Len(begun) < MaxCalls /\ MaxCalls \in Nat
  BY DeviceWritesAssumption, LenProperties DEF Begin, TypeOK
<1>2. Begun(kind) \in OpenCalls /\ Len(begun) + 1 \in Numbers
  <2> DEFINE next == Len(begun) + 1
             tries == 1 .. Retries + 1
  <2>1. next \in Numbers /\ 1 \in tries
    BY <1>1, DeviceWritesAssumption DEF Numbers
  <2>2. OpenCalls = [kind : Kinds, n : Numbers, step : {1, 2}, try : tries,
                     phase : {"queued", "waiting", "quieting"}]
    BY DEF OpenCalls
  <2>3. Begun(kind) = [kind |-> kind, n |-> next, step |-> 1, try |-> 1, phase |-> "queued"]
    BY DEF Begun
  <2> HIDE DEF next, tries
  <2>4. Begun(kind) \in OpenCalls
    BY <2>1, <2>2, <2>3
  <2>5. QED BY <2>1, <2>4 DEF next
<1>3. call' = [call EXCEPT ![a] = Begun(kind)]
  BY DEF Begin, Begun
<1>4. lane' \in Seq(Apps)
  BY <1>1, AppendProperties DEF Begin
<1>5. /\ begun' \in Seq(Kinds) /\ Len(begun') = Len(begun) + 1 /\ begun'[Len(begun) + 1] = kind
      /\ \A n \in 1 .. Len(begun) : begun'[n] = begun[n]
  <2>1. begun' = Append(begun, kind)
    BY DEF Begin
  <2>2. QED BY <1>1, <2>1, AppendProperties
<1>6. QED BY <1>1, <1>2, <1>3, <1>4, <1>5 DEF Begin

(* What the key says of a frame it has done.                               *)
Reply(f) == [k \in DOMAIN Answers(f) |-> Said(f, Answers(f)[k])]

(* What the key says is a report.                                          *)
LEMMA SaidIs ==
  ASSUME NEW f \in Frames, NEW what \in {"ack", "error", "key"}
  PROVE  Said(f, what) \in Reports
BY DEF Said, Frames, Reports

(* A silent frame has no reply, a slot wipe two, any other frame one.      *)
LEMMA ReplyIs ==
  ASSUME NEW f \in Frames
  PROVE  /\ Reply(f) \in Seq(Reports)
         /\ f.kind = "setSilent" => Reply(f) = << >>
         /\ f.kind = "wipeSlot" => Reply(f) = <<Said(f, "ack"), Said(f, "ack")>>
         /\ f.kind \notin {"setSilent", "wipeSlot"} =>
              Reply(f) = <<Said(f, IF f.kind = "generateKey" /\ f.step = 1 THEN "key" ELSE "ack")>>
<1>1. CASE f.kind = "setSilent"
  <2>1. Answers(f) = << >>
    BY <1>1 DEF Answers
  <2>2. Reply(f) = << >>
    BY <2>1 DEF Reply
  <2>3. QED BY <1>1, <2>2
<1>2. CASE f.kind = "wipeSlot"
  <2>1. Answers(f) = <<"ack", "ack">>
    BY <1>2 DEF Answers
  <2>2. Reply(f) = <<Said(f, "ack"), Said(f, "ack")>>
    BY <2>1 DEF Reply
  <2>3. QED BY <1>2, <2>2, SaidIs
<1>3. CASE f.kind \notin {"setSilent", "wipeSlot"}
  <2> DEFINE what == IF f.kind = "generateKey" /\ f.step = 1 THEN "key" ELSE "ack"
  <2>1. Answers(f) = <<what>> /\ what \in {"ack", "error", "key"}
    BY <1>3 DEF Answers
  <2> HIDE DEF what
  <2>2. Reply(f) = <<Said(f, what)>>
    BY <2>1 DEF Reply
  <2>3. Reply(f) \in Seq(Reports)
    BY <2>1, <2>2, SaidIs
  <2>4. QED BY <1>3, <2>2, <2>3 DEF what
<1>4. QED BY <1>1, <1>2, <1>3

(* The writes' types are kept.                                             *)
LEMMA WritesTyped == TypeOK /\ [Next]_vars => TypeOK'
<1> SUFFICES ASSUME TypeOK, [Next]_vars PROVE TypeOK'
  OBVIOUS
<1>1. /\ inbox \in Seq(Frames) /\ wire \in Seq(Reports) /\ lane \in Seq(Apps)
      /\ stored \in [Pairs -> Nat] /\ store \in [Cells -> 0 .. MaxCalls] /\ told \subseteq Pairs
      /\ loose \in BOOLEAN /\ shared \in BOOLEAN
      /\ trouble \in [timeouts : 0 .. MaxTimeouts, refused : 0 .. MaxRefused,
                      dropped : 0 .. MaxDropped]
  BY DEF TypeOK
<1>2. /\ wire # << >> => Tail(wire) \in Seq(Reports) /\ Head(wire) \in Reports
      /\ inbox # << >> => Tail(inbox) \in Seq(Frames) /\ Head(inbox) \in Frames
  BY <1>1, HeadTailProperties
<1>3. ASSUME NEW a \in Apps, NEW kind \in Offered, Begin(a, kind) PROVE TypeOK'
  <2>1. kind \in Kinds
    BY DeviceWritesAssumption
  <2>2. shared' \in BOOLEAN
    BY <1>1, <1>3, Zenon DEF Begin
  <2>3. QED BY <1>1, <1>3, <2>1, <2>2, BeginIs DEF Begin, TypeOK
<1>4. ASSUME NEW a \in Apps, Ask(a) PROVE TypeOK'
  <2>1. call' \in [Apps -> OpenCalls \cup {Idle}] /\ a \in Open
    BY <1>4, AskIs DEF WriteMoves
  <2>2. inbox' \in Seq(Frames)
    <3>1. inbox' = Append(inbox, FrameOf(call[a]))
      BY <1>4 DEF Ask, FrameOf
    <3>2. FrameOf(call[a]) \in Frames
      BY <2>1, OpenIs
    <3>3. QED BY <1>1, <3>1, <3>2, AppendProperties
  <2>3. QED BY <1>4, <2>1, <2>2 DEF Ask, TypeOK
<1>5. ASSUME NEW a \in Apps, Hear(a) PROVE TypeOK'
  <2>1. call' \in [Apps -> OpenCalls \cup {Idle}] /\ a \in Open /\ lane' \in Seq(Apps) /\ wire # << >>
    BY <1>5, HearIs DEF WriteMoves
  <2>2. told' \subseteq Pairs
    <3>1. Pair(call[a]) \in Pairs
      BY <2>1, OpenIs DEF Pair
    <3>2. told' = told \/ told' = told \cup {Pair(call[a])}
      BY <1>5, HearIs
    <3>3. QED BY <1>1, <3>1, <3>2
  <2>3. QED BY <1>2, <1>5, <2>1, <2>2 DEF Hear, TypeOK
<1>6. ASSUME Skip PROVE TypeOK'
  BY <1>2, <1>6 DEF Skip, TypeOK
<1>7. ASSUME NEW a \in Apps, WindowEnds(a) PROVE TypeOK'
  <2>1. call' \in [Apps -> OpenCalls \cup {Idle}] /\ lane' \in Seq(Apps)
    BY <1>7, WindowEndsIs DEF WriteMoves
  <2>2. loose' \in BOOLEAN
    BY <1>1, <1>7, Zenon DEF WindowEnds
  <2>3. QED BY <1>7, <2>1, <2>2 DEF WindowEnds, TypeOK
<1>8. ASSUME NEW a \in Apps, TimeOut(a) PROVE TypeOK'
  <2>1. call' \in [Apps -> OpenCalls \cup {Idle}] /\ lane' \in Seq(Apps)
    BY <1>8, TimeOutIs DEF WriteMoves
  <2>2. loose' \in BOOLEAN
    BY <1>1, <1>8, Zenon DEF TimeOut
  <2>3. trouble' \in [timeouts : 0 .. MaxTimeouts, refused : 0 .. MaxRefused,
                      dropped : 0 .. MaxDropped]
    <3>1. CASE Coming(call[a].n, call[a].step)
      <4>1. trouble' = [trouble EXCEPT !.timeouts = @ + 1] /\ trouble.timeouts < MaxTimeouts
        BY <1>8, <3>1 DEF TimeOut
      <4> DEFINE T == 0 .. MaxTimeouts
                 R == 0 .. MaxRefused
                 D == 0 .. MaxDropped
      <4>2. trouble \in [timeouts : T, refused : R, dropped : D]
        BY <1>1
      <4>3. trouble.timeouts \in 0 .. MaxTimeouts
        BY <1>1
      <4>4. trouble.timeouts + 1 \in T
        BY <4>1, <4>3, DeviceWritesAssumption
      <4> HIDE DEF T, R, D
      <4>5. trouble' \in [timeouts : T, refused : R, dropped : D]
        BY <4>1, <4>2, <4>4
      <4>6. QED BY <4>5 DEF T, R, D
    <3>2. CASE ~Coming(call[a].n, call[a].step)
      <4>1. trouble' = [trouble EXCEPT !.timeouts = @]
        BY <1>8, <3>2 DEF TimeOut
      <4>2. QED BY <1>1, <4>1
    <3>3. QED BY <3>1, <3>2
  <2>4. QED BY <1>8, <2>1, <2>2, <2>3 DEF TimeOut, TypeOK
<1>9. ASSUME KeyStores PROVE TypeOK'
  <2> DEFINE f == Head(inbox)
  <2>1. f \in Frames /\ Tail(inbox) \in Seq(Frames)
    BY <1>2, <1>9 DEF KeyStores
  <2>2. wire' = wire \o Reply(f)
    BY <1>9 DEF KeyStores, Reply
  <2>3. wire' \in Seq(Reports)
    BY <1>1, <2>1, <2>2, ReplyIs, ConcatProperties
  <2>4. store' \in [Cells -> 0 .. MaxCalls]
    <3>1. Value(f.kind, f.n) \in 0 .. MaxCalls
      BY <2>1, DeviceWritesAssumption DEF Value, Blank, Frames, Numbers
    <3>2. store' = [c \in Cells |-> IF c \in Plan(f.kind)[f.step] THEN Value(f.kind, f.n) ELSE store[c]]
      BY <1>9 DEF KeyStores
    <3>3. QED BY <1>1, <3>1, <3>2
  <2>5. stored' \in [Pairs -> Nat]
    <3>1. stored' = [stored EXCEPT ![<<f.n, f.step>>] = @ + 1]
      BY <1>9 DEF KeyStores
    <3> DEFINE p == <<f.n, f.step>>
    <3>2. p \in Pairs
      BY <2>1 DEF Frames, Pairs
    <3> HIDE DEF p
    <3>3. stored' = [stored EXCEPT ![p] = stored[p] + 1]
      BY <3>1 DEF p
    <3>4. stored[p] + 1 \in Nat
      BY <1>1, <3>2
    <3>5. QED BY <1>1, <3>3, <3>4
  <2>6. QED BY <1>9, <2>1, <2>3, <2>4, <2>5 DEF KeyStores, TypeOK
<1>10. ASSUME KeyRefuses PROVE TypeOK'
  <2>1. Said(Head(inbox), "error") \in Reports /\ Tail(inbox) \in Seq(Frames)
    BY <1>2, <1>10, SaidIs DEF KeyRefuses
  <2>2. wire' \in Seq(Reports)
    BY <1>1, <1>10, <2>1, AppendProperties DEF KeyRefuses
  <2>3. trouble' \in [timeouts : 0 .. MaxTimeouts, refused : 0 .. MaxRefused,
                      dropped : 0 .. MaxDropped]
    <3> DEFINE more == trouble.refused + 1
               upTo == 0 .. MaxRefused
               Troubles == [timeouts : 0 .. MaxTimeouts, refused : 0 .. MaxRefused,
                            dropped : 0 .. MaxDropped]
    <3>1. trouble' = [trouble EXCEPT !.refused = more] /\ trouble.refused < MaxRefused
      BY <1>10 DEF KeyRefuses
    <3>2. trouble.refused \in 0 .. MaxRefused /\ MaxRefused \in Nat
      BY <1>1, DeviceWritesAssumption
    <3>3. more \in upTo
      BY <3>1, <3>2
    <3>4. Troubles = [timeouts : 0 .. MaxTimeouts, refused : upTo, dropped : 0 .. MaxDropped]
      OBVIOUS
    <3> HIDE DEF more, upTo
    <3>5. QED BY <1>1, <3>1, <3>3, <3>4
  <2>4. QED BY <1>10, <2>1, <2>2, <2>3 DEF KeyRefuses, TypeOK
<1>11. ASSUME KeyDrops PROVE TypeOK'
  <2>1. trouble' \in [timeouts : 0 .. MaxTimeouts, refused : 0 .. MaxRefused,
                      dropped : 0 .. MaxDropped]
    <3> DEFINE more == trouble.dropped + 1
               upTo == 0 .. MaxDropped
               Troubles == [timeouts : 0 .. MaxTimeouts, refused : 0 .. MaxRefused,
                            dropped : 0 .. MaxDropped]
    <3>1. trouble' = [trouble EXCEPT !.dropped = more] /\ trouble.dropped < MaxDropped
      BY <1>11 DEF KeyDrops
    <3>2. trouble.dropped \in 0 .. MaxDropped /\ MaxDropped \in Nat
      BY <1>1, DeviceWritesAssumption
    <3>3. more \in upTo
      BY <3>1, <3>2
    <3>4. Troubles = [timeouts : 0 .. MaxTimeouts, refused : 0 .. MaxRefused, dropped : upTo]
      OBVIOUS
    <3> HIDE DEF more, upTo
    <3>5. QED BY <1>1, <3>1, <3>3, <3>4
  <2>2. Tail(inbox) \in Seq(Frames)
    BY <1>2, <1>11 DEF KeyDrops
  <2>3. QED BY <1>11, <2>1, <2>2 DEF KeyDrops, TypeOK
<1>12. ASSUME UNCHANGED vars PROVE TypeOK'
  BY <1>12 DEF vars, TypeOK
<1>13. QED
  BY <1>3, <1>4, <1>5, <1>6, <1>7, <1>8, <1>9, <1>10, <1>11, <1>12, Zenon DEF Next, Work

-----------------------------------------------------------------------------
(* An answer of the talker is its own.                                     *)
LEMMA AnswerIs ==
  ASSUME TypeOK, Trusted, NEW a \in Apps, lane # << >>, Head(lane) = a, ~Quiet
  PROVE  OneAnswer(call[a])
BY DEF Trusted, Flow

(* Nothing is on its way when a turn ends with nothing to come.            *)
LEMMA NothingComes ==
  ASSUME TypeOK, Trusted, NEW a \in Apps, lane # << >>, Head(lane) = a,
         ~Coming(call[a].n, call[a].step)
  PROVE  Quiet
<1> SUFFICES ASSUME ~Quiet PROVE FALSE
  OBVIOUS
<1> DEFINE c == call[a]
<1>1. OneAnswer(c)
  BY AnswerIs
<1>2. CASE inbox = <<FrameOf(c)>>
  <2>1. 1 \in DOMAIN inbox /\ inbox[1].n = c.n /\ inbox[1].step = c.step
    BY <1>2 DEF FrameOf
  <2>2. QED BY <2>1 DEF Coming
<1>3. ASSUME NEW what, wire # << >>, wire[1] = Said(c, what), wire \in Seq(Reports) PROVE FALSE
  <2>1. 1 \in DOMAIN wire
    BY <1>3, EmptySeq, LenProperties
  <2>2. wire[1].n = c.n /\ wire[1].step = c.step
    BY <1>3 DEF Said
  <2>3. QED BY <2>1, <2>2 DEF Coming
<1>4. wire \in Seq(Reports)
  BY DEF TypeOK
<1>5. CASE wire = <<Said(c, "error")>>
  BY <1>3, <1>4, <1>5
<1>6. CASE wire = <<Said(c, "ack")>>
  BY <1>3, <1>4, <1>6
<1>7. CASE wire = <<Said(c, "key")>>
  BY <1>3, <1>4, <1>7
<1>8. CASE wire = <<Said(c, "ack"), Said(c, "ack")>>
  BY <1>3, <1>4, <1>8
<1>9. QED BY <1>1, <1>2, <1>5, <1>6, <1>7, <1>8 DEF OneAnswer

(* What is trusted stays so when nothing is on its way and no call goes on *)
(* before its first frame was stored.                                      *)
LEMMA TrustedWhenQuiet ==
  ASSUME Trusted, Quiet', \A p \in told' : stored'[p] > 0,
         \A a \in Open' : call'[a].step = 2 => stored'[<<call'[a].n, 1>>] > 0, stored' = stored
  PROVE  Trusted'
<1>1. Flow'
  BY DEF Flow
<1>2. QED BY <1>1 DEF Trusted

(* Calls that were open stay so, but for the one that moved.               *)
LEMMA OpenNow ==
  ASSUME TypeOK, TypeOK', NEW a \in Open, WriteMoves(a)
  PROVE  /\ \A b \in Apps \ {a} : (b \in Open' <=> b \in Open) /\ call'[b] = call[b]
         /\ a \in Open' <=> call'[a] # Idle
         /\ a \in Open' => /\ call'[a] \in OpenCalls
                           /\ call'[a].kind = call[a].kind /\ call'[a].n = call[a].n
         /\ Open' \subseteq Open
<1>1. a \in Apps /\ Open \subseteq Apps /\ Open' \subseteq Apps
  BY DEF Open
<1>2. \A b \in Apps \ {a} : (b \in Open' <=> b \in Open) /\ call'[b] = call[b]
  BY <1>1 DEF WriteMoves, Open
<1>3. Idle.phase = "idle"
  BY DEF Idle
<1>4. \A c \in OpenCalls : c.phase # "idle"
  BY DEF OpenCalls
<1>5. /\ a \in Open' <=> call'[a] # Idle
      /\ a \in Open' => /\ call'[a] \in OpenCalls
                        /\ call'[a].kind = call[a].kind /\ call'[a].n = call[a].n
  BY <1>1, <1>3, <1>4 DEF WriteMoves, Open
<1>6. QED BY <1>1, <1>2, <1>5

(* What is left of one report, or of two.                                  *)
LEMMA RestOf ==
  /\ \A x : Tail(<<x>>) = << >>
  /\ \A x, y : Tail(<<x, y>>) = <<y>>
OBVIOUS

(* A call at its second step has stored the first.                         *)
LEMMA StepsStored ==
  ASSUME TypeOK, TypeOK', Trusted, NEW a \in Open, WriteMoves(a), stored' = stored,
         a \in Open' /\ call'[a].step = 2 => stored[<<call[a].n, 1>>] > 0
  PROVE  \A b \in Open' : call'[b].step = 2 => stored'[<<call'[b].n, 1>>] > 0
<1> SUFFICES ASSUME NEW b \in Open', call'[b].step = 2 PROVE stored[<<call'[b].n, 1>>] > 0
  OBVIOUS
<1>1. CASE b = a
  <2>1. call'[a].n = call[a].n
    BY <1>1, OpenNow
  <2>2. QED BY <1>1, <2>1
<1>2. CASE b # a
  <2>1. b \in Apps \ {a}
    BY <1>2 DEF Open
  <2>2. b \in Open /\ call'[b] = call[b]
    BY <2>1, OpenNow
  <2>3. QED BY <2>2 DEF Trusted
<1>3. QED BY <1>1, <1>2

(* What the host was told was done, unless an answer was left behind.      *)
LEMMA ToldKept == ToldInv /\ TypeOK' /\ [Next]_vars => ToldInv'
<1> SUFFICES ASSUME ToldInv, TypeOK', [Next]_vars, ~loose' PROVE Trusted'
  BY DEF ToldInv
<1>1. TypeOK /\ stored \in [Pairs -> Nat] /\ told \subseteq Pairs /\ stored' \in [Pairs -> Nat]
      /\ wire \in Seq(Reports) /\ inbox \in Seq(Frames)
  BY DEF ToldInv, TypeOK
<1>2. \A p \in told : stored[p] > 0
  <2>1. ~loose
    BY DEF Next, Work, Begin, Ask, Hear, Skip, WindowEnds, TimeOut, KeyStores, KeyRefuses, KeyDrops,
           vars
  <2>2. QED BY <2>1 DEF ToldInv, Trusted
<1>3. Trusted
  <2>1. ~loose
    BY DEF Next, Work, Begin, Ask, Hear, Skip, WindowEnds, TimeOut, KeyStores, KeyRefuses, KeyDrops,
           vars
  <2>2. QED BY <2>1 DEF ToldInv
<1>4. ASSUME NEW a \in Apps, NEW kind \in Offered, Begin(a, kind) PROVE Trusted'
  <2>1. kind \in Kinds
    BY DeviceWritesAssumption
  <2>2. /\ call[a].phase = "idle" /\ call'[a] = Begun(kind)
        /\ \A b \in Apps \ {a} : call'[b] = call[b]
    BY <1>1, <1>4, <2>1, BeginIs
  <2>3. UNCHANGED <<inbox, wire, told, stored>> /\ lane' = Append(lane, a)
    BY <1>4 DEF Begin
  <2>4. Flow'
    <3>1. CASE Quiet
      BY <2>3, <3>1 DEF Quiet, Flow
    <3>2. CASE ~Quiet
      <4>1. lane # << >> /\ OneAnswer(call[Head(lane)]) /\ lane \in Seq(Apps)
        BY <1>1, <1>3, <3>2 DEF Trusted, Flow, TypeOK
      <4>2. lane' # << >> /\ Head(lane') = Head(lane) /\ Head(lane) \in Apps
        BY <2>3, <4>1, HeadTailAppend, AppendProperties, HeadTailProperties
      <4>3. Head(lane) # a
        BY <2>2, <4>1 DEF OneAnswer
      <4>4. call'[Head(lane')] = call[Head(lane)]
        BY <2>2, <4>2, <4>3
      <4>5. OneAnswer(call[Head(lane)])'
        BY <2>3, <4>1, <4>4 DEF OneAnswer
      <4>6. QED BY <4>2, <4>5 DEF Flow
    <3>3. QED BY <3>1, <3>2
  <2>5. \A b \in Open' : call'[b].step = 2 => stored'[<<call'[b].n, 1>>] > 0
    <3>1. Begun(kind).step = 1
      BY DEF Begun
    <3>2. QED BY <1>3, <2>2, <2>3, <3>1 DEF Open, Trusted
  <2>6. QED BY <1>3, <2>3, <2>4, <2>5 DEF Trusted
<1>5. ASSUME NEW a \in Apps, Ask(a) PROVE Trusted'
  <2>1. /\ a \in Open /\ WriteMoves(a) /\ call'[a] \in OpenCalls /\ lane # << >> /\ Head(lane) = a
        /\ call[a].phase = "queued" /\ call'[a].phase = "waiting" /\ call'[a].step = call[a].step
        /\ call'[a].n = call[a].n /\ call'[a].kind = call[a].kind
    BY <1>1, <1>5, AskIs, OpenNow DEF WriteMoves, Idle
  <2>2. Quiet
    BY <1>1, <1>3, <2>1, AnswerIs DEF OneAnswer
  <2>3. UNCHANGED <<lane, wire, told, stored>> /\ inbox' = Append(inbox, FrameOf(call[a]))
    BY <1>5 DEF Ask, FrameOf
  <2>4. inbox' = <<FrameOf(call[a])>> /\ FrameOf(call'[a]) = FrameOf(call[a])
    BY <2>1, <2>2, <2>3 DEF Quiet, FrameOf
  <2>5. OneAnswer(call[a])'
    BY <2>1, <2>2, <2>3, <2>4 DEF OneAnswer, Quiet
  <2>6. Flow'
    BY <2>1, <2>3, <2>5 DEF Flow
  <2>7. \A b \in Open' : call'[b].step = 2 => stored'[<<call'[b].n, 1>>] > 0
    <3>1. call[a].step = 2 => stored[<<call[a].n, 1>>] > 0
      BY <1>3, <2>1 DEF Trusted
    <3>2. QED BY <1>1, <1>3, <2>1, <2>3, <3>1, StepsStored
  <2>8. QED BY <1>3, <2>3, <2>6, <2>7 DEF Trusted
<1>6. ASSUME NEW a \in Apps, Hear(a) PROVE Trusted'
  <2> DEFINE c == call[a]
  <2>1. /\ a \in Open /\ lane # << >> /\ Head(lane) = a /\ wire # << >> /\ WriteMoves(a)
        /\ Pair(c) \in Pairs
    BY <1>1, <1>6, HearIs, OpenIs DEF Pair, Open
  <2>2. OneAnswer(c) /\ inbox = << >>
    <3>1. OneAnswer(c)
      BY <1>1, <1>3, <2>1, AnswerIs DEF Quiet
    <3>2. QED BY <2>1, <3>1 DEF OneAnswer
  <2>3. UNCHANGED <<inbox, stored>> /\ wire' = Tail(wire)
    BY <1>6 DEF Hear
  <2>4. Head(wire).what # "error" => stored[Pair(c)] > 0
    BY <2>1, <2>2 DEF OneAnswer, Said, Pair
  <2>5. \A p \in told' : stored'[p] > 0
    <3>1. told' = told \/ (told' = told \cup {Pair(c)} /\ stored[Pair(c)] > 0)
      BY <1>1, <1>6, <2>4, HearIs
    <3>2. QED BY <1>2, <2>3, <3>1
  <2>6. \A b \in Open' : call'[b].step = 2 => stored'[<<call'[b].n, 1>>] > 0
    <3>1. a \in Open' /\ call'[a].step = 2 => stored[<<call'[a].n, 1>>] > 0
      <4>1. SUFFICES ASSUME a \in Open', call'[a].step = 2 PROVE stored[<<call'[a].n, 1>>] > 0
        OBVIOUS
      <4>2. call'[a].n = c.n /\ call'[a] # Idle
        BY <1>1, <2>1, <4>1, OpenNow
      <4>3. CASE c.step = 2
        BY <1>3, <2>1, <4>2, <4>3 DEF Trusted
      <4>4. CASE c.step # 2
        <5>1. Head(wire).what # "error" /\ c.step = 1
          BY <1>1, <1>6, <2>1, <4>2, <4>4, HearIs, OpenIs DEF Open
        <5>2. QED BY <2>4, <4>2, <5>1 DEF Pair
      <4>5. QED BY <4>3, <4>4
    <3>2. a \in Open' => call'[a].n = c.n
      BY <1>1, <2>1, OpenNow
    <3>3. QED BY <1>1, <1>3, <2>1, <2>3, <3>1, <3>2, StepsStored
  <2>7. CASE wire' = << >>
    <3>1. Quiet'
      BY <2>2, <2>3, <2>7 DEF Quiet
    <3>2. QED BY <1>3, <2>3, <2>5, <2>6, <3>1, TrustedWhenQuiet
  <2>8. CASE wire' # << >>
    <3>1. /\ c.kind = "wipeSlot" /\ wire = <<Said(c, "ack"), Said(c, "ack")>>
          /\ stored[<<c.n, c.step>>] > 0
      BY <2>1, <2>2, <2>3, <2>8, RestOf DEF OneAnswer
    <3>2. wire' = <<Said(c, "ack")>> /\ Head(wire).what # "error"
      BY <2>3, <3>1 DEF Said
    <3>3. /\ lane' = lane /\ call'[a] \in OpenCalls /\ call'[a].phase = "quieting"
          /\ call'[a].step = c.step
      BY <1>1, <1>6, <3>1, <3>2, HearIs
    <3>4. call'[a].n = c.n
      BY <2>1, <3>3 DEF WriteMoves, Idle, OpenCalls
    <3>5. Said(call'[a], "ack") = Said(c, "ack")
      BY <3>3, <3>4 DEF Said
    <3>6. OneAnswer(call[a])'
      BY <2>2, <2>3, <3>1, <3>2, <3>3, <3>4, <3>5 DEF OneAnswer
    <3>7. Flow'
      BY <2>1, <3>3, <3>6 DEF Flow
    <3>8. QED BY <1>3, <2>3, <2>5, <2>6, <3>7 DEF Trusted
  <2>9. QED BY <2>7, <2>8
<1>7. ASSUME Skip PROVE Trusted'
  <2> DEFINE c == call[Head(lane)]
  <2>1. /\ UNCHANGED <<call, lane, inbox, told, stored>> /\ wire' = Tail(wire) /\ wire # << >>
    BY <1>7 DEF Skip
  <2>2. lane # << >> /\ OneAnswer(c) /\ inbox = << >>
    BY <1>3, <2>1 DEF Trusted, Flow, Quiet, OneAnswer
  <2>3. CASE wire' = << >>
    <3>1. Quiet'
      BY <2>1, <2>2, <2>3 DEF Quiet
    <3>2. QED BY <1>3, <2>1, <3>1, TrustedWhenQuiet DEF Trusted, Open
  <2>4. CASE wire' # << >>
    <3>1. /\ c.kind = "wipeSlot" /\ wire = <<Said(c, "ack"), Said(c, "ack")>>
          /\ stored[<<c.n, c.step>>] > 0
      BY <2>1, <2>2, <2>4, RestOf DEF OneAnswer
    <3>2. wire' = <<Said(c, "ack")>>
      BY <2>1, <3>1
    <3>3. OneAnswer(c)'
      BY <2>1, <2>2, <3>1, <3>2 DEF OneAnswer
    <3>4. Flow'
      BY <2>1, <2>2, <3>3 DEF Flow
    <3>5. QED BY <1>3, <2>1, <3>4 DEF Trusted, Open
  <2>5. QED BY <2>3, <2>4
<1>8. ASSUME NEW a \in Apps, WindowEnds(a) \/ TimeOut(a) PROVE Trusted'
  <2>1. /\ a \in Open /\ lane # << >> /\ Head(lane) = a /\ WriteMoves(a)
        /\ call'[a] = Idle \/ call'[a].step = call[a].step
    BY <1>1, <1>8, WindowEndsIs, TimeOutIs
  <2>2. UNCHANGED <<inbox, wire, told, stored>> /\ ~Coming(call[a].n, call[a].step)
    BY <1>8 DEF WindowEnds, TimeOut
  <2>3. Quiet'
    <3>1. Quiet
      BY <1>1, <1>3, <2>1, <2>2, NothingComes
    <3>2. QED BY <2>2, <3>1 DEF Quiet
  <2>4. \A b \in Open' : call'[b].step = 2 => stored'[<<call'[b].n, 1>>] > 0
    <3>1. call[a].step = 2 => stored[<<call[a].n, 1>>] > 0
      BY <1>3, <2>1 DEF Trusted
    <3>2. a \in Open' => call'[a] # Idle
      BY <1>1, <2>1, OpenNow
    <3>3. QED BY <1>1, <1>3, <2>1, <2>2, <3>1, <3>2, StepsStored
  <2>5. QED BY <1>2, <1>3, <2>2, <2>3, <2>4, TrustedWhenQuiet
<1>9. ASSUME inbox # << >>
      PROVE  /\ lane # << >> /\ OneAnswer(call[Head(lane)]) /\ call[Head(lane)].phase = "waiting"
             /\ inbox = <<FrameOf(call[Head(lane)])>> /\ wire = << >>
             /\ Head(lane) \in Open
  <2>1. lane # << >> /\ OneAnswer(call[Head(lane)])
    BY <1>3, <1>9 DEF Trusted, Flow, Quiet
  <2>2. Head(lane) \in Open
    <3>1. Head(lane) \in Apps
      BY <1>1, <2>1, HeadTailProperties DEF TypeOK
    <3>2. QED BY <2>1, <3>1 DEF Open, OneAnswer
  <2>3. QED BY <1>9, <2>1, <2>2 DEF OneAnswer
<1>10. ASSUME KeyStores PROVE Trusted'
  <2> DEFINE c == call[Head(lane)]
             f == Head(inbox)
  <2>1. /\ lane # << >> /\ c.phase = "waiting" /\ inbox = <<FrameOf(c)>> /\ wire = << >>
        /\ Head(lane) \in Open
    BY <1>9, <1>10 DEF KeyStores
  <2>2. f = FrameOf(c) /\ f.n = c.n /\ f.step = c.step /\ f.kind = c.kind /\ f \in Frames
        /\ Pair(c) \in Pairs /\ c.n \in Numbers /\ c.step \in {1, 2}
    BY <1>1, <2>1, OpenIs DEF FrameOf, Pair, Open
  <2>3. UNCHANGED <<call, lane, told>> /\ inbox' = << >>
    BY <1>10, <2>1 DEF KeyStores
  <2>4. stored' = [stored EXCEPT ![Pair(c)] = @ + 1]
    BY <1>10, <2>2 DEF KeyStores, Pair
  <2>5. /\ stored'[Pair(c)] > 0
        /\ \A p \in Pairs : stored[p] > 0 => stored'[p] > 0
        /\ \A p \in Pairs \ {Pair(c)} : stored'[p] = stored[p]
    BY <1>1, <2>2, <2>4
  <2>6. wire' = Reply(f)
    <3>1. wire' = << >> \o Reply(f) /\ Reply(f) \in Seq(Reports)
      BY <1>10, <2>1, <2>2, ReplyIs DEF KeyStores, Reply
    <3>2. QED BY <3>1, ConcatEmptySeq
  <2>7. \A what : Said(f, what) = Said(c, what)
    BY <2>2 DEF Said
  <2>8. Flow'
    <3>1. CASE wire' = << >>
      BY <2>3, <3>1 DEF Flow, Quiet
    <3>2. CASE wire' # << >>
      <4>1. \/ wire' = <<Said(c, "ack")>> \/ wire' = <<Said(c, "key")>>
            \/ c.kind = "wipeSlot" /\ wire' = <<Said(c, "ack"), Said(c, "ack")>>
        BY <2>2, <2>6, <2>7, <3>2, ReplyIs
      <4>2. stored'[<<c.n, c.step>>] > 0
        BY <2>5 DEF Pair
      <4>3. OneAnswer(c)'
        BY <2>1, <2>3, <4>1, <4>2 DEF OneAnswer
      <4>4. QED BY <2>1, <2>3, <4>3 DEF Flow
    <3>3. QED BY <3>1, <3>2
  <2>9. \A p \in told' : stored'[p] > 0
    BY <1>1, <1>2, <2>3, <2>5
  <2>10. \A b \in Open' : call'[b].step = 2 => stored'[<<call'[b].n, 1>>] > 0
    <3>1. \A b \in Open : <<call[b].n, 1>> \in Pairs
      BY <1>1, OpenIs DEF Pairs, Open
    <3>2. QED BY <1>3, <2>3, <2>5, <3>1 DEF Trusted, Open
  <2>11. \A n \in Numbers : stored'[<<n, 2>>] > 0 => stored'[<<n, 1>>] > 0
    <3> SUFFICES ASSUME NEW n \in Numbers, stored'[<<n, 2>>] > 0 PROVE stored'[<<n, 1>>] > 0
      OBVIOUS
    <3>1. <<n, 1>> \in Pairs /\ <<n, 2>> \in Pairs
      BY DEF Pairs
    <3>2. CASE <<n, 2>> = Pair(c)
      <4>1. n = c.n /\ c.step = 2
        BY <3>2 DEF Pair
      <4>2. stored[<<n, 1>>] > 0
        BY <1>3, <2>1, <4>1 DEF Trusted
      <4>3. QED BY <2>5, <3>1, <4>2
    <3>3. CASE <<n, 2>> # Pair(c)
      <4>1. stored[<<n, 2>>] > 0
        BY <2>5, <3>1, <3>3
      <4>2. stored[<<n, 1>>] > 0
        BY <1>3, <4>1 DEF Trusted
      <4>3. QED BY <2>5, <3>1, <4>2
    <3>4. QED BY <3>2, <3>3
  <2>12. QED BY <2>8, <2>9, <2>10, <2>11 DEF Trusted
<1>11. ASSUME KeyRefuses PROVE Trusted'
  <2> DEFINE c == call[Head(lane)]
  <2>1. /\ lane # << >> /\ c.phase = "waiting" /\ inbox = <<FrameOf(c)>> /\ wire = << >>
    BY <1>9, <1>11 DEF KeyRefuses
  <2>2. UNCHANGED <<call, lane, told, stored>> /\ inbox' = << >>
    BY <1>11, <2>1 DEF KeyRefuses
  <2>3. wire' = <<Said(c, "error")>>
    <3>1. Said(Head(inbox), "error") = Said(c, "error")
      BY <2>1 DEF Said, FrameOf
    <3>2. QED BY <1>11, <2>1, <3>1 DEF KeyRefuses
  <2>4. OneAnswer(c)'
    BY <2>1, <2>2, <2>3 DEF OneAnswer
  <2>5. Flow'
    BY <2>1, <2>2, <2>4 DEF Flow
  <2>6. QED BY <1>3, <2>2, <2>5 DEF Trusted, Open
<1>12. ASSUME KeyDrops PROVE Trusted'
  <2>1. inbox = <<FrameOf(call[Head(lane)])>> /\ wire = << >>
    BY <1>9, <1>12 DEF KeyDrops
  <2>2. UNCHANGED <<call, lane, told, stored, wire>> /\ inbox' = << >>
    BY <1>12, <2>1 DEF KeyDrops
  <2>3. Quiet'
    BY <2>1, <2>2 DEF Quiet
  <2>4. QED BY <1>3, <2>2, <2>3, TrustedWhenQuiet DEF Trusted, Open
<1>13. ASSUME UNCHANGED vars PROVE Trusted'
  BY <1>3, <1>13 DEF vars, Trusted, Flow, Quiet, OneAnswer, Open
<1>14. QED
  BY <1>4, <1>5, <1>6, <1>7, <1>8, <1>10, <1>11, <1>12, <1>13, Zenon DEF Next, Work

-----------------------------------------------------------------------------
(* The frames that are left when the key has looked at one.                *)
LEMMA FramesLeft ==
  ASSUME inbox \in Seq(Frames), inbox # << >>, inbox' = Tail(inbox)
  PROVE  /\ \A k \in DOMAIN inbox' : k + 1 \in DOMAIN inbox /\ inbox'[k] = inbox[k + 1]
         /\ \A k \in DOMAIN inbox' : k \in Nat \ {0}
         /\ 1 \in DOMAIN inbox /\ Head(inbox) = inbox[1] /\ Head(inbox) \in Frames
<1>1. /\ Tail(inbox) \in Seq(Frames) /\ Len(Tail(inbox)) = Len(inbox) - 1 /\ Len(inbox) \in Nat
      /\ \A i \in 1 .. Len(Tail(inbox)) : Tail(inbox)[i] = inbox[i + 1]
      /\ Head(inbox) \in Frames /\ Head(inbox) = inbox[1]
  BY HeadTailProperties, LenProperties
<1>2. DOMAIN inbox = 1 .. Len(inbox) /\ DOMAIN Tail(inbox) = 1 .. Len(Tail(inbox))
  BY <1>1, LenProperties
<1>3. Len(inbox) # 0
  BY EmptySeq
<1>4. QED BY <1>1, <1>2, <1>3

(* The frame that is put behind the others.                                *)
LEMMA FramesMore ==
  ASSUME inbox \in Seq(Frames), NEW f \in Frames, inbox' = Append(inbox, f)
  PROVE  /\ Len(inbox) \in Nat /\ DOMAIN inbox = 1 .. Len(inbox)
         /\ DOMAIN inbox' = 1 .. Len(inbox) + 1
         /\ \A k \in DOMAIN inbox : inbox'[k] = inbox[k]
         /\ inbox'[Len(inbox) + 1] = f
<1>1. Len(inbox) \in Nat /\ DOMAIN inbox = 1 .. Len(inbox)
  BY LenProperties
<1>2. /\ Append(inbox, f) \in Seq(Frames) /\ Len(Append(inbox, f)) = Len(inbox) + 1
      /\ \A i \in 1 .. Len(inbox) : Append(inbox, f)[i] = inbox[i]
      /\ Append(inbox, f)[Len(inbox) + 1] = f
  BY AppendProperties
<1>3. DOMAIN Append(inbox, f) = 1 .. Len(Append(inbox, f))
  BY <1>2, LenProperties
<1>4. QED BY <1>1, <1>2, <1>3

(* Numbers stay right as one call moves on.                                *)
LEMMA NumberedMoves ==
  ASSUME TypeOK, TypeOK', Numbered, NEW a \in Open, WriteMoves(a), begun' = begun, stored' = stored,
         inbox' = inbox \/ inbox' = Append(inbox, FrameOf(call[a])),
         told' \subseteq told \cup {Pair(call[a])},
         a \in Open' => /\ call'[a].step \in DOMAIN Plan(call[a].kind)
                        /\ <<call[a].n, 2>> \notin told'
  PROVE  Numbered'
<1>1. \A b \in Open' : b # a => b \in Open /\ call'[b] = call[b] /\ call[b].n # call[a].n
  <2> SUFFICES ASSUME NEW b \in Open', b # a
               PROVE  b \in Open /\ call'[b] = call[b] /\ call[b].n # call[a].n
    OBVIOUS
  <2>1. b \in Apps \ {a}
    BY DEF Open
  <2>2. b \in Open /\ call'[b] = call[b]
    BY <2>1, OpenNow
  <2>3. QED BY <2>2 DEF Numbered
<1>2. a \in Open' => call'[a].kind = call[a].kind /\ call'[a].n = call[a].n
  BY OpenNow
<1>3. /\ call[a].n <= Len(begun) /\ begun[call[a].n] = call[a].kind
  BY DEF Numbered
<1>4. ASSUME NEW b \in Open'
      PROVE  /\ call'[b].n <= Len(begun') /\ begun'[call'[b].n] = call'[b].kind
             /\ call'[b].step \in DOMAIN Plan(call'[b].kind)
             /\ <<call'[b].n, 2>> \notin told'
  <2>1. CASE b = a
    BY <1>2, <1>3, <2>1
  <2>2. CASE b # a
    <3>1. b \in Open /\ call'[b] = call[b] /\ call[b].n # call[a].n
      BY <1>1, <2>2
    <3>2. <<call[b].n, 2>> # Pair(call[a]) /\ <<call[b].n, 2>> \notin told
      BY <3>1 DEF Numbered, Pair
    <3>3. QED BY <3>1, <3>2 DEF Numbered
  <2>3. QED BY <2>1, <2>2
<1>5. ASSUME NEW b \in Open', NEW d \in Open', call'[b].n = call'[d].n PROVE b = d
  <2>1. CASE b = a \/ d = a
    BY <1>1, <1>2, <1>5, <2>1
  <2>2. CASE b # a /\ d # a
    BY <1>1, <1>5, <2>2 DEF Numbered
  <2>3. QED BY <2>1, <2>2
<1>6. ASSUME NEW k \in DOMAIN inbox'
      PROVE  inbox'[k].n <= Len(begun') /\ begun'[inbox'[k].n] = inbox'[k].kind
  <2>1. CASE inbox' = inbox
    BY <1>6, <2>1 DEF Numbered
  <2>2. CASE inbox' = Append(inbox, FrameOf(call[a]))
    <3>1. FrameOf(call[a]) \in Frames /\ inbox \in Seq(Frames)
      BY OpenIs DEF Open, TypeOK
    <3>2. (k \in DOMAIN inbox /\ inbox'[k] = inbox[k]) \/ inbox'[k] = FrameOf(call[a])
      BY <1>6, <2>2, <3>1, FramesMore
    <3>3. QED BY <1>3, <3>2 DEF Numbered, FrameOf
  <2>3. QED BY <2>1, <2>2
<1>7. \A p \in told' : p[1] <= Len(begun')
  BY <1>3 DEF Numbered, Pair
<1>8. \A p \in Pairs : stored'[p] > 0 => p[1] <= Len(begun')
  BY DEF Numbered
<1>9. QED BY <1>4, <1>5, <1>6, <1>7, <1>8 DEF Numbered

(* They stay right as the key looks at a frame.                            *)
LEMMA NumberedLooks ==
  ASSUME TypeOK, Numbered, inbox # << >>, inbox' = Tail(inbox), UNCHANGED <<call, begun, told>>,
         \A p \in Pairs : stored'[p] > 0 => stored[p] > 0 \/ p[1] = Head(inbox).n
  PROVE  Numbered'
<1>1. inbox \in Seq(Frames)
  BY DEF TypeOK
<1>2. /\ \A k \in DOMAIN inbox' : k + 1 \in DOMAIN inbox /\ inbox'[k] = inbox[k + 1]
      /\ 1 \in DOMAIN inbox /\ Head(inbox) = inbox[1]
  BY <1>1, FramesLeft
<1>3. Head(inbox).n <= Len(begun)
  BY <1>2 DEF Numbered
<1>4. \A k \in DOMAIN inbox' : /\ inbox'[k].n <= Len(begun')
                               /\ begun'[inbox'[k].n] = inbox'[k].kind
  BY <1>2 DEF Numbered
<1>5. \A p \in Pairs : stored'[p] > 0 => p[1] <= Len(begun')
  BY <1>3 DEF Numbered
<1>6. QED BY <1>4, <1>5 DEF Numbered, Open

(* Every step keeps the numbers right.                                     *)
LEMMA NumberedKept == TypeOK /\ TypeOK' /\ Numbered /\ [Next]_vars => Numbered'
<1> SUFFICES ASSUME TypeOK, TypeOK', Numbered, [Next]_vars PROVE Numbered'
  OBVIOUS
<1>1. ASSUME NEW a \in Apps, NEW kind \in Offered, Begin(a, kind) PROVE Numbered'
  <2> DEFINE next == Len(begun) + 1
  <2>1. kind \in Kinds
    BY DeviceWritesAssumption
  <2>2. /\ call[a].phase = "idle" /\ call'[a] = Begun(kind)
        /\ \A b \in Apps \ {a} : call'[b] = call[b]
        /\ Len(begun) \in Nat /\ Len(begun') = Len(begun) + 1 /\ begun'[next] = kind
        /\ \A n \in 1 .. Len(begun) : begun'[n] = begun[n]
    BY <1>1, <2>1, BeginIs
  <2>3. UNCHANGED <<inbox, told, stored>>
    BY <1>1 DEF Begin
  <2>4. ASSUME NEW b \in Open', b # a PROVE b \in Open /\ call'[b] = call[b]
    BY <2>2, <2>4 DEF Open
  <2>5. /\ call'[a].n = next /\ call'[a].kind = kind /\ call'[a].step = 1
    BY <2>2 DEF Begun
  <2>6. \A b \in Open : call[b].n \in 1 .. Len(begun)
    <3>1. \A b \in Open : call[b].n \in Numbers /\ call[b].n <= Len(begun)
      BY OpenIs DEF Open, Numbered
    <3>2. QED BY <2>2, <3>1 DEF Numbers
  <2>7. ASSUME NEW b \in Open'
        PROVE  /\ call'[b].n <= Len(begun') /\ begun'[call'[b].n] = call'[b].kind
               /\ call'[b].step \in DOMAIN Plan(call'[b].kind)
               /\ <<call'[b].n, 2>> \notin told'
    <3>1. CASE b = a
      <4>1. 1 \in DOMAIN Plan(kind)
        BY <2>1, PlanIs
      <4>2. <<next, 2>> \notin told
        <5>1. ~(next <= Len(begun))
          BY <2>2
        <5>2. <<next, 2>>[1] = next
          OBVIOUS
        <5> HIDE DEF next
        <5>3. QED BY <5>1, <5>2 DEF Numbered
      <4>3. QED BY <2>2, <2>3, <2>5, <3>1, <4>1, <4>2
    <3>2. CASE b # a
      <4>1. b \in Open /\ call'[b] = call[b]
        BY <2>4, <3>2
      <4>2. /\ call[b].n <= Len(begun) /\ begun[call[b].n] = call[b].kind
            /\ call[b].step \in DOMAIN Plan(call[b].kind) /\ <<call[b].n, 2>> \notin told
        BY <4>1 DEF Numbered
      <4>3. call[b].n <= Len(begun') /\ begun'[call[b].n] = begun[call[b].n]
        BY <2>2, <2>6, <4>1
      <4>4. QED BY <2>3, <4>1, <4>2, <4>3
    <3>3. QED BY <3>1, <3>2
  <2>8. ASSUME NEW b \in Open', NEW d \in Open', call'[b].n = call'[d].n PROVE b = d
    <3>1. CASE b = a \/ d = a
      <4>1. \A e \in Open : call[e].n # next
        BY <2>2, <2>6
      <4>2. QED BY <2>4, <2>5, <2>8, <3>1, <4>1
    <3>2. CASE b # a /\ d # a
      BY <2>4, <2>8, <3>2 DEF Numbered
    <3>3. QED BY <3>1, <3>2
  <2>9. ASSUME NEW k \in DOMAIN inbox'
        PROVE  inbox'[k].n <= Len(begun') /\ begun'[inbox'[k].n] = inbox'[k].kind
    <3>1. inbox[k] \in Frames
      BY <2>3, <2>9, ElementOfSeq, LenProperties DEF TypeOK
    <3>2. inbox[k].n <= Len(begun) /\ begun[inbox[k].n] = inbox[k].kind
      BY <2>3, <2>9 DEF Numbered
    <3>3. inbox[k].n \in 1 .. Len(begun)
      BY <2>2, <3>1, <3>2 DEF Frames, Numbers
    <3>4. inbox'[k] = inbox[k] /\ begun'[inbox[k].n] = begun[inbox[k].n]
      BY <2>2, <2>3, <3>3
    <3>5. inbox[k].n <= Len(begun')
      BY <2>2, <3>3
    <3>6. QED BY <3>2, <3>4, <3>5
  <2>10. \A p \in told' : p[1] <= Len(begun')
    <3>1. \A p \in told : p[1] <= Len(begun)
      BY DEF Numbered
    <3>2. \A p \in told : p[1] \in Nat
      BY DEF TypeOK, Pairs, Numbers
    <3>3. QED BY <2>2, <2>3, <3>1, <3>2
  <2>11. \A p \in Pairs : stored'[p] > 0 => p[1] <= Len(begun')
    <3>1. \A p \in Pairs : p[1] \in Nat
      BY DEF Pairs, Numbers
    <3>2. QED BY <2>2, <2>3, <3>1 DEF Numbered
  <2>12. QED BY <2>7, <2>8, <2>9, <2>10, <2>11 DEF Numbered
<1>2. ASSUME NEW a \in Apps, Ask(a) PROVE Numbered'
  <2>1. a \in Open /\ WriteMoves(a) /\ call'[a].step = call[a].step
    BY <1>2, AskIs
  <2>2. UNCHANGED <<begun, stored, told>> /\ inbox' = Append(inbox, FrameOf(call[a]))
    BY <1>2 DEF Ask, FrameOf
  <2>3. call[a].step \in DOMAIN Plan(call[a].kind) /\ <<call[a].n, 2>> \notin told
    BY <2>1 DEF Numbered
  <2>4. QED BY <2>1, <2>2, <2>3, NumberedMoves
<1>3. ASSUME NEW a \in Apps, Hear(a) PROVE Numbered'
  <2> DEFINE c == call[a]
  <2>1. a \in Open /\ WriteMoves(a) /\ UNCHANGED <<begun, stored, inbox>>
    BY <1>3, HearIs DEF Hear
  <2>2. /\ c.step \in DOMAIN Plan(c.kind) /\ <<c.n, 2>> \notin told /\ c.kind \in Kinds
        /\ c.step \in {1, 2}
    BY <2>1, OpenIs DEF Numbered, Open
  <2>3. told' \subseteq told \cup {Pair(c)}
    BY <1>3, HearIs
  <2>4. ASSUME a \in Open'
        PROVE  call'[a].step \in DOMAIN Plan(c.kind) /\ <<c.n, 2>> \notin told'
    <3>1. call'[a] # Idle
      BY <2>1, <2>4, OpenNow
    <3>2. CASE c.kind = "wipeSlot"
      <4>1. c.step = 1
        BY <2>2, <3>2, PlanIs
      <4>2. Pair(c) # <<c.n, 2>>
        BY <4>1 DEF Pair
      <4>3. QED BY <1>3, <2>2, <2>3, <3>1, <3>2, <4>2, HearIs
    <3>3. CASE c.kind # "wipeSlot"
      <4>1. c.step # Len(Plan(c.kind)) /\ call'[a].step = 2
        BY <1>3, <3>1, <3>3, HearIs
      <4>2. c.step = 1 /\ 2 \in DOMAIN Plan(c.kind)
        <5>1. Len(Plan(c.kind)) \in {1, 2} /\ DOMAIN Plan(c.kind) = 1 .. Len(Plan(c.kind))
          BY <2>2, PlanIs
        <5>2. c.step \in 1 .. Len(Plan(c.kind)) /\ c.step # Len(Plan(c.kind))
          BY <2>2, <4>1, <5>1
        <5>3. Len(Plan(c.kind)) = 2
          <6> DEFINE l == Len(Plan(c.kind))
                     s == c.step
          <6>1. l \in {1, 2} /\ s \in 1 .. l /\ s # l
            BY <5>1, <5>2
          <6> HIDE DEF l, s
          <6>2. l = 2
            BY <6>1
          <6>3. QED BY <6>2 DEF l
        <5>4. QED BY <2>2, <5>1, <5>2, <5>3
      <4>3. Pair(c) # <<c.n, 2>>
        BY <4>2 DEF Pair
      <4>4. QED BY <2>2, <2>3, <4>1, <4>2, <4>3
    <3>4. QED BY <3>2, <3>3
  <2>5. QED BY <2>1, <2>3, <2>4, NumberedMoves
<1>4. ASSUME NEW a \in Apps, WindowEnds(a) \/ TimeOut(a) PROVE Numbered'
  <2>1. /\ a \in Open /\ WriteMoves(a) /\ UNCHANGED <<begun, stored, inbox, told>>
        /\ call'[a] = Idle \/ call'[a].step = call[a].step
    BY <1>4, WindowEndsIs, TimeOutIs DEF WindowEnds, TimeOut
  <2>2. call[a].step \in DOMAIN Plan(call[a].kind) /\ <<call[a].n, 2>> \notin told
    BY <2>1 DEF Numbered
  <2>3. a \in Open' => call'[a] # Idle
    BY <2>1, OpenNow
  <2>4. QED BY <2>1, <2>2, <2>3, NumberedMoves
<1>5. ASSUME KeyStores PROVE Numbered'
  <2> DEFINE q == <<Head(inbox).n, Head(inbox).step>>
  <2>1. /\ inbox # << >> /\ inbox' = Tail(inbox) /\ UNCHANGED <<call, begun, told>>
        /\ stored' = [stored EXCEPT ![q] = @ + 1]
    BY <1>5 DEF KeyStores
  <2>2. stored \in [Pairs -> Nat] /\ q[1] = Head(inbox).n
    BY DEF TypeOK
  <2> HIDE DEF q
  <2>3. \A p \in Pairs : stored'[p] > 0 => stored[p] > 0 \/ p[1] = Head(inbox).n
    <3>1. \A p \in Pairs : p # q => stored'[p] = stored[p]
      BY <2>1, <2>2
    <3>2. QED BY <2>2, <3>1
  <2>4. QED BY <2>1, <2>3, NumberedLooks
<1>6. ASSUME KeyRefuses \/ KeyDrops PROVE Numbered'
  <2>1. /\ inbox # << >> /\ inbox' = Tail(inbox) /\ UNCHANGED <<call, begun, told, stored>>
    BY <1>6 DEF KeyRefuses, KeyDrops
  <2>2. QED BY <2>1, NumberedLooks
<1>7. ASSUME Skip \/ UNCHANGED vars PROVE Numbered'
  BY <1>7 DEF Skip, vars, Numbered, Open
<1>8. QED
  BY <1>1, <1>2, <1>3, <1>4, <1>5, <1>6, <1>7, Zenon DEF Next, Work

(* Frames of one step are distinct places in the inbox.                    *)
LEMMA AskedIs ==
  ASSUME NEW n, NEW k
  PROVE  k \in Asked(n) <=> k \in DOMAIN inbox /\ inbox[k].n = n /\ inbox[k].step = 1
BY DEF Asked

(* The same of the next state.                                             *)
LEMMA AskedNowIs ==
  ASSUME NEW n, NEW k
  PROVE  k \in Asked(n)' <=> k \in DOMAIN inbox' /\ inbox'[k].n = n /\ inbox'[k].step = 1
BY DEF Asked

(* One that has been looked at is in it no more.                           *)
LEMMA AskedLess ==
  ASSUME inbox \in Seq(Frames), inbox # << >>, inbox' = Tail(inbox), NEW n
  PROVE  /\ \A k \in Asked(n)' : k + 1 \in Asked(n) /\ k \in Nat \ {0}
         /\ Head(inbox).n = n /\ Head(inbox).step = 1 => 1 \in Asked(n)
<1>1. /\ \A k \in DOMAIN inbox' : k + 1 \in DOMAIN inbox /\ inbox'[k] = inbox[k + 1]
      /\ \A k \in DOMAIN inbox' : k \in Nat \ {0}
      /\ 1 \in DOMAIN inbox /\ Head(inbox) = inbox[1]
  BY FramesLeft
<1>2. QED BY <1>1 DEF Asked

(* What is asked once stays so as the key looks at a frame.                *)
LEMMA AskedLooks ==
  ASSUME TypeOK, AskedOnce, inbox # << >>, inbox' = Tail(inbox), UNCHANGED <<call, begun>>,
         \/ stored' = stored
         \/ stored' = [stored EXCEPT ![<<Head(inbox).n, Head(inbox).step>>] = @ + 1]
  PROVE  AskedOnce'
<1> DEFINE q == <<Head(inbox).n, Head(inbox).step>>
<1>1. /\ inbox \in Seq(Frames) /\ stored \in [Pairs -> Nat] /\ begun \in Seq(Kinds)
      /\ DOMAIN begun = 1 .. Len(begun) /\ Len(begun) <= MaxCalls /\ Len(begun) \in Nat
  BY LenProperties DEF TypeOK
<1>2. Head(inbox) \in Frames
  BY <1>1, FramesLeft
<1>3. q \in Pairs /\ q[1] = Head(inbox).n /\ q[2] = Head(inbox).step
  BY <1>2 DEF Frames, Pairs
<1>4. \A n : /\ \A k \in Asked(n)' : k + 1 \in Asked(n) /\ k \in Nat \ {0}
             /\ (q[1] = n /\ q[2] = 1 => 1 \in Asked(n))
  BY <1>1, <1>3, AskedLess
<1>5. ASSUME NEW n \in Numbers, <<n, 1>> # q PROVE stored'[<<n, 1>>] = stored[<<n, 1>>]
  <2>1. <<n, 1>> \in Pairs
    BY DEF Pairs
  <2>2. stored' = stored \/ stored' = [stored EXCEPT ![q] = @ + 1]
    OBVIOUS
  <2> HIDE DEF q
  <2>3. QED BY <1>1, <1>5, <2>1, <2>2
<1>6. stored'[q] \in {stored[q], stored[q] + 1}
  <2>1. stored' = stored \/ stored' = [stored EXCEPT ![q] = @ + 1]
    OBVIOUS
  <2> HIDE DEF q
  <2>2. QED BY <1>1, <1>3, <2>1
<1>7. \A n : <<n, 1>> = q => q[1] = n /\ q[2] = 1
  OBVIOUS
<1> HIDE DEF q
<1>8. ASSUME NEW n \in DOMAIN begun, Generates(n)
      PROVE  /\ stored'[<<n, 1>>] <= 1
             /\ \A j, k \in Asked(n)' : j = k
             /\ stored'[<<n, 1>>] = 1 => Asked(n)' = {}
  <2>1. /\ stored[<<n, 1>>] <= 1 /\ (\A j, k \in Asked(n) : j = k)
        /\ stored[<<n, 1>>] = 1 => Asked(n) = {}
    BY <1>8 DEF AskedOnce
  <2>2. n \in Numbers /\ <<n, 1>> \in Pairs
    BY <1>1, DeviceWritesAssumption DEF Numbers, Pairs
  <2>3. \A j, k \in Asked(n)' : j = k
    <3> SUFFICES ASSUME NEW j \in Asked(n)', NEW k \in Asked(n)' PROVE j = k
      OBVIOUS
    <3>1. j + 1 \in Asked(n) /\ k + 1 \in Asked(n) /\ j \in Nat /\ k \in Nat
      BY <1>4
    <3>2. j + 1 = k + 1
      BY <2>1, <3>1
    <3>3. QED BY <3>1, <3>2
  <2>4. CASE <<n, 1>> = q
    <3>1. 1 \in Asked(n)
      BY <1>4, <1>7, <2>4
    <3>2. Asked(n)' = {}
      <4>1. SUFFICES ASSUME NEW k \in Asked(n)' PROVE FALSE
        OBVIOUS
      <4>2. k + 1 \in Asked(n) /\ k \in Nat \ {0}
        BY <1>4
      <4>3. k + 1 = 1
        BY <2>1, <3>1, <4>2
      <4>4. QED BY <4>2, <4>3
    <3>3. stored[q] \in Nat /\ stored[q] <= 1 /\ stored[q] # 1
      BY <1>1, <1>3, <2>1, <2>4, <3>1
    <3>4. stored'[q] <= 1
      BY <1>6, <3>3
    <3>5. QED BY <2>3, <2>4, <3>2, <3>4
  <2>5. CASE <<n, 1>> # q
    <3>1. stored'[<<n, 1>>] = stored[<<n, 1>>]
      BY <1>5, <2>2, <2>5
    <3>2. Asked(n) = {} => Asked(n)' = {}
      BY <1>4
    <3>3. QED BY <2>1, <2>3, <3>1, <3>2
  <2>6. QED BY <2>4, <2>5
<1>9. ASSUME NEW a \in Open, Generates(call[a].n), call[a].step = 1, call[a].phase = "queued"
      PROVE  stored'[<<call[a].n, 1>>] = 0 /\ Asked(call[a].n)' = {}
  <2>1. stored[<<call[a].n, 1>>] = 0 /\ Asked(call[a].n) = {} /\ call[a].n \in Numbers
    BY <1>9, OpenIs DEF AskedOnce, Open
  <2>2. <<call[a].n, 1>> # q
    BY <1>4, <1>7, <2>1
  <2>3. QED BY <1>4, <1>5, <2>1, <2>2
<1>10. QED
  <2>1. begun' = begun /\ call' = call
    OBVIOUS
  <2>2. Open' = Open /\ \A n : Generates(n)' <=> Generates(n)
    BY <2>1 DEF Open, Generates
  <2>3. \A n \in DOMAIN begun' : Generates(n)' =>
          /\ stored'[<<n, 1>>] <= 1
          /\ \A j, k \in Asked(n)' : j = k
          /\ stored'[<<n, 1>>] = 1 => Asked(n)' = {}
    BY <1>8, <2>1, <2>2
  <2>4. ASSUME NEW a \in Open', Generates(call[a].n)', call'[a].step = 1, call'[a].phase = "queued"
        PROVE  stored'[<<call'[a].n, 1>>] = 0 /\ Asked(call[a].n)' = {}
    <3>1. a \in Open /\ Generates(call[a].n)
      BY <2>1, <2>2, <2>4 DEF Generates
    <3>2. Asked(call[a].n)' = {k \in DOMAIN inbox' : inbox'[k].n = call[a].n /\ inbox'[k].step = 1}
      BY <2>1 DEF Asked
    <3>3. stored'[<<call[a].n, 1>>] = 0 /\ Asked(call[a].n)' = {}
      BY <1>9, <2>1, <2>4, <3>1
    <3>4. QED BY <2>1, <3>3
  <2>5. QED BY <2>3, <2>4 DEF AskedOnce

(* It stays so as a call moves on that asks for nothing again.             *)
LEMMA AskedMoves ==
  ASSUME TypeOK, TypeOK', AskedOnce, NEW a \in Open, WriteMoves(a),
         UNCHANGED <<begun, stored, inbox>>,
         ~(/\ a \in Open' /\ Generates(call[a].n)
           /\ call'[a].step = 1 /\ call'[a].phase = "queued")
  PROVE  AskedOnce'
<1>1. \A n : (Generates(n)' <=> Generates(n)) /\ Asked(n)' = Asked(n)
  BY DEF Generates, Asked
<1>2. \A n \in DOMAIN begun' : Generates(n)' =>
        /\ stored'[<<n, 1>>] <= 1
        /\ \A j, k \in Asked(n)' : j = k
        /\ stored'[<<n, 1>>] = 1 => Asked(n)' = {}
  BY <1>1 DEF AskedOnce
<1>3. ASSUME NEW b \in Open', Generates(call[b].n)', call'[b].step = 1, call'[b].phase = "queued"
      PROVE  stored'[<<call'[b].n, 1>>] = 0 /\ Asked(call[b].n)' = {}
  <2>1. b # a
    <3>1. SUFFICES ASSUME b = a PROVE FALSE
      OBVIOUS
    <3>2. call'[a].n = call[a].n
      BY <3>1, OpenNow
    <3>3. Generates(call[a].n)
      BY <1>3, <3>1, <3>2 DEF Generates
    <3>4. QED BY <1>3, <3>1, <3>3
  <2>2. b \in Open /\ call'[b] = call[b]
    <3>1. b \in Apps \ {a}
      BY <2>1 DEF Open
    <3>2. QED BY <3>1, OpenNow
  <2>3. Generates(call[b].n) /\ call[b].step = 1 /\ call[b].phase = "queued"
    BY <1>3, <2>2 DEF Generates
  <2>4. stored[<<call[b].n, 1>>] = 0 /\ Asked(call[b].n) = {}
    BY <2>2, <2>3 DEF AskedOnce
  <2>5. Asked(call[b].n)' = Asked(call[b].n)
    BY <2>2 DEF Asked
  <2>6. QED BY <2>2, <2>4, <2>5
<1>4. QED BY <1>2, <1>3 DEF AskedOnce

(* A call that generates asks for it once, and is not asked again.         *)
LEMMA AskedKept ==
  TypeOK /\ TypeOK' /\ Numbered /\ AskedOnce /\ [Next]_vars => AskedOnce'
<1> SUFFICES ASSUME TypeOK, TypeOK', Numbered, AskedOnce, [Next]_vars PROVE AskedOnce'
  OBVIOUS
<1>1. /\ inbox \in Seq(Frames) /\ stored \in [Pairs -> Nat] /\ begun \in Seq(Kinds)
      /\ DOMAIN begun = 1 .. Len(begun) /\ Len(begun) <= MaxCalls /\ Len(begun) \in Nat
      /\ MaxCalls \in Nat
  BY LenProperties, DeviceWritesAssumption DEF TypeOK
<1>2. ASSUME NEW a \in Open, Generates(call[a].n)
      PROVE  call[a].kind \in {"generateEccKey", "generateKey"}
  BY <1>2 DEF Numbered, Generates
<1>3. ASSUME NEW a \in Apps, NEW kind \in Offered, Begin(a, kind) PROVE AskedOnce'
  <2> DEFINE next == Len(begun) + 1
  <2>1. kind \in Kinds
    BY DeviceWritesAssumption
  <2>2. /\ call'[a] = Begun(kind) /\ call[a].phase = "idle"
        /\ \A b \in Apps \ {a} : call'[b] = call[b]
        /\ Len(begun') = Len(begun) + 1 /\ begun' \in Seq(Kinds) /\ next \in Numbers
        /\ \A n \in 1 .. Len(begun) : begun'[n] = begun[n]
    BY <1>3, <2>1, BeginIs
  <2>3. UNCHANGED <<inbox, stored>>
    BY <1>3 DEF Begin
  <2>4. \A n : Asked(n)' = Asked(n)
    BY <2>3 DEF Asked
  <2>5. Asked(next) = {} /\ stored[<<next, 1>>] = 0
    <3>1. Asked(next) = {}
      <4>1. \A k \in DOMAIN inbox : inbox[k].n # next
        <5>1. \A k \in DOMAIN inbox : inbox[k].n <= Len(begun)
          BY DEF Numbered
        <5>2. ~(next <= Len(begun))
          BY <1>1
        <5> HIDE DEF next
        <5>3. QED BY <5>1, <5>2
      <4>2. QED BY <4>1 DEF Asked
    <3>2. stored[<<next, 1>>] = 0
      <4>1. <<next, 1>> \in Pairs /\ <<next, 1>>[1] = next /\ ~(next <= Len(begun))
        BY <1>1, <2>2 DEF Pairs
      <4> HIDE DEF next
      <4>2. stored[<<next, 1>>] \in Nat
        BY <1>1, <4>1
      <4>3. ~(stored[<<next, 1>>] > 0)
        BY <4>1 DEF Numbered
      <4>4. QED BY <4>2, <4>3
    <3>3. QED BY <3>1, <3>2
  <2>6. ASSUME NEW n \in DOMAIN begun', Generates(n)'
        PROVE  /\ stored'[<<n, 1>>] <= 1
               /\ \A j, k \in Asked(n)' : j = k
               /\ stored'[<<n, 1>>] = 1 => Asked(n)' = {}
    <3>1. CASE n = next
      BY <2>3, <2>4, <2>5, <3>1
    <3>2. CASE n # next
      <4>1. n \in 1 .. Len(begun)
        BY <1>1, <2>2, <2>6, <3>2, LenProperties
      <4>2. Generates(n)
        BY <2>2, <2>6, <4>1 DEF Generates
      <4>3. QED BY <1>1, <2>3, <2>4, <4>1, <4>2 DEF AskedOnce
    <3>3. QED BY <3>1, <3>2
  <2>7. ASSUME NEW b \in Open', Generates(call[b].n)', call'[b].step = 1, call'[b].phase = "queued"
        PROVE  stored'[<<call'[b].n, 1>>] = 0 /\ Asked(call[b].n)' = {}
    <3>1. CASE b = a
      <4>1. call'[b].n = next
        BY <2>2, <3>1 DEF Begun
      <4>2. Asked(call[b].n)' = Asked(next)
        BY <2>3, <4>1 DEF Asked
      <4>3. QED BY <2>3, <2>5, <4>1, <4>2
    <3>2. CASE b # a
      <4>1. b \in Open /\ call'[b] = call[b]
        BY <2>2, <3>2 DEF Open
      <4>2. call[b].n \in 1 .. Len(begun)
        <5>1. call[b].n \in Numbers /\ call[b].n <= Len(begun)
          BY <4>1, OpenIs DEF Open, Numbered
        <5>2. QED BY <1>1, <5>1 DEF Numbers
      <4>3. Generates(call[b].n)
        BY <2>2, <2>7, <4>1, <4>2 DEF Generates
      <4>4. stored[<<call[b].n, 1>>] = 0 /\ Asked(call[b].n) = {}
        BY <2>7, <4>1, <4>3 DEF AskedOnce
      <4>5. Asked(call[b].n)' = Asked(call[b].n)
        BY <2>3, <4>1 DEF Asked
      <4>6. QED BY <2>3, <4>1, <4>4, <4>5
    <3>3. QED BY <3>1, <3>2
  <2>8. QED BY <2>6, <2>7 DEF AskedOnce
<1>4. ASSUME NEW a \in Apps, Ask(a) PROVE AskedOnce'
  <2> DEFINE c == call[a]
  <2>1. /\ a \in Open /\ WriteMoves(a) /\ c.phase = "queued" /\ call'[a].phase = "waiting"
        /\ FrameOf(c) \in Frames /\ c.n \in Numbers /\ c.step \in {1, 2}
    BY <1>4, AskIs, OpenIs DEF Open
  <2>2. UNCHANGED <<begun, stored>> /\ inbox' = Append(inbox, FrameOf(c))
    BY <1>4 DEF Ask, FrameOf
  <2>3. /\ DOMAIN inbox = 1 .. Len(inbox) /\ DOMAIN inbox' = 1 .. Len(inbox) + 1
        /\ Len(inbox) \in Nat /\ inbox'[Len(inbox) + 1] = FrameOf(c)
        /\ \A k \in DOMAIN inbox : inbox'[k] = inbox[k]
    BY <1>1, <2>1, <2>2, FramesMore
  <2>4. FrameOf(c).n = c.n /\ FrameOf(c).step = c.step
    BY DEF FrameOf
  <2>5. ASSUME NEW n, NEW k \in Asked(n)'
        PROVE  k \in Asked(n) \/ (k = Len(inbox) + 1 /\ n = c.n /\ c.step = 1)
    <3>1. k \in DOMAIN inbox' /\ inbox'[k].n = n /\ inbox'[k].step = 1
      BY <2>5, AskedNowIs
    <3>2. CASE k \in DOMAIN inbox
      BY <2>3, <3>1, <3>2 DEF Asked
    <3>3. CASE k \notin DOMAIN inbox
      <4>1. k = Len(inbox) + 1
        BY <2>3, <3>1, <3>3
      <4>2. QED BY <2>3, <2>4, <3>1, <4>1
    <3>4. QED BY <3>2, <3>3
  <2>6. ASSUME NEW n \in DOMAIN begun', Generates(n)'
        PROVE  /\ stored'[<<n, 1>>] <= 1
               /\ \A j, k \in Asked(n)' : j = k
               /\ stored'[<<n, 1>>] = 1 => Asked(n)' = {}
    <3>1. Generates(n) /\ n \in DOMAIN begun
      BY <2>2, <2>6 DEF Generates
    <3>2. /\ stored[<<n, 1>>] <= 1 /\ (\A j, k \in Asked(n) : j = k)
          /\ stored[<<n, 1>>] = 1 => Asked(n) = {}
      BY <3>1 DEF AskedOnce
    <3>3. CASE n = c.n /\ c.step = 1
      <4>1. stored[<<n, 1>>] = 0 /\ Asked(n) = {}
        BY <2>1, <3>1, <3>3 DEF AskedOnce
      <4>2. \A k \in Asked(n)' : k = Len(inbox) + 1
        BY <2>5, <4>1
      <4>3. QED BY <2>2, <4>1, <4>2
    <3>4. CASE ~(n = c.n /\ c.step = 1)
      <4>1. \A k \in Asked(n)' : k \in Asked(n)
        BY <2>5, <3>4
      <4>2. QED BY <2>2, <3>2, <4>1
    <3>5. QED BY <3>3, <3>4
  <2>7. ASSUME NEW b \in Open', Generates(call[b].n)', call'[b].step = 1, call'[b].phase = "queued"
        PROVE  stored'[<<call'[b].n, 1>>] = 0 /\ Asked(call[b].n)' = {}
    <3>1. b # a
      BY <2>1, <2>7
    <3>2. b \in Open /\ call'[b] = call[b] /\ call[b].n # c.n
      <4>1. b \in Apps \ {a}
        BY <3>1 DEF Open
      <4>2. b \in Open /\ call'[b] = call[b]
        BY <2>1, <4>1, OpenNow
      <4>3. QED BY <2>1, <3>1, <4>2 DEF Numbered
    <3>3. Generates(call[b].n)
      BY <2>2, <2>7, <3>2 DEF Generates
    <3>4. stored[<<call[b].n, 1>>] = 0 /\ Asked(call[b].n) = {}
      BY <2>7, <3>2, <3>3 DEF AskedOnce
    <3>5. Asked(call[b].n)' = {k \in DOMAIN inbox' : inbox'[k].n = call[b].n /\ inbox'[k].step = 1}
      BY <3>2 DEF Asked
    <3>6. \A k \in DOMAIN inbox' : ~(inbox'[k].n = call[b].n /\ inbox'[k].step = 1)
      <4>1. SUFFICES ASSUME NEW k \in DOMAIN inbox', inbox'[k].n = call[b].n, inbox'[k].step = 1
                     PROVE  FALSE
        OBVIOUS
      <4>2. k \in Asked(call[b].n)'
        BY <3>5, <4>1
      <4>3. k \in DOMAIN inbox
        BY <2>3, <2>4, <3>2, <4>1
      <4>4. k \in Asked(call[b].n)
        BY <2>3, <4>1, <4>3 DEF Asked
      <4>5. QED BY <3>4, <4>4
    <3>7. QED BY <2>2, <3>2, <3>4, <3>5, <3>6
  <2>8. QED BY <2>6, <2>7 DEF AskedOnce
<1>5. ASSUME NEW a \in Apps, Hear(a) PROVE AskedOnce'
  <2>1. a \in Open /\ WriteMoves(a) /\ UNCHANGED <<begun, stored, inbox>>
    BY <1>5, HearIs DEF Hear
  <2>2. ~(a \in Open' /\ call'[a].step = 1 /\ call'[a].phase = "queued")
    <3>1. a \in Open' => call'[a] # Idle
      BY <2>1, OpenNow
    <3>2. QED BY <1>5, <3>1, HearIs
  <2>3. QED BY <2>1, <2>2, AskedMoves
<1>6. ASSUME NEW a \in Apps, WindowEnds(a) \/ TimeOut(a) PROVE AskedOnce'
  <2> DEFINE c == call[a]
  <2>1. a \in Open /\ WriteMoves(a) /\ UNCHANGED <<begun, stored, inbox>>
    BY <1>6, WindowEndsIs, TimeOutIs DEF WindowEnds, TimeOut
  <2>2. \/ call'[a] = Idle
        \/ c.try < Tries(c.kind, c.step) /\ call'[a].step = c.step
    BY <1>6, WindowEndsIs, TimeOutIs
  <2>3. ~(/\ a \in Open' /\ Generates(call[a].n)
          /\ call'[a].step = 1 /\ call'[a].phase = "queued")
    <3>1. SUFFICES ASSUME a \in Open', Generates(c.n), call'[a].step = 1 PROVE FALSE
      OBVIOUS
    <3>2. call'[a] # Idle
      BY <2>1, <3>1, OpenNow
    <3>3. c.kind \in {"generateEccKey", "generateKey"} /\ c.step = 1 /\ c.try \in 1 .. Retries + 1
      BY <1>2, <2>1, <2>2, <3>1, <3>2, OpenIs DEF Open
    <3>4. Tries(c.kind, c.step) = 1
      BY <3>3 DEF Tries
    <3>5. QED BY <2>2, <3>2, <3>3, <3>4
  <2>4. QED BY <2>1, <2>3, AskedMoves
<1>7. ASSUME KeyStores \/ KeyRefuses \/ KeyDrops PROVE AskedOnce'
  <2>1. /\ inbox # << >> /\ inbox' = Tail(inbox) /\ UNCHANGED <<call, begun>>
        /\ \/ stored' = stored
           \/ stored' = [stored EXCEPT ![<<Head(inbox).n, Head(inbox).step>>] = @ + 1]
    BY <1>7 DEF KeyStores, KeyRefuses, KeyDrops
  <2>2. QED BY <2>1, AskedLooks
<1>8. ASSUME Skip \/ UNCHANGED vars PROVE AskedOnce'
  BY <1>8 DEF Skip, vars, AskedOnce, Open, Asked, Generates
<1>9. QED
  BY <1>3, <1>4, <1>5, <1>6, <1>7, <1>8, Zenon DEF Next, Work

-----------------------------------------------------------------------------
(* Calls for the key slot that run apart.                                  *)
LEMMA NamingTouches ==
  ASSUME NEW k \in Naming, NEW l \in Naming
  PROVE  Touches(k) \cap Touches(l) # {}
<1>1. ASSUME NEW m \in Naming PROVE "key" \in Touches(m)
  <2>1. m \in Kinds
    BY DEF Naming, Kinds
  <2>2. 1 \in DOMAIN Plan(m) /\ "key" \in Plan(m)[1]
    BY <2>1, PlanIs
  <2>3. QED BY <2>2 DEF Touches
<1>2. QED BY <1>1

(* The two cells stay as they were while no call writes them.              *)
LEMMA NamedStays ==
  ASSUME TypeOK, TypeOK', Numbered, Named, NEW a \in Open, WriteMoves(a), UNCHANGED <<store, begun>>,
         told \subseteq told', told' \subseteq told \cup {Pair(call[a])}
  PROVE  Named'
<1>1. CASE store["label"] = store["key"]
  BY <1>1 DEF Named
<1>2. CASE \E n \in DOMAIN begun : Nameless(n)
  <2>1. PICK n \in DOMAIN begun : Nameless(n)
    BY <1>2
  <2>2. <<n, 2>> # Pair(call[a])
    BY <2>1 DEF Nameless, Pair
  <2>3. \A b \in Open' : call'[b].n # n
    <3> SUFFICES ASSUME NEW b \in Open' PROVE call'[b].n # n
      OBVIOUS
    <3>1. b \in Open /\ call'[b].n = call[b].n
      <4>1. b \in Apps
        BY DEF Open
      <4>2. QED BY <4>1, OpenNow
    <3>2. QED BY <2>1, <3>1 DEF Nameless
  <2>4. Nameless(n)'
    BY <2>1, <2>2, <2>3 DEF Nameless
  <2>5. QED BY <2>1, <2>4 DEF Named
<1>3. QED BY <1>1, <1>2 DEF Named

(* The call that ends without a name for the key it wrote.                 *)
LEMMA LeftNameless ==
  ASSUME TypeOK, TypeOK', Numbered, NEW a \in Open, WriteMoves(a), call'[a] = Idle,
         UNCHANGED <<store, begun, told>>,
         store["key"] = Value(call[a].kind, call[a].n), <<call[a].n, 1>> \in told
  PROVE  Named'
<1> DEFINE n == call[a].n
<1>1. /\ n <= Len(begun) /\ begun[n] = call[a].kind /\ <<n, 2>> \notin told /\ n \in Numbers
      /\ Len(begun) \in Nat /\ DOMAIN begun = 1 .. Len(begun)
  BY OpenIs, LenProperties DEF Numbered, Open, TypeOK
<1>2. n \in DOMAIN begun
  BY <1>1 DEF Numbers
<1> HIDE DEF n
<1>3. PICK m \in DOMAIN begun : m = n
  BY <1>2
<1>4. \A b \in Open' : call'[b].n # m
  <2> SUFFICES ASSUME NEW b \in Open' PROVE call'[b].n # m
    OBVIOUS
  <2>1. b \in Apps /\ b # a
    BY OpenNow DEF Open
  <2>2. b \in Open /\ call'[b].n = call[b].n
    BY <2>1, OpenNow
  <2>3. QED BY <1>3, <2>1, <2>2 DEF Numbered, n
<1>5. Nameless(m)'
  <2>1. /\ <<m, 1>> \in told' /\ <<m, 2>> \notin told' /\ store'["key"] = Value(begun'[m], m)
    BY <1>1, <1>3 DEF n
  <2>2. QED BY <1>4, <2>1 DEF Nameless
<1>6. m \in DOMAIN begun'
  BY <1>3
<1>7. QED BY <1>5, <1>6 DEF Named

(* An answer on the wire is of the call that has the turn.                 *)
LEMMA MadeByTalker ==
  ASSUME TypeOK, Numbered, Trusted, NEW b \in Open, wire = <<Made(call[b])>>
  PROVE  lane # << >> /\ Head(lane) = b /\ call[b].phase \in {"waiting", "quieting"} /\ OneAnswer(call[b])
<1> DEFINE c == call[Head(lane)]
<1>1. lane # << >> /\ OneAnswer(c)
  BY DEF Trusted, Flow, Quiet
<1>2. Head(lane) \in Open
  <2>1. Head(lane) \in Apps
    BY <1>1, HeadTailProperties DEF TypeOK
  <2>2. QED BY <1>1, <2>1 DEF Open, OneAnswer
<1>3. wire[1].n = call[b].n
  BY DEF Made, Said
<1>4. wire[1].n = c.n
  <2>1. \/ wire = <<Said(c, "error")>> \/ wire = <<Said(c, "ack")>> \/ wire = <<Said(c, "key")>>
        \/ wire = <<Said(c, "ack"), Said(c, "ack")>>
    BY <1>1 DEF OneAnswer
  <2>2. QED BY <2>1 DEF Said
<1>5. Head(lane) = b
  BY <1>2, <1>3, <1>4 DEF Numbered
<1>6. QED BY <1>1, <1>5 DEF OneAnswer

(* What a call for the key slot has written, while others move.            *)
LEMMA NamingStays ==
  ASSUME TypeOK, Numbered, Trusted, NEW b \in Open, NamingStep(call[b]), call'[b] = call[b],
         UNCHANGED <<store, stored>>, told \subseteq told', Named => Named',
         call[b].step = 1 => wire' = wire \/ wire # <<Made(call[b])>>
  PROVE  NamingStep(call[b])'
<1> DEFINE c == call[b]
<1>1. Made(c)' = Made(c)
  BY DEF Made, Said
<1>2. c.step = 1 => stored[<<c.n, 2>>] = 0 /\ ((stored[<<c.n, 1>>] = 0 /\ Named)
                    \/ /\ stored[<<c.n, 1>>] > 0 /\ store["key"] = Value(c.kind, c.n)
                       /\ wire = <<Made(c)>>)
  BY DEF NamingStep
<1>3. c.step = 2 =>
        /\ store["key"] = Value(c.kind, c.n) /\ <<c.n, 1>> \in told
        /\ stored[<<c.n, 2>>] > 0 => store["label"] = Value(c.kind, c.n)
  BY DEF NamingStep
<1>4. QED BY <1>1, <1>2, <1>3 DEF NamingStep

(* The two cells and the calls that write them, as calls move.             *)
LEMMA NamesMove ==
  ASSUME TypeOK, TypeOK', Numbered, Trusted, NamesInStep, NEW a \in Open, WriteMoves(a),
         UNCHANGED <<store, stored, begun>>, told \subseteq told',
         told' \subseteq told \cup {Pair(call[a])},
         \A b \in Open : b # a /\ call[b].kind \in Naming =>
           wire' = wire \/ wire # <<Made(call[b])>>,
         call[a].kind \in Naming => IF a \in Open' THEN NamingStep(call[a])' ELSE Named'
  PROVE  NamesInStep'
<1>1. Named => Named'
  BY NamedStays
<1>2. ASSUME NEW b \in Open', b # a PROVE b \in Open /\ call'[b] = call[b]
  <2>1. b \in Apps \ {a}
    BY <1>2 DEF Open
  <2>2. QED BY <2>1, OpenNow
<1>3. a \in Open' => call'[a].kind = call[a].kind
  BY OpenNow
<1>4. ASSUME NEW b \in Open', NEW d \in Open', call'[b].kind \in Naming, call'[d].kind \in Naming
      PROVE  b = d
  <2>1. b \in Open /\ d \in Open /\ call[b].kind \in Naming /\ call[d].kind \in Naming
    BY <1>2, <1>3, <1>4
  <2>2. QED BY <2>1 DEF NamesInStep
<1>5. ASSUME NEW b \in Open', call'[b].kind \in Naming PROVE NamingStep(call[b])'
  <2>1. CASE b = a
    BY <1>3, <1>5, <2>1
  <2>2. CASE b # a
    <3>1. b \in Open /\ call'[b] = call[b] /\ NamingStep(call[b])
      BY <1>2, <1>5, <2>2 DEF NamesInStep
    <3>2. wire' = wire \/ wire # <<Made(call[b])>>
      BY <1>5, <2>2, <3>1
    <3>3. QED BY <1>1, <3>1, <3>2, NamingStays
  <2>3. QED BY <2>1, <2>2
<1>6. ASSUME \A b \in Open' : call'[b].kind \notin Naming PROVE Named'
  <2>1. CASE call[a].kind \in Naming
    BY <1>3, <1>6, <2>1
  <2>2. CASE call[a].kind \notin Naming
    <3>1. \A b \in Open : call[b].kind \notin Naming
      <4> SUFFICES ASSUME NEW b \in Open, b # a PROVE call[b].kind \notin Naming
        BY <2>2
      <4>1. b \in Apps \ {a}
        BY DEF Open
      <4>2. b \in Open' /\ call'[b] = call[b]
        BY <4>1, OpenNow
      <4>3. QED BY <1>6, <4>2
    <3>2. QED BY <1>1, <3>1 DEF NamesInStep
  <2>3. QED BY <2>1, <2>2
<1>7. QED BY <1>4, <1>5, <1>6 DEF NamesInStep

(* The two cells and those calls, as the key looks at a frame or nobody    *)
(* takes a report.                                                         *)
LEMMA NamesStand ==
  ASSUME NamesInStep, call' = call, Named => Named',
         \A a \in Open : call[a].kind \in Naming => NamingStep(call[a])'
  PROVE  NamesInStep'
<1>1. Open' = Open
  BY DEF Open
<1>2. QED BY <1>1 DEF NamesInStep

(* They stay as they were if nobody touches anything.                      *)
LEMMA NamedSame ==
  ASSUME UNCHANGED <<call, begun, told>>, store'["key"] = store["key"],
         store'["label"] = store["label"]
  PROVE  Named => Named'
BY DEF Named, Nameless, Open

(* The two cells through a step of a call.                                 *)
LEMMA NamesBegin ==
  ASSUME TypeOK, TypeOK', Numbered, Trusted, NamesInStep, ~shared', NEW a \in Apps,
         NEW kind \in Offered, Begin(a, kind)
  PROVE  NamesInStep'
<1> DEFINE next == Len(begun) + 1
<1>1. kind \in Kinds
  BY DeviceWritesAssumption
<1>2. /\ call'[a] = Begun(kind) /\ call[a].phase = "idle" /\ \A b \in Apps \ {a} : call'[b] = call[b]
      /\ Len(begun) \in Nat /\ Len(begun') = Len(begun) + 1 /\ begun' \in Seq(Kinds)
      /\ next \in Numbers /\ \A n \in 1 .. Len(begun) : begun'[n] = begun[n]
      /\ DOMAIN begun = 1 .. Len(begun) /\ DOMAIN begun' = 1 .. Len(begun')
  BY <1>1, BeginIs, LenProperties DEF TypeOK
<1>3. UNCHANGED <<inbox, wire, store, told, stored>>
  BY DEF Begin
<1>4. \A b \in Open : Touches(call[b].kind) \cap Touches(kind) = {}
  BY DEF Begin
<1>5. call'[a].n = next /\ call'[a].kind = kind /\ call'[a].step = 1
  BY <1>2 DEF Begun
<1>6. ASSUME NEW b \in Open', b # a PROVE b \in Open /\ call'[b] = call[b]
  BY <1>2, <1>6 DEF Open
<1>7. Named => Named'
  <2>1. CASE store["label"] = store["key"]
    BY <1>3, <2>1 DEF Named
  <2>2. CASE \E n \in DOMAIN begun : Nameless(n)
    <3>1. PICK n \in DOMAIN begun : Nameless(n)
      BY <2>2
    <3>2. n \in DOMAIN begun' /\ begun'[n] = begun[n] /\ n # next
      BY <1>2, <3>1
    <3>3. \A b \in Open' : call'[b].n # n
      BY <1>5, <1>6, <3>1, <3>2 DEF Nameless
    <3>4. Nameless(n)'
      BY <1>3, <3>1, <3>2, <3>3 DEF Nameless
    <3>5. QED BY <3>2, <3>4 DEF Named
  <2>3. QED BY <2>1, <2>2 DEF Named
<1>8. ASSUME NEW b \in Open', b # a, call'[b].kind \in Naming PROVE NamingStep(call[b])'
  <2>1. b \in Open /\ call'[b] = call[b] /\ NamingStep(call[b])
    BY <1>6, <1>8 DEF NamesInStep
  <2>2. QED BY <1>3, <1>7, <2>1, NamingStays
<1>9. ASSUME kind \in Naming
      PROVE  (\A b \in Open : call[b].kind \notin Naming) /\ NamingStep(call[a])'
  <2>1. \A b \in Open : call[b].kind \notin Naming
    BY <1>4, <1>9, NamingTouches
  <2>2. Named'
    BY <1>7, <2>1 DEF NamesInStep
  <2>3. stored[<<next, 1>>] = 0 /\ stored[<<next, 2>>] = 0
    <3> SUFFICES ASSUME NEW i \in {1, 2} PROVE stored[<<next, i>>] = 0
      OBVIOUS
    <3>1. <<next, i>> \in Pairs /\ <<next, i>>[1] = next /\ ~(next <= Len(begun))
      BY <1>2 DEF Pairs
    <3> HIDE DEF next
    <3>2. stored[<<next, i>>] \in Nat
      BY <3>1 DEF TypeOK
    <3>3. QED BY <3>1, <3>2 DEF Numbered
  <2>4. NamingStep(call[a])'
    <3> HIDE DEF next
    <3>1. QED BY <1>3, <1>5, <2>2, <2>3 DEF NamingStep
  <2>5. QED BY <2>1, <2>4
<1>10. ASSUME NEW b \in Open', NEW d \in Open', call'[b].kind \in Naming, call'[d].kind \in Naming
       PROVE  b = d
  <2>1. CASE b # a /\ d # a
    BY <1>6, <1>10, <2>1 DEF NamesInStep
  <2>2. CASE b = a \/ d = a
    <3>1. kind \in Naming
      BY <1>5, <1>10, <2>2
    <3>2. \A e \in Open' : e # a => call'[e].kind \notin Naming
      BY <1>6, <1>9, <3>1
    <3>3. QED BY <1>10, <2>2, <3>2
  <2>3. QED BY <2>1, <2>2
<1>11. ASSUME NEW b \in Open', call'[b].kind \in Naming PROVE NamingStep(call[b])'
  BY <1>5, <1>8, <1>9, <1>11
<1>12. ASSUME \A b \in Open' : call'[b].kind \notin Naming PROVE Named'
  <2>1. \A b \in Open : call[b].kind \notin Naming
    <3> SUFFICES ASSUME NEW b \in Open PROVE call[b].kind \notin Naming
      OBVIOUS
    <3>1. b \in Apps \ {a}
      BY <1>2 DEF Open
    <3>2. b \in Open' /\ call'[b] = call[b]
      BY <1>2, <3>1 DEF Open
    <3>3. QED BY <1>12, <3>2
  <2>2. QED BY <1>7, <2>1 DEF NamesInStep
<1>13. QED BY <1>10, <1>11, <1>12 DEF NamesInStep

(* A frame that is sent changes neither cell.                              *)
LEMMA NamesAsk ==
  ASSUME TypeOK, TypeOK', Numbered, Trusted, NamesInStep, NEW a \in Apps, Ask(a)
  PROVE  NamesInStep'
<1> DEFINE c == call[a]
<1>1. /\ a \in Open /\ WriteMoves(a) /\ call'[a] \in OpenCalls /\ call'[a].step = c.step
      /\ lane # << >> /\ Head(lane) = a /\ c.phase = "queued"
  BY AskIs
<1>2. UNCHANGED <<wire, store, begun, told, stored>>
  BY DEF Ask
<1>3. a \in Open' /\ call'[a].kind = c.kind /\ call'[a].n = c.n
  BY <1>1, OpenNow DEF Open, OpenCalls
<1>4. Named => Named'
  BY <1>1, <1>2, NamedStays
<1>5. c.kind \in Naming => NamingStep(call[a])'
  <2> SUFFICES ASSUME c.kind \in Naming PROVE NamingStep(call[a])'
    OBVIOUS
  <2>1. NamingStep(c)
    BY <1>1 DEF NamesInStep
  <2>2. wire # <<Made(c)>>
    BY <1>1, MadeByTalker
  <2>3. QED BY <1>1, <1>2, <1>3, <1>4, <2>1, <2>2 DEF NamingStep
<1>6. QED BY <1>1, <1>2, <1>3, <1>5, NamesMove

(* An answer to a naming call has its frame stored.                        *)
LEMMA NamesHear ==
  ASSUME TypeOK, TypeOK', Numbered, Trusted, NamesInStep, NEW a \in Apps, Hear(a)
  PROVE  NamesInStep'
<1> DEFINE c == call[a]
<1>1. /\ a \in Open /\ lane # << >> /\ Head(lane) = a /\ wire # << >> /\ WriteMoves(a)
      /\ told' = told \/ told' = told \cup {Pair(c)}
  BY HearIs
<1>2. OneAnswer(c)
  BY <1>1, AnswerIs DEF Quiet
<1>3. UNCHANGED <<store, stored, begun>> /\ wire' = Tail(wire)
  BY DEF Hear
<1>4. \A b \in Open : b # a => wire # <<Made(call[b])>>
  BY <1>1, MadeByTalker
<1>5. told \subseteq told' /\ told' \subseteq told \cup {Pair(c)}
  BY <1>1
<1>6. Named => Named'
  BY <1>1, <1>3, <1>5, NamedStays
<1>7. ASSUME c.kind \in Naming
      PROVE  IF a \in Open' THEN NamingStep(call[a])' ELSE Named'
  <2>1. NamingStep(c)
    BY <1>1, <1>7 DEF NamesInStep
  <2>2. /\ c.kind \in Kinds /\ c.kind # "wipeSlot" /\ c.step \in {1, 2} /\ Len(Plan(c.kind)) = 2
    <3>1. c.kind \in Kinds /\ c.step \in {1, 2}
      BY <1>1, OpenIs DEF Open
    <3>2. QED BY <1>7, <3>1, PlanIs DEF Naming
  <2>3. a \in Open' <=> call'[a] # Idle
    BY <1>1, OpenNow
  <2>4. CASE Head(wire).what = "error"
    <3>1. call'[a] = Idle /\ told' = told
      BY <2>4, HearIs
    <3>2. wire # <<Made(c)>>
      BY <2>4 DEF Made, Said
    <3>3. CASE c.step = 1
      <4>1. Named
        BY <2>1, <3>2, <3>3 DEF NamingStep
      <4>2. QED BY <1>6, <2>3, <3>1, <4>1
    <3>4. CASE c.step = 2
      <4>1. store["key"] = Value(c.kind, c.n) /\ <<c.n, 1>> \in told
        BY <2>1, <3>4 DEF NamingStep
      <4>2. Named'
        BY <1>1, <1>3, <3>1, <4>1, LeftNameless
      <4>3. QED BY <2>3, <3>1, <4>2
    <3>5. QED BY <2>2, <3>3, <3>4
  <2>5. CASE Head(wire).what # "error"
    <3>1. told' = told \cup {Pair(c)}
      BY <2>5, HearIs
    <3>2. stored[<<c.n, c.step>>] > 0
      BY <1>1, <1>2, <2>5 DEF OneAnswer, Said
    <3>3. CASE c.step = 1
      <4>1. call'[a].step = 2 /\ call'[a] # Idle
        <5>1. /\ c.step # Len(Plan(c.kind)) /\ call'[a] \in OpenCalls /\ call'[a].step = 2
          <6>1. c.kind # "wipeSlot" /\ c.step # Len(Plan(c.kind))
            <7>1. c.step = 1 /\ Len(Plan(c.kind)) = 2
              BY <2>2, <3>3
            <7> HIDE DEF c
            <7>2. QED BY <2>2, <7>1
          <6>2. QED BY <2>5, <6>1, HearIs
        <5>2. Idle.step = 0
          BY DEF Idle
        <5>3. QED BY <5>1, <5>2
      <4>2. call'[a].kind = c.kind /\ call'[a].n = c.n
        BY <1>1, <2>3, <4>1, OpenNow
      <4>3. store["key"] = Value(c.kind, c.n) /\ stored[<<c.n, 2>>] = 0
        BY <2>1, <3>2, <3>3 DEF NamingStep
      <4>4. <<c.n, 1>> \in told'
        BY <3>1, <3>3 DEF Pair
      <4>5. NamingStep(call[a])'
        BY <1>3, <4>1, <4>2, <4>3, <4>4 DEF NamingStep
      <4>6. QED BY <2>3, <4>1, <4>5
    <3>4. CASE c.step = 2
      <4>1. call'[a] = Idle
        BY <2>2, <2>5, <3>4, HearIs
      <4>2. store["label"] = store["key"]
        BY <2>1, <3>2, <3>4 DEF NamingStep
      <4>3. Named'
        BY <1>3, <4>2 DEF Named
      <4>4. QED BY <2>3, <4>1, <4>3
    <3>5. QED BY <2>2, <3>3, <3>4
  <2>6. QED BY <2>4, <2>5
<1>8. QED BY <1>1, <1>3, <1>4, <1>5, <1>7, NamesMove

(* A turn that ends with nothing to come had nothing stored unheard.       *)
LEMMA NamesEnd ==
  ASSUME TypeOK, TypeOK', Numbered, Trusted, NamesInStep, ~loose', NEW a \in Apps,
         WindowEnds(a) \/ TimeOut(a)
  PROVE  NamesInStep'
<1> DEFINE c == call[a]
<1>1. /\ a \in Open /\ lane # << >> /\ Head(lane) = a /\ WriteMoves(a)
      /\ call'[a] = Idle \/ (call'[a] \in OpenCalls /\ call'[a].step = c.step)
  BY WindowEndsIs, TimeOutIs
<1>2. /\ UNCHANGED <<wire, store, begun, told, stored>> /\ ~Coming(c.n, c.step)
  BY DEF WindowEnds, TimeOut
<1>3. wire = << >>
  BY <1>1, <1>2, NothingComes DEF Quiet
<1>4. Named => Named'
  BY <1>1, <1>2, NamedStays
<1>5. ASSUME c.kind \in Naming
      PROVE  IF a \in Open' THEN NamingStep(call[a])' ELSE Named'
  <2>1. NamingStep(c) /\ c.step \in {1, 2}
    BY <1>1, <1>5, OpenIs DEF NamesInStep, Open
  <2>2. wire # <<Made(c)>>
    BY <1>3
  <2>3. CASE a \in Open'
    <3>1. call'[a].kind = c.kind /\ call'[a].n = c.n /\ call'[a].step = c.step
      BY <1>1, <2>3, OpenNow
    <3>2. NamingStep(call[a])'
      BY <1>2, <1>4, <2>1, <2>2, <3>1 DEF NamingStep
    <3>3. QED BY <2>3, <3>2
  <2>4. CASE a \notin Open'
    <3>1. call'[a] = Idle
      BY <1>1, <2>4, OpenNow
    <3>2. CASE c.step = 1
      <4>1. Named
        BY <2>1, <2>2, <3>2 DEF NamingStep
      <4>2. QED BY <1>4, <2>4, <4>1
    <3>3. CASE c.step = 2
      <4>1. store["key"] = Value(c.kind, c.n) /\ <<c.n, 1>> \in told
        BY <2>1, <3>3 DEF NamingStep
      <4>2. Named'
        BY <1>1, <1>2, <3>1, <4>1, LeftNameless
      <4>3. QED BY <2>4, <4>2
    <3>4. QED BY <2>1, <3>2, <3>3
  <2>5. QED BY <2>3, <2>4
<1>6. QED BY <1>1, <1>2, <1>5, NamesMove

(* The two cells as the key stores what the talker sent.                   *)
LEMMA NamesStore ==
  ASSUME TypeOK, Numbered, Trusted, NamesInStep, KeyStores
  PROVE  NamesInStep'
<1> DEFINE h == Head(lane)
           c == call[h]
           f == Head(inbox)
<1>1. /\ lane # << >> /\ inbox = <<FrameOf(c)>> /\ wire = << >> /\ OneAnswer(c)
  BY DEF KeyStores, Trusted, Flow, Quiet, OneAnswer
<1>2. h \in Open
  <2>1. h \in Apps
    BY <1>1, HeadTailProperties DEF TypeOK
  <2>2. QED BY <1>1, <2>1 DEF Open, OneAnswer
<1>3. /\ f = FrameOf(c) /\ f.n = c.n /\ f.step = c.step /\ f.kind = c.kind /\ f \in Frames
      /\ Pair(c) \in Pairs /\ c.n \in Numbers /\ c.step \in {1, 2} /\ c.kind \in Kinds
  BY <1>1, <1>2, OpenIs DEF FrameOf, Pair, Open
<1>4. c.step \in DOMAIN Plan(c.kind)
  BY <1>2 DEF Numbered
<1>5. UNCHANGED <<call, begun, told>> /\ stored \in [Pairs -> Nat] /\ store \in [Cells -> 0 .. MaxCalls]
  BY DEF KeyStores, TypeOK
<1>6. stored' = [stored EXCEPT ![Pair(c)] = @ + 1]
  BY <1>3 DEF KeyStores, Pair
<1>7. /\ stored'[Pair(c)] > 0
      /\ \A p \in Pairs \ {Pair(c)} : stored'[p] = stored[p]
  BY <1>3, <1>5, <1>6
<1>8. \A cell \in Cells : store'[cell] = IF cell \in Plan(c.kind)[c.step] THEN Value(c.kind, c.n)
                                                                       ELSE store[cell]
  BY <1>3 DEF KeyStores
<1>9. wire' = Reply(f)
  <2>1. wire' = << >> \o Reply(f) /\ Reply(f) \in Seq(Reports)
    BY <1>1, <1>3, ReplyIs DEF KeyStores, Reply
  <2>2. QED BY <2>1, ConcatEmptySeq
<1>10. "key" \in Cells /\ "label" \in Cells
  BY DEF Cells
<1>11. CASE c.kind \notin Naming
  <2>1. store'["key"] = store["key"] /\ store'["label"] = store["label"]
    BY <1>3, <1>4, <1>8, <1>10, <1>11, PlanIs
  <2>2. Named => Named'
    BY <1>5, <2>1, NamedSame
  <2>3. ASSUME NEW b \in Open, call[b].kind \in Naming PROVE NamingStep(call[b])'
    <3>1. NamingStep(call[b]) /\ wire # <<Made(call[b])>> /\ b # h
      BY <1>1, <1>11, <2>3 DEF NamesInStep
    <3>2. \A i \in {1, 2} : stored'[<<call[b].n, i>>] = stored[<<call[b].n, i>>]
      <4> SUFFICES ASSUME NEW i \in {1, 2} PROVE stored'[<<call[b].n, i>>] = stored[<<call[b].n, i>>]
        OBVIOUS
      <4>1. call[b].n # c.n /\ call[b].n \in Numbers
        BY <1>2, <3>1, OpenIs DEF Numbered, Open
      <4>2. <<call[b].n, i>> \in Pairs \ {Pair(c)}
        BY <4>1 DEF Pairs, Pair
      <4>3. QED BY <1>7, <4>2
    <3>3. QED BY <1>5, <2>1, <2>2, <3>1, <3>2 DEF NamingStep
  <2>4. QED BY <1>5, <2>2, <2>3, NamesStand
<1>12. CASE c.kind \in Naming
  <2>1. NamingStep(c) /\ wire # <<Made(c)>>
    BY <1>1, <1>2, <1>12 DEF NamesInStep
  <2>2. \A b \in Open : call[b].kind \in Naming => b = h
    BY <1>2, <1>12 DEF NamesInStep
  <2>3. /\ Plan(c.kind)[1] = {"key"} /\ Plan(c.kind)[2] = {"label"}
        /\ c.kind \notin {"setSilent", "wipeSlot"}
    BY <1>3, <1>12, PlanIs DEF Naming
  <2>4. NamingStep(call[Head(lane)])'
    <3>1. lane' = lane
      BY DEF KeyStores
    <3>2. CASE c.step = 1
      <4>1. store'["key"] = Value(c.kind, c.n)
        BY <1>8, <1>10, <2>3, <3>2
      <4>2. wire' = <<Made(c)>>
        <5>1. wire' = <<Said(f, IF f.kind = "generateKey" /\ f.step = 1 THEN "key" ELSE "ack")>>
          BY <1>3, <1>9, <2>3, ReplyIs
        <5>2. \A what : Said(f, what) = Said(c, what)
          BY <1>3 DEF Said
        <5>3. QED BY <1>3, <3>2, <5>1, <5>2 DEF Made
      <4>3. stored'[<<c.n, 1>>] > 0
        BY <1>7, <3>2 DEF Pair
      <4>4. stored'[<<c.n, 2>>] = 0
        <5>1. <<c.n, 2>> \in Pairs \ {Pair(c)}
          BY <1>3, <3>2 DEF Pairs, Pair
        <5>2. QED BY <1>7, <2>1, <3>2, <5>1 DEF NamingStep
      <4>5. Made(c)' = Made(c)
        BY <1>5, <3>1 DEF Made, Said
      <4>6. QED BY <1>5, <3>1, <3>2, <4>1, <4>2, <4>3, <4>4, <4>5 DEF NamingStep
    <3>3. CASE c.step = 2
      <4>1. store'["label"] = Value(c.kind, c.n) /\ store'["key"] = store["key"]
        BY <1>8, <1>10, <2>3, <3>3
      <4>2. store["key"] = Value(c.kind, c.n) /\ <<c.n, 1>> \in told
        BY <2>1, <3>3 DEF NamingStep
      <4>3. QED BY <1>5, <3>1, <3>3, <4>1, <4>2 DEF NamingStep
    <3>4. QED BY <1>3, <3>2, <3>3
  <2>5. Open' = Open
    BY <1>5 DEF Open
  <2>6. ASSUME NEW b \in Open', call'[b].kind \in Naming PROVE NamingStep(call[b])'
    <3>1. b = h /\ call'[b] = call[b] /\ lane' = lane
      BY <1>5, <2>2, <2>5, <2>6 DEF KeyStores
    <3>2. QED BY <2>4, <3>1, Zenon DEF NamingStep, Named, Nameless, Made, Said
  <2>7. QED BY <1>2, <1>5, <1>12, <2>2, <2>5, <2>6 DEF NamesInStep
<1>13. QED BY <1>11, <1>12

(* The key slot's label is that of its key, as long as nothing is left     *)
(* behind and its calls run apart.                                         *)
LEMMA NamesKept ==
  ASSUME TypeOK, TypeOK', Numbered, Trusted, NamesInStep, ~loose', ~shared', [Next]_vars
  PROVE  NamesInStep'
<1>1. ASSUME Skip PROVE NamesInStep'
  <2>1. UNCHANGED <<call, lane, store, begun, told, stored>>
    BY <1>1 DEF Skip
  <2>2. Named => Named'
    BY <2>1, NamedSame
  <2>3. ASSUME NEW a \in Open, call[a].kind \in Naming PROVE NamingStep(call[a])'
    <3>1. call[a].step = 1 => wire # <<Made(call[a])>>
      <4>1. SUFFICES ASSUME call[a].step = 1, wire = <<Made(call[a])>> PROVE FALSE
        OBVIOUS
      <4>2. Talking(a)
        BY <4>1, MadeByTalker DEF Talking
      <4>3. Takes(call[a], Head(wire).what)
        <5>1. Head(wire).what = IF call[a].kind = "generateKey" THEN "key" ELSE "ack"
          BY <4>1 DEF Made, Said
        <5>2. call[a].kind # "setSilent"
          BY <2>3 DEF Naming
        <5>3. QED BY <4>1, <5>1, <5>2 DEF Takes
      <4>4. a \in Apps
        BY DEF Open
      <4>5. QED BY <1>1, <4>2, <4>3, <4>4 DEF Skip
    <3>2. NamingStep(call[a]) /\ call'[a] = call[a]
      BY <2>1, <2>3 DEF NamesInStep
    <3>3. QED BY <2>1, <2>2, <3>1, <3>2, NamingStays
  <2>4. QED BY <2>1, <2>2, <2>3, NamesStand
<1>2. ASSUME KeyRefuses \/ KeyDrops PROVE NamesInStep'
  <2>1. UNCHANGED <<call, lane, store, begun, told, stored>> /\ wire = << >>
    BY <1>2 DEF KeyRefuses, KeyDrops, Trusted, Flow, Quiet, OneAnswer
  <2>2. Named => Named'
    BY <2>1, NamedSame
  <2>3. ASSUME NEW a \in Open, call[a].kind \in Naming PROVE NamingStep(call[a])'
    <3>1. NamingStep(call[a]) /\ call'[a] = call[a] /\ wire # <<Made(call[a])>>
      BY <2>1, <2>3 DEF NamesInStep
    <3>2. QED BY <2>1, <2>2, <3>1, NamingStays
  <2>4. QED BY <2>1, <2>2, <2>3, NamesStand
<1>3. ASSUME UNCHANGED vars PROVE NamesInStep'
  <2>1. UNCHANGED <<call, lane, store, begun, told, stored, wire>>
    BY <1>3 DEF vars
  <2>2. Named => Named'
    BY <2>1, NamedSame
  <2>3. ASSUME NEW a \in Open, call[a].kind \in Naming PROVE NamingStep(call[a])'
    <3>1. NamingStep(call[a]) /\ call'[a] = call[a]
      BY <2>1, <2>3 DEF NamesInStep
    <3>2. QED BY <2>1, <2>2, <3>1, NamingStays
  <2>4. QED BY <2>1, <2>2, <2>3, NamesStand
<1>4. QED
  BY <1>1, <1>2, <1>3, NamesBegin, NamesAsk, NamesHear, NamesEnd, NamesStore DEF Next, Work

(* Nothing has been written before the first call.                         *)
LEMMA WritesAtFirst == Init => WritesInv
<1> SUFFICES ASSUME Init PROVE WritesInv
  OBVIOUS
<1>1. Open = {}
  BY DEF Init, Open, Idle
<1>2. TypeOK
  <2>1. /\ call \in [Apps -> OpenCalls \cup {Idle}] /\ stored \in [Pairs -> Nat]
        /\ store \in [Cells -> 0 .. MaxCalls] /\ told \subseteq Pairs
    BY DeviceWritesAssumption DEF Init, Blank
  <2>2. /\ lane \in Seq(Apps) /\ inbox \in Seq(Frames) /\ wire \in Seq(Reports)
        /\ begun \in Seq(Kinds) /\ Len(begun) <= MaxCalls
    BY DeviceWritesAssumption, EmptySeq DEF Init
  <2>3. loose \in BOOLEAN /\ shared \in BOOLEAN
    BY Zenon DEF Init
  <2>4. trouble \in [timeouts : 0 .. MaxTimeouts, refused : 0 .. MaxRefused,
                     dropped : 0 .. MaxDropped]
    <3> DEFINE T == 0 .. MaxTimeouts
               R == 0 .. MaxRefused
               D == 0 .. MaxDropped
    <3>1. 0 \in T /\ 0 \in R /\ 0 \in D
      BY DeviceWritesAssumption
    <3>2. trouble = [timeouts |-> 0, refused |-> 0, dropped |-> 0]
      BY Zenon DEF Init
    <3> HIDE DEF T, R, D
    <3>3. trouble \in [timeouts : T, refused : R, dropped : D]
      BY <3>1, <3>2
    <3>4. QED BY <3>3 DEF T, R, D
  <2>5. QED BY <2>1, <2>2, <2>3, <2>4 DEF TypeOK
<1>3. \A p \in Pairs : stored[p] = 0
  BY DEF Init
<1>4. \A n \in Numbers : <<n, 2>> \in Pairs /\ <<n, 1>> \in Pairs
  BY DEF Pairs
<1>5. Trusted
  BY <1>1, <1>3, <1>4 DEF Init, Trusted, Flow, Quiet
<1>6. DOMAIN inbox = {} /\ DOMAIN begun = {}
  BY DEF Init
<1>7. Numbered
  BY <1>1, <1>3, <1>6 DEF Init, Numbered
<1>8. AskedOnce
  BY <1>1, <1>6 DEF AskedOnce
<1>9. NamesInStep
  <2>1. Named
    BY DEF Init, Named, Cells
  <2>2. QED BY <1>1, <2>1 DEF NamesInStep
<1>10. QED BY <1>2, <1>5, <1>7, <1>8, <1>9 DEF WritesInv, ToldInv

(* Every step keeps the whole invariant.                                   *)
LEMMA WritesKept == WritesInv /\ [Next]_vars => WritesInv'
<1> SUFFICES ASSUME WritesInv, [Next]_vars PROVE WritesInv'
  OBVIOUS
<1>1. TypeOK /\ TypeOK'
  BY WritesTyped DEF WritesInv, ToldInv
<1>2. ToldInv' /\ Numbered' /\ AskedOnce'
  BY <1>1, ToldKept, NumberedKept, AskedKept DEF WritesInv
<1>3. ASSUME ~loose', ~shared' PROVE NamesInStep'
  <2>1. ~loose
    BY <1>3, Zenon DEF Next, Work, Begin, Ask, Hear, Skip, WindowEnds, TimeOut, KeyStores,
                       KeyRefuses, KeyDrops, vars
  <2>2. ~shared
    BY <1>3, Zenon DEF Next, Work, Begin, Ask, Hear, Skip, WindowEnds, TimeOut, KeyStores,
                       KeyRefuses, KeyDrops, vars
  <2>3. Numbered /\ Trusted /\ NamesInStep
    BY <2>1, <2>2 DEF WritesInv, ToldInv
  <2>4. QED BY <1>1, <1>3, <2>3, NamesKept
<1>4. QED BY <1>2, <1>3 DEF WritesInv

(* What is on its way, whose it is, and what the key slot's two cells hold *)
(* at every step of every call that writes to a key.                       *)
THEOREM WritesInvariant == Spec => []WritesInv
<1>1. QED BY WritesAtFirst, WritesKept, PTL DEF Spec

(* What the host reports as written was written by the key, unless a       *)
(* conversation was left before its answer had come (sendField, loadKey,   *)
(* generateKey and the wipes).                                             *)
THEOREM ToldWasStored == Spec => []ToldIsStored
<1>1. WritesInv => ToldIsStored
  BY DEF WritesInv, ToldInv, Trusted, ToldIsStored
<1>2. QED BY <1>1, WritesInvariant, PTL

(* A plan is carried out in its order, a key is generated once by a call,  *)
(* and between calls that ran apart the label is that of the key, or the   *)
(* caller was told that it is not (loadKey, generateEccKey, generateKey    *)
(* and wipeKey).                                                           *)
THEOREM KeysHaveTheirNames == Spec => []NamesAgree
<1>1. WritesInv => NamesAgree
  <2> SUFFICES ASSUME WritesInv PROVE NamesAgree
    OBVIOUS
  <2>1. PlanInOrder
    <3>1. GeneratedOnce
      BY DEF WritesInv, AskedOnce, Generates, GeneratedOnce
    <3>2. QED BY <3>1 DEF WritesInv, ToldInv, Trusted, PlanInOrder
  <2>2. ASSUME Open = {}, ~loose, ~shared
        PROVE  \/ store["label"] = store["key"]
               \/ \E n \in DOMAIN begun : /\ <<n, 1>> \in told /\ <<n, 2>> \notin told
                                          /\ store["key"] = Value(begun[n], n)
    <3>1. Named
      BY <2>2 DEF WritesInv, NamesInStep
    <3>2. QED BY <3>1 DEF Named, Nameless
  <2>3. QED BY <2>1, <2>2 DEF NamesAgree
<1>2. QED BY <1>1, WritesInvariant, PTL

-----------------------------------------------------------------------------
(* The edge copy.                                                          *)

(* A set of integers with a bound has a last one and a first one.          *)
LEMMA LastIs ==
  ASSUME NEW T, T \subseteq Int, T # {}, NEW b \in Int, \A x \in T : x <= b
  PROVE  Max(T) \in T /\ \A y \in T : y <= Max(T)
<1> DEFINE D == {b - x : x \in T}
<1>1. D \subseteq Nat /\ D # {}
  <2>1. \A x \in T : x \in Int /\ b - x \in Nat
    OBVIOUS
  <2>2. PICK x \in T : TRUE
    OBVIOUS
  <2>3. b - x \in D
    OBVIOUS
  <2>4. QED BY <2>1, <2>3
<1>2. IsWellFoundedOn(OpToRel(<, Nat), Nat)
  BY NatLessThanWellFounded
<1>3. \A x \in T : b - x \in D
  OBVIOUS
<1>4. \A m \in D : \E x \in T : m = b - x
  OBVIOUS
<1> HIDE DEF D
<1>5. PICK m \in D : \A y \in D : ~(<<y, m>> \in OpToRel(<, Nat))
  BY <1>1, <1>2, WFMin, Zenon
<1>6. \A y \in D : ~(y < m)
  <2>1. SUFFICES ASSUME NEW y \in D PROVE ~(y < m)
    OBVIOUS
  <2>2. y \in Nat /\ m \in Nat
    BY <1>1
  <2>3. <<y, m>> \in Nat \X Nat /\ <<y, m>>[1] = y /\ <<y, m>>[2] = m
    BY <2>2
  <2>4. QED BY <1>5, <2>3 DEF OpToRel
<1>7. PICK x \in T : m = b - x
  BY <1>4
<1>8. \A y \in T : y <= x
  BY <1>6, <1>3, <1>7
<1>9. QED BY <1>8 DEF Max

(* And a first one.                                                        *)
LEMMA FirstIs ==
  ASSUME NEW T, T \subseteq Int, T # {}, NEW b \in Int, \A x \in T : b <= x
  PROVE  Min(T) \in T /\ \A y \in T : Min(T) <= y
<1> DEFINE D == {0 - x : x \in T}
<1>1. D \subseteq Int /\ D # {} /\ \A x \in D : x <= 0 - b
  <2>1. \A x \in T : x \in Int /\ 0 - x \in Int /\ 0 - x <= 0 - b
    OBVIOUS
  <2>2. PICK x \in T : TRUE
    OBVIOUS
  <2>3. 0 - x \in D
    OBVIOUS
  <2>4. QED BY <2>1, <2>3
<1>2. \A x \in T : 0 - x \in D
  OBVIOUS
<1>3. \A m \in D : \E x \in T : m = 0 - x
  OBVIOUS
<1>4. 0 - b \in Int
  OBVIOUS
<1> HIDE DEF D
<1>5. Max(D) \in D /\ \A y \in D : y <= Max(D)
  BY <1>1, <1>4, LastIs
<1>6. PICK x \in T : Max(D) = 0 - x
  BY <1>3, <1>5
<1>7. \A y \in T : x <= y
  BY <1>2, <1>5, <1>6
<1>8. QED BY <1>7 DEF Min

(* The larger of two.                                                      *)
LEMMA LargerIs ==
  ASSUME NEW a \in Int, NEW b \in Int
  PROVE  Max({a, b}) \in {a, b} /\ a <= Max({a, b}) /\ b <= Max({a, b})
<1> DEFINE m == IF a <= b THEN b ELSE a
<1>1. m \in Int /\ \A x \in {a, b} : x <= m
  OBVIOUS
<1>2. QED BY <1>1, LastIs

(* A head: the sequence of what was welded.                                *)
IsHead(h) == \E S : h \in Seq(S)

(* The head of an unweldable link is a head, and no link of the key's.     *)
LEMMA NoHeadIs == IsHead(NoHead) /\ Len(NoHead) = 1 /\ NoHead[1].by = "nobody"
<1> DEFINE x == [UseLink EXCEPT !.by = "nobody"]
<1>1. <<x>> \in Seq({x}) /\ Len(<<x>>) = 1 /\ <<x>>[1] = x
  OBVIOUS
<1>2. x.by = "nobody"
  BY DEF UseLink
<1>3. QED BY <1>1, <1>2 DEF NoHead, IsHead

(* Before the first link the head is empty.                                *)
LEMMA EmptyIs == IsHead(<<>>)
BY EmptySeq DEF IsHead

(* What is welded onto a head is a head.                                   *)
LEMMA WeldIs == ASSUME NEW h, IsHead(h), NEW x PROVE IsHead(Weld(h, x))
<1>1. PICK S : h \in Seq(S)
  BY DEF IsHead
<1>2. h \in Seq(S \cup {x})
  BY <1>1, SeqMonotonic
<1>3. Append(h, x) \in Seq(S \cup {x})
  BY <1>2, AppendProperties
<1>4. QED BY <1>3 DEF IsHead, Weld

(* A weld tells what it was made of.                                       *)
LEMMA WeldTells ==
  ASSUME NEW h, IsHead(h), NEW g, IsHead(g), NEW x, NEW y, Weld(h, x) = Weld(g, y)
  PROVE  h = g /\ x = y
<1>1. PICK S : h \in Seq(S)
  BY DEF IsHead
<1>2. PICK T : g \in Seq(T)
  BY DEF IsHead
<1> DEFINE U == S \cup T \cup {x, y}
<1>3. h \in Seq(U)
  BY <1>1, SeqMonotonic
<1>4. g \in Seq(U)
  BY <1>2, SeqMonotonic
<1>5. x \in U /\ y \in U
  OBVIOUS
<1> HIDE DEF U
<1>6. Append(h, x) = Append(g, y) <=> h = g /\ x = y
  BY <1>3, <1>4, <1>5, AppendInjective
<1>7. QED BY <1>6 DEF Weld

(* Two heads joined are one.                                               *)
LEMMA JoinIs ==
  ASSUME NEW h, IsHead(h), NEW g, IsHead(g)
  PROVE  IsHead(h \o g)
<1>1. PICK S : h \in Seq(S)
  BY DEF IsHead
<1>2. PICK T : g \in Seq(T)
  BY DEF IsHead
<1>3. h \in Seq(S \cup T) /\ g \in Seq(S \cup T)
  BY <1>1, <1>2, SeqMonotonic
<1>4. QED BY <1>3, ConcatProperties DEF IsHead

(* The chain up to a seq.                                                  *)
LEMMA PrefixIs ==
  ASSUME NEW c, IsHead(c), NEW s \in 0 .. Len(c)
  PROVE  /\ Len(c) \in Nat
         /\ IsHead(SubSeq(c, 1, s)) /\ Len(SubSeq(c, 1, s)) = s
         /\ SubSeq(c, 1, s) = [i \in 1 .. s |-> c[i]]
<1>1. PICK S : c \in Seq(S)
  BY DEF IsHead
<1>2. Len(c) \in Nat /\ \A i \in 1 .. Len(c) : c[i] \in S
  BY <1>1, LenProperties
<1>3. s \in Int /\ \A i \in 1 .. s : c[i] \in S
  BY <1>2
<1>4. /\ SubSeq(c, 1, s) \in Seq(S)
      /\ Len(SubSeq(c, 1, s)) = IF 1 <= s THEN s - 1 + 1 ELSE 0
      /\ \A i \in 1 .. s - 1 + 1 : SubSeq(c, 1, s)[i] = c[1 + i - 1]
  BY <1>3, SubSeqProperties
<1>5. Len(SubSeq(c, 1, s)) = s
  BY <1>2, <1>4
<1>6. \A i \in 1 .. s : SubSeq(c, 1, s)[i] = c[i]
  BY <1>2, <1>4
<1>7. SubSeq(c, 1, s) \in [1 .. s -> S]
  BY <1>4, <1>5, LenProperties
<1>8. SubSeq(c, 1, s) = [i \in 1 .. s |-> c[i]]
  BY <1>6, <1>7
<1>9. QED BY <1>2, <1>4, <1>5, <1>8 DEF IsHead

(* The next link of the chain welds onto the chain before it.              *)
LEMMA PrefixWelds ==
  ASSUME NEW c, IsHead(c), NEW s \in 1 .. Len(c)
  PROVE  Weld(SubSeq(c, 1, s - 1), c[s]) = SubSeq(c, 1, s)
<1>1. PICK S : c \in Seq(S)
  BY DEF IsHead
<1>2. Len(c) \in Nat /\ \A i \in 1 .. Len(c) : c[i] \in S
  BY <1>1, LenProperties
<1>3. s \in 0 .. Len(c) /\ s - 1 \in 0 .. Len(c)
  BY <1>2
<1>4. /\ SubSeq(c, 1, s - 1) \in Seq(S) /\ Len(SubSeq(c, 1, s - 1)) = s - 1
  <2>1. s - 1 \in Int /\ 1 \in Int /\ \A i \in 1 .. s - 1 : c[i] \in S
    BY <1>2
  <2>2. SubSeq(c, 1, s - 1) \in Seq(S)
    BY <2>1, SubSeqProperties
  <2>3. QED BY <2>2, <1>3, PrefixIs
<1>5. /\ SubSeq(c, 1, s) \in Seq(S) /\ Len(SubSeq(c, 1, s)) = s
  <2>1. s \in Int /\ 1 \in Int /\ \A i \in 1 .. s : c[i] \in S
    BY <1>2
  <2>2. SubSeq(c, 1, s) \in Seq(S)
    BY <2>1, SubSeqProperties
  <2>3. QED BY <2>2, <1>3, PrefixIs
<1>6. c[s] \in S
  BY <1>2
<1> DEFINE w == Append(SubSeq(c, 1, s - 1), c[s])
<1>7. /\ w \in Seq(S) /\ Len(w) = s - 1 + 1
      /\ \A i \in 1 .. s - 1 : w[i] = SubSeq(c, 1, s - 1)[i]
      /\ w[s - 1 + 1] = c[s]
  BY <1>4, <1>6, AppendProperties
<1>8. \A i \in 1 .. s - 1 : SubSeq(c, 1, s - 1)[i] = c[i]
  <2>1. SubSeq(c, 1, s - 1) = [i \in 1 .. s - 1 |-> c[i]]
    BY <1>3, PrefixIs
  <2>2. QED BY <2>1
<1>9. \A i \in 1 .. s : SubSeq(c, 1, s)[i] = c[i]
  <2>1. SubSeq(c, 1, s) = [i \in 1 .. s |-> c[i]]
    BY <1>3, PrefixIs
  <2>2. QED BY <2>1
<1> HIDE DEF w
<1>10. Len(w) = s /\ \A i \in 1 .. s : w[i] = SubSeq(c, 1, s)[i]
  BY <1>7, <1>8, <1>9, <1>2
<1>11. w = SubSeq(c, 1, s)
  BY <1>5, <1>7, <1>10, SeqEqual
<1>12. QED BY <1>11 DEF w, Weld

(* A middle piece of the chain, on the chain before it.                    *)
LEMMA PrefixJoins ==
  ASSUME NEW c, IsHead(c), NEW k \in 1 .. Len(c) + 1, NEW s \in k .. Len(c)
  PROVE  IsHead(SubSeq(c, k, s)) /\ SubSeq(c, 1, k - 1) \o SubSeq(c, k, s) = SubSeq(c, 1, s)
<1>1. PICK S : c \in Seq(S)
  BY DEF IsHead
<1>2. Len(c) \in Nat /\ \A i \in 1 .. Len(c) : c[i] \in S
  BY <1>1, LenProperties
<1>3. k \in Int /\ s \in Int /\ \A i \in k .. s : c[i] \in S
  BY <1>2
<1>4. SubSeq(c, k, s) \in Seq(S)
  BY <1>3, SubSeqProperties
<1>5. 1 \in 1 .. Len(c) + 1 /\ k - 1 \in 1 - 1 .. Len(c) /\ s \in k - 1 .. Len(c) /\ k - 1 + 1 = k
  BY <1>2
<1>6. SubSeq(c, 1, k - 1) \o SubSeq(c, k - 1 + 1, s) = SubSeq(c, 1, s)
  BY <1>1, <1>5, ConcatAdjacentSubSeq
<1>7. QED BY <1>4, <1>5, <1>6 DEF IsHead

(* The key writes a link.                                                  *)
Grew(c, d, x) ==
  /\ IsHead(d) /\ Len(c) \in Nat /\ Len(d) = Len(c) + 1 /\ d[Len(c) + 1] = x
  /\ \A i \in 1 .. Len(c) : d[i] = c[i]
  /\ \A s \in 0 .. Len(c) : SubSeq(d, 1, s) = SubSeq(c, 1, s)
  /\ SubSeq(d, 1, Len(c) + 1) = d

(* What the key wrote before stays as it was.                              *)
LEMMA ChainGrows ==
  ASSUME NEW c, IsHead(c), NEW x, NEW d, d = Append(c, x)
  PROVE  Grew(c, d, x)
<1>1. PICK S : c \in Seq(S)
  BY DEF IsHead
<1>2. c \in Seq(S \cup {x})
  BY <1>1, SeqMonotonic
<1>3. x \in S \cup {x}
  OBVIOUS
<1>4. /\ d \in Seq(S \cup {x}) /\ Len(d) = Len(c) + 1
      /\ \A i \in 1 .. Len(c) : d[i] = c[i]
      /\ d[Len(c) + 1] = x
  BY <1>2, <1>3, AppendProperties
<1>5. Len(c) \in Nat
  BY <1>1, LenProperties
<1>6. IsHead(d)
  BY <1>4 DEF IsHead
<1>7. ASSUME NEW s \in 0 .. Len(c) PROVE SubSeq(d, 1, s) = SubSeq(c, 1, s)
  <2>1. s \in 0 .. Len(d)
    BY <1>4, <1>5
  <2>2. SubSeq(d, 1, s) = [i \in 1 .. s |-> d[i]]
    BY <1>6, <2>1, PrefixIs
  <2>3. SubSeq(c, 1, s) = [i \in 1 .. s |-> c[i]]
    BY PrefixIs
  <2>4. \A i \in 1 .. s : d[i] = c[i]
    BY <1>4, <1>5
  <2>5. QED BY <2>2, <2>3, <2>4
<1>8. SubSeq(d, 1, Len(c) + 1) = d
  <2>1. Len(c) + 1 \in 0 .. Len(d)
    BY <1>4, <1>5
  <2>2. SubSeq(d, 1, Len(c) + 1) = [i \in 1 .. Len(c) + 1 |-> d[i]]
    BY <1>6, <2>1, PrefixIs
  <2>3. d \in [1 .. Len(c) + 1 -> S \cup {x}]
    BY <1>4, LenProperties
  <2>4. QED BY <2>2, <2>3
<1>9. QED BY <1>4, <1>5, <1>6, <1>7, <1>8 DEF Grew

-----------------------------------------------------------------------------
(* What verify() went through: the longest run that welds from the genesis. *)
LEMMA ThroughIs ==
  ASSUME NEW l, NEW seq \in Nat, NEW head
  PROVE  /\ Through(l, seq, head) \in 0 .. seq
         /\ \A i \in 1 .. Through(l, seq, head) : i \in DOMAIN l /\ ForwardOk(l, seq, head, i)
         /\ Through(l, seq, head) < seq =>
              ~(/\ Through(l, seq, head) + 1 \in DOMAIN l
                /\ ForwardOk(l, seq, head, Through(l, seq, head) + 1))
<1> DEFINE R == {s \in 0 .. seq : \A i \in 1 .. s : i \in DOMAIN l /\ ForwardOk(l, seq, head, i)}
           m == Max(R)
<1>1. 0 \in R
  OBVIOUS
<1>2. R \subseteq 0 .. seq
  OBVIOUS
<1>3. \A s \in R : \A i \in 1 .. s : i \in DOMAIN l /\ ForwardOk(l, seq, head, i)
  OBVIOUS
<1>4. \A s \in 0 .. seq : (\A i \in 1 .. s : i \in DOMAIN l /\ ForwardOk(l, seq, head, i)) => s \in R
  OBVIOUS
<1>5. Through(l, seq, head) = m
  BY DEF Through
<1> HIDE DEF R
<1>6. m \in R /\ \A y \in R : y <= m
  <2>1. R \subseteq Int /\ R # {} /\ \A x \in R : x <= seq
    BY <1>1, <1>2
  <2>2. seq \in Int
    OBVIOUS
  <2>3. QED BY <2>1, <2>2, LastIs, Zenon DEF m
<1> HIDE DEF m
<1>7. m \in 0 .. seq
  BY <1>2, <1>6
<1>8. \A i \in 1 .. m : i \in DOMAIN l /\ ForwardOk(l, seq, head, i)
  BY <1>3, <1>6, Zenon
<1>9. m < seq => ~(m + 1 \in DOMAIN l /\ ForwardOk(l, seq, head, m + 1))
  <2>1. SUFFICES ASSUME m < seq, m + 1 \in DOMAIN l, ForwardOk(l, seq, head, m + 1) PROVE FALSE
    OBVIOUS
  <2>2. m + 1 \in 0 .. seq /\ \A i \in 1 .. m + 1 : i \in 1 .. m \/ i = m + 1
    BY <2>1, <1>7
  <2>3. \A i \in 1 .. m + 1 : i \in DOMAIN l /\ ForwardOk(l, seq, head, i)
    BY <2>1, <2>2, <1>8, Zenon
  <2>4. m + 1 \in R
    BY <2>2, <2>3, <1>4, Zenon
  <2>5. QED BY <2>4, <1>6, <1>7
<1>10. QED BY <1>5, <1>7, <1>8, <1>9

(* How low the run comes that welds down from the key's head.              *)
LEMMA BottomIs ==
  ASSUME NEW l, NEW seq \in Nat, NEW head
  PROVE  /\ Bottom(l, seq, head) \in 1 .. seq + 1
         /\ Bottom(l, seq, head) = 1 => seq = 0
         /\ \A i \in Bottom(l, seq, head) .. seq : BackOk(l, seq, head, i)
         /\ Bottom(l, seq, head) - 1 > 1 => ~BackOk(l, seq, head, Bottom(l, seq, head) - 1)
<1> DEFINE R == {s \in 2 .. seq + 1 : \A i \in s .. seq : BackOk(l, seq, head, i)} \cup {seq + 1}
           m == Min(R)
<1>1. seq + 1 \in R
  OBVIOUS
<1>2. R \subseteq 1 .. seq + 1 /\ \A s \in R : s = 1 => seq = 0
  OBVIOUS
<1>3. \A s \in R : \A i \in s .. seq : BackOk(l, seq, head, i)
  <2>1. \A i \in seq + 1 .. seq : FALSE
    OBVIOUS
  <2>2. QED BY <2>1
<1>4. \A s \in 2 .. seq + 1 : (\A i \in s .. seq : BackOk(l, seq, head, i)) => s \in R
  OBVIOUS
<1>5. Bottom(l, seq, head) = m
  BY DEF Bottom
<1> HIDE DEF R
<1>6. m \in R /\ \A y \in R : m <= y
  <2>1. R \subseteq Int /\ R # {} /\ \A x \in R : 1 <= x
    BY <1>1, <1>2
  <2>2. 1 \in Int
    OBVIOUS
  <2>3. QED BY <2>1, <2>2, FirstIs, Zenon DEF m
<1> HIDE DEF m
<1>7. m \in 1 .. seq + 1 /\ (m = 1 => seq = 0)
  BY <1>2, <1>6
<1>8. \A i \in m .. seq : BackOk(l, seq, head, i)
  BY <1>3, <1>6, Zenon
<1>9. m - 1 > 1 => ~BackOk(l, seq, head, m - 1)
  <2>1. SUFFICES ASSUME m - 1 > 1, BackOk(l, seq, head, m - 1) PROVE FALSE
    OBVIOUS
  <2>2. m - 1 \in 2 .. seq + 1 /\ \A i \in m - 1 .. seq : i \in m .. seq \/ i = m - 1
    BY <2>1, <1>7
  <2>3. \A i \in m - 1 .. seq : BackOk(l, seq, head, i)
    BY <2>1, <2>2, <1>8, Zenon
  <2>4. m - 1 \in R
    BY <2>2, <2>3, <1>4, Zenon
  <2>5. QED BY <2>4, <1>6, <1>7
<1>10. QED BY <1>5, <1>7, <1>8, <1>9

(* The links that weld down from the key's head are the key's.             *)
LEMMA DownIsTheKeys ==
  ASSUME NEW l, IsHead(chain), NEW seq \in 0 .. TopSeq, NEW head, head = TrueHead(seq),
         \A s \in DOMAIN l : IsHead(l[s].head)
  PROVE  \A i \in Bottom(l, seq, head) .. seq : i \in DOMAIN l /\ l[i].link = chain[i]
<1> DEFINE b == Bottom(l, seq, head)
           Bad == {i \in b .. seq : HeadAt(l, seq, head, i) # TrueHead(i)}
<1>1. TopSeq \in Nat /\ seq \in Nat
  <2>1. TopSeq \in Nat
    <3>1. PICK S : chain \in Seq(S)
      BY DEF IsHead
    <3>2. QED BY <3>1, LenProperties DEF TopSeq
  <2>2. QED BY <2>1
<1>2. /\ b \in 1 .. seq + 1 /\ (b = 1 => seq = 0)
      /\ \A i \in b .. seq : BackOk(l, seq, head, i)
  BY <1>1, BottomIs
<1> HIDE DEF b
<1>3. \A i \in b .. seq : i - 1 \in Int /\ i \in 2 .. seq /\ i \in 1 .. TopSeq
  BY <1>1, <1>2
<1>4. \A i \in b .. seq : {i, i - 1} \subseteq DOMAIN l
  BY <1>2 DEF BackOk, Linked
<1>5. \A i \in b .. seq : Weld(l[i - 1].head, l[i].link) = HeadAt(l, seq, head, i)
  BY <1>2 DEF BackOk
<1>6. ASSUME NEW i \in b .. seq, HeadAt(l, seq, head, i) = TrueHead(i)
      PROVE  l[i - 1].head = TrueHead(i - 1) /\ l[i].link = chain[i]
  <2>1. Weld(TrueHead(i - 1), chain[i]) = TrueHead(i)
    BY <1>3, PrefixWelds DEF TrueHead, TopSeq
  <2>2. i - 1 \in 0 .. TopSeq
    BY <1>3, <1>1
  <2>3. IsHead(TrueHead(i - 1))
    BY <2>2, PrefixIs DEF TrueHead, TopSeq
  <2>4. IsHead(l[i - 1].head)
    BY <1>4
  <2>5. Weld(l[i - 1].head, l[i].link) = Weld(TrueHead(i - 1), chain[i])
    BY <2>1, <1>5, <1>6
  <2>6. QED BY <2>3, <2>4, <2>5, WeldTells
<1>7. Bad = {}
  <2>1. SUFFICES ASSUME Bad # {} PROVE FALSE
    OBVIOUS
  <2>2. Bad \subseteq Int /\ \A x \in Bad : x <= seq
    BY <1>1, <1>2
  <2>3. PICK m : m = Max(Bad)
    OBVIOUS
  <2>4. m \in Bad /\ \A y \in Bad : y <= m
    BY <2>1, <2>2, <2>3, <1>1, LastIs
  <2>5. CASE m = seq
    BY <2>4, <2>5 DEF HeadAt
  <2>6. CASE m # seq
    <3>1. PICK k : k = m + 1
      OBVIOUS
    <3>2. k \in b .. seq /\ k - 1 = m /\ k \notin Bad
      BY <3>1, <2>4, <2>6, <1>1, <1>2
    <3>3. HeadAt(l, seq, head, k) = TrueHead(k)
      BY <3>2
    <3>4. l[m].head = TrueHead(m)
      BY <3>2, <3>3, <1>6
    <3>5. QED BY <3>4, <2>4, <2>6 DEF HeadAt
  <2>7. QED BY <2>5, <2>6
<1>8. \A i \in b .. seq : HeadAt(l, seq, head, i) = TrueHead(i)
  BY <1>7
<1>9. QED BY <1>4, <1>6, <1>8 DEF b

-----------------------------------------------------------------------------
(* The unbroken ranges of a set of seqs.                                   *)
HasEnds(set, r) ==
  \E a, b \in set : /\ r = a .. b /\ a <= b
                    /\ a - 1 \notin set /\ b + 1 \notin set
                    /\ Min(r) = a /\ Max(r) = b

(* A range has ends in the set, and none beside them.                      *)
LEMMA RangeIs ==
  ASSUME NEW set, set \subseteq Nat, NEW r \in Ranges(set)
  PROVE  HasEnds(set, r) /\ r # {} /\ r \subseteq set
<1>1. PICK p \in set \X set : /\ r = p[1] .. p[2] /\ p[1] <= p[2] /\ (p[1] .. p[2]) \subseteq set
                              /\ p[1] - 1 \notin set /\ p[2] + 1 \notin set
  BY DEF Ranges
<1>2. PICK a \in set, b \in set : a = p[1] /\ b = p[2]
  OBVIOUS
<1>3. a \in Int /\ b \in Int /\ a \in r /\ b \in r /\ r \subseteq Int /\ \A x \in r : a <= x /\ x <= b
  BY <1>1, <1>2
<1>4. Min(r) \in r /\ \A y \in r : Min(r) <= y
  BY <1>3, FirstIs
<1>5. Max(r) \in r /\ \A y \in r : y <= Max(r)
  BY <1>3, LastIs
<1>6. Min(r) = a /\ Max(r) = b
  <2>1. Min(r) <= a /\ a <= Min(r) /\ Max(r) <= b /\ b <= Max(r) /\ Min(r) \in Int /\ Max(r) \in Int
    BY <1>3, <1>4, <1>5
  <2>2. QED BY <2>1, <1>3
<1>7. /\ r = a .. b /\ a <= b /\ a - 1 \notin set /\ b + 1 \notin set /\ r \subseteq set
  BY <1>1, <1>2
<1>8. QED BY <1>3, <1>6, <1>7 DEF HasEnds

(* Each member of a bounded set is in one of its ranges.                   *)
LEMMA RangeOf ==
  ASSUME NEW set, NEW n \in Nat, set \subseteq 1 .. n, NEW s \in set
  PROVE  \E r \in Ranges(set) : s \in r
<1> DEFINE Up == {x \in set : s .. x \subseteq set /\ s <= x}
           Down == {x \in set : x .. s \subseteq set /\ x <= s}
           b == Max(Up)
           a == Min(Down)
<1>1. s \in Int /\ s .. s \subseteq set
  OBVIOUS
<1>2. Up \subseteq Int /\ Up # {} /\ (\A x \in Up : x <= n) /\ n \in Int
  <2>1. s \in Up
    BY <1>1
  <2>2. \A x \in Up : x \in set
    OBVIOUS
  <2>3. \A x \in set : x \in Int /\ 1 <= x /\ x <= n
    OBVIOUS
  <2> HIDE DEF Up
  <2>4. QED BY <2>1, <2>2, <2>3
<1>3. Down \subseteq Int /\ Down # {} /\ (\A x \in Down : 1 <= x) /\ 1 \in Int
  <2>1. s \in Down
    BY <1>1
  <2>2. \A x \in Down : x \in set
    OBVIOUS
  <2>3. \A x \in set : x \in Int /\ 1 <= x /\ x <= n
    OBVIOUS
  <2> HIDE DEF Down
  <2>4. QED BY <2>1, <2>2, <2>3
<1>4. b \in Up /\ \A y \in Up : y <= b
  BY <1>2, LastIs, Zenon
<1>5. a \in Down /\ \A y \in Down : a <= y
  BY <1>3, FirstIs, Zenon
<1> HIDE DEF a, b
<1>6. a \in set /\ b \in set /\ a <= s /\ s <= b /\ a .. s \subseteq set /\ s .. b \subseteq set
  BY <1>4, <1>5
<1>7. a \in Int /\ b \in Int /\ a .. b \subseteq set
  <2>1. a \in Int /\ b \in Int
    BY <1>6
  <2>2. \A x \in a .. b : x \in a .. s \/ x \in s .. b
    BY <2>1, <1>1
  <2>3. QED BY <2>1, <2>2, <1>6
<1>8. b + 1 \notin set
  <2>1. SUFFICES ASSUME b + 1 \in set PROVE FALSE
    OBVIOUS
  <2>2. \A x \in s .. b + 1 : x \in s .. b \/ x = b + 1
    BY <1>1, <1>7
  <2>3. s .. b + 1 \subseteq set
    BY <2>1, <2>2, <1>6
  <2>4. b + 1 \in Up
    BY <2>1, <2>3, <1>6, <1>7, <1>1
  <2>5. QED BY <2>4, <1>4, <1>7
<1>9. a - 1 \notin set
  <2>1. SUFFICES ASSUME a - 1 \in set PROVE FALSE
    OBVIOUS
  <2>2. \A x \in a - 1 .. s : x \in a .. s \/ x = a - 1
    BY <1>1, <1>7
  <2>3. a - 1 .. s \subseteq set
    BY <2>1, <2>2, <1>6
  <2>4. a - 1 \in Down
    BY <2>1, <2>3, <1>6, <1>7, <1>1
  <2>5. QED BY <2>4, <1>5, <1>7
<1>10. PICK p : p = <<a, b>>
  OBVIOUS
<1>11. p \in set \X set /\ p[1] = a /\ p[2] = b
  BY <1>6, <1>10
<1>12. a <= b
  BY <1>6, <1>7, <1>1
<1>13. p[1] .. p[2] \in Ranges(set)
  BY <1>7, <1>8, <1>9, <1>11, <1>12 DEF Ranges
<1>14. s \in p[1] .. p[2]
  BY <1>6, <1>7, <1>11, <1>1
<1>15. QED BY <1>13, <1>14

(* The ranges of a union of some of a set's ranges are those.              *)
LEMMA RangesOfSome ==
  ASSUME NEW set, set \subseteq Nat, NEW F, F \subseteq Ranges(set), NEW g \in Ranges(UNION F)
  PROVE  g \in F
<1>1. UNION F \subseteq set
  <2>1. \A r \in F : r \subseteq set
    BY RangeIs
  <2>2. QED BY <2>1
<1>2. PICK a \in UNION F, b \in UNION F : /\ g = a .. b /\ a <= b /\ a - 1 \notin UNION F /\ b + 1 \notin UNION F
  <2>1. UNION F \subseteq Nat
    BY <1>1
  <2>2. g # {} /\ g \subseteq UNION F
    BY <2>1, RangeIs
  <2>3. QED BY <2>1, RangeIs DEF HasEnds
<1>3. g \subseteq UNION F
  <2>1. UNION F \subseteq Nat
    BY <1>1
  <2>2. QED BY <2>1, RangeIs
<1>4. PICK r \in F : a \in r
  OBVIOUS
<1>5. r \subseteq UNION F
  OBVIOUS
<1>6. PICK c \in set, d \in set : r = c .. d /\ c <= d /\ c - 1 \notin set /\ d + 1 \notin set
  <2>1. r \in Ranges(set)
    OBVIOUS
  <2>2. QED BY <2>1, RangeIs DEF HasEnds
<1>7. a \in Nat /\ b \in Nat /\ c \in Nat /\ d \in Nat
  BY <1>1
<1>8. a = c
  <2>1. a >= c
    BY <1>4, <1>6, <1>7
  <2>2. a > c => a - 1 \in r
    BY <1>4, <1>6, <1>7
  <2>3. ~(a > c)
    BY <2>2, <1>2, <1>5
  <2>4. QED BY <2>1, <2>3, <1>7
<1>9. b = d
  <2>1. b > d => d + 1 \in g
    BY <1>2, <1>4, <1>6, <1>7
  <2>2. ~(b > d)
    BY <2>1, <1>1, <1>3, <1>6
  <2>3. b < d => b + 1 \in r
    BY <1>2, <1>6, <1>7, <1>8
  <2>4. ~(b < d)
    BY <2>3, <1>2, <1>5
  <2>5. QED BY <2>2, <2>4, <1>7
<1>10. g = r
  BY <1>2, <1>6, <1>8, <1>9
<1>11. QED BY <1>10

-----------------------------------------------------------------------------
(* The inductive invariant of the edge copy.                               *)

(* Every link the key wrote.                                               *)
LinkShape(i) ==
  LET x == chain[i]
  IN  /\ x.by = "key" /\ x.from \in Nat /\ x.to \in Nat
      /\ x.from = 0 => x.to = 0
      /\ x.from > 0 => x.from <= x.to /\ x.to < i
      /\ x.next = <<>> \/ (x.to + 1 < i /\ x.next = <<chain[x.to + 1]>>)

KeyShape ==
  /\ IsHead(chain) /\ TopSeq <= MaxLinks
  /\ \A i \in 1 .. TopSeq : LinkShape(i)
  /\ ring \in 1 .. TopSeq + 1 /\ (TopSeq > 0 => ring <= TopSeq)
  /\ reveals \in BOOLEAN

(* Links a computer holds: the key's, or others that name no other.        *)
Copied(links) ==
  /\ DOMAIN links \subseteq 1 .. TopSeq
  /\ \A s \in DOMAIN links : /\ links[s].link = chain[s] \/ links[s].link.next = <<>>
                             /\ IsHead(links[s].head)

CopyShape ==
  /\ DOMAIN copy = {"links", "seen"}
  /\ Copied(copy.links) /\ copy.seen.seq \in 0 .. TopSeq
  /\ DOMAIN heads \subseteq 1 .. TopSeq
  /\ \A s \in DOMAIN heads : IsHead(heads[s])

(* Where a run has not read its links; where it has the key's HEAD.        *)
PreRead == {"sync", "catch", "head", "again", "warm", "warmed", "read", "catching"}
Read == {"held", "judge"}
Told == {"head", "again", "warm", "warmed", "read", "catching", "held", "judge"}

JobShape ==
  /\ DOMAIN job = {"at", "links", "seq", "oldest", "head", "held", "behind"}
  /\ job.at \in PreRead \cup Read \cup {"rest"}
  /\ job.at = "rest" => job = AtRest
  /\ job.at \in PreRead => job.links = copy.links
  /\ job.at \in Read => Copied(job.links) /\ DOMAIN copy.links \subseteq DOMAIN job.links
  /\ job.at \in Told =>
       /\ job.seq \in 0 .. TopSeq /\ DOMAIN job.links \subseteq 1 .. job.seq
       /\ copy.seen.seq <= job.seq
       /\ job.oldest \in 1 .. ring /\ (job.seq > 0 => job.oldest <= job.seq)
       /\ \A i \in job.seq + 1 .. TopSeq : chain[i].from = 0
  /\ job.at \in Told \cap PreRead => job.behind = (LastSeq(job.links) + 1 < job.oldest)
  /\ job.at = "judge" =>
       job.held = {s \in DOMAIN job.links : s \in job.oldest .. job.seq /\ job.links[s].link = chain[s]}
  /\ job.at \in {"catch", "catching"} => DOMAIN job.links # {}

VerdictShape ==
  /\ verdict.kind \in {"none", "verified", "gap", "unsigned", "tampered"}
  /\ verdict.seq \in 0 .. TopSeq /\ DOMAIN verdict.links \subseteq 1 .. verdict.seq
  /\ verdict.open \subseteq 1 .. verdict.seq /\ verdict.lost \subseteq 1 .. verdict.seq
  /\ verdict.kind = "gap" => verdict.open # {}

(* A copy that nothing changed: the key's links, under the key's heads.    *)
Honest(links) ==
  \A s \in DOMAIN links : links[s].link = chain[s] /\ links[s].head \in {NoHead, TrueHead(s)}
Whole(links) == \A s \in DOMAIN links : links[s].head # NoHead
Reaches(links, from) == \A t \in DOMAIN links : \A s \in from .. t : s \in DOMAIN links

HonestCopy ==
  /\ Honest(copy.links) /\ Whole(copy.links) /\ Reaches(copy.links, ring)
  /\ copy.seen.head = TrueHead(copy.seen.seq)
  /\ \A s \in DOMAIN heads : heads[s] = TrueHead(s)

HonestRun ==
  /\ job.at \in {"head", "again"} =>
       /\ job.head \in {NoHead, TrueHead(job.seq)}
       /\ ~reveals /\ job.seq > 0 /\ job.head # NoHead => job.seq \in DOMAIN heads
  /\ job.at \in {"read", "held", "judge"} => job.head = TrueHead(job.seq)
  /\ job.at = "read" /\ ~reveals /\ job.seq > 0 => job.seq \in DOMAIN heads
  /\ job.at \in PreRead \ {"catch", "catching"} /\ LastSeq(job.links) > 0 =>
       LastSeq(job.links) \in DOMAIN heads
  /\ job.at \in Told \cap PreRead => Reaches(job.links, job.oldest)
  /\ job.at \in Read =>
       /\ Honest(job.links)
       /\ reveals \/ ~job.behind => job.oldest .. job.seq \subseteq DOMAIN job.links
       /\ job.oldest .. job.seq \subseteq DOMAIN job.links => Whole(job.links)

(* A LOSS the key no longer gives out and no copy holds.                   *)
Gone(i) == i < ring /\ i \notin DOMAIN copy.links /\ i \notin DOMAIN job.links

Lost(i) == i \in 1 .. TopSeq /\ chain[i].from > 0

(* A LOSS with a later one within it is gone: else the later one would not *)
(* have been asked for.                                                    *)
NestedGone ==
  \A i, k \in 1 .. TopSeq :
    Lost(i) /\ Lost(k) /\ i < k /\ chain[i].from < chain[k].from /\ chain[k].to <= chain[i].to => Gone(i)

(* The open gap a report tells of is no LOSS's that its links hold, and    *)
(* other LOSSes are gone.                                                  *)
GapIsOpen ==
  verdict.kind = "gap" =>
    /\ \A i \in 1 .. TopSeq : Lost(i) =>
         \/ i \in DOMAIN verdict.links
         \/ chain[i].from = Min(verdict.open) /\ chain[i].to = Max(verdict.open)
         \/ Gone(i)
    /\ \A j \in DOMAIN verdict.links :
         Lost(j) /\ j > Max(verdict.open) =>
           ~(chain[j].from <= Min(verdict.open) /\ Max(verdict.open) <= chain[j].to)

Untouched == ~edited => HonestCopy /\ HonestRun /\ NestedGone /\ GapIsOpen

(* What VerifiedIsTheKeys says, but for the types.                         *)
Proven ==
  verdict.kind = "verified" =>
    /\ \A s \in verdict.lost : \E j \in s + 1 .. TopSeq : s \in chain[j].from .. chain[j].to
    /\ \A s \in (1 .. verdict.seq) \ verdict.lost :
         ~edited \/ s > Max(verdict.lost \cup {0}) =>
           s \in DOMAIN verdict.links /\ verdict.links[s].link = chain[s]

EdgeInv ==
  /\ KeyShape /\ CopyShape /\ JobShape /\ VerdictShape /\ Untouched
  /\ Proven /\ AlarmNeedsACause

-----------------------------------------------------------------------------
(* The chain, and its heads.                                               *)
LEMMA KeyIs ==
  ASSUME KeyShape
  PROVE  /\ TopSeq \in Nat /\ ring \in Nat /\ 1 <= ring
         /\ \A s \in 0 .. TopSeq : /\ IsHead(TrueHead(s)) /\ TrueHead(s) # NoHead
                                   /\ TrueHead(s) = [i \in 1 .. s |-> chain[i]]
         /\ \A s \in 1 .. TopSeq : Weld(TrueHead(s - 1), chain[s]) = TrueHead(s)
<1>1. IsHead(chain)
  BY DEF KeyShape
<1>2. TopSeq \in Nat
  <2>1. PICK S : chain \in Seq(S)
    BY <1>1 DEF IsHead
  <2>2. QED BY <2>1, LenProperties DEF TopSeq
<1>3. ring \in Nat /\ 1 <= ring
  BY <1>2 DEF KeyShape
<1>4. ASSUME NEW s \in 0 .. TopSeq
      PROVE  /\ IsHead(TrueHead(s)) /\ TrueHead(s) # NoHead
             /\ TrueHead(s) = [i \in 1 .. s |-> chain[i]]
  <2>1. IsHead(TrueHead(s)) /\ Len(TrueHead(s)) = s /\ TrueHead(s) = [i \in 1 .. s |-> chain[i]]
    BY <1>1, PrefixIs DEF TrueHead, TopSeq
  <2>2. SUFFICES ASSUME TrueHead(s) = NoHead PROVE FALSE
    BY <2>1
  <2>3. s = 1 /\ TrueHead(s)[1].by = "nobody"
    BY <2>1, <2>2, NoHeadIs
  <2>4. TrueHead(s)[1] = chain[1]
    BY <2>1, <2>3
  <2>5. chain[1].by = "key"
    BY <2>3, <1>2 DEF KeyShape, LinkShape
  <2>6. QED BY <2>3, <2>4, <2>5
<1>5. \A s \in 1 .. TopSeq : Weld(TrueHead(s - 1), chain[s]) = TrueHead(s)
  BY <1>1, PrefixWelds DEF TrueHead, TopSeq
<1>6. QED BY <1>2, <1>3, <1>4, <1>5

(* The end of what a copy holds.                                           *)
LEMMA LastSeqIs ==
  ASSUME NEW links, NEW n \in Nat, DOMAIN links \subseteq 1 .. n
  PROVE  /\ LastSeq(links) \in 0 .. n
         /\ \A s \in DOMAIN links : s <= LastSeq(links)
         /\ LastSeq(links) > 0 => LastSeq(links) \in DOMAIN links
         /\ DOMAIN links # {} => LastSeq(links) > 0
<1>1. CASE DOMAIN links = {}
  BY <1>1 DEF LastSeq
<1>2. CASE DOMAIN links # {}
  <2>1. DOMAIN links \subseteq Int /\ (\A x \in DOMAIN links : x <= n) /\ n \in Int
    OBVIOUS
  <2>2. Max(DOMAIN links) \in DOMAIN links /\ \A y \in DOMAIN links : y <= Max(DOMAIN links)
    BY <2>1, <1>2, LastIs, Zenon
  <2>3. LastSeq(links) = Max(DOMAIN links)
    BY <1>2 DEF LastSeq
  <2>4. QED BY <2>2, <2>3
<1>3. QED BY <1>1, <1>2

(* The heads of an honest run, forward and backward.                       *)
LEMMA HonestWeld ==
  ASSUME KeyShape, NEW l, Honest(l), NEW s \in 0 .. TopSeq, \A i \in 1 .. s : i \in DOMAIN l
  PROVE  [i \in 1 .. s |-> l[i].link] = TrueHead(s)
<1>1. TrueHead(s) = [i \in 1 .. s |-> chain[i]]
  BY KeyIs
<1>2. \A i \in 1 .. s : l[i].link = chain[i]
  BY DEF Honest
<1>3. QED BY <1>1, <1>2

(* A whole copy that nothing changed does not fail.                        *)
LEMMA HonestHolds ==
  ASSUME KeyShape, NEW l, Honest(l), NEW seq \in 0 .. TopSeq, DOMAIN l \subseteq 1 .. seq,
         NEW head, head = TrueHead(seq), NEW seen, seen.seq \in 0 .. seq, seen.head = TrueHead(seen.seq),
         NEW from, from .. seq \subseteq DOMAIN l
  PROVE  ~ChainFailed(l, seen, seq, head, from)
<1> DEFINE t == Through(l, seq, head)
           b == Bottom(l, seq, head)
<1>1. TopSeq \in Nat /\ seq \in Nat
  BY KeyIs
<1>2. /\ t \in 0 .. seq
      /\ \A i \in 1 .. t : i \in DOMAIN l /\ ForwardOk(l, seq, head, i)
  BY <1>1, ThroughIs
<1>3. /\ b \in 1 .. seq + 1 /\ (b = 1 => seq = 0)
      /\ \A i \in b .. seq : BackOk(l, seq, head, i)
  BY <1>1, BottomIs
<1> HIDE DEF t, b
<1>4. ~(LastSeq(l) > seq \/ seen.seq > seq)
  <2>1. LastSeq(l) \in 0 .. seq
    BY <1>1, LastSeqIs
  <2>2. QED BY <2>1, <1>1
<1>5. ASSUME NEW s, s = t + 1, s <= seq, s \in DOMAIN l PROVE ForwardOk(l, seq, head, s)
  <2>1. s \in 0 .. TopSeq /\ \A i \in 1 .. s : i \in 1 .. t \/ i = s
    BY <1>1, <1>2, <1>5
  <2>2. \A i \in 1 .. s : i \in DOMAIN l
    BY <2>1, <1>2, <1>5, Zenon
  <2>3. [i \in 1 .. s |-> l[i].link] = TrueHead(s)
    BY <2>1, <2>2, HonestWeld
  <2>4. l[s].head \in {NoHead, TrueHead(s)}
    BY <1>5 DEF Honest
  <2>5. QED BY <2>3, <2>4 DEF ForwardOk
<1>6. ASSUME NEW s, s = b - 1, s > 1, Linked(l, seq, head, s) PROVE BackOk(l, seq, head, s)
  <2>1. s \in 1 .. TopSeq /\ s \in DOMAIN l /\ s - 1 \in DOMAIN l
    BY <1>1, <1>3, <1>6 DEF Linked
  <2>2. HeadAt(l, seq, head, s) = TrueHead(s)
    <3>1. CASE s = seq
      BY <3>1 DEF HeadAt
    <3>2. CASE s # seq
      <4>1. l[s].head \in {NoHead, TrueHead(s)}
        BY <2>1 DEF Honest
      <4>2. QED BY <4>1, <3>2, <1>6 DEF HeadAt, Linked
    <3>3. QED BY <3>1, <3>2
  <2>3. l[s - 1].head = TrueHead(s - 1) /\ l[s].link = chain[s]
    <3>1. l[s - 1].head \in {NoHead, TrueHead(s - 1)} /\ l[s].link = chain[s]
      BY <2>1 DEF Honest
    <3>2. QED BY <3>1, <1>6 DEF Linked
  <2>4. Weld(TrueHead(s - 1), chain[s]) = TrueHead(s)
    BY <2>1, KeyIs
  <2>5. QED BY <2>2, <2>3, <2>4, <1>6 DEF BackOk
<1>7. TrustedAt(l, seq, head, seen.seq) \in {NoHead, seen.head}
  <2>1. CASE seen.seq = seq
    BY <2>1 DEF TrustedAt
  <2>2. CASE seen.seq # seq /\ seen.seq <= t
    <3>1. seen.seq \in 0 .. TopSeq /\ \A i \in 1 .. seen.seq : i \in 1 .. t
      BY <2>2, <1>1, <1>2
    <3>2. [i \in 1 .. seen.seq |-> l[i].link] = TrueHead(seen.seq)
      BY <3>1, <1>2, HonestWeld
    <3>3. QED BY <3>2, <2>2 DEF TrustedAt, t
  <2>3. CASE seen.seq # seq /\ ~(seen.seq <= t) /\ seen.seq + 1 >= b /\ seen.seq < seq
    <3>1. TrustedAt(l, seq, head, seen.seq) = l[seen.seq].head
      BY <2>3 DEF TrustedAt, t, b
    <3>2. seen.seq + 1 \in b .. seq /\ seen.seq + 1 - 1 = seen.seq
      BY <2>3, <1>1, <1>3
    <3>3. seen.seq \in DOMAIN l
      <4>1. BackOk(l, seq, head, seen.seq + 1)
        BY <3>2, <1>3
      <4>2. QED BY <4>1, <3>2 DEF BackOk, Linked
    <3>4. QED BY <3>1, <3>3 DEF Honest
  <2>4. CASE seen.seq # seq /\ ~(seen.seq <= t) /\ ~(seen.seq + 1 >= b /\ seen.seq < seq)
    BY <2>4 DEF TrustedAt, t, b
  <2>5. QED BY <2>1, <2>2, <2>3, <2>4
<1>8. \A s \in from .. seq : s \in DOMAIN l
  OBVIOUS
<1>9. QED BY <1>4, <1>5, <1>6, <1>7, <1>8 DEF ChainFailed, t, b

(* What a copy lacks lies in seqs, and what it holds of the key's.         *)
LEMMA MissingIs ==
  ASSUME NEW l, NEW seq \in Nat, NEW head, NEW own
  PROVE  /\ MissingSeqs(l, seq, head, own) \subseteq 1 .. seq
         /\ MissingSeqs(l, seq, head, own) \subseteq Nat
         /\ \A s \in MissingSeqs(l, seq, head, own) :
              s > Through(l, seq, head) /\ s < Bottom(l, seq, head)
         /\ \A s \in (1 .. seq) \ MissingSeqs(l, seq, head, own) :
              \/ s <= Through(l, seq, head) \/ s \in Bottom(l, seq, head) .. seq
              \/ s \in KeptSeqs(l, Gaps(l, seq, head), own)
         /\ \A j \in VerifiedLosses(l, Gaps(l, seq, head), own) :
              /\ j \in DOMAIN l /\ l[j].link.from > 0
              /\ j \in own \/ j \notin 1 .. seq \/ j <= Through(l, seq, head) \/ j \in Bottom(l, seq, head) .. seq
<1>1. Through(l, seq, head) \in 0 .. seq /\ Bottom(l, seq, head) \in 1 .. seq + 1
  BY ThroughIs, BottomIs
<1>2. Gaps(l, seq, head) = (1 .. seq) \ ((1 .. Through(l, seq, head)) \cup (Bottom(l, seq, head) .. seq))
  BY DEF Gaps, Verified
<1>3. MissingSeqs(l, seq, head, own) = Gaps(l, seq, head) \ KeptSeqs(l, Gaps(l, seq, head), own)
  BY DEF MissingSeqs
<1>4. \A j \in VerifiedLosses(l, Gaps(l, seq, head), own) :
        j \in DOMAIN l /\ l[j].link.from > 0 /\ (j \in own \/ j \notin Gaps(l, seq, head))
  BY DEF VerifiedLosses, Losses
<1> DEFINE t == Through(l, seq, head)
           b == Bottom(l, seq, head)
           gaps == Gaps(l, seq, head)
           missing == MissingSeqs(l, seq, head, own)
           kept == KeptSeqs(l, gaps, own)
           losses == VerifiedLosses(l, gaps, own)
<1>5. /\ t \in 0 .. seq /\ b \in 1 .. seq + 1
      /\ gaps = (1 .. seq) \ ((1 .. t) \cup (b .. seq)) /\ missing = gaps \ kept
      /\ \A j \in losses : j \in DOMAIN l /\ l[j].link.from > 0 /\ (j \in own \/ j \notin gaps)
  BY <1>1, <1>2, <1>3, <1>4
<1> HIDE DEF t, b, gaps, missing, kept, losses
<1>6. missing \subseteq 1 .. seq /\ missing \subseteq Nat /\ \A s \in missing : s > t /\ s < b
  BY <1>5
<1>7. \A s \in (1 .. seq) \ missing : s <= t \/ s \in b .. seq \/ s \in kept
  BY <1>5
<1>8. \A j \in losses : /\ j \in DOMAIN l /\ l[j].link.from > 0
                        /\ j \in own \/ j \notin 1 .. seq \/ j <= t \/ j \in b .. seq
  BY <1>5
<1>9. QED BY <1>6, <1>7, <1>8 DEF t, b, gaps, missing, kept, losses

(* An open range of what is missing is reported open.                      *)
LEMMA OpenRangeIs ==
  ASSUME NEW l, NEW seq \in Nat, NEW head, NEW own,
         NEW r \in Ranges(MissingSeqs(l, seq, head, own)),
         ~Covers(l, VerifiedLosses(l, Gaps(l, seq, head), own), r)
  PROVE  r \subseteq OpenRanges(l, seq, head, own)
BY DEF OpenRanges

(* What a copy proves that welds to the key's head and has no open gap.    *)
SaysSo(l, seq, missing) ==
  /\ \A s \in missing : \E j \in s + 1 .. TopSeq : s \in chain[j].from .. chain[j].to
  /\ \A s \in (1 .. seq) \ missing :
       ~edited \/ s > Max(missing \cup {0}) => s \in DOMAIN l /\ l[s].link = chain[s]

(* An open range would be reported: there is none, and no weld failed.     *)
LEMMA VerifiedProves ==
  ASSUME KeyShape, NEW l, Copied(l), NEW seq \in 0 .. TopSeq, DOMAIN l \subseteq 1 .. seq,
         NEW head, seq = 0 \/ head = TrueHead(seq),
         NEW own, \A s \in own : s \in DOMAIN l /\ l[s].link = chain[s],
         OpenRanges(l, seq, head, own) = {},
         NEW seen, NEW from, ~ChainFailed(l, seen, seq, head, from),
         NEW missing, missing = MissingSeqs(l, seq, head, own), ~edited => Honest(l)
  PROVE  SaysSo(l, seq, missing)
<1> DEFINE t == Through(l, seq, head)
           b == Bottom(l, seq, head)
           gaps == Gaps(l, seq, head)
           kept == KeptSeqs(l, gaps, own)
           losses == VerifiedLosses(l, gaps, own)
<1>1. TopSeq \in Nat /\ seq \in Nat /\ IsHead(chain)
  BY KeyIs DEF KeyShape
<1>2. /\ missing \subseteq 1 .. seq /\ missing \subseteq Nat
      /\ \A s \in missing : s > t /\ s < b
      /\ \A s \in (1 .. seq) \ missing : s <= t \/ s \in b .. seq \/ s \in kept
      /\ \A j \in losses : /\ j \in DOMAIN l /\ l[j].link.from > 0
                           /\ j \in own \/ j \notin 1 .. seq \/ j <= t \/ j \in b .. seq
  BY <1>1, MissingIs
<1>3. /\ t \in 0 .. seq
      /\ \A i \in 1 .. t : i \in DOMAIN l /\ ForwardOk(l, seq, head, i)
      /\ t < seq => ~(t + 1 \in DOMAIN l /\ ForwardOk(l, seq, head, t + 1))
  BY <1>1, ThroughIs
<1>4. b \in 1 .. seq + 1 /\ \A i \in b .. seq : BackOk(l, seq, head, i)
  BY <1>1, BottomIs
<1>5. \A i \in b .. seq : i \in DOMAIN l /\ l[i].link = chain[i]
  <2>1. CASE seq = 0
    BY <2>1, <1>4
  <2>2. CASE head = TrueHead(seq)
    <3>1. \A s \in DOMAIN l : IsHead(l[s].head)
      BY DEF Copied
    <3>2. QED BY <1>1, <2>2, <3>1, DownIsTheKeys
  <2>3. QED BY <2>1, <2>2
<1>6. t < seq => t + 1 \in missing
  <2>1. SUFFICES ASSUME t < seq, t + 1 \notin missing PROVE FALSE
    OBVIOUS
  <2>2. t + 1 \in (1 .. seq) \ missing /\ ~(t + 1 <= t)
    BY <2>1, <1>1, <1>3
  <2>3. t + 1 \notin DOMAIN l
    <3>1. SUFFICES ASSUME t + 1 \in DOMAIN l PROVE FALSE
      OBVIOUS
    <3>2. ~ForwardOk(l, seq, head, t + 1)
      BY <2>1, <3>1, <1>3
    <3>3. ChainFailed(l, seen, seq, head, from)
      <4>1. t + 1 <= seq
        BY <2>2
      <4>2. LET s == Through(l, seq, head) + 1 IN s <= seq /\ s \in DOMAIN l /\ ~ForwardOk(l, seq, head, s)
        BY <4>1, <3>1, <3>2
      <4>3. QED BY <4>2, Zenon DEF ChainFailed
    <3>4. QED BY <3>3
  <2>4. t + 1 \notin b .. seq
    BY <2>3, <1>5, Zenon
  <2>5. t + 1 \notin kept
    BY <2>3 DEF KeptSeqs, kept
  <2>6. QED BY <2>2, <2>4, <2>5, <1>2, Zenon
<1>7. ASSUME NEW s \in kept
      PROVE  s \in DOMAIN l /\ l[s].link = chain[s]
  <2>1. CASE s \in own
    BY <2>1
  <2>2. ASSUME s \in DOMAIN l, NEW j \in losses, l[j].link.to + 1 = s, l[j].link.next = <<l[s].link>>
        PROVE  s \in DOMAIN l /\ l[s].link = chain[s]
    <3>1. j \in DOMAIN l /\ j \in 1 .. TopSeq
      BY <1>2, <2>2, <1>1
    <3>2. l[j].link.next # <<>>
      BY <2>2
    <3>3. l[j].link = chain[j]
      BY <3>1, <3>2 DEF Copied
    <3>4. LinkShape(j)
      BY <3>1 DEF KeyShape
    <3>5. chain[j].next = <<chain[chain[j].to + 1]>>
      BY <3>4, <3>3, <2>2 DEF LinkShape
    <3>6. <<l[s].link>> = <<chain[s]>>
      BY <3>5, <3>3, <2>2
    <3>7. QED BY <3>6, <2>2
  <2>3. QED BY <1>7, <2>1, <2>2 DEF kept, KeptSeqs
<1>8. ASSUME NEW s \in missing
      PROVE  \E j \in s + 1 .. TopSeq : s \in chain[j].from .. chain[j].to
  <2>1. PICK g \in Ranges(missing) : s \in g
    BY <1>1, <1>2, RangeOf
  <2>2. PICK m : m = Max(g)
    OBVIOUS
  <2>3. m \in missing /\ s <= m
    <3>1. \E x, y \in missing : g = x .. y /\ Max(g) = y
      BY <1>2, RangeIs DEF HasEnds
    <3>2. QED BY <3>1, <2>1, <2>2, <1>2
  <2>4. Covers(l, losses, g)
    <3>1. SUFFICES ASSUME ~Covers(l, losses, g) PROVE FALSE
      OBVIOUS
    <3>2. g \subseteq OpenRanges(l, seq, head, own)
      BY <2>1, <3>1, <1>1, OpenRangeIs
    <3>3. QED BY <3>2, <2>1
  <2>5. PICK j \in losses : j > m /\ s \in l[j].link.from .. l[j].link.to
    BY <2>1, <2>2, <2>4 DEF Covers
  <2>6. j \in DOMAIN l /\ j \in 1 .. seq
    BY <2>5, <1>2
  <2>7. m > t /\ m < b
    BY <2>3, <1>2
  <2>8. l[j].link = chain[j]
    <3>1. CASE j \in own
      BY <3>1
    <3>2. CASE j \in b .. seq
      BY <3>2, <1>5
    <3>3. ~(j <= t)
      BY <2>5, <2>6, <2>7, <2>3, <1>2, <1>3, <1>1
    <3>4. QED BY <3>1, <3>2, <3>3, <2>6, <1>2
  <2>9. j \in s + 1 .. TopSeq
    BY <2>3, <2>5, <2>6, <1>1, <1>2
  <2>10. QED BY <2>5, <2>8, <2>9
<1>9. ASSUME NEW s \in (1 .. seq) \ missing, ~edited \/ s > Max(missing \cup {0})
      PROVE  s \in DOMAIN l /\ l[s].link = chain[s]
  <2>1. CASE s \in b .. seq
    BY <2>1, <1>5
  <2>2. CASE s \in kept
    BY <2>2, <1>7
  <2>3. CASE s <= t
    <3>1. s \in 1 .. t
      BY <2>3, <1>1
    <3>2. s \in DOMAIN l
      BY <3>1, <1>3
    <3>3. CASE ~edited
      BY <3>2, <3>3 DEF Honest
    <3>4. CASE s > Max(missing \cup {0})
      <4>1. t = seq
        <5>1. SUFFICES ASSUME t < seq PROVE FALSE
          BY <1>3, <1>1
        <5>2. missing \cup {0} \subseteq Int /\ missing \cup {0} # {} /\ (\A x \in missing \cup {0} : x <= seq) /\ seq \in Int
          BY <1>1, <1>2
        <5>3. \A y \in missing \cup {0} : y <= Max(missing \cup {0})
          BY <5>2, LastIs, Zenon
        <5>4. t + 1 <= Max(missing \cup {0}) /\ Max(missing \cup {0}) \in Int
          <6>1. Max(missing \cup {0}) \in missing \cup {0}
            BY <5>2, LastIs, Zenon
          <6>2. QED BY <5>1, <5>2, <5>3, <6>1, <1>6
        <5>5. QED BY <5>4, <3>4, <3>1, <1>3, <1>1
      <4>2. seq \in 1 .. TopSeq /\ head = TrueHead(seq)
        BY <4>1, <3>1, <1>1
      <4>3. ForwardOk(l, seq, head, seq)
        BY <4>1, <4>2, <1>3
      <4>4. head \in {NoHead, [i \in 1 .. seq |-> l[i].link]}
        BY <4>3 DEF ForwardOk
      <4>5. TrueHead(seq) # NoHead /\ TrueHead(seq) = [i \in 1 .. seq |-> chain[i]]
        BY KeyIs
      <4>6. [i \in 1 .. seq |-> chain[i]] = [i \in 1 .. seq |-> l[i].link]
        BY <4>2, <4>4, <4>5
      <4>7. [i \in 1 .. seq |-> chain[i]][s] = chain[s] /\ [i \in 1 .. seq |-> l[i].link][s] = l[s].link
        OBVIOUS
      <4>8. QED BY <4>6, <4>7, <3>2
    <3>5. QED BY <1>9, <3>3, <3>4
  <2>4. QED BY <2>1, <2>2, <2>3, <1>2
<1>10. QED BY <1>8, <1>9 DEF SaysSo

(* No LOSS an honest copy holds has an uncovered range within it: a LOSS   *)
(* that does not count is older than what the ring gave, and then the link *)
(* after the range is kept by a later LOSS within it.                      *)
LEMMA NoneHolds ==
  ASSUME KeyShape, NEW l, Honest(l), NEW seq \in 0 .. TopSeq, DOMAIN l \subseteq 1 .. seq,
         NEW head, NEW oldest \in Nat,
         NEW own, own = {s \in DOMAIN l : s \in oldest .. seq /\ l[s].link = chain[s]},
         NEW missing, missing = MissingSeqs(l, seq, head, own), NEW r \in Ranges(missing),
         ~Covers(l, VerifiedLosses(l, Gaps(l, seq, head), own), r),
         NEW j \in DOMAIN l, Lost(j), j > Max(r), chain[j].from <= Min(r), Max(r) <= chain[j].to,
         \A i \in DOMAIN l : \A k \in 1 .. TopSeq :
           ~(Lost(i) /\ Lost(k) /\ i < k /\ chain[i].from < chain[k].from /\ chain[k].to <= chain[i].to)
  PROVE  FALSE
<1> DEFINE t == Through(l, seq, head)
           b == Bottom(l, seq, head)
           gaps == Gaps(l, seq, head)
           kept == KeptSeqs(l, gaps, own)
           losses == VerifiedLosses(l, gaps, own)
<1>1. TopSeq \in Nat /\ seq \in Nat
  BY KeyIs
<1>2. /\ missing \subseteq 1 .. seq /\ missing \subseteq Nat
      /\ \A s \in missing : s > t /\ s < b
      /\ \A s \in (1 .. seq) \ missing : s <= t \/ s \in b .. seq \/ s \in kept
      /\ \A i \in losses : /\ i \in DOMAIN l /\ l[i].link.from > 0
                           /\ i \in own \/ i \notin 1 .. seq \/ i <= t \/ i \in b .. seq
  BY <1>1, MissingIs
<1>3. t \in 0 .. seq /\ b \in 1 .. seq + 1
  BY <1>1, ThroughIs, BottomIs
<1>4. \A i \in DOMAIN l : i \in 1 .. seq /\ i \in 1 .. TopSeq /\ l[i].link = chain[i]
  BY <1>1 DEF Honest
<1>5. \A i \in 1 .. TopSeq : /\ chain[i].from \in Nat /\ chain[i].to \in Nat
                             /\ chain[i].from > 0 => chain[i].from <= chain[i].to /\ chain[i].to < i
  BY DEF KeyShape, LinkShape
<1>6. PICK x \in missing, y \in missing : /\ r = x .. y /\ x <= y /\ x - 1 \notin missing /\ y + 1 \notin missing
                                          /\ Min(r) = x /\ Max(r) = y
  <2>1. missing \subseteq Nat
    BY <1>2
  <2>2. HasEnds(missing, r)
    BY <2>1, RangeIs, Zenon
  <2>3. QED BY <2>2 DEF HasEnds
<1>7. x \in Nat /\ y \in Nat /\ 1 <= x /\ x > t /\ y > t /\ y < b
  BY <1>2, <1>6
<1>8. \A i \in DOMAIN l : l[i].link.from > 0 /\ (i \in own \/ i \notin gaps) => i \in losses
  BY DEF VerifiedLosses, Losses
<1>9. \A i \in losses : ~(i > y /\ l[i].link.from <= x /\ y <= l[i].link.to)
  <2>1. SUFFICES ASSUME NEW i \in losses, i > y, l[i].link.from <= x, y <= l[i].link.to PROVE FALSE
    OBVIOUS
  <2>2. i \in 1 .. TopSeq /\ l[i].link = chain[i]
    BY <1>2, <1>4
  <2>3. l[i].link.from \in Nat /\ l[i].link.to \in Nat
    BY <2>2, <1>5
  <2>4. \A s \in r : i > Max(r) /\ s \in l[i].link.from .. l[i].link.to
    BY <2>1, <2>3, <1>6, <1>7
  <2>5. QED BY <2>4 DEF Covers
<1>10. j \in 1 .. seq /\ j \in 1 .. TopSeq /\ j > y /\ chain[j].from > 0 /\ chain[j].from <= x /\ y <= chain[j].to /\ chain[j].to < j
  BY <1>4, <1>5, <1>6 DEF Lost
<1>11. j \notin own /\ j \in gaps
  BY <1>4, <1>8, <1>9, <1>10
<1>12. j < oldest
  BY <1>4, <1>10, <1>11
<1>13. j > t /\ j < b
  <2>1. gaps = (1 .. seq) \ ((1 .. t) \cup (b .. seq))
    BY DEF Gaps, Verified
  <2>2. QED BY <2>1, <1>11, <1>3, <1>1
<1>14. PICK s : s = y + 1
  OBVIOUS
<1>15. s \in (1 .. seq) \ missing /\ ~(s <= t) /\ s <= j /\ s \notin b .. seq
  BY <1>14, <1>6, <1>7, <1>10, <1>13, <1>3, <1>1
<1>16. s \in kept
  BY <1>15, <1>2
<1>17. s \notin own
  BY <1>15, <1>12, <1>10
<1>18. PICK k \in losses : l[k].link.to + 1 = s
  BY <1>16, <1>17 DEF KeptSeqs, kept, losses
<1>19. k \in DOMAIN l /\ k \in 1 .. seq /\ k \in 1 .. TopSeq /\ l[k].link = chain[k] /\ chain[k].from > 0
  BY <1>2, <1>4
<1>20. chain[k].to = y /\ chain[k].from \in Nat /\ y < k
  BY <1>5, <1>14, <1>18, <1>19, <1>7
<1>21. chain[k].from > x
  BY <1>9, <1>19, <1>20, <1>7
<1>22. j < k
  <2>1. CASE k \in own
    BY <2>1, <1>12, <1>10, <1>19
  <2>2. CASE k \in b .. seq
    BY <2>2, <1>13, <1>3, <1>19, <1>10
  <2>3. ~(k <= t)
    BY <1>20, <1>7, <1>3, <1>19
  <2>4. QED BY <2>1, <2>2, <2>3, <1>19, <1>2
<1>23. Lost(k) /\ chain[j].from < chain[k].from /\ chain[k].to <= chain[j].to
  <2>1. chain[j].from \in Nat /\ chain[j].to \in Nat
    BY <1>5, <1>10
  <2>2. QED BY <2>1, <1>10, <1>19, <1>20, <1>21, <1>7 DEF Lost
<1>24. QED BY <1>19, <1>22, <1>23

-----------------------------------------------------------------------------
(* What reading links makes of the heads known and of the copy.            *)
LEMMA TrackedIs ==
  ASSUME KeyShape, NEW known, DOMAIN known \subseteq 1 .. TopSeq,
         NEW a \in Nat, 1 <= a, NEW b \in 0 .. TopSeq
  PROVE  /\ DOMAIN known \subseteq DOMAIN Tracked(known, a, b)
         /\ DOMAIN Tracked(known, a, b) \subseteq 1 .. TopSeq
         /\ (\A s \in DOMAIN known : IsHead(known[s])) =>
              \A s \in DOMAIN Tracked(known, a, b) : IsHead(Tracked(known, a, b)[s])
         /\ (\A s \in DOMAIN known : known[s] = TrueHead(s)) =>
              \A s \in DOMAIN Tracked(known, a, b) : Tracked(known, a, b)[s] = TrueHead(s)
         /\ a <= b /\ (a = 1 \/ a - 1 \in DOMAIN known) => a .. b \subseteq DOMAIN Tracked(known, a, b)
<1> DEFINE starts == {s \in a .. b : s = 1 \/ s - 1 \in DOMAIN known}
           R == starts \cup {b + 1}
           k == Min(R)
           base == IF k = 1 THEN <<>> ELSE known[k - 1]
           tr == Tracked(known, a, b)
<1>1. TopSeq \in Nat /\ IsHead(chain)
  BY KeyIs DEF KeyShape
<1>2. R \subseteq Int /\ R # {} /\ (\A x \in R : 1 <= x) /\ 1 \in Int
  <2>1. b + 1 \in R
    OBVIOUS
  <2>2. starts \subseteq a .. b
    OBVIOUS
  <2> HIDE DEF starts
  <2>3. \A x \in R : x \in Int /\ 1 <= x
    BY <2>2, <1>1
  <2> HIDE DEF R
  <2>4. QED BY <2>1, <2>3
<1>3. k \in R /\ \A y \in R : k <= y
  BY <1>2, FirstIs, Zenon
<1>4. tr = [s \in DOMAIN known \cup (k .. b) |->
              IF s \in k .. b THEN base \o SubSeq(chain, k, s) ELSE known[s]]
  BY Zenon DEF Tracked
<1>5. k \in 1 .. b + 1 /\ (k <= b => k = 1 \/ k - 1 \in DOMAIN known)
  <2>1. starts \subseteq a .. b /\ \A s \in starts : s = 1 \/ s - 1 \in DOMAIN known
    OBVIOUS
  <2>2. k = b + 1 \/ k \in starts
    BY <1>3
  <2>3. k \in starts => k \in a .. b /\ (k = 1 \/ k - 1 \in DOMAIN known)
    BY <2>1, Zenon
  <2> HIDE DEF starts, R, k
  <2>4. CASE k = b + 1
    BY <2>4, <1>1
  <2>5. CASE k \in a .. b /\ (k = 1 \/ k - 1 \in DOMAIN known)
    BY <2>5, <1>1
  <2>6. QED BY <2>2, <2>3, <2>4, <2>5
<1>6. a <= b /\ (a = 1 \/ a - 1 \in DOMAIN known) => k <= a
  <2>1. a <= b /\ (a = 1 \/ a - 1 \in DOMAIN known) => a \in starts
    OBVIOUS
  <2>2. QED BY <2>1, <1>3
<1> HIDE DEF starts, R, k
<1>7. \A s \in k .. b : s \in k .. TopSeq /\ s \in 1 .. TopSeq /\ k \in 1 .. TopSeq + 1
  BY <1>5, <1>1
<1>8. DOMAIN tr = DOMAIN known \cup (k .. b)
  BY <1>4
<1>9. ASSUME NEW s \in k .. b
      PROVE  /\ IsHead(SubSeq(chain, k, s)) /\ tr[s] = base \o SubSeq(chain, k, s)
             /\ TrueHead(k - 1) \o SubSeq(chain, k, s) = TrueHead(s)
             /\ k <= b
  <2>1. k \in 1 .. Len(chain) + 1 /\ s \in k .. Len(chain)
    BY <1>7 DEF TopSeq
  <2>2. /\ IsHead(SubSeq(chain, k, s))
        /\ SubSeq(chain, 1, k - 1) \o SubSeq(chain, k, s) = SubSeq(chain, 1, s)
    BY <2>1, <1>1, PrefixJoins
  <2>3. tr[s] = base \o SubSeq(chain, k, s)
    BY <1>4
  <2>4. k <= b
    BY <1>5, <1>1
  <2>5. QED BY <2>2, <2>3, <2>4 DEF TrueHead
<1>10. ASSUME NEW s \in DOMAIN tr, s \notin k .. b
       PROVE  s \in DOMAIN known /\ tr[s] = known[s]
  BY <1>10, <1>4, <1>8
<1>11. ASSUME \A s \in DOMAIN known : IsHead(known[s]), NEW s \in DOMAIN tr
       PROVE  IsHead(tr[s])
  <2>1. CASE s \in k .. b
    <3>1. IsHead(base)
      BY <2>1, <1>5, <1>9, <1>11, EmptyIs
    <3>2. QED BY <2>1, <3>1, <1>9, JoinIs
  <2>2. CASE s \notin k .. b
    BY <2>2, <1>10, <1>11
  <2>3. QED BY <2>1, <2>2
<1>12. ASSUME \A s \in DOMAIN known : known[s] = TrueHead(s), NEW s \in DOMAIN tr
       PROVE  tr[s] = TrueHead(s)
  <2>1. CASE s \in k .. b
    <3>1. base = TrueHead(k - 1)
      <4>1. CASE k = 1
        BY <4>1, SubSeqEmpty DEF TrueHead
      <4>2. CASE k # 1
        BY <4>2, <2>1, <1>5, <1>9, <1>12
      <4>3. QED BY <4>1, <4>2
    <3>2. QED BY <2>1, <3>1, <1>9
  <2>2. CASE s \notin k .. b
    BY <2>2, <1>10, <1>12
  <2>3. QED BY <2>1, <2>2
<1>13. DOMAIN known \subseteq DOMAIN tr /\ DOMAIN tr \subseteq 1 .. TopSeq
  BY <1>7, <1>8
<1>14. a <= b /\ (a = 1 \/ a - 1 \in DOMAIN known) => a .. b \subseteq DOMAIN tr
  <2>1. k <= a => a .. b \subseteq k .. b
    BY <1>5, <1>1
  <2>2. QED BY <2>1, <1>6, <1>8
<1> HIDE DEF tr
<1>15. QED BY <1>11, <1>12, <1>13, <1>14 DEF tr

(* What pickup() hands over: the key's links, under the heads it can tell. *)
LEMMA PickedIs ==
  ASSUME NEW known, NEW a
  PROVE  /\ DOMAIN Picked(known, a) = a .. job.seq
         /\ \A s \in a .. job.seq : /\ Picked(known, a)[s].link = chain[s]
                                    /\ reveals => Picked(known, a)[s].head = TrueHead(s)
                                    /\ ~reveals => Picked(known, a)[s].head = HeadOf(known, s)
BY DEF Picked

(* The links taken: as many as follow.                                     *)
Welds(x, y) == x.head # NoHead /\ y.head # NoHead /\ Weld(x.head, y.link) = y.head

TookAll(links, got, a, n, p, take) ==
  /\ take \subseteq a .. n
  /\ \A s \in take : \A i \in a .. s : i \in take
  /\ \A s \in take : s > a => Welds(got[s - 1], got[s])
  /\ a \in take /\ p > 0 /\ p + 1 = a => Welds(links[p], got[a])
  /\ /\ \A s \in a + 1 .. n : Welds(got[s - 1], got[s])
     /\ p > 0 /\ p + 1 = a => Welds(links[p], got[a])
     => take = a .. n

(* follows() takes links from the first on, each welded onto the last.     *)
LEMMA TakenIs ==
  ASSUME NEW links, NEW got, NEW a \in Nat, NEW n \in Nat, DOMAIN got = a .. n, 1 <= a, a <= n,
         NEW p \in Nat, p = LastSeq(links), p < a, NEW take, take = Taken(links, got)
  PROVE  TookAll(links, got, a, n, p, take)
<1> DEFINE prev(s) == IF s = a THEN p ELSE s - 1
           fine(s) == LET q == prev(s)
                      IN  Follows(IF q = 0 THEN got[s] ELSE LinkBefore(links, got, q), q, got[s], s)
           T == {s \in DOMAIN got : \A i \in a .. s : fine(i)}
<1>1. Min(DOMAIN got) = a
  <2>1. DOMAIN got \subseteq Int /\ DOMAIN got # {} /\ (\A x \in DOMAIN got : a <= x) /\ a \in Int /\ a \in DOMAIN got
    <3>1. a \in DOMAIN got /\ a \in Int
      OBVIOUS
    <3>2. \A x \in DOMAIN got : x \in Int /\ a <= x
      OBVIOUS
    <3>3. QED BY <3>1, <3>2, Zenon
  <2>2. Min(DOMAIN got) \in DOMAIN got /\ \A y \in DOMAIN got : Min(DOMAIN got) <= y
    BY <2>1, FirstIs, Zenon
  <2>3. QED BY <2>1, <2>2
<1>2. Taken(links, got) = T
  BY <1>1, Zenon DEF Taken
<1>3. ASSUME NEW s \in a + 1 .. n
      PROVE  fine(s) <=> Welds(got[s - 1], got[s])
  <2>1. s # a /\ s - 1 # 0 /\ s - 1 \in DOMAIN got /\ s - 1 + 1 = s /\ s - 1 > 0
    BY <1>3
  <2>2. prev(s) = s - 1 /\ LinkBefore(links, got, s - 1) = got[s - 1]
    BY <2>1 DEF LinkBefore
  <2>3. fine(s) <=> Follows(got[s - 1], s - 1, got[s], s)
    BY <2>1, <2>2
  <2>4. QED BY <2>1, <2>3 DEF Follows, Welds
<1>4. fine(a) <=> (p > 0 /\ p + 1 = a => Welds(links[p], got[a]))
  <2>1. prev(a) = p
    OBVIOUS
  <2>2. CASE p = 0
    BY <2>1, <2>2 DEF Follows
  <2>3. CASE p # 0
    <3>1. p \notin DOMAIN got /\ p > 0
      BY <2>3
    <3>2. LinkBefore(links, got, p) = links[p]
      BY <3>1 DEF LinkBefore
    <3>3. QED BY <2>1, <2>3, <3>1, <3>2 DEF Follows, Welds
  <2>4. QED BY <2>2, <2>3
<1> HIDE DEF fine
<1>5. T \subseteq a .. n
  OBVIOUS
<1>6. \A s \in T : \A i \in a .. s : i \in T
  <2>1. SUFFICES ASSUME NEW s \in T, NEW i \in a .. s PROVE i \in T
    OBVIOUS
  <2>2. i \in DOMAIN got /\ \A x \in a .. i : x \in a .. s
    BY <2>1, <1>5
  <2>3. QED BY <2>1, <2>2
<1>7. \A s \in T : fine(s) /\ fine(a)
  BY <1>5
<1>8. \A s \in T : s > a => Welds(got[s - 1], got[s])
  BY <1>3, <1>5, <1>7
<1>9. a \in T /\ p > 0 /\ p + 1 = a => Welds(links[p], got[a])
  BY <1>4, <1>7
<1>10. ASSUME \A s \in a + 1 .. n : Welds(got[s - 1], got[s]), p > 0 /\ p + 1 = a => Welds(links[p], got[a])
       PROVE  T = a .. n
  <2>1. \A s \in a .. n : s = a \/ s \in a + 1 .. n
    OBVIOUS
  <2>2. \A s \in a .. n : fine(s)
    BY <2>1, <1>3, <1>4, <1>10, Zenon
  <2>3. \A s \in a .. n : \A i \in a .. s : i \in a .. n
    OBVIOUS
  <2>4. QED BY <2>2, <2>3
<1> HIDE DEF T
<1>11. QED BY <1>2, <1>5, <1>6, <1>8, <1>9, <1>10 DEF TookAll

-----------------------------------------------------------------------------
(* The key's steps.                                                        *)

(* What the key wrote stays, and the ring only moves on.                   *)
KeyKeeps ==
  /\ TopSeq' \in Nat /\ TopSeq <= TopSeq' /\ ring' \in Nat /\ ring <= ring' /\ reveals' = reveals
  /\ \A i \in 1 .. TopSeq : chain'[i] = chain[i]
  /\ \A s \in 0 .. TopSeq : TrueHead(s)' = TrueHead(s)

(* A step that leaves the key alone.                                       *)
LEMMA SameKeyKeeps ==
  ASSUME KeyShape, UNCHANGED chainVars
  PROVE  KeyShape' /\ KeyKeeps
<1>1. chain' = chain /\ ring' = ring /\ reveals' = reveals
  BY DEF chainVars
<1>2. TopSeq' = TopSeq /\ \A s : TrueHead(s)' = TrueHead(s)
  BY <1>1 DEF TopSeq, TrueHead
<1>3. TopSeq \in Nat /\ ring \in Nat
  BY KeyIs
<1>4. KeyKeeps
  BY <1>1, <1>2, <1>3 DEF KeyKeeps
<1>5. KeyShape'
  BY <1>1, <1>2 DEF KeyShape, LinkShape
<1>6. QED BY <1>4, <1>5

(* A restart of the key moves its ring on.                                 *)
LEMMA RingMovesOn ==
  ASSUME KeyShape, KeyRestarts
  PROVE  KeyShape' /\ KeyKeeps
<1>1. chain' = chain /\ reveals' = reveals /\ ring' = Max({ring, TopSeq})
  BY DEF KeyRestarts
<1>2. TopSeq' = TopSeq /\ \A s : TrueHead(s)' = TrueHead(s)
  BY <1>1 DEF TopSeq, TrueHead
<1>3. TopSeq \in Nat /\ ring \in Nat
  BY KeyIs
<1>4. Max({ring, TopSeq}) \in {ring, TopSeq} /\ ring <= Max({ring, TopSeq})
  BY <1>3, LargerIs
<1>5. KeyKeeps
  BY <1>1, <1>2, <1>3, <1>4 DEF KeyKeeps
<1>6. /\ ring' \in 1 .. TopSeq + 1 /\ (TopSeq > 0 => ring' <= TopSeq)
  <2>1. ring \in 1 .. TopSeq + 1 /\ (TopSeq > 0 => ring <= TopSeq)
    BY DEF KeyShape
  <2>2. QED BY <2>1, <1>1, <1>3, <1>4
<1>7. \A i \in 1 .. TopSeq : LinkShape(i)'
  BY <1>1 DEF KeyShape, LinkShape
<1>8. KeyShape'
  BY <1>1, <1>2, <1>6, <1>7 DEF KeyShape
<1>9. QED BY <1>5, <1>8

(* The key writes a link that is its own: a use, or a LOSS of before it.   *)
LEMMA GrownKeeps ==
  ASSUME KeyShape, NEW x, Grown(x),
         x.by = "key", x.from \in Nat, x.to \in Nat, x.from = 0 => x.to = 0,
         x.from > 0 => x.from <= x.to /\ x.to <= TopSeq,
         x.next = <<>> \/ (x.to + 1 <= TopSeq /\ x.next = <<chain[x.to + 1]>>)
  PROVE  /\ KeyShape' /\ KeyKeeps
         /\ TopSeq' = TopSeq + 1 /\ chain'[TopSeq + 1] = x /\ SubSeq(chain', 1, TopSeq + 1) = chain'
<1>1. /\ chain' = Append(chain, x) /\ reveals' = reveals /\ TopSeq < MaxLinks
      /\ ring' = Max({ring, TopSeq + 2 - RingSize})
  BY DEF Grown
<1>2. TopSeq \in Nat /\ ring \in Nat /\ IsHead(chain) /\ RingSize \in Nat \ {0} /\ MaxLinks \in Nat
  BY KeyIs, EdgeAssumption DEF KeyShape
<1>3. PICK d : d = Append(chain, x)
  OBVIOUS
<1>4. /\ IsHead(d) /\ Len(d) = TopSeq + 1 /\ d[TopSeq + 1] = x
      /\ \A i \in 1 .. TopSeq : d[i] = chain[i]
      /\ \A s \in 0 .. TopSeq : SubSeq(d, 1, s) = SubSeq(chain, 1, s)
      /\ SubSeq(d, 1, TopSeq + 1) = d
  <2>1. Grew(chain, d, x)
    BY <1>2, <1>3, ChainGrows, Zenon
  <2>2. QED BY <2>1 DEF Grew, TopSeq
<1>5. chain' = d
  BY <1>1, <1>3
<1>6. /\ TopSeq' = TopSeq + 1 /\ chain'[TopSeq + 1] = x
      /\ \A i \in 1 .. TopSeq : chain'[i] = chain[i]
      /\ SubSeq(chain', 1, TopSeq + 1) = chain'
  BY <1>4, <1>5 DEF TopSeq
<1>7. \A s \in 0 .. TopSeq : TrueHead(s)' = TrueHead(s)
  BY <1>4, <1>5 DEF TrueHead
<1>8. /\ ring' \in 1 .. TopSeq + 2 /\ ring' <= TopSeq + 1 /\ ring <= ring'
  <2>1. ring \in 1 .. TopSeq + 1 /\ TopSeq + 2 - RingSize \in Int /\ TopSeq + 2 - RingSize <= TopSeq + 1
    BY <1>2 DEF KeyShape
  <2>2. PICK e \in Int : e = TopSeq + 2 - RingSize
    BY <2>1
  <2>3. ring' = Max({ring, e}) /\ ring \in Int
    BY <1>1, <1>2, <2>2
  <2>4. ring' \in {ring, e} /\ ring <= ring'
    BY <2>3, LargerIs
  <2>5. QED BY <2>1, <2>2, <2>4, <1>2
<1>9. ASSUME NEW i \in 1 .. TopSeq' PROVE LinkShape(i)'
  <2>1. CASE i \in 1 .. TopSeq
    <3>1. LinkShape(i) /\ chain'[i] = chain[i]
      BY <2>1, <1>6 DEF KeyShape
    <3>2. chain[i].to + 1 < i => chain'[chain[i].to + 1] = chain[chain[i].to + 1]
      BY <3>1, <2>1, <1>6, <1>2 DEF LinkShape
    <3>3. QED BY <3>1, <3>2 DEF LinkShape
  <2>2. CASE i = TopSeq + 1
    <3>1. chain'[i] = x
      BY <2>2, <1>6
    <3>2. x.to + 1 <= TopSeq => chain'[x.to + 1] = chain[x.to + 1] /\ x.to + 1 < i
      BY <2>2, <1>6, <1>2
    <3>3. x.from > 0 => x.to < i
      BY <2>2, <1>2
    <3>4. QED BY <3>1, <3>2, <3>3 DEF LinkShape
  <2>3. QED BY <2>1, <2>2, <1>2, <1>6
<1>10. KeyShape'
  <2>1. IsHead(chain')
    BY <1>4, <1>5
  <2>2. TopSeq' <= MaxLinks /\ ring' \in 1 .. TopSeq' + 1 /\ ring' <= TopSeq' /\ reveals' \in BOOLEAN
    BY <1>1, <1>2, <1>6, <1>8 DEF KeyShape
  <2>3. QED BY <2>1, <2>2, <1>9 DEF KeyShape
<1>11. KeyKeeps
  BY <1>1, <1>2, <1>6, <1>7, <1>8 DEF KeyKeeps
<1>12. QED BY <1>6, <1>10, <1>11

-----------------------------------------------------------------------------
(* What stays true while the key goes on.                                  *)
LEMMA CopiedKept ==
  ASSUME KeyShape, KeyKeeps, NEW l, Copied(l)
  PROVE  Copied(l)'
<1>1. TopSeq \in Nat
  BY KeyIs
<1>2. DOMAIN l \subseteq 1 .. TopSeq /\ \A s \in DOMAIN l : chain'[s] = chain[s]
  BY DEF Copied, KeyKeeps
<1>3. DOMAIN l \subseteq 1 .. TopSeq'
  <2>1. TopSeq <= TopSeq' /\ TopSeq' \in Nat
    BY DEF KeyKeeps
  <2>2. \A s \in 1 .. TopSeq : s \in 1 .. TopSeq'
    BY <1>1, <2>1
  <2>3. QED BY <1>2, <2>2
<1>4. QED BY <1>2, <1>3 DEF Copied

(* The key's links and heads of a copy are still the key's.                *)
LEMMA HonestKept ==
  ASSUME KeyShape, KeyKeeps, NEW l, DOMAIN l \subseteq 1 .. TopSeq, Honest(l)
  PROVE  Honest(l)'
<1>1. TopSeq \in Nat
  BY KeyIs
<1>2. \A s \in DOMAIN l : chain'[s] = chain[s] /\ TrueHead(s)' = TrueHead(s)
  <2>1. \A s \in DOMAIN l : s \in 1 .. TopSeq /\ s \in 0 .. TopSeq
    BY <1>1
  <2>2. QED BY <2>1 DEF KeyKeeps
<1>3. QED BY <1>2 DEF Honest

(* A copy that nobody touches.                                             *)
LEMMA CopyKept ==
  ASSUME KeyShape, KeyKeeps, CopyShape, copy' = copy,
         DOMAIN heads' \subseteq 1 .. TopSeq', \A s \in DOMAIN heads' : IsHead(heads'[s])
  PROVE  CopyShape'
<1>1. TopSeq \in Nat /\ TopSeq' \in Nat /\ TopSeq <= TopSeq'
  BY KeyIs DEF KeyKeeps
<1>2. PICK l : l = copy.links
  OBVIOUS
<1>3. Copied(l)'
  BY <1>2, CopiedKept DEF CopyShape
<1>4. Copied(copy.links)'
  BY <1>2, <1>3
<1>5. copy'.seen.seq \in 0 .. TopSeq'
  <2>1. copy.seen.seq \in 0 .. TopSeq
    BY DEF CopyShape
  <2>2. \A s \in 0 .. TopSeq : s \in 0 .. TopSeq'
    BY <1>1
  <2>3. QED BY <2>1, <2>2
<1>6. DOMAIN copy' = {"links", "seen"}
  BY DEF CopyShape
<1>7. QED BY <1>4, <1>5, <1>6 DEF CopyShape

(* A copy that nothing changed, and that nobody touches.                   *)
LEMMA HonestCopyKept ==
  ASSUME KeyShape, KeyKeeps, CopyShape, HonestCopy, copy' = copy,
         \A s \in DOMAIN heads' : heads'[s] = TrueHead(s)'
  PROVE  HonestCopy'
<1>1. TopSeq \in Nat /\ ring \in Nat /\ ring <= ring' /\ ring' \in Int
  BY KeyIs DEF KeyKeeps
<1>2. PICK l : l = copy.links
  OBVIOUS
<1>3. Honest(l)'
  BY <1>2, HonestKept DEF CopyShape, HonestCopy, Copied
<1>4. Honest(copy.links)' /\ Whole(copy.links)'
  BY <1>2, <1>3 DEF HonestCopy, Whole
<1>5. Reaches(copy.links, ring)'
  <2>1. \A t \in DOMAIN copy.links : \A s \in ring' .. t : s \in DOMAIN copy.links
    <3>1. SUFFICES ASSUME NEW t \in DOMAIN copy.links, NEW s \in ring' .. t PROVE s \in DOMAIN copy.links
      OBVIOUS
    <3>2. t \in Int
      BY DEF CopyShape, Copied
    <3>3. s \in ring .. t
      BY <1>1, <3>2
    <3>4. QED BY <3>3 DEF HonestCopy, Reaches
  <2>2. QED BY <2>1 DEF Reaches
<1>6. (copy.seen.head = TrueHead(copy.seen.seq))'
  <2>1. copy.seen.seq \in 0 .. TopSeq /\ copy.seen.head = TrueHead(copy.seen.seq)
    BY DEF CopyShape, HonestCopy
  <2>2. PICK s \in 0 .. TopSeq : s = copy.seen.seq
    BY <2>1
  <2>3. TrueHead(s)' = TrueHead(s)
    BY DEF KeyKeeps
  <2>4. QED BY <2>1, <2>2, <2>3
<1>7. QED BY <1>4, <1>5, <1>6 DEF HonestCopy

(* The last report stays true as the key goes on.                          *)
LEMMA VerdictKept ==
  ASSUME KeyShape, KeyKeeps, VerdictShape, Proven, AlarmNeedsACause, verdict' = verdict, edited => edited'
  PROVE  VerdictShape' /\ Proven' /\ AlarmNeedsACause'
<1>1. TopSeq \in Nat /\ TopSeq' \in Nat /\ TopSeq <= TopSeq' /\ reveals' = reveals
  BY KeyIs DEF KeyKeeps
<1>2. \A i \in 1 .. TopSeq : chain'[i] = chain[i] /\ i \in 1 .. TopSeq'
  BY <1>1 DEF KeyKeeps
<1>3. VerdictShape'
  <2>1. \A s \in 0 .. TopSeq : s \in 0 .. TopSeq'
    BY <1>1
  <2>2. verdict.seq \in 0 .. TopSeq'
    BY <2>1 DEF VerdictShape
  <2>3. QED BY <2>2 DEF VerdictShape
<1>4. Proven'
  <2>1. SUFFICES ASSUME verdict.kind = "verified"
                 PROVE /\ \A s \in verdict.lost : \E j \in s + 1 .. TopSeq' : s \in chain'[j].from .. chain'[j].to
                       /\ \A s \in (1 .. verdict.seq) \ verdict.lost :
                            ~edited' \/ s > Max(verdict.lost \cup {0}) =>
                              s \in DOMAIN verdict.links /\ verdict.links[s].link = chain'[s]
    BY DEF Proven
  <2>2. ASSUME NEW s \in verdict.lost
        PROVE  \E j \in s + 1 .. TopSeq' : s \in chain'[j].from .. chain'[j].to
    <3>1. PICK j \in s + 1 .. TopSeq : s \in chain[j].from .. chain[j].to
      BY <2>1 DEF Proven
    <3>2. s \in 1 .. verdict.seq /\ verdict.seq \in Nat
      BY DEF VerdictShape
    <3>3. j \in 1 .. TopSeq /\ j \in s + 1 .. TopSeq'
      BY <3>2, <1>1
    <3>4. QED BY <3>1, <3>3, <1>2
  <2>3. ASSUME NEW s \in (1 .. verdict.seq) \ verdict.lost, ~edited' \/ s > Max(verdict.lost \cup {0})
        PROVE  s \in DOMAIN verdict.links /\ verdict.links[s].link = chain'[s]
    <3>1. s \in DOMAIN verdict.links /\ verdict.links[s].link = chain[s]
      BY <2>1, <2>3 DEF Proven
    <3>2. s \in 1 .. TopSeq
      BY <1>1 DEF VerdictShape
    <3>3. QED BY <3>1, <3>2, <1>2
  <2>4. QED BY <2>2, <2>3
<1>5. AlarmNeedsACause'
  BY <1>1 DEF AlarmNeedsACause, AcceptedStaysAccepted
<1>6. QED BY <1>3, <1>4, <1>5

(* No new LOSS, and what is gone stays gone.                               *)
LEMMA LossesKept ==
  ASSUME KeyShape, KeyKeeps, NestedGone, GapIsOpen, verdict' = verdict,
         \A i \in TopSeq + 1 .. TopSeq' : chain'[i].from = 0,
         \A i \in 1 .. TopSeq : Gone(i) => Gone(i)'
  PROVE  NestedGone' /\ GapIsOpen'
<1>1. TopSeq \in Nat /\ TopSeq' \in Nat /\ TopSeq <= TopSeq'
  BY KeyIs DEF KeyKeeps
<1>2. \A i \in 1 .. TopSeq : chain'[i] = chain[i]
  BY DEF KeyKeeps
<1>3. ASSUME NEW i, Lost(i)' PROVE i \in 1 .. TopSeq /\ Lost(i)
  <2>1. i \in 1 .. TopSeq' /\ chain'[i].from > 0
    BY <1>3 DEF Lost
  <2>2. i \notin TopSeq + 1 .. TopSeq'
    BY <2>1
  <2>3. i \in 1 .. TopSeq
    BY <2>1, <2>2, <1>1
  <2>4. QED BY <2>1, <2>3, <1>2 DEF Lost
<1>4. NestedGone'
  BY <1>2, <1>3 DEF NestedGone
<1>5. GapIsOpen'
  <2>1. ASSUME verdict.kind = "gap", NEW i \in 1 .. TopSeq', Lost(i)'
        PROVE  \/ i \in DOMAIN verdict.links
               \/ chain'[i].from = Min(verdict.open) /\ chain'[i].to = Max(verdict.open)
               \/ Gone(i)'
    <3>1. i \in 1 .. TopSeq /\ Lost(i)
      BY <2>1, <1>3
    <3>2. QED BY <3>1, <2>1, <1>2 DEF GapIsOpen
  <2>2. ASSUME verdict.kind = "gap", NEW j \in DOMAIN verdict.links, Lost(j)', j > Max(verdict.open)
        PROVE  ~(chain'[j].from <= Min(verdict.open) /\ Max(verdict.open) <= chain'[j].to)
    <3>1. j \in 1 .. TopSeq /\ Lost(j)
      BY <2>2, <1>3
    <3>2. QED BY <3>1, <2>2, <1>2 DEF GapIsOpen
  <2>3. QED BY <2>1, <2>2 DEF GapIsOpen
<1>6. QED BY <1>4, <1>5

(* A computer at rest.                                                     *)
LEMMA RestIsFine ==
  ASSUME job' = AtRest
  PROVE  JobShape' /\ HonestRun' /\ DOMAIN job'.links = {}
<1>1. /\ job'.at = "rest" /\ job'.links = NoLinks
      /\ DOMAIN job' = {"at", "links", "seq", "oldest", "head", "held", "behind"}
  BY DEF AtRest
<1>2. DOMAIN NoLinks = {}
  BY DEF NoLinks
<1>3. JobShape'
  BY <1>1 DEF JobShape, PreRead, Read, Told, AtRest
<1>4. HonestRun'
  BY <1>1 DEF HonestRun, PreRead, Read, Told
<1>5. QED BY <1>1, <1>2, <1>3, <1>4

(* The key goes on beside a run.                                           *)
LEMMA JobKept ==
  ASSUME KeyShape, KeyKeeps, CopyShape, JobShape, copy' = copy, job' = job,
         \A i \in TopSeq + 1 .. TopSeq' : chain'[i].from = 0
  PROVE  JobShape'
<1>1. TopSeq \in Nat /\ TopSeq' \in Nat /\ ring \in Nat /\ ring' \in Nat /\ TopSeq <= TopSeq' /\ ring <= ring'
  BY KeyIs DEF KeyKeeps
<1>2. job.at \in Read => Copied(job.links)'
  <2>1. PICK l : l = job.links
    OBVIOUS
  <2>2. Copied(l) => Copied(l)'
    BY CopiedKept
  <2>3. job'.links = l
    BY <2>1
  <2>4. Copied(l)' => Copied(job.links)'
    BY <2>3
  <2>5. QED BY <2>1, <2>2, <2>4 DEF JobShape
<1>3. job.at \in Told =>
       /\ job.seq \in 0 .. TopSeq' /\ DOMAIN job.links \subseteq 1 .. job.seq
       /\ copy.seen.seq <= job.seq
       /\ job.oldest \in 1 .. ring' /\ (job.seq > 0 => job.oldest <= job.seq)
       /\ \A i \in job.seq + 1 .. TopSeq' : chain'[i].from = 0
  <2>1. SUFFICES ASSUME job.at \in Told
                 PROVE  /\ job.seq \in 0 .. TopSeq' /\ job.oldest \in 1 .. ring'
                        /\ \A i \in job.seq + 1 .. TopSeq' : chain'[i].from = 0
    BY DEF JobShape
  <2>2. job.seq \in 0 .. TopSeq /\ job.oldest \in 1 .. ring /\ \A i \in job.seq + 1 .. TopSeq : chain[i].from = 0
    BY <2>1 DEF JobShape
  <2>3. job.seq \in 0 .. TopSeq' /\ job.oldest \in 1 .. ring'
    <3>1. \A s \in 0 .. TopSeq : s \in 0 .. TopSeq'
      BY <1>1
    <3>2. \A s \in 1 .. ring : s \in 1 .. ring'
      BY <1>1
    <3>3. QED BY <2>2, <3>1, <3>2
  <2>4. ASSUME NEW i \in job.seq + 1 .. TopSeq' PROVE chain'[i].from = 0
    <3>1. CASE i <= TopSeq
      <4>1. i \in job.seq + 1 .. TopSeq /\ i \in 1 .. TopSeq
        BY <2>2, <3>1, <1>1
      <4>2. QED BY <4>1, <2>2 DEF KeyKeeps
    <3>2. CASE ~(i <= TopSeq)
      <4>1. i \in TopSeq + 1 .. TopSeq'
        BY <3>2, <2>2, <1>1
      <4>2. QED BY <4>1
    <3>3. QED BY <3>1, <3>2
  <2>5. QED BY <2>3, <2>4
<1>4. job.at = "judge" =>
       job.held = {s \in DOMAIN job.links : s \in job.oldest .. job.seq /\ job.links[s].link = chain'[s]}
  <2>1. SUFFICES ASSUME job.at = "judge"
                 PROVE \A s \in DOMAIN job.links : chain'[s] = chain[s]
    BY DEF JobShape
  <2>2. DOMAIN job.links \subseteq 1 .. TopSeq
    BY <2>1 DEF JobShape, Read, Copied
  <2>3. QED BY <2>2 DEF KeyKeeps
<1>5. job'.at \in PreRead \cup Read \cup {"rest"} /\ (job'.at = "rest" => job' = AtRest)
  BY DEF JobShape
<1>6. job'.at \in PreRead => job'.links = copy'.links
  BY DEF JobShape
<1>7. job'.at \in Read => DOMAIN copy'.links \subseteq DOMAIN job'.links
  BY DEF JobShape
<1>8. job'.at \in Told \cap PreRead => job'.behind = (LastSeq(job'.links) + 1 < job'.oldest)
  BY DEF JobShape
<1>9. job'.at \in {"catch", "catching"} => DOMAIN job'.links # {}
  BY DEF JobShape
<1>10. DOMAIN job' = {"at", "links", "seq", "oldest", "head", "held", "behind"}
  BY DEF JobShape
<1>11. QED BY <1>2, <1>3, <1>4, <1>5, <1>6, <1>7, <1>8, <1>9, <1>10 DEF JobShape

-----------------------------------------------------------------------------
(* The steps.                                                              *)

(* The key goes on: no computer's step.                                    *)
LEMMA KeyAlone ==
  ASSUME EdgeInv, KeyShape', KeyKeeps, copy' = copy, job' = job, heads' = heads, verdict' = verdict,
         edited' = edited, \A i \in TopSeq + 1 .. TopSeq' : chain'[i].from = 0
  PROVE  EdgeInv'
<1>1. /\ KeyShape /\ CopyShape /\ JobShape /\ VerdictShape /\ Untouched
      /\ Proven /\ AlarmNeedsACause
  BY DEF EdgeInv
<1>2. /\ TopSeq \in Nat /\ TopSeq' \in Nat /\ ring \in Nat /\ ring' \in Nat
      /\ TopSeq <= TopSeq' /\ ring <= ring' /\ reveals' = reveals
  BY <1>1, KeyIs DEF KeyKeeps
<1>3. CopyShape'
  <2>1. DOMAIN heads \subseteq 1 .. TopSeq /\ \A s \in DOMAIN heads : IsHead(heads[s])
    BY <1>1 DEF CopyShape
  <2>2. DOMAIN heads' \subseteq 1 .. TopSeq' /\ \A s \in DOMAIN heads' : IsHead(heads'[s])
    BY <2>1, <1>2
  <2>3. QED BY <1>1, <2>2, CopyKept
<1>4. JobShape'
  BY <1>1, JobKept
<1>5. VerdictShape' /\ Proven' /\ AlarmNeedsACause'
  BY <1>1, VerdictKept
<1>6. ASSUME ~edited PROVE HonestCopy' /\ HonestRun' /\ NestedGone' /\ GapIsOpen'
  <2>1. HonestCopy /\ HonestRun /\ NestedGone /\ GapIsOpen
    BY <1>1, <1>6 DEF Untouched
  <2>2. \A s \in DOMAIN heads : heads[s] = TrueHead(s) /\ TrueHead(s)' = TrueHead(s)
    <3>1. \A s \in DOMAIN heads : s \in 0 .. TopSeq
      BY <1>1, <1>2 DEF CopyShape
    <3>2. QED BY <2>1, <3>1 DEF HonestCopy, KeyKeeps
  <2>3. HonestCopy'
    <3>1. \A s \in DOMAIN heads' : heads'[s] = TrueHead(s)'
      BY <2>2
    <3>2. QED BY <1>1, <2>1, <3>1, HonestCopyKept
  <2>4. job.at \in Told => TrueHead(job.seq)' = TrueHead(job.seq)
    <3>1. SUFFICES ASSUME job.at \in Told PROVE TrueHead(job.seq)' = TrueHead(job.seq)
      OBVIOUS
    <3>2. PICK s \in 0 .. TopSeq : s = job.seq
      BY <3>1, <1>1 DEF JobShape
    <3>3. TrueHead(s)' = TrueHead(s)
      BY DEF KeyKeeps
    <3>4. QED BY <3>2, <3>3
  <2>5. job.at \in Read => Honest(job.links)'
    <3>1. SUFFICES ASSUME job.at \in Read PROVE Honest(job.links)'
      OBVIOUS
    <3>2. PICK l : l = job.links
      OBVIOUS
    <3>3. Honest(l) /\ DOMAIN l \subseteq 1 .. TopSeq
      BY <3>1, <3>2, <1>1, <2>1 DEF HonestRun, JobShape, Copied
    <3>4. Honest(l)'
      BY <3>3, <1>1, HonestKept
    <3>5. QED BY <3>2, <3>4
  <2>6. HonestRun'
    <3>1. (job.at \in {"head", "again"} =>
             /\ job.head \in {NoHead, TrueHead(job.seq)}
             /\ ~reveals /\ job.seq > 0 /\ job.head # NoHead => job.seq \in DOMAIN heads)'
      BY <2>1, <2>4, <1>2 DEF HonestRun, Told
    <3>2. (job.at \in {"read", "held", "judge"} => job.head = TrueHead(job.seq))'
      BY <2>1, <2>4, <1>2 DEF HonestRun, Told
    <3>3. /\ (job.at = "read" /\ ~reveals /\ job.seq > 0 => job.seq \in DOMAIN heads)'
          /\ (job.at \in PreRead \ {"catch", "catching"} /\ LastSeq(job.links) > 0 =>
               LastSeq(job.links) \in DOMAIN heads)'
          /\ (job.at \in Told \cap PreRead => Reaches(job.links, job.oldest))'
      BY <2>1, <1>2 DEF HonestRun, Reaches, LastSeq
    <3>4. (job.at \in Read =>
             /\ Honest(job.links)
             /\ reveals \/ ~job.behind => job.oldest .. job.seq \subseteq DOMAIN job.links
             /\ job.oldest .. job.seq \subseteq DOMAIN job.links => Whole(job.links))'
      BY <2>1, <2>5, <1>2 DEF HonestRun, Whole
    <3>5. QED BY <3>1, <3>2, <3>3, <3>4 DEF HonestRun
  <2>7. \A i \in 1 .. TopSeq : Gone(i) => Gone(i)'
    BY <1>2 DEF Gone
  <2>8. NestedGone' /\ GapIsOpen'
    BY <1>1, <2>1, <2>7, LossesKept
  <2>9. QED BY <2>3, <2>6, <2>8
<1>7. Untouched'
  BY <1>6 DEF Untouched
<1>8. QED BY <1>3, <1>4, <1>5, <1>7 DEF EdgeInv

(* The key writes a use, or restarts.                                      *)
LEMMA EdgeKeySteps ==
  ASSUME EdgeInv, KeyWrites \/ KeyRestarts
  PROVE  EdgeInv'
<1>1. KeyShape
  BY DEF EdgeInv
<1>2. CASE KeyWrites
  <2>1. Grown(UseLink) /\ heads' = heads
    BY <1>2 DEF KeyWrites
  <2>2. copy' = copy /\ job' = job /\ verdict' = verdict /\ edited' = edited
    BY <2>1 DEF Grown
  <2>3. PICK x : x = UseLink
    OBVIOUS
  <2>4. x.by = "key" /\ x.from = 0 /\ x.to = 0 /\ x.next = <<>> /\ Grown(x)
    BY <2>1, <2>3 DEF UseLink
  <2>5. KeyShape' /\ KeyKeeps /\ TopSeq' = TopSeq + 1 /\ chain'[TopSeq + 1] = x
    BY <1>1, <2>4, GrownKeeps
  <2>6. \A i \in TopSeq + 1 .. TopSeq' : chain'[i].from = 0
    <3>1. TopSeq \in Nat
      BY <1>1, KeyIs
    <3>2. \A i \in TopSeq + 1 .. TopSeq' : i = TopSeq + 1
      BY <3>1, <2>5
    <3>3. QED BY <3>2, <2>5, <2>4
  <2>7. QED BY <2>1, <2>2, <2>5, <2>6, KeyAlone
<1>3. CASE KeyRestarts
  <2>1. /\ copy' = copy /\ job' = job /\ verdict' = verdict /\ edited' = edited /\ heads' = heads
        /\ chain' = chain
    BY <1>3 DEF KeyRestarts
  <2>2. KeyShape' /\ KeyKeeps
    BY <1>1, <1>3, RingMovesOn
  <2>3. \A i \in TopSeq + 1 .. TopSeq' : chain'[i].from = 0
    <3>1. TopSeq \in Nat /\ TopSeq' = TopSeq
      BY <1>1, <2>1, KeyIs DEF TopSeq
    <3>2. QED BY <3>1
  <2>4. QED BY <2>1, <2>2, <2>3, KeyAlone
<1>4. QED BY <1>2, <1>3

(* Heads that the connection may hold.                                     *)
HeadsFine(h) ==
  /\ DOMAIN h \subseteq 1 .. TopSeq
  /\ \A s \in DOMAIN h : IsHead(h[s]) /\ (~edited => h[s] = TrueHead(s))

(* A step of a run that leaves the key and the copy as they are.           *)
LEMMA RunStep ==
  ASSUME EdgeInv, UNCHANGED chainVars, copy' = copy, verdict' = verdict, edited' = edited,
         HeadsFine(heads'), JobShape', ~edited => HonestRun',
         ~edited => \A i \in 1 .. TopSeq : Gone(i) => i \notin DOMAIN job'.links
  PROVE  EdgeInv'
<1>1. /\ KeyShape /\ CopyShape /\ JobShape /\ VerdictShape /\ Untouched
      /\ Proven /\ AlarmNeedsACause
  BY DEF EdgeInv
<1>2. KeyShape' /\ KeyKeeps
  BY <1>1, SameKeyKeeps
<1>3. chain' = chain /\ ring' = ring /\ TopSeq' = TopSeq /\ TopSeq \in Nat
  BY <1>1, KeyIs DEF chainVars, TopSeq
<1>4. CopyShape'
  <2>1. DOMAIN heads' \subseteq 1 .. TopSeq'
    BY <1>3 DEF HeadsFine
  <2>2. \A s \in DOMAIN heads' : IsHead(heads'[s])
    BY DEF HeadsFine
  <2>3. QED BY <1>1, <1>2, <2>1, <2>2, CopyKept
<1>5. VerdictShape' /\ Proven' /\ AlarmNeedsACause'
  BY <1>1, <1>2, VerdictKept
<1>6. ASSUME ~edited PROVE HonestCopy' /\ HonestRun' /\ NestedGone' /\ GapIsOpen'
  <2>1. HonestCopy /\ NestedGone /\ GapIsOpen
    BY <1>1, <1>6 DEF Untouched
  <2>2. HonestCopy'
    <3>1. \A s \in DOMAIN heads' : heads'[s] = TrueHead(s)'
      BY <1>6, <1>3 DEF TrueHead, HeadsFine
    <3>2. QED BY <1>1, <1>2, <2>1, <3>1, HonestCopyKept
  <2>3. \A i \in 1 .. TopSeq : Gone(i) => Gone(i)'
    BY <1>6, <1>3 DEF Gone
  <2>4. \A i \in TopSeq + 1 .. TopSeq' : chain'[i].from = 0
    BY <1>3
  <2>5. NestedGone' /\ GapIsOpen'
    BY <1>1, <1>2, <2>1, <2>3, <2>4, LossesKept
  <2>6. QED BY <1>6, <2>2, <2>5
<1>7. Untouched'
  BY <1>6 DEF Untouched
<1>8. QED BY <1>2, <1>4, <1>5, <1>7 DEF EdgeInv

(* The heads the connection has are.                                       *)
LEMMA HeadsAreFine ==
  ASSUME EdgeInv
  PROVE  HeadsFine(heads)
BY DEF EdgeInv, CopyShape, Untouched, HonestCopy, HeadsFine

(* And those it welds further.                                             *)
LEMMA TrackedFine ==
  ASSUME KeyShape, NEW h, HeadsFine(h), NEW a \in Nat, 1 <= a, NEW b \in 0 .. TopSeq
  PROVE  HeadsFine(Tracked(h, a, b)) /\ DOMAIN h \subseteq DOMAIN Tracked(h, a, b)
<1>1. DOMAIN h \subseteq 1 .. TopSeq
  BY DEF HeadsFine
<1>2. /\ DOMAIN h \subseteq DOMAIN Tracked(h, a, b)
      /\ DOMAIN Tracked(h, a, b) \subseteq 1 .. TopSeq
      /\ (\A s \in DOMAIN h : IsHead(h[s])) =>
           \A s \in DOMAIN Tracked(h, a, b) : IsHead(Tracked(h, a, b)[s])
      /\ (\A s \in DOMAIN h : h[s] = TrueHead(s)) =>
           \A s \in DOMAIN Tracked(h, a, b) : Tracked(h, a, b)[s] = TrueHead(s)
  BY <1>1, TrackedIs
<1>3. QED BY <1>2 DEF HeadsFine

(* A run ends where it is.                                                 *)
LEMMA ThrowsStep ==
  ASSUME EdgeInv, Throws, HeadsFine(heads')
  PROVE  EdgeInv'
<1>1. job' = AtRest /\ copy' = copy /\ verdict' = verdict /\ edited' = edited /\ UNCHANGED chainVars
  BY DEF Throws
<1>2. JobShape' /\ HonestRun' /\ DOMAIN job'.links = {}
  BY <1>1, RestIsFine
<1>3. \A i : i \notin DOMAIN job'.links
  BY <1>2
<1>4. QED BY <1>1, <1>2, <1>3, RunStep

(* A run goes from one place to the next with what HEAD told.              *)
LEMMA RunMoves ==
  ASSUME EdgeInv, job.at \in {"head", "again", "warm"}, UNCHANGED chainVars, copy' = copy,
         DOMAIN job' = DOMAIN job, job'.at \in {"read", "warm", "warmed"},
         job'.links = job.links, job'.seq = job.seq, job'.oldest = job.oldest, job'.behind = job.behind
  PROVE  JobShape' /\ \A i : Gone(i) => i \notin DOMAIN job'.links
<1>1. JobShape /\ chain' = chain /\ ring' = ring /\ TopSeq' = TopSeq
  BY DEF EdgeInv, chainVars, TopSeq
<1>2. /\ job.links = copy.links
      /\ job.seq \in 0 .. TopSeq /\ DOMAIN job.links \subseteq 1 .. job.seq
      /\ copy.seen.seq <= job.seq
      /\ job.oldest \in 1 .. ring /\ (job.seq > 0 => job.oldest <= job.seq)
      /\ \A i \in job.seq + 1 .. TopSeq : chain[i].from = 0
      /\ job.behind = (LastSeq(job.links) + 1 < job.oldest)
      /\ DOMAIN job = {"at", "links", "seq", "oldest", "head", "held", "behind"}
  BY <1>1 DEF JobShape, PreRead, Told
<1>3. job'.behind = (LastSeq(job'.links) + 1 < job'.oldest)
  BY <1>2
<1>4. JobShape'
  BY <1>1, <1>2, <1>3 DEF JobShape, PreRead, Read, Told
<1>5. \A i : Gone(i) => i \notin DOMAIN job'.links
  BY DEF Gone
<1>6. QED BY <1>4, <1>5

(* What an honest run has found before it reads its links.                 *)
LEMMA HonestMoves ==
  ASSUME EdgeInv, ~edited, job.at \in {"head", "again", "warm"}, UNCHANGED chainVars,
         job'.at \in {"read", "warm", "warmed"},
         job'.links = job.links, job'.seq = job.seq, job'.oldest = job.oldest,
         DOMAIN heads \subseteq DOMAIN heads',
         job'.at = "read" => /\ job'.head = TrueHead(job.seq)
                             /\ ~reveals /\ job.seq > 0 => job.seq \in DOMAIN heads'
  PROVE  HonestRun'
<1>1. HonestRun /\ chain' = chain /\ reveals' = reveals /\ TrueHead(job.seq)' = TrueHead(job.seq)'
  BY DEF EdgeInv, Untouched, chainVars
<1>2. /\ LastSeq(job.links) > 0 => LastSeq(job.links) \in DOMAIN heads
      /\ Reaches(job.links, job.oldest)
  BY <1>1 DEF HonestRun, PreRead, Told
<1>3. (job.at \in PreRead \ {"catch", "catching"} /\ LastSeq(job.links) > 0 =>
         LastSeq(job.links) \in DOMAIN heads)'
  BY <1>2 DEF LastSeq
<1>4. (job.at \in Told \cap PreRead => Reaches(job.links, job.oldest))'
  BY <1>2 DEF Reaches
<1>5. (job.at \in {"read", "held", "judge"} => job.head = TrueHead(job.seq))'
  <2>1. job'.at = "read" => job'.head = SubSeq(chain', 1, job'.seq)
    BY <1>1 DEF TrueHead
  <2>2. job'.at \notin {"held", "judge"}
    OBVIOUS
  <2>3. QED BY <2>1, <2>2 DEF TrueHead
<1>6. (job.at = "read" /\ ~reveals /\ job.seq > 0 => job.seq \in DOMAIN heads)'
  BY <1>1
<1>7. job'.at \notin {"head", "again"} /\ job'.at \notin Read
  BY DEF Read
<1>8. QED BY <1>3, <1>4, <1>5, <1>6, <1>7 DEF HonestRun

(* A run begins.                                                           *)
LEMMA BeginStep ==
  ASSUME EdgeInv, NEW what \in {"sync", "catch"}, BeginRun(what)
  PROVE  EdgeInv'
<1>1. /\ KeyShape /\ CopyShape /\ JobShape /\ Untouched
      /\ UNCHANGED chainVars /\ copy' = copy /\ verdict' = verdict /\ edited' = edited
      /\ heads' = IF what = "sync" THEN Seeded(copy.links) ELSE heads
      /\ what = "catch" => DOMAIN copy.links # {}
  BY DEF EdgeInv, BeginRun
<1>2. /\ job'.at = what /\ job'.links = copy.links
      /\ DOMAIN job' = {"at", "links", "seq", "oldest", "head", "held", "behind"}
  BY DEF BeginRun, AtRest
<1>3. TopSeq \in Nat /\ TopSeq' = TopSeq /\ chain' = chain
  BY <1>1, KeyIs DEF chainVars, TopSeq
<1>4. JobShape'
  BY <1>1, <1>2 DEF JobShape, PreRead, Read, Told
<1> DEFINE e == LastSeq(copy.links)
<1>5. DOMAIN copy.links \subseteq 1 .. TopSeq /\ \A s \in DOMAIN copy.links : IsHead(copy.links[s].head)
  BY <1>1 DEF CopyShape, Copied
<1>6. e \in 0 .. TopSeq /\ (e > 0 => e \in DOMAIN copy.links)
  BY <1>3, <1>5, LastSeqIs
<1>7. HeadsFine(heads) /\ HeadsFine(Seeded(copy.links))
  <2>1. HeadsFine(heads)
    BY HeadsAreFine
  <2>2. CASE e > 0 /\ copy.links[e].head # NoHead
    <3>1. Seeded(copy.links) = [t \in DOMAIN heads \cup {e} |-> IF t = e THEN copy.links[e].head ELSE heads[t]]
      BY <2>2 DEF Seeded
    <3>2. IsHead(copy.links[e].head) /\ e \in 1 .. TopSeq
      BY <1>5, <1>6, <2>2
    <3>3. ~edited => copy.links[e].head = TrueHead(e)
      BY <1>1, <1>6, <2>2 DEF Untouched, HonestCopy, Honest
    <3> HIDE DEF e
    <3>4. QED BY <2>1, <3>1, <3>2, <3>3 DEF HeadsFine
  <2>3. CASE ~(e > 0 /\ copy.links[e].head # NoHead)
    BY <2>1, <2>3 DEF Seeded
  <2>4. QED BY <2>1, <2>2, <2>3
<1>8. HeadsFine(heads')
  BY <1>1, <1>7
<1>9. ASSUME ~edited PROVE HonestRun'
  <2>1. ASSUME what = "sync", e > 0 PROVE e \in DOMAIN heads'
    <3>1. copy.links[e].head # NoHead
      BY <1>1, <1>6, <1>9, <2>1 DEF Untouched, HonestCopy, Whole
    <3>2. QED BY <1>1, <2>1, <3>1 DEF Seeded
  <2>2. (job.at \in PreRead \ {"catch", "catching"} /\ LastSeq(job.links) > 0 =>
           LastSeq(job.links) \in DOMAIN heads)'
    BY <1>2, <2>1 DEF LastSeq
  <2>3. QED BY <1>2, <2>2 DEF HonestRun, Told, Read
<1>10. \A i : Gone(i) => i \notin DOMAIN job'.links
  BY <1>2 DEF Gone
<1>11. QED BY <1>1, <1>4, <1>8, <1>9, <1>10, RunStep

(* HEAD: how far the key is, and how far its ring reaches back.            *)
LEMMA ReadHeadStep ==
  ASSUME EdgeInv, ReadHead
  PROVE  EdgeInv'
<1>1. /\ KeyShape /\ CopyShape /\ JobShape /\ Untouched
      /\ UNCHANGED chainVars /\ copy' = copy /\ verdict' = verdict /\ edited' = edited /\ heads' = heads
      /\ job.at \in {"sync", "catch", "warmed"}
  BY DEF EdgeInv, ReadHead
<1>2. DOMAIN job = {"at", "links", "seq", "oldest", "head", "held", "behind"} /\ job.links = copy.links
  BY <1>1 DEF JobShape, PreRead
<1>3. /\ DOMAIN job' = DOMAIN job /\ job'.links = job.links /\ job'.seq = TopSeq /\ job'.oldest = ring
      /\ job'.head = (IF reveals \/ TopSeq = 0 THEN TrueHead(TopSeq) ELSE HeadOf(heads, TopSeq))
      /\ job'.behind = (LastSeq(job.links) + 1 < ring)
      /\ job'.at = CASE job.at = "catch" -> "catching" [] job.at = "sync" -> "head" [] OTHER -> "again"
  BY <1>2 DEF ReadHead
<1>4. job'.at \in {"catching", "head", "again"} /\ (job'.at = "catching" <=> job.at = "catch")
  BY <1>1, <1>3
<1>5. TopSeq \in Nat /\ ring \in Nat /\ 1 <= ring /\ (TopSeq > 0 => ring <= TopSeq)
      /\ TopSeq' = TopSeq /\ ring' = ring /\ chain' = chain /\ reveals' = reveals
  BY <1>1, KeyIs DEF chainVars, TopSeq, KeyShape
<1>6. JobShape'
  <2>1. DOMAIN copy.links \subseteq 1 .. TopSeq /\ copy.seen.seq \in 0 .. TopSeq
    BY <1>1 DEF CopyShape, Copied
  <2>2. job'.seq \in 0 .. TopSeq' /\ DOMAIN job'.links \subseteq 1 .. job'.seq /\ copy'.seen.seq <= job'.seq
    BY <2>1, <1>1, <1>2, <1>3, <1>5
  <2>3. job'.oldest \in 1 .. ring' /\ (job'.seq > 0 => job'.oldest <= job'.seq)
    BY <1>3, <1>5
  <2>4. \A i \in job'.seq + 1 .. TopSeq' : chain'[i].from = 0
    BY <1>3, <1>5
  <2>5. job'.behind = (LastSeq(job'.links) + 1 < job'.oldest)
    BY <1>3
  <2>6. job.at = "catch" => DOMAIN job'.links # {}
    BY <1>1, <1>3 DEF JobShape
  <2>7. QED BY <1>1, <1>2, <1>3, <1>4, <2>2, <2>3, <2>4, <2>5, <2>6 DEF JobShape, PreRead, Read, Told
<1>7. ASSUME ~edited PROVE HonestRun'
  <2>1. HonestCopy /\ HonestRun
    BY <1>1, <1>7 DEF Untouched
  <2>2. (job.at \in {"head", "again"} =>
          /\ job.head \in {NoHead, TrueHead(job.seq)}
          /\ ~reveals /\ job.seq > 0 /\ job.head # NoHead => job.seq \in DOMAIN heads)'
    <3>1. job'.head \in {NoHead, TrueHead(TopSeq)}
      BY <1>3, <2>1 DEF HeadOf, HonestCopy
    <3>2. ~reveals /\ TopSeq > 0 /\ job'.head # NoHead => TopSeq \in DOMAIN heads
      BY <1>3, <1>5 DEF HeadOf
    <3>3. QED BY <3>1, <3>2, <1>1, <1>3, <1>5 DEF TrueHead
  <2>3. (job.at \in PreRead \ {"catch", "catching"} /\ LastSeq(job.links) > 0 =>
          LastSeq(job.links) \in DOMAIN heads)'
    <3>1. job'.at # "catching" => (LastSeq(job.links) > 0 => LastSeq(job.links) \in DOMAIN heads)
      BY <2>1, <1>1, <1>4 DEF HonestRun, PreRead
    <3>2. QED BY <3>1, <1>1, <1>3 DEF LastSeq
  <2>4. (job.at \in Told \cap PreRead => Reaches(job.links, job.oldest))'
    <3>1. Reaches(job.links, ring)
      BY <2>1, <1>2 DEF HonestCopy
    <3>2. QED BY <3>1, <1>3 DEF Reaches
  <2>5. job'.at \notin {"read", "held", "judge"} /\ job'.at \notin Read
    BY <1>4 DEF Read
  <2>6. QED BY <2>2, <2>3, <2>4, <2>5 DEF HonestRun
<1>8. \A i : Gone(i) => i \notin DOMAIN job'.links
  BY <1>3 DEF Gone
<1>9. HeadsFine(heads')
  BY <1>1, HeadsAreFine
<1>10. QED BY <1>1, <1>6, <1>7, <1>8, <1>9, RunStep

(* warmUp() finds a head, or the run ends.                                 *)
LEMMA WarmUpStep ==
  ASSUME EdgeInv, WarmUp
  PROVE  EdgeInv'
<1>1. KeyShape /\ JobShape /\ job.at = "warm" /\ HeadsFine(heads)
  BY HeadsAreFine DEF EdgeInv, WarmUp
<1>2. CASE Throws /\ heads' = heads
  BY <1>1, <1>2, ThrowsStep
<1>3. ASSUME NEW s \in 1 .. TopSeq,
             heads' = [t \in DOMAIN heads \cup {s} |-> IF t = s THEN TrueHead(s) ELSE heads[t]],
             Goes("warmed"), UNCHANGED <<copy, verdict, edited, chainVars, counted>>
      PROVE  EdgeInv'
  <2>1. /\ job'.at = "warmed" /\ DOMAIN job' = DOMAIN job /\ job'.links = job.links /\ job'.seq = job.seq
        /\ job'.oldest = job.oldest /\ job'.behind = job.behind
    BY <1>1, <1>3 DEF Goes, JobShape
  <2>2. UNCHANGED chainVars /\ copy' = copy /\ verdict' = verdict /\ edited' = edited
    BY <1>3
  <2>3. JobShape' /\ \A i : Gone(i) => i \notin DOMAIN job'.links
    BY <1>1, <2>1, <2>2, RunMoves
  <2>4. DOMAIN heads \subseteq DOMAIN heads'
    BY <1>3
  <2>5. ~edited => HonestRun'
    BY <1>1, <2>1, <2>2, <2>4, HonestMoves
  <2>6. HeadsFine(heads')
    <3>1. s \in 0 .. TopSeq
      BY <1>1, KeyIs
    <3>2. IsHead(TrueHead(s))
      BY <1>1, <3>1, KeyIs
    <3>3. QED BY <1>1, <1>3, <3>2 DEF HeadsFine
  <2>7. QED BY <2>2, <2>3, <2>5, <2>6, RunStep
<1>4. QED BY <1>2, <1>3 DEF WarmUp

(* trackedHead() has a head, or warms up, or the run ends.                 *)
LEMMA WeldHeadStep ==
  ASSUME EdgeInv, WeldHead
  PROVE  EdgeInv'
<1> DEFINE near == {s \in DOMAIN heads : s < job.seq /\ s + 1 >= job.oldest}
           next == IF near = {} THEN job.oldest ELSE Max(near) + 1
           known == Tracked(heads, next, job.seq)
           on == IF job.at = "catching" THEN "catching" ELSE "read"
           where == IF HeadOf(known, job.seq) # NoHead \/ job.at = "catching" THEN on
                    ELSE IF job.at = "head" THEN "warm" ELSE "none"
<1>1. KeyShape /\ JobShape /\ job.at \in {"head", "again"} /\ HeadsFine(heads)
  BY HeadsAreFine DEF EdgeInv, WeldHead
<1>2. /\ DOMAIN job = {"at", "links", "seq", "oldest", "head", "held", "behind"}
      /\ job.seq \in 0 .. TopSeq /\ job.oldest \in 1 .. ring
  BY <1>1 DEF JobShape, Told
<1>3. TopSeq \in Nat /\ ring \in Nat
  BY <1>1, KeyIs
<1>4. ASSUME Goes("read"), job.head # NoHead, heads' = heads, UNCHANGED <<copy, verdict, edited, chainVars, counted>>
      PROVE  EdgeInv'
  <2>1. /\ job'.at = "read" /\ DOMAIN job' = DOMAIN job /\ job'.links = job.links /\ job'.seq = job.seq
        /\ job'.oldest = job.oldest /\ job'.behind = job.behind /\ job'.head = job.head
    BY <1>2, <1>4 DEF Goes
  <2>2. UNCHANGED chainVars /\ copy' = copy /\ verdict' = verdict /\ edited' = edited
    BY <1>4
  <2>3. JobShape' /\ \A i : Gone(i) => i \notin DOMAIN job'.links
    BY <1>1, <2>1, <2>2, RunMoves
  <2>4. ASSUME ~edited
        PROVE  job'.head = TrueHead(job.seq) /\ (~reveals /\ job.seq > 0 => job.seq \in DOMAIN heads')
    BY <1>1, <1>4, <2>1, <2>4 DEF EdgeInv, Untouched, HonestRun
  <2>5. ~edited => HonestRun'
    BY <1>1, <1>4, <2>1, <2>2, <2>4, HonestMoves
  <2>6. QED BY <2>2, <2>3, <2>5, <1>1, <1>4, RunStep
<1>5. CASE Throws /\ heads' = heads
  BY <1>1, <1>5, ThrowsStep
<1>6. HeadsFine(known) /\ DOMAIN heads \subseteq DOMAIN known
  <2>1. near \subseteq 1 .. TopSeq
    BY <1>1 DEF HeadsFine
  <2>2. next \in Nat /\ 1 <= next
    <3>1. CASE near = {}
      BY <3>1, <1>2, <1>3
    <3>2. CASE near # {}
      <4>1. near \subseteq Int /\ (\A x \in near : x <= TopSeq) /\ TopSeq \in Int
        BY <2>1, <1>3
      <4>2. Max(near) \in near
        BY <4>1, <3>2, LastIs, Zenon
      <4> HIDE DEF near
      <4>3. PICK m : m = Max(near)
        OBVIOUS
      <4>4. m \in 1 .. TopSeq
        BY <4>2, <4>3, <2>1
      <4>5. next = m + 1
        BY <4>3, <3>2
      <4>6. QED BY <4>4, <4>5, <1>3
    <3>3. QED BY <3>1, <3>2
  <2> HIDE DEF next
  <2>3. QED BY <1>1, <1>2, <2>2, TrackedFine
<1> HIDE DEF known
<1>7. CASE Throws /\ heads' = known
  BY <1>6, <1>7, ThrowsStep
<1>8. ASSUME heads' = known, where # "none", job' = [job EXCEPT !.at = where, !.head = HeadOf(known, job.seq)],
             UNCHANGED <<copy, verdict, edited, chainVars, counted>>
      PROVE  EdgeInv'
  <2>1. where \in {"read", "warm"} /\ (where = "read" => HeadOf(known, job.seq) # NoHead)
    BY <1>1, <1>8
  <2> HIDE DEF where
  <2>2. /\ job'.at = where /\ DOMAIN job' = DOMAIN job /\ job'.links = job.links /\ job'.seq = job.seq
        /\ job'.oldest = job.oldest /\ job'.behind = job.behind /\ job'.head = HeadOf(known, job.seq)
    BY <1>2, <1>8
  <2>3. UNCHANGED chainVars /\ copy' = copy /\ verdict' = verdict /\ edited' = edited
    BY <1>8
  <2>4. JobShape' /\ \A i : Gone(i) => i \notin DOMAIN job'.links
    BY <1>1, <2>1, <2>2, <2>3, RunMoves
  <2>5. ASSUME ~edited, where = "read"
        PROVE  job'.head = TrueHead(job.seq) /\ job.seq \in DOMAIN heads'
    BY <2>1, <2>2, <2>5, <1>6, <1>8 DEF HeadOf, HeadsFine
  <2>6. ~edited => HonestRun'
    BY <1>1, <1>6, <1>8, <2>1, <2>2, <2>3, <2>5, HonestMoves
  <2>7. HeadsFine(heads')
    BY <1>6, <1>8
  <2>8. QED BY <2>3, <2>4, <2>6, <2>7, RunStep
<1>9. \/ Goes("read") /\ job.head # NoHead /\ heads' = heads /\ UNCHANGED <<copy, verdict, edited, chainVars, counted>>
      \/ Throws /\ heads' = heads
      \/ Throws /\ heads' = known
      \/ /\ heads' = known /\ where # "none" /\ job' = [job EXCEPT !.at = where, !.head = HeadOf(known, job.seq)]
         /\ UNCHANGED <<copy, verdict, edited, chainVars, counted>>
  BY Zenon DEF WeldHead, known
<1> HIDE DEF where
<1>10. QED BY <1>4, <1>5, <1>7, <1>8, <1>9

(* heldSeqs() compares what the ring still has.                            *)
LEMMA ReadHeldStep ==
  ASSUME EdgeInv, ReadHeld
  PROVE  EdgeInv'
<1>1. /\ JobShape /\ HeadsFine(heads) /\ heads' = heads /\ job.at = "held"
      /\ DOMAIN job = {"at", "links", "seq", "oldest", "head", "held", "behind"}
  BY HeadsAreFine DEF EdgeInv, ReadHeld, JobShape
<1>2. CASE Throws
  BY <1>1, <1>2, ThrowsStep
<1>3. ASSUME job' = [job EXCEPT !.at = "judge",
                       !.held = {s \in DOMAIN job.links : s \in job.oldest .. job.seq
                                                          /\ job.links[s].link = chain[s]}],
             UNCHANGED <<copy, verdict, edited, chainVars, counted>>
      PROVE  EdgeInv'
  <2>1. /\ job'.at = "judge" /\ DOMAIN job' = DOMAIN job /\ job'.links = job.links /\ job'.seq = job.seq
        /\ job'.oldest = job.oldest /\ job'.behind = job.behind /\ job'.head = job.head
        /\ job'.held = {s \in DOMAIN job.links : s \in job.oldest .. job.seq /\ job.links[s].link = chain[s]}
    BY <1>1, <1>3
  <2>2. UNCHANGED chainVars /\ copy' = copy /\ verdict' = verdict /\ edited' = edited
    BY <1>3
  <2>3. chain' = chain /\ ring' = ring /\ reveals' = reveals /\ TopSeq' = TopSeq
    BY <2>2 DEF chainVars, TopSeq
  <2>4. JobShape'
    <3>1. Copied(job.links) /\ DOMAIN copy.links \subseteq DOMAIN job.links
      BY <1>1 DEF JobShape, Read
    <3>2. Copied(job.links)'
      BY <3>1, <2>1, <2>3 DEF Copied
    <3>3. /\ job.seq \in 0 .. TopSeq /\ DOMAIN job.links \subseteq 1 .. job.seq
          /\ copy.seen.seq <= job.seq
          /\ job.oldest \in 1 .. ring /\ (job.seq > 0 => job.oldest <= job.seq)
          /\ \A i \in job.seq + 1 .. TopSeq : chain[i].from = 0
      BY <1>1 DEF JobShape, Told
    <3>4. QED BY <1>1, <2>1, <2>2, <2>3, <3>1, <3>2, <3>3 DEF JobShape, PreRead, Read, Told
  <2>5. ASSUME ~edited PROVE HonestRun'
    <3>1. HonestRun
      BY <2>5 DEF EdgeInv, Untouched
    <3>2. /\ Honest(job.links) /\ job.head = TrueHead(job.seq)
          /\ reveals \/ ~job.behind => job.oldest .. job.seq \subseteq DOMAIN job.links
          /\ job.oldest .. job.seq \subseteq DOMAIN job.links => Whole(job.links)
      BY <1>1, <3>1 DEF HonestRun, Read
    <3>3. Honest(job.links)' /\ (job.head = TrueHead(job.seq))'
      BY <3>2, <2>1, <2>3 DEF Honest, TrueHead
    <3>4. (/\ reveals \/ ~job.behind => job.oldest .. job.seq \subseteq DOMAIN job.links
           /\ job.oldest .. job.seq \subseteq DOMAIN job.links => Whole(job.links))'
      BY <3>2, <2>1, <2>3 DEF Whole
    <3>5. QED BY <2>1, <3>3, <3>4 DEF HonestRun, PreRead, Read, Told
  <2>6. \A i : Gone(i) => i \notin DOMAIN job'.links
    BY <2>1 DEF Gone
  <2>7. HeadsFine(heads')
    BY <1>1
  <2>8. QED BY <2>2, <2>4, <2>5, <2>6, <2>7, RunStep
<1>4. QED BY <1>2, <1>3 DEF ReadHeld

(* The links of a copy with those read onto them.                          *)
Onto(links, got, take, new, a) ==
  /\ DOMAIN got = a .. job.seq /\ take \subseteq a .. job.seq
  /\ DOMAIN new = DOMAIN links \cup take
  /\ \A s \in take : new[s] = got[s]
  /\ \A s \in DOMAIN links : new[s] = links[s] /\ s \notin take
  /\ Copied(new) /\ DOMAIN new \subseteq 1 .. job.seq
  /\ ~edited /\ Honest(links) => Honest(new)

(* What a copy gains is the key's, under heads it may trust.               *)
LEMMA MoreLinks ==
  ASSUME KeyShape, job.seq \in 0 .. TopSeq, NEW links, Copied(links), DOMAIN links \subseteq 1 .. job.seq,
         NEW a \in Nat, 1 <= a, a <= job.seq, LastSeq(links) < a, NEW known, HeadsFine(known),
         NEW got, got = Picked(known, a), NEW take, take = Taken(links, got),
         NEW new, new = WithLinks(links, got, take)
  PROVE  Onto(links, got, take, new, a)
<1>1. TopSeq \in Nat /\ job.seq \in Nat
  BY KeyIs
<1>2. /\ DOMAIN got = a .. job.seq
      /\ \A s \in a .. job.seq : /\ got[s].link = chain[s]
                                 /\ reveals => got[s].head = TrueHead(s)
                                 /\ ~reveals => got[s].head = HeadOf(known, s)
  BY PickedIs
<1>3. /\ LastSeq(links) \in Nat
      /\ \A s \in DOMAIN links : s <= LastSeq(links) /\ s \in Nat
  BY <1>1, LastSeqIs
<1>4. take \subseteq a .. job.seq
  <2>1. PICK p \in Nat : p = LastSeq(links)
    BY <1>3
  <2>2. TookAll(links, got, a, job.seq, p, take)
    BY <1>1, <1>2, <2>1, TakenIs
  <2>3. QED BY <2>2 DEF TookAll
<1>5. /\ DOMAIN new = DOMAIN links \cup take
      /\ \A s \in take : new[s] = got[s]
      /\ \A s \in DOMAIN links \ take : new[s] = links[s]
  BY DEF WithLinks
<1>6. \A s \in DOMAIN links : s \notin take
  <2>1. \A s \in DOMAIN links : s \notin a .. job.seq
    BY <1>3
  <2>2. QED BY <2>1, <1>4
<1>7. \A s \in take : s \in 1 .. TopSeq /\ s \in 0 .. TopSeq /\ s \in 1 .. job.seq /\ s \in a .. job.seq
  BY <1>1, <1>4
<1>8. \A s \in take : new[s].link = chain[s] /\ IsHead(new[s].head)
  <2>1. SUFFICES ASSUME NEW s \in take PROVE got[s].link = chain[s] /\ IsHead(got[s].head)
    BY <1>5
  <2>2. got[s].link = chain[s] /\ got[s].head \in {TrueHead(s), HeadOf(known, s)}
    BY <1>2, <1>7, <2>1
  <2>3. IsHead(TrueHead(s))
    BY <1>7, KeyIs
  <2>4. IsHead(HeadOf(known, s))
    BY NoHeadIs DEF HeadOf, HeadsFine
  <2>5. QED BY <2>2, <2>3, <2>4
<1>9. Copied(new) /\ DOMAIN new \subseteq 1 .. job.seq
  BY <1>5, <1>6, <1>7, <1>8 DEF Copied
<1>10. ASSUME ~edited, Honest(links) PROVE Honest(new)
  <2>1. ASSUME NEW s \in take PROVE new[s].head \in {NoHead, TrueHead(s)}
    <3>1. got[s].head \in {TrueHead(s), HeadOf(known, s)}
      BY <1>2, <1>7, <2>1
    <3>2. HeadOf(known, s) \in {NoHead, TrueHead(s)}
      BY <1>10 DEF HeadOf, HeadsFine
    <3>3. QED BY <3>1, <3>2, <1>5, <2>1
  <2>2. QED BY <1>5, <1>6, <1>8, <1>10, <2>1 DEF Honest
<1>11. QED BY <1>2, <1>4, <1>5, <1>6, <1>9, <1>10 DEF Onto

(* sync() has read: an honest copy that the ring reached has it all.       *)
ReadFully(new, p, oldest) ==
  /\ reveals \/ ~(p + 1 < oldest) => oldest .. job.seq \subseteq DOMAIN new
  /\ oldest .. job.seq \subseteq DOMAIN new => Whole(new)

(* What sync() has read is whole, unless the ring left a hole before it.   *)
LEMMA ReadAll ==
  ASSUME KeyShape, ~edited, job.seq \in 0 .. TopSeq, NEW links, Copied(links), DOMAIN links \subseteq 1 .. job.seq,
         Honest(links), Whole(links), NEW oldest \in Nat, 1 <= oldest, Reaches(links, oldest),
         NEW p \in Nat, p = LastSeq(links), p > 0 => p \in DOMAIN heads,
         ~reveals /\ job.seq > 0 => job.seq \in DOMAIN heads, HeadsFine(heads),
         NEW a, a = Max({p + 1, oldest}), a <= job.seq,
         NEW known, known = IF reveals THEN heads ELSE Tracked(heads, a, job.seq),
         NEW got, got = Picked(known, a), NEW take, take = Taken(links, got),
         NEW new, new = WithLinks(links, got, take)
  PROVE  ReadFully(new, p, oldest)
<1>1. TopSeq \in Nat /\ job.seq \in Nat /\ a \in {p + 1, oldest} /\ p + 1 <= a /\ oldest <= a
  <2>1. PICK e \in Int : e = p + 1
    OBVIOUS
  <2>2. a = Max({e, oldest}) /\ oldest \in Int
    BY <2>1
  <2>3. a \in {e, oldest} /\ e <= a /\ oldest <= a
    BY <2>2, LargerIs
  <2>4. QED BY <2>1, <2>3, KeyIs
<1>2. a \in Nat /\ 1 <= a /\ p < a
  BY <1>1
<1>3. /\ HeadsFine(known) /\ DOMAIN heads \subseteq DOMAIN known
      /\ ~reveals /\ (a = 1 \/ a - 1 \in DOMAIN heads) => a .. job.seq \subseteq DOMAIN known
  <2>1. CASE reveals
    BY <2>1
  <2>2. CASE ~reveals
    <3>1. HeadsFine(known) /\ DOMAIN heads \subseteq DOMAIN known
      BY <1>2, <2>2, TrackedFine
    <3>2. DOMAIN heads \subseteq 1 .. TopSeq
      BY DEF HeadsFine
    <3>3. a <= job.seq /\ (a = 1 \/ a - 1 \in DOMAIN heads) => a .. job.seq \subseteq DOMAIN Tracked(heads, a, job.seq)
      BY <1>2, <3>2, TrackedIs
    <3>4. QED BY <2>2, <3>1, <3>3
  <2>3. QED BY <2>1, <2>2
<1>4. /\ DOMAIN got = a .. job.seq /\ take \subseteq a .. job.seq
      /\ DOMAIN new = DOMAIN links \cup take
      /\ \A s \in take : new[s] = got[s]
      /\ \A s \in DOMAIN links : new[s] = links[s]
  <2>1. LastSeq(links) < a
    BY <1>2
  <2>2. Onto(links, got, take, new, a)
    BY <1>2, <1>3, <2>1, MoreLinks, Zenon
  <2>3. QED BY <2>2 DEF Onto
<1>5. \A s \in a .. job.seq : /\ got[s].link = chain[s]
                              /\ reveals => got[s].head = TrueHead(s)
                              /\ ~reveals => got[s].head = HeadOf(known, s)
  BY PickedIs
<1>6. /\ \A s \in take : s > a => Welds(got[s - 1], got[s])
      /\ (/\ \A s \in a + 1 .. job.seq : Welds(got[s - 1], got[s])
          /\ p > 0 /\ p + 1 = a => Welds(links[p], got[a])) => take = a .. job.seq
  <2>1. TookAll(links, got, a, job.seq, p, take)
    BY <1>1, <1>2, <1>4, TakenIs
  <2>2. QED BY <2>1 DEF TookAll
<1>7. \A s \in 0 .. TopSeq : TrueHead(s) # NoHead
  BY KeyIs
<1>8. ASSUME reveals \/ ~(p + 1 < oldest) PROVE oldest .. job.seq \subseteq DOMAIN new
  <2>1. ASSUME NEW s \in a .. job.seq PROVE got[s].head = TrueHead(s)
    <3>1. CASE reveals
      BY <3>1, <1>5
    <3>2. CASE ~reveals
      <4>1. a = p + 1
        BY <1>1, <1>8, <3>2
      <4>2. a = 1 \/ a - 1 \in DOMAIN heads
        BY <4>1
      <4>3. s \in DOMAIN known
        BY <3>2, <4>2, <1>3
      <4>4. QED BY <4>3, <3>2, <1>3, <1>5 DEF HeadOf, HeadsFine
    <3>3. QED BY <3>1, <3>2
  <2>2. ASSUME NEW s \in a + 1 .. job.seq PROVE Welds(got[s - 1], got[s])
    <3>1. s \in a .. job.seq /\ s - 1 \in a .. job.seq /\ s \in 1 .. TopSeq /\ s - 1 \in 0 .. TopSeq /\ s \in 0 .. TopSeq
      BY <1>1, <1>2
    <3>2. got[s].head = TrueHead(s) /\ got[s - 1].head = TrueHead(s - 1) /\ got[s].link = chain[s]
      BY <3>1, <2>1, <1>5
    <3>3. Weld(TrueHead(s - 1), chain[s]) = TrueHead(s)
      BY <3>1, KeyIs
    <3>4. QED BY <3>1, <3>2, <3>3, <1>7 DEF Welds
  <2>3. ASSUME p > 0, p + 1 = a PROVE Welds(links[p], got[a])
    <3>1. a \in a .. job.seq /\ a \in 1 .. TopSeq /\ a - 1 = p /\ p \in 0 .. TopSeq /\ a \in 0 .. TopSeq
      BY <1>1, <1>2, <2>3
    <3>2. p \in DOMAIN links
      BY <2>3, <1>1, LastSeqIs
    <3>3. links[p].head = TrueHead(p)
      BY <3>2 DEF Honest, Whole
    <3>4. got[a].head = TrueHead(a) /\ got[a].link = chain[a]
      BY <3>1, <2>1, <1>5
    <3>5. Weld(TrueHead(a - 1), chain[a]) = TrueHead(a)
      BY <3>1, KeyIs
    <3>6. QED BY <3>1, <3>3, <3>4, <3>5, <1>7 DEF Welds
  <2>4. take = a .. job.seq
    BY <2>2, <2>3, <1>6
  <2>5. ASSUME NEW s \in oldest .. job.seq PROVE s \in DOMAIN new
    <3>1. CASE s >= a
      <4>1. s \in a .. job.seq
        BY <3>1, <1>1
      <4>2. QED BY <4>1, <2>4, <1>4
    <3>2. CASE ~(s >= a)
      <4>1. a = p + 1 /\ s \in oldest .. p /\ p > 0
        BY <3>2, <1>1
      <4>2. p \in DOMAIN links
        BY <4>1, <1>1, LastSeqIs
      <4>3. s \in DOMAIN links
        BY <4>1, <4>2 DEF Reaches
      <4>4. QED BY <4>3, <1>4
    <3>3. QED BY <3>1, <3>2
  <2>6. QED BY <2>5
<1>9. ASSUME oldest .. job.seq \subseteq DOMAIN new PROVE Whole(new)
  <2>1. SUFFICES ASSUME NEW s \in take PROVE got[s].head # NoHead
    <3>1. ASSUME NEW x \in DOMAIN new, \A s \in take : got[s].head # NoHead
          PROVE  new[x].head # NoHead
      <4>1. CASE x \in take
        <5>1. new[x] = got[x]
          BY <4>1, <1>4
        <5>2. QED BY <4>1, <5>1, <3>1
      <4>2. CASE x \in DOMAIN links
        <5>1. new[x] = links[x]
          BY <4>2, <1>4
        <5>2. QED BY <4>2, <5>1 DEF Whole
      <4>3. x \in take \/ x \in DOMAIN links
        BY <1>4
      <4>4. QED BY <4>1, <4>2, <4>3
    <3>2. QED BY <3>1 DEF Whole
  <2>2. s \in a .. job.seq
    BY <1>4
  <2>3. CASE s > a
    BY <2>1, <2>3, <1>6 DEF Welds
  <2>4. CASE s = a /\ a < job.seq
    <3>1. a + 1 \in oldest .. job.seq
      BY <2>4, <1>1, <1>2
    <3>2. a + 1 \in DOMAIN new /\ a + 1 \notin DOMAIN links
      <4>1. \A x \in DOMAIN links : x <= p
        BY <1>1, LastSeqIs
      <4>2. QED BY <3>1, <1>9, <4>1, <1>2
    <3>3. PICK k : k = a + 1
      OBVIOUS
    <3>4. k \in take /\ k > a /\ k - 1 = a
      <4>1. k \in take
        BY <3>2, <3>3, <1>4
      <4>2. QED BY <4>1, <3>3, <1>2
    <3>5. Welds(got[a], got[k])
      BY <3>4, <1>6
    <3>6. QED BY <3>5, <2>4 DEF Welds
  <2>5. CASE s = job.seq
    <3>1. s \in 0 .. TopSeq /\ job.seq > 0
      BY <2>5, <2>2, <1>2
    <3>2. CASE reveals
      BY <3>1, <3>2, <2>2, <1>5, <1>7
    <3>3. CASE ~reveals
      <4>1. s \in DOMAIN known
        BY <3>1, <3>3, <2>5, <1>3
      <4>2. got[s].head = known[s]
        BY <4>1, <3>3, <2>2, <1>5 DEF HeadOf
      <4>3. known[s] = TrueHead(s)
        BY <4>1, <1>3 DEF HeadsFine
      <4>4. QED BY <4>2, <4>3, <3>1, <1>7
    <3>4. QED BY <3>2, <3>3
  <2>6. QED BY <2>2, <2>3, <2>4, <2>5, <1>1, <1>2
<1>10. QED BY <1>8, <1>9 DEF ReadFully

(* sync() reads the links that the copy lacks.                             *)
LEMMA ReadLinksStep ==
  ASSUME EdgeInv, ReadLinks
  PROVE  EdgeInv'
<1> DEFINE p == LastSeq(job.links)
           a == Max({p + 1, job.oldest})
           known == IF reveals THEN heads ELSE Tracked(heads, a, job.seq)
           got == Picked(known, a)
           take == Taken(job.links, got)
           new == WithLinks(job.links, got, take)
<1>1. /\ KeyShape /\ CopyShape /\ JobShape /\ Untouched /\ HeadsFine(heads) /\ job.at = "read"
      /\ DOMAIN job = {"at", "links", "seq", "oldest", "head", "held", "behind"}
  BY HeadsAreFine DEF EdgeInv, ReadLinks, JobShape
<1>2. /\ job.links = copy.links
      /\ job.seq \in 0 .. TopSeq /\ DOMAIN job.links \subseteq 1 .. job.seq
      /\ copy.seen.seq <= job.seq
      /\ job.oldest \in 1 .. ring /\ (job.seq > 0 => job.oldest <= job.seq)
      /\ \A i \in job.seq + 1 .. TopSeq : chain[i].from = 0
      /\ job.behind = (p + 1 < job.oldest)
  BY <1>1 DEF JobShape, PreRead, Told
<1>3. Copied(job.links) /\ TopSeq \in Nat /\ ring \in Nat /\ job.seq \in Nat /\ job.oldest \in Nat /\ 1 <= job.oldest
  BY <1>1, <1>2, KeyIs DEF CopyShape
<1>4. p \in Nat /\ (p > 0 => p \in DOMAIN job.links) /\ \A s \in DOMAIN job.links : s <= p
  <2> HIDE DEF known, got, take, new, a
  <2>1. PICK l, n : l = job.links /\ n = job.seq
    OBVIOUS
  <2>2. n \in Nat /\ DOMAIN l \subseteq 1 .. n
    BY <1>2, <1>3, <2>1
  <2>3. /\ LastSeq(l) \in 0 .. n
        /\ \A s \in DOMAIN l : s <= LastSeq(l)
        /\ LastSeq(l) > 0 => LastSeq(l) \in DOMAIN l
    BY <2>2, LastSeqIs, Zenon
  <2>4. p = LastSeq(l)
    BY <2>1
  <2> HIDE DEF p
  <2>5. QED BY <2>1, <2>2, <2>3, <2>4
<1> HIDE DEF p
<1>5. a \in Nat /\ 1 <= a /\ p < a /\ a \in {p + 1, job.oldest} /\ job.oldest <= a
  <2>1. PICK e \in Int : e = p + 1
    BY <1>4
  <2>2. PICK o \in Int : o = job.oldest
    BY <1>3
  <2>3. Max({e, o}) \in {e, o} /\ e <= Max({e, o}) /\ o <= Max({e, o})
    BY LargerIs
  <2>4. a = Max({e, o})
    BY <2>1, <2>2
  <2> HIDE DEF a
  <2>5. QED BY <2>1, <2>2, <2>3, <2>4, <1>3, <1>4
<1> HIDE DEF a
<1>6. ASSUME ~edited
      PROVE  /\ HonestCopy /\ job.head = TrueHead(job.seq)
             /\ (~reveals /\ job.seq > 0 => job.seq \in DOMAIN heads)
             /\ (p > 0 => p \in DOMAIN heads) /\ Reaches(job.links, job.oldest)
             /\ Honest(job.links) /\ Whole(job.links)
  BY <1>1, <1>2, <1>6 DEF p, Untouched, HonestRun, HonestCopy, PreRead, Told
<1>7. HeadsFine(known)
  <2>1. HeadsFine(Tracked(heads, a, job.seq))
    BY <1>1, <1>2, <1>5, TrackedFine
  <2>2. QED BY <1>1, <2>1
<1>8. CASE Throws /\ heads' = heads
  BY <1>1, <1>8, ThrowsStep
<1>9. ASSUME a > job.seq, Goes("held"), UNCHANGED <<heads, copy, verdict, edited, chainVars, counted>>
      PROVE  EdgeInv'
  <2>1. /\ job'.at = "held" /\ DOMAIN job' = DOMAIN job /\ job'.links = job.links /\ job'.seq = job.seq
        /\ job'.oldest = job.oldest /\ job'.behind = job.behind /\ job'.head = job.head
    BY <1>1, <1>9 DEF Goes
  <2>2. UNCHANGED chainVars /\ copy' = copy /\ verdict' = verdict /\ edited' = edited /\ heads' = heads
    BY <1>9
  <2>3. chain' = chain /\ ring' = ring /\ reveals' = reveals /\ TopSeq' = TopSeq
    BY <2>2 DEF chainVars, TopSeq
  <2>4. JobShape'
    <3>1. Copied(job.links)'
      BY <1>3, <2>1, <2>3 DEF Copied
    <3>2. QED BY <1>1, <1>2, <2>1, <2>2, <2>3, <3>1 DEF JobShape, PreRead, Read, Told
  <2>5. ASSUME ~edited PROVE HonestRun'
    <3>1. job.oldest .. job.seq \subseteq DOMAIN job.links
      <4>1. SUFFICES ASSUME NEW s \in job.oldest .. job.seq PROVE s \in DOMAIN job.links
        OBVIOUS
      <4>2. p > 0 /\ s \in job.oldest .. p
        BY <1>3, <1>4, <1>5, <1>9
      <4>3. p \in DOMAIN job.links
        BY <4>2, <1>4
      <4>4. QED BY <4>2, <4>3, <1>6, <2>5 DEF Reaches
    <3>2. Honest(job.links)' /\ (job.head = TrueHead(job.seq))' /\ Whole(job.links)'
      BY <1>6, <2>1, <2>3, <2>5 DEF Honest, TrueHead, Whole
    <3>3. (job.oldest .. job.seq \subseteq DOMAIN job.links)'
      BY <3>1, <2>1
    <3>4. QED BY <2>1, <3>2, <3>3 DEF HonestRun, PreRead, Read, Told
  <2>6. \A i : Gone(i) => i \notin DOMAIN job'.links
    BY <2>1 DEF Gone
  <2>7. HeadsFine(heads')
    BY <1>1, <2>2
  <2>8. QED BY <2>2, <2>4, <2>5, <2>6, <2>7, RunStep
<1>10. ASSUME ~(a > job.seq), ~(a < ring), heads' = known, job' = [job EXCEPT !.at = "held", !.links = new],
              UNCHANGED <<copy, verdict, edited, chainVars, counted>>
       PROVE  EdgeInv'
  <2>1. a <= job.seq /\ ring <= a
    BY <1>3, <1>5, <1>10
  <2>2. PICK links, k, g, t, n : links = job.links /\ k = known /\ g = got /\ t = take /\ n = new
    OBVIOUS
  <2>3. g = Picked(k, a) /\ t = Taken(links, g) /\ n = WithLinks(links, g, t)
    BY <2>2
  <2>4. k = (IF reveals THEN heads ELSE Tracked(heads, a, job.seq)) /\ HeadsFine(k) /\ heads' = k
    BY <2>2, <1>7, <1>10
  <2>5. job' = [job EXCEPT !.at = "held", !.links = n]
    BY <2>2, <1>10
  <2> HIDE DEF known, got, take, new
  <2>6. LastSeq(links) < a /\ Copied(links) /\ DOMAIN links \subseteq 1 .. job.seq /\ p = LastSeq(links)
    BY <2>2, <1>2, <1>3, <1>5 DEF p
  <2>7. Onto(links, g, t, n, a)
    BY <1>1, <1>2, <1>5, <2>1, <2>3, <2>4, <2>6, MoreLinks, Zenon
  <2>8. /\ job'.at = "held" /\ DOMAIN job' = DOMAIN job /\ job'.links = n /\ job'.seq = job.seq
        /\ job'.oldest = job.oldest /\ job'.behind = job.behind /\ job'.head = job.head
    BY <1>1, <2>5
  <2>9. UNCHANGED chainVars /\ copy' = copy /\ verdict' = verdict /\ edited' = edited
    BY <1>10
  <2>10. chain' = chain /\ ring' = ring /\ reveals' = reveals /\ TopSeq' = TopSeq
    BY <2>9 DEF chainVars, TopSeq
  <2>11. /\ Copied(n) /\ DOMAIN n \subseteq 1 .. job.seq /\ DOMAIN links \subseteq DOMAIN n
         /\ \A s \in DOMAIN n : s \in DOMAIN links \/ s \in a .. job.seq
         /\ ~edited /\ Honest(links) => Honest(n)
    BY <2>7 DEF Onto
  <2>12. JobShape'
    <3>1. Copied(n)'
      BY <2>11, <2>10 DEF Copied
    <3>2. Copied(job.links)'
      BY <3>1, <2>8
    <3>3. DOMAIN copy'.links \subseteq DOMAIN job'.links /\ DOMAIN job'.links \subseteq 1 .. job'.seq
      BY <1>2, <2>2, <2>8, <2>9, <2>11
    <3>4. QED BY <1>1, <1>2, <2>8, <2>9, <2>10, <3>2, <3>3 DEF JobShape, PreRead, Read, Told
  <2>13. ASSUME ~edited PROVE HonestRun'
    <3>1. Honest(links) /\ Whole(links) /\ Reaches(links, job.oldest)
      BY <1>6, <2>2, <2>13
    <3>2. /\ reveals \/ ~(p + 1 < job.oldest) => job.oldest .. job.seq \subseteq DOMAIN n
          /\ job.oldest .. job.seq \subseteq DOMAIN n => Whole(n)
      <4>1. PICK o \in Nat : o = job.oldest
        BY <1>3
      <4>2. a = Max({p + 1, o}) /\ 1 <= o /\ Reaches(links, o)
        BY <3>1, <4>1, <1>3 DEF a
      <4>3. ReadFully(n, p, o)
        BY <1>1, <1>2, <1>4, <1>5, <1>6, <2>1, <2>3, <2>4, <2>6, <2>13, <3>1, <4>2, ReadAll, Zenon
      <4>4. QED BY <4>1, <4>3 DEF ReadFully
    <3>3. Honest(n)' /\ (job.head = TrueHead(job.seq))'
      BY <1>6, <2>8, <2>10, <2>11, <2>13, <3>1 DEF Honest, TrueHead
    <3>4. Honest(job.links)'
      BY <3>3, <2>8
    <3>5. (/\ reveals \/ ~job.behind => job.oldest .. job.seq \subseteq DOMAIN job.links
           /\ job.oldest .. job.seq \subseteq DOMAIN job.links => Whole(job.links))'
      BY <3>2, <1>2, <2>8, <2>10 DEF Whole
    <3>6. QED BY <2>8, <3>3, <3>4, <3>5 DEF HonestRun, PreRead, Read, Told
  <2>14. ASSUME NEW i \in 1 .. TopSeq, Gone(i) PROVE i \notin DOMAIN job'.links
    <3>1. i < ring /\ i \notin DOMAIN links
      BY <2>2, <2>14 DEF Gone
    <3>2. i \notin a .. job.seq
      BY <3>1, <2>1, <1>3, <1>5
    <3>3. QED BY <3>1, <3>2, <2>8, <2>11
  <2>15. HeadsFine(heads')
    BY <2>4
  <2>16. QED BY <2>9, <2>12, <2>13, <2>14, <2>15, RunStep
<1>11. \/ a > job.seq /\ Goes("held") /\ UNCHANGED <<heads, copy, verdict, edited, chainVars, counted>>
       \/ Throws /\ heads' = heads
       \/ /\ ~(a > job.seq) /\ ~(a < ring) /\ heads' = known /\ job' = [job EXCEPT !.at = "held", !.links = new]
          /\ UNCHANGED <<copy, verdict, edited, chainVars, counted>>
  BY Zenon DEF ReadLinks, p, a, known, got, take, new
<1> HIDE DEF known, got, take, new
<1>12. QED BY <1>8, <1>9, <1>10, <1>11

(* catchUp() keeps the links that weld onto the copy's last.               *)
LEMMA CatchUpStep ==
  ASSUME EdgeInv, CatchUp
  PROVE  EdgeInv'
<1> DEFINE p == LastSeq(job.links)
           a == p + 1
           known == IF reveals THEN heads ELSE Tracked(heads, a, job.seq)
           got == Picked(known, a)
           take == Taken(job.links, got)
           new == WithLinks(job.links, got, take)
<1>1. /\ KeyShape /\ CopyShape /\ JobShape /\ VerdictShape /\ Untouched /\ Proven /\ AlarmNeedsACause
      /\ HeadsFine(heads) /\ job.at = "catching" /\ job' = AtRest
      /\ UNCHANGED chainVars /\ verdict' = verdict /\ edited' = edited
  BY HeadsAreFine DEF EdgeInv, CatchUp
<1>2. /\ job.links = copy.links
      /\ job.seq \in 0 .. TopSeq /\ DOMAIN job.links \subseteq 1 .. job.seq /\ DOMAIN job.links # {}
      /\ job.oldest \in 1 .. ring
  BY <1>1 DEF JobShape, PreRead, Told
<1>3. Copied(job.links) /\ TopSeq \in Nat /\ ring \in Nat /\ job.seq \in Nat
  BY <1>1, <1>2, KeyIs DEF CopyShape
<1>4. p \in Nat /\ p > 0 /\ p \in DOMAIN job.links /\ \A s \in DOMAIN job.links : s <= p
  <2> HIDE DEF known, got, take, new
  <2>1. PICK l, n : l = job.links /\ n = job.seq
    OBVIOUS
  <2>2. n \in Nat /\ DOMAIN l \subseteq 1 .. n /\ DOMAIN l # {}
    BY <1>2, <1>3, <2>1
  <2>3. /\ LastSeq(l) \in 0 .. n
        /\ \A s \in DOMAIN l : s <= LastSeq(l)
        /\ LastSeq(l) > 0 => LastSeq(l) \in DOMAIN l
        /\ DOMAIN l # {} => LastSeq(l) > 0
    BY <2>2, LastSeqIs, Zenon
  <2>4. p = LastSeq(l)
    BY <2>1
  <2> HIDE DEF p
  <2>5. QED BY <2>1, <2>2, <2>3, <2>4
<1>5. KeyShape' /\ KeyKeeps
  BY <1>1, SameKeyKeeps
<1>6. JobShape' /\ HonestRun' /\ DOMAIN job'.links = {}
  BY <1>1, RestIsFine
<1>7. VerdictShape' /\ Proven' /\ AlarmNeedsACause'
  BY <1>1, <1>5, VerdictKept
<1>8. chain' = chain /\ ring' = ring /\ reveals' = reveals /\ TopSeq' = TopSeq /\ \A s : TrueHead(s)' = TrueHead(s)
  BY <1>1 DEF chainVars, TopSeq, TrueHead
<1>9. CASE copy' = copy /\ heads' = heads
  <2>1. \A i : i \notin DOMAIN job'.links
    BY <1>6
  <2>2. QED BY <1>1, <1>6, <1>9, <2>1, RunStep
<1>10. ASSUME a <= job.seq, ring <= a, heads' = known, copy' = [copy EXCEPT !.links = new]
       PROVE  EdgeInv'
  <2>1. PICK links, k, g, t, n : links = job.links /\ k = known /\ g = got /\ t = take /\ n = new
    OBVIOUS
  <2>2. PICK b : b = a
    OBVIOUS
  <2>3. g = Picked(k, b) /\ t = Taken(links, g) /\ n = WithLinks(links, g, t)
    BY <2>1, <2>2
  <2>4. heads' = k /\ HeadsFine(k)
    <3>1. b \in Nat /\ 1 <= b
      BY <2>2, <1>4
    <3>2. HeadsFine(Tracked(heads, b, job.seq))
      BY <1>1, <1>2, <3>1, TrackedFine
    <3>3. QED BY <2>1, <2>2, <3>2, <1>1, <1>10
  <2>5. copy' = [copy EXCEPT !.links = n]
    BY <2>1, <1>10
  <2>6. b = p + 1 /\ p = LastSeq(links)
    BY <2>1, <2>2
  <2> HIDE DEF known, got, take, new, p
  <2>7. b \in Nat /\ 1 <= b /\ p < b /\ b <= job.seq /\ ring <= b
    BY <2>2, <2>6, <1>4, <1>10
  <2>8. LastSeq(links) < b /\ Copied(links) /\ DOMAIN links \subseteq 1 .. job.seq
    BY <2>1, <2>6, <2>7, <1>2, <1>3
  <2>9. Onto(links, g, t, n, b)
    BY <1>1, <1>2, <2>3, <2>4, <2>7, <2>8, MoreLinks, Zenon
  <2>10. TookAll(links, g, b, job.seq, p, t)
    <3>1. DOMAIN g = b .. job.seq
      BY <2>9 DEF Onto
    <3>2. QED BY <3>1, <1>3, <1>4, <2>3, <2>6, <2>7, TakenIs
  <2>11. /\ Copied(n) /\ DOMAIN n = DOMAIN links \cup t /\ t \subseteq b .. job.seq
         /\ \A s \in t : n[s] = g[s]
         /\ \A s \in DOMAIN links : n[s] = links[s]
         /\ ~edited /\ Honest(links) => Honest(n)
    BY <2>9 DEF Onto
  <2>12. DOMAIN copy' = {"links", "seen"} /\ copy'.links = n /\ copy'.seen = copy.seen
    BY <1>1, <2>5 DEF CopyShape
  <2>13. CopyShape'
    <3>1. Copied(n)'
      BY <2>11, <1>8 DEF Copied
    <3>2. Copied(copy.links)'
      BY <3>1, <2>12
    <3>3. DOMAIN heads' \subseteq 1 .. TopSeq' /\ \A s \in DOMAIN heads' : IsHead(heads'[s])
      BY <2>4, <1>8 DEF HeadsFine
    <3>4. QED BY <1>1, <1>8, <2>12, <3>2, <3>3 DEF CopyShape
  <2>14. ASSUME ~edited PROVE HonestCopy' /\ NestedGone' /\ GapIsOpen'
    <3>1. HonestCopy /\ NestedGone /\ GapIsOpen
      BY <1>1, <2>14 DEF Untouched
    <3>2. Honest(links) /\ Whole(links) /\ Reaches(links, ring)
      BY <3>1, <2>1, <1>2 DEF HonestCopy
    <3>3. Whole(n)
      <4>1. ASSUME NEW s \in t PROVE g[s].head # NoHead
        <5>1. s \in b .. job.seq /\ b \in b .. s
          BY <2>7, <2>11
        <5>2. b \in t
          BY <5>1, <2>10 DEF TookAll
        <5>3. CASE s > b
          BY <5>3, <2>10 DEF TookAll, Welds
        <5>4. CASE s = b
          BY <5>2, <5>4, <1>4, <2>6, <2>10 DEF TookAll, Welds
        <5>5. QED BY <5>1, <5>3, <5>4, <2>7
      <4>2. ASSUME NEW x \in DOMAIN n PROVE n[x].head # NoHead
        <5>1. CASE x \in t
          BY <5>1, <4>1, <2>11
        <5>2. CASE x \in DOMAIN links
          BY <5>2, <3>2, <2>11 DEF Whole
        <5>3. QED BY <5>1, <5>2, <2>11
      <4>3. QED BY <4>2 DEF Whole
    <3>4. Reaches(n, ring)
      <4>1. SUFFICES ASSUME NEW y \in DOMAIN n, NEW s \in ring .. y PROVE s \in DOMAIN n
        BY DEF Reaches
      <4>2. CASE y \in DOMAIN links
        BY <4>2, <3>2, <2>11 DEF Reaches
      <4>3. CASE y \in t
        <5>1. y \in b .. job.seq
          BY <4>3, <2>11
        <5>2. CASE s >= b
          <6>1. s \in b .. y
            BY <5>1, <5>2, <2>7
          <6>2. s \in t
            BY <6>1, <4>3, <2>10 DEF TookAll
          <6>3. QED BY <6>2, <2>11
        <5>3. CASE ~(s >= b)
          <6>1. s \in ring .. p /\ p \in DOMAIN links
            BY <5>1, <5>3, <2>1, <2>6, <1>3, <1>4
          <6>2. s \in DOMAIN links
            BY <6>1, <3>2 DEF Reaches
          <6>3. QED BY <6>2, <2>11
        <5>4. QED BY <5>2, <5>3
      <4>4. QED BY <4>2, <4>3, <2>11
    <3>5. HonestCopy'
      <4>1. Honest(copy.links)'
        <5>1. Honest(n)'
          BY <3>2, <2>11, <2>14, <1>8 DEF Honest
        <5>2. QED BY <5>1, <2>12
      <4>2. Whole(copy.links)'
        BY <3>3, <2>12 DEF Whole
      <4>3. Reaches(copy.links, ring)'
        BY <3>4, <2>12, <1>8 DEF Reaches
      <4>4. (copy.seen.head = TrueHead(copy.seen.seq))'
        BY <3>1, <2>12, <1>8 DEF HonestCopy, TrueHead
      <4>5. \A s \in DOMAIN heads' : heads'[s] = TrueHead(s)'
        BY <2>4, <2>14, <1>8 DEF HeadsFine
      <4>6. QED BY <4>1, <4>2, <4>3, <4>4, <4>5 DEF HonestCopy
    <3>6. \A i \in 1 .. TopSeq : Gone(i) => Gone(i)'
      <4>1. SUFFICES ASSUME NEW i \in 1 .. TopSeq, Gone(i) PROVE Gone(i)'
        OBVIOUS
      <4>2. i < ring /\ i \notin DOMAIN links
        BY <4>1, <2>1 DEF Gone
      <4>3. i \notin b .. job.seq
        BY <4>2, <2>7, <1>3
      <4>4. i \notin DOMAIN n
        BY <4>2, <4>3, <2>11
      <4>5. QED BY <4>2, <4>4, <2>12, <1>6, <1>8 DEF Gone
    <3>7. \A i \in TopSeq + 1 .. TopSeq' : chain'[i].from = 0
      BY <1>3, <1>8
    <3>8. NestedGone' /\ GapIsOpen'
      BY <1>1, <1>5, <3>1, <3>6, <3>7, LossesKept
    <3>9. QED BY <3>5, <3>8
  <2>15. Untouched'
    BY <1>1, <1>6, <2>14 DEF Untouched
  <2>16. QED BY <1>5, <1>6, <1>7, <2>13, <2>15 DEF EdgeInv
<1>11. \/ copy' = copy /\ heads' = heads
       \/ ~(a > job.seq \/ a < ring) /\ heads' = known /\ copy' = [copy EXCEPT !.links = new]
  BY Zenon DEF CatchUp, p, a, known, got, take, new
<1>12. ~(a > job.seq \/ a < ring) => a <= job.seq /\ ring <= a
  BY <1>3, <1>4
<1> HIDE DEF known, got, take, new
<1>13. QED BY <1>9, <1>10, <1>11, <1>12

(* A range left open is no LOSS's that an honest copy holds.               *)
LEMMA OpenIsNobodys ==
  ASSUME EdgeInv, ~edited, job.at = "judge", NEW open, open = OpenRanges(job.links, job.seq, job.head, job.held)
  PROVE  /\ \A g \in Ranges(open) : \A j \in DOMAIN job.links :
              ~(Lost(j) /\ j > Max(g) /\ chain[j].from <= Min(g) /\ Max(g) <= chain[j].to)
         /\ \A j \in DOMAIN job.links :
              open # {} /\ Lost(j) /\ j > Max(open) => ~(chain[j].from <= Min(open) /\ Max(open) <= chain[j].to)
<1>1. KeyShape /\ JobShape /\ Untouched
  BY DEF EdgeInv
<1>2. PICK l, seq, head, own, oldest :
        l = job.links /\ seq = job.seq /\ head = job.head /\ own = job.held /\ oldest = job.oldest
  OBVIOUS
<1>3. /\ seq \in 0 .. TopSeq /\ DOMAIN l \subseteq 1 .. seq /\ oldest \in 1 .. ring
      /\ own = {s \in DOMAIN l : s \in oldest .. seq /\ l[s].link = chain[s]}
  BY <1>1, <1>2 DEF JobShape, Told
<1>4. TopSeq \in Nat /\ ring \in Nat /\ seq \in Nat /\ oldest \in Nat
  BY <1>1, <1>3, KeyIs
<1>5. Honest(l) /\ NestedGone
  BY <1>1, <1>2 DEF Untouched, HonestRun, Read
<1>6. PICK missing : missing = MissingSeqs(l, seq, head, own)
  OBVIOUS
<1>7. PICK losses : losses = VerifiedLosses(l, Gaps(l, seq, head), own)
  OBVIOUS
<1>8. PICK F : F = {g \in Ranges(missing) : ~Covers(l, losses, g)}
  OBVIOUS
<1>9. open = UNION F
  BY <1>2, <1>6, <1>7, <1>8 DEF OpenRanges
<1>10. missing \subseteq 1 .. seq /\ missing \subseteq Nat
  BY <1>4, <1>6, MissingIs
<1>11. \A i \in DOMAIN l : \A k \in 1 .. TopSeq :
         ~(Lost(i) /\ Lost(k) /\ i < k /\ chain[i].from < chain[k].from /\ chain[k].to <= chain[i].to)
  <2>1. \A i \in DOMAIN l : i \in 1 .. TopSeq /\ ~Gone(i)
    BY <1>2, <1>3, <1>4 DEF Gone
  <2>2. QED BY <2>1, <1>5 DEF NestedGone
<1>12. ASSUME NEW g \in F, NEW j \in DOMAIN l, Lost(j), j > Max(g), chain[j].from <= Min(g), Max(g) <= chain[j].to
       PROVE  FALSE
  <2>1. g \in Ranges(missing) /\ ~Covers(l, VerifiedLosses(l, Gaps(l, seq, head), own), g)
    BY <1>7, <1>8
  <2>2. QED BY <2>1, <1>1, <1>3, <1>4, <1>5, <1>6, <1>11, <1>12, NoneHolds, Zenon
<1>13. F \subseteq Ranges(missing)
  BY <1>8
<1>14. \A g \in Ranges(open) : g \in F
  <2>1. \A g \in Ranges(UNION F) : g \in F
    BY <1>10, <1>13, RangesOfSome, Zenon
  <2>2. QED BY <2>1, <1>9
<1>15. ASSUME NEW j \in DOMAIN l, open # {}, Lost(j), j > Max(open), chain[j].from <= Min(open), Max(open) <= chain[j].to
       PROVE  FALSE
  <2>1. open \subseteq missing
    <3>1. \A g \in F : g \subseteq missing
      BY <1>8, <1>10, RangeIs
    <3>2. QED BY <3>1, <1>9
  <2>2. open \subseteq Int /\ (\A x \in open : x <= seq) /\ (\A x \in open : 1 <= x) /\ seq \in Int /\ 1 \in Int
    <3>1. \A x \in open : x \in 1 .. seq
      BY <2>1, <1>10
    <3>2. QED BY <3>1, <1>4
  <2>3. Max(open) \in open /\ \A y \in open : y <= Max(open)
    BY <2>2, <1>15, LastIs, Zenon
  <2>4. Min(open) \in open /\ \A y \in open : Min(open) <= y
    BY <2>2, <1>15, FirstIs, Zenon
  <2>5. PICK g \in F : Max(open) \in g
    BY <2>3, <1>9
  <2>6. HasEnds(missing, g)
    BY <1>8, <1>10, RangeIs
  <2>7. Min(g) \in g /\ Max(g) \in g
    BY <2>6, <1>10 DEF HasEnds
  <2>8. Min(g) \in open /\ Max(g) \in open
    BY <2>7, <1>9
  <2>9. Min(open) <= Min(g) /\ Max(g) <= Max(open)
    BY <2>3, <2>4, <2>8
  <2>10. j \in Int /\ chain[j].from \in Int /\ chain[j].to \in Int
    BY <1>1, <1>3, <1>4, <1>15 DEF Lost, KeyShape, LinkShape
  <2>11. j > Max(g) /\ chain[j].from <= Min(g) /\ Max(g) <= chain[j].to
    <3>1. Max(g) \in Int /\ Min(g) \in Int /\ Max(open) \in Int /\ Min(open) \in Int
      BY <2>2, <2>3, <2>4, <2>8
    <3>2. QED BY <3>1, <2>9, <2>10, <1>15
  <2>12. QED BY <2>11, <1>12, <1>15
<1>16. QED BY <1>2, <1>12, <1>14, <1>15

(* assess() and verdictOf() of what was read, and the copy that is kept.   *)
LEMMA JudgeStep ==
  ASSUME EdgeInv, Judge
  PROVE  EdgeInv'
<1>1. /\ KeyShape /\ CopyShape /\ JobShape /\ VerdictShape /\ Untouched /\ Proven /\ AlarmNeedsACause
      /\ HeadsFine(heads) /\ job.at = "judge" /\ job' = AtRest /\ heads' = heads
      /\ UNCHANGED chainVars /\ edited' = edited
  BY HeadsAreFine DEF EdgeInv, Judge
<1>2. PICK l, seq, head, own, oldest, seen :
        l = job.links /\ seq = job.seq /\ head = job.head /\ own = job.held /\ oldest = job.oldest /\ seen = copy.seen
  OBVIOUS
<1>3. PICK open : open = OpenRanges(l, seq, head, own)
  OBVIOUS
<1>4. PICK missing : missing = MissingSeqs(l, seq, head, own)
  OBVIOUS
<1>5. PICK kind : kind = IF ChainFailed(l, seen, seq, head, oldest) THEN "tampered"
                         ELSE IF open # {} THEN "gap"
                         ELSE IF seq > 0 /\ ~Signed THEN "unsigned"
                         ELSE "verified"
  OBVIOUS
<1>6. /\ verdict'.kind = kind /\ verdict'.open = (IF kind = "tampered" THEN {} ELSE open)
      /\ verdict'.lost = missing \ open /\ verdict'.links = l /\ verdict'.seq = seq
      /\ verdict'.behind = job.behind
  BY <1>2, <1>3, <1>4, <1>5 DEF Judge, Says
<1>7. \/ copy' = copy
      \/ /\ kind # "tampered"
         /\ copy' = [links |-> l, seen |-> IF kind = "unsigned" THEN seen ELSE [seq |-> seq, head |-> head]]
  BY <1>2, <1>3, <1>5 DEF Judge, Saved
<1>8. KeyShape' /\ KeyKeeps
  BY <1>1, SameKeyKeeps
<1>9. JobShape' /\ HonestRun' /\ DOMAIN job'.links = {}
  BY <1>1, RestIsFine
<1>10. chain' = chain /\ ring' = ring /\ reveals' = reveals /\ TopSeq' = TopSeq /\ \A s : TrueHead(s)' = TrueHead(s)
  BY <1>1 DEF chainVars, TopSeq, TrueHead
<1>11. /\ Copied(l) /\ DOMAIN copy.links \subseteq DOMAIN l
       /\ seq \in 0 .. TopSeq /\ DOMAIN l \subseteq 1 .. seq
       /\ seen.seq <= seq /\ oldest \in 1 .. ring
       /\ \A i \in seq + 1 .. TopSeq : chain[i].from = 0
       /\ own = {s \in DOMAIN l : s \in oldest .. seq /\ l[s].link = chain[s]}
  BY <1>1, <1>2 DEF JobShape, Read, Told
<1>12. TopSeq \in Nat /\ ring \in Nat /\ seq \in Nat /\ oldest \in Nat /\ seen.seq \in 0 .. seq
  BY <1>1, <1>2, <1>11, KeyIs DEF CopyShape
<1>13. missing \subseteq 1 .. seq /\ missing \subseteq Nat /\ open \subseteq missing
  <2>1. missing \subseteq 1 .. seq /\ missing \subseteq Nat
    BY <1>4, <1>12, MissingIs
  <2>2. \A g \in Ranges(missing) : g \subseteq missing
    BY <2>1, RangeIs
  <2>3. QED BY <2>1, <2>2, <1>3, <1>4 DEF OpenRanges
<1>14. VerdictShape'
  <2>1. kind \in {"verified", "gap", "unsigned", "tampered"} /\ (kind = "gap" => open # {})
    BY <1>5
  <2>2. verdict'.seq \in 0 .. TopSeq'
    BY <1>6, <1>10, <1>11
  <2>3. verdict'.open \subseteq 1 .. verdict'.seq /\ verdict'.lost \subseteq 1 .. verdict'.seq
    BY <1>6, <1>13
  <2>4. verdict'.kind = "gap" => verdict'.open # {}
    BY <1>6, <2>1
  <2>5. QED BY <1>6, <1>11, <2>1, <2>2, <2>3, <2>4 DEF VerdictShape
<1>15. Proven'
  <2>1. SUFFICES ASSUME kind = "verified"
                 PROVE /\ \A s \in missing : \E j \in s + 1 .. TopSeq : s \in chain[j].from .. chain[j].to
                       /\ \A s \in (1 .. seq) \ missing :
                            ~edited \/ s > Max(missing \cup {0}) => s \in DOMAIN l /\ l[s].link = chain[s]
    <3>1. kind = "verified" => missing \ open = missing
      BY <1>5
    <3>2. QED BY <3>1, <1>1, <1>6, <1>10 DEF Proven
  <2>2. /\ ~ChainFailed(l, seen, seq, head, oldest) /\ open = {}
        /\ seq = 0 \/ Signed
    BY <2>1, <1>5, <1>12
  <2>3. seq = 0 \/ head = TrueHead(seq)
    BY <2>2, <1>2 DEF Signed
  <2>4. \A s \in own : s \in DOMAIN l /\ l[s].link = chain[s]
    BY <1>11
  <2>5. ~edited => Honest(l)
    BY <1>1, <1>2 DEF Untouched, HonestRun, Read
  <2>6. OpenRanges(l, seq, head, own) = {}
    BY <2>2, <1>3
  <2>7. SaysSo(l, seq, missing)
    BY <1>1, <1>4, <1>11, <2>2, <2>3, <2>4, <2>5, <2>6, VerifiedProves, Zenon
  <2>8. QED BY <2>7 DEF SaysSo
<1>16. ASSUME ~edited
       PROVE  /\ HonestCopy /\ NestedGone
              /\ Honest(l) /\ head = TrueHead(seq)
              /\ reveals \/ ~job.behind => oldest .. seq \subseteq DOMAIN l
              /\ oldest .. seq \subseteq DOMAIN l => Whole(l)
  BY <1>1, <1>2, <1>16 DEF Untouched, HonestRun, Read
<1>17. ~edited =>
         /\ \A g \in Ranges(open) : \A j \in DOMAIN l :
              ~(Lost(j) /\ j > Max(g) /\ chain[j].from <= Min(g) /\ Max(g) <= chain[j].to)
         /\ \A j \in DOMAIN l :
              open # {} /\ Lost(j) /\ j > Max(open) => ~(chain[j].from <= Min(open) /\ Max(open) <= chain[j].to)
  BY <1>1, <1>2, <1>3, OpenIsNobodys
<1>18. kind # "tampered" => oldest .. seq \subseteq DOMAIN l
  BY <1>5 DEF ChainFailed
<1>19. AlarmNeedsACause'
  <2>1. ASSUME kind = "tampered", ~edited, reveals \/ ~job.behind
        PROVE  FALSE
    <3>1. seen.head = TrueHead(seen.seq) /\ oldest .. seq \subseteq DOMAIN l
      BY <1>2, <1>16, <2>1 DEF HonestCopy
    <3>2. ~ChainFailed(l, seen, seq, head, oldest)
      BY <3>1, <1>1, <1>11, <1>12, <1>16, <2>1, HonestHolds
    <3>3. QED BY <3>2, <2>1, <1>5
  <2>2. ASSUME kind = "gap", ~edited, NEW g \in Ranges(open), NEW j \in DOMAIN l,
               j > Max(g), g \subseteq l[j].link.from .. l[j].link.to
        PROVE  FALSE
    <3>1. open \subseteq Nat
      BY <1>13
    <3>2. HasEnds(open, g) /\ g \subseteq open
      BY <3>1, RangeIs
    <3>3. Min(g) \in g /\ Max(g) \in g
      BY <3>1, <3>2 DEF HasEnds
    <3>4. Min(g) \in Nat /\ 1 <= Min(g)
      <4>1. Min(g) \in 1 .. seq
        BY <3>2, <3>3, <1>13
      <4>2. QED BY <4>1
    <3>5. j \in 1 .. TopSeq /\ l[j].link = chain[j]
      BY <1>11, <1>12, <1>16, <2>2 DEF Honest
    <3>6. chain[j].from \in Nat /\ chain[j].to \in Nat /\ (chain[j].from = 0 => chain[j].to = 0)
      BY <3>5, <1>1 DEF KeyShape, LinkShape
    <3>7. Min(g) \in chain[j].from .. chain[j].to /\ Max(g) \in chain[j].from .. chain[j].to
      BY <2>2, <3>3, <3>5
    <3>8. chain[j].from <= Min(g) /\ Max(g) <= chain[j].to /\ chain[j].from > 0
      BY <3>4, <3>6, <3>7
    <3>9. Lost(j)
      BY <3>5, <3>8 DEF Lost
    <3>10. QED BY <2>2, <3>8, <3>9, <1>17
  <2>3. AcceptedStaysAccepted'
    BY <1>1, <1>6, <2>2 DEF AcceptedStaysAccepted
  <2>4. QED BY <1>1, <1>6, <1>10, <2>1, <2>3 DEF AlarmNeedsACause
<1>20. CopyShape'
  <2>1. CASE copy' = copy
    <3>1. DOMAIN heads' \subseteq 1 .. TopSeq' /\ \A s \in DOMAIN heads' : IsHead(heads'[s])
      BY <1>1, <1>10 DEF HeadsFine
    <3>2. QED BY <1>1, <1>8, <2>1, <3>1, CopyKept
  <2>2. CASE copy' = [links |-> l, seen |-> IF kind = "unsigned" THEN seen ELSE [seq |-> seq, head |-> head]]
    <3>1. DOMAIN copy' = {"links", "seen"} /\ copy'.links = l /\ copy'.seen.seq \in 0 .. TopSeq'
      BY <2>2, <1>10, <1>11, <1>12
    <3>2. Copied(l)'
      BY <1>10, <1>11 DEF Copied
    <3>3. Copied(copy.links)'
      BY <3>1, <3>2
    <3>4. DOMAIN heads' \subseteq 1 .. TopSeq' /\ \A s \in DOMAIN heads' : IsHead(heads'[s])
      BY <1>1, <1>10 DEF HeadsFine
    <3>5. QED BY <3>1, <3>3, <3>4 DEF CopyShape
  <2>3. QED BY <2>1, <2>2, <1>7
<1>21. \A i : Gone(i) \/ (i < ring /\ i \notin DOMAIN l) => Gone(i)'
  <2>1. SUFFICES ASSUME NEW i, i < ring, i \notin DOMAIN l PROVE Gone(i)'
    BY <1>2 DEF Gone
  <2>2. i \notin DOMAIN copy'.links
    <3>1. copy'.links = copy.links \/ copy'.links = l
      BY <1>7
    <3>2. QED BY <3>1, <2>1, <1>11
  <2>3. QED BY <2>1, <2>2, <1>9, <1>10 DEF Gone
<1>22. ASSUME ~edited PROVE HonestCopy' /\ NestedGone' /\ GapIsOpen'
  <2>1. HonestCopy'
    <3>1. CASE copy' = copy
      <4>1. \A s \in DOMAIN heads' : heads'[s] = TrueHead(s)'
        BY <1>1, <1>10, <1>22 DEF HeadsFine
      <4>2. QED BY <1>1, <1>8, <1>16, <1>22, <3>1, <4>1, HonestCopyKept
    <3>2. ASSUME kind # "tampered",
                 copy' = [links |-> l, seen |-> IF kind = "unsigned" THEN seen ELSE [seq |-> seq, head |-> head]]
          PROVE  HonestCopy'
      <4>1. copy'.links = l /\ (copy'.seen = seen \/ copy'.seen = [seq |-> seq, head |-> head])
        BY <3>2
      <4>2. Honest(l) /\ Whole(l) /\ oldest .. seq \subseteq DOMAIN l
        BY <3>2, <1>16, <1>18, <1>22
      <4>3. Reaches(l, ring)
        <5>1. SUFFICES ASSUME NEW t \in DOMAIN l, NEW s \in ring .. t PROVE s \in DOMAIN l
          BY DEF Reaches
        <5>2. s \in oldest .. seq
          BY <1>11, <1>12
        <5>3. QED BY <5>2, <4>2
      <4>4. Honest(l)'
        BY <4>2, <1>10 DEF Honest
      <4>5. Honest(copy.links)' /\ Whole(copy.links)' /\ Reaches(copy.links, ring)'
        BY <4>1, <4>2, <4>3, <4>4, <1>10 DEF Whole, Reaches
      <4>6. copy'.seen.head = TrueHead(copy'.seen.seq)
        <5>1. seen.head = TrueHead(seen.seq)
          BY <1>2, <1>16, <1>22 DEF HonestCopy
        <5>2. head = TrueHead(seq)
          BY <1>16, <1>22
        <5>3. QED BY <5>1, <5>2, <4>1
      <4>7. (copy.seen.head = TrueHead(copy.seen.seq))'
        BY <4>6, <1>10 DEF TrueHead
      <4>8. \A s \in DOMAIN heads' : heads'[s] = TrueHead(s)'
        BY <1>1, <1>10, <1>22 DEF HeadsFine
      <4>9. QED BY <4>5, <4>7, <4>8 DEF HonestCopy
    <3>3. QED BY <3>1, <3>2, <1>7
  <2>2. NestedGone'
    <3>1. NestedGone
      BY <1>16, <1>22
    <3>2. QED BY <3>1, <1>10, <1>21 DEF NestedGone, Lost
  <2>3. GapIsOpen'
    <3>1. ASSUME kind = "gap", NEW i \in 1 .. TopSeq, Lost(i)
          PROVE  i \in DOMAIN l \/ Gone(i)'
      <4>1. i <= seq
        BY <3>1, <1>11, <1>12 DEF Lost
      <4>2. CASE i >= oldest
        <5>1. i \in oldest .. seq
          BY <4>1, <4>2, <1>12
        <5>2. QED BY <5>1, <3>1, <1>18
      <4>3. CASE ~(i >= oldest)
        <5>1. i < ring
          BY <4>3, <1>11, <1>12
        <5>2. QED BY <5>1, <1>21
      <4>4. QED BY <4>2, <4>3
    <3>2. kind = "gap" => open # {}
      BY <1>5
    <3>3. \A i : Lost(i)' <=> Lost(i)
      BY <1>10 DEF Lost
    <3>4. QED BY <3>1, <3>2, <3>3, <1>6, <1>10, <1>17, <1>22 DEF GapIsOpen
  <2>4. QED BY <2>1, <2>2, <2>3
<1>23. Untouched'
  BY <1>1, <1>9, <1>22 DEF Untouched
<1>24. QED BY <1>8, <1>9, <1>14, <1>15, <1>19, <1>20, <1>23 DEF EdgeInv

(* The person accepts the open gap: the key writes a LOSS over it.         *)
LEMMA AcceptLossStep ==
  ASSUME EdgeInv, AcceptLoss
  PROVE  EdgeInv'
<1> DEFINE from == Min(verdict.open)
           to == Max(verdict.open)
           next == IF to < TopSeq /\ to + 1 >= ring THEN <<chain[to + 1]>> ELSE <<>>
           link == [from |-> from, to |-> to, next |-> next, by |-> "key"]
<1>1. /\ KeyShape /\ CopyShape /\ JobShape /\ VerdictShape /\ Untouched /\ Proven /\ AlarmNeedsACause
      /\ HeadsFine(heads) /\ job.at = "rest" /\ verdict.kind = "gap"
  BY HeadsAreFine DEF EdgeInv, AcceptLoss
<1>2. PICK x : x = link
  OBVIOUS
<1>3. /\ Grown(x)
      /\ heads' = IF reveals THEN heads
                  ELSE [t \in DOMAIN heads \cup {TopSeq + 1} |->
                          IF t = TopSeq + 1 THEN Append(chain, x) ELSE heads[t]]
  BY <1>2 DEF AcceptLoss
<1>4. TopSeq \in Nat /\ ring \in Nat /\ verdict.seq \in Nat /\ verdict.seq <= TopSeq
  BY <1>1, KeyIs DEF VerdictShape
<1>5. verdict.open # {} /\ \A y \in verdict.open : y \in 1 .. verdict.seq
  BY <1>1 DEF VerdictShape
<1>6. from \in 1 .. verdict.seq /\ to \in 1 .. verdict.seq /\ from <= to
  <2>1. /\ verdict.open \subseteq Int /\ (\A y \in verdict.open : 1 <= y)
        /\ (\A y \in verdict.open : y <= verdict.seq) /\ 1 \in Int /\ verdict.seq \in Int
    BY <1>4, <1>5
  <2>2. Min(verdict.open) \in verdict.open
    BY <2>1, <1>5, FirstIs, Zenon
  <2>3. Max(verdict.open) \in verdict.open /\ \A y \in verdict.open : y <= Max(verdict.open)
    BY <2>1, <1>5, LastIs, Zenon
  <2>4. QED BY <2>2, <2>3, <1>5
<1>7. x.from = from /\ x.to = to /\ x.by = "key" /\ x.next = next
  BY <1>2
<1>8. next = <<>> \/ (to + 1 <= TopSeq /\ next = <<chain[to + 1]>>)
  <2>1. to < TopSeq => to + 1 <= TopSeq
    BY <1>4, <1>6
  <2>2. QED BY <2>1
<1> HIDE DEF from, to, next
<1>9. /\ x.by = "key" /\ x.from \in Nat /\ x.to \in Nat /\ (x.from = 0 => x.to = 0)
      /\ (x.from > 0 => x.from <= x.to /\ x.to <= TopSeq)
      /\ (x.next = <<>> \/ (x.to + 1 <= TopSeq /\ x.next = <<chain[x.to + 1]>>))
  BY <1>4, <1>6, <1>7, <1>8
<1>10. /\ KeyShape' /\ KeyKeeps
       /\ TopSeq' = TopSeq + 1 /\ chain'[TopSeq + 1] = x /\ SubSeq(chain', 1, TopSeq + 1) = chain'
  BY <1>1, <1>3, <1>9, GrownKeeps
<1>11. /\ chain' = Append(chain, x) /\ copy' = copy /\ job' = job /\ verdict' = verdict /\ edited' = edited
  BY <1>3 DEF Grown
<1>12. /\ ring' \in Nat /\ ring <= ring' /\ \A i \in 1 .. TopSeq : chain'[i] = chain[i]
       /\ \A s \in 0 .. TopSeq : TrueHead(s)' = TrueHead(s)
  BY <1>10 DEF KeyKeeps
<1>13. job' = AtRest
  BY <1>1, <1>11 DEF JobShape
<1>14. JobShape' /\ HonestRun'
  BY <1>13, RestIsFine
<1>15. VerdictShape' /\ Proven' /\ AlarmNeedsACause'
  BY <1>1, <1>10, <1>11, VerdictKept
<1>16. IsHead(chain')
  BY <1>10 DEF KeyShape
<1>17. \A s \in DOMAIN heads' : \/ s \in DOMAIN heads /\ s # TopSeq + 1 /\ heads'[s] = heads[s]
                                \/ s = TopSeq + 1 /\ heads'[s] = chain'
  <2>1. \A s \in DOMAIN heads : s # TopSeq + 1
    BY <1>1, <1>4 DEF HeadsFine
  <2>2. QED BY <2>1, <1>3, <1>11
<1>18. CopyShape'
  <2>1. DOMAIN heads' \subseteq 1 .. TopSeq'
    <3>1. \A s \in DOMAIN heads : s \in 1 .. TopSeq
      BY <1>1 DEF HeadsFine
    <3>2. QED BY <3>1, <1>4, <1>10, <1>17
  <2>2. \A s \in DOMAIN heads' : IsHead(heads'[s])
    BY <1>1, <1>16, <1>17 DEF HeadsFine
  <2>3. QED BY <1>1, <1>10, <1>11, <2>1, <2>2, CopyKept
<1>19. ASSUME ~edited PROVE HonestCopy' /\ NestedGone' /\ GapIsOpen'
  <2>1. HonestCopy /\ NestedGone /\ GapIsOpen
    BY <1>1, <1>19 DEF Untouched
  <2>2. HonestCopy'
    <3>1. ASSUME NEW s \in DOMAIN heads' PROVE heads'[s] = TrueHead(s)'
      <4>1. CASE s \in DOMAIN heads /\ s # TopSeq + 1 /\ heads'[s] = heads[s]
        <5>1. s \in 0 .. TopSeq /\ heads[s] = TrueHead(s)
          BY <4>1, <1>1, <1>4, <1>19 DEF HeadsFine
        <5>2. QED BY <5>1, <4>1, <1>12
      <4>2. CASE s = TopSeq + 1 /\ heads'[s] = chain'
        <5>1. TrueHead(s)' = SubSeq(chain', 1, TopSeq + 1)
          BY <4>2 DEF TrueHead
        <5>2. QED BY <5>1, <4>2, <1>10
      <4>3. QED BY <4>1, <4>2, <1>17
    <3>2. QED BY <1>1, <1>10, <1>11, <2>1, <3>1, HonestCopyKept
  <2>3. \A i \in 1 .. TopSeq : Gone(i) => Gone(i)'
    <3>1. \A i \in 1 .. TopSeq : i < ring => i < ring'
      BY <1>4, <1>12
    <3>2. QED BY <3>1, <1>11 DEF Gone
  <2>4. \A i \in 1 .. TopSeq + 1 : i \in 1 .. TopSeq \/ i = TopSeq + 1
    BY <1>4
  <2>5. \A i \in 1 .. TopSeq : Lost(i)' <=> Lost(i)
    <3>1. \A i \in 1 .. TopSeq : i \in 1 .. TopSeq'
      BY <1>4, <1>10
    <3>2. QED BY <3>1, <1>12 DEF Lost
  <2>6. ASSUME NEW i \in 1 .. TopSeq, Lost(i), chain[i].from < from, to <= chain[i].to
        PROVE  Gone(i)
    <3>1. i \notin DOMAIN verdict.links
      <4>1. chain[i].to < i /\ chain[i].to \in Nat /\ chain[i].from \in Nat
        BY <1>1, <2>6 DEF Lost, KeyShape, LinkShape
      <4>2. i > to /\ chain[i].from <= from
        BY <4>1, <2>6, <1>4, <1>6
      <4>3. QED BY <4>2, <2>6, <2>1, <1>1 DEF GapIsOpen, from, to
    <3>2. ~(chain[i].from = from)
      BY <2>6, <1>6
    <3>3. QED BY <3>1, <3>2, <2>6, <2>1, <1>1 DEF GapIsOpen, from, to
  <2>7. NestedGone'
    <3>1. ASSUME NEW i \in 1 .. TopSeq + 1, NEW k \in 1 .. TopSeq + 1, Lost(i)', Lost(k)', i < k,
                 chain'[i].from < chain'[k].from, chain'[k].to <= chain'[i].to
          PROVE  Gone(i)'
      <4>1. i \in 1 .. TopSeq
        BY <3>1, <1>4
      <4>2. Lost(i) /\ chain'[i] = chain[i]
        BY <3>1, <4>1, <2>5, <1>12
      <4>3. CASE k \in 1 .. TopSeq
        <5>1. Lost(k) /\ chain'[k] = chain[k]
          BY <3>1, <4>3, <2>5, <1>12
        <5>2. Gone(i)
          BY <3>1, <4>1, <4>2, <4>3, <5>1, <2>1 DEF NestedGone
        <5>3. QED BY <5>2, <4>1, <2>3
      <4>4. CASE k = TopSeq + 1
        <5>1. chain'[k].from = from /\ chain'[k].to = to
          BY <4>4, <1>7, <1>10
        <5>2. Gone(i)
          BY <3>1, <4>1, <4>2, <5>1, <2>6
        <5>3. QED BY <5>2, <4>1, <2>3
      <4>5. QED BY <4>3, <4>4, <2>4
    <3>2. QED BY <3>1, <1>10 DEF NestedGone
  <2>8. GapIsOpen'
    <3>1. ASSUME NEW i \in 1 .. TopSeq + 1, Lost(i)'
          PROVE  \/ i \in DOMAIN verdict.links
                 \/ chain'[i].from = Min(verdict.open) /\ chain'[i].to = Max(verdict.open)
                 \/ Gone(i)'
      <4>1. CASE i \in 1 .. TopSeq
        <5>1. Lost(i) /\ chain'[i] = chain[i]
          BY <3>1, <4>1, <2>5, <1>12
        <5>2. QED BY <5>1, <4>1, <2>1, <2>3, <1>1 DEF GapIsOpen
      <4>2. CASE i = TopSeq + 1
        BY <4>2, <1>7, <1>10 DEF from, to
      <4>3. QED BY <4>1, <4>2, <2>4
    <3>2. ASSUME NEW j \in DOMAIN verdict.links, Lost(j)', j > Max(verdict.open)
          PROVE  ~(chain'[j].from <= Min(verdict.open) /\ Max(verdict.open) <= chain'[j].to)
      <4>1. j \in 1 .. TopSeq
        <5>1. j \in 1 .. verdict.seq
          BY <1>1 DEF VerdictShape
        <5>2. QED BY <5>1, <1>4
      <4>2. Lost(j) /\ chain'[j] = chain[j]
        BY <3>2, <4>1, <2>5, <1>12
      <4>3. QED BY <3>2, <4>2, <2>1, <1>1 DEF GapIsOpen
    <3>3. QED BY <3>1, <3>2, <1>10, <1>11 DEF GapIsOpen
  <2>9. QED BY <2>2, <2>7, <2>8
<1>20. Untouched'
  BY <1>11, <1>14, <1>19 DEF Untouched
<1>21. QED BY <1>10, <1>14, <1>15, <1>18, <1>20 DEF EdgeInv

(* The connection's heads are forgotten.                                   *)
LEMMA DisconnectStep ==
  ASSUME EdgeInv, Disconnect
  PROVE  EdgeInv'
<1>1. /\ KeyShape /\ JobShape /\ job.at = "rest" /\ job' = job /\ heads' = NoLinks
      /\ UNCHANGED chainVars /\ copy' = copy /\ verdict' = verdict /\ edited' = edited
  BY DEF EdgeInv, Disconnect
<1>2. job' = AtRest
  BY <1>1 DEF JobShape
<1>3. JobShape' /\ HonestRun' /\ DOMAIN job'.links = {}
  BY <1>2, RestIsFine
<1>4. HeadsFine(heads')
  BY <1>1 DEF HeadsFine, NoLinks
<1>5. \A i : i \notin DOMAIN job'.links
  BY <1>3
<1>6. QED BY <1>1, <1>3, <1>4, <1>5, RunStep

(* Nothing happens.                                                        *)
LEMMA EdgeStutters ==
  ASSUME EdgeInv, UNCHANGED edgeVars
  PROVE  EdgeInv'
<1>1. /\ KeyShape /\ UNCHANGED chainVars /\ chain' = chain /\ copy' = copy /\ job' = job /\ heads' = heads
      /\ verdict' = verdict /\ edited' = edited
  BY DEF EdgeInv, edgeVars, chainVars
<1>2. KeyShape' /\ KeyKeeps /\ TopSeq \in Nat /\ TopSeq' = TopSeq
  BY <1>1, SameKeyKeeps, KeyIs DEF TopSeq
<1>3. \A i \in TopSeq + 1 .. TopSeq' : chain'[i].from = 0
  BY <1>2
<1>4. QED BY <1>1, <1>2, <1>3, KeyAlone

(* The copy is changed at rest: by then it is another's, and no longer     *)
(* what the rest says of one that nothing changed.                         *)
LEMMA FileChangesStep ==
  ASSUME EdgeInv, FileChanges
  PROVE  EdgeInv'
<1>1. /\ KeyShape /\ CopyShape /\ JobShape /\ VerdictShape /\ Proven /\ AlarmNeedsACause
      /\ job.at = "rest" /\ job' = job /\ heads' = heads /\ UNCHANGED chainVars /\ verdict' = verdict /\ edited' = TRUE
  BY DEF EdgeInv, FileChanges
<1>2. KeyShape' /\ KeyKeeps
  BY <1>1, SameKeyKeeps
<1>3. chain' = chain /\ TopSeq' = TopSeq
  BY <1>1 DEF chainVars, TopSeq
<1>4. job' = AtRest
  BY <1>1 DEF JobShape
<1>5. JobShape'
  BY <1>4, RestIsFine
<1>6. VerdictShape' /\ Proven' /\ AlarmNeedsACause'
  BY <1>1, <1>2, VerdictKept
<1>7. Copied(copy.links) /\ DOMAIN copy = {"links", "seen"}
  BY <1>1 DEF CopyShape
<1>8. \E n : copy' = [copy EXCEPT !.links = n] /\ Copied(n)
  <2>1. PICK s \in DOMAIN copy.links :
          \/ copy' = [copy EXCEPT !.links = [t \in DOMAIN copy.links \ {s} |-> copy.links[t]]]
          \/ \E from \in 0 .. s - 1, h \in {"kept", "welded", "none"} :
               LET link == [from |-> from, to |-> IF from = 0 THEN 0 ELSE s - 1, next |-> <<>>, by |-> "edit"]
                   below == IF s = 1 THEN <<>>
                            ELSE IF s - 1 \in DOMAIN copy.links THEN copy.links[s - 1].head ELSE NoHead
               IN  copy' = [copy EXCEPT !.links[s] =
                      [link |-> link,
                       head |-> IF h = "kept" THEN copy.links[s].head
                                ELSE IF h = "welded" /\ below # NoHead THEN Weld(below, link)
                                ELSE NoHead]]
    BY DEF FileChanges
  <2>2. CASE copy' = [copy EXCEPT !.links = [t \in DOMAIN copy.links \ {s} |-> copy.links[t]]]
    <3>1. PICK n : n = [t \in DOMAIN copy.links \ {s} |-> copy.links[t]]
      OBVIOUS
    <3>2. Copied(n)
      BY <3>1, <1>7 DEF Copied
    <3>3. QED BY <2>2, <3>1, <3>2
  <2>3. ASSUME NEW from \in 0 .. s - 1, NEW h \in {"kept", "welded", "none"},
               LET link == [from |-> from, to |-> IF from = 0 THEN 0 ELSE s - 1, next |-> <<>>, by |-> "edit"]
                   below == IF s = 1 THEN <<>>
                            ELSE IF s - 1 \in DOMAIN copy.links THEN copy.links[s - 1].head ELSE NoHead
               IN  copy' = [copy EXCEPT !.links[s] =
                      [link |-> link,
                       head |-> IF h = "kept" THEN copy.links[s].head
                                ELSE IF h = "welded" /\ below # NoHead THEN Weld(below, link)
                                ELSE NoHead]]
        PROVE  \E n : copy' = [copy EXCEPT !.links = n] /\ Copied(n)
    <3>1. PICK link : link = [from |-> from, to |-> IF from = 0 THEN 0 ELSE s - 1, next |-> <<>>, by |-> "edit"]
      OBVIOUS
    <3>2. PICK below : below = (IF s = 1 THEN <<>>
                                ELSE IF s - 1 \in DOMAIN copy.links THEN copy.links[s - 1].head ELSE NoHead)
      OBVIOUS
    <3>3. copy' = [copy EXCEPT !.links[s] =
                      [link |-> link,
                       head |-> IF h = "kept" THEN copy.links[s].head
                                ELSE IF h = "welded" /\ below # NoHead THEN Weld(below, link)
                                ELSE NoHead]]
      BY <2>3, <3>1, <3>2
    <3>4. PICK e : e = [link |-> link,
                        head |-> IF h = "kept" THEN copy.links[s].head
                                 ELSE IF h = "welded" /\ below # NoHead THEN Weld(below, link)
                                 ELSE NoHead]
      OBVIOUS
    <3>5. PICK n : n = [copy.links EXCEPT ![s] = e]
      OBVIOUS
    <3>6. copy' = [copy EXCEPT !.links = n]
      <4>1. copy' = [copy EXCEPT !.links[s] = e]
        BY <3>3, <3>4
      <4>2. QED BY <4>1, <3>5, <1>7
    <3>7. e.link.next = <<>>
      BY <3>1, <3>4
    <3>8. IsHead(e.head)
      <4>1. \A t \in DOMAIN copy.links : IsHead(copy.links[t].head)
        BY <1>7 DEF Copied
      <4>2. IsHead(below)
        BY <3>2, <4>1, NoHeadIs, EmptyIs
      <4>3. IsHead(Weld(below, link))
        BY <4>2, WeldIs
      <4>4. e.head \in {copy.links[s].head, Weld(below, link), NoHead}
        BY <3>4
      <4>5. QED BY <4>1, <4>3, <4>4, NoHeadIs
    <3>9. Copied(n)
      BY <3>5, <3>7, <3>8, <1>7 DEF Copied
    <3>10. QED BY <3>6, <3>9
  <2>4. QED BY <2>1, <2>2, <2>3
<1>9. PICK n : copy' = [copy EXCEPT !.links = n] /\ Copied(n)
  BY <1>8
<1>10. CopyShape'
  <2>1. Copied(n)'
    BY <1>3, <1>9 DEF Copied
  <2>2. copy'.links = n /\ copy'.seen = copy.seen /\ DOMAIN copy' = {"links", "seen"}
    BY <1>7, <1>9
  <2>3. Copied(copy.links)'
    BY <2>1, <2>2
  <2>4. QED BY <1>1, <1>3, <2>2, <2>3 DEF CopyShape
<1>11. Untouched'
  BY <1>1 DEF Untouched
<1>12. QED BY <1>2, <1>5, <1>6, <1>10, <1>11 DEF EdgeInv

(* A key with no links yet, and an empty copy.                             *)
LEMMA EdgeStarts == ASSUME EdgeInit PROVE EdgeInv
<1>1. /\ chain = <<>> /\ ring = 1 /\ reveals \in BOOLEAN
      /\ copy = [links |-> NoLinks, seen |-> Unseen] /\ job = AtRest /\ heads = NoLinks
      /\ verdict = Nothing /\ edited = FALSE
  BY DEF EdgeInit
<1>2. TopSeq = 0 /\ DOMAIN NoLinks = {} /\ MaxLinks \in Nat
  BY <1>1, EdgeAssumption DEF TopSeq, NoLinks
<1>3. KeyShape
  BY <1>1, <1>2, EmptyIs DEF KeyShape
<1>4. CopyShape
  BY <1>1, <1>2 DEF CopyShape, Copied, Unseen
<1>5. JobShape
  BY <1>1 DEF JobShape, PreRead, Read, Told, AtRest
<1>6. VerdictShape /\ Proven /\ AlarmNeedsACause
  BY <1>1, <1>2 DEF VerdictShape, Proven, AlarmNeedsACause, AcceptedStaysAccepted, Nothing
<1>7. HonestCopy
  <2>1. copy.seen.head = <<>> /\ copy.seen.seq = 0 /\ copy.links = NoLinks
    BY <1>1 DEF Unseen
  <2>2. TrueHead(0) = <<>>
    <3>1. IsHead(chain) /\ 0 \in 0 .. Len(chain)
      BY <1>1, EmptyIs
    <3>2. SubSeq(chain, 1, 0) = [i \in 1 .. 0 |-> chain[i]] /\ Len(SubSeq(chain, 1, 0)) = 0
      BY <3>1, PrefixIs
    <3>3. IsHead(SubSeq(chain, 1, 0))
      BY <3>1, PrefixIs
    <3>4. SubSeq(chain, 1, 0) = <<>>
      BY <3>2, <3>3, EmptySeq DEF IsHead
    <3>5. QED BY <3>4 DEF TrueHead
  <2>3. QED BY <1>1, <1>2, <2>1, <2>2 DEF HonestCopy, Honest, Whole, Reaches
<1>8. HonestRun
  BY <1>1 DEF HonestRun, PreRead, Read, Told, AtRest
<1>9. NestedGone /\ GapIsOpen
  BY <1>1, <1>2 DEF NestedGone, GapIsOpen, Nothing
<1>10. QED BY <1>3, <1>4, <1>5, <1>6, <1>7, <1>8, <1>9 DEF EdgeInv, Untouched

(* Every step keeps the invariant.                                         *)
LEMMA EdgeSteps == ASSUME EdgeInv, [EdgeNext]_edgeVars PROVE EdgeInv'
<1> HIDE DEF EdgeInv
<1>1. CASE KeyWrites \/ KeyRestarts
  BY <1>1, EdgeKeySteps
<1>2. CASE BeginRun("sync") \/ BeginRun("catch")
  BY <1>2, BeginStep
<1>3. CASE ReadHead
  BY <1>3, ReadHeadStep
<1>4. CASE WeldHead
  BY <1>4, WeldHeadStep
<1>5. CASE WarmUp
  BY <1>5, WarmUpStep
<1>6. CASE ReadLinks
  BY <1>6, ReadLinksStep
<1>7. CASE ReadHeld
  BY <1>7, ReadHeldStep
<1>8. CASE Judge
  BY <1>8, JudgeStep
<1>9. CASE CatchUp
  BY <1>9, CatchUpStep
<1>10. CASE AcceptLoss
  BY <1>10, AcceptLossStep
<1>11. CASE Disconnect
  BY <1>11, DisconnectStep
<1>12. CASE FileChanges
  BY <1>12, FileChangesStep
<1>13. CASE UNCHANGED edgeVars
  BY <1>13, EdgeStutters
<1>14. QED
  BY <1>1, <1>2, <1>3, <1>4, <1>5, <1>6, <1>7, <1>8, <1>9, <1>10, <1>11, <1>12, <1>13, Zenon DEF EdgeNext

(* The invariant says what the reports are to say.                         *)
LEMMA VerdictFollows == ASSUME EdgeInv PROVE VerdictIsTrue
<1>1. KeyShape /\ CopyShape /\ JobShape /\ VerdictShape /\ Proven /\ AlarmNeedsACause
  BY DEF EdgeInv
<1>2. TopSeq \in Nat /\ MaxLinks \in Nat /\ TopSeq <= MaxLinks /\ ring \in 1 .. TopSeq + 1
  BY <1>1, KeyIs, EdgeAssumption DEF KeyShape
<1>3. \A s \in 1 .. TopSeq : s \in Seqs
  BY <1>2 DEF Seqs
<1>4. EdgeTypeOK
  <2>1. ring \in 1 .. MaxLinks + 1 /\ reveals \in BOOLEAN
    BY <1>1, <1>2 DEF KeyShape
  <2>2. DOMAIN copy.links \subseteq Seqs /\ DOMAIN heads \subseteq Seqs
    BY <1>1, <1>3 DEF CopyShape, Copied
  <2>3. copy.seen.seq \in 0 .. MaxLinks
    <3>1. copy.seen.seq \in 0 .. TopSeq
      BY <1>1 DEF CopyShape
    <3>2. QED BY <3>1, <1>2
  <2>4. job.at \in {"rest", "sync", "catch", "head", "again", "warm", "warmed", "read", "held", "judge", "catching"}
    BY <1>1 DEF JobShape, PreRead, Read
  <2>5. verdict.open \subseteq Seqs /\ verdict.lost \subseteq Seqs
    <3>1. \A s \in 1 .. verdict.seq : s \in Seqs
      BY <1>1, <1>2 DEF VerdictShape, Seqs
    <3>2. verdict.open \subseteq 1 .. verdict.seq /\ verdict.lost \subseteq 1 .. verdict.seq
      BY <1>1 DEF VerdictShape
    <3>3. QED BY <3>1, <3>2
  <2>6. verdict.kind \in {"none", "verified", "gap", "unsigned", "tampered"}
    BY <1>1 DEF VerdictShape
  <2>7. QED BY <1>2, <2>1, <2>2, <2>3, <2>4, <2>5, <2>6 DEF EdgeTypeOK
<1>5. VerifiedIsTheKeys
  BY <1>1, <1>4 DEF VerifiedIsTheKeys, Proven
<1>6. QED BY <1>1, <1>5 DEF VerdictIsTrue

(* What the computer, the key and the connection know of one another, in    *)
(* every state: the key's ring only moves on, what a run has read is the    *)
(* key's, a copy that nothing changed is whole and as far down as the ring  *)
(* (edge/cli/copy.js sync, edge/plugin/index.js head and pickup).           *)
THEOREM EdgeCopyInvariant == EdgeSpec => []EdgeInv
<1>1. EdgeInit => EdgeInv
  BY EdgeStarts
<1>2. EdgeInv /\ [EdgeNext]_edgeVars => EdgeInv'
  BY EdgeSteps
<1>3. QED BY <1>1, <1>2, PTL DEF EdgeSpec

(* However the key goes on and restarts while a copy is read, and whatever  *)
(* changes the copy at rest: a copy reported as verified is the key's but   *)
(* for what the key has a later LOSS for, a copy that nothing changed is    *)
(* reported as tampered only where a key that hides its heads no longer     *)
(* reached it, and no loss is asked for twice (edge/src/chain.js verify,    *)
(* edge/src/copy.js assess, edge/cli/copy.js sync).                         *)
THEOREM VerdictsAreTrue == EdgeSpec => []VerdictIsTrue
<1>1. EdgeInv => VerdictIsTrue
  BY VerdictFollows
<1>2. QED BY <1>1, EdgeCopyInvariant, PTL
=============================================================================
