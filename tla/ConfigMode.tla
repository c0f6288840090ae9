----------------------------- MODULE ConfigMode -----------------------------
(***************************************************************************)
(* Config mode as the host keeps track of it (src/plugins/device/index.js, *)
(* src/plugins/session/index.js).  A held button puts the key into config  *)
(* mode; only a restart ends it.  The wire never says which mode a key is  *)
(* in, so session.configMode records what this host did: enterConfigMode   *)
(* sets it when a label read fails after the hold, everything believed to  *)
(* restart the key clears it, and unlock, the derives and the signs read   *)
(* it.  Several screens share the session; each read and each request has  *)
(* a turn of its own in the key's lane and is one step here.               *)
(***************************************************************************)
EXTENDS Naturals

CONSTANTS Screens,      \* the parts of a program that share one session
          Attempts,     \* holds enterConfigMode tries
          MaxOps, MaxHands, MaxBusy   \* bounds: calls, things done by hand,
                                      \* label reads an unlocked key misses

ASSUME ConfigModeAssumption ==
  /\ Attempts \in Nat \ {0}
  /\ MaxOps \in Nat /\ MaxHands \in Nat /\ MaxBusy \in Nat

VARIABLES mode,        \* the key: "normal", "config" or "boot" (loader)
          locked,      \* the key wants its PIN
          console,     \* a DEBUG build, whose console takes '8' and '0C'
          configMode,  \* the session's flag
          op,          \* screen -> the call it has open
          causes,      \* what has made the flag and the key differ
          falseAlarm,  \* an unlock timed out on an open key, unexplained
          opCount, hands, busy

keyVars == <<mode, locked, console>>
countVars == <<opCount, hands, busy>>
cmVars == <<mode, locked, console, configMode, op, causes, falseAlarm, opCount,
            hands, busy>>

Rest == [kind |-> "none", attempt |-> 0, probing |-> FALSE, blind |-> FALSE]

OpKinds == {"hold", "poll", "pin", "wait", "restore"}
Ops == [kind : OpKinds \cup {"none"}, attempt : 0 .. Attempts,
        probing : BOOLEAN, blind : BOOLEAN]

Causes == {"busyRead", "otherLock", "openedEarly", "byHand", "noConsole",
           "refusedRestore", "silentDrop", "firmware"}

CmTypeOK ==
  /\ mode \in {"normal", "config", "boot"}
  /\ locked \in BOOLEAN /\ console \in BOOLEAN /\ configMode \in BOOLEAN
  /\ op \in [Screens -> Ops]
  /\ causes \subseteq Causes
  /\ falseAlarm \in BOOLEAN
  /\ opCount \in 0 .. MaxOps /\ hands \in 0 .. MaxHands /\ busy \in 0 .. MaxBusy

CmInit ==
  /\ mode = "normal" /\ locked \in BOOLEAN /\ console \in BOOLEAN
  /\ configMode = FALSE
  /\ op = [s \in Screens |-> Rest]
  /\ causes = {} /\ falseAlarm = FALSE
  /\ opCount = 0 /\ hands = 0 /\ busy = 0

\* Whether the flag says what the key is.
Agree(flag, m) == flag = (m = "config")

\* If the two differ after a step, why is kept until they agree again.
Blame(why) ==
  causes' = IF Agree(configMode', mode') THEN {} ELSE causes \cup why

\* A call starts.
Start(s) == op[s].kind = "none" /\ opCount < MaxOps /\ opCount' = opCount + 1
Ended(s) == op' = [op EXCEPT ![s] = Rest]

\* Screens whose unlock hears the key say UNLOCKED: it says so in normal mode
\* only, and every listener is on the same bus.
Announced(o) ==
  [s \in Screens |-> IF o[s].kind \in {"pin", "wait"} THEN Rest ELSE o[s]]

-----------------------------------------------------------------------------
(* enterConfigMode: hold, then read labels until one read fails.           *)

BeginEnter(s) ==
  /\ Start(s)
  /\ op' = [op EXCEPT ![s] = [Rest EXCEPT !.kind = "hold", !.attempt = 1]]
  /\ UNCHANGED <<keyVars, configMode, causes, falseAlarm, hands, busy>>

\* The hold lands on an open key in normal mode, which then locks, or is
\* swallowed (isfade, pending_operation) as a long press; on any other key it
\* does nothing that the host could see.
Hold(s) ==
  /\ op[s].kind = "hold"
  /\ \/ mode = "normal" /\ ~locked /\ mode' = "config" /\ locked' = TRUE
     \/ UNCHANGED <<mode, locked>>
  /\ op' = [op EXCEPT ![s].kind = "poll"]
  /\ UNCHANGED <<console, configMode, causes, falseAlarm, countVars>>

\* A read that throws is taken for the lock, whatever made it throw.
PollFails(s) ==
  /\ op[s].kind = "poll"
  /\ \/ locked \/ mode = "boot"
     \/ busy < MaxBusy
  /\ busy' = IF locked \/ mode = "boot" THEN busy ELSE busy + 1
  /\ configMode' = TRUE
  /\ Ended(s)
  /\ UNCHANGED <<keyVars, falseAlarm, opCount, hands>>
  /\ Blame({IF locked \/ mode = "boot" THEN "otherLock" ELSE "busyRead"})

\* Every read was answered until the deadline: hold again, or throw.
PollDeadline(s) ==
  /\ op[s].kind = "poll" /\ ~locked /\ mode # "boot"
  /\ IF op[s].attempt < Attempts
       THEN op' = [op EXCEPT ![s].kind = "hold", ![s].attempt = @ + 1]
       ELSE Ended(s)
  /\ UNCHANGED <<keyVars, configMode, falseAlarm, countVars>>
  /\ Blame({"openedEarly"})

-----------------------------------------------------------------------------
(* unlock: listen, probe if the flag is up, press the PIN, wait.           *)

\* Mutant: unlock waits for the announcement alone.
BeginUnlockDeaf(s) ==
  /\ Start(s) /\ locked /\ mode # "boot"
  /\ op' = [op EXCEPT ![s] = [Rest EXCEPT !.kind = "pin",
                                !.blind = ~Agree(configMode, mode)]]
  /\ UNCHANGED <<keyVars, configMode, causes, falseAlarm, hands, busy>>

BeginUnlock(s) ==
  /\ Start(s) /\ locked /\ mode # "boot"
  /\ op' = [op EXCEPT ![s] = [Rest EXCEPT !.kind = "pin",
                                !.probing = configMode,
                                !.blind = ~Agree(configMode, mode)]]
  /\ UNCHANGED <<keyVars, configMode, causes, falseAlarm, hands, busy>>

\* What an accepted PIN does: the key opens, and says so unless in config mode.
Opens(o) ==
  /\ locked' = FALSE
  /\ op' = IF mode = "normal" THEN Announced(o) ELSE o

EnterPin(s, right) ==
  /\ op[s].kind = "pin"
  /\ IF right /\ locked /\ mode # "boot"
       THEN Opens([op EXCEPT ![s].kind = "wait"])
       ELSE /\ op' = [op EXCEPT ![s].kind = "wait"]
            /\ UNCHANGED locked
  /\ UNCHANGED <<mode, console, configMode, causes, falseAlarm, countVars>>

\* The probe's label read is answered: the key is open.
Probe(s) ==
  /\ op[s].kind \in {"pin", "wait"} /\ op[s].probing
  /\ ~locked /\ mode # "boot"
  /\ Ended(s)
  /\ UNCHANGED <<keyVars, configMode, causes, falseAlarm, countVars>>

\* Nothing was heard in time.  The probe asks every 1.5 s, so the timer may
\* come before it asks a key that has just opened.
UnlockTimesOut(s) ==
  /\ op[s].kind = "wait"
  /\ falseAlarm' = (falseAlarm \/ (/\ ~locked /\ mode # "boot"
                                   /\ ~op[s].blind /\ ~op[s].probing))
  /\ Ended(s)
  /\ UNCHANGED <<keyVars, configMode, causes, countVars>>

-----------------------------------------------------------------------------
(* What restarts the key, or is believed to.                               *)

Restarted == mode' = "normal" /\ locked' = TRUE

\* Mutant: The flag outlives the restart, as it once did.
ConsoleRestartKeeps(s) ==
  /\ Start(s)
  /\ UNCHANGED configMode
  /\ IF console THEN Restarted ELSE UNCHANGED <<mode, locked>>
  /\ Blame(IF console THEN {} ELSE {"noConsole"})
  /\ UNCHANGED <<console, op, falseAlarm, hands, busy>>

\* restart() and wipeUserspace(): the flag is cleared and a console line
\* written, which only a DEBUG build reads.
ConsoleRestart(s) ==
  /\ Start(s)
  /\ configMode' = FALSE
  /\ IF console THEN Restarted ELSE UNCHANGED <<mode, locked>>
  /\ Blame({"noConsole"})
  /\ UNCHANGED <<console, op, falseAlarm, hands, busy>>

\* The dispatcher takes a restore only from an open key in config mode.
TakesRestore == mode = "config" /\ ~locked

\* restartByRestore(): a refusal is thrown and the flag kept.  A build without
\* RESTORE drops the frame in silence, which is what success looks like.
RestartByRestore(s) ==
  /\ Start(s) /\ mode # "boot"
  /\ \/ ~TakesRestore /\ UNCHANGED <<mode, locked, configMode, causes>>
     \/ /\ TakesRestore /\ configMode' = FALSE
        /\ Restarted \/ UNCHANGED <<mode, locked>>
        /\ Blame({"silentDrop"})
  /\ UNCHANGED <<console, op, falseAlarm, hands, busy>>

\* restore() with a passphrase sets the backup key first, in a request of its
\* own that a locked key or one outside config mode refuses.
BeginRestore(s) ==
  /\ Start(s) /\ mode # "boot"
  /\ op' = IF TakesRestore THEN [op EXCEPT ![s].kind = "restore"] ELSE op
  /\ UNCHANGED <<keyVars, configMode, causes, falseAlarm, hands, busy>>

\* The file is streamed and its verdict awaited; the flag goes down whatever
\* the verdict.  Loaded or refused by restore itself, the key restarts; a
\* refusal of the dispatcher restarts nothing.
StreamRestore ==
  /\ configMode' = FALSE
  /\ IF TakesRestore THEN Restarted ELSE UNCHANGED <<mode, locked>>
  /\ Blame({"refusedRestore"})

Restore(s) ==
  /\ \/ op[s].kind = "restore" /\ UNCHANGED opCount
     \/ Start(s)                       \* no passphrase: the stream at once
  /\ mode # "boot"
  /\ StreamRestore /\ Ended(s)
  /\ UNCHANGED <<console, falseAlarm, hands, busy>>

\* The key went to its boot loader before the file was sent.
RestoreLost(s) ==
  /\ op[s].kind = "restore" /\ mode = "boot"
  /\ configMode' = FALSE
  /\ Ended(s)
  /\ UNCHANGED <<keyVars, falseAlarm, countVars>>
  /\ Blame({})

\* requestFirmwareUpdate(): the key reboots into its loader.  The flag stays.
RequestFirmwareUpdate(s) ==
  /\ Start(s) /\ mode # "boot"
  /\ mode' = IF TakesRestore THEN "boot" ELSE mode
  /\ UNCHANGED <<locked, console, configMode, op, falseAlarm, hands, busy>>
  /\ Blame({"firmware"})

\* sendFirmware(): the last block is judged and the new firmware boots.
SendFirmware(s) ==
  /\ Start(s) /\ mode = "boot" /\ Restarted
  /\ UNCHANGED <<console, configMode, op, causes, falseAlarm, hands, busy>>

-----------------------------------------------------------------------------
(* The holder's hands.                                                     *)

ByHand == hands < MaxHands /\ hands' = hands + 1

HandUnlock ==
  /\ ByHand /\ locked /\ mode # "boot" /\ Opens(op)
  /\ UNCHANGED <<mode, console, configMode, causes, falseAlarm, opCount, busy>>

HandLock ==      \* the idle lock, or button 3
  /\ ByHand /\ ~locked /\ mode # "boot" /\ locked' = TRUE
  /\ UNCHANGED <<mode, console, configMode, op, causes, falseAlarm, opCount, busy>>

Replug ==
  /\ ByHand /\ Restarted
  /\ UNCHANGED <<console, configMode, op, falseAlarm, opCount, busy>>
  /\ Blame({"byHand"})

-----------------------------------------------------------------------------
Answering(s) ==
  \/ Hold(s) \/ PollFails(s) \/ PollDeadline(s)
  \/ EnterPin(s, TRUE) \/ EnterPin(s, FALSE) \/ Probe(s) \/ UnlockTimesOut(s)
  \/ op[s].kind = "restore" /\ Restore(s)
  \/ RestoreLost(s)

CmNext ==
  \/ \E s \in Screens :
       \/ Answering(s)
       \/ BeginEnter(s) \/ BeginUnlock(s) \/ BeginRestore(s)
       \/ op[s].kind = "none" /\ Restore(s)
       \/ ConsoleRestart(s) \/ RestartByRestore(s)
       \/ RequestFirmwareUpdate(s) \/ SendFirmware(s)
  \/ HandUnlock \/ HandLock \/ Replug

\* A call that has begun goes on: holds are delivered, reads answered or timed
\* out, and unlock has a timer.
CmSpec == CmInit /\ [][CmNext]_cmVars /\ WF_cmVars(\E s \in Screens : Answering(s))

-----------------------------------------------------------------------------
(* Properties.                                                             *)

\* Whenever the session's flag differs from the key's mode, something with a
\* name made it so since they last agreed, or a screen is between its hold and
\* its first failed read.  Nothing else the library does parts the two: each
\* restart it knows of clears the flag, and a refusal it can hear keeps it.
FlagNeedsACause ==
  /\ CmTypeOK
  /\ Agree(configMode, mode) \/ causes # {} \/ \E s \in Screens : op[s].kind = "poll"

\* An unlock that times out ("the PIN may be wrong") over an open key began
\* when the flag was wrong, or probes and had its next read still to come: any
\* other unlock sees the key open, whoever opened it.
OpenKeyIsSeen == ~falseAlarm

\* The session's flag, and what an unlock concludes by it, are wrong only for
\* such a cause.
FlagIsToBlame == FlagNeedsACause /\ OpenKeyIsSeen

\* Every call comes to an end, however often the gesture is swallowed.
CallsComeBack == []<>(\A s \in Screens : op[s].kind = "none")
=============================================================================
