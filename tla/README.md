# A TLA+ verification of node-onlykey-lib

node-onlykey-lib is the host side of the OnlyKey, a hardware security key: a
library of transports, protocols and plugins that an app, a browser page, a
command line or an agent service uses to talk to one key.  The key has one
buffer for requests and one for answers, its replies carry no request
identifiers, some of its answers wait for a person to press a button, and
several parts of a program use it at the same time.  Most of what can go wrong
is therefore in *who gets which answer*, and most of that never happens in a
test.  This project models that part of the code, checks it with TLC, and
proves the theorems it rests on with TLAPS.

Paths below are relative to the repository.  Every definition that models code
is listed in `PROJECT.json` under `map` with the lines it stands for.

## 1. The system

### Components

| component | where | state | operations | what makes it correct |
|---|---|---|---|---|
| transport lane | `src/transport/lane.js` | `running`, `waiting` | `lane(fn, opts)`, `next` | one conversation at a time; order; urgent first; always handed over |
| pipe transport | `src/transport/pipeTransport.js` | listeners, timers, the pipe | `request`, `requestNow`, `write`, `open`, `close`, `destroy` | a request takes its own answer, and ends |
| vendor bridge | `src/transport/vendor-bridge.js` | `pending`, report index | `getAssertion`, `cancel` | one answer, whole, of this request |
| BLE socket | `src/transport/ble-socket.js`, `mcp/localhost/ble.js`, `cli/ble-link.js` | the current socket of each end, held pieces | dial, text, close, WHERE, a link that drops | each end hears what the other said, on the socket it said it |
| chunking | `src/protocol/chunk.js` | `packetCounter` | `planKeyhandleChunks`, `sendChunked`, `pollForResponse` | the key reads what was sent; the reply is one reply |
| CTAPHID client | `src/protocol/ctaphid.js` | `cid`, reader queue, assembler | `init`, `sendRaw`, `send` | whole messages, own answers, nothing done twice |
| CTAP bridge | `src/protocol/bridge.js` | `channel` | `handle`, `reset` | always answers, never with an earlier answer |
| tunnel operations | `plugins/okcrypto/index.js` | `tunnelSession`, `lastStagedAt`, `replyWhole` | derive, `connectTunnel`, `tunnelOperation` | the session key is the key's; a result is this operation's |
| vendor operations | `plugins/okcrypto/index.js` | listener, timer, whether a press is on the sheet | `deviceOperation`, `beforePress`, `settleStaleTimers` | the answer is to this request; the press asked for is put away |
| session | `plugins/session/index.js` | status, capabilities, `configMode` | `connect`, `probe`, `observeStatus` | says what the key is in |
| device, writes | `plugins/device/index.js` | the frame a call is at, its timer and retries | `setSlot`, `loadKey`, `generateEccKey`, `wipeKey`, `wipeSlot`, labels | a success reported is a success of the key; a name names the key that is there |
| device, modes | `plugins/device/index.js` | `configMode`, the lock of the key | `enterConfigMode`, `unlock`, `restart`, `restore`, firmware | the flag does not say more than happened; an open key is seen |
| device, PIN | `plugins/device/index.js`, `device/pin.js`, `device/console.js` | the step of the bracket, lines kept | `setPin`, `waitForStep` | success is that PIN stored; no refusal without a cause |
| edge, copy | `edge/cli/copy.js`, `edge/src/chain.js`, `edge/src/copy.js`, `edge/plugin/` | the copy on disk, the heads of this connection | `sync`, `catchUp`, `loss`, `head`, `warmUp` | a copy said to verify is the key's chain; an alarm has a cause |
| edge, budgets | `edge/src/client.js`, `edge/src/plan.js`, `edge/cli/agent.js` | what each budget owes and has spent, open commands | `open`, `use`, `receipt`, `end`, `continue`; an exec; a plan's run | each paid use has one asker, who learns of it; no budget ends owing |
| bucket | `bucket/src` | records with dates, a clock, the file | `kv`, `merge`, trades, sealed copy | the newest is never lost; devices agree |
| list stores | `guestbook/`, `keychain/`, `passwords/`, `cryptobox/`, `bucket/src/rules.js` | lists of one record, or records and an index | edits, merge rules, exchange in parts | both devices end alike; what was removed stays removed |
| room | `mcp/core/room.js`, `bucket/src/room-client.js` | the sockets that joined, requests waiting | join, down, a frame to a peer | presence is true; an answer is to the request it is given for |
| agent plans | `mcp/core/mcp.js`, `mcp/core/room.js` | the agent's copy of a plan, the room's mirror | `plan_new` .. `plan_wait`, claim, update | one device runs a plan; the agent is told what the owner said |
| codecs, crypto, tables | `src/protocol`, `src/crypto`, `src/device` | none | pure functions | test vectors |
| shells | `desktop`, `cli`, pages | files | commands | - |

### How they interact

Every plugin that talks to the key does so in the transport's *lane*, a queue
that runs one conversation (a write, its replies, a press) at a time.  Inside a
conversation a plugin uses raw writes and listeners, `requestNow`, a `CtapHid`
client, or the vendor bridge.  okcrypto reaches the key over the *tunnel*: a
WebAuthn assertion whose credential ID carries the request and whose signature
carries the reply.  The tunnel runs over a browser, a `CtapHid`, or the vendor
bridge.  The bridge for Bluetooth hosts has a `CtapHid` of its own on the same
transport.

The device plugin's writes take the lane frame by frame, so other callers come
between the frames of one call.  The key tells of itself on two interfaces, the
reports of a request and a console log, in no common order.

The bucket does not talk to the key at all: devices of one person exchange its
records through a room (two sides, `HELLO`, `PROVE`, `HAVE`, `GIVE`) and through
a sealed copy on a server.  The stores put their lists in it, and give it the
rules by which two versions of a list become one.  The same room carries an agent's
plan to the devices of its owner, and a phone may be in it over Bluetooth.

The key keeps a chain of *links*: each use of an agent's budget, each receipt
for it, each budget opened and ended.  A computer keeps a copy, and checks it
against the head the key names; an agent's service and the runner of a plan
pay their uses from budgets a person opened, on one key, side by side.

### What is hard

* Replies have no request identifiers: *whoever listens next takes what comes
  next*.  A request that was given up leaves an answer behind.
* The key serves its last reply again to whatever comes next, until a timer of
  its own wipes it; the host can only wait that timer out, and only if it knows
  when the key last served.
* Every key exchange, each derive included, replaces the key's transit key.
* The key drops a packet whose number is not above its mark, and says success.
* A broken write, a time-out, a cancel and the answer race each other, and each
  must let go of the lane, once.
* A message in several packets may be cut by the key's timer, by a new message,
  or by a reader that opens in the middle of it.
* A call of the device plugin is a plan of frames; any of them may be silent,
  late or refused, and another call may touch the same slot in between.
* `configMode` is the host's opinion of a key that a person unlocks, locks and
  unplugs; nothing on the wire says it.
* OKPIN toggles: what a step of the PIN bracket means depends on all before it.
* Two devices write the same record with clocks that disagree, trade, lose the
  end of a trade, restart from a file of before, and must neither lose the
  newest record nor trade for ever.
* A copy is read from a ring that the key writes on meanwhile, and that keeps
  one link over a restart: what the copy lacks may be gone, and an old firmware
  does not tell the heads that would prove it.
* A use whose answer was lost has been paid and is owed.  Nothing but a look at
  the key's newest links says so, and others link beside it.
* A member of a room dials again before the room knows its last socket is dead.
* A Bluetooth link says neither which socket a message is of, nor that a
  notification was lost.

`PROJECT.json` lists each hazard at its line, with the properties that would
catch it.

## 2. The modules

| module | models | actions |
|---|---|---|
| `LaneContract` | what the lane promises, without a queue | ask, hand over |
| `Lane` | `lane.js` | `CallIdle`, `CallBusy`, `Settle`, `Release` |
| `PipeTransport` | `pipeTransport.js`, a `Lane` inside | `Call`, `Release`, `KeyTakes`, `WriteDone`, `WriteFails`, `Timeout`, `Answer`, `Broadcast`, `Open`, `Close`, `Destroy` |
| `VendorBridge` | `vendor-bridge.js`, a `Lane` inside | `Call`, `Release`, `WriteFrame`, `WriteFails`, `Timeout`, `KeySays`, `Cancel` |
| `KeyhandlePlan` | `planKeyhandleChunks` and the loop of `sendChunked` | `Slice`, `Sliced`, `Reshape`, `Refuse`, `SendChunk` |
| `TunnelKey` | the key, as the tunnel meets it (external) | operators from a key to a key and a reply |
| `Tunnel` | the tunnel half of okcrypto with `sendChunked` and `pollForResponse`, a `Lane` inside | `Call`, `Release`, `ConnectTunnel`, `KeepSession`, `Settle`, `SendChunk`, `SendFails`, `Poll`, `GiveUp`, `Finish`, `SendDerive`; the key's `Wipe`, `Press`, `Lapse`; `OtherClient` |
| `CtapHid` | `ctaphid.js` and `bridge.js` | `Start`, `HearInit`, `WritePacket`, `Read`, `CallbackDone`, `Fail`, `Timeout`, `Reset`; the key's `KeyKeepAlive`, `KeyAnswers`, `KeyIgnores`; `Deliver` |
| `VendorOperation` | okcrypto's `deviceOperation` over the vendor interface | `NotAllowed`, `CallOp`, `HostGoesOn` (settle, write, confirm, wait, answer, time-out, rest, file), `WriteRefused`, `ConfirmThrows`; the key's `KeyAnswers`, `KeyGivesUp`, `KeyWipes`, `KeyTimersEnd`, `KeyForgets` |
| `BleRoom` | the socket over Bluetooth, both ends and the link | `Dials`, `PhoneSays`, `PhoneCloses`, `PhoneHears`, `Asks`, `ServerSays`, `ServerCloses`, `ServerHears`; `LinkComesUp`, `LinkDrops`, `ServerHearsDown`, `PhoneHearsDown`, `NotificationLost` |
| `DeviceWrites` | the device plugin's calls that write keys, labels and slots | `Begin`, `Ask`, `Hear`, `Skip`, `WindowEnds`, `TimeOut`; the key's `KeyStores`, `KeyRefuses`, `KeyDrops` |
| `ConfigMode` | `configMode` and the calls that set, clear and read it | `BeginEnter`, `PollFails`, `PollDeadline`, `BeginUnlock`, `EnterPin`, `Probe`, `UnlockTimesOut`, `ConsoleRestart`, `RestartByRestore`, `BeginRestore`, `Restore`, `RestoreLost`, `RequestFirmwareUpdate`, `SendFirmware`; the holder's `Hold`, `HandUnlock`, `HandLock`, `Replug` |
| `PinBracket` | `setPin`, the PIN sequence and its two channels | `SetPin`, `SendOkpin`, `SendDigits`, `DigitsIn`, `HearWire`, `HearLog`, `AwaitCommit`, `TimesOut`; `CallerPresses`; the key's `KeyTakesOkpin`, `KeyTakesDigit`, `KeyCommits` |
| `Bucket` | the record store and its merge, as operators | |
| `BucketSync` | devices with a bucket each, a room and a server: `trade.js`, `roomsync.js`, `sealedcopy.js`, `roomservice.js` | `Set`, `Remove`, `Join`, `Leave`, `Restart`; of a trade `StartTrade`, `SendProve`, `SendHave`, `TakeGive`, `Settle`, `EndTrade`, `GiveUp`, and `Answer...` on the other side; of a round `StartRound`, `TakeRows`, `PutRows`, `FailRound` |
| `ListStores` | the rules of `rules.js` for the Guest Book, the Crypto Box, the Keychain and Passwords, and the edits that feed them | `EditContact`, `AddMessage`, `MoveThread`, `RemoveMessage`, `RecordKey`, `PutEntry`, `RemoveEntry`, `WriteIndex`, `DropIndex`, `Exchange` |
| `EdgeCopy` | a computer's copy of the chain: `sync`, `catchUp`, `verify`, `assess`, the plugin's heads | `BeginRun`, `ReadHead`, `WeldHead`, `WarmUp`, `ReadLinks`, `ReadHeld`, `Judge`, `CatchUp`, `AcceptLoss`, `Disconnect`; the key's `KeyWrites`, `KeyRestarts`; `FileChanges` |
| `EdgeBudget` | budgets on one key: the client, the agent's service, the runner of a plan | of a use `SignAsked`, `ReadHead`, `StartTx`, `SignPaid`, `SignRefused`, `SignPressed`, `SignUnheard`, `Look`, `Pickup`, `KeyOwed`; `ExecAsked`, `ExecOpens`, `ExecCloses`; `BudgetAsked`, `PhoneGrants`, `PhoneDeclines`, `BudgetOpens`, `ContinueAsked`, `ContinueRevokes`, `EndAsked`, `EndRevokes`; `AgentFiles`, `FileReceipt`, `AskNewest`; `PlanSigns`, `PlanReceipts`, `PlanEnds`, `PlanRevokes`; `KeyLocks`, `OtherLinks` |
| `Room` | presence and frames: the service's sockets and a member's end | `RoomHears`, `SocketCloses`, `JoinOverdue`; `Connect`, `MemberHears`, `Drops`, `AskPeer`, `Answers`, `NoAnswer` |
| `AgentPlan` | an agent's plan: its copy, the room's mirror, the owner's devices | `PlanNew`, `PlanRemove`, `PlanSubmit`, `PlanData`, `DataGoes`, `DataRefused`, `PlanFinish`, `PlanWait`; `OwnerSets`, `TapApprove`, `TapDecline`, `Arrives`, `Leaves`, `TakesClaim`, `TakesUpdate`, `Reports` |
| `LaneProofs`, `PipeProofs`, `VendorProofs`, `TunnelProofs`, `CtapProofs`, `DeviceProofs`, `BucketProofs`, and `PlanProofs` for the keyhandle plan, agent plans, budgets and the room | the theorems | |

`MC...` modules only give bounds.  The action a line of code belongs to is the
one that ends at its next `await`: an action runs from one point where the
event loop may do something else to the next.  `Lane` splits the end of a
conversation in two (`Settle`, then `Release`) because its promise settles a
microtask before the lane hears of it; what composes a lane inherits that.

*Lane.* `running` and `waiting` are the code's.  `phase` says where each caller
is: it makes the caller's side of the promise visible.

*PipeTransport.* `listening` is the code's flag of each request, `armed` says
whose timer is set, `owed` is what the key has yet to answer.  `result` records
whose answer a request resolved with: `own`, `late` (of a request given up),
`swapped` (of one that still waits), `crossed` (of the other interface) or
`broadcast`.  `KeyTakes` and `WriteDone` are two steps since a reply can beat
the acknowledgement of the write.

*VendorBridge.* `looping` says whose write loop still runs.  The key holds the
frames it has, and answers in indexed reports that carry whose frames the
answer was made from.

*Tunnel.* `session` is the transit key the host holds (`tunnelSession`), as a
number; the key's own is `dev.key`, and `Unshared` stands for a key agreed with
nobody.  `dev.version` is the kind of key, chosen in `Init`: transit v1, v2, or v2
with the patch that wipes delivered replies.  The clock is abstracted: the host waits 5.5 s after the last reply it
heard, the key wipes 5 s after the last it served, so the wait outlives the
wipe exactly when the host heard the last reply the key served or staged; that
is what `known` says.  Lengths count half pieces of 512 bytes.  `clean`,
`stale` and `dropped` are history: the operations that began with nothing of
another unheard, that were answered with an old reply, and that lost a
keyhandle to the duplicate guard.

*CtapHid.* `bridges` says which clients are those of a bridge; it never changes.
A message is one or two packets.  `packets` of a finished message
holds whose packets it was put together from.  What may go wrong of the code's
own accord are late answers, and each has a cause: a request given up (the key
still answers it), a resend of a message the key refused but another client on
the same channel had answered, or, with two clients on one channel, an answer
taken that was another's.

*DeviceWrites.* A call is a plan of frames (`Plan`), each in the lane by itself.
`store` is what the key holds in each cell, `told` what the caller was told is
done, `stored` how often the key did it.  What the key says travels in `wire`,
and carries no request: `Hear` takes what matches, as `sendField` does.
`loose` and `shared` are histories: a conversation that ended before its answer,
two calls for one cell open at a time.  The code guards against neither, so
`ToldIsStored` and `NamesAgree` excuse what follows from them, and say that nothing
else misleads a caller or leaves a wrong name; that a call generates one key at
most is excused by neither.  `busQuiet` is no guard of `generateKey`: it goes ahead
at its cap, and a report may still be on its way when it does not.

*ConfigMode.* `configMode` is the session's flag; `mode`, `locked` and `console`
are the key's.  `causes` is a history: why the flag may say something else than
the key is in.  A probing unlock asks every 1.5 s, so its timer may come between
the key's opening and the question: that one failure over an open key is not
called a false alarm.

*PinBracket.* The key takes OKPIN frames and digits in the order they were
written, and says its lines on both channels; a step waits on the wire first
and on the console after, as `waitForStep` does, and sees only what came since
the mark it set.  The last ack clears the timer as it is heard, so a digits
step does not time out once all are in.

*BucketSync.* `bucket` and `kept` are a device's bucket in memory and its file,
and `Reads` what its clock may show.  A trade has two ends, `tr` on the side
that asks and `ans` on the side that answers, and each message is a step.  `newest` is a
history, the latest record ever written of each key.

*VendorOperation.* `stage` is how far a call is, `opLane` the calls in the lane.
A packet carries its operation and its attempt, an answer the packets it was
made from: `AnswersItsRequest` compares them.  `okey.deaf` is a key that timed
out between two packets and takes the rest for another request.  Two things
the model reaches and no property forbids: a `confirm()` that polls
`isAnswered()` goes on after the timer has fired, because that stays false
(`okcrypto/index.js:452-456`, `470-476`); and one that throws after the answer
came leaves the time of the operation's end unrecorded.

*BleRoom.* A message names no socket in the code; in the model it carries the
dial it was of (`n`), for the properties.  `why` is a history of what may excuse
a text put together from two, or two ends that disagree: a notification lost,
a link cut while the phone held pieces (its decoder outlives the link), a dial
that crossed what the server said to the socket before.

*EdgeCopy.* A head stands for the links up to it, so it is their sequence, and
welding a link to a head appends it.  `heads` is the plugin's tracker,
`job` what a run has read so far, each read of the key a step.  `FileChanges`
is anything else that writes the copy.  `NoHead` is a head the computer
cannot tell (an old firmware does not reveal them): a sequence that no links
make.

*EdgeBudget.* `ring` is the key's chain since the service started, a budget the
position of the link that opened it, `book` what the client keeps of each.  A
call is one step with one of three ends: answered, done and the answer lost, or
never heard.  `crossed` is a history: the commands, the plan, the end that had
another's use linked beside them.  A use's link says which step of its budget it
is (`StepOf`), and the client takes that for what is spent (`client.js:208`,
`235`), not a count of its own.  A command may ask for a sign with no budget held:
it is marked used, and what the key owes is taken for its own, before it fails.
An ordinary press makes no link, and the ring
is taken to hold every use that is owed (the firmware keeps 8); agent.js's
continue of a budget that is gone is the `continue` request.

*Room.* A socket is a member and the number of its dial; two of one member may
be open.  `announced` is a history of whom the others were told of; that a member
is let in with nobody told takes three sockets of it, which the run does not have
and the theorem does.
`joinedAt` tells the joins of one member apart, which the code's milliseconds do
unless two come in the same one.

*AgentPlan.* Storage answers in microtasks on the localhost service, so a
handler is one step but for `plan_data`, which awaits digests with the copy of
the plan it read in hand (`reading`).  `lapped` is a history: something came
while a call held its copy.  A call's items are a list, so that it may name one
twice (`times`): nothing refuses that, and the data goes twice.  What a device does
of its own accord is external.

*ListStores.* Each list is a set of items with dates and one date of its own.
An exchange is one step: the bucket's own protocol is in `BucketSync`; the parts
that differ are taken by both sides, or by one, when it is cut off.  With equal
dates it is the texts that decide which list is the older, and a list put
together from parts is not written as one that was saved: `Ties` and
`PartsUnder` say what comes of it.  For the Key Chain that is a device's own list, on
either side; for the Crypto Box it hangs on the order of fields and messages, so it
is left open.  An entry of the Passwords is written, and its index after it by a
write of its own that may not come (`WriteIndex`, `DropIndex`); one `put` or `remove`
of a device is awaited before the next, as the repository's tests do, which are all
that call it.

## 3. The runs

Passing runs:

| run | module | what it asks | bound |
|---|---|---|---|
| `lane` | `MCLane` | one conversation at a time and the queue's order (`LaneInv`), that it implements `LaneContract` (`KeepsContract`), who is served when (`Served`) | five callers, two urgent |
| `pipe_transport` | `MCPipeTransport` | `SlipNeedsACause`: a request takes another's answer only after one was given up or a broadcast came; `NothingLeftBehind`; `IsALane`: the lane's specification is kept, its fairness too. The Bluetooth socket: `HeardAsSaid`, `DialIsAnswered` | a plain and a matching vendor request, a FIDO request; two dials, two texts, two links, one notification lost, one WHERE |
| `vendor_bridge` | `MCVendorBridge` | `AnswerIsOne`: an answer is never two put together, and another's only after a call was given up; `IsALane`. Vendor operations: `AnswersItsRequest`, `SheetIsPutAway`, `OperationsEnd` | three calls of two frames and two reports; two operations of three packets |
| `plans_and_room` | `MCRooms` | keyhandles: `PayloadIsRead`; the room: `RoomAgrees`; agent plans: `OneRunner`, `AgentIsTold`; budgets: `UsesAreTheirOwn`, `BudgetsEndClean` | see below |
| `tunnel_and_ctaphid` | `MCTunnel` | the tunnel: `OwnIfClean`, `DropNeedsACause`, `SessionIsShared`; every call lets go of the lane (`LaneIsLetGo`). The requests under it: `WholeMessages`, `LateNeedsACause`, `DoneOnce`: the one resend does nothing twice; `RequestsEnd` | any three calls of two operations, a derive and a connect; each kind of key; another client connecting once; numbers wrap after two. One client, a bridge or okcrypto's; two long requests and a short one: two clients on one channel are what `ctaphid_shared` looks at, and the theorems hold of any number |
| `buckets` | `MCBuckets` | `NewestKept`, `QuietRoundAgrees`: after an undisturbed trade both hold the same; `Spreads`. The lists: whoever merges, both come to the same, but for what `list_stores_cut` shows (`ExchangeAgrees`); the last edit of a contact stands (`ListsStand`); no live entry is left off every index (`EntriesListed`); `NothingComesBack` | two devices and the sealed copy, see `Buckets.cfg`; each of the four stores, two items of two values, three edits |
| `device` | `MCDevice` | writes: `ToldIsStored`, `NamesAgree`; config mode: `FlagIsToBlame`; the PIN: `SuccessIsThePin`; the copy of the chain: `VerdictIsTrue`; `EveryCallEnds` | two callers, two calls of any kind; two screens, five calls; three brackets of two digits; a ring of two, four links, three runs, a restart, an edit |

Runs that show the code and a comment of the code disagree:

| run | the comment | what happens |
|---|---|---|
| `vendor_bridge_frames` | `lane.js:20-21`, the lane holds a conversation "from the first write until its answer is in" | the write loop goes on after the time-out, between the next call's frames |
| `tunnel_stale` | `okcrypto/index.js:1473-1474`, "A stale buffer served instead would not open" | a stale reply under the same transit key opens: nothing compares its counter |
| `list_stores_renewal` | `rules.js:6-10` and `record.js:161`: "where both have it the NEWER wins", a renewal replaces the saved certificate | the older list's certificate stays: `combine` is handed it first |
| `list_stores_cut` | `rules.js:22`, "the same tie-break as newer()), so a merge run on either device is the same" | a cut exchange leaves equal dates; the tie-break compares the saved list with one joined from parts, so each device's own is the older: each keeps its own certificate, and they trade for ever |
| `ctaphid_shared` | `ctaphid.js:465-466`, the nonce tells our reply from another client's | the nonce is a constant: two clients take one channel |

More comments hold only in part, and the model states the part that does:

* "Another conversation's report cannot be here (the lane)"
  (`vendor-bridge.js:97`) is true until a request is given up: the lane ends
  with the promise, and the key's answer comes to the next request, as
  `vendor-bridge.js:80-81` itself tells (a part of `AnswerIsOne`).
* "Restarting at 1 is safe at an operation boundary" (`chunk.js:87`) is true
  until an operation is given up between its keyhandles or another client
  connects: the key's mark stays, and its duplicate guard drops the keyhandles
  of an operation that restarts below it (`DropNeedsACause`).
* `restore()` clears `configMode` on any error, "the device restarts" or not
  (`plugins/device/index.js:3051`): a refusal restarts nothing.  A firmware
  request leaves it set, a label that cannot be read is taken for the lock, and
  `restart()` and `wipeUserspace()` clear it on a build that ignores both
  (`FlagIsToBlame` names each as a cause).
* "An exec opens only when the key owes nothing" (`agent.js:133-136`), so what
  the key owes after a failed use is taken for this command's: not so when
  another use was linked beside it (`ToldOfItsOwn`).
* A filed receipt "is the newest link" (`client.js:255-259`, `289-291`): behind
  the last receipt of a budget the key writes the budget's end, so that a plan
  whose last answer is lost is called failed though it is done
  (`PlanFailsForACause`).
* `follows` (`edge/cli/copy.js:171`) refuses the second link of a ring that
  begins behind the copy's end: with a firmware that hides heads an honest copy
  is called tampered (`AlarmNeedsACause`).
* A member that joins while its older socket's close is pending, after the
  others were told it is down, is not announced (`room.js:113-119`; the
  exception in `RoomAgrees`).
* `plan_data` saves the copy it read: the owner's word, or another call's items,
  that came meanwhile are lost (`lapped` in `AgentIsTold`).  "Item's data was sent
  already" (`mcp.js:440`) refuses what a call before has sent, and not what the
  list has named before: `AgentIsTold` is about calls, and bounds what a device is
  sent by how often one list names the item.
* An exchange makes two devices alike, but for the value of an item both hold
  when the dates are equal and its store goes by the order of the lists:
  `ExchangeAgrees` is whole lists (`WholesAgree`), parts where the dates differ or
  the store does not go by order (`PartsSuffice`), and, however the dates are,
  which items there are, removed or named (`FlagsAgree`).

`pipe_transport`, `vendor_bridge`, `plans_and_room`, `tunnel_and_ctaphid`,
`buckets` and `device` put modules side by side that share no state: a behaviour
is one of them (`part`), so that each is explored by itself in one run.  Where
two things of a part are alike (CTAP's two long requests, the two devices of a
list before anything is on it), the run begins with one of them, which leaves
out no behaviour but the same with the names exchanged.  A property of such a run
may be a conjunction of named parts, each with a comment of its own.

Every property of a passing run has a mutant: an edit of a mapped definition,
of the kind a bug would be, under which TLC finds that property violated.  The
mutants stand in the modules, before the definition each one replaces.

### Bounds, and why they are enough

The hazards are about pairs: a request and the one before it, a keyhandle and
the next, an operation and the derive between its steps.  Two requests show a
late answer taken; three show it passed on.  Five callers, two of them urgent,
are more than what an insertion into a queue needs to be wrong in every way.  Messages of
two packets and replies of two pieces have a first, a last and a boundary; no
code treats a third differently.  `MaxPacket` is small so that numbers wrap
within a run, where 255 would take as many keyhandles: the code compares with
the bound and never with 255 elsewhere.  `KeyhandlePlan` uses the real numbers
(57, 245, 20, 48, 70), since the arithmetic is what is checked.  Each request,
operation and derive is made once, and `Calls` bounds how many of them a run of
`Tunnel` makes; that is what bounds the runs.

`plans_and_room` is the widest.  In `Room` one member opens two sockets and the
other one, with two requests (`MaxMoves` 8 counts a socket as two): a socket
that replaces another needs no more.  In `AgentPlan` either two devices of the
owner race for a plan with one `plan_data` at a time, or two `plan_data` calls
overlap with one device; a call's list names an item twice at most (`MaxNamed`).  In `EdgeBudget` a budget has two uses and two are
opened; one answer is lost and one link of another comes; and there are four
mixes: the service alone, with a command that asks two signs, every request and a
lock; the service with a plan of two items beside it; the plan alone with
another's link; and two commands of the service, so that one use is found while
the next is already spent.  Devices are symmetric, and no liveness is checked there.
In `BleRoom`, with two notifications lost one message may be completed by the
rest of another; that is beyond the bound, and `HeardAsSaid` says nothing of it.

Deadlock is
not checked where all calls may be over, and it is the liveness properties that
say none is left.

### Fairness

Only what the host's event loop does is fair: promise jobs run, timers fire,
a write settles one way or the other (a pipe that hangs in a write does hold the
lane: listed as a hazard), and a ceremony of the browser ends.  Nothing is
assumed of the key, the user or another client: answers may never come.  In
`Tunnel` polls that bring nothing run out of budget and each piece that comes
renews it, as `pollForResponse` does.  `Lane` by itself assumes that a
conversation settles; `PipeTransport` and `VendorBridge` show, as `IsALane`,
that theirs do, and `Tunnel` as `LaneIsLetGo` (each of its steps is a step of
the lane or leaves it alone, by construction).  `tunnel_and_ctaphid` asks for less
than the two specifications do: only that some step of the host's is taken while
one goes on being there, whichever.

`BucketSync` assumes that what a device has begun goes on: a message of a trade
is taken or the trade given up, a round ends one way or the other (`Progress`);
writing, joining and leaving are free.  The device plugin's calls go on by their
timers (`Work`, `Answering`, `Onward`); the key and its holder need not act.
`BleRoom` assumes that a message on its way is delivered while there is a link
(`Delivers`), `VendorOperation` that a caller's `confirm()` returns, that the
host's waits end and that the key's timers run out (`OpOnward`); nobody need
press.  `EdgeCopy`, `EdgeBudget`, `Room` and `AgentPlan` are checked for safety
and assume nothing.

## 4. What is proved

`LaneProofs`, for any set of callers and any subset of urgent ones:
`TypeCorrect` (`Spec => []TypeOK`) and `LaneKeepsOrder` (`Spec => []LaneInv`).
The invariant is inductive with `TypeOK`: that the flag is held by somebody
exactly while it is true is what excludes a second conversation, and that the
queue holds each waiting caller once is what keeps a caller from starting
twice.  `UrgentFront` is given by its two defining facts in a lemma; the effect
of `Queue` and `Tail` on the queue is in lemmas of their own.
`LaneImplementsContract`: each step of the lane is a step of `LaneContract` or a
stutter, the safety part of `KeepsContract`.  It rests on what an insertion and
a release do to the set of those ahead of a caller (`QueueAheads`,
`ShiftAheads`).

`PipeProofs`, for any requests, with any of them FIDO's or plain, any number of
broadcasts: `TransportInvariant`, and from it `NothingOutlivesARequest`
(`NothingLeftBehind`) and `SlipsHaveACause` (`SlipNeedsACause`).  The key owes
an answer once to each request whose bytes it took and never to one that has
its own (`Owes`); so, while no request was given up and no broadcast came, what
it owes is the one request in the lane, and nothing can slip.
`TransportUsesALane` is the safety part of `IsALane`.  What a composing module
needs of the lane is taken from `LaneProofs` by `INSTANCE`, with nobody urgent.
For the room's socket over Bluetooth, with any number of dials, texts, links,
lost notifications and questions: `SocketHeardAsSaid` (`HeardAsSaid`), from
`BleInvariant`.  Each promise holds until what excuses its breach happens, and
the invariant has a part for each: until a notification is lost, or a link goes
in the middle of a text at the phone, a part is followed by its rest and by
nothing else (`TextsWhole`); until a dial crosses what the server still says, no
socket is spoken of but the last that was dialled (`OneSocket`); and until one of
these two (a loss or a crossing), a server that has a socket, or is to have one,
is told of its end exactly if the phone has none, and a phone whose socket the
server does not have is to hear a CLOSE (`EndsAgree`).

`VendorProofs`, for any calls, frames and reports: `OneAnswerToOneCall`
(`AnswerIsOne`) from `BridgeInvariant`.  What the key has yet to say is a chain:
behind a report that is not an answer's last comes the next of the same answer
(`Chain`), and a call that heard the first of one hears the rest next
(`Halfway`); this holds whatever was given up.  Until a call is given up, key
and frames are the pending call's alone (`Own`).  `BridgeUsesALane` is the
safety part of `IsALane`.  For vendor operations, with any number of them and
any messages: `PressesArePutAway` (`SheetIsPutAway`) and `AnswersAreTheirOwn`
(`AnswersItsRequest`), from `OperationInvariant`.  It says who is in the lane and
how far, and, until an attempt ended before the key was done with it (`left`), what
the key holds and what is on the air at each stage of the attempt that runs
(`KeyHeeds`): nothing of an earlier one.  Without those cases an answer cannot
be told from that of the attempt before.

`TunnelProofs`, for any operations, derives and connects, requests of any number
of keyhandles, replies of any length and any number of other clients:
`SessionAlwaysShared` (`SessionIsShared`), `CleanHaveTheirOwn` (`OwnIfClean`) and
`DropsHaveACause` (`DropNeedsACause`), from `TunnelInvariant`.  That a result is
the operation's own needs to know what the key holds while a clean operation
talks to it: before its last keyhandle, the keyhandles it sent or something
delivered that the next request wipes (`Sending`); after it, nothing but its own
payload and the result worked out from that, under this session's key
(`Polling`).  An operation may begin clean because the last reply was had whole,
so `replyWhole` has to mean that the key served its last piece, which follows
from where the last piece collected ends (`Caught`, `WholeSaid`).  Under v1, which
has no tag, the pieces collected are the reply from its start to where the
key's cursor stands (`Coming`).  Drops have a cause since, while no operation was
given up, all begin clean and leave the guard's mark where the next number is
above it (`Quiet`).  Another client's transit key is newer than any the host
holds, so all this survives its coming under v2 (`Elsewhere`).  The assumptions:
the numbering of packets has room for each request, and, in `Init`, that a reply of
unknown length does not fill a piece under v1 (`Measured`): the only one such a
key has is the plaintext of an RSA decrypt.  Under v2 it may have any length.

`CtapProofs`, for any requests and any clients, bridges or not, on channels of
their own or shared: `MessagesAreWhole` (`WholeMessages`), `LatesHaveACause`
(`LateNeedsACause`) and `KeyDoesOnce` (`DoneOnce`), from `CtapInvariant`.
`Packets` says that a first packet of two is followed by its second, and that
whoever holds the first waits for it; that is enough for whole messages.  The
other two need to know where anything of a request may still be: owed by the
key, on the wire, or heard.  Of a request sent once, or again over a refusal
that was its own, there is one answer at most, and nothing of it behind that
(`Streams`); a client whose requests all had their own answers has nothing left
of those that are over (`Mine`); of a bridge's requests only the one read for
has anything on the bridge's channel (`BridgeOwn`), since each channel it takes
is newer than any in use (`Fresh`).

`DeviceProofs` has one invariant for each of the device plugin's three modules,
and one for the edge copy (below).
Config mode, for any screens, attempts and number of calls: `FlagHasACause`
(`FlagIsToBlame`), from `FlagInvariant`.  That an open key is missed only for a
cause needs `SeesItOpen`: an unlock that neither asks nor began with a wrong
flag has a locked key in normal mode before it, so that the key opens under its
own PIN and says so.  The PIN, for digits of any number the key takes, with a console
or without, and any number of brackets: `SuccessSetsThePin` (`SuccessIsThePin`),
from `BracketInvariant`.  `InStep` says for each of the seven steps where the key
is, which digits are in and which to come, and what each channel carries; the
digits are counted over both ends, since every one pressed is either on its way,
said or heard (`Typing`).  A bracket may meet what one before it left; then the
first step hears no line that fits (`Misfits`) and fails, and only one that
found the key at rest goes further.  The writes, for any callers, calls and
retries: `ToldWasStored` (`ToldIsStored`) and `KeysHaveTheirNames`
(`NamesAgree`), from `WritesInvariant`.  Nothing in an answer names its request;
an answer is the talker's because, while no conversation was left open, all that
is on its way is that conversation's one frame or its one answer (`Flow`,
`OneAnswer`).  A key and its label agree between calls because the invariant
follows both cells through each step of the call that writes them
(`NamingStep`), with all others kept off by `shared`.  That a call generates one key
at most does not need the flow: its frame is sent once (`AskedOnce`), however the
answers fall.

`PlanProofs`, keyhandles, for payloads of any length: `PayloadAlwaysRead`
(`PayloadIsRead`) of `ReadsAlways`, `FitsAlways` and `RefusesFew`, from `PlanHolds` (`Spec => []PlanInv`).  `ReadsWhatIsSent` is
not inductive: it needs that the planned sizes sum to the length, that each but
the last is a whole number of packets, and that the last is one the encoder
leaves alone; `PlanInv` says so.  The proofs assume only that `MaxLength` is a
natural number.

`BucketProofs`, for any devices, keys, values and dates: `MergeAgrees` (who
merges whom does not matter) and `RoundMakesAlike` (after an undisturbed round
both hold the same) are about the operators of `Bucket`; from the order on
records, which is total, a merge is the least store above both.
`ClockAlwaysCovers`, `NewestAlwaysKept` and `RecordsNeverOlder` are about
`BucketSync`.  The invariant is `Typed`, `Covers` (no clock is behind a date in
its bucket), that what a device keeps in its file is never above what it holds,
that nothing anywhere is above the newest ever written, and `NewestKept`: that a
write is later than all its device holds needs the first two, and that a
restart loses nothing but what no file has needs the third.
`QuietRoundsAgree` (`QuietRoundAgrees`) is about whole runs: its invariant
(`RoundInvariant`) adds what a trade has announced and given in each phase while
nobody disturbs it (`Undisturbed`); a step of anybody else leaves that as it is,
or is marked as a disturbance (`Aside`).  The order in which a room lists its
devices is any.  The lists that have
a rule of their own (`ListStores`), for any devices, items, values and edits:
`ListsAlwaysStand` (`ListsStand`), `ExchangesAgree` (`ExchangeAgrees`),
`EntriesAlwaysListed` (`EntriesListed`) and `NothingIsUndone` (`NothingComesBack`),
from `ListInvariant`.  `Merged` says what
a device has of each item after it took another's list in, whole or in parts;
the four rules are commutative, or are so once it is settled which list is the
older - by the dates, and for two whole lists of equal dates by their texts, an
order that is total over any set of items - and what stands through edits follows
item by item.  Lists of equal dates are not left out: what the two sides then agree
in, in parts too, is `FlagsAgree`.  A live entry is listed because an exchange rebuilds the
index from both, so whoever vouched for it goes on vouching, or now holds what
wins over it.  The last edit of a contact
is not lost because somebody who has it has a clock that has reached it, so that
an edit there is later, and nobody holds one that would win over it
(`ContactKept`).  The assumptions: `NoItem` is no item, and there are no stores
but the four.

`PlanProofs`, agents, for any devices of the owner, items and overlapping calls:
`OneDeviceRuns` (`OneRunner`) and `AgentHearsTheOwner` (`AgentIsTold`), from
`PlanInvariant`.  One device runs a plan because a plan is a draft only before it
is submitted: the mirror that is claimed is never replaced by one nobody claimed
(`NotBegun`, `Runners`).  That the two copies say the same and no call sends
an item another has sent holds until something comes while a `plan_data` holds its copy (`lapped`):
until then the copy differs from the plan by no more than the mark that the
agent was shown it (`Holds`).

`PlanProofs`, budgets, for any signs, commands, uses and budgets, any number of
lost answers and links of others, and a lock at any step: `EveryUseHasItsAsker`
(`UsesAreTheirOwn`) and `EveryBudgetEndsClean` (`BudgetsEndClean`).  The invariant
comes in two layers.  `IInv` gives `OnePaidUse`, that a command has one paid use
at most (`OnePaidEach`): a use in the chain is of a sign that is past the key, one
use for each sign; a command that asked for a sign is marked used, and asked for
one.  `BInv`, over it, has a part for each thing the promises lean on:

* A use is found because it is linked over the head its sign read (`Starts`: a TX
  start names that head, and any link clears it), and what is found is noted in
  the ledger of the budget that signed.  `DebtsKnown` says at each stage of a sign
  how its use is known, or which lost answer hides it.
* The key owes for one use at a time (`OneDebt`).  A command may take what is owed
  for its own because, from the moment it opened over a key that owed nothing,
  what is owed is its own or another has crossed it (`ToldLinks`).
* A budget the client counts as spent and receipted is gone from the key, since
  while it lives its last use is owed (`LastOwed`), and a ledger that counts every
  use had that last one (`SpentKnown`).
* Nothing is left owing by an end: of the service's, since the ledger was empty
  when it was asked for and nothing signed beside it owes (`EndSettled`); of a
  plan's, since a plan that ends owes nothing by its ledger (`PlanStages`) and
  has all its signs over; of the key's own, since the receipt it follows was of
  the one debt.
* The service holds its newest budget because requests that are not under way
  together come one at a time, and a grant is above every budget held (`Held`).
* A plan fails by a lost answer or over an item that was not signed
  (`PlanStages`).

The attempt to prove `SpentKnown` found the model wrong: it had the client count
the budget's uses so far, where the code takes the step of the link it found.
With two commands at work the model then let a budget pass for ended that was
not.  `Notes` now does what the code does, and the fourth mix of
`plans_and_room` would show the difference.

`PlanProofs`, the room, for any members, numbers of sockets and requests:
`RoomAlwaysAgrees` (`RoomAgrees`), from `RoomInvariant`.  A member's list says
nothing while messages are on their way, so the invariant is about `Lists`: what
it will list once it has heard them.  For each socket that is joined, not closing
and not lost, that is exactly who is there, but for members nobody was told of
(`Presence`).  A join or a close is told to the newest socket of each member, and
these are the sockets meant, because a member's sockets but its newest are
closing (`OldClose`).  A request carries the member whose it is through the room
(`Requests`).  What is listed follows a message added at the queue's end
(`OneMoreToHear`) or heard at its head (`OneHeard`).

`DeviceProofs`, the edge copy, for any ring, any number of links, restarts, runs
and changes of the copy: `EdgeCopyInvariant` and from it `VerdictsAreTrue`
(`VerdictIsTrue`).  `EdgeInv` says what each side may rely on, in parts:

* That a verified copy is the key's (`Proven`) follows from the check alone
  (`VerifiedProves`), whatever changed the copy.  A weld tells what it was made
  of (`WeldTells`), so the links that weld down from the key's own head are the
  key's (`DownIsTheKeys`); a gap between these and the links up from the genesis
  is closed by LOSSes of the verified part, or of the key's own links, alone.
* That a good copy is not called tampered is about `Untouched` copies.  Such a
  copy is whole, under the key's heads, and has every link from its ring's start
  to its last (`HonestCopy`); a run that reads onto it keeps that, since `follows`
  takes all the key gives (`ReadAll`), unless a ring that no longer reached the
  copy left the first link with no head to weld the next onto (`HonestRun`).  A
  copy like that cannot fail (`HonestHolds`).
* That no loss is asked for twice rests on a history: a LOSS with a later one
  within it is `Gone`, from the ring and every copy, or the later one would not
  have been asked for (`NestedGone`, `GapIsOpen`).  A copy with a LOSS over a
  range it has open has not verified that LOSS.  Then what ends the range is the
  link a verified LOSS names, and that one is later, ends with the range and
  begins within it: the older one would be gone (`NoneHolds`).

Each theorem assumes only what the module's `ASSUME` states of its constants.

Every invariant the runs check is a theorem.  Only model-checked: everything
about liveness and fairness (the fairness that `KeepsContract` and `IsALane`
state besides, `Served`, `LaneIsLetGo`, `RequestsEnd`, `OperationsEnd`, `DialIsAnswered`,
`EveryCallEnds`, `Spreads`), which this prover cannot do, as it cannot do
`ENABLED`; and induction over data, so sums over the plan are carried by the
state (`offset`, `read`, `remaining`) rather than by a recursive operator.

## 5. What is not modelled

* The key itself, beyond what the code says it does.  `TunnelKey` and the key's
  actions in the other modules are external: they come from the comments in the
  source and from `test/helpers/`.
* Bytes: ciphers, CBOR, padding and text are abstracted to what tells two
  replies apart.  Lengths are real only in `KeyhandlePlan`.
* In `Tunnel`: several sites, the confirmation callback and the digits of a
  challenge, the status of the derivation slot, the settling of stale timers, and,
  under v1, a reply of unknown length that fills a piece.  Under v2 the theorems
  allow one that is a multiple of 512; no run has one, since its polls never end
  (`chunk.js:362-369` says so).
* In the device plugin: the Duo's PIN message, reading slots, labels and public
  keys, backup capture, RSA chunks, the packets inside a firmware block.
* In Edge: the wire of each request, the checks of an opening and of reveals,
  `resume()`, what the phone shows and approves, CONTINUE, seals, the check from
  memory (`assessFrom`), certification and the cards.  That every debt is filed
  in the end is not stated: it needs an agent that comes back to file.
* In the bucket and the stores: sealing, proofs of identity, `removeThread` and
  `purgeArchived`, the conflicts of an Edge log.
* In the room: the sealed copy's rows in SQLite, agents' key sessions,
  `card_new` and `plan_target`.  The wrapper of the hosted service is not in the
  repository: the localhost service is modelled.  Two pushes to one device in
  one TCP chunk are taken one at a time.
* In the Bluetooth socket: the limit on the pieces held, and payloads that do
  not parse.
* identity's `login()`.
* Everything listed as `not_modelled` in `PROJECT.json`.

The definitions stand for the parts of the code that keep state and meet other
actors.  Most of the repository's lines are elsewhere: codecs, ciphers, tables
of slots and fields, parsers, pages, windows and command-line shells, which
have no states a model checker would tell apart and are covered by test vectors
or not at all.

## 6. The plan

Done: the lane and its contract, the pipe transport, the vendor bridge, the
keyhandle plan, the tunnel, CTAPHID and the bridge, the device plugin's writes,
modes and PIN, vendor operations, the bucket with its trades, rounds and stores,
the room and its Bluetooth socket, agent plans, the copy of the chain and the
budgets; the theorems above.

Left, in order of what they would add:

1. An abstract key that says yes or no to a write, and `DeviceWrites` shown to
   implement it; an abstract "all devices agree" for `BucketSync`.
2. `resume()` and the phone's approval in `EdgeBudget`; `assessFrom` in
   `EdgeCopy`; several sites in `Tunnel`; the firmware's blocks.
3. That a debt is filed in the end, under a fairness the agent's service
   justifies.
