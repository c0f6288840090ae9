----------------------------- MODULE BucketSync -----------------------------
(***************************************************************************)
(* The devices of one bucket identity keep their buckets alike in a room:  *)
(* the trade of two devices (bucket/src/trade.js over replicate.js), the   *)
(* round with the server's sealed copy (sealedcopy.js), the queue that     *)
(* runs one of either at a time (roomsync.js) and the file a headless      *)
(* member keeps its bucket in (bucket/cli/roomservice.js).                 *)
(*                                                                         *)
(* A device is a number: its id in the room, by whose order the starter of *)
(* a pair is chosen.  A message is a record; `wire` holds the one message  *)
(* of a device's own trade that is on its way, either way.                 *)
(***************************************************************************)
EXTENDS Bucket, Sequences, FiniteSets

CONSTANTS
  Dev,          (* the devices' ids in the room                            *)
  Reads,        (* what each device's own clock may read at a write        *)
  SealedOn,     (* TRUE: the server keeps a sealed copy                    *)
  None,         (* no message, no trade, no HAVE                           *)
  MaxWrites,    (* bound: writes                                           *)
  MaxTrouble    (* bound: departures, restarts and lost messages together  *)

ASSUME DevAssumption == Dev \subseteq Nat \ {0}
ASSUME ReadsAssumption == Reads \in [Dev -> SUBSET (Nat \ {0})]
ASSUME SealedAssumption == SealedOn \in BOOLEAN

ROUNDS == 3     (* trade.js ROUNDS                                         *)
SealedRound == 0    (* a queued item: a round; any other is a peer's id    *)

VARIABLES
  bucket,   (* the open bucket: [recs, clock]                              *)
  kept,     (* the bucket as the device's file holds it                    *)
  joined,   (* the devices in the room                                     *)
  work,     (* roomsync.js `chain`: the items still to run                 *)
  tr,       (* the trade or round the device runs                          *)
  wire,     (* its trade's message on its way                              *)
  ans,      (* trade.js peerSide `trades`: ans[p][d] is p's side with d    *)
  server,   (* the sealed copy's rows                                      *)
  newest,   (* ghost: the newest record of each key ever written           *)
  used      (* ghost: what the bounds count                                *)

vars == <<bucket, kept, joined, work, tr, wire, ans, server, newest, used>>
roomVars == <<joined, work, tr, wire, ans, server>>

BucketType == [recs : Store, clock : Nat]
NewBucket == [recs |-> EmptyStore, clock |-> 0]
Phase == {"idle", "hello", "prove", "have", "give", "table", "put"}
Idle == [ph |-> "idle", peer |-> 0, mine |-> None, rounds |-> 0,
         took |-> FALSE, quiet |-> FALSE]

TypeOK ==
  /\ bucket \in [Dev -> BucketType]
  /\ kept \in [Dev -> BucketType]
  /\ joined \subseteq Dev
  /\ work \in [Dev -> Seq(Dev \cup {SealedRound})]
  /\ \A d \in Dev :
       /\ tr[d].ph \in Phase
       /\ tr[d].ph \in {"hello", "prove", "have", "give"} => tr[d].peer \in Dev \ {d}
       /\ tr[d].rounds \in 0 .. ROUNDS
       /\ tr[d].ph \in {"idle", "table", "put"} => wire[d] = None
       /\ \A e \in Dev : ans[d][e] = None \/ ans[d][e].rounds \in 0 .. ROUNDS
  /\ server \in Store
  /\ newest \in Store

Init ==
  /\ bucket = [d \in Dev |-> NewBucket]
  /\ kept = [d \in Dev |-> NewBucket]
  /\ joined = {}
  /\ work = [d \in Dev |-> <<>>]
  /\ tr = [d \in Dev |-> Idle]
  /\ wire = [d \in Dev |-> None]
  /\ ans = [d \in Dev |-> [e \in Dev |-> None]]
  /\ server = EmptyStore
  /\ newest = EmptyStore
  /\ used = [writes |-> 0, leaves |-> 0, lost |-> 0]

(* tradeSoon: the lower id starts, for every pair.                         *)
Starts(d, p) == d < p

(* What d queues when the bucket changed there, with `here` in the room:   *)
(* a trade with each device it starts with, as the room lists them, and a  *)
(* round.                                                                  *)
Trades(d, here) ==
  LET peers == {p \in here \ {d} : Starts(d, p)}
  IN  {s \in [1 .. Cardinality(peers) -> peers] : peers \subseteq {s[i] : i \in DOMAIN s}}
DueNoRound(d, here) == Trades(d, here)      (* mutant *)
Due(d, here) == {s \o <<SealedRound>> : s \in Trades(d, here)}

(* A trade no longer runs undisturbed once its device or its peer changed. *)
Disturb(t, who, but) ==
  [d \in Dev |-> IF d # but /\ (d = who \/ t[d].peer = who)
                 THEN [t[d] EXCEPT !.quiet = FALSE] ELSE t[d]]

-----------------------------------------------------------------------------
(* The person writes or removes a key on d, the host keeps the bucket and  *)
(* calls changed().                                                        *)
Write(d, b) ==
  /\ used.writes < MaxWrites
  /\ b # bucket[d]
  /\ bucket' = [bucket EXCEPT ![d] = b]
  /\ kept' = [kept EXCEPT ![d] = b]
  /\ newest' = MergeKeys(newest, [k \in Keys |->
       IF b.recs[k] # bucket[d].recs[k] THEN b.recs[k] ELSE NoRec])
  /\ \E due \in IF d \in joined THEN Due(d, joined) ELSE {<<>>} :
       work' = [work EXCEPT ![d] = @ \o due]
  /\ tr' = Disturb(tr, d, 0)
  /\ used' = [used EXCEPT !.writes = @ + 1]
  /\ UNCHANGED <<joined, wire, ans, server>>

Set(d) == \E k \in Keys, v \in Values, t \in Reads[d] : Write(d, SetItem(bucket[d], k, v, t))
Remove(d) == \E k \in Keys, t \in Reads[d] : Write(d, RemoveItem(bucket[d], k, t))

(* wire(): d joins; it queues its trades and a round, and each device that *)
(* is there queues a trade with it when it starts with d.                  *)
Join(d) ==
  /\ d \notin joined
  /\ joined' = joined \cup {d}
  /\ \E due \in Due(d, joined) :
       work' = [e \in Dev |->
         IF e = d THEN work[d] \o due
         ELSE IF e \in joined /\ Starts(e, d) THEN Append(work[e], d) ELSE work[e]]
  /\ UNCHANGED <<bucket, kept, tr, wire, ans, server, newest, used>>

(* The room's connection closes: what waits on it fails, what is queued    *)
(* finds the room gone.                                                    *)
LeaveRoom(d) ==
  /\ d \in joined
  /\ used.leaves + used.lost < MaxTrouble
  /\ used' = [used EXCEPT !.leaves = @ + 1]
  /\ joined' = joined \ {d}
  /\ work' = [work EXCEPT ![d] = <<>>]
  /\ tr' = [Disturb(tr, d, d) EXCEPT ![d] = Idle]
  /\ wire' = [wire EXCEPT ![d] = None]
  /\ UNCHANGED <<server, newest, kept>>

Leave(d) ==
  /\ LeaveRoom(d)
  /\ UNCHANGED <<bucket, ans>>

(* The program ends and starts again: the bucket is what the file holds.   *)
Restart(d) ==
  /\ LeaveRoom(d)
  /\ bucket' = [bucket EXCEPT ![d] = kept[d]]
  /\ ans' = [ans EXCEPT ![d] = [e \in Dev |-> None]]

-----------------------------------------------------------------------------
(* The computer's side (trade.js computerSide, roomsync.js tradeWith).     *)

Ask(d, m) == wire' = [wire EXCEPT ![d] = m]
Asked(d, type) == wire[d] # None /\ wire[d].dir = "ask" /\ wire[d].type = type
Answered(d) == wire[d] # None /\ wire[d].dir = "answer"

StartTrade(d) ==
  /\ d \in joined
  /\ tr[d].ph = "idle"
  /\ work[d] # <<>>
  /\ Head(work[d]) \in Dev
  /\ work' = [work EXCEPT ![d] = Tail(@)]
  /\ tr' = [tr EXCEPT ![d] = [Idle EXCEPT !.ph = "hello", !.peer = Head(work[d])]]
  /\ Ask(d, [dir |-> "ask", type |-> "hello"])
  /\ UNCHANGED <<bucket, kept, joined, ans, server, newest, used>>

(* tradeWith returns: what was taken is saved.                             *)
EndTrade(d, b, took) ==
  /\ tr' = [Disturb(tr, IF b = bucket[d] THEN 0 ELSE d, d) EXCEPT ![d] = Idle]
  /\ bucket' = [bucket EXCEPT ![d] = b]
  /\ kept' = IF took THEN [kept EXCEPT ![d] = b] ELSE kept
  /\ wire' = [wire EXCEPT ![d] = None]

(* Its request fails (no answer in time, the peer left, the bucket changed *)
(* since it was announced): the trade ends there, by an exception.         *)
ThrowTrade(d) ==
  /\ tr' = [tr EXCEPT ![d] = Idle]
  /\ wire' = [wire EXCEPT ![d] = None]
  /\ UNCHANGED <<bucket, kept>>

SendProve(d) ==
  /\ tr[d].ph = "hello" /\ Answered(d)
  /\ IF wire[d].ok
     THEN /\ tr' = [tr EXCEPT ![d].ph = "prove"]
          /\ Ask(d, [dir |-> "ask", type |-> "prove"])
          /\ UNCHANGED <<bucket, kept>>
     ELSE EndTrade(d, bucket[d], FALSE)
  /\ UNCHANGED <<joined, work, ans, server, newest, used>>

(* haveMessage: this side's HAVE, as it is announced.                      *)
SendHave(d) ==
  /\ tr' = [tr EXCEPT ![d].ph = "have", ![d].mine = bucket[d].recs,
                      ![d].rounds = @ + 1, ![d].quiet = TRUE]
  /\ Ask(d, [dir |-> "ask", type |-> "have", have |-> bucket[d].recs])
  /\ UNCHANGED <<bucket, kept>>

(* compare: the states are the same, or the first HAVE.                    *)
Compare(d) ==
  /\ tr[d].ph = "prove" /\ Answered(d)
  /\ IF wire[d].ok /\ ~SameState(wire[d].state, bucket[d].recs)
     THEN SendHave(d)
     ELSE EndTrade(d, bucket[d], FALSE)
  /\ UNCHANGED <<joined, work, ans, server, newest, used>>

(* give: what the peer lacks is put together, then its GIVE taken in.      *)
TakeGive(d) ==
  /\ tr[d].ph = "have" /\ Answered(d)
  /\ IF ~wire[d].ok THEN EndTrade(d, bucket[d], tr[d].took)
     ELSE IF Changed(bucket[d].recs, tr[d].mine, wire[d].have) THEN ThrowTrade(d)
     ELSE LET recs == MergeKeys(bucket[d].recs, wire[d].give)
          IN  \E m \in PastAll(bucket[d].clock, recs) :
                /\ bucket' = [bucket EXCEPT ![d] = [recs |-> recs, clock |-> m]]
                /\ tr' = [Disturb(tr, IF recs = bucket[d].recs THEN 0 ELSE d, d)
                            EXCEPT ![d].ph = "give",
                                   ![d].took = @ \/ recs # bucket[d].recs]
                /\ Ask(d, [dir |-> "ask", type |-> "give",
                           give |-> Give(bucket[d].recs, tr[d].mine, wire[d].have)])
                /\ UNCHANGED kept
  /\ UNCHANGED <<joined, work, ans, server, newest, used>>

(* settle: the same now - or another HAVE while rounds are left.           *)
Settle(d) ==
  /\ tr[d].ph = "give" /\ Answered(d)
  /\ IF /\ wire[d].ok
        /\ ~SameState(wire[d].state, bucket[d].recs)
        /\ tr[d].rounds < ROUNDS
     THEN SendHave(d)
     ELSE EndTrade(d, bucket[d], tr[d].took)
  /\ UNCHANGED <<joined, work, ans, server, newest, used>>

(* A message or its answer is lost, or the peer is not there to answer.    *)
GiveUp(d) ==
  /\ wire[d] # None
  /\ IF tr[d].peer \in joined
     THEN /\ used.leaves + used.lost < MaxTrouble
          /\ used' = [used EXCEPT !.lost = @ + 1]
     ELSE UNCHANGED used
  /\ ThrowTrade(d)
  /\ UNCHANGED <<joined, work, ans, server, newest>>

-----------------------------------------------------------------------------
(* The peer's side (trade.js peerSide), answering device d's message.      *)

Refused == [dir |-> "answer", ok |-> FALSE]
Peer(d) == tr[d].peer
Reply(d, m) == wire' = [wire EXCEPT ![d] = m]
Forget(p, d) == ans' = [ans EXCEPT ![p][d] = None]

AnswerHello(d) ==
  /\ Asked(d, "hello") /\ Peer(d) \in joined
  /\ ans' = [ans EXCEPT ![Peer(d)][d] = [proven |-> FALSE, rounds |-> 0, mine |-> FALSE]]
  /\ Reply(d, [dir |-> "answer", ok |-> TRUE])
  /\ UNCHANGED <<bucket, kept, joined, work, tr, server, newest, used>>

AnswerProve(d) ==
  LET p == Peer(d)  t == ans[p][d]
  IN  /\ Asked(d, "prove") /\ p \in joined
      /\ IF t = None
         THEN Forget(p, d) /\ Reply(d, Refused)
         ELSE /\ ans' = [ans EXCEPT ![p][d].proven = TRUE]
              /\ Reply(d, [dir |-> "answer", ok |-> TRUE, state |-> bucket[p].recs])
      /\ UNCHANGED <<bucket, kept, joined, work, tr, server, newest, used>>

AnswerHave(d) ==
  LET p == Peer(d)  t == ans[p][d]
  IN  /\ Asked(d, "have") /\ p \in joined
      /\ IF t = None \/ ~t.proven \/ t.rounds >= ROUNDS
         THEN Forget(p, d) /\ Reply(d, Refused)
         ELSE /\ ans' = [ans EXCEPT ![p][d].rounds = @ + 1, ![p][d].mine = TRUE]
              /\ Reply(d, [dir |-> "answer", ok |-> TRUE, have |-> bucket[p].recs,
                           give |-> Give(bucket[p].recs, bucket[p].recs, wire[d].have)])
      /\ UNCHANGED <<bucket, kept, joined, work, tr, server, newest, used>>

(* GIVE is taken in and saved before it is answered.                       *)
AnswerGive(d) ==
  LET p == Peer(d)  t == ans[p][d]
      recs == MergeKeys(bucket[p].recs, wire[d].give)
  IN  /\ Asked(d, "give") /\ p \in joined
      /\ IF t = None \/ ~t.proven \/ ~t.mine
         THEN /\ Forget(p, d) /\ Reply(d, Refused)
              /\ UNCHANGED <<bucket, kept, tr>>
         ELSE \E m \in PastAll(bucket[p].clock, recs) :
              LET b == [recs |-> recs, clock |-> m]
              IN  /\ ans' = [ans EXCEPT ![p][d].mine = FALSE]
                  /\ bucket' = [bucket EXCEPT ![p] = b]
                  /\ kept' = IF recs # bucket[p].recs THEN [kept EXCEPT ![p] = b] ELSE kept
                  /\ tr' = Disturb(tr, IF recs # bucket[p].recs THEN p ELSE 0, d)
                  /\ Reply(d, [dir |-> "answer", ok |-> TRUE, state |-> recs])
      /\ UNCHANGED <<joined, work, server, newest, used>>

-----------------------------------------------------------------------------
(* The round with the server's sealed copy (roomsync.js sealedSync over    *)
(* sealedcopy.js syncWith).  A row's tag says its value and its date.      *)

(* `store.on()` and `store.table()`: a server that keeps none ends it.     *)
StartRound(d) ==
  /\ d \in joined
  /\ tr[d].ph = "idle"
  /\ work[d] # <<>>
  /\ Head(work[d]) = SealedRound
  /\ work' = [work EXCEPT ![d] = Tail(@)]
  /\ tr' = IF SealedOn
           THEN [tr EXCEPT ![d] = [Idle EXCEPT !.ph = "table", !.mine = server]]
           ELSE tr
  /\ UNCHANGED <<bucket, kept, joined, wire, ans, server, newest, used>>

RowsToGet(recs, theirs) == {k \in Keys : theirs[k] # NoRec /\ theirs[k] # recs[k]}
RowsToPut(recs, theirs) == {k \in Keys : recs[k] # NoRec /\ theirs[k] # recs[k]}
OnlyKeys(recs, ks) == [k \in Keys |-> IF k \in ks THEN recs[k] ELSE NoRec]

(* The rows that differ are read - as the server holds them by now - and   *)
(* taken in; then what this side holds otherwise is sealed to be put.      *)
TakeRows(d) ==
  /\ tr[d].ph = "table"
  /\ LET got == OnlyKeys(server, RowsToGet(bucket[d].recs, tr[d].mine))
         recs == MergeKeys(bucket[d].recs, got)
         took == recs # bucket[d].recs
         puts == RowsToPut(recs, tr[d].mine)
     IN  \E m \in PastAll(bucket[d].clock, recs) :
         LET b == [recs |-> recs, clock |-> m]
         IN  IF puts = {} THEN EndTrade(d, b, took)
             ELSE /\ bucket' = [bucket EXCEPT ![d] = b]
                  /\ tr' = [Disturb(tr, IF took THEN d ELSE 0, d) EXCEPT
                              ![d].ph = "put", ![d].took = took,
                              ![d].mine = OnlyKeys(recs, puts)]
                  /\ UNCHANGED <<kept, wire>>
  /\ UNCHANGED <<joined, work, ans, server, newest, used>>

(* The server writes the rows over what it holds ...                       *)
Overwrite(rows) == [k \in Keys |-> IF rows[k] # NoRec THEN rows[k] ELSE server[k]]
(* ... and tells the others, each of which queues a round when it holds    *)
(* one of them otherwise (sealedcopy.js locate).                           *)
Told(d, rows) ==
  {e \in joined \ {d} : \E k \in Keys : rows[k] # NoRec /\ rows[k] # bucket[e].recs[k]}

PutRows(d) ==
  /\ tr[d].ph = "put"
  /\ server' = Overwrite(tr[d].mine)
  /\ work' = [e \in Dev |-> IF e \in Told(d, tr[d].mine)
                            THEN Append(work[e], SealedRound) ELSE work[e]]
  /\ EndTrade(d, bucket[d], tr[d].took)
  /\ UNCHANGED <<joined, ans, newest, used>>

(* The server does not answer, or keeps none of the rows.                  *)
FailRound(d) ==
  /\ tr[d].ph \in {"table", "put"}
  /\ used.leaves + used.lost < MaxTrouble
  /\ used' = [used EXCEPT !.lost = @ + 1]
  /\ ThrowTrade(d)
  /\ UNCHANGED <<joined, work, ans, server, newest>>

-----------------------------------------------------------------------------
TradeStep(d) ==
  \/ StartTrade(d) \/ SendProve(d) \/ Compare(d) \/ TakeGive(d) \/ Settle(d)
  \/ AnswerHello(d) \/ AnswerProve(d) \/ AnswerHave(d) \/ AnswerGive(d)
RoundStep(d) == StartRound(d) \/ TakeRows(d) \/ PutRows(d)

Next ==
  \E d \in Dev :
    \/ Set(d) \/ Remove(d)
    \/ Join(d) \/ Leave(d) \/ Restart(d)
    \/ TradeStep(d) \/ GiveUp(d)
    \/ RoundStep(d) \/ FailRound(d)

(* The programs go on: some queued item runs, a message is delivered or    *)
(* answered, a peer that left is noticed, a device that left joins again.  *)
Progress(d) ==
  \/ TradeStep(d) \/ RoundStep(d) \/ Join(d)
  \/ tr[d].peer \notin joined /\ GiveUp(d)
Fairness == WF_vars(\E d \in Dev : Progress(d))

Spec == Init /\ [][Next]_vars /\ Fairness

-----------------------------------------------------------------------------
(* Properties. *)

(* The clock never goes back: a bucket's clock is past every date in it,   *)
(* so a device whose own clock is behind still writes after what it last   *)
(* took in (bucket.js stamp, merge; replicate.js take).                    *)
ClockCovers ==
  \A d \in Dev, k \in Keys :
    bucket[d].recs[k] # NoRec => bucket[d].recs[k].at <= bucket[d].clock

(* The newest record ever written of a key is in some device's file: no    *)
(* trade, round or restart, in any order, loses it (bucket.js newer).      *)
NewestKept ==
  \A k \in Keys : newest[k] # NoRec => \E d \in Dev : kept[d].recs[k] = newest[k]

(* A device's record is only ever replaced by a later one, except that a   *)
(* restart goes back to what was kept (bucket.js mergeKeys, stamp).        *)
NeverOlder ==
  [][\A d \in Dev, k \in Keys :
       \/ bucket'[d].recs[k] = bucket[d].recs[k]
       \/ Newer(bucket[d].recs[k], bucket'[d].recs[k])
       \/ bucket'[d] = kept[d]]_vars

(* A round of a trade that nothing else disturbed leaves both sides with   *)
(* the same values: each merged the other's by the same rule (trade.js     *)
(* give, settle).                                                          *)
QuietRoundAgrees ==
  /\ TypeOK
  /\ \A d \in Dev :
       tr[d].ph = "give" /\ Answered(d) /\ wire[d].ok /\ tr[d].quiet =>
         Alike(bucket[d].recs, bucket[Peer(d)].recs)

(* When nothing is lost, the devices in the room come to hold the same     *)
(* values, whoever wrote last (roomsync.js changed, sealed-changed).       *)
InTouch == \A d, e \in joined : Alike(bucket[d].recs, bucket[e].recs)
Spreads == []<>(used.lost > 0 \/ InTouch)
=============================================================================
