------------------------------- MODULE Tunnel -------------------------------
(***************************************************************************)
(* Requests over the WebAuthn tunnel (plugins/okcrypto/index.js, with the  *)
(* sender and the poll loop of src/protocol/chunk.js): derives, connects   *)
(* and stored-key operations, one conversation at a time in the            *)
(* transport's lane, against the key of TunnelKey.                         *)
(*                                                                         *)
(* A ceremony is one navigator.credentials.get(): one request and its      *)
(* reply, or a failure in which the key saw the request or did not.        *)
(* Between two ceremonies of an operation the key's timers run, the user   *)
(* presses, and another client may connect.                                *)
(*                                                                         *)
(* The clock is not modelled.  The key wipes a reply 5 s after it last     *)
(* served or staged one; the host waits 5.5 s after the last one it HAD:   *)
(* `known` says whether that was also the key's last.                      *)
(***************************************************************************)
EXTENDS Integers, Sequences, FiniteSets, TunnelKey

CONSTANTS
  Op,          (* stored-key operations, each called once                  *)
  Derive,      (* derives, each called once                                *)
  Connects,    (* public connectTunnel() calls                             *)
  Chunks,      (* how many keyhandles each operation's request takes       *)
  Size,        (* the length of each operation's and derive's reply        *)
  Variable,    (* operations that do not know that length                  *)
  MaxPacket,   (* the last packet number: 255                              *)
  Clients,     (* how often another client may connect                     *)
  Calls        (* how many of the calls are made                           *)

Conv == Op \cup Derive \cup Connects

ASSUME TunnelAssumption ==
  /\ Op \cap Derive = {} /\ Op \cap Connects = {} /\ Derive \cap Connects = {}
  /\ Chunks \in [Op -> 1 .. MaxPacket] /\ Variable \subseteq Op
  /\ Size \in [Op \cup Derive -> Nat \ {0}]
  /\ MaxPacket \in Nat \ {0} /\ Clients \in Nat /\ Noise \subseteq Nat

VARIABLES
  running, waiting, phase,   (* the lane, see Lane                         *)
  step,        (* where the operation in the lane is                       *)
  sent,        (* keyhandles of it sent                                    *)
  got,         (* pieces of its answer collected                           *)
  session,     (* tunnelSession: the transit key held, 0 for null          *)
  counter,     (* packetCounter                                            *)
  replyWhole,  (* replyWhole                                               *)
  known,       (* lastStagedAt is as late as the key's last reply          *)
  tries,       (* attempts of each derive                                  *)
  result,      (* how each call ended                                      *)
  dev,         (* the key                                                  *)
  clients,     (* connects another client has left                         *)
  clean,       (* operations that began with nothing of another unheard    *)
  stale,       (* those a keyhandle of which was answered with an old reply*)
  dropped      (* those a keyhandle of which the duplicate guard dropped   *)

lvars == <<running, waiting, phase>>
ovars == <<step, sent, got>>
hvars == <<session, counter, replyWhole, known>>
marks == <<clean, stale, dropped>>
vars == <<lvars, ovars, hvars, tries, result, dev, clients, marks>>

L == INSTANCE Lane WITH Urgent <- {}

DERIVE_ATTEMPTS == 3

(* A key only the host thinks it shares, made from a reply not its own.    *)
Unshared == -1

Step == {"idle", "begin", "settle", "send", "poll"}
Result == {"none", "own", "wrong", "error"}

TypeOK ==
  /\ L!TypeOK
  /\ step \in Step /\ sent \in 0 .. MaxPacket
  /\ \A i \in 1 .. Len(got) : got[i].len \in 1 .. Full
  /\ session \in Unshared .. dev.key
  /\ counter \in 0 .. MaxPacket
  /\ replyWhole \in BOOLEAN /\ known \in BOOLEAN
  /\ tries \in [Derive -> 0 .. DERIVE_ATTEMPTS]
  /\ result \in [Conv -> Result]
  /\ clients \in 0 .. Clients
  /\ clean \subseteq Op /\ stale \subseteq Op /\ dropped \subseteq Op

(* The one reply of unknown length that a v1 key has, the plaintext of an  *)
(* RSA decrypt, does not fill a piece (chunk.js:368-369).                  *)
Measured(v) == v = "v1" => \A c \in Variable : Size[c] < Full

Init ==
  /\ L!Init
  /\ step = "idle" /\ sent = 0 /\ got = <<>>
  /\ session = 0 /\ counter = 0 /\ replyWhole = FALSE /\ known = TRUE
  /\ tries = [c \in Derive |-> 0]
  /\ result = [c \in Conv |-> "none"]
  /\ dev \in {Fresh(v) : v \in {w \in Version : Measured(w)}} /\ clients = Clients
  /\ clean = {} /\ stale = {} /\ dropped = {}

-----------------------------------------------------------------------------
Talks(c, at) == phase[c] = "talking" /\ step = at

Called == {c \in Conv : phase[c] # "outside" \/ result[c] # "none"}
            \cup {c \in Derive : tries[c] > 0}

(* inLane(transport, fn): fn begins when the lane is free.  A derive tried *)
(* again is called again.                                                  *)
Call(c) ==
  /\ result[c] = "none"
  /\ Cardinality(Called \cup {c}) <= Calls
  /\ \/ L!CallIdle(c) /\ step' = "begin"
     \/ L!CallBusy(c) /\ UNCHANGED step
  /\ UNCHANGED <<sent, got, hvars, tries, result, dev, clients, marks>>

Release(c) ==
  /\ L!Release(c)
  /\ step' = IF waiting = <<>> THEN "idle" ELSE "begin"
  /\ UNCHANGED <<sent, got, hvars, tries, result, dev, clients, marks>>

(* The conversation is over.                                               *)
Leave(c) == L!Settle(c) /\ step' = "idle" /\ sent' = 0 /\ got' = <<>>
End(c, how) == Leave(c) /\ result' = [result EXCEPT ![c] = how]

Stay(at) == step' = at /\ UNCHANGED <<lvars, result>>

(* A ceremony that failed: the key never had the request (d = dev), or had *)
(* it and its reply was lost.                                              *)
Missed(d) == dev' = d /\ known' = (known /\ d = dev)

(* tunnelSend: a reply with CTAP1_SUCCESS is recorded as staged.           *)
Heard(r) == dev' = r.dev /\ known' = (known \/ r.reply.status = "SUCCESS")

-----------------------------------------------------------------------------
Greeting == [Nothing EXCEPT !.kind = "connect", !.len = 1]

(* connectTunnelRun: `tunnelSession = null` before the request leaves; the *)
(* reply must be a key and a device status, and makes the session.         *)
Connected(r) ==
  /\ Heard(r)
  /\ r.reply.status = "SUCCESS" /\ r.reply.from.kind = "connect"
  /\ session' = IF r.reply.from.key = r.dev.key THEN r.dev.key ELSE Unshared
  /\ replyWhole' = TRUE

NotConnected(r) ==
  /\ \/ Missed(dev)
     \/ Missed(r.dev)
     \/ Heard(r) /\ ~(r.reply.status = "SUCCESS" /\ r.reply.from.kind = "connect")
  /\ session' = 0
  /\ replyWhole' = FALSE

(* connectTunnel(): a call of its own, or the first step of an operation   *)
(* that finds no session.                                                  *)
ConnectTunnel(c) ==
  LET r == Connect(dev, Greeting)
  IN /\ Talks(c, "begin")
     /\ \/ c \in Op /\ session = 0 /\ Connected(r) /\ Stay("settle") /\ UNCHANGED <<sent, got>>
        \/ c \in Connects /\ Connected(r) /\ End(c, "own")
        \/ c \in Connects \cup Op /\ (c \in Op => session = 0)
             /\ NotConnected(r) /\ End(c, "error")
     /\ UNCHANGED <<counter, tries, clients, marks>>

(* tunnelOperationRun with a session: straight to the settle.              *)
KeepSession(c) ==
  /\ Talks(c, "begin") /\ c \in Op /\ session # 0
  /\ Stay("settle")
  /\ UNCHANGED <<sent, got, hvars, tries, dev, clients, marks>>

-----------------------------------------------------------------------------
ReservedNever(c) == counter

(* reservePacketRun: no wrap within one operation.                         *)
Reserved(c) == IF counter + Chunks[c] > MaxPacket THEN 0 ELSE counter

(* nextPacketNum                                                           *)
NextPacketNum == IF counter >= MaxPacket THEN 1 ELSE counter + 1

NoWaitAtAll == TRUE
(* A key that wipes delivered replies, and had its last one read whole, is *)
(* not waited for.                                                         *)
NoWait == WipesDelivered(dev) /\ replyWhole

(* settleStagedReply, reservePacketRun: the wait outlives what the key     *)
(* last served, if the host had that reply.                                *)
Settle(c) ==
  /\ Talks(c, "settle")
  /\ dev' = IF ~NoWait /\ known /\ dev.staged # Nothing THEN Wiped(dev) ELSE dev
  /\ replyWhole' = FALSE
  /\ counter' = Reserved(c)
  /\ clean' = IF known /\ ~dev.asking /\ dev.packets = <<>> THEN clean \cup {c} ELSE clean
  /\ Stay("send")
  /\ UNCHANGED <<sent, got, session, known, tries, clients, stale, dropped>>

-----------------------------------------------------------------------------
Final(c) == sent + 1 = Chunks[c]

HasData(reply) ==
  reply.status = "SUCCESS" /\ reply.from.kind \in {"result", "connect", "derive", "stack"}

(* checkRequestReply: the final keyhandle may be answered with the result. *)
LooksLikeResult(c, reply) ==
  /\ HasData(reply) /\ Final(c)
  /\ \/ reply.len = Full
     \/ c \in Variable
     \/ reply.len = Size[c] /\ reply.from.kind = "result"

(* chunks.push, total += len: a piece knows how much there is with it.     *)
Total(g) == IF g = <<>> THEN 0 ELSE g[Len(g)].total

Collect(g, reply) ==
  Append(g, [from |-> reply.from, at |-> reply.at, len |-> reply.len,
             total |-> Total(g) + reply.len])

Accepts(c, reply) ==
  \/ reply.status = "PENDING" /\ UNCHANGED got
  \/ LooksLikeResult(c, reply) /\ got' = Collect(got, reply)

(* A named refusal keeps the session, every other unaccepted reply drops   *)
(* it (notAccepted).                                                       *)
Refuses(c, reply) ==
  /\ reply.status # "PENDING" /\ ~LooksLikeResult(c, reply)
  /\ session' = IF reply.from.kind = "error" THEN session ELSE 0

(* sendChunked: a keyhandle is numbered, sealed under the session, and its *)
(* reply is read before the next one goes out.                             *)
SendChunk(c) ==
  /\ Talks(c, "send")
  /\ counter' = NextPacketNum
  /\ \E r \in Chunk(dev, <<c, sent + 1>>, session, NextPacketNum, Final(c)) :
       /\ dropped' = IF r.reply = Stack THEN dropped \cup {c} ELSE dropped
       /\ stale' = IF r.reply.from = dev.staged /\ dev.staged # Nothing THEN stale \cup {c} ELSE stale
       /\ \/ /\ Heard(r) /\ Accepts(c, r.reply)
             /\ sent' = sent + 1
             /\ Stay(IF Final(c) THEN "poll" ELSE "send")
             /\ UNCHANGED session
          \/ Heard(r) /\ Refuses(c, r.reply) /\ End(c, "error")
          \/ Missed(r.dev) /\ End(c, "error") /\ UNCHANGED session
  /\ UNCHANGED <<replyWhole, tries, clients, clean>>

(* The request never leaves, or the key answers CTAP2_ERR_ACTION_TIMEOUT.  *)
SendFails(c) ==
  /\ Talks(c, "send")
  /\ counter' = NextPacketNum
  /\ End(c, "error")
  /\ UNCHANGED <<session, replyWhole, known, tries, dev, clients, marks>>

-----------------------------------------------------------------------------
KnowsLength(c) == c \in Op \ Variable

(* pollForResponse: all there, by the length or by the first short piece.  *)
Complete(c) ==
  /\ got # <<>>
  /\ IF KnowsLength(c) THEN Total(got) >= Size[c] ELSE got[Len(got)].len < Full

(* The shape guard.                                                        *)
Plausible(c, reply) ==
  HasData(reply)
    /\ (KnowsLength(c) => reply.len = Full \/ Total(got) + reply.len = Size[c])

(* The pieces are one staged reply, from its start to its end.             *)
OneReply(g) ==
  /\ \A i \in 1 .. Len(g) : g[i].from = g[1].from /\ g[i].at = g[i].total - g[i].len
  /\ Total(g) = g[1].from.len

Payload(c) == [i \in 1 .. Chunks[c] |-> <<c, i>>]

(* transit.open under the session's key: the tag covers the whole reply,   *)
(* and the counter in it is not compared with anything.  v1 has no tag,    *)
(* and only a length that is known is checked.                             *)
Opens(c) ==
  /\ V2(dev) => OneReply(got) /\ got[1].from.kind = "result" /\ got[1].from.key = session
  /\ KnowsLength(c) => IF V2(dev) THEN Total(got) = Size[c] ELSE Total(got) >= Size[c]

IsOwn(c) == OneReply(got) /\ got[1].from.kind = "result" /\ got[1].from.of = Payload(c)

(* What the polls brought, all of the reply or not, is opened.             *)
Opened(c) ==
  IF Opens(c)
    THEN End(c, IF IsOwn(c) THEN "own" ELSE "wrong") /\ replyWhole' = TRUE /\ UNCHANGED session
    ELSE End(c, "error") /\ session' = (IF V2(dev) THEN 0 ELSE session) /\ UNCHANGED replyWhole

TriesLeft(c) == tries[c] < DERIVE_ATTEMPTS

(* deriveOnce, the body opened: the device status says whether it is this  *)
(* attempt's reply, and then its key is the session's.  Under v2 the tag   *)
(* says it first, and is not retried.                                      *)
Derived(c) ==
  /\ IF OneReply(got) /\ got[1].from.kind = "derive" /\ got[1].from.of = <<c, tries[c]>>
       THEN End(c, "own") /\ session' = got[1].from.key
       ELSE /\ UNCHANGED session
            /\ IF ~V2(dev) /\ TriesLeft(c)
                 THEN Leave(c) /\ UNCHANGED result
                 ELSE End(c, "error")
  /\ UNCHANGED replyWhole

Collected(c) == got # <<>> /\ IF c \in Op THEN Opened(c) ELSE Derived(c)

(* One OKPING: sealed for an operation, not for a derive.  A text ends the *)
(* polls, except, under v1, the one of a challenge still open, and that    *)
(* only if no piece has come and the length is known.                      *)
Poll(c) ==
  LET r == Ping(dev, IF c \in Op THEN session ELSE 0)
      isText == r.reply.from.kind \in {"error", "badTag"}
  IN /\ Talks(c, "poll") /\ ~Complete(c)
     /\ \/ /\ Heard(r) /\ Plausible(c, r.reply)
           /\ got' = Collect(got, r.reply)
           /\ Stay("poll") /\ UNCHANGED <<sent, session, replyWhole>>
        \/ /\ Heard(r) /\ ~Plausible(c, r.reply)
           /\ isText => ~V2(dev) /\ got = <<>> /\ KnowsLength(c)
           /\ Stay("poll") /\ UNCHANGED <<sent, got, session, replyWhole>>
        \/ Heard(r) /\ isText /\ ~V2(dev) /\ Collected(c)
        \/ Heard(r) /\ isText /\ End(c, "error") /\ UNCHANGED <<session, replyWhole>>
        \/ Missed(r.dev) /\ End(c, "error") /\ UNCHANGED <<session, replyWhole>>
     /\ UNCHANGED <<counter, tries, clients, marks>>

GiveUpNever(c) == FALSE

(* The no-progress budget runs out: what has come is opened all the same.  *)
(* Or confirm() throws, or a ceremony fails before the key has it.         *)
GiveUp(c) ==
  /\ Talks(c, "poll") /\ ~Complete(c)
  /\ \/ Collected(c)
     \/ End(c, "error") /\ UNCHANGED <<session, replyWhole>>
  /\ UNCHANGED <<counter, known, tries, dev, clients, marks>>

Finish(c) ==
  /\ Talks(c, "poll") /\ Complete(c) /\ Collected(c)
  /\ UNCHANGED <<counter, known, tries, dev, clients, marks>>

-----------------------------------------------------------------------------
(* A derive is an OKCONNECT; `of` tells its attempts apart.  Before v2 no  *)
(* derive (X-Wing) has a reply of several pieces.                          *)
Derivation(c) ==
  [Nothing EXCEPT !.kind = "derive", !.of = <<c, tries[c] + 1>>,
                  !.len = IF V2(dev) THEN Size[c] ELSE 1]

(* The key derives, or refuses: then the reply is what it had.             *)
DeriveReplies(c) == {Connect(dev, Derivation(c)), Serve(dev)}

KeyKept == session

(* tunnelSession while a derive is under way.                              *)
KeyWhileDeriving == 0

(* deriveOnce: the session is dropped, the request leaves.  No data ends   *)
(* it; data of any other kind is opened, after the pieces it lacks.        *)
SendDerive(c) ==
  /\ Talks(c, "begin") /\ c \in Derive
  /\ tries' = [tries EXCEPT ![c] = @ + 1]
  /\ session' = KeyWhileDeriving
  /\ \/ \E r \in DeriveReplies(c) :
          \/ /\ Heard(r) /\ r.reply.status # "NO_OPERATION"
             /\ got' = Collect(<<>>, [r.reply EXCEPT !.len = IF r.reply.status = "PENDING" THEN 1 ELSE @])
             /\ Stay("poll") /\ UNCHANGED sent
          \/ Heard(r) /\ r.reply.status = "NO_OPERATION" /\ End(c, "error")
          \/ Missed(r.dev) /\ End(c, "error")
     \/ Missed(dev) /\ End(c, "error")
  /\ UNCHANGED <<counter, replyWhole, clients, marks>>

-----------------------------------------------------------------------------
(* The key's side: its timer, the user, another client.                    *)
LengthOf(payload) == IF Len(payload[1]) = 2 THEN Size[payload[1][1]] ELSE 1

Key(d) ==
  /\ dev' = d
  /\ UNCHANGED <<lvars, ovars, session, counter, replyWhole, tries, result, marks>>

Wipe == dev.staged # Nothing /\ Key(Wiped(dev)) /\ UNCHANGED <<known, clients>>

Press == dev.asking /\ Key(Pressed(dev, LengthOf(dev.packets))) /\ known' = FALSE /\ UNCHANGED clients

Lapse == dev.asking /\ Key(Lapsed(dev)) /\ known' = FALSE /\ UNCHANGED clients

OtherClient ==
  /\ clients > 0 /\ clients' = clients - 1
  /\ ~dev.asking
  /\ Key(Connect(dev, Greeting).dev)
  /\ known' = FALSE

Next ==
  \/ \E c \in Conv :
       \/ Call(c) \/ Release(c)
       \/ ConnectTunnel(c) \/ KeepSession(c) \/ Settle(c) \/ SendChunk(c) \/ SendFails(c)
       \/ Poll(c) \/ GiveUp(c) \/ Finish(c)
       \/ SendDerive(c)
  \/ Wipe \/ Press \/ Lapse \/ OtherClient

(* Every ceremony ends, in a reply or an error.  Polls that bring nothing  *)
(* run out of budget; each piece that comes renews it.                     *)
Fairness ==
  \A c \in Conv :
    /\ WF_vars(Release(c))
    /\ WF_vars(ConnectTunnel(c) \/ KeepSession(c) \/ SendDerive(c))
    /\ WF_vars(Settle(c))
    /\ WF_vars(SendChunk(c) \/ SendFails(c))
    /\ WF_vars(GiveUp(c) \/ (Poll(c) /\ got' # got))
    /\ WF_vars(Finish(c))

Spec == Init /\ [][Next]_vars /\ Fairness

-----------------------------------------------------------------------------
(* A keyhandle of an operation that began with nothing of another unheard  *)
(* is never answered with an earlier reply: "that is what lets the replies *)
(* to the request itself be CHECKED" (okcrypto, at lastStagedAt), as long  *)
(* as no other client comes.                                               *)
FreshReplies == clients = Clients => clean \cap stale = {}

(* Such an operation never returns another's answer, whatever was given up *)
(* before it and however pieces, waits and re-keying derives fall around   *)
(* it; under v1, which has no tag, as long as no other client comes.       *)
OwnIfClean ==
  /\ FreshReplies
  /\ V2(dev) \/ clients = Clients => \A c \in clean : result[c] # "wrong"

(* "A stale buffer served instead would not open under this session's      *)
(* transit counter, so it still fails, at the open, naming authentication" *)
(* (plugins/okcrypto/index.js:1473-1474).                                  *)
StaleDoesNotOpen == V2(dev) => \A c \in Conv : result[c] # "wrong"

(* "Restarting at 1 is safe at an operation boundary" (chunk.js:87): the   *)
(* duplicate guard drops no keyhandle, unless an operation was given up    *)
(* for another reason or another client came.                              *)
DropNeedsACause ==
  dropped # {} /\ clients = Clients => \E c \in Op \ dropped : result[c] = "error"

(* Every call lets go of the lane, whatever the key, the user and the      *)
(* other client do, and however often a derive is tried again: no poll     *)
(* goes on for ever while the others wait.                                 *)
LaneIsLetGo == []<>~running

(* The session key the host holds is the key's own, until another client   *)
(* connects: no derive, connect or failure of either leaves it stale.      *)
SessionIsShared ==
  /\ TypeOK
  /\ clients = Clients /\ session # 0 => session = dev.key
=============================================================================
