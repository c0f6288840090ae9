------------------------------- MODULE CtapHid -------------------------------
(***************************************************************************)
(* Requests over CTAPHID (src/protocol/ctaphid.js: Assembler, CtapHid;     *)
(* src/protocol/bridge.js: createCtapBridge).  A client allocates a        *)
(* channel, writes a request packet by packet and reads what comes on its  *)
(* channel, keepalives included, until an answer.  Nothing in an answer    *)
(* says which request it answers.                                          *)
(*                                                                         *)
(* The key is external: it takes a request with its last packet, answers   *)
(* each at most once and in order, when it likes, after a keepalive if it  *)
(* waits for a press; its wipe timer may cut a request of several packets. *)
(***************************************************************************)
EXTENDS Naturals, Sequences, FiniteSets, SequencesExt

CONSTANTS
  Client,    (* CtapHid objects on one key                                 *)
  Roles,     (* which of them may be those of a createCtapBridge; okcrypto *)
             (* holds the others                                           *)
  Request,   (* requests, each sent once                                   *)
  Owner,     (* the client each belongs to                                 *)
  Long       (* those of more than one packet                              *)

ASSUME ClientAssumption ==
  /\ Roles \subseteq SUBSET Client
  /\ IsFiniteSet(Request) /\ Owner \in [Request -> Client] /\ Long \subseteq Request

VARIABLES
  bridges,    (* the clients of a createCtapBridge                         *)
  at,         (* where each request is                                     *)
  left,       (* packets each client has still to write                    *)
  cid,        (* its `this.cid` (a bridge's `channel`), 0 for null         *)
  chan,       (* the channel its reader is open on, or Closed              *)
  asm,        (* its Assembler: the packets of an unfinished message       *)
  ready,      (* its `ready`                                               *)
  resent,     (* requests sent a second time                               *)
  outcome,    (* how each request ended                                    *)
  wire,       (* packets from the key not yet delivered                    *)
  owed,       (* what the key has still to answer, in order                *)
  kept,       (* requests it has sent a keepalive for                      *)
  nextCid,    (* the channel it allocates next                             *)
  executed,   (* how often it has done each request                        *)
  answered    (* requests whose answer came while they were being read for *)

cvars == <<left, cid, chan, asm, ready>>
rvars == <<at, resent, outcome>>
kvars == <<owed, kept, nextCid, executed>>
moving == <<cvars, rvars, kvars, wire, answered>>
hidVars == <<bridges, moving>>

BROADCAST_CID == 0
Closed == Cardinality(Request) + 1

At == {"new", "init", "write", "await", "callback", "done"}
Outcome == {"none", "own", "late", "foreign", "timeout", "failed"}

HidTypeOK ==
  /\ bridges \in Roles
  /\ at \in [Request -> At]
  /\ left \in [Client -> 0 .. 2]
  /\ cid \in [Client -> 0 .. Closed - 1] /\ chan \in [Client -> 0 .. Closed]
  /\ \A c \in Client : chan[c] = Closed => asm[c] = <<>> /\ ready[c] = <<>>
  /\ resent \subseteq Long
  /\ outcome \in [Request -> Outcome]
  /\ nextCid \in 1 .. Closed
  /\ executed \in [Request -> 0 .. 2]

HidInit ==
  /\ bridges \in Roles
  /\ at = [r \in Request |-> "new"]
  /\ left = [c \in Client |-> 0] /\ cid = [c \in Client |-> 0]
  /\ chan = [c \in Client |-> Closed]
  /\ asm = [c \in Client |-> <<>>] /\ ready = [c \in Client |-> <<>>]
  /\ resent = {} /\ outcome = [r \in Request |-> "none"]
  /\ wire = <<>> /\ owed = <<>> /\ kept = {} /\ nextCid = 1
  /\ executed = [r \in Request |-> 0]
  /\ answered = {}

Active(c) == {r \in Request : Owner[r] = c /\ at[r] \notin {"new", "done"}}

-----------------------------------------------------------------------------
(* _open and reader.close(): each exchange has a reader and an Assembler   *)
(* of its own.                                                             *)
Reader(c, ch) ==
  /\ chan' = [chan EXCEPT ![c] = ch]
  /\ asm' = [asm EXCEPT ![c] = <<>>]
  /\ ready' = [ready EXCEPT ![c] = <<>>]

To(r, where) == at' = [at EXCEPT ![r] = where]

(* sendRaw: the reader is open before the first packet is written.         *)
Send(r, ch) ==
  /\ Reader(Owner[r], ch)
  /\ left' = [left EXCEPT ![Owner[r]] = IF r \in Long THEN 2 ELSE 1]
  /\ To(r, "write")

(* bridge.js handle(), catch: `channel = null`.                            *)
CidAfterFailure(c) == IF c \in bridges THEN [cid EXCEPT ![c] = 0] ELSE cid

(* The exchange ends: its reader is closed.                                *)
EndRequest(r, how) ==
  /\ Reader(Owner[r], Closed)
  /\ left' = [left EXCEPT ![Owner[r]] = 0]
  /\ To(r, "done")
  /\ outcome' = [outcome EXCEPT ![r] = how]
  /\ cid' = IF how \in {"timeout", "failed"} THEN CidAfterFailure(Owner[r]) ELSE cid
  /\ UNCHANGED resent

(* A request of a client that is at no other.  The first allocates the     *)
(* channel: the nonce is the same for every client.                        *)
Start(r) ==
  LET c == Owner[r]
  IN /\ at[r] = "new" /\ Active(c) = {}
     /\ IF cid[c] = 0
          THEN /\ Reader(c, BROADCAST_CID) /\ To(r, "init")
               /\ owed' = Append(owed, [kind |-> "INIT", of |-> r, on |-> BROADCAST_CID])
               /\ UNCHANGED left
          ELSE Send(r, cid[c]) /\ UNCHANGED owed
     /\ UNCHANGED <<cid, resent, outcome, kept, nextCid, executed, wire, answered>>

(* init(): the first INIT reply with the nonce is the channel.             *)
HearInit(r) ==
  LET c == Owner[r]
  IN /\ at[r] = "init" /\ ready[c] # <<>>
     /\ cid' = [cid EXCEPT ![c] = Head(ready[c]).cid]
     /\ Send(r, Head(ready[c]).cid)
     /\ UNCHANGED <<resent, outcome, kvars, wire, answered>>

(* bridge.reset(), when the host likes.                                    *)
Reset(c) ==
  /\ c \in bridges /\ cid[c] # 0
  /\ cid' = [cid EXCEPT ![c] = 0]
  /\ UNCHANGED <<left, chan, asm, ready, rvars, kvars, wire, answered>>

(* _write: one packet.  With the last the key has the request, or has cut  *)
(* it, or has missed it.                                                   *)
WritePacket(r) ==
  LET c == Owner[r]
      takes == {"run"} \cup (IF r \in Long THEN {"cut"} ELSE {})
  IN /\ at[r] = "write"
     /\ left' = [left EXCEPT ![c] = @ - 1]
     /\ IF left[c] = 1
          THEN /\ To(r, "await")
               /\ \/ \E kind \in takes : owed' = Append(owed, [kind |-> kind, of |-> r, on |-> chan[c]])
                  \/ UNCHANGED owed
          ELSE UNCHANGED <<at, owed>>
     /\ UNCHANGED <<cid, chan, asm, ready, resent, outcome, kept, nextCid, executed, wire, answered>>

(* A write that rejects, an abort, an onKeepAlive that throws.             *)
Fail(r) ==
  /\ \/ at[r] \in {"write", "callback"}
     \/ at[r] \in {"init", "await"} /\ ready[Owner[r]] = <<>>
  /\ EndRequest(r, "failed")
  /\ UNCHANGED <<kvars, wire, answered>>

TimeoutBetweenMessages(r) ==
  /\ at[r] \in {"init", "await"} /\ ready[Owner[r]] = <<>>
  /\ asm[Owner[r]] = <<>>
  /\ EndRequest(r, "timeout")
  /\ UNCHANGED <<kvars, wire, answered>>

TimeoutResends(r) ==
  /\ at[r] \in {"init", "await"} /\ ready[Owner[r]] = <<>>
  /\ IF at[r] = "await" /\ r \in Long \ resent
       THEN Send(r, chan[Owner[r]]) /\ resent' = resent \cup {r} /\ UNCHANGED <<cid, outcome>>
       ELSE EndRequest(r, "timeout")
  /\ UNCHANGED <<kvars, wire, answered>>

(* next(): nothing came within its limit.                                  *)
Timeout(r) ==
  /\ at[r] \in {"init", "await"} /\ ready[Owner[r]] = <<>>
  /\ EndRequest(r, "timeout")
  /\ UNCHANGED <<kvars, wire, answered>>

(* Whose answer r ended with.                                              *)
Whose(r, of) == IF of = r THEN "own" ELSE IF Owner[of] = Owner[r] THEN "late" ELSE "foreign"

ContinuesNever(m) == FALSE

(* A keepalive is not an answer.                                           *)
Continues(m) == m.kind = "KEEPALIVE"

(* send() resends a request the firmware cut, once; a bridge passes the    *)
(* refusal on as the answer it is.                                         *)
Resends(r, m) == m.kind = "INVALID_COMMAND" /\ r \in Long \ resent /\ Owner[r] \notin bridges

(* _await: the next message that is ready.                                 *)
Read(r) ==
  LET c == Owner[r]
      m == Head(ready[c])
  IN /\ at[r] = "await" /\ ready[c] # <<>>
     /\ \/ /\ Continues(m)
           /\ To(r, "callback")
           /\ ready' = [ready EXCEPT ![c] = Tail(@)]
           /\ UNCHANGED <<left, cid, chan, asm, resent, outcome>>
        \/ m.kind = "ERROR" /\ EndRequest(r, "failed")
        \/ /\ Resends(r, m)
           /\ Send(r, chan[c])
           /\ resent' = resent \cup {r}
           /\ UNCHANGED <<cid, outcome>>
        \/ /\ ~Continues(m) /\ m.kind # "ERROR" /\ ~Resends(r, m)
           /\ EndRequest(r, Whose(r, m.of))
     /\ UNCHANGED <<kvars, wire, answered>>

(* onKeepAlive() has returned: the next read waits longer.                 *)
CallbackDone(r) ==
  /\ at[r] = "callback" /\ To(r, "await")
  /\ UNCHANGED <<cvars, resent, outcome, kvars, wire, answered>>

-----------------------------------------------------------------------------
(* Messages from the key, as packets: the first tells how many there are   *)
(* and of what; the others only their number.                              *)
Message(ch, kind, of, new) ==
  LET n == IF kind = "CBOR" THEN 2 ELSE 1
  IN [i \in 1 .. n |-> [chan |-> ch, seq |-> i, of |-> of,
                        head |-> [kind |-> kind, of |-> of, cid |-> new, packets |-> n]]]

KeyKeepAlive ==
  /\ owed # <<>> /\ Head(owed).kind = "run" /\ Head(owed).of \notin kept
  /\ kept' = kept \cup {Head(owed).of}
  /\ wire' = wire \o Message(Head(owed).on, "KEEPALIVE", Head(owed).of, 0)
  /\ UNCHANGED <<cvars, rvars, owed, nextCid, executed, answered>>

(* It allocates, does what was asked or refuses it; a cut request is       *)
(* refused before anything in it is looked at.                             *)
KeyAnswers ==
  /\ owed # <<>> /\ owed' = Tail(owed)
  /\ LET o == Head(owed)
         says(kind, new) == wire' = wire \o Message(o.on, kind, o.of, new)
     IN \/ /\ o.kind = "INIT" /\ says("INIT", nextCid)
           /\ nextCid' = nextCid + 1 /\ UNCHANGED executed
        \/ /\ o.kind = "run" /\ says("CBOR", 0)
           /\ executed' = [executed EXCEPT ![o.of] = @ + 1] /\ UNCHANGED nextCid
        \/ o.kind = "run" /\ says("ERROR", 0) /\ UNCHANGED <<nextCid, executed>>
        \/ o.kind = "cut" /\ says("INVALID_COMMAND", 0) /\ UNCHANGED <<nextCid, executed>>
  /\ UNCHANGED <<cvars, rvars, kept, answered>>

KeyIgnores ==
  /\ owed # <<>> /\ owed' = Tail(owed)
  /\ UNCHANGED <<cvars, rvars, kept, nextCid, executed, wire, answered>>

-----------------------------------------------------------------------------
PushAnything(a, p) == Append(a, p)

(* Assembler.push: only a first packet begins a message, whatever was      *)
(* unfinished; a continuation must be the one that is due.                 *)
Push(a, p) ==
  IF p.seq = 1 THEN <<p>>
  ELSE IF a # <<>> /\ p.seq = Len(a) + 1 THEN Append(a, p) ELSE a

IsWhole(a) == a # <<>> /\ Len(a) = a[1].head.packets

(* Readers open on the packet's channel; every client hears every report.  *)
Hearers(p) == {c \in Client : chan[c] = p.chan}

(* The next packet arrives: a message it completes is queued until it is   *)
(* asked for.                                                              *)
Deliver ==
  /\ wire # <<>> /\ wire' = Tail(wire)
  /\ LET p == Head(wire)
         pushed(c) == Push(asm[c], p)
         whole == {c \in Hearers(p) : IsWhole(pushed(c))}
     IN /\ asm' = [c \in Client |-> IF c \in whole THEN <<>>
                                    ELSE IF c \in Hearers(p) THEN pushed(c) ELSE asm[c]]
        /\ ready' = [c \in Client |->
             IF c \in whole
               THEN Append(ready[c], [pushed(c)[1].head EXCEPT !.packets = {q.of : q \in ToSet(pushed(c))}])
               ELSE ready[c]]
        /\ answered' = answered \cup
             {r \in Request : at[r] \in {"write", "await", "callback"} /\ p.of = r /\ p.chan = chan[Owner[r]]
                               /\ p.seq = 2}
  /\ UNCHANGED <<left, cid, chan, rvars, kvars>>

HidNext ==
  /\ \/ \E r \in Request :
          \/ Start(r) \/ HearInit(r) \/ WritePacket(r)
          \/ Read(r) \/ CallbackDone(r) \/ Fail(r) \/ Timeout(r)
     \/ \E c \in Client : Reset(c)
     \/ KeyKeepAlive \/ KeyAnswers \/ KeyIgnores
     \/ Deliver
  /\ UNCHANGED bridges

(* The event loop runs what is due, writes settle, timers fire.  Nothing   *)
(* is assumed of the key.                                                  *)
HidFairness ==
  \A r \in Request :
    /\ WF_moving(HearInit(r)) /\ WF_moving(WritePacket(r))
    /\ WF_moving(Read(r)) /\ WF_moving(CallbackDone(r)) /\ WF_moving(Timeout(r))

HidSpec == HidInit /\ [][HidNext]_hidVars /\ HidFairness

-----------------------------------------------------------------------------
(* A message that is handed on was put together from the packets of one    *)
(* message, though a reader may open in the middle of another's.           *)
WholeMessages ==
  /\ HidTypeOK
  /\ \A c \in Client : \A i \in 1 .. Len(ready[c]) : ready[c][i].packets = {ready[c][i].of}

GivenUp == {r \in Request : outcome[r] \in {"timeout", "failed"}}
Alone == \A c, d \in Client : c = d

(* A bridge never reads the answer to one request as the answer to the     *)
(* next, whatever was given up: "dropping [the channel] costs one INIT and *)
(* removes a whole class of off-by-one-response bugs" (bridge.js:118-123). *)
(* It may once it took that of a client it shares a channel with.          *)
BridgeNeverLate ==
  \A r \in Request :
    Owner[r] \in bridges /\ outcome[r] = "late" =>
      \E q \in Request : Owner[q] = Owner[r] /\ outcome[q] = "foreign"

(* Nothing that came while a request was read for is lost, not even while  *)
(* its onKeepAlive runs: a request sent once that timed out had no answer. *)
TimeoutMeansSilence == \A r \in answered \ resent : outcome[r] # "timeout"

(* Until a request of its client is given up, or takes the answer of a     *)
(* client it shares a channel with and so leaves its own behind, or is     *)
(* sent again over a refusal that may be the other's, no request of it     *)
(* ends with the answer of an earlier one; nor does one of a bridge when   *)
(* one was given up.                                                       *)
LateNeedsACause ==
  /\ BridgeNeverLate /\ TimeoutMeansSilence
  /\ \A r \in Request :
       outcome[r] = "late" =>
         \E q \in Request :
           /\ Owner[q] = Owner[r]
           /\ q \in GivenUp \/ outcome[q] = "foreign" \/ (q \in resent /\ ~Alone)

(* The key does nothing twice: the resend follows a refusal in which it    *)
(* had done nothing, unless that was the late answer to another request    *)
(* (or, on a channel two clients share, the answer to the other's).        *)
DoneOnce ==
  Alone =>
    \A r \in Request : executed[r] > 1 => GivenUp \ {r} # {}

(* "The nonce is echoed back, which is how a reply is recognised as ours   *)
(* on a bus that other clients may share" (ctaphid.js:465-466).            *)
ChannelIsOurs == \A c, d \in Client : c # d /\ cid[c] # 0 => cid[c] # cid[d]

(* Every request ends, whatever the key does and however it interleaves    *)
(* keepalives: "IT ALWAYS ANSWERS" (bridge.js:24).                         *)
RequestsEnd == []<>(\A c \in Client : Active(c) = {})
=============================================================================
