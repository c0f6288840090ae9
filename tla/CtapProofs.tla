----------------------------- MODULE CtapProofs -----------------------------
(***************************************************************************)
(* Theorems about requests over CTAPHID: messages are put together from    *)
(* the packets of one, a slipped answer has a cause, and the key does      *)
(* nothing twice.                                                          *)
(*                                                                         *)
(* Nothing on the wire names a request, so the invariant says where what   *)
(* is of a request can still be: owed by the key, on the wire, or heard    *)
(* and not yet read, and behind its answer nothing more of it (Streams).   *)
(* A client whose requests all had their own answers has nothing left of   *)
(* them (Mine); a bridge has none on the channel it is at, because every   *)
(* channel it takes is newer than any it had (Fresh).                      *)
(***************************************************************************)
EXTENDS CtapHid, FiniteSetTheorems, SequenceTheorems, TLAPS

-----------------------------------------------------------------------------
(* The inductive invariant.                                                *)

Kinds == {"INIT", "KEEPALIVE", "CBOR", "ERROR", "INVALID_COMMAND"}
Channels == 0 .. Closed - 1
Owing == [kind : {"INIT", "run", "cut"}, of : Request, on : Channels]
Heading == [kind : Kinds, of : Request, cid : Channels, packets : {1, 2}]
Packet == [chan : Channels, seq : {1, 2}, of : Request, head : Heading]
Heard == [kind : Kinds, of : Request, cid : Channels, packets : SUBSET Request]

(* Every variable has its type.                                            *)
CTyped ==
  /\ HidTypeOK
  /\ owed \in Seq(Owing) /\ wire \in Seq(Packet)
  /\ asm \in [Client -> Seq(Packet)] /\ ready \in [Client -> Seq(Heard)]
  /\ kept \subseteq Request /\ answered \subseteq Request

(* A client is at one request at a time, and its reader is open for it.    *)
Readers ==
  /\ \A r, q \in Request :
       Owner[r] = Owner[q] /\ at[r] \notin {"new", "done"} /\ at[q] \notin {"new", "done"} => r = q
  /\ \A r \in Request :
       /\ at[r] = "init" => chan[Owner[r]] = 0 /\ cid[Owner[r]] = 0
       /\ at[r] \in {"write", "await", "callback"} => chan[Owner[r]] \in 1 .. Closed - 1
       /\ at[r] = "write" => left[Owner[r]] # 0
       /\ outcome[r] = "none" <=> at[r] # "done"
  /\ \A c \in Client :
       chan[c] # Closed => \E r \in Request : Owner[r] = c /\ at[r] \notin {"new", "done"}
  /\ \A r \in resent : Owner[r] \notin bridges /\ at[r] \notin {"new", "init"}

(* Channel 0 is for INIT; a first packet of two is followed by the second, *)
(* and whoever holds it waits for that one.                                *)
Packets ==
  /\ \A i \in 1 .. Len(owed) : owed[i].kind = "INIT" <=> owed[i].on = 0
  /\ \A i \in 1 .. Len(wire) :
       /\ wire[i].head.kind = "INIT" <=> wire[i].chan = 0
       /\ wire[i].head.of = wire[i].of
       /\ wire[i].head.packets = 2 <=> wire[i].head.kind = "CBOR"
       /\ wire[i].head.packets = 2 /\ wire[i].seq = 1 =>
            /\ i + 1 \in 1 .. Len(wire) /\ wire[i + 1].seq = 2 /\ wire[i + 1].chan = wire[i].chan
            /\ wire[i + 1].of = wire[i].of /\ wire[i + 1].head = wire[i].head
       /\ wire[i].seq = 2 =>
            wire[i].head.packets = 2 /\ (i # 1 => wire[i - 1].seq = 1 /\ wire[i - 1].head.packets = 2)
  /\ \A c \in Client :
       asm[c] # <<>> =>
         /\ wire # <<>> /\ wire[1].seq = 2 /\ wire[1].chan = chan[c]
         /\ Len(asm[c]) = 1 /\ asm[c][1].seq = 1
         /\ asm[c][1].of = wire[1].of /\ asm[c][1].head = wire[1].head
  /\ \A c \in Client : \A i \in 1 .. Len(ready[c]) :
       /\ ready[c][i].packets = {ready[c][i].of}
       /\ ready[c][i].kind = "INIT" <=> chan[c] = 0

(* What there is of a request: owed, on the wire, heard.                   *)
OwesNot(r) == \A i \in 1 .. Len(owed) : owed[i].of = r => owed[i].kind = "INIT"
SaysNot(r) == \A i \in 1 .. Len(wire) : wire[i].of = r => wire[i].chan = 0
HeardNot(r) ==
  \A i \in 1 .. Len(ready[Owner[r]]) : ready[Owner[r]][i].of = r => ready[Owner[r]][i].kind = "INIT"
Gone(r) == OwesNot(r) /\ SaysNot(r)

(* Requests that ended without their own answer leave it behind.           *)
Left == {"timeout", "failed", "foreign"}
Clean(c) ==
  \A q \in Request : Owner[q] = c => outcome[q] \notin Left /\ (q \in resent => Alone)
NoForeign(c) == \A q \in Request : Owner[q] = c => outcome[q] # "foreign"
Single(r) ==
  \/ r \notin resent
  \/ Alone /\ \A q \in Request \ {r} : Owner[q] = Owner[r] => outcome[q] \notin Left

Answers == {"CBOR", "ERROR", "INVALID_COMMAND"}

OweOnce(r) ==
  \A i, j \in 1 .. Len(owed) :
    owed[i].of = r /\ owed[j].of = r /\ owed[i].kind # "INIT" /\ owed[j].kind # "INIT" => i = j

SaidLast(r) ==
  \A i \in 1 .. Len(wire) :
    wire[i].of = r /\ wire[i].head.kind \in Answers =>
      /\ OwesNot(r)
      /\ \A j \in 1 .. Len(wire) :
           j > i /\ wire[j].of = r /\ wire[j].chan # 0 =>
             j = i + 1 /\ wire[i].seq = 1 /\ wire[j].seq = 2

HeardLast(r) ==
  \A i \in 1 .. Len(ready[Owner[r]]) :
    ready[Owner[r]][i].of = r /\ ready[Owner[r]][i].kind \in Answers =>
      Gone(r) /\ \A j \in 1 .. Len(ready[Owner[r]]) : j > i => ready[Owner[r]][j].of # r

(* Done once, it is owed no more, and was not refused.                     *)
Done1(r) ==
  /\ executed[r] \in {0, 1}
  /\ executed[r] = 1 =>
       /\ OwesNot(r)
       /\ \A i \in 1 .. Len(wire) : wire[i].of = r => wire[i].head.kind # "INVALID_COMMAND"
       /\ \A i \in 1 .. Len(ready[Owner[r]]) :
            ready[Owner[r]][i].of = r => ready[Owner[r]][i].kind # "INVALID_COMMAND"

NotSent(r) ==
  at[r] \in {"new", "init", "write"} => Gone(r) /\ HeardNot(r) /\ executed[r] = 0

(* Of a request sent once, or again over a refusal that was its own: one   *)
(* answer at most is anywhere, and nothing of it behind that.              *)
Stream(r) == OweOnce(r) /\ SaidLast(r) /\ HeardLast(r) /\ Done1(r) /\ NotSent(r)
Streams == \A r \in Request : Single(r) => Stream(r)

Mine == \A r \in Request : at[r] = "done" /\ Clean(Owner[r]) => Gone(r) /\ HeardNot(r)

(* Of a bridge's requests only the one being read for has anything on the  *)
(* channel the bridge is at.                                               *)
OffChannel(r) ==
  /\ \A i \in 1 .. Len(owed) :
       owed[i].of = r /\ owed[i].kind # "INIT" => owed[i].on \notin {chan[Owner[r]], cid[Owner[r]]}
  /\ \A i \in 1 .. Len(wire) :
       wire[i].of = r /\ wire[i].chan # 0 => wire[i].chan \notin {chan[Owner[r]], cid[Owner[r]]}
  /\ HeardNot(r)

BridgeOwn ==
  \A r \in Request :
    Owner[r] \in bridges /\ NoForeign(Owner[r]) /\ at[r] \notin {"await", "callback"} => OffChannel(r)

(* The channels allocated and not yet heard of are newer than any in use.  *)
Newer(k) == k < nextCid /\ \A i \in 1 .. Len(wire) : wire[i].chan = 0 => k < wire[i].head.cid
Below(k, c) == chan[c] = 0 => \A j \in 1 .. Len(ready[c]) : k < ready[c][j].cid

Fresh ==
  /\ \A i \in 1 .. Len(wire) : wire[i].chan = 0 => wire[i].head.cid < nextCid /\ wire[i].head.cid # 0
  /\ \A i, j \in 1 .. Len(wire) :
       i < j /\ wire[i].chan = 0 /\ wire[j].chan = 0 => wire[i].head.cid < wire[j].head.cid
  /\ \A c \in Client :
       /\ Newer(cid[c]) /\ (chan[c] # Closed => Newer(chan[c]))
       /\ chan[c] = 0 => \A j \in 1 .. Len(ready[c]) : Newer(ready[c][j].cid) /\ ready[c][j].cid # 0
  /\ \A i \in 1 .. Len(owed) :
       owed[i].kind # "INIT" => Newer(owed[i].on) /\ Below(owed[i].on, Owner[owed[i].of])
  /\ \A i \in 1 .. Len(wire) :
       wire[i].chan # 0 => Newer(wire[i].chan) /\ Below(wire[i].chan, Owner[wire[i].of])

(* A request is sent at most twice, and allocates at most once.            *)
Where(s, K) == {i \in 1 .. Len(s) : s[i] \in K}
Inits == {o \in Owing : o.kind = "INIT"}
Runs(r) == {o \in Owing : o.of = r /\ o.kind = "run"}
Sendings(r) ==
  (IF r \in resent THEN 1 ELSE 0) + (IF at[r] \in {"new", "init", "write"} THEN 0 ELSE 1)

Counts ==
  /\ nextCid + Cardinality(Where(owed, Inits)) <= Cardinality({r \in Request : at[r] # "new"}) + 1
  /\ \A r \in Request : executed[r] + Cardinality(Where(owed, Runs(r))) <= Sendings(r)

(* An answer that came while its request was read for is still to be read. *)
Silence ==
  /\ \A r \in answered \ resent :
       /\ at[r] \in {"await", "callback", "done"} /\ outcome[r] # "timeout"
       /\ at[r] # "done" =>
            \E i \in 1 .. Len(ready[Owner[r]]) : ready[Owner[r]][i].kind = "CBOR"
  /\ \A r \in Request \ resent :
       at[r] \in {"await", "callback"} /\ wire # <<>> /\ wire[1].of = r /\ wire[1].seq = 2
         /\ wire[1].chan = chan[Owner[r]] => asm[Owner[r]] # <<>>

Lates ==
  \A r \in Request :
    outcome[r] = "late" => ~Clean(Owner[r]) /\ (Owner[r] \in bridges => ~NoForeign(Owner[r]))

CInv ==
  CTyped /\ Readers /\ Packets /\ Streams /\ Mine /\ BridgeOwn /\ Fresh /\ Counts /\ Silence /\ Lates

-----------------------------------------------------------------------------
(* The numbers: there are finitely many requests.                          *)
LEMMA Numbers == Closed \in Nat /\ Closed >= 1 /\ Closed = Cardinality(Request) + 1
BY ClientAssumption, FS_CardinalityType DEF Closed

(* Counting the places of a sequence that hold something of a set.         *)
LEMMA WhereFinite ==
  ASSUME NEW T, NEW s \in Seq(T), NEW K
  PROVE  IsFiniteSet(Where(s, K)) /\ Cardinality(Where(s, K)) \in Nat
<1>1. Len(s) \in Nat
  BY LenProperties
<1>2. IsFiniteSet(1 .. Len(s))
  BY <1>1, FS_Interval
<1>3. Where(s, K) \in SUBSET (1 .. Len(s))
  BY DEF Where
<1>4. QED BY <1>2, <1>3, FS_Subset, FS_CardinalityType

(* One more at the end.                                                    *)
LEMMA WhereAppend ==
  ASSUME NEW T, NEW s \in Seq(T), NEW K, NEW e \in T
  PROVE  Cardinality(Where(Append(s, e), K)) =
           Cardinality(Where(s, K)) + (IF e \in K THEN 1 ELSE 0)
<1>1. /\ Len(Append(s, e)) = Len(s) + 1 /\ Len(s) \in Nat
      /\ \A i \in 1 .. Len(s) : Append(s, e)[i] = s[i]
      /\ Append(s, e)[Len(s) + 1] = e
  BY AppendProperties, LenProperties
<1>2. Where(Append(s, e), K) = Where(s, K) \cup (IF e \in K THEN {Len(s) + 1} ELSE {})
  BY <1>1 DEF Where
<1>3. Len(s) + 1 \notin Where(s, K)
  BY <1>1 DEF Where
<1>4. CASE e \in K
  BY <1>2, <1>3, <1>4, WhereFinite, FS_AddElement
<1>5. CASE e \notin K
  BY <1>2, <1>5, WhereFinite
<1>6. QED BY <1>4, <1>5

(* One fewer at the front.                                                 *)
LEMMA WhereTail ==
  ASSUME NEW T, NEW s \in Seq(T), NEW K, s # <<>>
  PROVE  Cardinality(Where(s, K)) =
           Cardinality(Where(Tail(s), K)) + (IF Head(s) \in K THEN 1 ELSE 0)
<1>1. /\ Head(s) = s[1] /\ Tail(s) \in Seq(T) /\ Len(Tail(s)) = Len(s) - 1 /\ Len(s) \in Nat
      /\ Len(s) # 0 /\ \A i \in 1 .. Len(Tail(s)) : Tail(s)[i] = s[i + 1]
  BY HeadTailProperties, LenProperties, EmptySeq
<1> DEFINE A == Where(Tail(s), K)
           B == Where(s, K) \ {1}
           f == [i \in A |-> i + 1]
<1>2. IsFiniteSet(A) /\ Cardinality(A) \in Nat
  BY <1>1, WhereFinite
<1>3. f \in Bijection(A, B)
  <2>1. \A i \in A : i \in Nat /\ i + 1 \in B
    BY <1>1 DEF Where
  <2>2. \A j \in B : j - 1 \in A /\ (j - 1) + 1 = j
    BY <1>1 DEF Where
  <2>3. f \in [A -> B]
    BY <2>1
  <2>4. f \in Injection(A, B)
    BY <2>1, <2>3 DEF Injection, IsInjective
  <2>5. f \in Surjection(A, B)
    BY <2>1, <2>2, <2>3 DEF Surjection
  <2>6. QED BY <2>4, <2>5 DEF Bijection
<1>4. Cardinality(B) = Cardinality(A)
  BY <1>2, <1>3, FS_Bijection DEF ExistsBijection
<1>5. IsFiniteSet(Where(s, K)) /\ Cardinality(Where(s, K)) \in Nat
  BY WhereFinite
<1>6. Cardinality(B) = IF 1 \in Where(s, K) THEN Cardinality(Where(s, K)) - 1
                       ELSE Cardinality(Where(s, K))
  BY <1>5, FS_RemoveElement
<1>7. 1 \in Where(s, K) <=> Head(s) \in K
  BY <1>1 DEF Where
<1>8. QED BY <1>2, <1>4, <1>5, <1>6, <1>7

(* What a sequence is after an element came, and after the first went.     *)
LEMMA OwedGrows ==
  ASSUME CTyped, NEW e \in Owing, owed' = Append(owed, e)
  PROVE  /\ owed' \in Seq(Owing) /\ Len(owed') = Len(owed) + 1 /\ Len(owed) \in Nat
         /\ \A i \in 1 .. Len(owed') : (i \in 1 .. Len(owed) /\ owed'[i] = owed[i])
                                     \/ (i = Len(owed) + 1 /\ owed'[i] = e)
BY AppendProperties, LenProperties DEF CTyped

(* What is owed when the first of it is answered or missed.                *)
LEMMA OwedShrinks ==
  ASSUME CTyped, owed # <<>>, owed' = Tail(owed)
  PROVE  /\ owed' \in Seq(Owing) /\ Len(owed') = Len(owed) - 1 /\ Len(owed) \in Nat \ {0}
         /\ \A i \in 1 .. Len(owed') : i + 1 \in 1 .. Len(owed) /\ owed'[i] = owed[i + 1]
         /\ Head(owed) = owed[1] /\ 1 \in 1 .. Len(owed) /\ Head(owed) \in Owing
<1>1. /\ Head(owed) = owed[1] /\ Head(owed) \in Owing /\ Tail(owed) \in Seq(Owing)
      /\ Len(Tail(owed)) = Len(owed) - 1 /\ Len(owed) \in Nat /\ Len(owed) # 0
      /\ \A i \in 1 .. Len(Tail(owed)) : Tail(owed)[i] = owed[i + 1]
  BY HeadTailProperties, LenProperties, EmptySeq DEF CTyped
<1>2. QED BY <1>1

(* And what is on the wire when a packet arrived.                          *)
LEMMA WireShrinks ==
  ASSUME CTyped, wire # <<>>, wire' = Tail(wire)
  PROVE  /\ wire' \in Seq(Packet) /\ Len(wire') = Len(wire) - 1 /\ Len(wire) \in Nat \ {0}
         /\ \A i \in 1 .. Len(wire') : i + 1 \in 1 .. Len(wire) /\ wire'[i] = wire[i + 1]
         /\ Head(wire) = wire[1] /\ 1 \in 1 .. Len(wire) /\ Head(wire) \in Packet
<1>1. /\ Head(wire) = wire[1] /\ Head(wire) \in Packet /\ Tail(wire) \in Seq(Packet)
      /\ Len(Tail(wire)) = Len(wire) - 1 /\ Len(wire) \in Nat /\ Len(wire) # 0
      /\ \A i \in 1 .. Len(Tail(wire)) : Tail(wire)[i] = wire[i + 1]
  BY HeadTailProperties, LenProperties, EmptySeq DEF CTyped
<1>2. QED BY <1>1

(* A wire that is not empty has a first packet.                            *)
LEMMA WireFirst == ASSUME CTyped, wire # <<>> PROVE 1 \in 1 .. Len(wire) /\ Len(wire) \in Nat
BY EmptySeq, LenProperties DEF CTyped

(* A message is one packet or two.                                         *)
LEMMA MessagePackets ==
  \A ch \in Channels, kind \in Kinds, of \in Request, new \in Channels :
    /\ Message(ch, kind, of, new) \in Seq(Packet)
    /\ Len(Message(ch, kind, of, new)) = IF kind = "CBOR" THEN 2 ELSE 1
    /\ \A i \in 1 .. Len(Message(ch, kind, of, new)) :
         /\ Message(ch, kind, of, new)[i].chan = ch /\ Message(ch, kind, of, new)[i].of = of
         /\ Message(ch, kind, of, new)[i].seq = i
         /\ Message(ch, kind, of, new)[i].head.kind = kind
         /\ Message(ch, kind, of, new)[i].head.of = of
         /\ Message(ch, kind, of, new)[i].head.cid = new
         /\ Message(ch, kind, of, new)[i].head.packets = IF kind = "CBOR" THEN 2 ELSE 1
<1> TAKE ch \in Channels, kind \in Kinds, of \in Request, new \in Channels
<1> DEFINE n == IF kind = "CBOR" THEN 2 ELSE 1
           head == [kind |-> kind, of |-> of, cid |-> new, packets |-> n]
           packet(i) == [chan |-> ch, seq |-> i, of |-> of, head |-> head]
<1>1. n \in {1, 2}
  OBVIOUS
<1>2. Message(ch, kind, of, new) = [i \in 1 .. n |-> packet(i)]
  BY DEF Message
<1>3. head \in Heading /\ head.kind = kind /\ head.of = of /\ head.cid = new /\ head.packets = n
  BY <1>1 DEF Heading
<1> HIDE DEF n, head
<1>4. \A i \in 1 .. n : packet(i) \in Packet
  BY <1>1, <1>3 DEF Packet
<1>5. \A i : packet(i).chan = ch /\ packet(i).of = of /\ packet(i).seq = i /\ packet(i).head = head
  OBVIOUS
<1> HIDE DEF packet
<1>6. [i \in 1 .. n |-> packet(i)] \in Seq(Packet) /\ Len([i \in 1 .. n |-> packet(i)]) = n
  BY <1>1, <1>4, IsASeq
<1>7. \A i \in 1 .. n : [j \in 1 .. n |-> packet(j)][i] = packet(i)
  OBVIOUS
<1>8. n = IF kind = "CBOR" THEN 2 ELSE 1
  BY DEF n
<1>9. QED BY <1>2, <1>3, <1>5, <1>6, <1>7, <1>8

(* What the wire is when the key has said something.                       *)
Said(ch, kind, of, new) ==
  /\ wire' \in Seq(Packet) /\ Len(wire) \in Nat
  /\ Len(wire') = Len(wire) + (IF kind = "CBOR" THEN 2 ELSE 1)
  /\ \A i \in 1 .. Len(wire) : wire'[i] = wire[i]
  /\ \A i \in 1 .. Len(wire') : i \notin 1 .. Len(wire) =>
       /\ wire'[i].chan = ch /\ wire'[i].of = of /\ wire'[i].seq = i - Len(wire)
       /\ wire'[i].head = [kind |-> kind, of |-> of, cid |-> new,
                           packets |-> IF kind = "CBOR" THEN 2 ELSE 1]

(* The message is its end.                                                 *)
LEMMA WireGrows ==
  ASSUME CTyped
  PROVE  \A ch \in Channels, kind \in Kinds, of \in Request, new \in Channels :
           wire' = wire \o Message(ch, kind, of, new) => Said(ch, kind, of, new)
<1> TAKE ch \in Channels, kind \in Kinds, of \in Request, new \in Channels
<1> HAVE wire' = wire \o Message(ch, kind, of, new)
<1> DEFINE m == Message(ch, kind, of, new)
<1>1. /\ m \in Seq(Packet) /\ Len(m) = IF kind = "CBOR" THEN 2 ELSE 1
      /\ \A i \in 1 .. Len(m) :
           /\ m[i].chan = ch /\ m[i].of = of /\ m[i].seq = i
           /\ m[i].head.kind = kind /\ m[i].head.of = of /\ m[i].head.cid = new
           /\ m[i].head.packets = IF kind = "CBOR" THEN 2 ELSE 1
  BY MessagePackets
<1>2. wire' = wire \o m /\ wire \in Seq(Packet)
  BY DEF CTyped
<1> HIDE DEF m
<1>3. /\ wire \o m \in Seq(Packet) /\ Len(wire \o m) = Len(wire) + Len(m)
      /\ Len(wire) \in Nat /\ Len(m) \in Nat
      /\ \A i \in 1 .. Len(wire) + Len(m) :
           (wire \o m)[i] = IF i <= Len(wire) THEN wire[i] ELSE m[i - Len(wire)]
  BY <1>1, <1>2, ConcatProperties, LenProperties
<1>4. \A i \in 1 .. Len(m) :
        m[i].head = [kind |-> kind, of |-> of, cid |-> new,
                     packets |-> IF kind = "CBOR" THEN 2 ELSE 1]
  <2> SUFFICES ASSUME NEW i \in 1 .. Len(m)
               PROVE  m[i].head = [kind |-> kind, of |-> of, cid |-> new,
                                   packets |-> IF kind = "CBOR" THEN 2 ELSE 1]
    OBVIOUS
  <2>1. m[i] \in Packet
    BY <1>1, ElementOfSeq
  <2>2. m[i].head \in Heading
    BY <2>1 DEF Packet
  <2>3. QED BY <1>1, <2>2 DEF Heading
<1>5. ASSUME NEW i \in 1 .. Len(wire'), i \notin 1 .. Len(wire)
      PROVE  /\ wire'[i].chan = ch /\ wire'[i].of = of /\ wire'[i].seq = i - Len(wire)
             /\ wire'[i].head = [kind |-> kind, of |-> of, cid |-> new,
                                 packets |-> IF kind = "CBOR" THEN 2 ELSE 1]
  <2>1. i - Len(wire) \in 1 .. Len(m) /\ ~(i <= Len(wire))
    BY <1>2, <1>3, <1>5
  <2>2. wire'[i] = m[i - Len(wire)]
    BY <1>2, <1>3, <1>5, <2>1
  <2>3. QED BY <1>1, <1>4, <2>1, <2>2
<1>6. QED BY <1>1, <1>2, <1>3, <1>5 DEF Said

-----------------------------------------------------------------------------
(* The steps of the clients.                                               *)

(* The types and the reader of one client after a step of it alone.        *)
LEMMA OneClient ==
  ASSUME CTyped, NEW c \in Client, NEW ch \in 0 .. Closed, Reader(c, ch)
  PROVE  /\ chan' \in [Client -> 0 .. Closed] /\ chan'[c] = ch
         /\ asm' \in [Client -> Seq(Packet)] /\ asm'[c] = <<>>
         /\ ready' \in [Client -> Seq(Heard)] /\ ready'[c] = <<>> /\ Len(ready'[c]) = 0
         /\ \A d \in Client \ {c} : chan'[d] = chan[d] /\ asm'[d] = asm[d] /\ ready'[d] = ready[d]
<1>1. <<>> \in Seq(Packet) /\ <<>> \in Seq(Heard) /\ Len(<<>>) = 0
  BY EmptySeq
<1>2. /\ chan \in [Client -> 0 .. Closed]
      /\ asm \in [Client -> Seq(Packet)] /\ ready \in [Client -> Seq(Heard)]
  BY DEF CTyped, HidTypeOK
<1> DEFINE e == <<>>
<1>3. /\ chan' = [chan EXCEPT ![c] = ch] /\ asm' = [asm EXCEPT ![c] = e]
      /\ ready' = [ready EXCEPT ![c] = e]
      /\ e \in Seq(Packet) /\ e \in Seq(Heard) /\ Len(e) = 0
  BY <1>1 DEF Reader
<1> HIDE DEF e
<1>4. /\ chan' \in [Client -> 0 .. Closed] /\ chan'[c] = ch
      /\ asm' \in [Client -> Seq(Packet)] /\ asm'[c] = e
      /\ ready' \in [Client -> Seq(Heard)] /\ ready'[c] = e
      /\ \A d \in Client \ {c} : chan'[d] = chan[d] /\ asm'[d] = asm[d] /\ ready'[d] = ready[d]
  BY <1>2, <1>3
<1>5. QED BY <1>3, <1>4 DEF e

(* Where the sequences are as they were, so is what was said of them.      *)
LEMMA SameThings ==
  ASSUME owed' = owed, wire' = wire
  PROVE  \A r \in Request :
           /\ OwesNot(r)' <=> OwesNot(r)
           /\ SaysNot(r)' <=> SaysNot(r)
           /\ Gone(r)' <=> Gone(r)
           /\ OweOnce(r)' <=> OweOnce(r)
           /\ SaidLast(r)' <=> SaidLast(r)
BY DEF OwesNot, SaysNot, Gone, OweOnce, SaidLast

(* What is owed is of before, or is new: it asks for a channel, or is on   *)
(* one that is in use.                                                     *)
OwedFrom ==
  \A i \in 1 .. Len(owed') :
    \/ \E j \in 1 .. Len(owed) : owed'[i] = owed[j]
    \/ owed'[i].kind = "INIT" /\ owed'[i].on = 0
    \/ /\ owed'[i].kind # "INIT" /\ owed'[i].on # 0 /\ Newer(owed'[i].on)
       /\ chan'[Owner[owed'[i].of]] # 0

(* What a client has heard and not read is the end of what it had.         *)
Ebb ==
  \A d \in Client :
    \/ Len(ready'[d]) = 0
    \/ /\ chan'[d] = chan[d]
       /\ \E k \in Nat : \A i \in 1 .. Len(ready'[d]) :
            i + k \in 1 .. Len(ready[d]) /\ ready'[d][i] = ready[d][i + k]

(* What is owed of a request is the end of what was.                       *)
OwedEbb(r) ==
  \E k \in Nat : \A i \in 1 .. Len(owed') :
    owed'[i].of = r /\ owed'[i].kind # "INIT" => i + k \in 1 .. Len(owed) /\ owed'[i] = owed[i + k]

AsmFrom == \A d \in Client : asm'[d] = <<>> \/ (asm'[d] = asm[d] /\ chan'[d] = chan[d])

(* Each thing that was owed, said or heard is of its type.                 *)
LEMMA Things ==
  ASSUME CTyped
  PROVE  /\ \A i \in 1 .. Len(owed) : owed[i] \in Owing
         /\ \A i \in 1 .. Len(wire) : wire[i] \in Packet
         /\ \A c \in Client : Len(ready[c]) \in Nat /\ \A i \in 1 .. Len(ready[c]) : ready[c][i] \in Heard
         /\ \A q \in Request : Owner[q] \in Client
<1>1. owed \in Seq(Owing) /\ wire \in Seq(Packet)
  BY DEF CTyped
<1>2. \A c \in Client : ready[c] \in Seq(Heard)
  BY DEF CTyped
<1>3. \A c \in Client : \A i \in 1 .. Len(ready[c]) : ready[c][i] \in Heard
  <2> SUFFICES ASSUME NEW c \in Client, NEW i \in 1 .. Len(ready[c]) PROVE ready[c][i] \in Heard
    OBVIOUS
  <2>1. QED BY <1>2, ElementOfSeq
<1>4. QED BY <1>1, <1>2, <1>3, ElementOfSeq, LenProperties, ClientAssumption

(* A client's step leaves the channels in order.                           *)
LEMMA FreshKept ==
  ASSUME CTyped, Fresh, wire' = wire, nextCid' = nextCid, owed' \in Seq(Owing), OwedFrom, Ebb,
         \A d \in Client : Newer(cid'[d]) /\ (chan'[d] # Closed => Newer(chan'[d]))
  PROVE  Fresh'
<1>1. \A k : Newer(k)' <=> Newer(k)
  BY DEF Newer
<1>2. ASSUME NEW d \in Client, chan'[d] = 0, NEW j \in 1 .. Len(ready'[d])
      PROVE  chan[d] = 0 /\ \E i \in 1 .. Len(ready[d]) : ready'[d][j] = ready[d][i]
  <2>1. Len(ready'[d]) # 0
    BY <1>2
  <2>2. chan[d] = 0
    BY <1>2, <2>1 DEF Ebb
  <2>3. PICK k \in Nat : \A i \in 1 .. Len(ready'[d]) :
                           i + k \in 1 .. Len(ready[d]) /\ ready'[d][i] = ready[d][i + k]
    BY <2>1 DEF Ebb
  <2>4. QED BY <2>2, <2>3
<1>3. \A k : \A d \in Client : Below(k, d) => Below(k, d)'
  <2> SUFFICES ASSUME NEW k, NEW d \in Client, Below(k, d), chan'[d] = 0,
                      NEW j \in 1 .. Len(ready'[d])
               PROVE  k < ready'[d][j].cid
    BY DEF Below
  <2>1. PICK i \in 1 .. Len(ready[d]) : ready'[d][j] = ready[d][i]
    BY <1>2
  <2>2. chan[d] = 0
    BY <1>2
  <2>3. QED BY <2>1, <2>2 DEF Below
<1>4. ASSUME NEW d \in Client, chan'[d] = 0, NEW j \in 1 .. Len(ready'[d])
      PROVE  Newer(ready'[d][j].cid) /\ ready'[d][j].cid # 0
  <2>1. PICK i \in 1 .. Len(ready[d]) : ready'[d][j] = ready[d][i]
    BY <1>2, <1>4
  <2>2. chan[d] = 0
    BY <1>2, <1>4
  <2>3. QED BY <2>1, <2>2 DEF Fresh
<1>5. ASSUME NEW i \in 1 .. Len(owed'), owed'[i].kind # "INIT",
             NEW k, k = owed'[i].on, NEW d, d = Owner[owed'[i].of]
      PROVE  Newer(k) /\ Below(k, d)'
  <2>1. owed'[i] \in Owing
    BY ElementOfSeq
  <2>2. d \in Client
    BY <1>5, <2>1, ClientAssumption DEF Owing
  <2>3. CASE \E j \in 1 .. Len(owed) : owed'[i] = owed[j]
    <3>1. PICK j \in 1 .. Len(owed) : owed'[i] = owed[j]
      BY <2>3
    <3>2. Newer(k) /\ Below(k, d)
      BY <1>5, <3>1 DEF Fresh
    <3>3. QED BY <1>3, <2>2, <3>2
  <2>4. CASE Newer(k) /\ chan'[d] # 0
    BY <2>4 DEF Below
  <2>5. QED BY <1>5, <2>3, <2>4 DEF OwedFrom
<1>6. ASSUME NEW i \in 1 .. Len(wire), wire[i].chan # 0, NEW k, k = wire[i].chan,
             NEW d, d = Owner[wire[i].of]
      PROVE  Newer(k) /\ Below(k, d)'
  <2>1. d \in Client
    BY <1>6, Things, ClientAssumption DEF Packet
  <2>2. Newer(k) /\ Below(k, d)
    BY <1>6 DEF Fresh
  <2>3. QED BY <1>3, <2>1, <2>2
<1>7. /\ \A i \in 1 .. Len(wire') : wire'[i].chan = 0 =>
          wire'[i].head.cid < nextCid' /\ wire'[i].head.cid # 0
      /\ \A i, j \in 1 .. Len(wire') :
           i < j /\ wire'[i].chan = 0 /\ wire'[j].chan = 0 => wire'[i].head.cid < wire'[j].head.cid
  BY DEF Fresh
<1>8. \A d \in Client :
        /\ Newer(cid[d])' /\ (chan'[d] # Closed => Newer(chan[d])')
        /\ chan'[d] = 0 => \A j \in 1 .. Len(ready'[d]) : Newer(ready[d][j].cid)' /\ ready'[d][j].cid # 0
  BY <1>1, <1>4 DEF Newer
<1>9. \A i \in 1 .. Len(owed') :
        owed'[i].kind # "INIT" => Newer(owed[i].on)' /\ Below(owed[i].on, Owner[owed[i].of])'
  BY <1>5 DEF Newer, Below
<1>10. \A i \in 1 .. Len(wire') :
         wire'[i].chan # 0 => Newer(wire[i].chan)' /\ Below(wire[i].chan, Owner[wire[i].of])'
  BY <1>6 DEF Newer, Below
<1>11. QED BY <1>7, <1>8, <1>9, <1>10 DEF Fresh

(* Channel 0 is older than every channel.                                  *)
LEMMA FreshZero ==
  ASSUME CTyped, Fresh
  PROVE  Newer(0)
<1>1. \A i \in 1 .. Len(wire) : wire[i].chan = 0 => wire[i].head.cid \in Nat \ {0}
  <2>1. \A i \in 1 .. Len(wire) : wire[i] \in Packet
    BY Things
  <2>2. QED BY <2>1, Numbers DEF Fresh, Packet, Heading, Channels
<1>2. 0 < nextCid
  BY Numbers DEF CTyped, HidTypeOK
<1>3. QED BY <1>1, <1>2 DEF Newer

(* And what it may hold of a message, whole.                               *)
LEMMA PacketsKept ==
  ASSUME CTyped, Packets, wire' = wire, OwedFrom, Ebb, AsmFrom
  PROVE  Packets'
<1>1. \A i \in 1 .. Len(owed') : owed'[i].kind = "INIT" <=> owed'[i].on = 0
  BY DEF OwedFrom, Packets
<1>2. ASSUME NEW d \in Client, asm'[d] # <<>>
      PROVE  /\ wire # <<>> /\ wire[1].seq = 2 /\ wire[1].chan = chan'[d]
             /\ Len(asm'[d]) = 1 /\ asm'[d][1].seq = 1
             /\ asm'[d][1].of = wire[1].of /\ asm'[d][1].head = wire[1].head
  <2>1. asm'[d] = asm[d] /\ chan'[d] = chan[d]
    BY <1>2 DEF AsmFrom
  <2>2. QED BY <1>2, <2>1 DEF Packets
<1>3. ASSUME NEW d \in Client, NEW i \in 1 .. Len(ready'[d])
      PROVE  /\ ready'[d][i].packets = {ready'[d][i].of}
             /\ ready'[d][i].kind = "INIT" <=> chan'[d] = 0
  <2>1. Len(ready'[d]) # 0
    BY <1>3
  <2>2. chan'[d] = chan[d]
    BY <2>1 DEF Ebb
  <2>3. PICK k \in Nat : \A j \in 1 .. Len(ready'[d]) :
                           j + k \in 1 .. Len(ready[d]) /\ ready'[d][j] = ready[d][j + k]
    BY <2>1 DEF Ebb
  <2>4. i + k \in 1 .. Len(ready[d]) /\ ready'[d][i] = ready[d][i + k]
    BY <2>3
  <2>5. QED BY <2>2, <2>4 DEF Packets
<1>4. QED BY <1>1, <1>2, <1>3 DEF Packets

(* What a request had nothing heard of it has none after.                  *)
LEMMA HeardLess ==
  ASSUME Ebb, NEW r \in Request, Owner[r] \in Client, HeardNot(r)
  PROVE  HeardNot(r)'
<1> DEFINE c == Owner[r]
<1> SUFFICES ASSUME NEW i \in 1 .. Len(ready'[c]), ready'[c][i].of = r
             PROVE  ready'[c][i].kind = "INIT"
  BY DEF HeardNot
<1>1. Len(ready'[c]) # 0
  OBVIOUS
<1>2. PICK k \in Nat : \A j \in 1 .. Len(ready'[c]) :
                         j + k \in 1 .. Len(ready[c]) /\ ready'[c][j] = ready[c][j + k]
  BY <1>1 DEF Ebb
<1>3. QED BY <1>2 DEF HeardNot

(* And where the reader of its client is, the whole stream.                *)
LEMMA SameStream ==
  ASSUME wire' = wire, executed' = executed, NEW r \in Request, OwedEbb(r),
         Owner[r] \in Client, Stream(r), Ebb,
         (at'[r] = at[r]) \/ (at'[r] \notin {"new", "init", "write"})
           \/ (Gone(r) /\ executed[r] = 0 /\ Len(ready'[Owner[r]]) = 0)
  PROVE  Stream(r)'
<1>1. (OwesNot(r) => OwesNot(r)') /\ (Gone(r) => Gone(r)')
  BY DEF OwedEbb, OwesNot, SaysNot, Gone
<1>2. OweOnce(r)'
  <2>1. PICK k \in Nat : \A i \in 1 .. Len(owed') :
          owed'[i].of = r /\ owed'[i].kind # "INIT" =>
            i + k \in 1 .. Len(owed) /\ owed'[i] = owed[i + k]
    BY DEF OwedEbb
  <2> SUFFICES ASSUME NEW i \in 1 .. Len(owed'), NEW j \in 1 .. Len(owed'), owed'[i].of = r, owed'[j].of = r,
                      owed'[i].kind # "INIT", owed'[j].kind # "INIT"
               PROVE  i = j
    BY DEF OweOnce
  <2>2. i + k = j + k
    BY <2>1 DEF Stream, OweOnce
  <2>3. QED BY <2>2
<1>3. SaidLast(r)'
  BY <1>1 DEF Stream, SaidLast
<1> DEFINE c == Owner[r]
<1>4. PICK k \in Nat : \A i \in 1 .. Len(ready'[c]) :
                         i + k \in 1 .. Len(ready[c]) /\ ready'[c][i] = ready[c][i + k]
  <2>1. CASE Len(ready'[c]) = 0
    <3>1. 1 .. Len(ready'[c]) = {} /\ 0 \in Nat
      BY <2>1
    <3>2. QED BY <3>1
  <2>2. CASE Len(ready'[c]) # 0
    BY <2>2 DEF Ebb
  <2>3. QED BY <2>1, <2>2
<1>5. HeardLast(r)'
  <2> SUFFICES ASSUME NEW i \in 1 .. Len(ready'[c]),
                      ready'[c][i].of = r, ready'[c][i].kind \in Answers
               PROVE  Gone(r)' /\ \A j \in 1 .. Len(ready'[c]) : j > i => ready'[c][j].of # r
    BY DEF HeardLast
  <2>1. i + k \in 1 .. Len(ready[c]) /\ ready'[c][i] = ready[c][i + k]
    BY <1>4
  <2>2. Gone(r) /\ \A j \in 1 .. Len(ready[c]) : j > i + k => ready[c][j].of # r
    BY <2>1 DEF Stream, HeardLast
  <2>3. ASSUME NEW j \in 1 .. Len(ready'[c]), j > i PROVE ready'[c][j].of # r
    <3>1. j + k \in 1 .. Len(ready[c]) /\ ready'[c][j] = ready[c][j + k] /\ j + k > i + k
      BY <1>4, <2>3
    <3>2. QED BY <2>2, <3>1
  <2>4. QED BY <1>1, <2>2, <2>3
<1>6. Done1(r)'
  <2>1. Done1(r)
    BY DEF Stream
  <2>2. ASSUME executed[r] = 1, NEW i \in 1 .. Len(ready'[c]), ready'[c][i].of = r
        PROVE  ready'[c][i].kind # "INVALID_COMMAND"
    <3>1. i + k \in 1 .. Len(ready[c]) /\ ready'[c][i] = ready[c][i + k]
      BY <1>4
    <3>2. QED BY <2>1, <2>2, <3>1 DEF Done1
  <2>3. QED BY <1>1, <2>1, <2>2 DEF Done1
<1>7. NotSent(r)'
  <2>1. CASE at'[r] = at[r] /\ at[r] \in {"new", "init", "write"}
    <3>1. Gone(r) /\ HeardNot(r) /\ executed[r] = 0
      BY <2>1 DEF Stream, NotSent
    <3>2. HeardNot(r)'
      <4> SUFFICES ASSUME NEW i \in 1 .. Len(ready'[c]), ready'[c][i].of = r
                   PROVE  ready'[c][i].kind = "INIT"
        BY DEF HeardNot
      <4>1. i + k \in 1 .. Len(ready[c]) /\ ready'[c][i] = ready[c][i + k]
        BY <1>4
      <4>2. QED BY <3>1, <4>1 DEF HeardNot
    <3>3. QED BY <1>1, <3>1, <3>2 DEF NotSent
  <2>2. CASE at'[r] \notin {"new", "init", "write"}
    BY <2>2 DEF NotSent
  <2>3. CASE Gone(r) /\ executed[r] = 0 /\ Len(ready'[Owner[r]]) = 0
    BY <1>1, <2>3 DEF NotSent, HeardNot
  <2>4. QED BY <2>1, <2>2, <2>3
<1>8. QED BY <1>2, <1>3, <1>5, <1>6, <1>7 DEF Stream

(* Of a request nothing is owed or on the wire on a channel.               *)
Off(q, k) ==
  /\ \A i \in 1 .. Len(owed) : owed[i].of = q /\ owed[i].kind # "INIT" => owed[i].on # k
  /\ \A i \in 1 .. Len(wire) : wire[i].of = q /\ wire[i].chan # 0 => wire[i].chan # k

(* A client moves a request of its own on, at no other.                    *)
Moving(r) ==
  /\ bridges' = bridges /\ wire' = wire /\ kept' = kept /\ nextCid' = nextCid
  /\ executed' = executed /\ answered' = answered /\ outcome' = outcome
  /\ at' \in [Request -> At] /\ left' \in [Client -> 0 .. 2]
  /\ cid' \in [Client -> 0 .. Closed - 1] /\ chan' \in [Client -> 0 .. Closed]
  /\ asm' \in [Client -> Seq(Packet)] /\ ready' \in [Client -> Seq(Heard)]
  /\ owed' \in Seq(Owing)
  /\ \A q \in Request \ {r} : at'[q] = at[q] /\ OwedEbb(q)
  /\ \A d \in Client \ {Owner[r]} :
       left'[d] = left[d] /\ cid'[d] = cid[d] /\ chan'[d] = chan[d] /\ asm'[d] = asm[d] /\ ready'[d] = ready[d]
  /\ at[r] # "done" /\ at'[r] \in {"init", "write", "await", "callback"}
  /\ \A q \in Request \ {r} : Owner[q] = Owner[r] => at[q] \in {"new", "done"}
  /\ OwedFrom /\ Ebb /\ AsmFrom

(* Its reader is where the request is, on a channel of the client's own.   *)
Placed(r) ==
  /\ at'[r] = "init" => chan'[Owner[r]] = 0 /\ cid'[Owner[r]] = 0
  /\ at'[r] \in {"write", "await", "callback"} => chan'[Owner[r]] \in 1 .. Closed - 1
  /\ at'[r] = "write" => left'[Owner[r]] # 0
  /\ Newer(cid'[Owner[r]]) /\ Newer(chan'[Owner[r]])
  /\ (resent' = resent) \/ (resent' = resent \cup {r})
  /\ r \in resent' => Owner[r] \notin bridges /\ r \in Long /\ at'[r] # "init"

(* What came of it while it was read for is there to be read.              *)
Hears(r) ==
  /\ r \in answered \ resent' =>
       /\ at'[r] \in {"await", "callback"}
       /\ \E i \in 1 .. Len(ready'[Owner[r]]) : ready'[Owner[r]][i].kind = "CBOR"
  /\ r \notin resent' /\ at'[r] \in {"await", "callback"} /\ wire # <<>> /\ wire[1].of = r /\ wire[1].seq = 2
       /\ wire[1].chan = chan'[Owner[r]] => asm'[Owner[r]] # <<>>

(* And nothing of its client is on its channel, if it is a bridge's.       *)
Apart(r) ==
  Owner[r] \in bridges /\ NoForeign(Owner[r]) =>
    \A q \in Request : Owner[q] = Owner[r] /\ at'[q] \notin {"await", "callback"} =>
      /\ Off(q, chan'[Owner[r]]) /\ Off(q, cid'[Owner[r]]) /\ OwedEbb(q)
      /\ HeardNot(q) \/ Len(ready'[Owner[r]]) = 0

(* Then most of the invariant holds after it.                              *)
LEMMA Moves ==
  ASSUME CInv, NEW r \in Request, Moving(r), Placed(r), Hears(r)
  PROVE  CTyped' /\ Readers' /\ Packets' /\ Mine' /\ Fresh' /\ Silence' /\ Lates'
<1> DEFINE c == Owner[r]
<1>1. /\ bridges' = bridges /\ wire' = wire /\ kept' = kept /\ nextCid' = nextCid
      /\ executed' = executed /\ answered' = answered /\ outcome' = outcome
      /\ at' \in [Request -> At] /\ left' \in [Client -> 0 .. 2]
      /\ cid' \in [Client -> 0 .. Closed - 1] /\ chan' \in [Client -> 0 .. Closed]
      /\ asm' \in [Client -> Seq(Packet)] /\ ready' \in [Client -> Seq(Heard)]
      /\ owed' \in Seq(Owing) /\ OwedFrom /\ Ebb /\ AsmFrom
  BY DEF Moving
<1>2. /\ \A q \in Request \ {r} : at'[q] = at[q] /\ OwedEbb(q)
      /\ \A d \in Client \ {c} : left'[d] = left[d] /\ cid'[d] = cid[d] /\ chan'[d] = chan[d]
                                 /\ asm'[d] = asm[d] /\ ready'[d] = ready[d]
      /\ at[r] # "done" /\ at'[r] \in {"init", "write", "await", "callback"}
      /\ \A q \in Request \ {r} : Owner[q] = c => at[q] \in {"new", "done"}
  BY DEF Moving
<1>3. /\ at'[r] = "init" => chan'[c] = 0 /\ cid'[c] = 0
      /\ at'[r] \in {"write", "await", "callback"} => chan'[c] \in 1 .. Closed - 1
      /\ at'[r] = "write" => left'[c] # 0
      /\ Newer(cid'[c]) /\ Newer(chan'[c])
      /\ (resent' = resent) \/ (resent' = resent \cup {r})
      /\ r \in resent' => c \notin bridges /\ r \in Long /\ at'[r] # "init"
  BY DEF Placed
<1>4. c \in Client /\ c = Owner[r] /\ Closed \in Nat /\ Closed >= 1 /\ \A q \in Request :
          Owner[q] \in Client
  BY ClientAssumption, Numbers
<1> HIDE DEF c
<1>5. resent \subseteq Long /\ resent \subseteq resent' /\ resent' \subseteq Long /\ Long \subseteq Request
  <2>1. resent \subseteq Long
    BY DEF CInv, CTyped, HidTypeOK
  <2>2. QED BY <1>3, <2>1, ClientAssumption
<1>6. chan'[c] # Closed
  BY <1>2, <1>3, <1>4
<1>7. CTyped'
  <2>1. \A d \in Client : chan'[d] = Closed => asm'[d] = <<>> /\ ready'[d] = <<>>
    BY <1>2, <1>6 DEF CInv, CTyped, HidTypeOK
  <2>2. QED BY <1>1, <1>5, <2>1 DEF CInv, CTyped, HidTypeOK
<1>8. Readers'
  <2>1. ASSUME NEW q \in Request, NEW p \in Request, Owner[p] = Owner[q],
               at'[p] \notin {"new", "done"}, at'[q] \notin {"new", "done"}
        PROVE  p = q
    <3>1. CASE p = r \/ q = r
      BY <1>2, <1>4, <2>1, <3>1
    <3>2. CASE p # r /\ q # r
      BY <1>2, <2>1, <3>2 DEF CInv, Readers
    <3>3. QED BY <3>1, <3>2
  <2>2. ASSUME NEW q \in Request
        PROVE  /\ at'[q] = "init" => chan'[Owner[q]] = 0 /\ cid'[Owner[q]] = 0
               /\ at'[q] \in {"write", "await", "callback"} => chan'[Owner[q]] \in 1 .. Closed - 1
               /\ at'[q] = "write" => left'[Owner[q]] # 0
               /\ outcome'[q] = "none" <=> at'[q] # "done"
    <3>1. CASE q = r
      <4>1. outcome'[r] = "none" /\ at'[r] # "done"
        BY <1>1, <1>2 DEF CInv, Readers
      <4>2. QED BY <1>3, <1>4, <3>1, <4>1
    <3>2. CASE q # r /\ Owner[q] = c
      <4>1. at[q] \in {"new", "done"} /\ at'[q] = at[q] /\ outcome'[q] = outcome[q]
        BY <1>1, <1>2, <3>2
      <4>2. QED BY <4>1 DEF CInv, Readers
    <3>3. CASE q # r /\ Owner[q] # c
      <4>1. /\ chan'[Owner[q]] = chan[Owner[q]] /\ cid'[Owner[q]] = cid[Owner[q]]
            /\ left'[Owner[q]] = left[Owner[q]] /\ at'[q] = at[q] /\ outcome'[q] = outcome[q]
        BY <1>1, <1>2, <1>4, <3>3
      <4>2. QED BY <4>1 DEF CInv, Readers
    <3>4. QED BY <3>1, <3>2, <3>3
  <2>3. ASSUME NEW d \in Client, chan'[d] # Closed
        PROVE  \E q \in Request : Owner[q] = d /\ at'[q] \notin {"new", "done"}
    <3>1. CASE d = c
      BY <1>2, <1>4, <3>1
    <3>2. CASE d # c
      <4>1. PICK q \in Request : Owner[q] = d /\ at[q] \notin {"new", "done"}
        BY <1>2, <2>3, <3>2 DEF CInv, Readers
      <4>2. at'[q] = at[q]
        BY <1>2, <1>4, <3>2, <4>1
      <4>3. QED BY <4>1, <4>2
    <3>3. QED BY <3>1, <3>2
  <2>4. ASSUME NEW q \in resent'
        PROVE  Owner[q] \notin bridges' /\ at'[q] \notin {"new", "init"}
    <3>1. CASE q = r
      BY <1>1, <1>2, <1>3, <1>4, <2>4, <3>1
    <3>2. CASE q # r
      <4>1. q \in resent /\ q \in Request
        BY <1>3, <1>5, <2>4, <3>2
      <4>2. QED BY <1>1, <1>2, <3>2, <4>1 DEF CInv, Readers
    <3>3. QED BY <3>1, <3>2
  <2>5. QED BY <2>1, <2>2, <2>3, <2>4 DEF Readers
<1>9. Packets'
  BY <1>1, PacketsKept DEF CInv
<1>10. \A d \in Client : Clean(d)' => Clean(d)
  BY <1>1, <1>5 DEF Clean
<1>11. Mine'
  <2> SUFFICES ASSUME NEW q \in Request, at'[q] = "done", Clean(Owner[q])'
               PROVE  Gone(q)' /\ HeardNot(q)'
    BY DEF Mine
  <2>1. q # r /\ at[q] = "done" /\ Clean(Owner[q]) /\ OwedEbb(q)
    BY <1>2, <1>4, <1>10
  <2>2. Gone(q) /\ HeardNot(q)
    BY <2>1 DEF CInv, Mine
  <2>3. Gone(q)'
    BY <1>1, <2>1, <2>2 DEF Gone, OwesNot, SaysNot, OwedEbb
  <2>4. HeardNot(q)'
    BY <1>1, <1>4, <2>2, HeardLess
  <2>5. QED BY <2>3, <2>4
<1>12. Fresh'
  <2>1. \A d \in Client : Newer(cid'[d]) /\ (chan'[d] # Closed => Newer(chan'[d]))
    BY <1>2, <1>3 DEF CInv, Fresh
  <2>2. QED BY <1>1, <2>1, FreshKept DEF CInv
<1>13. Silence'
  <2>1. ASSUME NEW q \in Request, q \in answered \ resent'
        PROVE  /\ at'[q] \in {"await", "callback", "done"} /\ outcome'[q] # "timeout"
               /\ at'[q] # "done" =>
                    \E i \in 1 .. Len(ready'[Owner[q]]) : ready'[Owner[q]][i].kind = "CBOR"
    <3>1. CASE q = r
      <4>1. outcome'[r] = "none"
        BY <1>1, <1>2 DEF CInv, Readers
      <4>2. QED BY <2>1, <3>1, <4>1 DEF Hears
    <3>2. CASE q # r
      <4>1. at'[q] = at[q] /\ outcome'[q] = outcome[q] /\ q \in answered \ resent
        BY <1>1, <1>2, <1>5, <2>1, <3>2
      <4>2. at[q] \in {"await", "callback", "done"}
        BY <4>1 DEF CInv, Silence
      <4>3. at[q] # "done" => Owner[q] # c
        BY <1>2, <3>2, <4>2
      <4>4. at[q] # "done" => ready'[Owner[q]] = ready[Owner[q]]
        BY <1>2, <1>4, <4>3
      <4>5. QED BY <4>1, <4>4 DEF CInv, Silence
    <3>3. QED BY <3>1, <3>2
  <2>2. answered \subseteq Request
    BY DEF CInv, CTyped
  <2>3. ASSUME NEW q \in Request \ resent', at'[q] \in {"await", "callback"}, wire # <<>>,
               wire[1].of = q, wire[1].seq = 2, wire[1].chan = chan'[Owner[q]]
        PROVE  asm'[Owner[q]] # <<>>
    <3>1. CASE q = r
      BY <2>3, <3>1 DEF Hears
    <3>2. CASE q # r
      <4>1. at'[q] = at[q] /\ q \notin resent /\ Owner[q] # c
        BY <1>2, <1>5, <2>3, <3>2
      <4>2. QED BY <1>2, <1>4, <2>3, <4>1 DEF CInv, Silence
    <3>3. QED BY <3>1, <3>2
  <2>4. QED BY <1>1, <2>1, <2>2, <2>3 DEF Silence
<1>14. Lates'
  <2>1. \A d \in Client : NoForeign(d)' <=> NoForeign(d)
    BY <1>1 DEF NoForeign
  <2>2. QED BY <1>1, <1>4, <1>10, <2>1 DEF CInv, Lates
<1>15. QED BY <1>7, <1>8, <1>9, <1>11, <1>12, <1>13, <1>14

(* And all of it, if its stream is in order.                               *)
LEMMA MoveHolds ==
  ASSUME CInv, NEW r \in Request, Moving(r), Placed(r), Hears(r), Apart(r),
         Single(r)' => Stream(r)', Counts'
  PROVE  CInv'
<1> DEFINE c == Owner[r]
<1>1. /\ bridges' = bridges /\ wire' = wire /\ executed' = executed /\ outcome' = outcome /\ Ebb
      /\ \A q \in Request \ {r} : at'[q] = at[q] /\ OwedEbb(q)
      /\ \A d \in Client \ {c} : cid'[d] = cid[d] /\ chan'[d] = chan[d]
      /\ resent \subseteq resent'
  BY DEF Moving, Placed
<1>2. c \in Client /\ c = Owner[r] /\ \A q \in Request : Owner[q] \in Client
  BY ClientAssumption
<1> HIDE DEF c
<1>3. Streams'
  <2> SUFFICES ASSUME NEW q \in Request, Single(q)', q # r PROVE Stream(q)'
    BY DEF Streams
  <2>1. Single(q)
    BY <1>1 DEF Single
  <2>2. Stream(q)
    BY <2>1 DEF CInv, Streams
  <2>3. QED BY <1>1, <1>2, <2>2, SameStream
<1>4. BridgeOwn'
  <2> SUFFICES ASSUME NEW q \in Request, Owner[q] \in bridges, NoForeign(Owner[q]),
                      at'[q] \notin {"await", "callback"}
               PROVE  OffChannel(q)'
    BY <1>1 DEF BridgeOwn, NoForeign
  <2> DEFINE d == Owner[q]
  <2>1. Off(q, chan'[d]) /\ Off(q, cid'[d]) /\ OwedEbb(q) /\ HeardNot(q)'
    <3>1. CASE d # c
      <4>1. q # r /\ chan'[d] = chan[d] /\ cid'[d] = cid[d]
        BY <1>1, <1>2, <3>1
      <4>2. at[q] \notin {"await", "callback"}
        BY <1>1, <4>1
      <4>3. OffChannel(q)
        BY <4>2 DEF CInv, BridgeOwn
      <4>4. HeardNot(q)'
        BY <1>1, <1>2, <4>3, HeardLess DEF OffChannel
      <4>5. QED BY <1>1, <4>1, <4>3, <4>4 DEF OffChannel, Off
    <3>2. CASE d = c
      <4>1. Off(q, chan'[d]) /\ Off(q, cid'[d]) /\ OwedEbb(q) /\ (HeardNot(q) \/ Len(ready'[d]) = 0)
        BY <1>2, <3>2 DEF Apart
      <4>2. CASE HeardNot(q)
        BY <1>1, <1>2, <4>1, <4>2, HeardLess
      <4>3. CASE Len(ready'[d]) = 0
        BY <4>1, <4>3 DEF HeardNot
      <4>4. QED BY <4>1, <4>2, <4>3
    <3>3. QED BY <3>1, <3>2
  <2> HIDE DEF d
  <2>2. d = Owner[q]
    BY DEF d
  <2>3. PICK k \in Nat : \A i \in 1 .. Len(owed') :
          owed'[i].of = q /\ owed'[i].kind # "INIT" => i + k \in 1 .. Len(owed) /\ owed'[i] = owed[i + k]
    BY <2>1 DEF OwedEbb
  <2>4. \A i \in 1 .. Len(owed') :
          owed'[i].of = q /\ owed'[i].kind # "INIT" => owed'[i].on \notin {chan'[d], cid'[d]}
    BY <2>1, <2>3 DEF Off
  <2>5. \A i \in 1 .. Len(wire') :
          wire'[i].of = q /\ wire'[i].chan # 0 => wire'[i].chan \notin {chan'[d], cid'[d]}
    BY <1>1, <2>1 DEF Off
  <2>6. QED BY <2>1, <2>2, <2>4, <2>5 DEF OffChannel
<1>5. CTyped' /\ Readers' /\ Packets' /\ Mine' /\ Fresh' /\ Silence' /\ Lates'
  BY Moves
<1>6. QED BY <1>3, <1>4, <1>5 DEF CInv

(* Where nothing more is owed, the counts hold if a request moves on.      *)
LEMMA CountsKept ==
  ASSUME CInv, NEW r \in Request, owed' = owed, nextCid' = nextCid, executed' = executed,
         at[r] # "new" \/ at'[r] # "new", at[r] # "new" => at'[r] # "new",
         \A q \in Request \ {r} : at'[q] = at[q],
         (resent' = resent) \/ (resent' = resent \cup {r}), Sendings(r) <= Sendings(r)'
  PROVE  Counts'
<1> DEFINE Old == {q \in Request : at[q] # "new"}
           New == {q \in Request : at'[q] # "new"}
<1>1. Cardinality(Old) <= Cardinality(New) /\ Cardinality(Old) \in Nat /\ Cardinality(New) \in Nat
  <2>1. Old \subseteq New /\ IsFiniteSet(New)
    BY ClientAssumption, FS_Subset
  <2>2. QED BY <2>1, FS_Subset, FS_CardinalityType
<1>2. owed \in Seq(Owing) /\ executed \in [Request -> 0 .. 2] /\ nextCid \in Nat
  BY Numbers DEF CInv, CTyped, HidTypeOK
<1>3. Where(owed, Inits)' = Where(owed, Inits)
  BY DEF Where
<1>4. Cardinality(Where(owed, Inits)) \in Nat
  BY <1>2, WhereFinite
<1>5. nextCid' + Cardinality(Where(owed, Inits))' <= Cardinality(New) + 1
  BY <1>1, <1>2, <1>3, <1>4 DEF CInv, Counts
<1>6. ASSUME NEW q \in Request
      PROVE  executed'[q] + Cardinality(Where(owed, Runs(q)))' <= Sendings(q)'
  <2>1. Where(owed, Runs(q))' = Where(owed, Runs(q))
    BY DEF Where
  <2>2. Cardinality(Where(owed, Runs(q))) \in Nat
    BY <1>2, WhereFinite
  <2>3. Sendings(q) \in Nat /\ Sendings(q)' \in Nat
    BY DEF Sendings
  <2>4. Sendings(q) <= Sendings(q)'
    <3>1. CASE q = r
      BY <3>1
    <3>2. CASE q # r
      <4>1. at'[q] = at[q] /\ (q \in resent' <=> q \in resent)
        BY <3>2
      <4>2. QED BY <2>3, <4>1 DEF Sendings
    <3>3. QED BY <3>1, <3>2
  <2>5. executed[q] + Cardinality(Where(owed, Runs(q))) <= Sendings(q)
    BY DEF CInv, Counts
  <2>6. QED BY <1>2, <2>1, <2>2, <2>3, <2>4, <2>5
<1>7. QED BY <1>5, <1>6 DEF Counts

(* A request is written from its first packet on a reader of its own.      *)
LEMMA SendHolds ==
  ASSUME CInv, NEW r \in Request, NEW ch \in 1 .. Closed - 1, Send(r, ch),
         bridges' = bridges, owed' = owed, wire' = wire, kept' = kept, nextCid' = nextCid,
         executed' = executed, answered' = answered, outcome' = outcome,
         at[r] \in {"new", "init", "await"},
         \A q \in Request \ {r} : Owner[q] = Owner[r] => at[q] \in {"new", "done"},
         cid' \in [Client -> 0 .. Closed - 1], \A d \in Client \ {Owner[r]} : cid'[d] = cid[d],
         Newer(ch), Newer(cid'[Owner[r]]),
         (resent' = resent) \/ (resent' = resent \cup {r}),
         r \in resent' => Owner[r] \notin bridges /\ r \in Long,
         Single(r)' => Single(r) /\ Gone(r) /\ executed[r] = 0,
         Owner[r] \in bridges /\ NoForeign(Owner[r]) =>
           \A q \in Request : Owner[q] = Owner[r] => Off(q, ch) /\ Off(q, cid'[Owner[r]]),
         r \notin answered \ resent',
         Sendings(r) <= Sendings(r)'
  PROVE  CInv'
<1> DEFINE c == Owner[r]
<1>1. c \in Client /\ Closed \in Nat /\ Closed >= 1 /\ \A q \in Request : Owner[q] \in Client
  BY ClientAssumption, Numbers
<1>2. ch \in 0 .. Closed
  BY <1>1
<1>3. /\ chan' \in [Client -> 0 .. Closed] /\ chan'[c] = ch
      /\ asm' \in [Client -> Seq(Packet)] /\ asm'[c] = <<>>
      /\ ready' \in [Client -> Seq(Heard)] /\ ready'[c] = <<>> /\ Len(ready'[c]) = 0
      /\ \A d \in Client \ {c} : chan'[d] = chan[d] /\ asm'[d] = asm[d] /\ ready'[d] = ready[d]
  BY <1>1, <1>2, OneClient DEF Send, CInv
<1>4. /\ at' \in [Request -> At] /\ at'[r] = "write" /\ \A q \in Request \ {r} : at'[q] = at[q]
      /\ left' \in [Client -> 0 .. 2] /\ left'[c] # 0 /\ \A d \in Client \ {c} : left'[d] = left[d]
  BY <1>1 DEF Send, To, CInv, CTyped, HidTypeOK, At
<1>5. owed \in Seq(Owing) /\ Len(owed) \in Nat
  BY LenProperties DEF CInv, CTyped
<1>6. \A q \in Request : OwedEbb(q)
  <2>1. \A i \in 1 .. Len(owed') : i + 0 \in 1 .. Len(owed) /\ owed'[i] = owed[i + 0]
    BY <1>5
  <2>2. QED BY <2>1 DEF OwedEbb
<1>7. Ebb /\ AsmFrom /\ OwedFrom
  <2>1. ASSUME NEW d \in Client, d # c
        PROVE  /\ chan'[d] = chan[d]
               /\ \E k \in Nat : \A i \in 1 .. Len(ready'[d]) :
                    i + k \in 1 .. Len(ready[d]) /\ ready'[d][i] = ready[d][i + k]
    <3>1. ready'[d] = ready[d] /\ chan'[d] = chan[d] /\ Len(ready[d]) \in Nat
      BY <1>3, <2>1, Things DEF CInv
    <3>2. \A i \in 1 .. Len(ready'[d]) : i + 0 \in 1 .. Len(ready[d]) /\ ready'[d][i] = ready[d][i + 0]
      BY <3>1
    <3>3. QED BY <3>1, <3>2
  <2>2. Ebb
    BY <1>3, <2>1 DEF Ebb
  <2>3. AsmFrom /\ OwedFrom
    BY <1>3 DEF AsmFrom, OwedFrom
  <2>4. QED BY <2>2, <2>3
<1> HIDE DEF c
<1>8. c = Owner[r]
  BY DEF c
<1>9. Moving(r)
  BY <1>3, <1>4, <1>5, <1>6, <1>7, <1>8 DEF Moving
<1>10. Placed(r)
  BY <1>1, <1>3, <1>4, <1>8 DEF Placed
<1>11. Hears(r)
  BY <1>4 DEF Hears
<1>12. Apart(r)
  BY <1>3, <1>6, <1>8 DEF Apart
<1>13. Single(r)' => Stream(r)'
  <2> SUFFICES ASSUME Single(r)' PROVE Stream(r)'
    OBVIOUS
  <2>1. Stream(r)
    BY DEF CInv, Streams
  <2>2. QED BY <1>1, <1>3, <1>6, <1>7, <1>8, <2>1, SameStream
<1>14. Counts'
  BY <1>4, CountsKept
<1>15. QED BY <1>9, <1>10, <1>11, <1>12, <1>13, <1>14, MoveHolds

(* A request of a client that is at no other starts.                       *)
LEMMA StartHolds ==
  ASSUME CInv, NEW r \in Request, Start(r), bridges' = bridges
  PROVE  CInv'
<1> DEFINE c == Owner[r]
<1>1. c \in Client /\ Closed \in Nat /\ Closed >= 1 /\ \A q \in Request : Owner[q] \in Client
  BY ClientAssumption, Numbers
<1>2. /\ cid' = cid /\ resent' = resent /\ outcome' = outcome /\ kept' = kept /\ nextCid' = nextCid
      /\ executed' = executed /\ wire' = wire /\ answered' = answered /\ at[r] = "new" /\ Active(c) = {}
  BY DEF Start
<1>3. \A q \in Request : Owner[q] = c => at[q] \in {"new", "done"}
  BY <1>2 DEF Active
<1>4. cid \in [Client -> 0 .. Closed - 1] /\ cid[c] \in 0 .. Closed - 1 /\ r \notin resent
  BY <1>1, <1>2 DEF CInv, CTyped, HidTypeOK, Readers
<1>5. Gone(r) /\ HeardNot(r) /\ executed[r] = 0 /\ Single(r)
  <2>1. Single(r)
    BY <1>4 DEF Single
  <2>2. QED BY <1>2, <2>1 DEF CInv, Streams, Stream, NotSent
<1>6. Newer(cid[c])
  BY <1>1 DEF CInv, Fresh
<1>7. r \notin answered
  BY <1>2, <1>4 DEF CInv, Silence
<1>8. c \in bridges /\ NoForeign(c) =>
        \A q \in Request : Owner[q] = c => Off(q, cid[c])
  <2> SUFFICES ASSUME c \in bridges, NoForeign(c), NEW q \in Request, Owner[q] = c
               PROVE  Off(q, cid[c])
    OBVIOUS
  <2>1. at[q] \notin {"await", "callback"}
    BY <1>3
  <2>2. OffChannel(q)
    BY <2>1 DEF CInv, BridgeOwn
  <2>3. QED BY <2>2 DEF OffChannel, Off
<1>9. CASE cid[c] # 0
  <2>1. Send(r, cid[c]) /\ owed' = owed
    BY <1>9 DEF Start
  <2>2. Sendings(r) <= Sendings(r)'
    BY <1>2, <1>4 DEF Sendings
  <2>3. cid[c] \in 1 .. Closed - 1
    BY <1>1, <1>4, <1>9
  <2>4. QED BY <1>1, <1>2, <1>3, <1>4, <1>5, <1>6, <1>7, <1>8, <2>1, <2>2, <2>3, SendHolds
<1>10. CASE cid[c] = 0
  <2> DEFINE e == [kind |-> "INIT", of |-> r, on |-> 0]
  <2>1. e \in Owing /\ e.kind = "INIT" /\ e.of = r /\ e.on = 0
    BY <1>1 DEF Owing, Channels
  <2>2. Reader(c, 0) /\ To(r, "init") /\ owed' = Append(owed, e) /\ left' = left
    BY <1>10 DEF Start, BROADCAST_CID
  <2> HIDE DEF e
  <2>3. /\ owed' \in Seq(Owing) /\ Len(owed') = Len(owed) + 1 /\ Len(owed) \in Nat
        /\ \A i \in 1 .. Len(owed') : (i \in 1 .. Len(owed) /\ owed'[i] = owed[i])
                                    \/ (i = Len(owed) + 1 /\ owed'[i] = e)
    BY <2>1, <2>2, OwedGrows DEF CInv
  <2>4. 0 \in 0 .. Closed
    BY <1>1
  <2>5. /\ chan' \in [Client -> 0 .. Closed] /\ chan'[c] = 0
        /\ asm' \in [Client -> Seq(Packet)] /\ asm'[c] = <<>>
        /\ ready' \in [Client -> Seq(Heard)] /\ ready'[c] = <<>> /\ Len(ready'[c]) = 0
        /\ \A d \in Client \ {c} : chan'[d] = chan[d] /\ asm'[d] = asm[d] /\ ready'[d] = ready[d]
    BY <1>1, <2>2, <2>4, OneClient DEF CInv
  <2>6. at' \in [Request -> At] /\ at'[r] = "init" /\ \A q \in Request \ {r} : at'[q] = at[q]
    BY <2>2 DEF To, CInv, CTyped, HidTypeOK, At
  <2>7. \A q \in Request : OwedEbb(q)
    <3>1. \A i \in 1 .. Len(owed') : owed'[i].kind # "INIT" =>
              i + 0 \in 1 .. Len(owed) /\ owed'[i] = owed[i + 0]
      BY <2>1, <2>3
    <3>2. QED BY <3>1 DEF OwedEbb
  <2>8. Ebb /\ AsmFrom /\ OwedFrom
    <3>1. ASSUME NEW d \in Client, d # c
          PROVE  /\ chan'[d] = chan[d]
                 /\ \E k \in Nat : \A i \in 1 .. Len(ready'[d]) :
                      i + k \in 1 .. Len(ready[d]) /\ ready'[d][i] = ready[d][i + k]
      <4>1. ready'[d] = ready[d] /\ chan'[d] = chan[d] /\ Len(ready[d]) \in Nat
        BY <2>5, <3>1, Things DEF CInv
      <4>2. \A i \in 1 .. Len(ready'[d]) : i + 0 \in 1 .. Len(ready[d]) /\ ready'[d][i] = ready[d][i + 0]
        BY <4>1
      <4>3. QED BY <4>1, <4>2
    <3>2. Ebb
      BY <2>5, <3>1 DEF Ebb
    <3>3. AsmFrom
      BY <2>5 DEF AsmFrom
    <3>4. OwedFrom
      BY <2>1, <2>3 DEF OwedFrom
    <3>5. QED BY <3>2, <3>3, <3>4
  <2>9. left' \in [Client -> 0 .. 2] /\ Newer(0)
    BY <2>2, FreshZero DEF CInv, CTyped, HidTypeOK
  <2>10. Single(r)' => Stream(r)'
    <3>1. Stream(r)
      BY <1>5 DEF CInv, Streams
    <3>2. QED BY <1>1, <1>2, <1>5, <2>5, <2>7, <2>8, <3>1, SameStream
  <2>11. Counts'
    <3> DEFINE Old == {q \in Request : at[q] # "new"}
               New == {q \in Request : at'[q] # "new"}
    <3>1. Cardinality(New) = Cardinality(Old) + 1 /\ Cardinality(Old) \in Nat
      <4>1. New = Old \cup {r} /\ r \notin Old /\ IsFiniteSet(Old)
        <5>1. New = Old \cup {r} /\ r \notin Old
          BY <1>2, <2>6
        <5>2. QED BY <5>1, ClientAssumption, FS_Subset
      <4>2. QED BY <4>1, FS_AddElement, FS_CardinalityType
    <3>2. owed \in Seq(Owing) /\ executed \in [Request -> 0 .. 2] /\ nextCid \in Nat
      BY <1>1 DEF CInv, CTyped, HidTypeOK
    <3>3. Cardinality(Where(owed, Inits))' = Cardinality(Where(owed, Inits)) + 1
      <4>1. e \in Inits
        BY <2>1 DEF Inits
      <4>2. Cardinality(Where(Append(owed, e), Inits)) = Cardinality(Where(owed, Inits)) + 1
        BY <2>1, <3>2, <4>1, WhereAppend
      <4>3. QED BY <2>2, <4>2 DEF Where, Inits
    <3>4. nextCid' + Cardinality(Where(owed, Inits))' <= Cardinality(New) + 1
      <4>1. nextCid + Cardinality(Where(owed, Inits)) <= Cardinality(Old) + 1
        BY DEF CInv, Counts
      <4>2. Cardinality(Where(owed, Inits)) \in Nat
        BY <3>2, WhereFinite
      <4>3. QED BY <1>2, <3>1, <3>2, <3>3, <4>1, <4>2
    <3>5. ASSUME NEW q \in Request
          PROVE  executed'[q] + Cardinality(Where(owed, Runs(q)))' <= Sendings(q)'
      <4>1. e \notin Runs(q)
        BY <2>1 DEF Runs
      <4>2. Cardinality(Where(Append(owed, e), Runs(q))) = Cardinality(Where(owed, Runs(q)))
        <5>1. Cardinality(Where(owed, Runs(q))) \in Nat
          BY <3>2, WhereFinite
        <5>2. QED BY <2>1, <3>2, <4>1, <5>1, WhereAppend
      <4>3. Cardinality(Where(owed, Runs(q)))' = Cardinality(Where(owed, Runs(q)))
        BY <2>2, <4>2 DEF Where, Runs
      <4>4. Sendings(q)' = Sendings(q)
        <5>1. at'[q] = at[q] \/ (at[q] = "new" /\ at'[q] = "init")
          BY <1>2, <2>6
        <5>2. QED BY <1>2, <5>1 DEF Sendings
      <4>5. QED BY <1>2, <4>3, <4>4 DEF CInv, Counts
    <3>6. QED BY <3>4, <3>5 DEF Counts
  <2> HIDE DEF c
  <2>12. c = Owner[r]
    BY DEF c
  <2>13. Moving(r)
    BY <1>2, <1>3, <1>4, <2>2, <2>3, <2>5, <2>6, <2>7, <2>8, <2>9, <2>12 DEF Moving
  <2>14. Placed(r)
    BY <1>1, <1>2, <1>4, <1>10, <2>5, <2>6, <2>9, <2>12 DEF Placed
  <2>15. Hears(r)
    BY <1>7, <2>6 DEF Hears
  <2>16. Apart(r)
    BY <1>2, <1>8, <1>10, <2>5, <2>7, <2>12 DEF Apart
  <2>17. QED BY <2>10, <2>11, <2>13, <2>14, <2>15, <2>16, MoveHolds
<1>11. QED BY <1>9, <1>10

(* What is heard first, is heard.                                          *)
LEMMA HeardFirst ==
  ASSUME CTyped, NEW c \in Client, ready[c] # <<>>
  PROVE  /\ Len(ready[c]) \in Nat /\ 1 \in 1 .. Len(ready[c])
         /\ Head(ready[c]) = ready[c][1] /\ Head(ready[c]) \in Heard
         /\ Tail(ready[c]) \in Seq(Heard) /\ Len(Tail(ready[c])) = Len(ready[c]) - 1
         /\ \A i \in 1 .. Len(Tail(ready[c])) : Tail(ready[c])[i] = ready[c][i + 1]
<1>1. ready[c] \in Seq(Heard)
  BY DEF CTyped
<1>2. QED BY <1>1, HeadTailProperties, LenProperties, EmptySeq

(* It has its channel: newer than any its client had.                      *)
LEMMA HearInitHolds ==
  ASSUME CInv, NEW r \in Request, HearInit(r), bridges' = bridges
  PROVE  CInv'
<1> DEFINE c == Owner[r]
           ch == Head(ready[c]).cid
<1>1. c \in Client /\ Closed \in Nat /\ Closed >= 1 /\ \A q \in Request : Owner[q] \in Client
  BY ClientAssumption, Numbers
<1>2. /\ resent' = resent /\ outcome' = outcome /\ owed' = owed /\ kept' = kept /\ nextCid' = nextCid
      /\ executed' = executed /\ wire' = wire /\ answered' = answered
      /\ at[r] = "init" /\ ready[c] # <<>> /\ Send(r, ch) /\ cid' = [cid EXCEPT ![c] = ch]
  BY DEF HearInit, kvars
<1>3. /\ 1 \in 1 .. Len(ready[c]) /\ ch = ready[c][1].cid /\ Head(ready[c]) \in Heard
  BY <1>1, <1>2, HeardFirst DEF CInv
<1>4. chan[c] = 0
  BY <1>2 DEF CInv, Readers
<1>5. ch \in 1 .. Closed - 1 /\ Newer(ch)
  <2>1. Newer(ch) /\ ch # 0
    BY <1>1, <1>3, <1>4 DEF CInv, Fresh
  <2>2. ch \in Channels
    BY <1>3 DEF Heard
  <2>3. QED BY <1>1, <2>1, <2>2 DEF Channels
<1>6. \A q \in Request : Owner[q] = c => Off(q, ch)
  <2> SUFFICES ASSUME NEW q \in Request, Owner[q] = c PROVE Off(q, ch)
    OBVIOUS
  <2>1. \A i \in 1 .. Len(owed) : owed[i].of = q /\ owed[i].kind # "INIT" =>
            owed[i].on < ch /\ owed[i].on \in Nat
    <3>1. \A i \in 1 .. Len(owed) : owed[i] \in Owing
      BY Things DEF CInv
    <3>2. \A i \in 1 .. Len(owed) : owed[i].on \in Nat
      BY <1>1, <3>1 DEF Owing, Channels
    <3>3. \A i \in 1 .. Len(owed) : owed[i].of = q /\ owed[i].kind # "INIT" => Below(owed[i].on, c)
      BY DEF CInv, Fresh
    <3>4. QED BY <1>3, <1>4, <3>2, <3>3 DEF Below
  <2>2. \A i \in 1 .. Len(wire) : wire[i].of = q /\ wire[i].chan # 0 =>
            wire[i].chan < ch /\ wire[i].chan \in Nat
    <3>1. \A i \in 1 .. Len(wire) : wire[i] \in Packet
      BY Things DEF CInv
    <3>2. \A i \in 1 .. Len(wire) : wire[i].chan \in Nat
      BY <1>1, <3>1 DEF Packet, Channels
    <3>3. \A i \in 1 .. Len(wire) : wire[i].of = q /\ wire[i].chan # 0 => Below(wire[i].chan, c)
      BY DEF CInv, Fresh
    <3>4. QED BY <1>3, <1>4, <3>2, <3>3 DEF Below
  <2>3. ch \in Nat
    BY <1>1, <1>5
  <2>4. QED BY <2>1, <2>2, <2>3 DEF Off
<1>7. r \notin resent /\ r \notin answered
  BY <1>2 DEF CInv, Readers, Silence
<1>8. Gone(r) /\ executed[r] = 0 /\ Single(r)
  <2>1. Single(r)
    BY <1>7 DEF Single
  <2>2. QED BY <1>2, <2>1 DEF CInv, Streams, Stream, NotSent
<1>9. \A q \in Request \ {r} : Owner[q] = c => at[q] \in {"new", "done"}
  BY <1>2 DEF CInv, CTyped, HidTypeOK, At, Readers
<1>10. cid' \in [Client -> 0 .. Closed - 1] /\ cid'[c] = ch /\ \A d \in Client \ {c} : cid'[d] = cid[d]
  BY <1>1, <1>2, <1>5 DEF CInv, CTyped, HidTypeOK
<1>11. Sendings(r) <= Sendings(r)'
  <2>1. at'[r] = "write"
    BY <1>2 DEF Send, To, CInv, CTyped, HidTypeOK
  <2>2. QED BY <1>2, <1>7, <2>1 DEF Sendings
<1> HIDE DEF ch
<1>12. QED BY <1>1, <1>2, <1>5, <1>6, <1>7, <1>8, <1>9, <1>10, <1>11, SendHolds

(* A bridge forgets its channel when the host likes.                       *)
LEMMA ResetHolds ==
  ASSUME CInv, NEW c \in Client, Reset(c), bridges' = bridges
  PROVE  CInv'
<1>1. /\ left' = left /\ chan' = chan /\ asm' = asm /\ ready' = ready /\ at' = at /\ resent' = resent
      /\ outcome' = outcome /\ owed' = owed /\ kept' = kept /\ nextCid' = nextCid /\ executed' = executed
      /\ wire' = wire /\ answered' = answered
      /\ cid' = [cid EXCEPT ![c] = 0] /\ cid[c] # 0
  BY DEF Reset, rvars, kvars
<1>2. Closed \in Nat /\ Closed >= 1 /\ \A q \in Request : Owner[q] \in Client
  BY ClientAssumption, Numbers
<1>3. cid' \in [Client -> 0 .. Closed - 1] /\ \A d \in Client : cid'[d] \in {0, cid[d]}
  BY <1>1, <1>2 DEF CInv, CTyped, HidTypeOK
<1>4. CTyped'
  BY <1>1, <1>3 DEF CInv, CTyped, HidTypeOK
<1>5. Readers'
  BY <1>1, <1>2, <1>3 DEF CInv, Readers
<1>6. Packets' /\ Mine' /\ Silence' /\ Lates' /\ Streams'
  <2>1. Packets'
    BY <1>1 DEF CInv, Packets
  <2>2. Mine'
    BY <1>1 DEF CInv, Mine, OwesNot, SaysNot, HeardNot, Gone, Clean
  <2>3. Silence'
    BY <1>1 DEF CInv, Silence
  <2>4. Lates'
    BY <1>1 DEF CInv, Lates, Clean, NoForeign
  <2>5. ASSUME NEW q \in Request, Single(q)'
        PROVE  Stream(q)'
    <3>1. Stream(q)
      BY <1>1, <2>5 DEF CInv, Streams, Single
    <3>2. QED BY <1>1, <3>1 DEF Stream, OweOnce, SaidLast, HeardLast, Done1, NotSent, OwesNot, SaysNot,
                                HeardNot, Gone
  <2>6. QED BY <2>1, <2>2, <2>3, <2>4, <2>5 DEF Streams
<1>7. BridgeOwn'
  <2> SUFFICES ASSUME NEW q \in Request, Owner[q] \in bridges, NoForeign(Owner[q]),
                      at[q] \notin {"await", "callback"}
               PROVE  OffChannel(q)'
    BY <1>1 DEF BridgeOwn, NoForeign
  <2>1. OffChannel(q)
    BY DEF CInv, BridgeOwn
  <2>2. \A i \in 1 .. Len(owed) : owed[i].kind # "INIT" => owed[i].on # 0
    BY DEF CInv, Packets
  <2>3. Owner[q] \in Client
    BY <1>2
  <2>4. QED BY <1>1, <1>3, <2>1, <2>2, <2>3 DEF OffChannel, HeardNot
<1>8. Fresh'
  <2>1. Newer(0)
    BY FreshZero DEF CInv
  <2>2. \A d \in Client : Newer(cid'[d])
    BY <1>3, <2>1 DEF CInv, Fresh
  <2>3. \A k : (Newer(k)' <=> Newer(k)) /\ \A d \in Client : (Below(k, d)' <=> Below(k, d))
    BY <1>1 DEF Newer, Below
  <2>4. Ebb /\ OwedFrom
    <3>1. \A d \in Client : \A i \in 1 .. Len(ready'[d]) :
              i + 0 \in 1 .. Len(ready[d]) /\ ready'[d][i] = ready[d][i + 0]
      BY <1>1, Things DEF CInv
    <3>2. QED BY <1>1, <3>1 DEF Ebb, OwedFrom
  <2>5. owed' \in Seq(Owing) /\ \A d \in Client : chan'[d] # Closed => Newer(chan'[d])
    BY <1>1 DEF CInv, CTyped, Fresh
  <2>6. QED BY <1>1, <2>2, <2>4, <2>5, FreshKept DEF CInv
<1>9. Counts'
  BY <1>1 DEF CInv, Counts, Where, Inits, Runs, Sendings
<1>10. QED BY <1>4, <1>5, <1>6, <1>7, <1>8, <1>9 DEF CInv

(* A packet is written.                                                    *)
LEMMA WriteHolds ==
  ASSUME CInv, NEW r \in Request, WritePacket(r), bridges' = bridges
  PROVE  CInv'
<1> DEFINE c == Owner[r]
<1>1. c \in Client /\ Closed \in Nat /\ Closed >= 1 /\ \A q \in Request : Owner[q] \in Client
  BY ClientAssumption, Numbers
<1>2. /\ cid' = cid /\ chan' = chan /\ asm' = asm /\ ready' = ready /\ resent' = resent /\ outcome' = outcome
      /\ kept' = kept /\ nextCid' = nextCid /\ executed' = executed /\ wire' = wire /\ answered' = answered
      /\ at[r] = "write" /\ left' = [left EXCEPT ![c] = @ - 1]
  BY DEF WritePacket
<1>3. /\ cid \in [Client -> 0 .. Closed - 1] /\ chan \in [Client -> 0 .. Closed] /\ at \in [Request -> At]
      /\ asm \in [Client -> Seq(Packet)] /\ ready \in [Client -> Seq(Heard)] /\ owed \in Seq(Owing)
      /\ left \in [Client -> 0 .. 2] /\ executed \in [Request -> 0 .. 2] /\ nextCid \in Nat
      /\ Len(owed) \in Nat
  BY <1>1, LenProperties DEF CInv, CTyped, HidTypeOK
<1>4. left[c] # 0 /\ chan[c] \in 1 .. Closed - 1
  BY <1>2 DEF CInv, Readers
<1>5. /\ left' \in [Client -> 0 .. 2] /\ left'[c] = left[c] - 1
      /\ \A d \in Client \ {c} : left'[d] = left[d]
  BY <1>1, <1>2, <1>3, <1>4
<1>6. /\ Newer(chan[c]) /\ Newer(cid[c])
  BY <1>1, <1>3, <1>4 DEF CInv, Fresh
<1>7. \A q \in Request \ {r} : Owner[q] = c => at[q] \in {"new", "done"}
  BY <1>2 DEF CInv, Readers
<1>8. r \notin answered \ resent /\ (r \in resent => c \notin bridges /\ r \in Long)
  BY <1>2 DEF CInv, CTyped, HidTypeOK, Readers, Silence
<1>9. Ebb /\ AsmFrom
  <2>1. \A d \in Client : \A i \in 1 .. Len(ready'[d]) :
            i + 0 \in 1 .. Len(ready[d]) /\ ready'[d][i] = ready[d][i + 0]
    BY <1>2, Things DEF CInv
  <2>2. QED BY <1>2, <2>1 DEF Ebb, AsmFrom
<1>10. c \in bridges /\ NoForeign(c) =>
         \A q \in Request : Owner[q] = c /\ at[q] \notin {"await", "callback"} =>
           Off(q, chan[c]) /\ Off(q, cid[c]) /\ HeardNot(q)
  BY DEF CInv, BridgeOwn, OffChannel, Off
<1>11. Single(r)' <=> Single(r)
  BY <1>2 DEF Single
<1>12. Single(r) => Stream(r) /\ Gone(r) /\ HeardNot(r) /\ executed[r] = 0
  BY <1>2 DEF CInv, Streams, Stream, NotSent
<1>13. CASE owed' = owed
  <2>1. /\ at' \in [Request -> At] /\ at'[r] \in {"write", "await"}
        /\ \A q \in Request \ {r} : at'[q] = at[q]
        /\ at'[r] = "write" => left[c] # 1
    BY <1>2, <1>3 DEF WritePacket, To, At
  <2>2. \A q \in Request : OwedEbb(q)
    <3>1. \A i \in 1 .. Len(owed') : i + 0 \in 1 .. Len(owed) /\ owed'[i] = owed[i + 0]
      BY <1>3, <1>13
    <3>2. QED BY <3>1 DEF OwedEbb
  <2>3. OwedFrom
    BY <1>13 DEF OwedFrom
  <2>4. Single(r)' => Stream(r)'
    BY <1>1, <1>2, <1>9, <1>11, <1>12, <2>1, <2>2, SameStream
  <2>5. Counts'
    <3>1. Sendings(r) <= Sendings(r)'
      BY <1>2, <2>1 DEF Sendings
    <3>2. QED BY <1>2, <1>13, <2>1, <3>1, CountsKept
  <2> HIDE DEF c
  <2>6. c = Owner[r]
    BY DEF c
  <2>7. Moving(r)
    BY <1>2, <1>3, <1>5, <1>7, <1>9, <1>13, <2>1, <2>2, <2>3, <2>6 DEF Moving
  <2>8. Placed(r)
    BY <1>2, <1>3, <1>4, <1>5, <1>6, <1>8, <2>1, <2>6, <1>1 DEF Placed
  <2>9. r \notin resent => wire = <<>> \/ ~(wire[1].of = r /\ wire[1].chan = chan[c])
    BY <1>4, <1>12, WireFirst DEF Single, Gone, SaysNot, CInv
  <2>10. Hears(r)
    BY <1>2, <1>8, <2>6, <2>9 DEF Hears
  <2>11. Apart(r)
    BY <1>2, <1>10, <2>1, <2>2, <2>6 DEF Apart
  <2>12. QED BY <2>4, <2>5, <2>7, <2>8, <2>10, <2>11, MoveHolds
<1>14. CASE owed' # owed
  <2>1. /\ at' = [at EXCEPT ![r] = "await"] /\ left[c] = 1
        /\ \E kind \in {"run", "cut"} : owed' = Append(owed, [kind |-> kind, of |-> r, on |-> chan[c]])
    BY <1>14 DEF WritePacket, To
  <2>2. at' \in [Request -> At] /\ at'[r] = "await" /\ \A q \in Request \ {r} : at'[q] = at[q]
    BY <1>3, <2>1 DEF At
  <2>3. PICK kind \in {"run", "cut"} : owed' = Append(owed, [kind |-> kind, of |-> r, on |-> chan[c]])
    BY <2>1
  <2> DEFINE e == [kind |-> kind, of |-> r, on |-> chan[c]]
  <2>4. e \in Owing /\ e.kind # "INIT" /\ e.of = r /\ e.on = chan[c]
    BY <1>1, <1>4 DEF Owing, Channels
  <2>5. owed' = Append(owed, e)
    BY <2>3
  <2> HIDE DEF e
  <2>6. /\ owed' \in Seq(Owing) /\ Len(owed') = Len(owed) + 1
        /\ \A i \in 1 .. Len(owed') : (i \in 1 .. Len(owed) /\ owed'[i] = owed[i])
                                    \/ (i = Len(owed) + 1 /\ owed'[i] = e)
    BY <2>4, <2>5, OwedGrows DEF CInv
  <2>7. \A q \in Request \ {r} : OwedEbb(q)
    <3>1. \A q \in Request \ {r} : \A i \in 1 .. Len(owed') :
            owed'[i].of = q => i + 0 \in 1 .. Len(owed) /\ owed'[i] = owed[i + 0]
      BY <2>4, <2>6
    <3>2. QED BY <3>1 DEF OwedEbb
  <2>8. OwedFrom
    BY <1>1, <1>2, <1>4, <1>6, <2>4, <2>6 DEF OwedFrom
  <2>9. Single(r)' => Stream(r)'
    <3> SUFFICES ASSUME Single(r)' PROVE Stream(r)'
      OBVIOUS
    <3>1. Gone(r) /\ HeardNot(r) /\ executed[r] = 0
      BY <1>11, <1>12
    <3>2. OweOnce(r)'
      BY <1>3, <2>6, <3>1 DEF OweOnce, Gone, OwesNot
    <3>3. SaidLast(r)'
      <4>1. \A i \in 1 .. Len(wire) : wire[i].of = r => wire[i].head.kind = "INIT"
        BY <3>1 DEF Gone, SaysNot, CInv, Packets
      <4>2. QED BY <1>2, <4>1 DEF SaidLast, Answers
    <3>4. HeardLast(r)'
      BY <1>2, <3>1 DEF HeardLast, HeardNot, Answers
    <3>5. Done1(r)' /\ NotSent(r)'
      BY <1>2, <2>2, <3>1 DEF Done1, NotSent
    <3>6. QED BY <3>2, <3>3, <3>4, <3>5 DEF Stream
  <2>10. Counts'
    <3>1. {q \in Request : at'[q] # "new"} = {q \in Request : at[q] # "new"}
      BY <1>2, <2>2
    <3>2. ASSUME NEW K
          PROVE  Cardinality(Where(Append(owed, e), K)) =
                   Cardinality(Where(owed, K)) + (IF e \in K THEN 1 ELSE 0)
      BY <1>3, <2>4, WhereAppend
    <3>3. \A K : Cardinality(Where(owed, K)) \in Nat
      BY <1>3, WhereFinite
    <3>4. Cardinality(Where(owed, Inits))' = Cardinality(Where(owed, Inits))
      <4>1. e \notin Inits
        BY <2>4 DEF Inits
      <4>2. Cardinality(Where(Append(owed, e), Inits)) = Cardinality(Where(owed, Inits))
        BY <3>2, <3>3, <4>1
      <4>3. QED BY <2>5, <4>2 DEF Where, Inits
    <3>5. ASSUME NEW q \in Request
          PROVE  executed'[q] + Cardinality(Where(owed, Runs(q)))' <= Sendings(q)'
      <4>1. Cardinality(Where(owed, Runs(q)))' =
              Cardinality(Where(owed, Runs(q))) + (IF e \in Runs(q) THEN 1 ELSE 0)
        BY <2>5, <3>2 DEF Where, Runs
      <4>2. q # r => e \notin Runs(q)
        BY <2>4 DEF Runs
      <4>3. Sendings(q)' = Sendings(q) + (IF q = r THEN 1 ELSE 0) /\ Sendings(q) \in Nat
        <5>1. CASE q = r
          BY <1>2, <2>2, <5>1 DEF Sendings
        <5>2. CASE q # r
          BY <1>2, <2>2, <5>2 DEF Sendings
        <5>3. QED BY <5>1, <5>2
      <4>4. executed[q] + Cardinality(Where(owed, Runs(q))) <= Sendings(q)
        BY DEF CInv, Counts
      <4>5. Cardinality(Where(owed, Runs(q))) \in Nat /\ executed[q] \in Nat
        <5>1. Cardinality(Where(owed, Runs(q))) \in Nat
          BY <1>3, WhereFinite
        <5>2. executed \in [Request -> 0 .. 2]
          BY <1>3
        <5>3. executed[q] \in Nat
          BY <5>2
        <5>4. QED BY <5>1, <5>3
      <4>6. QED BY <1>2, <4>1, <4>2, <4>3, <4>4, <4>5
    <3>6. QED BY <1>2, <3>1, <3>4, <3>5 DEF CInv, Counts
  <2> HIDE DEF c
  <2>11. c = Owner[r]
    BY DEF c
  <2>12. Moving(r)
    BY <1>2, <1>3, <1>5, <1>7, <1>9, <2>2, <2>6, <2>7, <2>8, <2>11 DEF Moving
  <2>13. Placed(r)
    BY <1>1, <1>2, <1>3, <1>4, <1>5, <1>6, <1>8, <2>2, <2>11 DEF Placed
  <2>14. r \notin resent => wire = <<>> \/ ~(wire[1].of = r /\ wire[1].chan = chan[c])
    BY <1>4, <1>12, WireFirst DEF Single, Gone, SaysNot, CInv
  <2>15. Hears(r)
    BY <1>2, <1>8, <2>11, <2>14 DEF Hears
  <2>16. Apart(r)
    BY <1>2, <1>10, <2>2, <2>7, <2>11 DEF Apart
  <2>17. QED BY <2>9, <2>10, <2>12, <2>13, <2>15, <2>16, MoveHolds
<1>15. QED BY <1>13, <1>14

(* A request that is read for reads on.                                    *)
LEMMA ReadsOn ==
  ASSUME CInv, NEW r \in Request, NEW where \in {"await", "callback"}, at[r] \in {"await", "callback"}, To(r, where),
         left' = left, cid' = cid, chan' = chan, asm' = asm, resent' = resent, outcome' = outcome,
         owed' = owed, kept' = kept, nextCid' = nextCid, executed' = executed, wire' = wire,
         answered' = answered, bridges' = bridges, Ebb, ready' \in [Client -> Seq(Heard)],
         \A d \in Client \ {Owner[r]} : ready'[d] = ready[d],
         r \in answered \ resent =>
           \E i \in 1 .. Len(ready'[Owner[r]]) : ready'[Owner[r]][i].kind = "CBOR"
  PROVE  CInv'
<1> DEFINE c == Owner[r]
<1>1. c \in Client /\ Closed \in Nat /\ Closed >= 1 /\ \A q \in Request : Owner[q] \in Client
  BY ClientAssumption, Numbers
<1>2. /\ cid \in [Client -> 0 .. Closed - 1] /\ chan \in [Client -> 0 .. Closed] /\ at \in [Request -> At]
      /\ asm \in [Client -> Seq(Packet)] /\ owed \in Seq(Owing) /\ left \in [Client -> 0 .. 2]
      /\ Len(owed) \in Nat
  BY LenProperties DEF CInv, CTyped, HidTypeOK
<1>3. at' \in [Request -> At] /\ at'[r] = where /\ \A q \in Request \ {r} : at'[q] = at[q]
  BY <1>2 DEF To, At
<1>4. /\ chan[c] \in 1 .. Closed - 1 /\ (r \in resent => c \notin bridges /\ r \in Long)
  BY DEF CInv, CTyped, HidTypeOK, Readers
<1>5. /\ Newer(chan[c]) /\ Newer(cid[c])
  BY <1>1, <1>4 DEF CInv, Fresh
<1>6. \A q \in Request \ {r} : Owner[q] = c => at[q] \in {"new", "done"}
  BY DEF CInv, Readers
<1>7. \A q \in Request : OwedEbb(q)
  <2>1. \A i \in 1 .. Len(owed') : i + 0 \in 1 .. Len(owed) /\ owed'[i] = owed[i + 0]
    BY <1>2
  <2>2. QED BY <2>1 DEF OwedEbb
<1>8. OwedFrom /\ AsmFrom
  BY DEF OwedFrom, AsmFrom
<1>9. c \in bridges /\ NoForeign(c) =>
         \A q \in Request : Owner[q] = c /\ at[q] \notin {"await", "callback"} =>
           Off(q, chan[c]) /\ Off(q, cid[c]) /\ HeardNot(q)
  BY DEF CInv, BridgeOwn, OffChannel, Off
<1>10. Single(r)' => Stream(r)'
  <2>1. Single(r)' <=> Single(r)
    BY DEF Single
  <2>2. Single(r) => Stream(r)
    BY DEF CInv, Streams
  <2>3. at'[r] \notin {"new", "init", "write"}
    BY <1>3
  <2>4. QED BY <1>1, <1>7, <2>1, <2>2, <2>3, SameStream
<1>11. Counts'
  <2>1. Sendings(r) <= Sendings(r)'
    BY <1>3 DEF Sendings
  <2>2. QED BY <1>3, <2>1, CountsKept
<1>12. r \notin resent => ~(wire # <<>> /\ wire[1].of = r /\ wire[1].seq = 2 /\ wire[1].chan = chan[c])
                         \/ asm[c] # <<>>
  BY DEF CInv, Silence
<1> HIDE DEF c
<1>13. c = Owner[r]
  BY DEF c
<1>14. Moving(r)
  BY <1>2, <1>3, <1>6, <1>7, <1>8, <1>13 DEF Moving
<1>15. Placed(r)
  BY <1>1, <1>3, <1>4, <1>5, <1>13 DEF Placed
<1>16. Hears(r)
  BY <1>3, <1>12, <1>13 DEF Hears
<1>17. Apart(r)
  BY <1>3, <1>7, <1>9, <1>13 DEF Apart
<1>18. QED BY <1>10, <1>11, <1>14, <1>15, <1>16, <1>17, MoveHolds

(* onKeepAlive() returns.                                                  *)
LEMMA CallbackHolds ==
  ASSUME CInv, NEW r \in Request, CallbackDone(r), bridges' = bridges
  PROVE  CInv'
<1>1. /\ left' = left /\ cid' = cid /\ chan' = chan /\ asm' = asm /\ ready' = ready /\ resent' = resent
      /\ outcome' = outcome /\ owed' = owed /\ kept' = kept /\ nextCid' = nextCid /\ executed' = executed
      /\ wire' = wire /\ answered' = answered /\ at[r] = "callback" /\ To(r, "await")
  BY DEF CallbackDone, cvars, kvars
<1>2. Ebb
  <2>1. \A d \in Client : \A i \in 1 .. Len(ready'[d]) :
            i + 0 \in 1 .. Len(ready[d]) /\ ready'[d][i] = ready[d][i + 0]
    BY <1>1, Things DEF CInv
  <2>2. QED BY <1>1, <2>1 DEF Ebb
<1>3. ready' \in [Client -> Seq(Heard)]
  BY <1>1 DEF CInv, CTyped
<1>4. r \in answered \ resent =>
        \E i \in 1 .. Len(ready'[Owner[r]]) : ready'[Owner[r]][i].kind = "CBOR"
  BY <1>1 DEF CInv, Silence
<1>5. QED BY <1>1, <1>2, <1>3, <1>4, ReadsOn

(* A request ends; with what, the callers know.                            *)
LEMMA EndHolds ==
  ASSUME CInv, NEW r \in Request, NEW how \in Outcome \ {"none"}, at[r] \notin {"new", "done"},
         EndRequest(r, how), UNCHANGED <<bridges, kvars, wire, answered>>,
         how = "own" => (Single(r) => Gone(r)),
         how = "timeout" => r \notin answered \ resent,
         how = "late" => ~Clean(Owner[r]) /\ (Owner[r] \in bridges => ~NoForeign(Owner[r]))
  PROVE  CInv'
<1> DEFINE c == Owner[r]
<1>1. /\ bridges' = bridges /\ owed' = owed /\ kept' = kept /\ nextCid' = nextCid
      /\ executed' = executed /\ wire' = wire /\ answered' = answered /\ resent' = resent
  BY DEF kvars, EndRequest
<1>2. c \in Client /\ Closed \in Nat /\ Closed >= 1
  BY ClientAssumption, Numbers
<1>3. /\ chan' \in [Client -> 0 .. Closed] /\ chan'[c] = Closed
      /\ asm' \in [Client -> Seq(Packet)] /\ asm'[c] = <<>>
      /\ ready' \in [Client -> Seq(Heard)] /\ ready'[c] = <<>> /\ Len(ready'[c]) = 0
      /\ \A d \in Client \ {c} : chan'[d] = chan[d] /\ asm'[d] = asm[d] /\ ready'[d] = ready[d]
  BY <1>2, OneClient DEF EndRequest, CInv
<1>4. /\ at' \in [Request -> At] /\ at'[r] = "done" /\ \A q \in Request \ {r} : at'[q] = at[q]
      /\ outcome' \in [Request -> Outcome] /\ outcome'[r] = how
      /\ \A q \in Request \ {r} : outcome'[q] = outcome[q]
      /\ left' \in [Client -> 0 .. 2] /\ \A d \in Client \ {c} : left'[d] = left[d]
  BY <1>2 DEF EndRequest, To, CInv, CTyped, HidTypeOK, At
<1>5. /\ cid' \in [Client -> 0 .. Closed - 1] /\ \A d \in Client \ {c} : cid'[d] = cid[d]
      /\ cid'[c] \in {0, cid[c]}
      /\ how \in {"timeout", "failed"} /\ c \in bridges => cid'[c] = 0
  BY <1>2 DEF EndRequest, CidAfterFailure, CInv, CTyped, HidTypeOK
<1>6. outcome[r] = "none" /\ c = Owner[r]
  BY DEF CInv, Readers
<1> HIDE DEF c
<1>7. \A q \in Request \ {r} : Owner[q] = c => at[q] \in {"new", "done"}
  BY <1>6 DEF CInv, Readers
<1>8. \A q \in Request : Owner[q] \in Client
  BY ClientAssumption
<1>9. /\ \A d \in Client : Clean(d)' => Clean(d) /\ (d = c => how \notin Left)
      /\ \A d \in Client : NoForeign(d)' => NoForeign(d) /\ (d = c => how # "foreign")
      /\ \A q \in Request : Single(q)' => Single(q)
  BY <1>1, <1>4, <1>6 DEF Clean, NoForeign, Single, Left
<1>10. CTyped'
  BY <1>1, <1>2, <1>3, <1>4, <1>5 DEF CInv, CTyped, HidTypeOK
<1>11. Readers'
  <2>1. \A q \in Request : (at'[q] \notin {"new", "done"}) => (at[q] \notin {"new", "done"} /\ Owner[q] # c)
    BY <1>4, <1>7
  <2>2. \A p, q \in Request :
          Owner[p] = Owner[q] /\ at'[p] \notin {"new", "done"} /\ at'[q] \notin {"new", "done"} => p = q
    BY <2>1 DEF CInv, Readers
  <2>3. ASSUME NEW q \in Request
        PROVE  /\ at'[q] = "init" => chan'[Owner[q]] = 0 /\ cid'[Owner[q]] = 0
               /\ at'[q] \in {"write", "await", "callback"} => chan'[Owner[q]] \in 1 .. Closed - 1
               /\ at'[q] = "write" => left'[Owner[q]] # 0
               /\ outcome'[q] = "none" <=> at'[q] # "done"
    <3>1. CASE q = r
      BY <1>4, <3>1
    <3>2. CASE q # r /\ Owner[q] = c
      <4>1. at[q] \in {"new", "done"} /\ at'[q] = at[q] /\ outcome'[q] = outcome[q]
        BY <1>4, <1>7, <3>2
      <4>2. QED BY <4>1 DEF CInv, Readers
    <3>3. CASE q # r /\ Owner[q] # c
      <4>1. /\ chan'[Owner[q]] = chan[Owner[q]] /\ cid'[Owner[q]] = cid[Owner[q]]
            /\ left'[Owner[q]] = left[Owner[q]] /\ at'[q] = at[q] /\ outcome'[q] = outcome[q]
        BY <1>3, <1>4, <1>5, <1>8, <3>3
      <4>2. QED BY <4>1 DEF CInv, Readers
    <3>4. QED BY <3>1, <3>2, <3>3
  <2>4. ASSUME NEW d \in Client, chan'[d] # Closed
        PROVE  \E q \in Request : Owner[q] = d /\ at'[q] \notin {"new", "done"}
    <3>1. d # c /\ chan'[d] = chan[d]
      BY <1>3, <2>4
    <3>2. PICK q \in Request : Owner[q] = d /\ at[q] \notin {"new", "done"}
      BY <2>4, <3>1 DEF CInv, Readers
    <3>3. q # r
      BY <1>6, <3>1, <3>2
    <3>4. at'[q] = at[q]
      BY <1>4, <3>3
    <3>5. QED BY <3>2, <3>4
  <2>5. \A q \in resent' : Owner[q] \notin bridges' /\ at'[q] \notin {"new", "init"}
    <3>1. resent \subseteq Request
      BY ClientAssumption DEF CInv, CTyped, HidTypeOK
    <3>2. \A q \in resent : Owner[q] \notin bridges /\ at[q] \notin {"new", "init"}
      BY DEF CInv, Readers
    <3>3. \A q \in resent : at'[q] \in {at[q], "done"}
      BY <1>4, <3>1
    <3>4. QED BY <1>1, <3>2, <3>3
  <2>6. QED BY <2>2, <2>3, <2>4, <2>5 DEF Readers
<1>12. Packets' /\ OwedFrom /\ Ebb
  <2>1. AsmFrom
    BY <1>3 DEF AsmFrom
  <2>2. Ebb
    <3> SUFFICES ASSUME NEW d \in Client, d # c
                 PROVE  /\ chan'[d] = chan[d]
                        /\ \E k \in Nat : \A i \in 1 .. Len(ready'[d]) :
                             i + k \in 1 .. Len(ready[d]) /\ ready'[d][i] = ready[d][i + k]
      BY <1>3 DEF Ebb
    <3>1. ready'[d] = ready[d] /\ chan'[d] = chan[d] /\ Len(ready[d]) \in Nat
      BY <1>3, Things DEF CInv
    <3>2. \A i \in 1 .. Len(ready'[d]) : i + 0 \in 1 .. Len(ready[d]) /\ ready'[d][i] = ready[d][i + 0]
      BY <3>1
    <3>3. QED BY <3>1, <3>2
  <2>3. OwedFrom
    BY <1>1 DEF OwedFrom
  <2>4. QED BY <1>1, <2>1, <2>2, <2>3, PacketsKept DEF CInv
<1>13. Streams'
  <2> SUFFICES ASSUME NEW q \in Request, Single(q)' PROVE Stream(q)'
    BY DEF Streams
  <2>1. Stream(q)
    BY <1>9 DEF CInv, Streams
  <2>2. (at'[q] = at[q]) \/ (at'[q] \notin {"new", "init", "write"})
    BY <1>4
  <2>3. OwedEbb(q)
    <3>1. \A i \in 1 .. Len(owed') : i + 0 \in 1 .. Len(owed) /\ owed'[i] = owed[i + 0]
      BY <1>1, LenProperties DEF CInv, CTyped
    <3>2. QED BY <3>1 DEF OwedEbb
  <2>4. QED BY <1>1, <1>8, <1>12, <2>1, <2>2, <2>3, SameStream
<1>14. Mine'
  <2> SUFFICES ASSUME NEW q \in Request, at'[q] = "done", Clean(Owner[q])'
               PROVE  Gone(q)' /\ HeardNot(q)'
    BY DEF Mine
  <2>1. Clean(Owner[q]) /\ (Owner[q] = c => how \notin Left)
    BY <1>8, <1>9
  <2>2. HeardNot(q) => HeardNot(q)'
    BY <1>8, <1>12, HeardLess
  <2>3. CASE q # r
    BY <1>1, <1>4, <2>1, <2>2, <2>3, SameThings DEF CInv, Mine
  <2>4. CASE q = r
    <3>1. how = "own" /\ Single(r)
      BY <1>6, <2>1, <2>4 DEF Left, Outcome, Single, Clean
    <3>2. HeardNot(r)'
      BY <1>3, <1>6 DEF HeardNot
    <3>3. QED BY <1>1, <2>4, <3>1, <3>2, SameThings
  <2>5. QED BY <2>3, <2>4
<1>15. BridgeOwn'
  <2> SUFFICES ASSUME NEW q \in Request, Owner[q] \in bridges, NoForeign(Owner[q])',
                      at'[q] \notin {"await", "callback"}
               PROVE  OffChannel(q)'
    BY <1>1 DEF BridgeOwn
  <2>1. NoForeign(Owner[q]) /\ (Owner[q] = c => how # "foreign")
    BY <1>8, <1>9
  <2>2. CASE Owner[q] # c
    <3>1. at[q] \notin {"await", "callback"}
      BY <1>4, <1>6, <2>2
    <3>2. OffChannel(q)
      BY <2>1, <3>1 DEF CInv, BridgeOwn
    <3>3. QED BY <1>1, <1>3, <1>5, <1>8, <2>2, <3>2 DEF OffChannel, HeardNot
  <2>3. CASE Owner[q] = c
    <3>1. HeardNot(q)'
      BY <1>3, <2>3 DEF HeardNot
    <3>2. \A i \in 1 .. Len(owed) : owed[i].kind # "INIT" => owed[i].on \in Channels \ {0}
      <4>1. \A i \in 1 .. Len(owed) : owed[i] \in Owing
        BY ElementOfSeq DEF CInv, CTyped
      <4>2. QED BY <4>1 DEF CInv, Packets, Owing
    <3>3. \A i \in 1 .. Len(wire) : wire[i].chan \in Channels
      <4>1. \A i \in 1 .. Len(wire) : wire[i] \in Packet
        BY ElementOfSeq DEF CInv, CTyped
      <4>2. QED BY <4>1 DEF Packet
    <3>4. CASE q # r \/ at[r] \notin {"await", "callback"}
      <4>1. at[q] \notin {"await", "callback"}
        BY <1>4, <1>7, <2>3, <3>4
      <4>2. OffChannel(q)
        BY <2>1, <4>1 DEF CInv, BridgeOwn
      <4>3. QED BY <1>1, <1>2, <1>3, <1>5, <2>3, <3>1, <3>2, <3>3, <4>2 DEF OffChannel, Channels
    <3>5. CASE q = r /\ how = "own"
      <4>1. Single(r)
        BY <2>3, <3>5 DEF CInv, Readers, Single
      <4>2. Gone(q)
        BY <3>5, <4>1
      <4>3. QED BY <1>1, <3>1, <4>2 DEF OffChannel, Gone, OwesNot, SaysNot
    <3>6. CASE q = r /\ how \in {"timeout", "failed"}
      <4>1. cid'[c] = 0
        BY <1>5, <2>3, <3>6
      <4>2. QED BY <1>1, <1>2, <1>3, <2>3, <3>1, <3>2, <3>3, <4>1 DEF OffChannel, Channels
    <3>7. how # "late" \/ q # r
      BY <1>6, <2>1, <2>3
    <3>8. how \in {"own", "late", "timeout", "failed", "foreign"}
      BY DEF Outcome
    <3>9. QED BY <2>1, <2>3, <3>4, <3>5, <3>6, <3>7, <3>8
  <2>4. QED BY <2>2, <2>3
<1>16. Fresh'
  <2>1. Newer(0)
    BY FreshZero DEF CInv
  <2>2. \A d \in Client : Newer(cid'[d]) /\ (chan'[d] # Closed => Newer(chan'[d]))
    BY <1>3, <1>5, <2>1 DEF CInv, Fresh
  <2>3. owed' \in Seq(Owing)
    BY <1>1 DEF CInv, CTyped
  <2>4. QED BY <1>1, <1>12, <2>2, <2>3, FreshKept DEF CInv
<1>17. Counts'
  <2>1. {q \in Request : at'[q] # "new"} = {q \in Request : at[q] # "new"}
    BY <1>4
  <2>2. Where(owed, Inits)' = Where(owed, Inits)
    BY <1>1 DEF Where
  <2>3. ASSUME NEW q \in Request PROVE executed'[q] + Cardinality(Where(owed, Runs(q)))' <= Sendings(q)'
    <3>1. Where(owed, Runs(q))' = Where(owed, Runs(q))
      BY <1>1 DEF Where
    <3>2. Sendings(q) <= Sendings(q)' /\ Sendings(q) \in Nat /\ Sendings(q)' \in Nat
      BY <1>1, <1>4 DEF Sendings
    <3>3. executed[q] + Cardinality(Where(owed, Runs(q))) <= Sendings(q)
      BY DEF CInv, Counts
    <3>4. Cardinality(Where(owed, Runs(q))) \in Nat /\ executed[q] \in Nat
      <4>1. owed \in Seq(Owing) /\ executed \in [Request -> 0 .. 2]
        BY DEF CInv, CTyped, HidTypeOK
      <4>2. QED BY <4>1, WhereFinite
    <3>5. QED BY <1>1, <3>1, <3>2, <3>3, <3>4
  <2>4. QED BY <1>1, <2>1, <2>2, <2>3 DEF CInv, Counts
<1>18. Silence'
  <2>1. ASSUME NEW q \in Request, q \in answered \ resent
        PROVE  /\ at'[q] \in {"await", "callback", "done"} /\ outcome'[q] # "timeout"
               /\ at'[q] # "done" =>
                    \E i \in 1 .. Len(ready'[Owner[q]]) : ready'[Owner[q]][i].kind = "CBOR"
    <3>1. CASE q = r
      BY <1>4, <2>1, <3>1
    <3>2. CASE q # r
      <4>1. at'[q] = at[q] /\ outcome'[q] = outcome[q]
        BY <1>4, <3>2
      <4>2. at[q] # "done" => Owner[q] # c
        <5>1. at[q] # "new"
          BY <2>1 DEF CInv, Silence
        <5>2. QED BY <1>7, <3>2, <5>1
      <4>3. at[q] # "done" => ready'[Owner[q]] = ready[Owner[q]]
        BY <1>3, <1>8, <4>2
      <4>4. QED BY <2>1, <4>1, <4>3 DEF CInv, Silence
    <3>3. QED BY <3>1, <3>2
  <2>2. answered \subseteq Request
    BY DEF CInv, CTyped
  <2>3. ASSUME NEW q \in Request \ resent, at'[q] \in {"await", "callback"}, wire # <<>>,
               wire[1].of = q, wire[1].seq = 2, wire[1].chan = chan'[Owner[q]]
        PROVE  asm'[Owner[q]] # <<>>
    <3>1. q # r /\ Owner[q] # c
      BY <1>4, <1>7, <2>3
    <3>2. QED BY <1>3, <1>4, <1>8, <2>3, <3>1 DEF CInv, Silence
  <2>4. QED BY <1>1, <2>1, <2>2, <2>3 DEF Silence
<1>19. Lates'
  BY <1>1, <1>4, <1>6, <1>8, <1>9 DEF CInv, Lates
<1>20. QED BY <1>10, <1>11, <1>12, <1>13, <1>14, <1>15, <1>16, <1>17, <1>18, <1>19 DEF CInv

(* A request that is given up.                                             *)
LEMMA GiveUpHolds ==
  ASSUME CInv, NEW r \in Request, Fail(r) \/ Timeout(r), bridges' = bridges
  PROVE  CInv'
<1>1. Owner[r] \in Client
  BY ClientAssumption
<1>2. UNCHANGED <<bridges, kvars, wire, answered>> /\ at[r] \notin {"new", "done"}
  BY DEF Fail, Timeout, kvars
<1>3. CASE Fail(r)
  <2>1. EndRequest(r, "failed")
    BY <1>3 DEF Fail
  <2>2. QED BY <1>2, <2>1, EndHolds DEF Outcome
<1>4. CASE Timeout(r)
  <2>1. EndRequest(r, "timeout") /\ at[r] \in {"init", "await"} /\ ready[Owner[r]] = <<>>
    BY <1>4 DEF Timeout
  <2>2. Len(ready[Owner[r]]) = 0
    BY <2>1, EmptySeq
  <2>3. r \notin answered \ resent
    BY <2>1, <2>2 DEF CInv, Silence
  <2>4. QED BY <1>2, <2>1, <2>3, EndHolds DEF Outcome
<1>5. QED BY <1>3, <1>4

(* What a request ends with: its own answer was the last of it there was,  *)
(* and an earlier one's was left by one that had not its own.              *)
LEMMA AnswerHolds ==
  ASSUME CInv, NEW r \in Request, at[r] = "await", ready[Owner[r]] # <<>>,
         NEW m, m = Head(ready[Owner[r]]), m.kind \notin {"KEEPALIVE", "ERROR"},
         EndRequest(r, Whose(r, m.of)), UNCHANGED <<bridges, kvars, wire, answered>>
  PROVE  CInv'
<1> DEFINE c == Owner[r]
           how == Whose(r, m.of)
<1>1. c \in Client /\ \A q \in Request : Owner[q] \in Client
  BY ClientAssumption
<1>2. 1 \in 1 .. Len(ready[c]) /\ m = ready[c][1] /\ m \in Heard
  BY <1>1, HeardFirst DEF CInv
<1>3. m.of \in Request /\ m.kind \in Answers
  <2>1. m.of \in Request /\ m.kind \in Kinds
    BY <1>2 DEF Heard
  <2>2. chan[c] # 0
    BY Numbers DEF CInv, Readers
  <2>3. m.kind # "INIT"
    BY <1>1, <1>2, <2>2 DEF CInv, Packets
  <2>4. QED BY <2>1, <2>3 DEF Kinds, Answers
<1>4. how \in {"own", "late", "foreign"} /\ (how = "own" <=> m.of = r) /\ (how = "late" => Owner[m.of] = c)
  BY DEF Whose
<1>5. how = "own" => (Single(r) => Gone(r))
  BY <1>2, <1>3, <1>4 DEF CInv, Streams, Stream, HeardLast
<1>6. ASSUME how = "late"
      PROVE  ~Clean(c) /\ (c \in bridges => ~NoForeign(c))
  <2> DEFINE q == m.of
  <2>1. q \in Request /\ Owner[q] = c /\ q # r
    BY <1>3, <1>4, <1>6
  <2>2. at[q] \in {"new", "done"}
    BY <2>1 DEF CInv, Readers, CTyped, HidTypeOK, At
  <2>3. ~HeardNot(q)
    BY <1>2, <1>3, <2>1 DEF HeardNot, Answers
  <2>4. at[q] = "done"
    <3>1. CASE at[q] = "new"
      <4>1. q \notin resent
        BY <2>1, <3>1 DEF CInv, Readers
      <4>2. Stream(q)
        BY <2>1, <4>1 DEF CInv, Streams, Single
      <4>3. QED BY <2>3, <3>1, <4>2 DEF Stream, NotSent
    <3>2. QED BY <2>2, <3>1
  <2>5. ~Clean(c)
    BY <2>1, <2>3, <2>4 DEF CInv, Mine
  <2>6. c \in bridges => ~NoForeign(c)
    BY <2>1, <2>3, <2>4 DEF CInv, BridgeOwn, OffChannel
  <2>7. QED BY <2>5, <2>6
<1>7. how \in Outcome \ {"none"} /\ at[r] \notin {"new", "done"} /\ how # "timeout"
  BY <1>4 DEF Outcome
<1> HIDE DEF how, c
<1>8. EndRequest(r, how) /\ c = Owner[r]
  BY DEF how, c
<1>9. QED BY <1>5, <1>6, <1>7, <1>8, EndHolds

(* The next message is read.                                               *)
LEMMA ReadHolds ==
  ASSUME CInv, NEW r \in Request, Read(r), bridges' = bridges
  PROVE  CInv'
<1> DEFINE c == Owner[r]
           m == Head(ready[c])
<1>1. c \in Client /\ Closed \in Nat /\ Closed >= 1 /\ \A q \in Request : Owner[q] \in Client
  BY ClientAssumption, Numbers
<1>2. /\ owed' = owed /\ kept' = kept /\ nextCid' = nextCid /\ executed' = executed /\ wire' = wire
      /\ answered' = answered /\ at[r] = "await" /\ ready[c] # <<>>
      /\ UNCHANGED <<bridges, kvars, wire, answered>>
  BY DEF Read, kvars
<1>3. /\ Len(ready[c]) \in Nat /\ 1 \in 1 .. Len(ready[c]) /\ m = ready[c][1] /\ m \in Heard
      /\ Tail(ready[c]) \in Seq(Heard) /\ Len(Tail(ready[c])) = Len(ready[c]) - 1
      /\ \A i \in 1 .. Len(Tail(ready[c])) : Tail(ready[c])[i] = ready[c][i + 1]
  BY <1>1, <1>2, HeardFirst DEF CInv
<1>4. CASE /\ Continues(m) /\ To(r, "callback") /\ ready' = [ready EXCEPT ![c] = Tail(@)]
           /\ UNCHANGED <<left, cid, chan, asm, resent, outcome>>
  <2>1. /\ left' = left /\ cid' = cid /\ chan' = chan /\ asm' = asm /\ resent' = resent /\ outcome' = outcome
        /\ m.kind = "KEEPALIVE" /\ To(r, "callback") /\ ready' = [ready EXCEPT ![c] = Tail(ready[c])]
    BY <1>4 DEF Continues
  <2>2. ready' \in [Client -> Seq(Heard)] /\ ready'[c] = Tail(ready[c]) /\ \A d \in Client \ {c} :
            ready'[d] = ready[d]
    BY <1>1, <1>3, <2>1 DEF CInv, CTyped
  <2>3. Ebb
    <3> SUFFICES ASSUME NEW d \in Client
                 PROVE  \E k \in Nat : \A i \in 1 .. Len(ready'[d]) :
                          i + k \in 1 .. Len(ready[d]) /\ ready'[d][i] = ready[d][i + k]
      BY <2>1 DEF Ebb
    <3>1. CASE d = c
      <4>1. \A i \in 1 .. Len(ready'[c]) : i + 1 \in 1 .. Len(ready[c]) /\ ready'[c][i] = ready[c][i + 1]
        BY <1>3, <2>2
      <4>2. QED BY <3>1, <4>1
    <3>2. CASE d # c
      <4>1. \A i \in 1 .. Len(ready'[d]) : i + 0 \in 1 .. Len(ready[d]) /\ ready'[d][i] = ready[d][i + 0]
        BY <2>2, <3>2, Things DEF CInv
      <4>2. QED BY <4>1
    <3>3. QED BY <3>1, <3>2
  <2>4. ASSUME r \in answered \ resent
        PROVE  \E i \in 1 .. Len(ready'[c]) : ready'[c][i].kind = "CBOR"
    <3>1. PICK i \in 1 .. Len(ready[c]) : ready[c][i].kind = "CBOR"
      BY <1>2, <2>4 DEF CInv, Silence
    <3>2. i # 1
      BY <1>3, <2>1, <3>1
    <3>3. i - 1 \in 1 .. Len(ready'[c]) /\ ready'[c][i - 1] = ready[c][i]
      BY <1>3, <2>2, <3>2
    <3>4. QED BY <3>1, <3>3
  <2>5. QED BY <1>1, <1>2, <2>1, <2>2, <2>3, <2>4, ReadsOn
<1>5. CASE m.kind = "ERROR" /\ EndRequest(r, "failed")
  BY <1>2, <1>5, EndHolds DEF Outcome
<1>6. CASE /\ Resends(r, m) /\ Send(r, chan[c]) /\ resent' = resent \cup {r} /\ UNCHANGED <<cid, outcome>>
  <2>1. /\ m.kind = "INVALID_COMMAND" /\ r \in Long /\ r \notin resent /\ c \notin bridges
        /\ cid' = cid /\ outcome' = outcome /\ resent' = resent \cup {r} /\ Send(r, chan[c])
    BY <1>6 DEF Resends
  <2>2. chan[c] \in 1 .. Closed - 1 /\ outcome[r] = "none"
    BY <1>2 DEF CInv, Readers
  <2>3. Newer(chan[c]) /\ Newer(cid[c]) /\ cid \in [Client -> 0 .. Closed - 1]
    BY <1>1, <2>2 DEF CInv, Fresh, CTyped, HidTypeOK
  <2>4. \A q \in Request \ {r} : Owner[q] = c => at[q] \in {"new", "done"}
    BY <1>2 DEF CInv, Readers, CTyped, HidTypeOK, At
  <2>5. Single(r) /\ Stream(r)
    BY <2>1 DEF CInv, Streams, Single
  <2>6. ASSUME Single(r)'
        PROVE  Gone(r) /\ executed[r] = 0
    <3>1. /\ \A a, b \in Client : a = b
          /\ \A q \in Request \ {r} : Owner[q] = c => outcome[q] \notin Left
      BY <2>1, <2>6 DEF Single, Alone
    <3>2. Clean(c)
      BY <2>1, <2>2, <3>1 DEF Clean, Left, Alone
    <3> DEFINE q == m.of
    <3>3. q \in Request /\ m.kind \in Answers
      BY <1>3, <2>1 DEF Heard, Answers
    <3>4. Owner[q] = c
      BY <1>1, <3>1, <3>3
    <3>5. ~HeardNot(q)
      BY <1>3, <2>1, <3>3, <3>4 DEF HeardNot
    <3>6. q = r
      <4> SUFFICES ASSUME q # r PROVE FALSE
        OBVIOUS
      <4>1. at[q] \in {"new", "done"}
        BY <2>4, <3>3, <3>4
      <4>2. CASE at[q] = "new"
        <5>1. q \notin resent
          BY <3>3, <4>2 DEF CInv, Readers
        <5>2. Stream(q)
          BY <3>3, <5>1 DEF CInv, Streams, Single
        <5>3. QED BY <3>5, <4>2, <5>2 DEF Stream, NotSent
      <4>3. CASE at[q] = "done"
        BY <3>2, <3>3, <3>4, <3>5, <4>3 DEF CInv, Mine
      <4>4. QED BY <4>1, <4>2, <4>3
    <3>7. Gone(r)
      BY <1>3, <2>5, <3>3, <3>6 DEF Stream, HeardLast
    <3>8. executed[r] # 1
      BY <1>3, <2>1, <2>5, <3>6 DEF Stream, Done1
    <3>9. QED BY <2>5, <3>7, <3>8 DEF Stream, Done1
  <2>7. Sendings(r) <= Sendings(r)'
    <3>1. at'[r] = "write"
      BY <2>1 DEF Send, To, CInv, CTyped, HidTypeOK
    <3>2. QED BY <1>2, <2>1, <3>1 DEF Sendings
  <2>8. r \notin answered \ resent' /\ r \in resent'
    BY <2>1
  <2>9. QED BY <1>1, <1>2, <2>1, <2>2, <2>3, <2>4, <2>5, <2>6, <2>7, <2>8, SendHolds
<1>7. CASE m.kind \notin {"KEEPALIVE", "ERROR"} /\ EndRequest(r, Whose(r, m.of))
  <2> HIDE DEF m
  <2>1. m = Head(ready[Owner[r]])
    BY DEF m
  <2>2. QED BY <1>2, <1>7, <2>1, AnswerHolds
<1>8. QED BY <1>4, <1>5, <1>6, <1>7 DEF Read, Continues

-----------------------------------------------------------------------------
(* The steps of the key.                                                   *)

(* What a client holds stays as it is when the key takes a step.           *)
Still ==
  /\ bridges' = bridges /\ at' = at /\ left' = left /\ cid' = cid /\ chan' = chan /\ asm' = asm
  /\ ready' = ready /\ resent' = resent /\ outcome' = outcome /\ answered' = answered

(* What is said of the clients alone stays true.                           *)
LEMMA StillHolds ==
  ASSUME CInv, Still
  PROVE  /\ Readers' /\ Lates' /\ Ebb /\ AsmFrom
         /\ \A c \in Client : (Clean(c)' <=> Clean(c)) /\ (NoForeign(c)' <=> NoForeign(c))
         /\ \A r \in Request : (Single(r)' <=> Single(r)) /\ (HeardNot(r)' <=> HeardNot(r))
                               /\ Sendings(r)' = Sendings(r)
<1>1. Readers' /\ Lates'
  BY DEF Still, CInv, Readers, Lates, Clean, NoForeign
<1>2. Ebb /\ AsmFrom
  <2>1. \A d \in Client : \A i \in 1 .. Len(ready'[d]) :
            i + 0 \in 1 .. Len(ready[d]) /\ ready'[d][i] = ready[d][i + 0]
    BY Things DEF CInv, Still
  <2>2. QED BY <2>1 DEF Ebb, AsmFrom, Still
<1>3. QED BY <1>1, <1>2 DEF Still, Clean, NoForeign, Single, HeardNot, Sendings

(* What is on the wire is on channels older than those not yet heard of.   *)
LEMMA WireNewer ==
  ASSUME \A i \in 1 .. Len(wire') : \A a, d :
           wire'[i].chan # 0 /\ a = wire'[i].chan /\ d = Owner[wire'[i].of] => Newer(a)' /\ Below(a, d)'
  PROVE  \A i \in 1 .. Len(wire') :
           wire'[i].chan # 0 => Newer(wire[i].chan)' /\ Below(wire[i].chan, Owner[wire[i].of])'
BY DEF Newer, Below

(* Counting what is owed when the first of it is not any more.             *)
LEMMA OwedLess ==
  ASSUME CTyped, owed # <<>>, owed' = Tail(owed), NEW CONSTANT K
  PROVE  /\ Cardinality(Where(owed, K))' \in Nat /\ Cardinality(Where(owed, K)) \in Nat
         /\ Cardinality(Where(owed, K)) =
              Cardinality(Where(owed, K))' + (IF owed[1] \in K THEN 1 ELSE 0)
<1>1. owed \in Seq(Owing) /\ Tail(owed) \in Seq(Owing) /\ Head(owed) = owed[1]
  BY OwedShrinks DEF CTyped
<1>2. Where(owed, K)' = Where(Tail(owed), K)
  BY DEF Where
<1>3. Cardinality(Where(owed, K)) =
        Cardinality(Where(Tail(owed), K)) + (IF Head(owed) \in K THEN 1 ELSE 0)
  BY <1>1, WhereTail
<1>4. Cardinality(Where(Tail(owed), K)) \in Nat /\ Cardinality(Where(owed, K)) \in Nat
  BY <1>1, WhereFinite
<1>5. QED BY <1>1, <1>2, <1>3, <1>4

(* The key misses what it was sent.                                        *)
LEMMA IgnoreHolds ==
  ASSUME CInv, KeyIgnores, bridges' = bridges
  PROVE  CInv'
<1>1. /\ owed # <<>> /\ owed' = Tail(owed) /\ wire' = wire /\ kept' = kept /\ nextCid' = nextCid
      /\ executed' = executed /\ Still
  BY DEF KeyIgnores, cvars, rvars, Still
<1>2. /\ owed' \in Seq(Owing) /\ Len(owed') = Len(owed) - 1 /\ Len(owed) \in Nat \ {0}
      /\ \A i \in 1 .. Len(owed') : i + 1 \in 1 .. Len(owed) /\ owed'[i] = owed[i + 1]
  BY <1>1, OwedShrinks DEF CInv
<1>3. Readers' /\ Lates' /\ Ebb /\ AsmFrom
  BY <1>1, StillHolds
<1>4. \A q \in Request : OwedEbb(q)
  BY <1>2 DEF OwedEbb
<1>5. OwedFrom
  BY <1>2 DEF OwedFrom
<1>6. \A q \in Request : Owner[q] \in Client
  BY ClientAssumption
<1>7. CTyped'
  BY <1>1, <1>2 DEF CInv, CTyped, HidTypeOK, Still
<1>8. Packets'
  BY <1>1, <1>3, <1>5, PacketsKept DEF CInv
<1>9. Streams'
  <2> SUFFICES ASSUME NEW q \in Request, Single(q)' PROVE Stream(q)'
    BY DEF Streams
  <2>1. Stream(q) /\ at'[q] = at[q]
    BY <1>1, StillHolds DEF CInv, Streams, Still
  <2>2. QED BY <1>1, <1>3, <1>4, <1>6, <2>1, SameStream
<1>10. \A q \in Request : (Gone(q) => Gone(q)')
  BY <1>1, <1>4 DEF Gone, OwesNot, SaysNot, OwedEbb
<1>11. Mine'
  <2>1. /\ \A c \in Client : Clean(c)' <=> Clean(c)
        /\ \A r \in Request : HeardNot(r)' <=> HeardNot(r)
    BY <1>1, StillHolds
  <2>2. QED BY <1>1, <1>6, <1>10, <2>1 DEF CInv, Mine, Still
<1>12. BridgeOwn'
  <2> SUFFICES ASSUME NEW q \in Request, Owner[q] \in bridges, NoForeign(Owner[q]),
                      at[q] \notin {"await", "callback"}
               PROVE  OffChannel(q)'
    BY <1>1, <1>6, StillHolds DEF BridgeOwn, Still
  <2>1. OffChannel(q)
    BY DEF CInv, BridgeOwn
  <2>2. HeardNot(q)'
    BY <1>1, <2>1, StillHolds DEF OffChannel
  <2>3. QED BY <1>1, <1>2, <2>1, <2>2 DEF OffChannel, Still
<1>13. Fresh'
  <2>1. \A d \in Client : Newer(cid'[d]) /\ (chan'[d] # Closed => Newer(chan'[d]))
    BY <1>1 DEF CInv, Fresh, Still
  <2>2. QED BY <1>1, <1>2, <1>3, <1>5, <2>1, FreshKept DEF CInv
<1>14. Counts'
  <2>1. ASSUME NEW CONSTANT K
        PROVE  /\ Cardinality(Where(owed, K))' \in Nat /\ Cardinality(Where(owed, K)) \in Nat
               /\ Cardinality(Where(owed, K))' <= Cardinality(Where(owed, K))
    BY <1>1, OwedLess DEF CInv
  <2>2. nextCid \in Nat /\ executed \in [Request -> 0 .. 2]
    BY Numbers DEF CInv, CTyped, HidTypeOK
  <2>3. /\ Cardinality(Where(owed, Inits))' \in Nat /\ Cardinality(Where(owed, Inits)) \in Nat
        /\ Cardinality(Where(owed, Inits))' <= Cardinality(Where(owed, Inits))
    BY <2>1
  <2>4. nextCid' + Cardinality(Where(owed, Inits))' <= Cardinality({r \in Request : at'[r] # "new"}) + 1
    <3> DEFINE Old == Cardinality({r \in Request : at[r] # "new"})
               New == Cardinality({r \in Request : at'[r] # "new"})
               many == Cardinality(Where(owed, Inits))
               fewer == Cardinality(Where(owed', Inits))
    <3>1. New = Old /\ nextCid' = nextCid /\ nextCid \in Nat
      BY <1>1, <2>2 DEF Still
    <3>2. Old \in Nat
      BY ClientAssumption, FS_Subset, FS_CardinalityType
    <3>3. nextCid + many <= Old + 1
      BY DEF CInv, Counts
    <3>4. fewer \in Nat /\ many \in Nat /\ fewer <= many
      BY <2>3 DEF Where, Inits
    <3> HIDE DEF Old, New, many, fewer
    <3>5. nextCid' + fewer <= New + 1
      BY <3>1, <3>2, <3>3, <3>4
    <3>6. QED BY <3>5 DEF New, fewer, Where, Inits
  <2>5. ASSUME NEW q \in Request
        PROVE  executed'[q] + Cardinality(Where(owed, Runs(q)))' <= Sendings(q)'
    <3>1. /\ Cardinality(Where(owed, Runs(q)))' \in Nat /\ Cardinality(Where(owed, Runs(q))) \in Nat
          /\ Cardinality(Where(owed, Runs(q)))' <= Cardinality(Where(owed, Runs(q)))
      BY <2>1
    <3>2. Sendings(q)' = Sendings(q) /\ Sendings(q) \in Nat /\ executed[q] \in Nat
      BY <1>1, <2>2, StillHolds DEF Sendings
    <3>3. executed[q] + Cardinality(Where(owed, Runs(q))) <= Sendings(q)
      BY DEF CInv, Counts
    <3>4. QED BY <1>1, <3>1, <3>2, <3>3
  <2>6. QED BY <2>4, <2>5 DEF Counts
<1>15. Silence'
  BY <1>1 DEF CInv, Silence, Still
<1>16. QED BY <1>3, <1>7, <1>8, <1>9, <1>11, <1>12, <1>13, <1>14, <1>15 DEF CInv

(* The key says something of the first it owes an answer to.               *)
LEMMA SaysHolds ==
  ASSUME CInv, owed # <<>>, NEW o, o = Head(owed), NEW kind \in Kinds, NEW new \in Channels,
         wire' = wire \o Message(o.on, kind, o.of, new), Still, kept' \subseteq Request,
         kind = "INIT" <=> o.kind = "INIT",
         (owed' = owed /\ kind = "KEEPALIVE") \/ (owed' = Tail(owed)),
         executed' \in [Request -> 0 .. 2],
         \A q \in Request : executed'[q] = IF kind = "CBOR" /\ q = o.of THEN executed[q] + 1 ELSE executed[q],
         nextCid' = IF kind = "INIT" THEN nextCid + 1 ELSE nextCid,
         nextCid' \in 1 .. Closed, kind = "INIT" => new = nextCid, Counts'
  PROVE  CInv'
<1> DEFINE n == Len(wire)
           h == [kind |-> kind, of |-> o.of, cid |-> new, packets |-> IF kind = "CBOR" THEN 2 ELSE 1]
<1>1. o = owed[1] /\ 1 \in 1 .. Len(owed) /\ o \in Owing /\ Len(owed) \in Nat
  <2>1. owed \in Seq(Owing)
    BY DEF CInv, CTyped
  <2>2. QED BY <2>1, HeadTailProperties, LenProperties, EmptySeq
<1>2. o.on \in Channels /\ o.of \in Request /\ o.kind \in {"INIT", "run", "cut"}
  BY <1>1 DEF Owing
<1>3. /\ wire' \in Seq(Packet) /\ n \in Nat
      /\ Len(wire') = IF kind = "CBOR" THEN n + 2 ELSE n + 1
      /\ \A i \in 1 .. n : wire'[i] = wire[i]
      /\ \A i \in 1 .. Len(wire') : i \notin 1 .. n =>
           wire'[i].chan = o.on /\ wire'[i].of = o.of /\ wire'[i].seq = i - n /\ wire'[i].head = h
  <2>1. CTyped
    BY DEF CInv
  <2>2. /\ wire' \in Seq(Packet) /\ Len(wire) \in Nat
        /\ Len(wire') = Len(wire) + (IF kind = "CBOR" THEN 2 ELSE 1)
        /\ \A i \in 1 .. Len(wire) : wire'[i] = wire[i]
        /\ \A i \in 1 .. Len(wire') : i \notin 1 .. Len(wire) =>
             /\ wire'[i].chan = o.on /\ wire'[i].of = o.of /\ wire'[i].seq = i - Len(wire)
             /\ wire'[i].head = [kind |-> kind, of |-> o.of, cid |-> new,
                                 packets |-> IF kind = "CBOR" THEN 2 ELSE 1]
    <3>1. /\ o.on \in Channels /\ o.of \in Request /\ kind \in Kinds /\ new \in Channels
          /\ wire' = wire \o Message(o.on, kind, o.of, new)
      BY <1>2
    <3>2. Said(o.on, kind, o.of, new)
      BY <2>1, <3>1, WireGrows, Zenon
    <3>3. QED BY <3>2 DEF Said
  <2>3. n = Len(wire) /\ h = [kind |-> kind, of |-> o.of, cid |-> new,
                              packets |-> IF kind = "CBOR" THEN 2 ELSE 1]
    OBVIOUS
  <2> HIDE DEF n, h
  <2>4. Len(wire') = IF kind = "CBOR" THEN n + 2 ELSE n + 1
    BY <2>2, <2>3
  <2>5. QED BY <2>2, <2>3, <2>4
<1>4. /\ h.kind = kind /\ h.of = o.of /\ h.cid = new /\ h.packets = IF kind = "CBOR" THEN 2 ELSE 1
  OBVIOUS
<1> HIDE DEF n, h
<1>5. PICK k \in {0, 1} :
        /\ owed' \in Seq(Owing) /\ Len(owed') \in Nat
        /\ \A i \in 1 .. Len(owed') : i + k \in 1 .. Len(owed) /\ owed'[i] = owed[i + k]
        /\ kind # "KEEPALIVE" => k = 1
  <2>1. CASE owed' = owed /\ kind = "KEEPALIVE"
    <3>1. \A i \in 1 .. Len(owed') : i + 0 \in 1 .. Len(owed) /\ owed'[i] = owed[i + 0]
      BY <1>1, <2>1
    <3>2. owed' \in Seq(Owing) /\ Len(owed') \in Nat
      BY <1>1, <2>1 DEF CInv, CTyped
    <3>3. QED BY <2>1, <3>1, <3>2
  <2>2. CASE owed' = Tail(owed)
    <3>1. /\ owed' \in Seq(Owing) /\ Len(owed') \in Nat
          /\ \A i \in 1 .. Len(owed') : i + 1 \in 1 .. Len(owed) /\ owed'[i] = owed[i + 1]
      BY <2>2, OwedShrinks DEF CInv
    <3>2. QED BY <3>1
  <2>3. QED BY <2>1, <2>2
<1>6. o.kind = "INIT" <=> o.on = 0
  BY <1>1 DEF CInv, Packets
<1>7. \A q \in Request : Owner[q] \in Client
  BY ClientAssumption
<1>8. \A i \in 1 .. Len(wire') : i \in 1 .. n \/ i = n + 1 \/ (i = n + 2 /\ kind = "CBOR")
  BY <1>3
<1>9. Readers' /\ Lates'
  BY StillHolds
<1>10. CTyped'
  BY <1>3, <1>5 DEF CInv, CTyped, HidTypeOK, Still
<1>11. Packets'
  <2>1. \A i \in 1 .. Len(owed') : owed'[i].kind = "INIT" <=> owed'[i].on = 0
    BY <1>5 DEF CInv, Packets
  <2>2. ASSUME NEW i \in 1 .. Len(wire')
        PROVE  /\ wire'[i].head.kind = "INIT" <=> wire'[i].chan = 0
               /\ wire'[i].head.of = wire'[i].of
               /\ wire'[i].head.packets = 2 <=> wire'[i].head.kind = "CBOR"
               /\ wire'[i].head.packets = 2 /\ wire'[i].seq = 1 =>
                    /\ i + 1 \in 1 .. Len(wire') /\ wire'[i + 1].seq = 2 /\ wire'[i + 1].chan = wire'[i].chan
                    /\ wire'[i + 1].of = wire'[i].of /\ wire'[i + 1].head = wire'[i].head
               /\ wire'[i].seq = 2 =>
                    /\ wire'[i].head.packets = 2
                    /\ i # 1 => wire'[i - 1].seq = 1 /\ wire'[i - 1].head.packets = 2
    <3>1. CASE i \in 1 .. n
      <4>1. wire'[i] = wire[i]
        BY <1>3, <3>1
      <4>2. i + 1 \in 1 .. n => i + 1 \in 1 .. Len(wire') /\ wire'[i + 1] = wire[i + 1]
        BY <1>3
      <4>3. i # 1 => i - 1 \in 1 .. n /\ wire'[i - 1] = wire[i - 1]
        BY <1>3, <3>1
      <4>4. /\ wire[i].head.kind = "INIT" <=> wire[i].chan = 0
            /\ wire[i].head.of = wire[i].of
            /\ wire[i].head.packets = 2 <=> wire[i].head.kind = "CBOR"
        BY <3>1 DEF CInv, Packets, n
      <4>5. wire[i].head.packets = 2 /\ wire[i].seq = 1 =>
              /\ i + 1 \in 1 .. n /\ wire[i + 1].seq = 2 /\ wire[i + 1].chan = wire[i].chan
              /\ wire[i + 1].of = wire[i].of /\ wire[i + 1].head = wire[i].head
        BY <3>1 DEF CInv, Packets, n
      <4>6. wire[i].seq = 2 =>
              /\ wire[i].head.packets = 2
              /\ i # 1 => wire[i - 1].seq = 1 /\ wire[i - 1].head.packets = 2
        BY <3>1 DEF CInv, Packets, n
      <4>7. wire'[i].head.packets = 2 /\ wire'[i].seq = 1 =>
              /\ i + 1 \in 1 .. Len(wire') /\ wire'[i + 1].seq = 2 /\ wire'[i + 1].chan = wire'[i].chan
              /\ wire'[i + 1].of = wire'[i].of /\ wire'[i + 1].head = wire'[i].head
        BY <4>1, <4>2, <4>5
      <4>8. wire'[i].seq = 2 =>
              /\ wire'[i].head.packets = 2
              /\ i # 1 => wire'[i - 1].seq = 1 /\ wire'[i - 1].head.packets = 2
        BY <4>1, <4>3, <4>6
      <4>9. QED BY <4>1, <4>4, <4>7, <4>8
    <3>2. CASE i = n + 1
      <4>1. i \notin 1 .. n /\ i - n = 1
        BY <1>3, <3>2
      <4>2. wire'[i].chan = o.on /\ wire'[i].of = o.of /\ wire'[i].seq = 1 /\ wire'[i].head = h
        BY <1>3, <4>1
      <4>3. ASSUME kind = "CBOR"
            PROVE  /\ i + 1 \in 1 .. Len(wire')
                   /\ wire'[i + 1].chan = o.on /\ wire'[i + 1].of = o.of /\ wire'[i + 1].seq = 2
                   /\ wire'[i + 1].head = h
        <5>1. i + 1 \in 1 .. Len(wire') /\ i + 1 \notin 1 .. n /\ (i + 1) - n = 2
          BY <1>3, <3>2, <4>3
        <5>2. QED BY <1>3, <5>1
      <4>4. /\ wire'[i].head.kind = kind /\ wire'[i].head.of = o.of
            /\ wire'[i].head.packets = IF kind = "CBOR" THEN 2 ELSE 1
        BY <1>4, <4>2
      <4>5. wire'[i].head.packets = 2 => kind = "CBOR"
        BY <4>4
      <4>6. wire'[i].head.packets = 2 /\ wire'[i].seq = 1 =>
              /\ i + 1 \in 1 .. Len(wire') /\ wire'[i + 1].seq = 2 /\ wire'[i + 1].chan = wire'[i].chan
              /\ wire'[i + 1].of = wire'[i].of /\ wire'[i + 1].head = wire'[i].head
        BY <4>2, <4>3, <4>5
      <4>7. wire'[i].head.kind = "INIT" <=> wire'[i].chan = 0
        BY <1>6, <4>2, <4>4
      <4>8. wire'[i].head.of = wire'[i].of /\ (wire'[i].head.packets = 2 <=> wire'[i].head.kind = "CBOR")
        BY <4>2, <4>4
      <4>9. wire'[i].seq # 2
        BY <4>2
      <4>10. wire'[i].seq = 2 =>
               /\ wire'[i].head.packets = 2
               /\ i # 1 => wire'[i - 1].seq = 1 /\ wire'[i - 1].head.packets = 2
        BY <4>9
      <4>11. QED BY <4>6, <4>7, <4>8, <4>10, Zenon
    <3>3. CASE i = n + 2 /\ kind = "CBOR"
      <4>1. /\ i \notin 1 .. n /\ i - n = 2 /\ i - 1 \in 1 .. Len(wire') /\ i - 1 \notin 1 .. n
            /\ (i - 1) - n = 1
        BY <1>3, <3>3
      <4>2. wire'[i].chan = o.on /\ wire'[i].of = o.of /\ wire'[i].seq = 2 /\ wire'[i].head = h
        BY <1>3, <4>1
      <4>3. wire'[i - 1].seq = 1 /\ wire'[i - 1].head = h
        BY <1>3, <4>1
      <4>4. h.kind = "CBOR" /\ h.packets = 2 /\ h.of = o.of
        BY <1>4, <3>3
      <4>5. wire'[i].head.kind = "INIT" <=> wire'[i].chan = 0
        BY <1>6, <3>3, <4>2, <4>4
      <4>6. wire'[i].head.of = wire'[i].of /\ (wire'[i].head.packets = 2 <=> wire'[i].head.kind = "CBOR")
        BY <4>2, <4>4
      <4>7. wire'[i].seq # 1 /\ wire'[i].head.packets = 2
        BY <4>2, <4>4
      <4>8. wire'[i - 1].seq = 1 /\ wire'[i - 1].head.packets = 2
        BY <4>3, <4>4
      <4>9. QED BY <4>5, <4>6, <4>7, <4>8, Zenon
    <3>4. QED BY <1>8, <3>1, <3>2, <3>3
  <2>3. wire # <<>> => wire' # <<>> /\ wire'[1] = wire[1]
    <3>1. wire # <<>> => 1 \in 1 .. n
      BY WireFirst DEF CInv, n
    <3>2. wire' = <<>> => Len(wire') = 0
      BY EmptySeq
    <3>3. QED BY <1>3, <3>1, <3>2
  <2>4. ASSUME NEW d \in Client, asm'[d] # <<>>
        PROVE  /\ wire' # <<>> /\ wire'[1].seq = 2 /\ wire'[1].chan = chan'[d]
               /\ Len(asm'[d]) = 1 /\ asm'[d][1].seq = 1
               /\ asm'[d][1].of = wire'[1].of /\ asm'[d][1].head = wire'[1].head
    <3>1. asm'[d] = asm[d] /\ chan'[d] = chan[d]
      BY DEF Still
    <3>2. QED BY <2>3, <2>4, <3>1 DEF CInv, Packets
  <2>5. \A d \in Client : \A i \in 1 .. Len(ready'[d]) :
          /\ ready'[d][i].packets = {ready'[d][i].of}
          /\ ready'[d][i].kind = "INIT" <=> chan'[d] = 0
    BY DEF Still, CInv, Packets
  <2>6. QED BY <2>1, <2>2, <2>4, <2>5 DEF Packets
<1>12. ASSUME NEW q \in Request, q # o.of \/ o.kind = "INIT"
       PROVE  /\ OwesNot(q) => OwesNot(q)'
              /\ \A i \in 1 .. Len(wire') : wire'[i].of = q => i \in 1 .. n \/ wire'[i].chan = 0
              /\ SaysNot(q) => SaysNot(q)'
  <2>1. OwesNot(q) => OwesNot(q)'
    BY <1>5 DEF OwesNot
  <2>2. \A i \in 1 .. Len(wire') : wire'[i].of = q => i \in 1 .. n \/ wire'[i].chan = 0
    BY <1>3, <1>6, <1>12
  <2>3. SaysNot(q) => SaysNot(q)'
    BY <1>3, <2>2 DEF SaysNot, n
  <2>4. QED BY <2>1, <2>2, <2>3
<1>13. ASSUME NEW q \in Request, q = o.of, o.kind # "INIT"
       PROVE  ~OwesNot(q) /\ ~Gone(q)
  BY <1>1, <1>13 DEF OwesNot, Gone
<1>14. Streams'
  <2> SUFFICES ASSUME NEW q \in Request, Single(q)' PROVE Stream(q)'
    BY DEF Streams
  <2>1. Stream(q) /\ at'[q] = at[q] /\ ready' = ready /\ (HeardNot(q)' <=> HeardNot(q))
    BY StillHolds DEF CInv, Streams, Still
  <2>2. OweOnce(q)'
    <3> SUFFICES ASSUME NEW i \in 1 .. Len(owed'), NEW j \in 1 .. Len(owed'), owed'[i].of = q, owed'[j].of = q,
                        owed'[i].kind # "INIT", owed'[j].kind # "INIT"
                 PROVE  i = j
      BY DEF OweOnce
    <3>1. /\ i + k \in 1 .. Len(owed) /\ owed'[i] = owed[i + k]
          /\ j + k \in 1 .. Len(owed) /\ owed'[j] = owed[j + k]
      BY <1>5
    <3>2. i + k = j + k
      BY <2>1, <3>1 DEF OweOnce, Stream
    <3>3. QED BY <3>2
  <2>3. CASE q # o.of \/ o.kind = "INIT"
    <3>1. /\ OwesNot(q) => OwesNot(q)'
          /\ \A i \in 1 .. Len(wire') : wire'[i].of = q => i \in 1 .. n \/ wire'[i].chan = 0
          /\ Gone(q) => Gone(q)'
      BY <1>12, <2>3 DEF Gone
    <3>2. \A i \in 1 .. Len(wire') :
            wire'[i].of = q => i \in 1 .. n \/ wire'[i].head.kind = "INIT"
      BY <1>11, <3>1 DEF Packets
    <3>3. executed'[q] = executed[q]
      BY <2>3
    <3>4. SaidLast(q)'
      <4> SUFFICES ASSUME NEW i \in 1 .. Len(wire'), wire'[i].of = q, wire'[i].head.kind \in Answers
                   PROVE  /\ OwesNot(q)'
                          /\ \A j \in 1 .. Len(wire') :
                               j > i /\ wire'[j].of = q /\ wire'[j].chan # 0 =>
                                 j = i + 1 /\ wire'[i].seq = 1 /\ wire'[j].seq = 2
        BY DEF SaidLast
      <4>1. i \in 1 .. n /\ wire'[i] = wire[i]
        BY <1>3, <3>2 DEF Answers
      <4>2. \A j \in 1 .. Len(wire') : wire'[j].of = q /\ wire'[j].chan # 0 =>
                j \in 1 .. n /\ wire'[j] = wire[j]
        BY <1>3, <3>1
      <4>3. QED BY <2>1, <3>1, <4>1, <4>2 DEF Stream, SaidLast, n
    <3>5. HeardLast(q)'
      BY <2>1, <3>1 DEF Stream, HeardLast
    <3>6. Done1(q)'
      <4>1. Done1(q)
        BY <2>1 DEF Stream
      <4>2. ASSUME executed[q] = 1, NEW i \in 1 .. Len(wire'), wire'[i].of = q
            PROVE  wire'[i].head.kind # "INVALID_COMMAND"
        BY <1>3, <3>2, <4>1, <4>2 DEF Done1, n
      <4>3. QED BY <2>1, <3>1, <3>3, <4>1, <4>2 DEF Done1
    <3>7. NotSent(q)'
      BY <2>1, <3>1, <3>3 DEF Stream, NotSent
    <3>8. QED BY <2>2, <3>4, <3>5, <3>6, <3>7 DEF Stream
  <2>4. CASE q = o.of /\ o.kind # "INIT"
    <3>1. ~OwesNot(q) /\ ~Gone(q)
      BY <1>13, <2>4
    <3>2. \A i \in 1 .. n : wire[i].of = q => wire[i].head.kind \notin Answers
      BY <2>1, <3>1 DEF Stream, SaidLast, n
    <3>3. \A i \in 1 .. Len(ready[Owner[q]]) : ready[Owner[q]][i].of = q =>
              ready[Owner[q]][i].kind \notin Answers
      BY <2>1, <3>1 DEF Stream, HeardLast
    <3>4. executed[q] = 0 /\ at[q] \notin {"new", "init", "write"}
      BY <2>1, <3>1 DEF Stream, Done1, NotSent
    <3>5. k = 1 => OwesNot(q)'
      <4> SUFFICES ASSUME k = 1, NEW i \in 1 .. Len(owed'), owed'[i].of = q, owed'[i].kind # "INIT" PROVE FALSE
        BY DEF OwesNot
      <4>1. i + 1 \in 1 .. Len(owed) /\ owed'[i] = owed[i + 1] /\ i + 1 # 1
        BY <1>5
      <4>2. QED BY <1>1, <2>1, <2>4, <4>1 DEF Stream, OweOnce
    <3>6. SaidLast(q)'
      <4> SUFFICES ASSUME NEW i \in 1 .. Len(wire'), wire'[i].of = q, wire'[i].head.kind \in Answers
                   PROVE  /\ OwesNot(q)'
                          /\ \A j \in 1 .. Len(wire') :
                               j > i /\ wire'[j].of = q /\ wire'[j].chan # 0 =>
                                 j = i + 1 /\ wire'[i].seq = 1 /\ wire'[j].seq = 2
        BY DEF SaidLast
      <4>1. i \notin 1 .. n
        BY <1>3, <3>2
      <4>2. kind \in Answers /\ wire'[i].seq = i - n
        BY <1>3, <1>4, <4>1
      <4>3. OwesNot(q)'
        BY <1>5, <3>5, <4>2 DEF Answers
      <4>4. \A j \in 1 .. Len(wire') : j > i => j = n + 2 /\ i = n + 1 /\ wire'[j].seq = 2
        BY <1>3, <1>8, <4>1
      <4>5. ASSUME NEW j \in 1 .. Len(wire'), j > i
            PROVE  j = i + 1 /\ wire'[i].seq = 1 /\ wire'[j].seq = 2
        <5>1. j = n + 2 /\ i = n + 1 /\ wire'[j].seq = 2
          BY <4>4, <4>5
        <5>2. n \in Nat /\ wire'[i].seq = i - n
          BY <1>3, <4>2
        <5>3. i - n = 1 /\ j = i + 1
          BY <5>1, <5>2
        <5>4. QED BY <5>1, <5>2, <5>3
      <4>6. QED BY <4>3, <4>5
    <3>7. HeardLast(q)'
      BY <2>1, <3>3 DEF HeardLast
    <3>8. Done1(q)'
      <4>1. executed'[q] \in {0, 1} /\ (executed'[q] = 1 => kind = "CBOR")
        BY <3>4
      <4>2. ASSUME kind = "CBOR", NEW i \in 1 .. Len(wire'), wire'[i].of = q
            PROVE  wire'[i].head.kind # "INVALID_COMMAND"
        <5>1. CASE i \in 1 .. n
          BY <1>3, <3>2, <4>2, <5>1 DEF Answers
        <5>2. CASE i \notin 1 .. n
          BY <1>3, <1>4, <4>2, <5>2
        <5>3. QED BY <5>1, <5>2
      <4>3. kind = "CBOR" => OwesNot(q)'
        BY <1>5, <3>5
      <4>4. \A i \in 1 .. Len(ready'[Owner[q]]) :
              ready'[Owner[q]][i].of = q => ready'[Owner[q]][i].kind # "INVALID_COMMAND"
        BY <2>1, <3>3 DEF Answers
      <4>5. QED BY <4>1, <4>2, <4>3, <4>4 DEF Done1
    <3>9. NotSent(q)'
      BY <2>1, <3>4 DEF NotSent
    <3>10. QED BY <2>2, <3>6, <3>7, <3>8, <3>9 DEF Stream
  <2>5. QED BY <2>3, <2>4
<1>15. Mine'
  <2> SUFFICES ASSUME NEW q \in Request, at[q] = "done", Clean(Owner[q]) PROVE Gone(q)' /\ HeardNot(q)'
    BY <1>7, StillHolds DEF Mine, Still
  <2>1. Gone(q) /\ HeardNot(q)
    BY DEF CInv, Mine
  <2>2. q # o.of \/ o.kind = "INIT"
    BY <1>13, <2>1
  <2>3. QED BY <1>12, <2>1, <2>2, StillHolds DEF Gone
<1>16. BridgeOwn'
  <2> SUFFICES ASSUME NEW q \in Request, Owner[q] \in bridges, NoForeign(Owner[q]),
                      at[q] \notin {"await", "callback"}
               PROVE  OffChannel(q)'
    BY <1>7, StillHolds DEF BridgeOwn, Still
  <2> DEFINE d == Owner[q]
  <2>1. OffChannel(q)
    BY DEF CInv, BridgeOwn
  <2>2. HeardNot(q)' /\ chan'[d] = chan[d] /\ cid'[d] = cid[d]
    BY <2>1, StillHolds DEF OffChannel, Still
  <2>3. \A i \in 1 .. Len(owed') :
          owed'[i].of = q /\ owed'[i].kind # "INIT" => owed'[i].on \notin {chan[d], cid[d]}
    <3> SUFFICES ASSUME NEW i \in 1 .. Len(owed'), owed'[i].of = q, owed'[i].kind # "INIT"
                 PROVE  owed'[i].on \notin {chan[d], cid[d]}
      OBVIOUS
    <3>1. i + k \in 1 .. Len(owed) /\ owed'[i] = owed[i + k]
      BY <1>5
    <3>2. QED BY <2>1, <3>1 DEF OffChannel
  <2>4. \A i \in 1 .. Len(wire') : wire'[i].of = q /\ wire'[i].chan # 0 =>
            wire'[i].chan \notin {chan[d], cid[d]}
    <3> SUFFICES ASSUME NEW i \in 1 .. Len(wire'), wire'[i].of = q, wire'[i].chan # 0
                 PROVE  wire'[i].chan \notin {chan[d], cid[d]}
      OBVIOUS
    <3>1. CASE i \in 1 .. n
      BY <1>3, <2>1, <3>1 DEF OffChannel, n
    <3>2. CASE i \notin 1 .. n
      BY <1>1, <1>3, <1>6, <2>1, <3>2 DEF OffChannel
    <3>3. QED BY <3>1, <3>2
  <2>5. QED BY <2>2, <2>3, <2>4 DEF OffChannel
<1>17. Fresh'
  <2>1. nextCid \in Nat /\ nextCid # 0 /\ nextCid <= nextCid'
    BY Numbers DEF CInv, CTyped, HidTypeOK
  <2>2. ASSUME NEW j, Newer(j), j \in Nat
        PROVE  Newer(j)'
    <3>1. j < nextCid'
      BY <2>1, <2>2 DEF Newer
    <3>2. ASSUME NEW i \in 1 .. Len(wire'), wire'[i].chan = 0
          PROVE  j < wire'[i].head.cid
      <4>1. CASE i \in 1 .. n
        BY <1>3, <2>2, <3>2, <4>1 DEF Newer, n
      <4>2. CASE i \notin 1 .. n
        <5>1. wire'[i].head.cid = nextCid
          BY <1>3, <1>4, <1>6, <3>2, <4>2
        <5>2. QED BY <2>2, <5>1 DEF Newer
      <4>3. QED BY <4>1, <4>2
    <3>3. QED BY <3>1, <3>2 DEF Newer
  <2>3. \A j : \A d \in Client : Below(j, d) => Below(j, d)'
    BY DEF Below, Still
  <2>4. ASSUME NEW i \in 1 .. Len(wire'), wire'[i].chan = 0
        PROVE  /\ wire'[i].head.cid < nextCid' /\ wire'[i].head.cid # 0
               /\ i \notin 1 .. n => wire'[i].head.cid = nextCid /\ kind = "INIT"
    <3>1. CASE i \in 1 .. n
      <4>1. wire'[i] = wire[i] /\ wire[i].head.cid < nextCid /\ wire[i].head.cid # 0
        BY <1>3, <2>4, <3>1 DEF CInv, Fresh, n
      <4>2. wire[i].head.cid \in Nat
        <5>1. wire[i] \in Packet
          BY <3>1, Things DEF CInv, n
        <5>2. QED BY <5>1, Numbers DEF Packet, Heading, Channels
      <4>3. QED BY <2>1, <3>1, <4>1, <4>2
    <3>2. CASE i \notin 1 .. n
      <4>1. wire'[i].head.cid = nextCid /\ kind = "INIT"
        BY <1>3, <1>4, <1>6, <2>4, <3>2
      <4>2. QED BY <2>1, <4>1
    <3>3. QED BY <3>1, <3>2
  <2>5. ASSUME NEW i \in 1 .. Len(wire'), NEW j \in 1 .. Len(wire'),
               i < j, wire'[i].chan = 0, wire'[j].chan = 0
        PROVE  wire'[i].head.cid < wire'[j].head.cid
    <3>1. CASE j \in 1 .. n
      <4>1. i \in 1 .. n
        BY <2>5, <3>1, <1>3
      <4>2. QED BY <1>3, <2>5, <3>1, <4>1 DEF CInv, Fresh, n
    <3>2. CASE j \notin 1 .. n
      <4>1. wire'[j].head.cid = nextCid /\ kind = "INIT"
        BY <2>4, <2>5, <3>2
      <4>2. i \in 1 .. n
        BY <1>3, <1>8, <2>5, <3>2, <4>1
      <4>3. wire'[i] = wire[i] /\ wire[i].head.cid < nextCid
        BY <1>3, <2>5, <4>2 DEF CInv, Fresh, n
      <4>4. QED BY <4>1, <4>3
    <3>3. QED BY <3>1, <3>2
  <2>6. \A d \in Client : cid[d] \in Nat /\ chan[d] \in Nat
    BY Numbers DEF CInv, CTyped, HidTypeOK
  <2>7. ASSUME NEW d \in Client
        PROVE  /\ Newer(cid[d])' /\ (chan'[d] # Closed => Newer(chan[d])')
               /\ chan'[d] = 0 => \A j \in 1 .. Len(ready'[d]) :
                   Newer(ready[d][j].cid)' /\ ready'[d][j].cid # 0
    <3>1. chan' = chan /\ ready' = ready /\ cid' = cid
      BY DEF Still
    <3>2. Newer(cid[d]) /\ (chan[d] # Closed => Newer(chan[d]))
      BY DEF CInv, Fresh
    <3>3. Newer(cid[d])' /\ (chan'[d] # Closed => Newer(chan[d])')
      BY <2>2, <2>6, <3>1, <3>2 DEF Newer
    <3>4. ASSUME chan[d] = 0, NEW j \in 1 .. Len(ready[d])
          PROVE  Newer(ready[d][j].cid)' /\ ready'[d][j].cid # 0
      <4>1. ready[d][j].cid \in Nat
        <5>1. ready[d][j] \in Heard
          BY <3>4, Things DEF CInv
        <5>2. QED BY <5>1, Numbers DEF Heard, Channels
      <4>2. Newer(ready[d][j].cid) /\ ready[d][j].cid # 0
        BY <3>4 DEF CInv, Fresh
      <4>3. QED BY <2>2, <3>1, <4>1, <4>2 DEF Newer
    <3>5. QED BY <3>1, <3>3, <3>4
  <2>8. \A i \in 1 .. Len(owed) : owed[i].on \in Nat /\ owed[i].of \in Request
    <3>1. \A i \in 1 .. Len(owed) : owed[i] \in Owing
      BY Things DEF CInv
    <3>2. QED BY <3>1, Numbers DEF Owing, Channels
  <2>9. ASSUME NEW i \in 1 .. Len(owed), owed[i].kind # "INIT", NEW a, a = owed[i].on,
               NEW d, d = Owner[owed[i].of]
        PROVE  Newer(a)' /\ Below(a, d)'
    <3>1. Newer(a) /\ Below(a, d)
      BY <2>9 DEF CInv, Fresh
    <3>2. a \in Nat /\ d \in Client
      BY <1>7, <2>8, <2>9
    <3>3. QED BY <2>2, <2>3, <3>1, <3>2
  <2>10. \A i \in 1 .. Len(owed') :
          owed'[i].kind # "INIT" => Newer(owed[i].on)' /\ Below(owed[i].on, Owner[owed[i].of])'
    <3> SUFFICES ASSUME NEW i \in 1 .. Len(owed'), owed'[i].kind # "INIT", NEW a, a = owed'[i].on,
                        NEW d, d = Owner[owed'[i].of]
                 PROVE  Newer(a)' /\ Below(a, d)'
      BY DEF Newer, Below
    <3>1. i + k \in 1 .. Len(owed) /\ owed'[i] = owed[i + k]
      BY <1>5
    <3>2. QED BY <2>9, <3>1
  <2>11. ASSUME NEW i \in 1 .. Len(wire'), wire'[i].chan # 0, NEW a, a = wire'[i].chan,
                NEW d, d = Owner[wire'[i].of]
         PROVE  Newer(a)' /\ Below(a, d)'
    <3>1. CASE i \in 1 .. n
      <4>1. wire'[i] = wire[i] /\ wire[i] \in Packet
        BY <1>3, <3>1, Things DEF CInv, n
      <4>2. Newer(a) /\ Below(a, d)
        BY <2>11, <3>1, <4>1 DEF CInv, Fresh, n
      <4>3. a \in Nat /\ d \in Client
        BY <1>7, <2>11, <4>1, Numbers DEF Packet, Channels
      <4>4. QED BY <2>2, <2>3, <4>2, <4>3
    <3>2. CASE i \notin 1 .. n
      <4>1. a = owed[1].on /\ d = Owner[owed[1].of] /\ owed[1].kind # "INIT"
        BY <1>1, <1>3, <1>6, <2>11, <3>2
      <4>2. QED BY <1>1, <2>9, <4>1
    <3>3. QED BY <3>1, <3>2
  <2>12. \A i \in 1 .. Len(wire') :
          wire'[i].chan # 0 => Newer(wire[i].chan)' /\ Below(wire[i].chan, Owner[wire[i].of])'
    <3>1. \A i \in 1 .. Len(wire') : \A a, d :
            wire'[i].chan # 0 /\ a = wire'[i].chan /\ d = Owner[wire'[i].of] => Newer(a)' /\ Below(a, d)'
      BY <2>11
    <3>2. QED BY <3>1, WireNewer
  <2>13. /\ \A i \in 1 .. Len(wire') :
              wire'[i].chan = 0 => wire'[i].head.cid < nextCid' /\ wire'[i].head.cid # 0
         /\ \A i, j \in 1 .. Len(wire') :
              i < j /\ wire'[i].chan = 0 /\ wire'[j].chan = 0 => wire'[i].head.cid < wire'[j].head.cid
    <3>1. \A i \in 1 .. Len(wire') :
            wire'[i].chan = 0 => wire'[i].head.cid < nextCid' /\ wire'[i].head.cid # 0
      BY <2>4
    <3>2. \A i, j \in 1 .. Len(wire') :
            i < j /\ wire'[i].chan = 0 /\ wire'[j].chan = 0 => wire'[i].head.cid < wire'[j].head.cid
      BY <2>5
    <3>3. QED BY <3>1, <3>2
  <2>14. \A d \in Client :
           /\ Newer(cid[d])' /\ (chan'[d] # Closed => Newer(chan[d])')
           /\ chan'[d] = 0 => \A j \in 1 .. Len(ready'[d]) : Newer(ready[d][j].cid)' /\ ready'[d][j].cid # 0
    BY <2>7
  <2>15. QED BY <2>10, <2>12, <2>13, <2>14 DEF Fresh
<1>18. Silence'
  <2>1. ~(wire = <<>> /\ wire' # <<>> /\ wire'[1].seq = 2)
    <3> SUFFICES ASSUME wire = <<>> PROVE wire'[1].seq = 1
      OBVIOUS
    <3>1. n = 0
      BY EmptySeq DEF n
    <3>2. 1 \in 1 .. Len(wire') /\ 1 \notin 1 .. n
      BY <1>3, <3>1
    <3>3. QED BY <1>3, <3>1, <3>2
  <2>2. wire # <<>> => wire'[1] = wire[1]
    <3>1. wire # <<>> => 1 \in 1 .. n
      BY WireFirst DEF CInv, n
    <3>2. QED BY <1>3, <3>1
  <2>3. QED BY <2>1, <2>2 DEF CInv, Silence, Still
<1>19. QED BY <1>9, <1>10, <1>11, <1>14, <1>15, <1>16, <1>17, <1>18 DEF CInv

(* What it answers is owed no more, so there is room for another channel,  *)
(* and it does nothing more often than it was sent.                        *)
LEMMA Counted ==
  ASSUME CInv, owed # <<>>, owed' = Tail(owed), Still,
         nextCid' = IF owed[1].kind = "INIT" THEN nextCid + 1 ELSE nextCid,
         \A q \in Request :
           \/ executed'[q] = executed[q]
           \/ owed[1].kind = "run" /\ owed[1].of = q /\ executed'[q] = executed[q] + 1
  PROVE  /\ Counts' /\ nextCid' \in 1 .. Closed
         /\ \A q \in Request : executed'[q] \in 0 .. 2
<1>1. owed[1] \in Owing
  BY OwedShrinks DEF CInv
<1>2. nextCid \in Nat /\ nextCid >= 1 /\ executed \in [Request -> 0 .. 2] /\ Closed \in Nat
  BY Numbers DEF CInv, CTyped, HidTypeOK
<1>3. /\ nextCid' + Cardinality(Where(owed, Inits))' <= Cardinality({r \in Request : at'[r] # "new"}) + 1
      /\ nextCid' <= Closed
  <2> DEFINE Old == Cardinality({r \in Request : at[r] # "new"})
             New == Cardinality({r \in Request : at'[r] # "new"})
             many == Cardinality(Where(owed, Inits))
             fewer == Cardinality(Where(owed', Inits))
  <2>1. New = Old
    BY DEF Still
  <2>2. Old \in Nat /\ Old <= Cardinality(Request)
    BY ClientAssumption, FS_Subset, FS_CardinalityType
  <2>3. nextCid + many <= Old + 1
    BY DEF CInv, Counts
  <2>4. fewer \in Nat /\ many \in Nat /\ many = fewer + (IF owed[1] \in Inits THEN 1 ELSE 0)
    BY OwedLess DEF CInv, Where, Inits
  <2>5. owed[1] \in Inits <=> owed[1].kind = "INIT"
    BY <1>1 DEF Inits
  <2>6. Closed = Cardinality(Request) + 1 /\ Cardinality(Request) \in Nat
    BY ClientAssumption, FS_CardinalityType DEF Closed
  <2> HIDE DEF Old, New, many, fewer
  <2>7. nextCid' + fewer <= New + 1
    BY <1>2, <2>1, <2>2, <2>3, <2>4, <2>5
  <2>8. nextCid' <= Closed
    <3>1. nextCid' + fewer <= Cardinality(Request) + 1
      BY <1>2, <2>1, <2>2, <2>4, <2>6, <2>7
    <3>2. nextCid' \in Nat
      BY <1>2
    <3>3. QED BY <2>4, <2>6, <3>1, <3>2
  <2>9. QED BY <2>7, <2>8 DEF New, fewer, Where, Inits
<1>4. ASSUME NEW q \in Request
      PROVE  /\ executed'[q] + Cardinality(Where(owed, Runs(q)))' <= Sendings(q)'
             /\ executed'[q] \in 0 .. 2
  <2> DEFINE many == Cardinality(Where(owed, Runs(q)))
             fewer == Cardinality(Where(owed', Runs(q)))
  <2>1. fewer \in Nat /\ many \in Nat /\ many = fewer + (IF owed[1] \in Runs(q) THEN 1 ELSE 0)
    BY OwedLess DEF CInv, Where, Runs
  <2>2. owed[1] \in Runs(q) <=> owed[1].kind = "run" /\ owed[1].of = q
    BY <1>1 DEF Runs
  <2>3. Sendings(q)' = Sendings(q) /\ Sendings(q) \in 0 .. 2
    BY StillHolds DEF Sendings
  <2>4. executed[q] + many <= Sendings(q) /\ executed[q] \in Nat
    BY <1>2 DEF CInv, Counts
  <2> HIDE DEF many, fewer
  <2>5. executed'[q] = executed[q] \/ (many = fewer + 1 /\ executed'[q] = executed[q] + 1)
    BY <2>1, <2>2
  <2>6. executed'[q] \in Nat /\ executed'[q] + fewer <= Sendings(q)
    <3>1. fewer \in Nat /\ many \in Nat /\ (many = fewer \/ many = fewer + 1) /\ Sendings(q) \in Nat
      BY <2>1, <2>3
    <3>2. CASE executed'[q] = executed[q]
      BY <2>4, <3>1, <3>2
    <3>3. CASE many = fewer + 1 /\ executed'[q] = executed[q] + 1
      <4> DEFINE was == executed[q]
                 is == executed'[q]
                 sent == Sendings(q)
      <4>1. /\ was + many <= sent /\ was \in Nat /\ is = was + 1 /\ many = fewer + 1
            /\ fewer \in Nat /\ sent \in Nat
        BY <2>4, <3>1, <3>3
      <4> HIDE DEF was, is, sent
      <4>2. is \in Nat /\ is + fewer <= sent
        BY <4>1
      <4>3. QED BY <4>2 DEF is, sent
    <3>4. QED BY <2>5, <3>2, <3>3
  <2>7. executed'[q] \in 0 .. 2
    BY <2>1, <2>3, <2>6
  <2>8. executed'[q] + fewer <= Sendings(q)'
    BY <2>3, <2>6
  <2>9. QED BY <2>7, <2>8 DEF fewer, Where, Runs
<1>5. nextCid' \in 1 .. Closed
  BY <1>2, <1>3
<1>6. QED BY <1>3, <1>4, <1>5 DEF Counts

(* The key waits for a press, and says so.                                 *)
LEMMA KeepAliveHolds ==
  ASSUME CInv, KeyKeepAlive, bridges' = bridges
  PROVE  CInv'
<1> DEFINE o == Head(owed)
<1>1. /\ owed # <<>> /\ owed' = owed /\ nextCid' = nextCid /\ executed' = executed /\ Still
      /\ o.kind = "run" /\ kept' = kept \cup {o.of}
      /\ wire' = wire \o Message(o.on, "KEEPALIVE", o.of, 0)
  BY DEF KeyKeepAlive, cvars, rvars, Still
<1>2. o \in Owing
  <2>1. owed \in Seq(Owing)
    BY DEF CInv, CTyped
  <2>2. QED BY <1>1, <2>1, HeadTailProperties
<1>3. /\ kept' \subseteq Request /\ executed' \in [Request -> 0 .. 2] /\ nextCid' \in 1 .. Closed
      /\ 0 \in Channels /\ "KEEPALIVE" \in Kinds
  BY <1>1, <1>2, Numbers DEF CInv, CTyped, HidTypeOK, Owing, Channels, Kinds
<1>4. Counts'
  BY <1>1 DEF CInv, Counts, Still, Where, Sendings, Runs, Inits
<1> HIDE DEF o
<1>5. o = Head(owed) /\ \A q \in Request : executed'[q] = executed[q]
  BY <1>1 DEF o
<1>6. QED BY <1>1, <1>3, <1>4, <1>5, SaysHolds

(* The key answers, and has done what was asked or has not.                *)
LEMMA KeyAnswersHolds ==
  ASSUME CInv, KeyAnswers, bridges' = bridges
  PROVE  CInv'
<1> DEFINE o == Head(owed)
           says(kind, new) == wire' = wire \o Message(o.on, kind, o.of, new)
<1>1. owed # <<>> /\ owed' = Tail(owed) /\ kept' = kept /\ Still
  BY DEF KeyAnswers, cvars, rvars, Still
<1>2. o = owed[1] /\ o \in Owing
  BY <1>1, OwedShrinks DEF CInv
<1>3. \/ /\ o.kind = "INIT" /\ says("INIT", nextCid)
         /\ nextCid' = nextCid + 1 /\ executed' = executed
      \/ /\ o.kind = "run" /\ says("CBOR", 0)
         /\ executed' = [executed EXCEPT ![o.of] = @ + 1] /\ nextCid' = nextCid
      \/ o.kind = "run" /\ says("ERROR", 0) /\ nextCid' = nextCid /\ executed' = executed
      \/ o.kind = "cut" /\ says("INVALID_COMMAND", 0) /\ nextCid' = nextCid /\ executed' = executed
  BY DEF KeyAnswers
<1>4. /\ executed \in [Request -> 0 .. 2] /\ nextCid \in 1 .. Closed /\ Closed \in Nat
      /\ o.of \in Request /\ kept' \subseteq Request /\ 0 \in Channels
  BY <1>1, <1>2, Numbers DEF CInv, CTyped, HidTypeOK, Owing, Channels
<1> HIDE DEF o
<1>5. PICK kind \in Kinds, new \in {0, nextCid} :
        /\ says(kind, new) /\ kind \in {"INIT", "CBOR", "ERROR", "INVALID_COMMAND"}
        /\ kind = "INIT" <=> o.kind = "INIT"
        /\ kind = "INIT" => new = nextCid
        /\ kind # "INIT" => new = 0
        /\ nextCid' = IF kind = "INIT" THEN nextCid + 1 ELSE nextCid
        /\ kind = "CBOR" => o.kind = "run"
        /\ executed' = IF kind = "CBOR" THEN [executed EXCEPT ![o.of] = @ + 1] ELSE executed
  <2>1. CASE o.kind = "INIT"
    BY <1>3, <2>1 DEF Kinds
  <2>2. CASE o.kind = "run"
    BY <1>3, <2>2 DEF Kinds
  <2>3. CASE o.kind = "cut"
    BY <1>3, <2>3 DEF Kinds
  <2>4. QED BY <1>3, <2>1, <2>2, <2>3
<1>6. \A q \in Request :
        executed'[q] = IF kind = "CBOR" /\ q = o.of THEN executed[q] + 1 ELSE executed[q]
  BY <1>4, <1>5
<1>7. \A q \in Request :
        \/ executed'[q] = executed[q]
        \/ owed[1].kind = "run" /\ owed[1].of = q /\ executed'[q] = executed[q] + 1
  BY <1>2, <1>5, <1>6
<1>8. nextCid' = IF owed[1].kind = "INIT" THEN nextCid + 1 ELSE nextCid
  BY <1>2, <1>5
<1>9. Counts' /\ nextCid' \in 1 .. Closed /\ \A q \in Request : executed'[q] \in 0 .. 2
  BY <1>1, <1>7, <1>8, Counted
<1>10. new \in Channels
  BY <1>4, <1>5, <1>9 DEF Channels
<1>11. executed' \in [Request -> 0 .. 2]
  <2>1. executed' = [q \in Request |-> executed'[q]]
    <3>1. CASE kind = "CBOR"
      BY <1>4, <1>5, <3>1
    <3>2. CASE kind # "CBOR"
      BY <1>4, <1>5, <3>2
    <3>3. QED BY <3>1, <3>2
  <2>2. QED BY <1>9, <2>1
<1>12. wire' = wire \o Message(o.on, kind, o.of, new) /\ o = Head(owed)
  BY <1>5 DEF o
<1> HIDE DEF says
<1>13. QED BY <1>1, <1>4, <1>5, <1>6, <1>9, <1>10, <1>11, <1>12, SaysHolds

-----------------------------------------------------------------------------
(* What a client hears.                                                    *)

Hears1(c) == IF wire[1].seq = 1 THEN chan[c] = wire[1].chan /\ wire[1].head.packets = 1 ELSE asm[c] # <<>>
Whole(p) == [kind |-> p.head.kind, of |-> p.of, cid |-> p.head.cid, packets |-> {p.of}]

(* A packet that is a message, or the second of one whose first it has,    *)
(* is heard; the first of two is held.                                     *)
LEMMA DeliverEffect ==
  ASSUME CTyped, Packets, Deliver
  PROVE  /\ wire[1] \in Packet /\ Whole(wire[1]) \in Heard
         /\ \A c \in Client :
              /\ asm'[c] = IF chan[c] = wire[1].chan /\ wire[1].seq = 1 /\ wire[1].head.packets = 2
                           THEN <<wire[1]>> ELSE <<>>
              /\ ready'[c] = IF Hears1(c) THEN Append(ready[c], Whole(wire[1])) ELSE ready[c]
              /\ Hears1(c) => chan[c] = wire[1].chan
         /\ asm' \in [Client -> Seq(Packet)] /\ ready' \in [Client -> Seq(Heard)]
<1> DEFINE p == wire[1]
           pushed(c) == Push(asm[c], p)
           whole == {c \in Hearers(p) : IsWhole(pushed(c))}
           heard(c) == [pushed(c)[1].head EXCEPT !.packets = {q.of : q \in ToSet(pushed(c))}]
<1>1. wire # <<>> /\ Head(wire) = wire[1] /\ wire[1] \in Packet /\ 1 \in 1 .. Len(wire)
  <2>1. wire # <<>> /\ wire \in Seq(Packet)
    BY DEF Deliver, CTyped
  <2>2. QED BY <2>1, HeadTailProperties, LenProperties, EmptySeq
<1>2. /\ asm' = [c \in Client |-> IF c \in whole THEN <<>>
                                 ELSE IF c \in Hearers(p) THEN pushed(c) ELSE asm[c]]
      /\ ready' = [c \in Client |-> IF c \in whole THEN Append(ready[c], heard(c)) ELSE ready[c]]
  BY <1>1 DEF Deliver
<1>3. /\ p.seq \in {1, 2} /\ p.of \in Request /\ p.head \in Heading /\ p.head.packets \in {1, 2}
      /\ p.head.of = p.of
  BY <1>1 DEF Packet, Heading, Packets
<1>4. \A c \in Client :
        asm[c] # <<>> =>
          /\ p.seq = 2 /\ p.chan = chan[c] /\ p.head.packets = 2
          /\ Len(asm[c]) = 1 /\ asm[c][1].of = p.of /\ asm[c][1].head = p.head
  BY <1>1 DEF Packets
<1>5. \A c \in Client : asm[c] \in Seq(Packet) /\ ready[c] \in Seq(Heard)
  BY DEF CTyped
<1>6. Whole(p) \in Heard /\ <<p>> \in Seq(Packet) /\ <<>> \in Seq(Packet)
  BY <1>1, <1>3, EmptySeq DEF Whole, Heard, Heading
<1>7. [p.head EXCEPT !.packets = {p.of}] = Whole(p)
  BY <1>3 DEF Whole, Heading
<1>8. ASSUME NEW c \in Client
      PROVE  /\ asm'[c] = IF chan[c] = p.chan /\ p.seq = 1 /\ p.head.packets = 2 THEN <<p>> ELSE <<>>
             /\ ready'[c] = IF Hears1(c) THEN Append(ready[c], Whole(p)) ELSE ready[c]
             /\ Hears1(c) => chan[c] = p.chan
  <2>1. c \in Hearers(p) <=> chan[c] = p.chan
    BY DEF Hearers
  <2>2. CASE p.seq = 1
    <3>1. asm[c] = <<>> /\ pushed(c) = <<p>>
      BY <1>4, <2>2 DEF Push
    <3>2. /\ pushed(c) # <<>> /\ Len(pushed(c)) = 1 /\ pushed(c)[1] = p /\ ToSet(pushed(c)) = {p}
      BY <3>1 DEF ToSet
    <3>3. IsWhole(pushed(c)) <=> p.head.packets = 1
      BY <1>3, <3>2 DEF IsWhole
    <3>4. heard(c) = Whole(p)
      <4>1. {q.of : q \in ToSet(pushed(c))} = {p.of}
        BY <3>2
      <4>2. QED BY <1>7, <3>2, <4>1
    <3>5. Hears1(c) <=> c \in whole
      BY <2>1, <2>2, <3>3 DEF Hears1
    <3> HIDE DEF heard, pushed, whole
    <3>6. ready'[c] = IF Hears1(c) THEN Append(ready[c], Whole(p)) ELSE ready[c]
      BY <1>2, <3>4, <3>5
    <3>7. asm'[c] = IF c \in whole THEN <<>> ELSE IF c \in Hearers(p) THEN <<p>> ELSE <<>>
      BY <1>2, <3>1
    <3>8. c \in whole <=> c \in Hearers(p) /\ p.head.packets = 1
      BY <2>2, <3>5, <2>1 DEF Hears1
    <3>9. asm'[c] = IF chan[c] = p.chan /\ p.seq = 1 /\ p.head.packets = 2 THEN <<p>> ELSE <<>>
      BY <1>3, <2>1, <2>2, <3>7, <3>8
    <3>10. Hears1(c) => chan[c] = p.chan
      BY <2>2 DEF Hears1
    <3>11. QED BY <3>6, <3>9, <3>10
  <2>3. CASE p.seq = 2 /\ asm[c] = <<>>
    <3>1. pushed(c) = <<>>
      BY <2>3 DEF Push
    <3>2. c \notin whole /\ ~Hears1(c)
      BY <2>3, <3>1 DEF IsWhole, Hears1
    <3> HIDE DEF heard, pushed, whole
    <3>3. ready'[c] = ready[c]
      BY <1>2, <3>2
    <3>4. asm'[c] = <<>>
      BY <1>2, <2>3, <3>1, <3>2
    <3>5. asm'[c] = IF chan[c] = p.chan /\ p.seq = 1 /\ p.head.packets = 2 THEN <<p>> ELSE <<>>
      BY <2>3, <3>4
    <3>6. ready'[c] = IF Hears1(c) THEN Append(ready[c], Whole(p)) ELSE ready[c]
      BY <3>2, <3>3
    <3>7. QED BY <3>2, <3>5, <3>6, Zenon
  <2>4. CASE p.seq = 2 /\ asm[c] # <<>>
    <3>1. pushed(c) = Append(asm[c], p)
      <4>1. asm[c] # <<>> /\ p.seq = 2 /\ Len(asm[c]) = 1
        BY <1>4, <2>4, Zenon
      <4>2. p.seq # 1 /\ p.seq = Len(asm[c]) + 1
        BY <4>1
      <4>3. QED BY <4>1, <4>2, Zenon DEF Push
    <3>2. /\ Len(pushed(c)) = 2 /\ pushed(c)[1] = asm[c][1] /\ pushed(c)[2] = p /\ pushed(c) # <<>>
      BY <1>1, <1>4, <1>5, <2>4, <3>1, AppendProperties, LenProperties
    <3>3. c \in whole /\ Hears1(c) /\ chan[c] = p.chan
      BY <1>4, <2>1, <2>4, <3>2 DEF IsWhole, Hears1
    <3>4. heard(c) = Whole(p)
      <4>1. ToSet(pushed(c)) = {asm[c][1], p}
        BY <3>2 DEF ToSet
      <4>2. {q.of : q \in ToSet(pushed(c))} = {p.of}
        BY <1>4, <2>4, <4>1
      <4>3. pushed(c)[1].head = p.head
        BY <1>4, <2>4, <3>2
      <4>4. QED BY <1>7, <4>2, <4>3
    <3> HIDE DEF heard, pushed, whole
    <3>5. QED BY <1>2, <2>4, <3>3, <3>4
  <2>5. QED BY <1>3, <2>2, <2>3, <2>4
<1>9. asm' \in [Client -> Seq(Packet)]
  <2>1. \A c \in Client : asm'[c] \in Seq(Packet)
    BY <1>6, <1>8
  <2>2. asm' = [c \in Client |-> asm'[c]]
    BY <1>2
  <2>3. QED BY <2>1, <2>2
<1>10. ready' \in [Client -> Seq(Heard)]
  <2>1. \A c \in Client : Append(ready[c], Whole(p)) \in Seq(Heard)
    BY <1>5, <1>6, AppendProperties
  <2>2. \A c \in Client : ready'[c] \in Seq(Heard)
    BY <1>5, <1>8, <2>1
  <2>3. ready' = [c \in Client |-> ready'[c]]
    BY <1>2
  <2>4. QED BY <2>2, <2>3
<1>11. QED BY <1>1, <1>6, <1>8, <1>9, <1>10

(* The next packet arrives.                                                *)
LEMMA DeliverHolds ==
  ASSUME CInv, Deliver, bridges' = bridges
  PROVE  CInv'
<1> DEFINE p == wire[1]
           m == Whole(wire[1])
           heard(c) == Hears1(c)
<1>1. /\ left' = left /\ cid' = cid /\ chan' = chan /\ at' = at /\ resent' = resent /\ outcome' = outcome
      /\ owed' = owed /\ kept' = kept /\ nextCid' = nextCid /\ executed' = executed
      /\ wire # <<>> /\ wire' = Tail(wire)
      /\ answered' = answered \cup
           {r \in Request : at[r] \in {"write", "await", "callback"} /\ Head(wire).of = r
                             /\ Head(wire).chan = chan[Owner[r]] /\ Head(wire).seq = 2}
  BY DEF Deliver, rvars, kvars
<1>2. /\ wire' \in Seq(Packet) /\ Len(wire') = Len(wire) - 1 /\ Len(wire) \in Nat \ {0}
      /\ \A i \in 1 .. Len(wire') : i + 1 \in 1 .. Len(wire) /\ wire'[i] = wire[i + 1]
      /\ Head(wire) = p /\ 1 \in 1 .. Len(wire) /\ p \in Packet
  BY <1>1, WireShrinks DEF CInv
<1>3. /\ m \in Heard
      /\ \A c \in Client :
           /\ asm'[c] = IF chan[c] = p.chan /\ p.seq = 1 /\ p.head.packets = 2 THEN <<p>> ELSE <<>>
           /\ ready'[c] = IF heard(c) THEN Append(ready[c], m) ELSE ready[c]
           /\ heard(c) => chan[c] = p.chan
      /\ asm' \in [Client -> Seq(Packet)] /\ ready' \in [Client -> Seq(Heard)]
  BY DeliverEffect DEF CInv
<1>4. m.kind = p.head.kind /\ m.of = p.of /\ m.cid = p.head.cid /\ m.packets = {p.of}
  BY DEF Whole
<1>5. \A q \in Request : Owner[q] \in Client
  BY ClientAssumption
<1>6. ASSUME NEW c \in Client, NEW i \in 1 .. Len(ready'[c])
      PROVE  \/ i \in 1 .. Len(ready[c]) /\ ready'[c][i] = ready[c][i]
             \/ heard(c) /\ i = Len(ready[c]) + 1 /\ ready'[c][i] = m /\ chan[c] = p.chan
  <2>1. ready[c] \in Seq(Heard) /\ Len(ready[c]) \in Nat
    BY LenProperties DEF CInv, CTyped
  <2>2. CASE heard(c)
    <3>1. ready'[c] = Append(ready[c], m) /\ chan[c] = p.chan
      BY <1>3, <2>2
    <3> HIDE DEF m
    <3>2. /\ Len(Append(ready[c], m)) = Len(ready[c]) + 1
          /\ \A j \in 1 .. Len(ready[c]) : Append(ready[c], m)[j] = ready[c][j]
          /\ Append(ready[c], m)[Len(ready[c]) + 1] = m
      BY <1>3, <2>1, AppendProperties
    <3>3. QED BY <1>6, <2>1, <2>2, <3>1, <3>2
  <2>3. CASE ~heard(c)
    BY <1>3, <1>6, <2>3
  <2>4. QED BY <2>2, <2>3
<1>7. ASSUME NEW c \in Client
      PROVE  /\ Len(ready[c]) \in Nat /\ Len(ready[c]) <= Len(ready'[c])
             /\ \A i \in 1 .. Len(ready[c]) : i \in 1 .. Len(ready'[c]) /\ ready'[c][i] = ready[c][i]
             /\ heard(c) => Len(ready[c]) + 1 \in 1 .. Len(ready'[c]) /\ ready'[c][Len(ready[c]) + 1] = m
  <2>1. ready[c] \in Seq(Heard) /\ Len(ready[c]) \in Nat
    BY LenProperties DEF CInv, CTyped
  <2>2. CASE heard(c)
    <3>1. ready'[c] = Append(ready[c], m)
      BY <1>3, <2>2
    <3> HIDE DEF m
    <3>2. /\ Len(Append(ready[c], m)) = Len(ready[c]) + 1
          /\ \A j \in 1 .. Len(ready[c]) : Append(ready[c], m)[j] = ready[c][j]
          /\ Append(ready[c], m)[Len(ready[c]) + 1] = m
      BY <1>3, <2>1, AppendProperties
    <3>3. QED BY <2>1, <3>1, <3>2
  <2>3. CASE ~heard(c)
    BY <1>3, <2>1, <2>3
  <2>4. QED BY <2>2, <2>3
<1> HIDE DEF m, p, heard
<1>8. /\ p.head.kind = "INIT" <=> p.chan = 0
      /\ p.head.of = p.of
      /\ p.head.packets = 2 <=> p.head.kind = "CBOR"
      /\ p.head.packets = 2 /\ p.seq = 1 =>
           /\ 2 \in 1 .. Len(wire) /\ wire[2].seq = 2 /\ wire[2].chan = p.chan
           /\ wire[2].of = p.of /\ wire[2].head = p.head
      /\ p.seq = 2 => p.head.packets = 2
      /\ p.chan \in Channels /\ p.seq \in {1, 2} /\ p.head.packets \in {1, 2}
  <2>1. p.chan \in Channels /\ p.seq \in {1, 2} /\ p.head.packets \in {1, 2}
    BY <1>2 DEF Packet, Heading
  <2>2. /\ p.head.kind = "INIT" <=> p.chan = 0
        /\ p.head.of = p.of
        /\ p.head.packets = 2 <=> p.head.kind = "CBOR"
        /\ p.seq = 2 => p.head.packets = 2
    BY <1>2 DEF CInv, Packets, p
  <2>3. p.head.packets = 2 /\ p.seq = 1 =>
          /\ 1 + 1 \in 1 .. Len(wire) /\ wire[1 + 1].seq = 2 /\ wire[1 + 1].chan = p.chan
          /\ wire[1 + 1].of = p.of /\ wire[1 + 1].head = p.head
    BY <1>2 DEF CInv, Packets, p
  <2>4. 1 + 1 = 2
    OBVIOUS
  <2>5. QED BY <2>1, <2>2, <2>3, <2>4
<1>9. \A c \in Client : heard(c) => (p.seq = 1 /\ p.head.packets = 1) \/ (p.seq = 2 /\ asm[c] # <<>>)
  <2>1. \A c \in Client :
          heard(c) => IF p.seq = 1 THEN chan[c] = p.chan /\ p.head.packets = 1 ELSE asm[c] # <<>>
    BY Zenon DEF heard, Hears1, p
  <2>2. QED BY <1>8, <2>1
<1>10. wire' # <<>> => 1 \in 1 .. Len(wire') /\ wire'[1] = wire[2]
  <2>1. wire' # <<>> => Len(wire') # 0
    BY <1>2, EmptySeq
  <2>2. wire' # <<>> => 1 \in 1 .. Len(wire')
    BY <1>2, <2>1
  <2>3. 1 \in 1 .. Len(wire') => wire'[1] = wire[1 + 1]
    BY <1>2
  <2>4. 1 + 1 = 2
    OBVIOUS
  <2>5. QED BY <2>2, <2>3, <2>4
<1>11. Readers' /\ Lates' /\ Counts'
  BY <1>1 DEF CInv, Readers, Lates, Counts, Clean, NoForeign, Where, Sendings, Runs, Inits
<1>12. CTyped'
  <2>1. ASSUME NEW c \in Client, chan[c] = Closed PROVE asm'[c] = <<>> /\ ready'[c] = <<>>
    <3>1. chan[c] # p.chan
      BY <1>8, <2>1, Numbers DEF Channels
    <3>2. ready[c] = <<>>
      BY <2>1 DEF CInv, CTyped, HidTypeOK
    <3>3. QED BY <1>3, <3>1, <3>2
  <2>2. answered' \subseteq Request
    BY <1>1 DEF CInv, CTyped
  <2>3. HidTypeOK'
    BY <1>1, <2>1 DEF CInv, CTyped, HidTypeOK
  <2>4. QED BY <1>1, <1>2, <1>3, <2>2, <2>3 DEF CInv, CTyped
<1>13. Packets'
  <2>1. \A i \in 1 .. Len(owed') : owed'[i].kind = "INIT" <=> owed'[i].on = 0
    BY <1>1 DEF CInv, Packets
  <2>2. ASSUME NEW i \in 1 .. Len(wire')
        PROVE  /\ wire'[i].head.kind = "INIT" <=> wire'[i].chan = 0
               /\ wire'[i].head.of = wire'[i].of
               /\ wire'[i].head.packets = 2 <=> wire'[i].head.kind = "CBOR"
               /\ wire'[i].head.packets = 2 /\ wire'[i].seq = 1 =>
                    /\ i + 1 \in 1 .. Len(wire') /\ wire'[i + 1].seq = 2 /\ wire'[i + 1].chan = wire'[i].chan
                    /\ wire'[i + 1].of = wire'[i].of /\ wire'[i + 1].head = wire'[i].head
               /\ wire'[i].seq = 2 =>
                    /\ wire'[i].head.packets = 2
                    /\ i # 1 => wire'[i - 1].seq = 1 /\ wire'[i - 1].head.packets = 2
    <3>1. i + 1 \in 1 .. Len(wire) /\ wire'[i] = wire[i + 1]
      BY <1>2
    <3>2. /\ wire[i + 1].head.kind = "INIT" <=> wire[i + 1].chan = 0
          /\ wire[i + 1].head.of = wire[i + 1].of
          /\ wire[i + 1].head.packets = 2 <=> wire[i + 1].head.kind = "CBOR"
      BY <3>1 DEF CInv, Packets
    <3>3. wire[i + 1].head.packets = 2 /\ wire[i + 1].seq = 1 =>
            /\ (i + 1) + 1 \in 1 .. Len(wire) /\ wire[(i + 1) + 1].seq = 2
            /\ wire[(i + 1) + 1].chan = wire[i + 1].chan
            /\ wire[(i + 1) + 1].of = wire[i + 1].of /\ wire[(i + 1) + 1].head = wire[i + 1].head
      BY <3>1 DEF CInv, Packets
    <3>4. wire[i + 1].seq = 2 =>
            /\ wire[i + 1].head.packets = 2
            /\ i + 1 # 1 => wire[(i + 1) - 1].seq = 1 /\ wire[(i + 1) - 1].head.packets = 2
      BY <3>1 DEF CInv, Packets
    <3>5. (i + 1) + 1 \in 1 .. Len(wire) => i + 1 \in 1 .. Len(wire') /\ wire'[i + 1] = wire[(i + 1) + 1]
      BY <1>2
    <3>6. i # 1 => wire'[i - 1] = wire[(i + 1) - 1] /\ i + 1 # 1
      <4> SUFFICES ASSUME i # 1 PROVE wire'[i - 1] = wire[(i + 1) - 1] /\ i + 1 # 1
        OBVIOUS
      <4>1. i - 1 \in 1 .. Len(wire') /\ (i - 1) + 1 = (i + 1) - 1 /\ i + 1 # 1
        BY <1>2
      <4>2. QED BY <1>2, <4>1
    <3>7. wire'[i].head.packets = 2 /\ wire'[i].seq = 1 =>
            /\ i + 1 \in 1 .. Len(wire') /\ wire'[i + 1].seq = 2 /\ wire'[i + 1].chan = wire'[i].chan
            /\ wire'[i + 1].of = wire'[i].of /\ wire'[i + 1].head = wire'[i].head
      BY <3>1, <3>3, <3>5
    <3>8. wire'[i].seq = 2 =>
            /\ wire'[i].head.packets = 2
            /\ i # 1 => wire'[i - 1].seq = 1 /\ wire'[i - 1].head.packets = 2
      BY <3>1, <3>4, <3>6
    <3>9. QED BY <3>1, <3>2, <3>7, <3>8
  <2>3. ASSUME NEW c \in Client, asm'[c] # <<>>
        PROVE  /\ wire' # <<>> /\ wire'[1].seq = 2 /\ wire'[1].chan = chan'[c]
               /\ Len(asm'[c]) = 1 /\ asm'[c][1].seq = 1
               /\ asm'[c][1].of = wire'[1].of /\ asm'[c][1].head = wire'[1].head
    <3>1. asm'[c] = <<p>> /\ chan[c] = p.chan /\ p.seq = 1 /\ p.head.packets = 2
      BY <1>3, <2>3
    <3>2. /\ 2 \in 1 .. Len(wire) /\ wire[2].seq = 2 /\ wire[2].chan = p.chan
          /\ wire[2].of = p.of /\ wire[2].head = p.head
      BY <1>8, <3>1
    <3>3. wire' # <<>>
      <4>1. Len(wire') # 0
        BY <1>2, <3>2
      <4>2. QED BY <4>1, EmptySeq
    <3>4. wire'[1] = wire[2]
      BY <1>10, <3>3
    <3>5. Len(asm'[c]) = 1 /\ asm'[c][1] = p
      BY <3>1
    <3>6. QED BY <1>1, <3>1, <3>2, <3>3, <3>4, <3>5
  <2>4. ASSUME NEW c \in Client, NEW i \in 1 .. Len(ready'[c])
        PROVE  /\ ready'[c][i].packets = {ready'[c][i].of}
               /\ ready'[c][i].kind = "INIT" <=> chan'[c] = 0
    <3>1. CASE i \in 1 .. Len(ready[c]) /\ ready'[c][i] = ready[c][i]
      BY <1>1, <3>1 DEF CInv, Packets
    <3>2. CASE ready'[c][i] = m /\ chan[c] = p.chan
      BY <1>1, <1>4, <1>8, <3>2 DEF p
    <3>3. QED BY <1>6, <3>1, <3>2
  <2>5. QED BY <2>1, <2>2, <2>3, <2>4 DEF Packets
<1>14. ASSUME NEW q \in Request
       PROVE  /\ OwesNot(q)' <=> OwesNot(q)
              /\ SaysNot(q) => SaysNot(q)' /\ (p.of = q => p.chan = 0)
              /\ Gone(q) => Gone(q)' /\ (p.of = q => p.chan = 0)
              /\ HeardNot(q) /\ (p.of = q => p.chan = 0 \/ ~heard(Owner[q])) => HeardNot(q)'
  <2>1. OwesNot(q)' <=> OwesNot(q)
    BY <1>1 DEF OwesNot
  <2>2. SaysNot(q) => SaysNot(q)' /\ (p.of = q => p.chan = 0)
    BY <1>2 DEF SaysNot, p
  <2>3. ASSUME HeardNot(q), p.of = q => p.chan = 0 \/ ~heard(Owner[q])
        PROVE  HeardNot(q)'
    <3> SUFFICES ASSUME NEW i \in 1 .. Len(ready'[Owner[q]]), ready'[Owner[q]][i].of = q
                 PROVE  ready'[Owner[q]][i].kind = "INIT"
      BY DEF HeardNot
    <3>1. CASE i \in 1 .. Len(ready[Owner[q]]) /\ ready'[Owner[q]][i] = ready[Owner[q]][i]
      BY <2>3, <3>1 DEF HeardNot
    <3>2. CASE heard(Owner[q]) /\ ready'[Owner[q]][i] = m
      BY <1>4, <1>8, <2>3, <3>2
    <3>3. QED BY <1>5, <1>6, <3>1, <3>2
  <2>4. QED BY <2>1, <2>2, <2>3 DEF Gone
<1>15. /\ \A c \in Client : (Clean(c)' <=> Clean(c)) /\ (NoForeign(c)' <=> NoForeign(c))
       /\ \A q \in Request : Single(q)' <=> Single(q)
  BY <1>1 DEF Clean, NoForeign, Single
<1>16. Streams'
  <2> SUFFICES ASSUME NEW q \in Request, Single(q) PROVE Stream(q)'
    BY <1>15 DEF Streams
  <2> DEFINE c == Owner[q]
  <2>1. Stream(q) /\ c \in Client
    BY <1>5 DEF CInv, Streams
  <2>2. OweOnce(q)'
    BY <1>1, <2>1 DEF Stream, OweOnce
  <2>3. SaidLast(q)'
    <3> SUFFICES ASSUME NEW i \in 1 .. Len(wire'), wire'[i].of = q, wire'[i].head.kind \in Answers
                 PROVE  /\ OwesNot(q)'
                        /\ \A j \in 1 .. Len(wire') :
                             j > i /\ wire'[j].of = q /\ wire'[j].chan # 0 =>
                               j = i + 1 /\ wire'[i].seq = 1 /\ wire'[j].seq = 2
      BY DEF SaidLast
    <3>1. i + 1 \in 1 .. Len(wire) /\ wire'[i] = wire[i + 1]
      BY <1>2
    <3>2. /\ OwesNot(q)
          /\ \A j \in 1 .. Len(wire) :
               j > i + 1 /\ wire[j].of = q /\ wire[j].chan # 0 =>
                 j = (i + 1) + 1 /\ wire[i + 1].seq = 1 /\ wire[j].seq = 2
      BY <2>1, <3>1 DEF Stream, SaidLast
    <3>3. ASSUME NEW j \in 1 .. Len(wire'), j > i, wire'[j].of = q, wire'[j].chan # 0
          PROVE  j = i + 1 /\ wire'[i].seq = 1 /\ wire'[j].seq = 2
      <4>1. j + 1 \in 1 .. Len(wire) /\ wire'[j] = wire[j + 1] /\ j + 1 > i + 1
        BY <1>2, <3>3
      <4>2. j + 1 = (i + 1) + 1 /\ wire[i + 1].seq = 1 /\ wire[j + 1].seq = 2
        BY <3>2, <3>3, <4>1
      <4>3. QED BY <3>1, <4>1, <4>2
    <3>4. QED BY <1>14, <3>2, <3>3
  <2>4. HeardLast(q)'
    <3> SUFFICES ASSUME NEW i \in 1 .. Len(ready'[c]), ready'[c][i].of = q, ready'[c][i].kind \in Answers
                 PROVE  Gone(q)' /\ \A j \in 1 .. Len(ready'[c]) : j > i => ready'[c][j].of # q
      BY DEF HeardLast
    <3>1. CASE i \in 1 .. Len(ready[c]) /\ ready'[c][i] = ready[c][i]
      <4>1. Gone(q) /\ \A j \in 1 .. Len(ready[c]) : j > i => ready[c][j].of # q
        BY <2>1, <3>1 DEF Stream, HeardLast
      <4>2. chan[c] # 0
        BY <2>1, <3>1 DEF CInv, Packets, Answers
      <4>3. ASSUME NEW j \in 1 .. Len(ready'[c]), j > i PROVE ready'[c][j].of # q
        <5>1. CASE j \in 1 .. Len(ready[c]) /\ ready'[c][j] = ready[c][j]
          BY <4>1, <4>3, <5>1
        <5>2. CASE ready'[c][j] = m /\ chan[c] = p.chan
          BY <1>4, <1>14, <4>1, <4>2, <5>2
        <5>3. QED BY <1>6, <2>1, <5>1, <5>2
      <4>4. QED BY <1>14, <4>1, <4>3
    <3>2. CASE heard(c) /\ i = Len(ready[c]) + 1 /\ ready'[c][i] = m /\ chan[c] = p.chan
      <4>1. p.of = q /\ p.head.kind \in Answers
        BY <1>4, <3>2
      <4>2. /\ OwesNot(q)
            /\ \A j \in 1 .. Len(wire) :
                 j > 1 /\ wire[j].of = q /\ wire[j].chan # 0 => j = 1 + 1 /\ p.seq = 1 /\ wire[j].seq = 2
        BY <1>2, <2>1, <4>1 DEF Stream, SaidLast, p
      <4>3. ASSUME NEW j \in 1 .. Len(wire), j > 1, wire[j].of = q, wire[j].chan # 0 PROVE FALSE
        <5>1. j = 2 /\ p.seq = 1 /\ wire[j].seq = 2
          BY <4>2, <4>3
        <5>2. p.head.packets = 1
          BY <1>9, <2>1, <3>2, <5>1
        <5>3. wire[j].seq = 2 => (j # 1 => wire[j - 1].head.packets = 2)
          BY DEF CInv, Packets
        <5>4. j # 1 /\ j - 1 = 1
          BY <5>1
        <5>5. QED BY <5>1, <5>2, <5>3, <5>4 DEF p
      <4>4. SaysNot(q)'
        <5> SUFFICES ASSUME NEW j \in 1 .. Len(wire'), wire'[j].of = q PROVE wire'[j].chan = 0
          BY DEF SaysNot
        <5>1. j + 1 \in 1 .. Len(wire) /\ wire'[j] = wire[j + 1] /\ j + 1 > 1
          BY <1>2
        <5>2. QED BY <4>3, <5>1
      <4>5. Gone(q)'
        BY <1>14, <4>2, <4>4 DEF Gone
      <4>6. ASSUME NEW j \in 1 .. Len(ready'[c]), j > i PROVE FALSE
        <5>1. Len(ready[c]) \in Nat /\ (j \in 1 .. Len(ready[c]) \/ j = Len(ready[c]) + 1)
          BY <1>6, <1>7, <2>1
        <5>2. QED BY <3>2, <4>6, <5>1
      <4>7. QED BY <4>5, <4>6
    <3>3. QED BY <1>6, <2>1, <3>1, <3>2
  <2>5. Done1(q)'
    <3>1. Done1(q)
      BY <2>1 DEF Stream
    <3>2. ASSUME executed[q] = 1, NEW i \in 1 .. Len(wire'), wire'[i].of = q
          PROVE  wire'[i].head.kind # "INVALID_COMMAND"
      BY <1>2, <3>1, <3>2 DEF Done1
    <3>3. ASSUME executed[q] = 1, NEW i \in 1 .. Len(ready'[c]), ready'[c][i].of = q
          PROVE  ready'[c][i].kind # "INVALID_COMMAND"
      <4>1. CASE i \in 1 .. Len(ready[c]) /\ ready'[c][i] = ready[c][i]
        BY <3>1, <3>3, <4>1 DEF Done1
      <4>2. CASE ready'[c][i] = m
        BY <1>2, <1>4, <3>1, <3>3, <4>2 DEF Done1, p
      <4>3. QED BY <1>6, <2>1, <4>1, <4>2
    <3>4. QED BY <1>1, <1>14, <3>1, <3>2, <3>3 DEF Done1
  <2>6. NotSent(q)'
    <3> SUFFICES ASSUME at[q] \in {"new", "init", "write"} PROVE Gone(q)' /\ HeardNot(q)' /\ executed[q] = 0
      BY <1>1 DEF NotSent
    <3>1. Gone(q) /\ HeardNot(q) /\ executed[q] = 0
      BY <2>1 DEF Stream, NotSent
    <3>2. QED BY <1>14, <3>1
  <2>7. QED BY <2>2, <2>3, <2>4, <2>5, <2>6 DEF Stream
<1>17. Mine'
  <2> SUFFICES ASSUME NEW q \in Request, at[q] = "done", Clean(Owner[q]) PROVE Gone(q)' /\ HeardNot(q)'
    BY <1>1, <1>5, <1>15 DEF Mine
  <2>1. Gone(q) /\ HeardNot(q)
    BY DEF CInv, Mine
  <2>2. QED BY <1>14, <2>1
<1>18. BridgeOwn'
  <2> SUFFICES ASSUME NEW q \in Request, Owner[q] \in bridges, NoForeign(Owner[q]),
                      at[q] \notin {"await", "callback"}
               PROVE  OffChannel(q)'
    BY <1>1, <1>5, <1>15 DEF BridgeOwn
  <2>1. OffChannel(q)
    BY DEF CInv, BridgeOwn
  <2>2. HeardNot(q)'
    <3>1. p.of = q /\ p.chan # 0 => p.chan # chan[Owner[q]]
      BY <1>2, <2>1 DEF OffChannel, p
    <3>2. p.of = q => p.chan = 0 \/ ~heard(Owner[q])
      BY <1>3, <1>5, <3>1
    <3>3. QED BY <1>14, <2>1, <3>2 DEF OffChannel
  <2>3. \A i \in 1 .. Len(wire') :
          wire'[i].of = q /\ wire'[i].chan # 0 => wire'[i].chan \notin {chan[Owner[q]], cid[Owner[q]]}
    BY <1>2, <2>1 DEF OffChannel
  <2>4. QED BY <1>1, <2>1, <2>2, <2>3 DEF OffChannel
<1>19. Fresh'
  <2>1. \A k : Newer(k) => Newer(k)'
    BY <1>1, <1>2 DEF Newer
  <2>2. ASSUME NEW k, k = p.head.cid, p.chan = 0
        PROVE  Newer(k)' /\ k # 0
    <3>1. k < nextCid /\ k # 0
      BY <1>2, <2>2 DEF CInv, Fresh, p
    <3>2. ASSUME NEW i \in 1 .. Len(wire'), wire'[i].chan = 0 PROVE k < wire'[i].head.cid
      <4>1. i + 1 \in 1 .. Len(wire) /\ wire'[i] = wire[i + 1] /\ 1 < i + 1
        BY <1>2
      <4>2. QED BY <1>2, <2>2, <3>2, <4>1 DEF CInv, Fresh, p
    <3>3. QED BY <1>1, <3>1, <3>2 DEF Newer
  <2>3. ASSUME NEW k, NEW c \in Client, Newer(k), Below(k, c)
        PROVE  Below(k, c)'
    <3> SUFFICES ASSUME chan[c] = 0, NEW i \in 1 .. Len(ready'[c]) PROVE k < ready'[c][i].cid
      BY <1>1 DEF Below
    <3>1. CASE i \in 1 .. Len(ready[c]) /\ ready'[c][i] = ready[c][i]
      BY <2>3, <3>1 DEF Below
    <3>2. CASE ready'[c][i] = m /\ chan[c] = p.chan
      BY <1>2, <1>4, <2>3, <3>2 DEF Newer, p
    <3>3. QED BY <1>6, <3>1, <3>2
  <2>4. /\ \A i \in 1 .. Len(wire') :
             wire'[i].chan = 0 => wire'[i].head.cid < nextCid' /\ wire'[i].head.cid # 0
        /\ \A i, j \in 1 .. Len(wire') :
             i < j /\ wire'[i].chan = 0 /\ wire'[j].chan = 0 => wire'[i].head.cid < wire'[j].head.cid
    <3>1. \A i \in 1 .. Len(wire') :
            wire'[i].chan = 0 => wire'[i].head.cid < nextCid' /\ wire'[i].head.cid # 0
      BY <1>1, <1>2 DEF CInv, Fresh
    <3>2. ASSUME NEW i \in 1 .. Len(wire'), NEW j \in 1 .. Len(wire'),
                 i < j, wire'[i].chan = 0, wire'[j].chan = 0
          PROVE  wire'[i].head.cid < wire'[j].head.cid
      <4>1. /\ i + 1 \in 1 .. Len(wire) /\ wire'[i] = wire[i + 1]
            /\ j + 1 \in 1 .. Len(wire) /\ wire'[j] = wire[j + 1] /\ i + 1 < j + 1
        BY <1>2, <3>2
      <4>2. QED BY <3>2, <4>1 DEF CInv, Fresh
    <3>3. QED BY <3>1, <3>2
  <2>5. ASSUME NEW c \in Client
        PROVE  /\ Newer(cid[c])' /\ (chan'[c] # Closed => Newer(chan[c])')
               /\ chan'[c] = 0 => \A i \in 1 .. Len(ready'[c]) :
                   Newer(ready[c][i].cid)' /\ ready'[c][i].cid # 0
    <3>1. Newer(cid[c]) /\ (chan[c] # Closed => Newer(chan[c]))
      BY DEF CInv, Fresh
    <3>2. ASSUME NEW a, a = cid'[c] PROVE Newer(a)'
      BY <1>1, <2>1, <3>1, <3>2
    <3>3. Newer(cid[c])'
      BY <3>2 DEF Newer
    <3>4. ASSUME NEW a, a = chan'[c], chan'[c] # Closed PROVE Newer(a)'
      BY <1>1, <2>1, <3>1, <3>4
    <3>5. chan'[c] # Closed => Newer(chan[c])'
      BY <3>4 DEF Newer
    <3>6. ASSUME chan[c] = 0, NEW i \in 1 .. Len(ready'[c]), NEW a, a = ready'[c][i].cid
          PROVE  Newer(a)' /\ a # 0
      <4>1. CASE i \in 1 .. Len(ready[c]) /\ ready'[c][i] = ready[c][i]
        <5>1. Newer(a) /\ a # 0
          BY <3>6, <4>1 DEF CInv, Fresh
        <5>2. QED BY <2>1, <5>1
      <4>2. CASE ready'[c][i] = m /\ chan[c] = p.chan
        BY <1>4, <2>2, <3>6, <4>2
      <4>3. QED BY <1>6, <4>1, <4>2
    <3>7. chan'[c] = 0 => \A i \in 1 .. Len(ready'[c]) : Newer(ready[c][i].cid)' /\ ready'[c][i].cid # 0
      BY <1>1, <3>6 DEF Newer
    <3>8. QED BY <3>3, <3>5, <3>7
  <2>6. \A i \in 1 .. Len(owed) : Owner[owed[i].of] \in Client
    <3>1. \A i \in 1 .. Len(owed) : owed[i] \in Owing
      BY Things DEF CInv
    <3>2. QED BY <1>5, <3>1 DEF Owing
  <2>7. ASSUME NEW i \in 1 .. Len(owed'), owed'[i].kind # "INIT", NEW a, a = owed'[i].on,
               NEW d, d = Owner[owed'[i].of]
        PROVE  Newer(a)' /\ Below(a, d)'
    <3>1. Newer(a) /\ Below(a, d)
      BY <1>1, <2>7 DEF CInv, Fresh
    <3>2. d \in Client
      BY <1>1, <2>6, <2>7
    <3>3. QED BY <2>1, <2>3, <3>1, <3>2
  <2>8. \A i \in 1 .. Len(owed') :
          owed'[i].kind # "INIT" => Newer(owed[i].on)' /\ Below(owed[i].on, Owner[owed[i].of])'
    BY <2>7 DEF Newer, Below
  <2>9. ASSUME NEW i \in 1 .. Len(wire'), wire'[i].chan # 0, NEW a, a = wire'[i].chan,
               NEW d, d = Owner[wire'[i].of]
        PROVE  Newer(a)' /\ Below(a, d)'
    <3>1. i + 1 \in 1 .. Len(wire) /\ wire'[i] = wire[i + 1]
      BY <1>2
    <3>2. Newer(a) /\ Below(a, d)
      BY <2>9, <3>1 DEF CInv, Fresh
    <3>3. d \in Client
      <4>1. wire[i + 1] \in Packet
        BY <3>1, Things DEF CInv
      <4>2. QED BY <1>5, <2>9, <3>1, <4>1 DEF Packet
    <3>4. QED BY <2>1, <2>3, <3>2, <3>3
  <2>10. \A i \in 1 .. Len(wire') :
           wire'[i].chan # 0 => Newer(wire[i].chan)' /\ Below(wire[i].chan, Owner[wire[i].of])'
    <3>1. \A i \in 1 .. Len(wire') : \A a, d :
            wire'[i].chan # 0 /\ a = wire'[i].chan /\ d = Owner[wire'[i].of] => Newer(a)' /\ Below(a, d)'
      BY <2>9
    <3>2. QED BY <3>1, WireNewer
  <2>11. QED BY <2>4, <2>5, <2>8, <2>10 DEF Fresh
<1>20. Silence'
  <2>1. ASSUME NEW r \in answered' \ resent'
        PROVE  /\ at'[r] \in {"await", "callback", "done"} /\ outcome'[r] # "timeout"
               /\ at'[r] # "done" =>
                    \E i \in 1 .. Len(ready'[Owner[r]]) : ready'[Owner[r]][i].kind = "CBOR"
    <3> DEFINE c == Owner[r]
    <3>1. r \in Request /\ r \notin resent /\ c \in Client
      BY <1>1, <1>5, <2>1 DEF CInv, CTyped
    <3>2. CASE r \in answered
      <4>1. /\ at[r] \in {"await", "callback", "done"} /\ outcome[r] # "timeout"
            /\ at[r] # "done" => \E i \in 1 .. Len(ready[c]) : ready[c][i].kind = "CBOR"
        BY <3>1, <3>2 DEF CInv, Silence
      <4>2. ASSUME NEW i \in 1 .. Len(ready[c]), ready[c][i].kind = "CBOR"
            PROVE  i \in 1 .. Len(ready'[c]) /\ ready'[c][i].kind = "CBOR"
        BY <1>7, <3>1, <4>2
      <4>3. QED BY <1>1, <4>1, <4>2
    <3>3. CASE at[r] \in {"write", "await", "callback"} /\ p.of = r /\ p.chan = chan[c] /\ p.seq = 2
      <4>1. chan[c] \in 1 .. Closed - 1 /\ outcome[r] = "none"
        BY <3>1, <3>3 DEF CInv, Readers
      <4>2. at[r] # "write"
        <5>1. Single(r)
          BY <3>1 DEF Single
        <5>2. at[r] = "write" => SaysNot(r)
          BY <3>1, <5>1 DEF CInv, Streams, Stream, NotSent, Gone
        <5>3. p.chan # 0
          BY <3>3, <4>1, Numbers
        <5>4. QED BY <1>14, <3>1, <3>3, <5>2, <5>3
      <4>3. asm[c] # <<>>
        BY <1>1, <3>1, <3>3, <4>2 DEF CInv, Silence, p
      <4>4. heard(c)
        <5>1. p.seq # 1
          BY <3>3
        <5>2. QED BY <4>3, <5>1 DEF heard, Hears1, p
      <4>5. Len(ready[c]) + 1 \in 1 .. Len(ready'[c]) /\ ready'[c][Len(ready[c]) + 1] = m
        BY <1>7, <3>1, <4>4
      <4>6. m.kind = "CBOR"
        BY <1>4, <1>8, <3>3
      <4>7. at[r] \in {"await", "callback"} /\ outcome[r] # "timeout"
        BY <3>3, <4>1, <4>2
      <4>8. QED BY <1>1, <4>5, <4>6, <4>7
    <3>4. QED BY <1>1, <1>2, <2>1, <3>2, <3>3
  <2>2. ASSUME NEW r \in Request \ resent', at'[r] \in {"await", "callback"}, wire' # <<>>,
               wire'[1].of = r, wire'[1].seq = 2, wire'[1].chan = chan'[Owner[r]]
        PROVE  asm'[Owner[r]] # <<>>
    <3>1. 1 \in 1 .. Len(wire') /\ wire'[1] = wire[1 + 1] /\ 1 + 1 \in 1 .. Len(wire)
      BY <1>2, <1>10, <2>2
    <3>2. wire[1 + 1].seq = 2 => (1 + 1 # 1 =>
              wire[(1 + 1) - 1].seq = 1 /\ wire[(1 + 1) - 1].head.packets = 2)
      BY <3>1 DEF CInv, Packets
    <3>3. 1 + 1 # 1 /\ (1 + 1) - 1 = 1 /\ 1 + 1 = 2
      OBVIOUS
    <3>4. p.seq = 1 /\ p.head.packets = 2
      BY <2>2, <3>1, <3>2, <3>3 DEF p
    <3>5. wire[2].chan = p.chan
      BY <1>8, <3>4
    <3>6. chan[Owner[r]] = p.chan
      BY <1>1, <2>2, <3>1, <3>3, <3>5
    <3>7. asm'[Owner[r]] = <<p>>
      BY <1>3, <1>5, <3>4, <3>6
    <3>8. Len(<<p>>) = 1
      OBVIOUS
    <3>9. QED BY <3>7, <3>8, EmptySeq
  <2>3. QED BY <2>1, <2>2 DEF Silence
<1>21. QED BY <1>11, <1>12, <1>13, <1>16, <1>17, <1>18, <1>19, <1>20 DEF CInv

-----------------------------------------------------------------------------
(* The theorems.                                                           *)

(* At the start nothing is anywhere.                                       *)
LEMMA CInit == HidInit => CInv
<1> SUFFICES ASSUME HidInit PROVE CInv
  OBVIOUS
<1>1. /\ wire = <<>> /\ owed = <<>> /\ kept = {} /\ answered = {} /\ resent = {} /\ nextCid = 1
      /\ bridges \in Roles /\ at = [r \in Request |-> "new"] /\ left = [c \in Client |-> 0]
      /\ cid = [c \in Client |-> 0] /\ chan = [c \in Client |-> Closed]
      /\ outcome = [r \in Request |-> "none"] /\ executed = [r \in Request |-> 0]
      /\ \A c \in Client : asm[c] = <<>> /\ ready[c] = <<>>
      /\ asm = [c \in Client |-> <<>>] /\ ready = [c \in Client |-> <<>>]
  BY DEF HidInit
<1>2. /\ Len(wire) = 0 /\ Len(owed) = 0 /\ \A c \in Client : Len(ready[c]) = 0
      /\ wire \in Seq(Packet) /\ owed \in Seq(Owing)
      /\ asm \in [Client -> Seq(Packet)] /\ ready \in [Client -> Seq(Heard)]
  BY <1>1, EmptySeq
<1>3. /\ 1 .. Len(wire) = {} /\ 1 .. Len(owed) = {} /\ \A c \in Client : 1 .. Len(ready[c]) = {}
  BY <1>2
<1>4. \A r \in Request : Owner[r] \in Client
  BY ClientAssumption
<1>5. CTyped
  <2>1. /\ left \in [Client -> 0 .. 2] /\ cid \in [Client -> 0 .. Closed - 1]
        /\ chan \in [Client -> 0 .. Closed] /\ nextCid \in 1 .. Closed
        /\ executed \in [Request -> 0 .. 2]
    BY <1>1, Numbers
  <2>2. at \in [Request -> At] /\ outcome \in [Request -> Outcome]
    BY <1>1 DEF At, Outcome
  <2>3. HidTypeOK
    BY <1>1, <2>1, <2>2 DEF HidTypeOK
  <2>4. QED BY <1>1, <1>2, <2>3 DEF CTyped
<1>6. Readers
  BY <1>1, <1>4 DEF Readers
<1>7. Packets
  BY <1>1, <1>3 DEF Packets
<1>8. \A r \in Request : Gone(r) /\ HeardNot(r)
  BY <1>3, <1>4 DEF Gone, OwesNot, SaysNot, HeardNot
<1>9. Streams
  <2>1. \A r \in Request : OweOnce(r) /\ SaidLast(r) /\ HeardLast(r)
    BY <1>3, <1>4 DEF OweOnce, SaidLast, HeardLast
  <2>2. \A r \in Request : Done1(r) /\ NotSent(r)
    BY <1>1, <1>8 DEF Done1, NotSent
  <2>3. QED BY <2>1, <2>2 DEF Streams, Stream
<1>10. Mine
  BY <1>8 DEF Mine
<1>11. BridgeOwn
  BY <1>3, <1>8 DEF BridgeOwn, OffChannel
<1>12. Fresh
  <2>1. Newer(0)
    BY <1>1, <1>3 DEF Newer
  <2>2. \A c \in Client : cid[c] = 0 /\ chan[c] = Closed
    BY <1>1
  <2>3. QED BY <1>3, <2>1, <2>2, Numbers DEF Fresh
<1>13. Counts
  <2>1. Where(owed, Inits) = {} /\ \A r \in Request : Where(owed, Runs(r)) = {}
    BY <1>3 DEF Where
  <2>2. {r \in Request : at[r] # "new"} = {}
    BY <1>1
  <2>3. Cardinality({}) = 0
    BY FS_EmptySet
  <2>4. \A r \in Request : Sendings(r) = 0 /\ executed[r] = 0
    BY <1>1 DEF Sendings
  <2>5. /\ Cardinality(Where(owed, Inits)) = 0 /\ Cardinality({r \in Request : at[r] # "new"}) = 0
        /\ \A r \in Request : Cardinality(Where(owed, Runs(r))) = 0
    BY <2>1, <2>2, <2>3, Zenon
  <2>6. nextCid + Cardinality(Where(owed, Inits)) <= Cardinality({r \in Request : at[r] # "new"}) + 1
    BY <1>1, <2>5
  <2>7. \A r \in Request : executed[r] + Cardinality(Where(owed, Runs(r))) <= Sendings(r)
    BY <2>4, <2>5
  <2>8. QED BY <2>6, <2>7 DEF Counts
<1>14. Silence /\ Lates
  BY <1>1, <1>3 DEF Silence, Lates
<1>15. QED BY <1>5, <1>6, <1>7, <1>9, <1>10, <1>11, <1>12, <1>13, <1>14 DEF CInv

(* Every step keeps the invariant.                                         *)
LEMMA CKept == CInv /\ [HidNext]_hidVars => CInv'
<1> SUFFICES ASSUME CInv, [HidNext]_hidVars PROVE CInv'
  OBVIOUS
<1>1. CASE UNCHANGED hidVars
  <2>1. /\ bridges' = bridges /\ at' = at /\ left' = left /\ cid' = cid /\ chan' = chan /\ asm' = asm
        /\ ready' = ready /\ resent' = resent /\ outcome' = outcome /\ wire' = wire /\ owed' = owed
        /\ kept' = kept /\ nextCid' = nextCid /\ executed' = executed /\ answered' = answered
    BY <1>1 DEF hidVars, moving, cvars, rvars, kvars
  <2>2. CTyped' /\ Readers' /\ Packets' /\ Silence' /\ Lates' /\ Counts'
    BY <2>1 DEF CInv, CTyped, HidTypeOK, Readers, Packets, Silence, Lates, Clean, NoForeign, Counts, Where,
                Inits, Runs, Sendings
  <2>3. Streams' /\ Mine' /\ BridgeOwn'
    <3>1. \A r \in Request :
            /\ OwesNot(r)' <=> OwesNot(r)
            /\ Gone(r)' <=> Gone(r)
            /\ HeardNot(r)' <=> HeardNot(r)
      BY <2>1 DEF OwesNot, SaysNot, Gone, HeardNot
    <3>2. \A r \in Request : (Single(r)' <=> Single(r)) /\ (OweOnce(r)' <=> OweOnce(r))
      BY <2>1 DEF Single, OweOnce
    <3>3. \A r \in Request : SaidLast(r)' <=> SaidLast(r)
      BY <2>1, <3>1 DEF SaidLast
    <3>4. \A r \in Request : HeardLast(r)' <=> HeardLast(r)
      BY <2>1, <3>1 DEF HeardLast
    <3>5. \A r \in Request : (Done1(r)' <=> Done1(r)) /\ (NotSent(r)' <=> NotSent(r))
      BY <2>1, <3>1 DEF Done1, NotSent
    <3>6. Streams'
      BY <3>2, <3>3, <3>4, <3>5 DEF CInv, Streams, Stream
    <3>7. \A c : (Clean(c)' <=> Clean(c)) /\ (NoForeign(c)' <=> NoForeign(c))
      BY <2>1 DEF Clean, NoForeign
    <3>8. Mine'
      BY <2>1, <3>1, <3>7 DEF CInv, Mine
    <3>9. \A r \in Request : OffChannel(r)' <=> OffChannel(r)
      BY <2>1, <3>1 DEF OffChannel
    <3>10. BridgeOwn'
      BY <2>1, <3>7, <3>9 DEF CInv, BridgeOwn
    <3>11. QED BY <3>6, <3>8, <3>10
  <2>4. Fresh'
    BY <2>1 DEF CInv, Fresh, Newer, Below
  <2>5. QED BY <2>2, <2>3, <2>4 DEF CInv
<1>2. CASE HidNext
  <2>1. bridges' = bridges
    BY <1>2 DEF HidNext
  <2>2. ASSUME NEW r \in Request,
               Start(r) \/ HearInit(r) \/ WritePacket(r) \/ Read(r) \/ CallbackDone(r) \/ Fail(r) \/ Timeout(r)
        PROVE  CInv'
    BY <2>1, <2>2, StartHolds, HearInitHolds, WriteHolds, ReadHolds, CallbackHolds, GiveUpHolds
  <2>3. ASSUME NEW c \in Client, Reset(c) PROVE CInv'
    BY <2>1, <2>3, ResetHolds
  <2>4. CASE KeyKeepAlive
    BY <2>1, <2>4, KeepAliveHolds
  <2>5. CASE KeyAnswers
    BY <2>1, <2>5, KeyAnswersHolds
  <2>6. CASE KeyIgnores
    BY <2>1, <2>6, IgnoreHolds
  <2>7. CASE Deliver
    BY <2>1, <2>7, DeliverHolds
  <2>8. QED BY <1>2, <2>2, <2>3, <2>4, <2>5, <2>6, <2>7 DEF HidNext
<1>3. QED BY <1>1, <1>2

(* The invariant holds, for any number of clients and requests, and any    *)
(* choice of which clients are bridges'.                                   *)
THEOREM CtapInvariant == HidSpec => []CInv
<1>1. HidInit => CInv
  BY CInit
<1>2. CInv /\ [HidNext]_hidVars => CInv'
  BY CKept
<1>3. QED BY <1>1, <1>2, PTL DEF HidSpec

(* A message a client hands on is put together from the packets of one     *)
(* message (Assembler, ctaphid.js).                                        *)
THEOREM MessagesAreWhole == HidSpec => []WholeMessages
<1>1. CInv => WholeMessages
  BY DEF CInv, CTyped, Packets, WholeMessages
<1>2. QED BY <1>1, CtapInvariant, PTL

(* A request is answered with another's answer only if one of its client   *)
(* was given up or took the answer of a client it shares a channel with,   *)
(* or was resent over a refusal that may be the other's; a bridge only if  *)
(* it took another's; and nothing that came while a request was read for   *)
(* is lost (_await, ctaphid.js; handle, bridge.js).                        *)
THEOREM LatesHaveACause == HidSpec => []LateNeedsACause
<1>1. CInv => LateNeedsACause
  <2> SUFFICES ASSUME CInv PROVE LateNeedsACause
    OBVIOUS
  <2>1. BridgeNeverLate
    BY DEF CInv, Lates, NoForeign, BridgeNeverLate
  <2>2. TimeoutMeansSilence
    BY DEF CInv, Silence, TimeoutMeansSilence
  <2>3. ASSUME NEW r \in Request, outcome[r] = "late"
        PROVE  \E q \in Request :
                 /\ Owner[q] = Owner[r]
                 /\ q \in GivenUp \/ outcome[q] = "foreign" \/ (q \in resent /\ ~Alone)
    <3>1. ~Clean(Owner[r])
      BY <2>3 DEF CInv, Lates
    <3>2. PICK q \in Request : Owner[q] = Owner[r] /\ (outcome[q] \in Left \/ (q \in resent /\ ~Alone))
      BY <3>1 DEF Clean
    <3>3. QED BY <3>2 DEF Left, GivenUp
  <2>4. QED BY <2>1, <2>2, <2>3 DEF LateNeedsACause
<1>2. QED BY <1>1, CtapInvariant, PTL

(* A client that is alone on the key is told nothing but what is its own.  *)
Home == Alone => \A r \in Request : outcome[r] # "foreign"

(* Nobody else's requests are there to be answered.                        *)
LEMMA HomeKept == CInv /\ Home /\ [HidNext]_hidVars => Home'
<1> SUFFICES ASSUME CInv, Alone, \A r \in Request : outcome[r] # "foreign", [HidNext]_hidVars,
                    NEW r \in Request
             PROVE  outcome'[r] # "foreign"
  BY DEF Home
<1>1. outcome \in [Request -> Outcome]
  BY DEF CInv, CTyped, HidTypeOK
<1>2. CASE outcome' = outcome
  BY <1>2
<1>3. ASSUME NEW q \in Request, NEW how, EndRequest(q, how), how # "foreign"
      PROVE  outcome'[r] # "foreign"
  BY <1>1, <1>3 DEF EndRequest
<1>4. ASSUME NEW q \in Request, Fail(q) \/ Timeout(q) PROVE outcome'[r] # "foreign"
  BY <1>3, <1>4 DEF Fail, Timeout
<1>5. ASSUME NEW q \in Request, Read(q) PROVE outcome'[r] # "foreign"
  <2> DEFINE m == Head(ready[Owner[q]])
  <2>1. m.of \in Request /\ Owner[q] \in Client
    <3>1. Owner[q] \in Client /\ ready[Owner[q]] # <<>>
      BY <1>5, ClientAssumption DEF Read
    <3>2. m \in Heard
      BY <3>1, HeardFirst DEF CInv
    <3>3. QED BY <3>1, <3>2 DEF Heard
  <2>2. Owner[m.of] = Owner[q]
    BY <2>1, ClientAssumption DEF Alone
  <2>3. Whose(q, m.of) # "foreign"
    BY <2>2 DEF Whose
  <2>4. (outcome' = outcome) \/ EndRequest(q, "failed") \/ EndRequest(q, Whose(q, m.of))
    BY <1>5 DEF Read
  <2>5. QED BY <1>2, <1>3, <2>3, <2>4
<1>6. ASSUME ~(\E q \in Request : Fail(q) \/ Timeout(q) \/ Read(q)) PROVE outcome' = outcome
  <2>1. CASE UNCHANGED hidVars
    BY <2>1 DEF hidVars, moving, rvars
  <2>2. ASSUME NEW q \in Request, Start(q) PROVE outcome' = outcome
    BY <2>2 DEF Start
  <2>3. ASSUME NEW q \in Request, HearInit(q) \/ WritePacket(q) \/ CallbackDone(q) PROVE outcome' = outcome
    BY <2>3 DEF HearInit, WritePacket, CallbackDone
  <2>4. ASSUME NEW c \in Client, Reset(c) PROVE outcome' = outcome
    BY <2>4 DEF Reset, rvars
  <2>5. KeyKeepAlive \/ KeyAnswers \/ KeyIgnores \/ Deliver => outcome' = outcome
    BY DEF KeyKeepAlive, KeyAnswers, KeyIgnores, Deliver, rvars
  <2>6. QED BY <1>6, <2>1, <2>2, <2>3, <2>4, <2>5 DEF HidNext
<1>7. QED BY <1>2, <1>4, <1>5, <1>6

(* The key does a request of a client alone on it twice only if another    *)
(* was given up, whose refusal the resend may then follow (send,           *)
(* ctaphid.js).                                                            *)
THEOREM KeyDoesOnce == HidSpec => []DoneOnce
<1>1. HidInit => Home
  BY DEF HidInit, Home
<1>2. CInv /\ Home => DoneOnce
  <2> SUFFICES ASSUME CInv, Home, Alone, NEW r \in Request, executed[r] > 1
               PROVE  GivenUp \ {r} # {}
    BY DEF DoneOnce
  <2>1. ~Single(r)
    <3>1. executed[r] \notin {0, 1}
      OBVIOUS
    <3>2. QED BY <3>1 DEF CInv, Streams, Stream, Done1
  <2>2. PICK q \in Request \ {r} : Owner[q] = Owner[r] /\ outcome[q] \in Left
    BY <2>1 DEF Single
  <2>3. q \in GivenUp
    BY <2>2 DEF Home, Left, GivenUp
  <2>4. QED BY <2>2, <2>3
<1>3. CInv /\ Home /\ [HidNext]_hidVars => Home'
  BY HomeKept
<1>4. QED BY <1>1, <1>2, <1>3, CtapInvariant, PTL DEF HidSpec

=============================================================================
