---------------------------- MODULE TunnelProofs ----------------------------
(***************************************************************************)
(* Theorems about the WebAuthn tunnel: the session is the key's own, an    *)
(* operation that began clean has its own answer, and no keyhandle is      *)
(* dropped without a cause.                                                *)
(***************************************************************************)
EXTENDS Tunnel, SequenceTheorems, TLAPS

-----------------------------------------------------------------------------
(* The key.                                                                *)

(* The kinds of what the key stages: under a key, as a text, or nothing.   *)
Keyed == {"connect", "derive", "result"}
Texts == {"error", "badTag"}
Kinds == Keyed \cup Texts \cup {"nothing"}
Packet == (Op \X Nat) \cup {<<"noise">>}
Packets == Seq(Packet)
Ofs == (Derive \X Nat) \cup Packets
Staged == [kind : Kinds, of : Ofs, key : Nat, len : Nat]
KeyState ==
  [version : Version, key : Nat, staged : Staged, cursor : Nat, delivered : BOOLEAN,
   mark : Nat, packets : Packets, asking : BOOLEAN]

(* What a key has staged: nothing, a text, an answer to an OKCONNECT, or   *)
(* the result of packets.                                                  *)
StagedIs(s) ==
  /\ s \in Staged
  /\ s.kind = "nothing" <=> s = Nothing
  /\ s.kind # "nothing" => s.len # 0
  /\ s.kind \in Texts \cup {"connect"} => s.of = <<>>
  /\ s.kind = "connect" => s.len = 1 /\ s.key # 0
  /\ s.kind = "derive" => s.of \in Derive \X Nat
  /\ s.kind = "result" => s.of \in Packets /\ s.of # <<>> /\ s.len = LengthOf(s.of)

(* A key: the cursor is in what is staged, which is under its present      *)
(* transit key; it asks about packets it has; v1's mark goes with what it  *)
(* has.                                                                    *)
KeyIs(d) ==
  /\ d \in KeyState
  /\ StagedIs(d.staged)
  /\ d.staged # Nothing => d.cursor < d.staged.len
  /\ d.staged.kind \in Keyed => d.staged.key = d.key
  /\ d.asking => d.packets # <<>>
  /\ ~V2(d) /\ d.staged = Nothing /\ d.packets = <<>> => d.mark = 0
  /\ Measured(d.version)

(* All but the cursor.                                                     *)
Alike(d, e) ==
  /\ e.version = d.version /\ e.key = d.key /\ e.staged = d.staged
  /\ e.mark = d.mark /\ e.packets = d.packets /\ e.asking = d.asking

(* r is what the key d says, and the key after it.                         *)
Says(d, r) ==
  /\ KeyIs(r.dev) /\ Alike(d, r.dev)
  /\ d.staged = Nothing =>
       /\ r.dev = d
       /\ r.reply = Bare(IF d.asking \/ d.packets # <<>> THEN "PENDING" ELSE "NO_OPERATION")
  /\ d.staged # Nothing =>
       /\ DOMAIN r.reply = {"status", "from", "at", "len"}
       /\ r.reply.status = "SUCCESS" /\ r.reply.from = d.staged /\ r.reply.at = d.cursor
       /\ r.reply.len \in 1 .. Full /\ d.cursor + r.reply.len <= d.staged.len
       /\ IF d.cursor + r.reply.len = d.staged.len
            THEN r.dev.cursor = 0 /\ r.dev.delivered
            ELSE r.dev.cursor = d.cursor + r.reply.len /\ r.reply.len = Full
                   /\ r.dev.delivered = d.delivered

(* There is nothing like nothing.                                          *)
LEMMA NothingIs == StagedIs(Nothing) /\ Nothing.len = 0 /\ Nothing.kind = "nothing" /\ Nothing.of = <<>>
<1>1. <<>> \in Packets
  BY DEF Packets
<1>2. QED BY <1>1 DEF StagedIs, Staged, Nothing, Kinds, Keyed, Texts, Ofs

(* A result is as long as its first packet says, which is something.       *)
LEMMA LengthIs ==
  ASSUME NEW p \in Packets, p # <<>>
  PROVE  LengthOf(p) \in Nat \ {0}
<1>1. p[1] \in Packet
  BY DEF Packets
<1>2. CASE p[1] \in Op \X Nat
  <2>1. p[1][1] \in Op
    BY <1>2
  <2>2. Size[p[1][1]] \in Nat \ {0}
    BY <2>1, TunnelAssumption
  <2>3. QED BY <2>2 DEF LengthOf
<1>3. CASE p[1] = <<"noise">>
  BY <1>3 DEF LengthOf
<1>4. QED BY <1>1, <1>2, <1>3 DEF Packet

(* send_stored_response().                                                 *)
LEMMA ServeIs ==
  ASSUME NEW d, KeyIs(d)
  PROVE  Says(d, Serve(d))
<1>1. CASE d.staged = Nothing
  BY <1>1 DEF Serve, Says, Alike
<1>2. CASE d.staged # Nothing
  <2> DEFINE len == IF d.staged.len - d.cursor > Full THEN Full ELSE d.staged.len - d.cursor
             whole == d.cursor + len = d.staged.len
             cur == IF whole THEN 0 ELSE d.cursor + len
             del == d.delivered \/ whole
             e == [d EXCEPT !.cursor = cur, !.delivered = del]
             r == Serve(d)
  <2>1. d.cursor \in Nat /\ d.staged.len \in Nat /\ d.cursor < d.staged.len
    BY <1>2 DEF KeyIs, KeyState, Staged
  <2>2. /\ len \in 1 .. Full /\ d.cursor + len <= d.staged.len
        /\ ~whole => len = Full /\ d.cursor + len < d.staged.len
        /\ cur \in Nat /\ cur < d.staged.len
    BY <2>1 DEF Full
  <2>3. r = [dev |-> e, reply |-> [status |-> "SUCCESS", from |-> d.staged,
                                           at |-> d.cursor, len |-> len]]
    BY <1>2 DEF Serve
  <2>4. del \in BOOLEAN /\ (whole => del) /\ (~whole => del = d.delivered)
    BY DEF KeyIs, KeyState
  <2>5. IF whole THEN cur = 0 ELSE cur = d.cursor + len
    OBVIOUS
  <2> HIDE DEF len, cur, del, r
  <2>6. /\ e \in KeyState /\ Alike(d, e)
        /\ e.cursor = cur /\ e.delivered = del
    BY <2>2, <2>4 DEF KeyIs, KeyState, Alike
  <2> HIDE DEF e
  <2>7. KeyIs(e)
    BY <2>2, <2>6 DEF KeyIs, Alike, V2
  <2>8. /\ DOMAIN r.reply = {"status", "from", "at", "len"}
        /\ r.dev = e /\ r.reply.status = "SUCCESS" /\ r.reply.from = d.staged
        /\ r.reply.at = d.cursor /\ r.reply.len = len
    BY <2>3
  <2>9. Says(d, r)
    <3>1. CASE whole
      BY <1>2, <2>2, <2>4, <2>5, <2>6, <2>7, <2>8, <3>1 DEF Says
    <3>2. CASE ~whole
      BY <1>2, <2>2, <2>4, <2>5, <2>6, <2>7, <2>8, <3>2 DEF Says
    <3>3. QED BY <3>1, <3>2
  <2>10. QED BY <2>9 DEF r
<1>3. QED BY <1>1, <1>2

(* All but what is staged and the cursor.                                  *)
SameKey(d, e) ==
  e.version = d.version /\ e.key = d.key /\ e.mark = d.mark /\ e.packets = d.packets
    /\ e.asking = d.asking

(* No packets.                                                             *)
LEMMA NoPackets == <<>> \in Packets
BY DEF Packets

(* Something is staged.                                                    *)
LEMMA StageIs ==
  ASSUME NEW d, KeyIs(d), NEW s, StagedIs(s), s # Nothing, s.kind \in Keyed => s.key = d.key
  PROVE  /\ KeyIs(Stage(d, s)) /\ SameKey(d, Stage(d, s))
         /\ Stage(d, s).staged = s /\ Stage(d, s).cursor = 0 /\ Stage(d, s).delivered = FALSE
<1> DEFINE e == Stage(d, s)
<1>1. /\ e \in KeyState /\ SameKey(d, e)
      /\ e.staged = s /\ e.cursor = 0 /\ e.delivered = FALSE
  BY DEF Stage, KeyIs, KeyState, SameKey, StagedIs
<1>2. s.len \in Nat /\ 0 < s.len
  BY DEF StagedIs, Staged
<1> HIDE DEF e
<1>3. KeyIs(e)
  BY <1>1, <1>2 DEF KeyIs, SameKey
<1>4. QED BY <1>1, <1>3 DEF e

(* wipetasks().                                                            *)
LEMMA WipedIs ==
  ASSUME NEW d, KeyIs(d)
  PROVE  /\ KeyIs(Wiped(d))
         /\ Wiped(d).version = d.version /\ Wiped(d).key = d.key /\ Wiped(d).staged = Nothing
         /\ Wiped(d).packets = <<>> /\ Wiped(d).asking = FALSE /\ Wiped(d).delivered = FALSE
         /\ Wiped(d).mark = IF V2(d) THEN d.mark ELSE 0
<1> DEFINE e == Wiped(d)
           mark == IF V2(d) THEN d.mark ELSE 0
<1>1. mark \in Nat /\ (~V2(d) => mark = 0) /\ <<>> \in Packets /\ Nothing \in Staged
  BY NothingIs DEF KeyIs, KeyState, Packets, StagedIs
<1>2. e = [Stage(d, Nothing) EXCEPT !.packets = <<>>, !.asking = FALSE, !.mark = mark]
  BY DEF Wiped, Stage, KeyIs, KeyState
<1> HIDE DEF e, mark
<1>3. /\ e \in KeyState /\ e.version = d.version /\ e.key = d.key /\ e.staged = Nothing
      /\ e.packets = <<>> /\ e.asking = FALSE /\ e.mark = mark /\ e.delivered = FALSE
  BY <1>1, <1>2 DEF Stage, KeyIs, KeyState
<1>4. V2(e) <=> V2(d)
  BY <1>3 DEF V2
<1>5. Nothing.kind \notin Keyed
  BY NothingIs DEF Keyed
<1>6. KeyIs(e)
  BY <1>1, <1>3, <1>4, <1>5, NothingIs DEF KeyIs
<1>7. QED BY <1>3, <1>6 DEF e, mark

(* The user confirms.                                                      *)
LEMMA PressedIs ==
  ASSUME NEW d, KeyIs(d), d.asking
  PROVE  LET s == [kind |-> "result", of |-> d.packets, key |-> d.key, len |-> LengthOf(d.packets)]
             e == Pressed(d, LengthOf(d.packets))
         IN /\ KeyIs(e) /\ s # Nothing
            /\ e.version = d.version /\ e.key = d.key /\ e.staged = s /\ e.cursor = 0
            /\ e.mark = d.mark /\ e.packets = <<>> /\ e.asking = FALSE
<1> DEFINE s == [kind |-> "result", of |-> d.packets, key |-> d.key, len |-> LengthOf(d.packets)]
           e == Pressed(d, LengthOf(d.packets))
           f == Stage(d, s)
<1>1. /\ d.packets \in Packets /\ d.packets # <<>> /\ d.key \in Nat
      /\ LengthOf(d.packets) \in Nat \ {0}
  BY LengthIs DEF KeyIs, KeyState
<1>2. StagedIs(s) /\ s # Nothing /\ s.key = d.key
  BY <1>1 DEF StagedIs, Staged, Kinds, Keyed, Texts, Ofs, Nothing
<1>3. KeyIs(f) /\ SameKey(d, f) /\ f.staged = s /\ f.cursor = 0
  <2> HIDE DEF s
  <2>1. QED BY <1>2, StageIs
<1>4. e = [f EXCEPT !.packets = <<>>, !.asking = FALSE]
  BY DEF Pressed
<1> HIDE DEF s, f, e
<1>5. /\ e \in KeyState /\ e.version = d.version /\ e.key = d.key /\ e.staged = s /\ e.cursor = 0
      /\ e.mark = d.mark /\ e.packets = <<>> /\ e.asking = FALSE
  BY <1>3, <1>4, NoPackets DEF KeyIs, KeyState, SameKey
<1>6. KeyIs(e)
  BY <1>2, <1>3, <1>5 DEF KeyIs, SameKey
<1>7. QED BY <1>2, <1>5, <1>6 DEF e, s

(* A text is staged.                                                       *)
LEMMA TextIs ==
  ASSUME NEW what \in Texts
  PROVE  StagedIs(Text(what)) /\ Text(what) # Nothing /\ Text(what).kind = what
<1>1. <<>> \in Packets
  BY DEF Packets
<1>2. QED BY <1>1 DEF StagedIs, Staged, Text, Nothing, Kinds, Keyed, Texts, Ofs

(* The challenge runs out.                                                 *)
LEMMA LapsedIs ==
  ASSUME NEW d, KeyIs(d)
  PROVE  LET e == Lapsed(d)
         IN /\ KeyIs(e) /\ e.version = d.version /\ e.key = d.key /\ e.staged = Text("error")
            /\ e.mark = d.mark /\ e.packets = <<>> /\ e.asking = FALSE
<1> DEFINE e == Lapsed(d)
           f == Stage(d, Text("error"))
<1>1. StagedIs(Text("error")) /\ Text("error") # Nothing /\ Text("error").kind \notin Keyed
  BY TextIs DEF Texts, Keyed
<1>2. KeyIs(f) /\ SameKey(d, f) /\ f.staged = Text("error") /\ f.cursor = 0
  BY <1>1, StageIs
<1>3. e = [f EXCEPT !.packets = <<>>, !.asking = FALSE]
  BY DEF Lapsed
<1> HIDE DEF f, e
<1>4. /\ e \in KeyState /\ e.version = d.version /\ e.key = d.key /\ e.staged = Text("error")
      /\ e.cursor = 0 /\ e.mark = d.mark /\ e.packets = <<>> /\ e.asking = FALSE
  BY <1>2, <1>3, NoPackets DEF KeyIs, KeyState, SameKey
<1>5. KeyIs(e)
  BY <1>1, <1>2, <1>4 DEF KeyIs, SameKey
<1>6. QED BY <1>4, <1>5 DEF e

(* A key that has nothing else to say stages a text, and says it.          *)
LEMMA SaysText ==
  ASSUME NEW d, KeyIs(d), NEW what \in Texts
  PROVE  LET e == IF d.staged = Nothing /\ ~d.asking THEN Stage(d, Text(what)) ELSE d
         IN /\ KeyIs(e) /\ SameKey(d, e) /\ Says(e, Serve(e))
            /\ e = d \/ (d.staged = Nothing /\ ~d.asking /\ e.staged = Text(what) /\ e.cursor = 0
                           /\ e.delivered = FALSE)
<1> DEFINE e == IF d.staged = Nothing /\ ~d.asking THEN Stage(d, Text(what)) ELSE d
<1>1. CASE d.staged = Nothing /\ ~d.asking
  <2> DEFINE t == Text(what)
  <2>1. e = Stage(d, t)
    BY <1>1
  <2>2. StagedIs(t) /\ t # Nothing /\ t.kind \notin Keyed
    BY TextIs DEF Texts, Keyed
  <2> HIDE DEF t
  <2>3. /\ KeyIs(e) /\ SameKey(d, e) /\ e.staged = t /\ e.cursor = 0 /\ e.delivered = FALSE
    <3> HIDE DEF e
    <3>1. /\ KeyIs(Stage(d, t)) /\ SameKey(d, Stage(d, t)) /\ Stage(d, t).staged = t
          /\ Stage(d, t).cursor = 0 /\ Stage(d, t).delivered = FALSE
      BY <2>2, StageIs
    <3>2. QED BY <2>1, <3>1
  <2>4. QED BY <1>1, <2>3, ServeIs DEF t
<1>2. CASE ~(d.staged = Nothing /\ ~d.asking)
  <2>1. e = d
    BY <1>2
  <2>2. QED BY <2>1, ServeIs DEF SameKey
<1>3. QED BY <1>1, <1>2

(* OKCONNECT: a new transit key, and s is staged under it.                 *)
Rekeyed(d, e, s) ==
  /\ e.version = d.version /\ e.mark = d.mark /\ e.packets = d.packets /\ e.asking = d.asking
  /\ e.key = d.key + 1 /\ e.staged = s /\ s # Nothing /\ s.key = e.key
  /\ e.cursor = 0 /\ e.delivered = FALSE

(* OKCONNECT is one of the two: refused by an asking key, or a new key.    *)
LEMMA ConnectIs ==
  ASSUME NEW d, KeyIs(d), NEW answer,
         StagedIs([answer EXCEPT !.key = d.key + 1]),
         [answer EXCEPT !.key = d.key + 1] # Nothing,
         [answer EXCEPT !.key = d.key + 1].key = d.key + 1
  PROVE  \E e :
           /\ KeyIs(e) /\ Says(e, Connect(d, answer))
           /\ d.asking => e = d
           /\ ~d.asking => Rekeyed(d, e, [answer EXCEPT !.key = d.key + 1])
<1> DEFINE s == [answer EXCEPT !.key = d.key + 1]
           f == [d EXCEPT !.key = @ + 1, !.staged = s, !.cursor = 0, !.delivered = FALSE]
<1>1. CASE d.asking
  <2>1. Connect(d, answer) = Serve(d)
    BY <1>1 DEF Connect
  <2>2. Says(d, Connect(d, answer))
    BY <2>1, ServeIs
  <2>3. QED BY <1>1, <2>2
<1>2. CASE ~d.asking
  <2>1. Connect(d, answer) = Serve(Stage([d EXCEPT !.key = @ + 1], s))
    BY <1>2 DEF Connect
  <2>2. StagedIs(s) /\ s # Nothing /\ s.key = d.key + 1 /\ d.key \in Nat
    BY DEF KeyIs, KeyState
  <2> HIDE DEF s
  <2>3. Stage([d EXCEPT !.key = @ + 1], s) = f
    BY DEF Stage, KeyIs, KeyState
  <2> DEFINE k == d.key + 1
  <2>4. k \in Nat /\ f = [d EXCEPT !.key = k, !.staged = s, !.cursor = 0, !.delivered = FALSE]
    BY <2>2 DEF KeyIs, KeyState
  <2> HIDE DEF f, k
  <2>5. /\ f \in KeyState
        /\ f.version = d.version /\ f.mark = d.mark /\ f.packets = d.packets /\ f.asking = d.asking
        /\ f.key = k /\ f.staged = s /\ f.cursor = 0 /\ f.delivered = FALSE
    BY <2>4, <2>2 DEF KeyIs, KeyState, StagedIs
  <2>6. Rekeyed(d, f, s)
    BY <2>2, <2>5 DEF Rekeyed, k
  <2>7. s.len \in Nat /\ 0 < s.len
    BY <2>2 DEF StagedIs, Staged
  <2>8. KeyIs(f)
    BY <1>2, <2>2, <2>5, <2>6, <2>7 DEF KeyIs, Rekeyed
  <2>9. Says(f, Connect(d, answer))
    BY <2>1, <2>3, <2>8, ServeIs
  <2>10. QED BY <1>2, <2>6, <2>8, <2>9 DEF s
<1>3. QED BY <1>1, <1>2

(* A request under another key.                                            *)
NotOpened(d, e) ==
  /\ KeyIs(e) /\ SameKey(d, e)
  /\ e = d \/ (d.staged = Nothing /\ ~d.asking /\ e.staged \in {Text("badTag"), Text("error")}
                 /\ e.cursor = 0 /\ e.delivered = FALSE)

(* A request under another key leaves the key state as NotOpened says.     *)
LEMMA UnopenedIs ==
  ASSUME NEW d, KeyIs(d)
  PROVE  \E e : NotOpened(d, e) /\ Says(e, Unopened(d))
<1>1. "badTag" \in Texts
  BY DEF Texts
<1> DEFINE e == IF d.staged = Nothing /\ ~d.asking THEN Stage(d, Text("badTag")) ELSE d
<1>2. /\ KeyIs(e) /\ SameKey(d, e) /\ Says(e, Serve(e))
      /\ e = d \/ (d.staged = Nothing /\ ~d.asking /\ e.staged = Text("badTag") /\ e.cursor = 0
                     /\ e.delivered = FALSE)
  BY <1>1, SaysText
<1>3. Unopened(d) = Serve(e)
  BY DEF Unopened
<1> HIDE DEF e
<1>4. QED BY <1>2, <1>3 DEF NotOpened

(* OKPING.                                                                 *)
LEMMA PingIs ==
  ASSUME NEW d, KeyIs(d), NEW key
  PROVE  \E e :
           /\ NotOpened(d, e) /\ Says(e, Ping(d, key))
           /\ ~V2(d) => e.staged # Text("badTag") \/ e = d
<1>1. CASE V2(d) /\ key # d.key
  <2>1. Ping(d, key) = Unopened(d)
    BY <1>1 DEF Ping
  <2>2. QED BY <1>1, <2>1, UnopenedIs
<1>2. CASE ~(V2(d) /\ key # d.key)
  <2>1. "error" \in Texts
    BY DEF Texts
  <2> DEFINE e == IF d.staged = Nothing /\ ~d.asking THEN Stage(d, Text("error")) ELSE d
  <2>2. /\ KeyIs(e) /\ SameKey(d, e) /\ Says(e, Serve(e))
        /\ e = d \/ (d.staged = Nothing /\ ~d.asking /\ e.staged = Text("error") /\ e.cursor = 0
                       /\ e.delivered = FALSE)
    BY <2>1, SaysText
  <2>3. Ping(d, key) = Serve(e)
    BY <1>2 DEF Ping
  <2>4. Text("error") # Text("badTag")
    BY DEF Text
  <2> HIDE DEF e
  <2>5. QED BY <2>2, <2>3, <2>4 DEF NotOpened
<1>3. QED BY <1>1, <1>2

(* What was delivered is wiped when a request begins.                      *)
LEMMA ClearedIs ==
  ASSUME NEW d, KeyIs(d)
  PROVE  /\ KeyIs(Cleared(d))
         /\ \/ Cleared(d) = d /\ ~(WipesDelivered(d) /\ d.delivered /\ ~d.asking /\ d.packets = <<>>)
            \/ /\ WipesDelivered(d) /\ d.delivered /\ ~d.asking /\ d.packets = <<>>
               /\ Cleared(d) = Wiped(d)
BY WipedIs DEF Cleared

(* A keyhandle is taken.                                                   *)
Takes(d, e, packet, num, final) ==
  /\ e.version = d.version /\ e.key = d.key /\ e.staged = d.staged
  /\ e.cursor = d.cursor /\ e.delivered = d.delivered
  /\ e.packets = Append(d.packets, packet) /\ e.asking = final
  /\ e.mark \in Nat /\ (~final => e.mark = num) /\ (final /\ V2(d) => e.mark = 0)

(* What becomes of a keyhandle: it does not open, or the key asks, or its  *)
(* number is not above the mark, or it is taken.                           *)
ChunkSays(d0, packet, key, num, final, r) ==
  \/ /\ V2(d0) /\ key # d0.key
     /\ \E e : NotOpened(d0, e) /\ Says(e, r)
  \/ /\ ~(V2(d0) /\ key # d0.key)
     /\ \/ Cleared(d0).asking /\ Says(Cleared(d0), r)
        \/ /\ ~Cleared(d0).asking /\ Cleared(d0).mark # 0 /\ num <= Cleared(d0).mark
           /\ r = [dev |-> Cleared(d0), reply |-> Stack]
        \/ /\ ~Cleared(d0).asking
           /\ \E e : KeyIs(e) /\ Says(e, r)
                       /\ Takes(Cleared(d0), e, IF key = d0.key THEN packet ELSE <<"noise">>, num, final)

(* Every answer to a keyhandle is one of these.                            *)
LEMMA ChunkIs ==
  ASSUME NEW d0, KeyIs(d0), NEW packet \in Packet, NEW key, NEW num \in Nat, NEW final \in BOOLEAN,
         NEW r \in Chunk(d0, packet, key, num, final)
  PROVE  ChunkSays(d0, packet, key, num, final, r)
<1>1. CASE V2(d0) /\ key # d0.key
  <2>1. r = Unopened(d0)
    BY <1>1 DEF Chunk
  <2>2. QED BY <1>1, <2>1, UnopenedIs DEF ChunkSays
<1>2. CASE ~(V2(d0) /\ key # d0.key)
  <2> DEFINE d == Cleared(d0)
             read == IF key = d0.key THEN packet ELSE <<"noise">>
             took(m) == [d EXCEPT !.packets = Append(@, read), !.asking = final,
                                  !.mark = IF ~final THEN num ELSE m]
             marks0 == IF V2(d) \/ ~final THEN {0} ELSE Noise
  <2>1. KeyIs(d) /\ d.key = d0.key /\ d.version = d0.version
    BY ClearedIs, WipedIs, Zenon
  <2>2. Chunk(d0, packet, key, num, final) =
          IF d.asking THEN {Serve(d)}
          ELSE IF d.mark # 0 /\ num <= d.mark THEN {[dev |-> d, reply |-> Stack]}
          ELSE {Serve(took(m)) : m \in marks0}
    <3> HIDE DEF d
    <3>1. Chunk(d0, packet, key, num, final) =
            LET rd == IF key = d.key THEN packet ELSE <<"noise">>
            IN IF d.asking THEN {Serve(d)}
               ELSE IF d.mark # 0 /\ num <= d.mark THEN {[dev |-> d, reply |-> Stack]}
               ELSE {Serve([d EXCEPT !.packets = Append(@, rd), !.asking = final,
                                     !.mark = IF ~final THEN num ELSE m]) :
                       m \in IF V2(d) \/ ~final THEN {0} ELSE Noise}
      BY <1>2, Zenon DEF Chunk, d
    <3>2. QED BY <2>1, <3>1
  <2> HIDE DEF d
  <2>3. CASE d.asking
    <3>1. r = Serve(d)
      BY <2>2, <2>3
    <3>2. Says(d, r)
      BY <2>1, <3>1, ServeIs
    <3>3. QED BY <1>2, <2>3, <3>2 DEF ChunkSays, d
  <2>4. CASE ~d.asking /\ d.mark # 0 /\ num <= d.mark
    <3>1. r = [dev |-> d, reply |-> Stack]
      BY <2>2, <2>4
    <3>2. QED BY <1>2, <2>4, <3>1 DEF ChunkSays, d
  <2>5. CASE ~d.asking /\ ~(d.mark # 0 /\ num <= d.mark)
    <3> HIDE DEF took, marks0
    <3>1. PICK m \in marks0 : r = Serve(took(m))
      BY <2>2, <2>5
    <3>2. m \in Nat /\ (final /\ V2(d) => m = 0)
      BY <3>1, TunnelAssumption DEF marks0
    <3>3. read \in Packet
      BY DEF Packet
    <3> DEFINE e == took(m)
               ps == Append(d.packets, read)
               mk == IF ~final THEN num ELSE m
    <3>4. ps \in Packets /\ ps # <<>> /\ mk \in Nat
      BY <2>1, <3>2, <3>3 DEF KeyIs, KeyState, Packets
    <3>5. e = [d EXCEPT !.packets = ps, !.asking = final, !.mark = mk]
      BY <2>1 DEF took, KeyIs, KeyState
    <3>6. (~final => mk = num) /\ (final /\ V2(d) => mk = 0)
      BY <3>2
    <3> HIDE DEF e, ps, mk
    <3>7. /\ e \in KeyState /\ e.version = d.version /\ e.key = d.key /\ e.staged = d.staged
          /\ e.cursor = d.cursor /\ e.delivered = d.delivered
          /\ e.packets = ps /\ e.asking = final /\ e.mark = mk
      BY <2>1, <3>4, <3>5 DEF KeyIs, KeyState
    <3>8. KeyIs(e)
      BY <2>1, <3>4, <3>7 DEF KeyIs
    <3>9. Takes(d, e, read, num, final)
      BY <3>4, <3>6, <3>7 DEF Takes, ps
    <3>10. Says(e, r)
      BY <3>1, <3>8, ServeIs DEF e
    <3> HIDE DEF read
    <3>11. \E x : KeyIs(x) /\ Says(x, r) /\ Takes(d, x, read, num, final)
      BY <3>8, <3>9, <3>10
    <3>12. QED BY <1>2, <2>5, <3>11, Zenon DEF ChunkSays, d, read
  <2>6. QED BY <2>3, <2>4, <2>5
<1>3. QED BY <1>1, <1>2

-----------------------------------------------------------------------------
(* The lane inside the tunnel: what LaneProofs says of any lane, of one    *)
(* with nobody urgent.                                                     *)
LP == INSTANCE LaneProofs WITH Urgent <- {}

(* The invariant of the lane.                                              *)
LaneOK == L!TypeOK /\ L!LaneInv

(* The two names of each formula are one formula.                          *)
LEMMA SameLane ==
  /\ L!TypeOK <=> LP!TypeOK
  /\ L!LaneInv <=> LP!LaneInv
  /\ L!Init <=> LP!Init
  /\ [L!Next]_lvars => [LP!Next]_(LP!vars)
<1>1. L!TypeOK <=> LP!TypeOK
  BY DEF L!TypeOK, LP!TypeOK, L!Phase, LP!Phase
<1>2. L!LaneInv <=> LP!LaneInv
  BY DEF L!LaneInv, LP!LaneInv, L!OneConversation, LP!OneConversation, L!RunningIsHeld,
         LP!RunningIsHeld, L!QueueIsWaiting, LP!QueueIsWaiting, L!UrgentFirst, LP!UrgentFirst,
         L!InLane, LP!InLane
<1>3. L!Init <=> LP!Init
  BY DEF L!Init, LP!Init
<1>4. [L!Next]_lvars => [LP!Next]_(LP!vars)
  BY DEF L!Next, L!CallIdle, L!CallBusy, L!Settle, L!Release, L!Queue, lvars,
         LP!Next, LP!CallIdle, LP!CallBusy, LP!Settle, LP!Release, LP!Queue, LP!vars
<1>5. QED BY <1>1, <1>2, <1>3, <1>4

(* And so they are after a step.                                           *)
LEMMA SameLaneNext == LaneOK' <=> (LP!TypeOK /\ LP!LaneInv)'
BY DEF LaneOK, L!TypeOK, LP!TypeOK, L!Phase, LP!Phase,
       L!LaneInv, LP!LaneInv, L!OneConversation, LP!OneConversation, L!RunningIsHeld,
       LP!RunningIsHeld, L!QueueIsWaiting, LP!QueueIsWaiting, L!UrgentFirst, LP!UrgentFirst,
       L!InLane, LP!InLane

(* The tunnel begins with a lane in order (LaneProofs).                    *)
LEMMA LaneAtFirst == L!Init => LaneOK
BY SameLane, LP!TypesAtFirst, LP!OrderAtFirst DEF LaneOK

(* A step of the lane keeps it in order, whoever takes it.                 *)
LEMMA LaneKept == LaneOK /\ [L!Next]_lvars => LaneOK'
BY SameLane, SameLaneNext, LP!TypesKept, LP!OrderKept DEF LaneOK

-----------------------------------------------------------------------------
(* The inductive invariant.                                                *)

(* What was collected, from a key whose transit keys go up to k.           *)
Froms == [kind : Kinds \cup {"stack"}, of : Ofs, key : Nat, len : Nat]
Piece == [from : Froms, at : Nat, len : 1 .. Full, total : Nat]
PieceIs(p, k) ==
  /\ p \in Piece /\ p.len <= p.total
  /\ StagedIs(p.from) \/ p.from = Stack.from
  /\ p.from.kind \in Keyed => p.from.key <= k
Pieces(g, k) == g \in Seq(Piece) /\ \A i \in 1 .. Len(g) : PieceIs(g[i], k)

(* Every variable has its type, and the lane is in order.                  *)
TTyped == TypeOK /\ LaneOK /\ KeyIs(dev) /\ Pieces(got, dev.key)

(* Somebody talks while there is a step; before a request there is nothing *)
(* sent or collected.                                                      *)
AtWork ==
  /\ step # "idle" <=> \E c \in Conv : phase[c] = "talking"
  /\ step \in {"idle", "begin", "settle"} => sent = 0 /\ got = <<>>

(* How far the call in the lane is.  An operation holds a session from its *)
(* settle on, and a derive holds none.                                     *)
InHand(c) == Talks(c, "send") \/ Talks(c, "poll")
Where(c) ==
  /\ phase[c] \in {"waiting", "talking"} => result[c] = "none"
  /\ Talks(c, "settle") \/ Talks(c, "send") => c \in Op /\ session # 0
  /\ Talks(c, "poll") => c \in Op \cup Derive
  /\ Talks(c, "poll") /\ c \in Derive => session = 0 /\ got # <<>>
  /\ Talks(c, "poll") /\ c \in Op => session # 0
  /\ InHand(c) /\ c \in Op => ~replyWhole
  /\ Talks(c, "send") => got = <<>> /\ sent < Chunks[c] /\ counter + Chunks[c] - sent <= MaxPacket
  /\ c \in clean \cup stale \cup dropped => result[c] # "none" \/ InHand(c)

(* No other client yet: one key on both sides.                             *)
Alone == clients = Clients
Shared ==
  Alone =>
    /\ session \in {0, dev.key}
    /\ \A i \in 1 .. Len(got) : got[i].from.kind \in Keyed => got[i].from.key = dev.key

(* What the host had of what the key has staged, if it had its last reply. *)
Ends(p) == p.at + p.len >= p.from.len
Caught ==
  V2(dev) /\ step = "poll" /\ known /\ dev.staged # Nothing /\ ~dev.delivered =>
    got # <<>> /\ (got[1].from.kind \in {"stack", "nothing"} \/ ~Ends(got[Len(got)]))
WholeSaid ==
  V2(dev) /\ session # 0 /\ replyWhole /\ known /\ dev.staged # Nothing => dev.delivered

(* An operation that began clean: the key has nothing else when it sends,  *)
(* unless what it has is of the key of another client.                     *)
Covered == V2(dev) \/ Alone
Prefix(c, n) == [i \in 1 .. n |-> <<c, i>>]
LeftOver ==
  sent = 0 /\ dev.packets = <<>> /\ WipesDelivered(dev) /\ dev.delivered /\ dev.key = session
SoFar(c) == dev.staged = Nothing /\ dev.packets = Prefix(c, sent) /\ dev.key = session
Elsewhere == V2(dev) /\ dev.key # session
Unblocked == dev.mark # 0 => dev.mark <= counter
Sending(c) ==
  /\ ~dev.asking /\ (LeftOver \/ SoFar(c) \/ Elsewhere)
  /\ ~V2(dev) => Unblocked

(* And when it polls: the results there are under its key are its own.     *)
OnlyOf(c, s) == s.kind = "result" /\ s.key = session => s.of = Payload(c)
Polling(c) ==
  /\ dev.asking => dev.packets = Payload(c) /\ dev.key = session
  /\ OnlyOf(c, dev.staged)
  /\ \A i \in 1 .. Len(got) : OnlyOf(c, got[i].from)

(* With no other client, either nothing has come yet, or what has come is  *)
(* the reply, from its start.                                              *)
ResultOf(c) == [kind |-> "result", of |-> Payload(c), key |-> session, len |-> Size[c]]
Asked == dev.asking /\ dev.staged = Nothing /\ got = <<>>
Coming(c) ==
  /\ Total(got) <= Size[c]
  /\ \A i \in 1 .. Len(got) : got[i].from = ResultOf(c) /\ got[i].at = got[i].total - got[i].len
  /\ \/ dev.staged = Nothing \/ dev.staged.kind \in Texts
     \/ dev.staged = ResultOf(c) /\ dev.cursor = IF Total(got) = Size[c] THEN 0 ELSE Total(got)
Answered(c) ==
  ~dev.asking /\ dev.packets = <<>> /\ (got # <<>> => known) /\ (~V2(dev) => Coming(c))
Undisturbed(c) == (V2(dev) => dev.mark = 0) /\ (Asked \/ Answered(c))

Clean(c) ==
  /\ Talks(c, "send") => Sending(c)
  /\ Talks(c, "poll") => Polling(c) /\ (Alone /\ c \notin dropped => Undisturbed(c))
  /\ ~V2(dev) => c \notin dropped
  /\ result[c] # "wrong"

(* Until an operation was given up, all begin clean, and end so.           *)
NoCause == Alone /\ \A c \in Op \ dropped : result[c] # "error"
Calm ==
  /\ ~dev.asking /\ dev.packets = <<>> /\ (V2(dev) => dev.mark = 0)
  /\ session # 0 => known
  /\ step = "poll" => got[1].from.kind = "nothing" \/ known
Quiet ==
  NoCause =>
    /\ dropped = {}
    /\ \A c \in Op : InHand(c) => c \in clean
    /\ step = "send" => Unblocked
    /\ (\A c \in Op : ~InHand(c)) => Calm

(* All of it, with the answers of derive (FreshReplies of Tunnel).         *)
TInv ==
  /\ TTyped /\ AtWork /\ (\A c \in Conv : Where(c))
  /\ Shared /\ Caught /\ WholeSaid
  /\ (Covered => \A c \in clean : Clean(c))
  /\ FreshReplies /\ Quiet

-----------------------------------------------------------------------------
(* Calls come and go.                                                      *)

(* One talks at a time, and nobody while the lane is being let go.         *)
LEMMA OneTalks ==
  ASSUME TTyped, NEW c \in Conv, NEW d \in Conv, phase[c] \in {"talking", "settled"},
         phase[d] \in {"talking", "settled"}
  PROVE  c = d
BY DEF TTyped, LaneOK, L!LaneInv, L!OneConversation, L!InLane

(* All but the lane, the step and the results.                             *)
Kept ==
  /\ sent' = sent /\ got' = got /\ session' = session /\ counter' = counter
  /\ replyWhole' = replyWhole /\ known' = known /\ tries' = tries /\ result' = result
  /\ dev' = dev /\ clients' = clients /\ clean' = clean /\ stale' = stale /\ dropped' = dropped

(* The types are those of the values.                                      *)
LEMMA KeptTyped ==
  ASSUME TTyped, LaneOK', Kept, step' \in Step
  PROVE  TTyped'
BY DEF TTyped, TypeOK, Kept, LaneOK, Pieces, PieceIs, Staged, Froms, Piece

(* Somebody waits or begins: of what is said of those in hand nothing      *)
(* changes.                                                                *)
LEMMA BeginHolds ==
  ASSUME TInv, LaneOK', Kept,
         \A d \in Conv : phase'[d] \in {"waiting", "talking"} => result[d] = "none",
         \/ step' = step /\ \A d \in Conv : phase'[d] = "talking" <=> phase[d] = "talking"
         \/ /\ step = "idle" /\ step' \in {"idle", "begin"}
            /\ step' # "idle" <=> \E d \in Conv : phase'[d] = "talking"
  PROVE  TInv'
<1>1. TTyped'
  BY KeptTyped DEF TInv, TTyped, TypeOK, Step
<1>2. \A d \in Conv :
        /\ Talks(d, "settle")' <=> Talks(d, "settle")
        /\ Talks(d, "send")' <=> Talks(d, "send")
        /\ Talks(d, "poll")' <=> Talks(d, "poll")
  BY DEF Talks, TInv, AtWork
<1>3. AtWork'
  BY DEF TInv, AtWork, Kept
<1>4. \A d \in Conv : Where(d)'
  BY <1>2 DEF TInv, Where, InHand, Kept
<1>5. Shared' /\ WholeSaid' /\ FreshReplies'
  BY DEF TInv, Shared, Alone, WholeSaid, FreshReplies, Kept
<1>6. Caught'
  BY DEF TInv, Caught, Kept
<1>7. Covered' => \A d \in clean' : Clean(d)'
  <2>1. SUFFICES ASSUME Covered, NEW d \in clean PROVE Clean(d)'
    BY DEF Covered, Alone, Kept
  <2>2. d \in Conv
    BY DEF TInv, TTyped, TypeOK, Conv
  <2>3. /\ Sending(d)' <=> Sending(d)
        /\ Polling(d)' <=> Polling(d)
        /\ Undisturbed(d)' <=> Undisturbed(d)
    <3>1. /\ LeftOver' <=> LeftOver
          /\ SoFar(d)' <=> SoFar(d)
          /\ Elsewhere' <=> Elsewhere
          /\ Unblocked' <=> Unblocked
      BY DEF LeftOver, SoFar, Elsewhere, Unblocked, Kept
    <3>2. Sending(d)' <=> Sending(d)
      BY <3>1 DEF Sending, Kept
    <3>3. Polling(d)' <=> Polling(d)
      BY DEF Polling, OnlyOf, Kept
    <3>4. Undisturbed(d)' <=> Undisturbed(d)
      BY DEF Undisturbed, Asked, Answered, Coming, ResultOf, Kept
    <3>5. QED BY <3>2, <3>3, <3>4
  <2>4. Clean(d)
    BY <2>1 DEF TInv
  <2>5. QED BY <1>2, <2>2, <2>3, <2>4 DEF Clean, Alone, Kept
<1>8. Quiet'
  <2>1. SUFFICES ASSUME NoCause
                 PROVE  /\ dropped = {}
                        /\ \A d \in Op : InHand(d)' => d \in clean
                        /\ step' = "send" => Unblocked
                        /\ (\A d \in Op : ~InHand(d)') => Calm'
    BY DEF Quiet, NoCause, Alone, Unblocked, Kept
  <2>2. \A d \in Op : InHand(d)' <=> InHand(d)
    BY <1>2 DEF InHand, Conv
  <2>3. (step' = "send" => step = "send") /\ (step' = "poll" => step = "poll")
    OBVIOUS
  <2>4. Calm => Calm'
    BY <2>3 DEF Calm, Kept
  <2>5. QED BY <2>1, <2>2, <2>3, <2>4 DEF TInv, Quiet
<1>9. QED BY <1>1, <1>3, <1>4, <1>5, <1>6, <1>7, <1>8 DEF TInv

(* inLane(): at once, or when the lane comes to it.                        *)
LEMMA CallHolds ==
  ASSUME TInv, NEW c \in Conv, Call(c)
  PROVE  TInv'
<1>1. LaneOK'
  BY LaneKept DEF TInv, TTyped, Call, L!Next
<1>2. Kept /\ result[c] = "none"
  BY DEF Call, Kept, hvars, marks
<1>3. phase \in [Conv -> L!Phase]
  BY DEF TInv, TTyped, LaneOK, L!TypeOK
<1>4. CASE L!CallIdle(c) /\ step' = "begin"
  <2>1. \A d \in Conv : phase[d] # "talking"
    BY <1>4 DEF L!CallIdle, TInv, TTyped, LaneOK, L!LaneInv, L!RunningIsHeld, L!InLane
  <2>2. step = "idle"
    BY <2>1 DEF TInv, AtWork
  <2>3. phase'[c] = "talking" /\ \A d \in Conv \ {c} : phase'[d] = phase[d]
    BY <1>3, <1>4 DEF L!CallIdle
  <2>4. \A d \in Conv : phase'[d] \in {"waiting", "talking"} => result[d] = "none"
    BY <1>2, <2>3 DEF TInv, Where
  <2>5. QED BY <1>1, <1>2, <1>4, <2>2, <2>3, <2>4, BeginHolds
<1>5. CASE L!CallBusy(c) /\ UNCHANGED step
  <2>1. /\ phase[c] = "outside" /\ phase'[c] = "waiting"
        /\ \A d \in Conv \ {c} : phase'[d] = phase[d]
    BY <1>3, <1>5 DEF L!CallBusy
  <2>2. \A d \in Conv : phase'[d] \in {"waiting", "talking"} => result[d] = "none"
    BY <1>2, <2>1 DEF TInv, Where
  <2>3. \A d \in Conv : phase'[d] = "talking" <=> phase[d] = "talking"
    BY <2>1
  <2>4. QED BY <1>1, <1>2, <1>5, <2>2, <2>3, BeginHolds
<1>6. QED BY <1>4, <1>5 DEF Call

(* The lane is let go, and the next in it begins.                          *)
LEMMA ReleaseHolds ==
  ASSUME TInv, NEW c \in Conv, Release(c)
  PROVE  TInv'
<1>1. LaneOK'
  BY LaneKept DEF TInv, TTyped, Release, L!Next
<1>2. Kept
  BY DEF Release, Kept, hvars, marks
<1>3. phase \in [Conv -> L!Phase] /\ waiting \in Seq(Conv) /\ phase[c] = "settled"
  BY DEF TInv, TTyped, LaneOK, L!TypeOK, Release, L!Release
<1>4. \A d \in Conv : phase[d] # "talking"
  BY <1>3, OneTalks DEF TInv
<1>5. step = "idle"
  BY <1>4 DEF TInv, AtWork
<1>6. CASE waiting = <<>>
  <2>1. step' = "idle" /\ phase'[c] = "outside" /\ \A d \in Conv \ {c} : phase'[d] = phase[d]
    BY <1>3, <1>6 DEF Release, L!Release
  <2>2. \A d \in Conv : phase'[d] \in {"waiting", "talking"} => result[d] = "none"
    BY <2>1 DEF TInv, Where
  <2>3. QED BY <1>1, <1>2, <1>4, <1>5, <2>1, <2>2, BeginHolds
<1>7. CASE waiting # <<>>
  <2> DEFINE h == Head(waiting)
  <2>1. h \in Conv /\ h = waiting[1] /\ 1 \in 1 .. Len(waiting)
    BY <1>3, <1>7, HeadTailProperties, LenProperties
  <2>2. step' = "begin" /\ phase' = [phase EXCEPT ![c] = "outside", ![h] = "talking"]
    BY <1>7 DEF Release, L!Release
  <2> HIDE DEF h
  <2>3. phase[h] = "waiting" /\ h # c
    BY <1>3, <2>1 DEF TInv, TTyped, LaneOK, L!LaneInv, L!QueueIsWaiting
  <2>4. /\ phase'[h] = "talking" /\ phase'[c] = "outside"
        /\ \A d \in Conv \ {h, c} : phase'[d] = phase[d]
    BY <1>3, <2>1, <2>2, <2>3
  <2>5. \A d \in Conv : phase'[d] \in {"waiting", "talking"} => result[d] = "none"
    BY <2>1, <2>3, <2>4 DEF TInv, Where
  <2>6. QED BY <1>1, <1>2, <1>5, <2>1, <2>2, <2>4, <2>5, BeginHolds
<1>8. QED BY <1>6, <1>7

-----------------------------------------------------------------------------
(* Calls end.                                                              *)

(* What an end leaves of the key and the session.                          *)
CalmNow ==
  /\ ~dev.asking /\ dev.packets = <<>> /\ (V2(dev) => dev.mark = 0)
  /\ session # 0 => known
(* All of what an end has to establish.                                    *)
Rested ==
  /\ KeyIs(dev) /\ session \in Unshared .. dev.key /\ counter \in 0 .. MaxPacket
  /\ replyWhole \in BOOLEAN /\ known \in BOOLEAN
  /\ tries \in [Derive -> 0 .. DERIVE_ATTEMPTS]
  /\ stale \subseteq Op /\ dropped \subseteq Op
  /\ Alone => session \in {0, dev.key}
  /\ WholeSaid /\ FreshReplies
  /\ ~V2(dev) /\ Alone => clean \cap dropped = {}
  /\ NoCause => dropped = {} /\ CalmNow

(* How the call ends, a derive that is tried again included.               *)
EndsAs(c, how) ==
  \/ how = "again" /\ c \in Derive /\ result' = result
  \/ how \in {"own", "wrong", "error"} /\ result' = [result EXCEPT ![c] = how]

(* With the call over nothing is in hand.                                  *)
LEMMA OverHolds ==
  ASSUME TInv, NEW c \in Conv, phase[c] = "talking", Leave(c), NEW how, EndsAs(c, how),
         how = "wrong" /\ c \in clean => ~Covered,
         dev'.version = dev.version, clients' = clients, clean' = clean,
         stale' \subseteq stale \cup {c}, dropped' \subseteq dropped \cup {c},
         Rested'
  PROVE  TInv'
<1>1. /\ step' = "idle" /\ sent' = 0 /\ got' = <<>> /\ running' = running /\ waiting' = waiting
      /\ phase \in [Conv -> L!Phase] /\ phase' = [phase EXCEPT ![c] = "settled"]
  BY DEF Leave, L!Settle, TInv, TTyped, LaneOK, L!TypeOK
<1>2. phase'[c] = "settled" /\ \A d \in Conv \ {c} : phase'[d] = phase[d]
  BY <1>1
<1>3. \A d \in Conv : phase'[d] # "talking"
  BY <1>2, OneTalks DEF TInv
<1>4. LaneOK'
  BY LaneKept DEF TInv, TTyped, Leave, L!Next
<1>5. result \in [Conv -> Result] /\ result' \in [Conv -> Result]
      /\ \A d \in Conv \ {c} : result'[d] = result[d]
  BY DEF EndsAs, Result, TInv, TTyped, TypeOK
<1>6. c \notin Derive => result'[c] = how /\ how # "none"
  BY <1>5 DEF EndsAs
<1>7. TTyped'
  <2>1. Pieces(<<>>, dev'.key)
    BY DEF Pieces
  <2>2. 0 \in 0 .. MaxPacket
    BY TunnelAssumption
  <2>3. TypeOK'
    <3>1. L!TypeOK'
      BY <1>4 DEF LaneOK
    <3>2. Len(got') = 0
      BY <1>1
    <3>3. clients' \in 0 .. Clients /\ clean' \subseteq Op
      BY DEF TInv, TTyped, TypeOK
    <3>4. \A i \in 1 .. Len(got') : got'[i].len \in 1 .. Full
      BY <3>2
    <3>5. step' \in Step /\ sent' \in 0 .. MaxPacket
      BY <1>1, <2>2 DEF Step
    <3>6. /\ session' \in Unshared .. dev'.key /\ counter' \in 0 .. MaxPacket
          /\ replyWhole' \in BOOLEAN /\ known' \in BOOLEAN
          /\ tries' \in [Derive -> 0 .. DERIVE_ATTEMPTS]
          /\ stale' \subseteq Op /\ dropped' \subseteq Op
      BY DEF Rested
    <3>7. QED BY <1>5, <3>1, <3>3, <3>4, <3>5, <3>6, Zenon DEF TypeOK
  <2>4. QED BY <1>1, <1>4, <2>1, <2>3 DEF TTyped, Rested
<1>8. AtWork'
  BY <1>1, <1>3 DEF AtWork
<1>9. \A d \in Conv : ~Talks(d, "settle")' /\ ~Talks(d, "send")' /\ ~Talks(d, "poll")'
  BY <1>1 DEF Talks
<1>10. ASSUME NEW d \in Conv PROVE Where(d)'
  <2>1. phase'[d] \in {"waiting", "talking"} => result'[d] = "none"
    BY <1>2, <1>3, <1>5 DEF TInv, Where
  <2>2. d \in clean' \cup stale' \cup dropped' => result'[d] # "none"
    <3>1. CASE d = c
      <4>1. d \in clean' \cup stale' \cup dropped' => d \in Op
        BY DEF Rested, TInv, TTyped, TypeOK
      <4>2. QED BY <1>6, <3>1, <4>1, TunnelAssumption
    <3>2. CASE d # c
      <4>1. ~InHand(d)
        BY <3>2, OneTalks DEF InHand, Talks, TInv
      <4>2. d \in clean' \cup stale' \cup dropped' => d \in clean \cup stale \cup dropped
        BY <3>2
      <4>3. QED BY <1>5, <3>2, <4>1, <4>2 DEF TInv, Where
    <3>3. QED BY <3>1, <3>2
  <2>3. QED BY <1>9, <2>1, <2>2 DEF Where, InHand
<1>11. Shared' /\ WholeSaid' /\ FreshReplies'
  <2>1. Len(got') = 0
    BY <1>1
  <2>2. QED BY <2>1 DEF Shared, Rested
<1>12. Caught'
  BY <1>1 DEF Caught
<1>13. ASSUME Covered', NEW d \in clean' PROVE Clean(d)'
  <2>1. d \in Conv /\ d \in clean
    BY DEF TInv, TTyped, TypeOK, Conv
  <2>2. Covered
    BY <1>13 DEF Covered, V2, Alone
  <2>3. Clean(d)
    BY <2>1, <2>2 DEF TInv
  <2>4. result'[d] # "wrong"
    <3>1. CASE d = c
      <4>1. CASE how = "again"
        BY <2>3, <4>1 DEF EndsAs, Clean
      <4>2. CASE how # "again"
        BY <1>5, <2>1, <2>2, <3>1, <4>2 DEF EndsAs
      <4>3. QED BY <4>1, <4>2
    <3>2. CASE d # c
      BY <1>5, <2>1, <2>3, <3>2 DEF Clean
    <3>3. QED BY <3>1, <3>2
  <2>5. ~V2(dev)' => d \notin dropped'
    BY <1>13 DEF Covered, Rested
  <2>6. QED BY <1>9, <2>1, <2>4, <2>5 DEF Clean
<1>14. Quiet'
  <2>1. \A d \in Op : ~InHand(d)'
    BY <1>9 DEF InHand, Conv
  <2>2. CalmNow' => Calm'
    BY <1>1 DEF CalmNow, Calm
  <2>3. QED BY <1>1, <2>1, <2>2 DEF Quiet, Rested
<1>15. QED BY <1>7, <1>8, <1>10, <1>11, <1>12, <1>13, <1>14 DEF TInv

(* An operation that ends in an error is a cause from then on.             *)
LEMMA ErrorIsCause ==
  ASSUME TInv, NEW c \in Op, result' = [result EXCEPT ![c] = "error"], c \notin dropped'
  PROVE  ~NoCause'
BY DEF NoCause, TInv, TTyped, TypeOK, Conv

(* A cause stays one.                                                      *)
LEMMA NoCauseBefore ==
  ASSUME TInv, NEW c \in Conv, clients' = clients, dropped' \subseteq dropped \cup {c},
         result[c] = "none",
         \/ result' = result
         \/ \E how : result' = [result EXCEPT ![c] = how]
  PROVE  NoCause' => NoCause
<1>1. \A d \in Conv \ {c} : result'[d] = result[d]
  BY DEF TInv, TTyped, TypeOK
<1>2. QED BY <1>1 DEF NoCause, Alone, Conv

-----------------------------------------------------------------------------
(* The tunnel is connected.                                                *)

(* Between operations the invariant says what it says at an end.           *)
LEMMA RestedHere ==
  ASSUME TInv, step \in {"idle", "begin", "settle"}
  PROVE  Rested
<1>1. \A c \in Op : ~InHand(c)
  BY DEF InHand, Talks
<1>2. NoCause => dropped = {} /\ CalmNow
  BY <1>1 DEF TInv, Quiet, Calm, CalmNow
<1>3. ~V2(dev) /\ Alone => clean \cap dropped = {}
  BY DEF TInv, Clean, Covered
<1>4. QED BY <1>2, <1>3 DEF Rested, TInv, TTyped, TypeOK, Shared

(* From the request for a session on an operation holds one.               *)
LEMMA ToSettleHolds ==
  ASSUME TInv, NEW c \in Op, Talks(c, "begin"), Stay("settle"), sent' = sent, got' = got,
         dev'.version = dev.version, clients' = clients, clean' = clean, stale' = stale,
         dropped' = dropped, session' # 0, Rested'
  PROVE  TInv'
<1>1. /\ step = "begin" /\ step' = "settle" /\ sent' = 0 /\ got' = <<>> /\ phase[c] = "talking"
      /\ running' = running /\ waiting' = waiting /\ phase' = phase /\ result' = result /\ c \in Conv
  BY DEF Stay, Talks, lvars, TInv, AtWork, Conv
<1>2. LaneOK'
  BY <1>1, LaneKept DEF TInv, TTyped, lvars
<1>3. TTyped'
  <2>1. Pieces(<<>>, dev'.key)
    BY DEF Pieces
  <2>2. TypeOK'
    <3>1. L!TypeOK'
      BY <1>2 DEF LaneOK
    <3>2. Len(got') = 0
      BY <1>1
    <3>3. clients' \in 0 .. Clients /\ clean' \subseteq Op /\ sent' \in 0 .. MaxPacket
          /\ result' \in [Conv -> Result]
      BY <1>1 DEF TInv, TTyped, TypeOK
    <3>4. \A i \in 1 .. Len(got') : got'[i].len \in 1 .. Full
      BY <3>2
    <3>5. step' \in Step
      BY <1>1 DEF Step
    <3>6. /\ session' \in Unshared .. dev'.key /\ counter' \in 0 .. MaxPacket
          /\ replyWhole' \in BOOLEAN /\ known' \in BOOLEAN
          /\ tries' \in [Derive -> 0 .. DERIVE_ATTEMPTS]
          /\ stale' \subseteq Op /\ dropped' \subseteq Op
      BY DEF Rested
    <3>7. QED BY <3>1, <3>3, <3>4, <3>5, <3>6, Zenon DEF TypeOK
  <2>3. QED BY <1>1, <1>2, <2>1, <2>2 DEF TTyped, Rested
<1>4. AtWork'
  BY <1>1 DEF AtWork
<1>5. \A d \in Conv : ~InHand(d) /\ ~InHand(d)' /\ ~Talks(d, "send")' /\ ~Talks(d, "poll")'
  BY <1>1 DEF Talks, InHand
<1>6. ASSUME NEW d \in Conv PROVE Where(d)'
  <2>1. Talks(d, "settle")' => d = c
    BY <1>1, OneTalks DEF Talks, TInv
  <2>2. QED BY <1>1, <1>5, <1>6, <2>1 DEF TInv, Where
<1>7. Shared' /\ WholeSaid' /\ FreshReplies'
  <2>1. Len(got') = 0
    BY <1>1
  <2>2. QED BY <2>1 DEF Shared, Rested
<1>8. Caught'
  BY <1>1 DEF Caught
<1>9. ASSUME Covered', NEW d \in clean' PROVE Clean(d)'
  <2>1. d \in Conv /\ d \in clean
    BY DEF TInv, TTyped, TypeOK, Conv
  <2>2. Covered
    BY <1>9 DEF Covered, V2, Alone
  <2>3. Clean(d)
    BY <2>1, <2>2 DEF TInv
  <2>4. V2(dev)' <=> V2(dev)
    BY DEF V2
  <2>5. QED BY <1>1, <1>5, <2>1, <2>3, <2>4 DEF Clean
<1>10. Quiet'
  <2>1. \A d \in Op : ~InHand(d)'
    BY <1>5 DEF Conv
  <2>2. CalmNow' => Calm'
    BY <1>1 DEF CalmNow, Calm
  <2>3. QED BY <1>1, <2>1, <2>2 DEF Quiet, Rested
<1>11. QED BY <1>3, <1>4, <1>6, <1>7, <1>8, <1>9, <1>10 DEF TInv

(* A session that is held is kept.                                         *)
LEMMA KeepSessionHolds ==
  ASSUME TInv, NEW c \in Conv, KeepSession(c)
  PROVE  TInv'
<1>1. /\ sent' = sent /\ got' = got /\ session' = session /\ counter' = counter
      /\ replyWhole' = replyWhole /\ known' = known /\ tries' = tries /\ dev' = dev
      /\ clients' = clients /\ clean' = clean /\ stale' = stale /\ dropped' = dropped
      /\ c \in Op /\ session # 0 /\ step = "begin" /\ result' = result
  BY DEF KeepSession, hvars, marks, Talks, Stay
<1>2. Rested
  BY <1>1, RestedHere
<1>3. Rested'
  BY <1>1, <1>2 DEF Rested, Alone, WholeSaid, FreshReplies, NoCause, CalmNow
<1>4. QED BY <1>1, <1>3, ToSettleHolds DEF KeepSession

(* What the key says to an OKCONNECT.                                      *)
LEMMA GreetingIs ==
  ASSUME KeyIs(dev), NEW r, r = Connect(dev, Greeting)
  PROVE  /\ KeyIs(r.dev) /\ r.dev.version = dev.version /\ r.dev.mark = dev.mark
         /\ r.dev.packets = dev.packets /\ r.dev.asking = dev.asking
         /\ ~dev.asking => r.dev.key = dev.key + 1
         /\ r.reply.status = "SUCCESS" /\ r.reply.from.kind = "connect" =>
              r.reply.from.key = r.dev.key /\ r.dev.key # 0 /\ r.dev.delivered
<1> DEFINE s == [Greeting EXCEPT !.key = dev.key + 1]
<1>1. StagedIs(s) /\ s # Nothing /\ s.key = dev.key + 1
  <2> DEFINE k == dev.key + 1
             t == [kind |-> "connect", of |-> <<>>, key |-> k, len |-> 1]
  <2>1. k \in Nat /\ k # 0
    BY DEF KeyIs, KeyState
  <2>2. s = t
    <3>1. Greeting = [kind |-> "connect", of |-> <<>>, key |-> 0, len |-> 1]
      <4>1. [Nothing EXCEPT !.kind = "connect"] = [kind |-> "connect", of |-> <<>>, key |-> 0, len |-> 0]
        BY DEF Nothing
      <4>2. Greeting = [[Nothing EXCEPT !.kind = "connect"] EXCEPT !.len = 1]
        BY Zenon DEF Greeting
      <4>3. QED BY <4>1, <4>2
    <3>2. QED BY <3>1
  <2> HIDE DEF k
  <2>3. t \in Staged
    BY <2>1, NoPackets DEF Staged, Kinds, Keyed, Texts, Ofs
  <2>4. t # Nothing
    BY DEF Nothing
  <2>5. StagedIs(t)
    BY <2>1, <2>3, <2>4 DEF StagedIs, Texts
  <2> HIDE DEF s
  <2>6. QED BY <2>2, <2>4, <2>5 DEF k
<1>2. PICK e :
        /\ KeyIs(e) /\ Says(e, r)
        /\ dev.asking => e = dev
        /\ ~dev.asking => Rekeyed(dev, e, s)
  <2>1. \E e :
           /\ KeyIs(e) /\ Says(e, Connect(dev, Greeting))
           /\ dev.asking => e = dev
           /\ ~dev.asking => Rekeyed(dev, e, s)
    BY <1>1, ConnectIs
  <2>2. QED BY <2>1
<1> HIDE DEF s
<1>3. /\ KeyIs(r.dev) /\ r.dev.version = e.version /\ r.dev.mark = e.mark /\ r.dev.key = e.key
      /\ r.dev.packets = e.packets /\ r.dev.asking = e.asking /\ r.dev.staged = e.staged
  BY <1>2 DEF Says, Alike
<1>4. /\ e.version = dev.version /\ e.mark = dev.mark /\ e.packets = dev.packets
      /\ e.asking = dev.asking /\ (~dev.asking => e.key = dev.key + 1)
  BY <1>2 DEF Rekeyed
<1>5. ASSUME r.reply.status = "SUCCESS", r.reply.from.kind = "connect"
      PROVE  r.reply.from.key = r.dev.key /\ r.dev.key # 0 /\ r.dev.delivered
  <2>1. e.staged # Nothing
    BY <1>2, <1>5 DEF Says, Bare
  <2>2. r.reply.from = e.staged /\ e.staged.key = e.key /\ e.staged.len = 1 /\ e.staged.key # 0
    BY <1>2, <1>5, <2>1 DEF Says, KeyIs, StagedIs, Keyed
  <2>3. e.cursor \in Nat /\ e.cursor < 1
    BY <1>2, <2>1, <2>2 DEF KeyIs, KeyState
  <2>4. r.dev.delivered
    BY <1>2, <2>1, <2>2, <2>3 DEF Says, Full
  <2>5. QED BY <1>3, <2>2, <2>4
<1>6. QED BY <1>3, <1>4, <1>5

(* What is not done changes nothing of what is said at an end: of those    *)
(* that ended none is a cause that was not one.                            *)
LEMMA CalmKept ==
  ASSUME TInv, Rested, NEW c \in Conv, phase[c] = "talking", step \in {"idle", "begin", "settle"},
         clients' = clients, dropped' = dropped, NoCause',
         \/ result' = result
         \/ \E how : result' = [result EXCEPT ![c] = how]
  PROVE  NoCause /\ dropped' = {} /\ CalmNow
<1>1. result[c] = "none"
  BY DEF TInv, Where
<1>2. NoCause
  BY <1>1, NoCauseBefore
<1>3. QED BY <1>2 DEF Rested

(* What the history says at an end, which a step that is not a keyhandle's *)
(* leaves alone.                                                           *)
LEMMA HistoryKept ==
  ASSUME TInv, clients' = clients, clean' = clean, stale' = stale, dropped' = dropped,
         dev'.version = dev.version
  PROVE  /\ FreshReplies' /\ (~V2(dev)' /\ Alone' => clean' \cap dropped' = {})
         /\ stale' \subseteq Op /\ dropped' \subseteq Op
BY DEF TInv, TTyped, TypeOK, FreshReplies, Clean, Covered, V2, Alone

(* connectTunnel().                                                        *)
LEMMA ConnectTunnelHolds ==
  ASSUME TInv, NEW c \in Conv, ConnectTunnel(c)
  PROVE  TInv'
<1> DEFINE r == Connect(dev, Greeting)
<1>1. /\ phase[c] = "talking" /\ step = "begin" /\ counter' = counter /\ tries' = tries
      /\ clients' = clients /\ clean' = clean /\ stale' = stale /\ dropped' = dropped
  BY DEF ConnectTunnel, Talks, marks
<1>2. /\ KeyIs(r.dev) /\ r.dev.version = dev.version /\ r.dev.mark = dev.mark
      /\ r.dev.packets = dev.packets /\ r.dev.asking = dev.asking
      /\ r.reply.status = "SUCCESS" /\ r.reply.from.kind = "connect" =>
           r.reply.from.key = r.dev.key /\ r.dev.key # 0 /\ r.dev.delivered
  BY GreetingIs DEF TInv, TTyped
<1>3. Rested
  BY <1>1, RestedHere
<1>4. c \notin Op => c \in Connects \cup Derive
  BY DEF Conv
<1> HIDE DEF r
<1>5. ASSUME Connected(r),
             result' = result \/ (\E how : result' = [result EXCEPT ![c] = how])
      PROVE  Rested' /\ session' # 0 /\ dev'.version = dev.version
  <2>1. /\ session' = r.dev.key /\ dev' = r.dev /\ replyWhole' = TRUE /\ known' = TRUE
        /\ r.dev.key # 0 /\ r.dev.delivered /\ r.dev.key \in Nat
    BY <1>2, <1>5 DEF Connected, Heard, KeyIs, KeyState, TInv, TTyped, TypeOK
  <2>2. /\ FreshReplies' /\ (~V2(dev)' /\ Alone' => clean' \cap dropped' = {})
        /\ stale' \subseteq Op /\ dropped' \subseteq Op
    BY <1>1, <1>2, <2>1, HistoryKept
  <2>3. WholeSaid'
    BY <2>1 DEF WholeSaid
  <2>4. session' \in Unshared .. dev'.key /\ (Alone' => session' \in {0, dev'.key})
    BY <2>1 DEF Unshared
  <2>5. ASSUME NoCause' PROVE dropped' = {} /\ CalmNow'
    <3>1. NoCause /\ dropped' = {} /\ CalmNow
      BY <1>1, <1>3, <1>5, <2>5, CalmKept
    <3>2. QED BY <1>2, <2>1, <3>1 DEF CalmNow, V2
  <2>6. KeyIs(dev)' /\ counter' \in 0 .. MaxPacket /\ tries' \in [Derive -> 0 .. DERIVE_ATTEMPTS]
    BY <1>1, <1>2, <2>1 DEF TInv, TTyped, TypeOK
  <2>7. QED BY <1>2, <2>1, <2>2, <2>3, <2>4, <2>5, <2>6 DEF Rested
<1>6. CASE c \in Op /\ Connected(r) /\ Stay("settle") /\ UNCHANGED <<sent, got>>
  <2>1. Rested' /\ session' # 0 /\ dev'.version = dev.version
    BY <1>5, <1>6 DEF Stay
  <2>2. QED BY <1>1, <1>6, <2>1, ToSettleHolds DEF Talks
<1>7. CASE c \in Connects /\ Connected(r) /\ End(c, "own")
  <2>1. result' = [result EXCEPT ![c] = "own"] /\ Leave(c)
    BY <1>7 DEF End
  <2>2. Rested' /\ dev'.version = dev.version
    BY <1>5, <1>7, <2>1
  <2>3. EndsAs(c, "own")
    BY <2>1 DEF EndsAs
  <2>4. QED BY <1>1, <2>1, <2>2, <2>3, OverHolds
<1>8. CASE c \in Connects \cup Op /\ NotConnected(r) /\ End(c, "error")
  <2>1. result' = [result EXCEPT ![c] = "error"] /\ Leave(c) /\ EndsAs(c, "error")
    BY <1>8 DEF End, EndsAs
  <2>2. /\ dev' = dev \/ dev' = r.dev
        /\ session' = 0 /\ replyWhole' = FALSE /\ known' \in BOOLEAN
    BY <1>8 DEF NotConnected, Missed, Heard, TInv, TTyped, TypeOK
  <2>3. /\ KeyIs(dev)' /\ dev'.version = dev.version /\ dev'.mark = dev.mark
        /\ dev'.packets = dev.packets /\ dev'.asking = dev.asking
    BY <1>2, <2>2 DEF TInv, TTyped
  <2>4. /\ FreshReplies' /\ (~V2(dev)' /\ Alone' => clean' \cap dropped' = {})
        /\ stale' \subseteq Op /\ dropped' \subseteq Op
    BY <1>1, <2>3, HistoryKept
  <2>5. WholeSaid' /\ session' \in Unshared .. dev'.key /\ (Alone' => session' \in {0, dev'.key})
    BY <2>2, <2>3 DEF WholeSaid, Unshared, KeyIs, KeyState
  <2>6. ASSUME NoCause' PROVE dropped' = {} /\ CalmNow'
    <3>1. NoCause /\ dropped' = {} /\ CalmNow
      BY <1>1, <1>3, <2>1, <2>6, CalmKept
    <3>2. QED BY <2>2, <2>3, <3>1 DEF CalmNow, V2
  <2>7. counter' \in 0 .. MaxPacket /\ tries' \in [Derive -> 0 .. DERIVE_ATTEMPTS]
    BY <1>1 DEF TInv, TTyped, TypeOK
  <2>8. Rested'
    BY <2>2, <2>3, <2>4, <2>5, <2>6, <2>7 DEF Rested
  <2>9. QED BY <1>1, <2>1, <2>3, <2>8, OverHolds
<1>9. QED BY <1>6, <1>7, <1>8, Zenon DEF ConnectTunnel, r

-----------------------------------------------------------------------------
(* Requests go out.                                                        *)

(* What is said of the call in the lane once its request is on its way.    *)
Well(c) ==
  /\ step = "send" => Sending(c)
  /\ step = "poll" => Polling(c) /\ (Alone /\ c \notin dropped => Undisturbed(c))
  /\ ~V2(dev) => c \notin dropped
(* The same while nothing has gone wrong yet.                              *)
Ours(c) ==
  /\ dropped = {}
  /\ c \in Op => c \in clean
  /\ step = "send" => Unblocked
  /\ c \in Derive => Calm
(* All of what a request has to establish.                                 *)
Going(c) ==
  /\ KeyIs(dev) /\ Pieces(got, dev.key) /\ sent \in 0 .. MaxPacket
  /\ session \in Unshared .. dev.key /\ counter \in 0 .. MaxPacket
  /\ replyWhole \in BOOLEAN /\ known \in BOOLEAN
  /\ tries \in [Derive -> 0 .. DERIVE_ATTEMPTS]
  /\ stale \subseteq Op /\ dropped \subseteq Op /\ clean \subseteq Op
  /\ Where(c) /\ Shared /\ Caught /\ WholeSaid /\ FreshReplies
  /\ Covered /\ c \in clean => Well(c)
  /\ NoCause => Ours(c)

(* Of the calls not in the lane nothing changes.                           *)
LEMMA GoesOnHolds ==
  ASSUME TInv, NEW c \in Op \cup Derive, phase[c] = "talking", UNCHANGED <<lvars, result>>,
         step' \in {"send", "poll"}, dev'.version = dev.version, clients' = clients,
         clean' \subseteq clean \cup {c}, stale' \subseteq stale \cup {c},
         dropped' \subseteq dropped \cup {c}, Going(c)'
  PROVE  TInv'
<1>1. /\ running' = running /\ waiting' = waiting /\ phase' = phase /\ result' = result
      /\ c \in Conv
  BY DEF lvars, Conv
<1>2. LaneOK'
  BY <1>1, LaneKept DEF TInv, TTyped, lvars
<1>3. \A d \in Conv : phase[d] = "talking" => d = c
  BY <1>1, OneTalks DEF TInv
<1>4. TTyped'
  <2>1. TypeOK'
    <3>1. L!TypeOK'
      BY <1>2 DEF LaneOK
    <3>2. \A i \in 1 .. Len(got') : got'[i].len \in 1 .. Full
      BY DEF Going, Pieces, PieceIs, Piece
    <3>3. clients' \in 0 .. Clients /\ result' \in [Conv -> Result]
      BY <1>1 DEF TInv, TTyped, TypeOK
    <3>4. step' \in Step
      BY DEF Step
    <3>5. /\ sent' \in 0 .. MaxPacket
          /\ session' \in Unshared .. dev'.key /\ counter' \in 0 .. MaxPacket
          /\ replyWhole' \in BOOLEAN /\ known' \in BOOLEAN
          /\ tries' \in [Derive -> 0 .. DERIVE_ATTEMPTS]
          /\ stale' \subseteq Op /\ dropped' \subseteq Op /\ clean' \subseteq Op
      BY DEF Going
    <3>6. QED BY <3>1, <3>2, <3>3, <3>4, <3>5, Zenon DEF TypeOK
  <2>2. QED BY <1>2, <2>1 DEF TTyped, Going
<1>5. AtWork'
  BY <1>1 DEF AtWork
<1>6. ASSUME NEW d \in Conv, d # c
      PROVE  /\ ~Talks(d, "settle")' /\ ~Talks(d, "send")' /\ ~Talks(d, "poll")'
             /\ ~InHand(d) /\ ~InHand(d)'
  BY <1>1, <1>3, <1>6 DEF Talks, InHand
<1>7. ASSUME NEW d \in Conv PROVE Where(d)'
  <2>1. CASE d = c
    BY <2>1 DEF Going
  <2>2. CASE d # c
    <3>1. d \in clean' \cup stale' \cup dropped' => d \in clean \cup stale \cup dropped
      BY <2>2
    <3>2. QED BY <1>1, <1>6, <2>2, <3>1 DEF TInv, Where
  <2>3. QED BY <2>1, <2>2
<1>8. ASSUME Covered', NEW d \in clean' PROVE Clean(d)'
  <2>1. Covered
    BY <1>8 DEF Covered, V2, Alone
  <2>2. d \in Conv
    BY DEF Going, Conv
  <2>3. CASE d = c
    <3>1. Well(c)'
      BY <1>8, <2>3 DEF Going
    <3>2. result'[c] # "wrong"
      BY <1>1 DEF TInv, Where
    <3>3. (Talks(c, "send") => step = "send")' /\ (Talks(c, "poll") => step = "poll")'
      BY DEF Talks
    <3>4. QED BY <2>3, <3>1, <3>2, <3>3 DEF Clean, Well
  <2>4. CASE d # c
    <3>1. d \in clean
      BY <2>4
    <3>2. Clean(d)
      BY <2>1, <3>1 DEF TInv
    <3>3. V2(dev)' <=> V2(dev)
      BY DEF V2
    <3>4. ~Talks(d, "send")' /\ ~Talks(d, "poll")'
      BY <1>6, <2>2, <2>4
    <3>5. (~V2(dev) => d \notin dropped)' /\ result'[d] # "wrong"
      BY <1>1, <2>4, <3>2, <3>3 DEF Clean
    <3>6. QED BY <3>4, <3>5 DEF Clean
  <2>5. QED BY <2>3, <2>4
<1>9. Quiet'
  <2>1. SUFFICES ASSUME NoCause' PROVE Ours(c)' => Quiet'
    BY DEF Quiet, Going
  <2>2. \A d \in Op : InHand(d)' => d = c
    BY <1>6 DEF Conv
  <2>3. InHand(c)'
    BY <1>1 DEF InHand, Talks
  <2>4. QED BY <2>2, <2>3 DEF Ours, Quiet
<1>10. QED BY <1>4, <1>5, <1>7, <1>8, <1>9 DEF TInv, Going

(* Before its settle an operation is in no list.                           *)
LEMMA Unlisted ==
  ASSUME TInv, NEW c \in Conv, phase[c] = "talking", step \in {"idle", "begin", "settle"}
  PROVE  c \notin clean \cup stale \cup dropped /\ result[c] = "none"
BY DEF TInv, Where, InHand, Talks

(* settleStagedReply() and reservePacketRun().                             *)
LEMMA SettleHolds ==
  ASSUME TInv, NEW c \in Conv, Settle(c)
  PROVE  TInv'
<1>1. /\ phase[c] = "talking" /\ step = "settle" /\ step' = "send" /\ c \in Op /\ session # 0
      /\ sent = 0 /\ got = <<>> /\ result[c] = "none"
  BY DEF Settle, Stay, Talks, TInv, Where, AtWork
<1>2. /\ UNCHANGED <<lvars, result>> /\ phase' = phase /\ result' = result
      /\ sent' = 0 /\ got' = <<>> /\ session' = session /\ known' = known /\ tries' = tries
      /\ clients' = clients /\ stale' = stale /\ dropped' = dropped /\ replyWhole' = FALSE
      /\ counter' = Reserved(c)
      /\ clean' = IF known /\ ~dev.asking /\ dev.packets = <<>> THEN clean \cup {c} ELSE clean
      /\ dev' = IF ~NoWait /\ known /\ dev.staged # Nothing THEN Wiped(dev) ELSE dev
  BY <1>1 DEF Settle, Stay, lvars
<1>3. c \notin clean \cup stale \cup dropped
  BY <1>1, Unlisted
<1>4. KeyIs(dev) /\ dev.key \in Nat
  BY DEF TInv, TTyped, KeyIs, KeyState
<1>5. /\ KeyIs(dev') /\ dev'.version = dev.version /\ dev'.key = dev.key
      /\ V2(dev) => dev'.mark = dev.mark
      /\ ~dev.asking => ~dev'.asking
      /\ dev.packets = <<>> => dev'.packets = <<>>
  BY <1>2, <1>4, WipedIs
<1>6. V2(dev)' <=> V2(dev)
  BY <1>5 DEF V2
<1>7. counter' \in 0 .. MaxPacket /\ counter' + Chunks[c] <= MaxPacket /\ 0 < Chunks[c]
  BY <1>1, <1>2, TunnelAssumption DEF Reserved, TInv, TTyped, TypeOK
<1>8. Where(c)'
  <2>1. InHand(c)' /\ (Talks(c, "settle") => FALSE)' /\ (Talks(c, "poll") => FALSE)'
    BY <1>1, <1>2 DEF InHand, Talks
  <2>2. (counter + Chunks[c] - sent)' <= MaxPacket
    BY <1>1, <1>2, <1>7, TunnelAssumption
  <2>3. QED BY <1>1, <1>2, <1>7, <2>1, <2>2 DEF Where
<1>9. Shared' /\ Caught' /\ WholeSaid' /\ FreshReplies'
  <2>1. Len(got') = 0
    BY <1>2
  <2>2. Shared'
    BY <1>2, <1>5, <2>1 DEF TInv, Shared, Alone
  <2>3. clean' \subseteq clean \cup {c}
    BY <1>2
  <2>4. FreshReplies'
    BY <1>2, <1>3, <2>3 DEF TInv, FreshReplies
  <2>5. Caught' /\ WholeSaid'
    BY <1>1, <1>2 DEF Caught, WholeSaid
  <2>6. QED BY <2>2, <2>4, <2>5
<1>10. ASSUME ~V2(dev), dev.packets = <<>>, known PROVE dev'.mark = 0
  <2>1. ~NoWait
    BY <1>10 DEF NoWait, WipesDelivered, V2
  <2>2. CASE dev.staged = Nothing
    BY <1>2, <1>4, <1>10, <2>2 DEF KeyIs
  <2>3. CASE dev.staged # Nothing
    BY <1>2, <1>4, <1>10, <2>1, <2>3, WipedIs
  <2>4. QED BY <2>2, <2>3
<1>11. ASSUME Covered', c \in clean' PROVE Well(c)'
  <2>1. known /\ ~dev.asking /\ dev.packets = <<>>
    BY <1>2, <1>3, <1>11
  <2>2. Prefix(c, 0) = <<>>
    BY DEF Prefix
  <2>3. (LeftOver \/ SoFar(c) \/ Elsewhere)'
    <3>1. CASE dev.key # session
      <4>1. V2(dev)
        BY <1>1, <1>2, <1>6, <1>11, <3>1 DEF Covered, Alone, TInv, Shared
      <4>2. QED BY <1>2, <1>5, <1>6, <3>1, <4>1 DEF Elsewhere
    <3>2. CASE dev.key = session /\ dev'.staged = Nothing
      BY <1>2, <1>5, <2>1, <2>2, <3>2 DEF SoFar
    <3>3. CASE dev.key = session /\ dev'.staged # Nothing
      <4>1. dev' = dev /\ NoWait
        BY <1>2, <1>4, <2>1, <3>3, WipedIs
      <4>2. WipesDelivered(dev) /\ replyWhole /\ V2(dev)
        BY <4>1 DEF NoWait, WipesDelivered, V2
      <4>3. dev.delivered
        BY <1>1, <2>1, <3>3, <4>1, <4>2 DEF TInv, WholeSaid
      <4>4. QED BY <1>2, <2>1, <3>3, <4>1, <4>2, <4>3 DEF LeftOver
    <3>4. QED BY <3>1, <3>2, <3>3
  <2>4. ~V2(dev)' => Unblocked'
    BY <1>6, <1>10, <2>1 DEF Unblocked
  <2>5. QED BY <1>1, <1>2, <1>3, <1>5, <2>1, <2>3, <2>4 DEF Well, Sending
<1>12. ASSUME NoCause' PROVE Ours(c)'
  <2>1. NoCause
    BY <1>2, <1>12 DEF NoCause, Alone
  <2>2. \A d \in Op : ~InHand(d)
    BY <1>1 DEF InHand, Talks
  <2>3. dropped = {} /\ Calm
    BY <2>1, <2>2 DEF TInv, Quiet
  <2>4. known /\ ~dev.asking /\ dev.packets = <<>> /\ (V2(dev) => dev.mark = 0)
    BY <1>1, <2>3 DEF Calm
  <2>5. Unblocked'
    BY <1>5, <1>10, <2>4 DEF Unblocked
  <2>6. c \notin Derive
    BY <1>1, TunnelAssumption
  <2>7. QED BY <1>2, <2>3, <2>4, <2>5, <2>6 DEF Ours
<1>13. Going(c)'
  <2>1. Pieces(got, dev.key)'
    BY <1>2 DEF Pieces
  <2>2. /\ sent' \in 0 .. MaxPacket /\ session' \in Unshared .. dev'.key
        /\ replyWhole' \in BOOLEAN /\ known' \in BOOLEAN
        /\ tries' \in [Derive -> 0 .. DERIVE_ATTEMPTS]
        /\ stale' \subseteq Op /\ dropped' \subseteq Op /\ clean' \subseteq Op
    BY <1>1, <1>2, <1>5, TunnelAssumption DEF TInv, TTyped, TypeOK
  <2>3. QED BY <1>5, <1>7, <1>8, <1>9, <1>11, <1>12, <2>1, <2>2 DEF Going
<1>14. QED
  <2>1. clean' \subseteq clean \cup {c}
    BY <1>2
  <2>2. QED BY <1>1, <1>2, <1>5, <1>13, <2>1, GoesOnHolds

(* What is said: the guard's error, whether a request is under way, or a   *)
(* piece of what is staged.                                                *)
SaidBy(r) ==
  \/ r.reply = Stack
  \/ r.dev.staged = Nothing /\ r.reply \in {Bare("PENDING"), Bare("NO_OPERATION")}
  \/ /\ r.dev.staged # Nothing /\ r.reply.status = "SUCCESS" /\ r.reply.from = r.dev.staged
     /\ DOMAIN r.reply = {"status", "from", "at", "len"}
     /\ r.reply.at \in Nat /\ r.reply.len \in 1 .. Full
     /\ r.reply.at + r.reply.len <= r.reply.from.len
     /\ IF r.reply.at + r.reply.len = r.reply.from.len THEN r.dev.delivered
          ELSE r.reply.len = Full

(* It is a piece that can be collected.                                    *)
ReplyFits(reply, k) ==
  /\ StagedIs(reply.from) \/ reply.from = Stack.from
  /\ reply.from.kind \in Keyed => reply.from.key <= k
  /\ reply.at \in Nat /\ reply.len \in 1 .. Full

(* The guard's error is nothing a key has staged.                          *)
LEMMA StackIs ==
  /\ Stack.from \in Froms /\ Stack.from.kind = "stack" /\ Stack.at = 0 /\ Stack.len = 1
  /\ Stack.status = "SUCCESS"
  /\ \A s : StagedIs(s) => s # Stack.from
  /\ \A status : Bare(status) # Stack
<1>1. Stack.from = [kind |-> "stack", of |-> <<>>, key |-> 0, len |-> 0]
  BY DEF Stack, Nothing
<1>2. Stack.from \in Froms /\ Stack.from.kind = "stack"
  BY <1>1, NoPackets DEF Froms, Ofs
<1>3. \A s : StagedIs(s) => s.kind # "stack"
  BY DEF StagedIs, Staged, Kinds, Keyed, Texts
<1>4. Stack.at = 0 /\ Stack.len = 1 /\ Stack.status = "SUCCESS"
  BY DEF Stack
<1>5. \A status : Bare(status).len = 0
  BY DEF Bare
<1>6. QED BY <1>2, <1>3, <1>4, <1>5

(* A key that says r can be heard.                                         *)
LEMMA SaidOf ==
  ASSUME NEW d, KeyIs(d), NEW r, Says(d, r)
  PROVE  SaidBy(r) /\ r.reply # Stack
<1>1. CASE d.staged = Nothing
  BY <1>1, StackIs DEF Says, SaidBy, Alike
<1>2. CASE d.staged # Nothing
  <2>1. r.dev.staged = d.staged /\ StagedIs(d.staged) /\ d.cursor \in Nat
    BY DEF Says, Alike, KeyIs, KeyState
  <2>2. r.reply.from # Stack.from
    BY <1>2, <2>1, StackIs DEF Says
  <2>3. r.reply # Stack
    BY <2>2
  <2>4. SaidBy(r)
    BY <1>2, <2>1 DEF Says, SaidBy
  <2>5. QED BY <2>3, <2>4
<1>3. QED BY <1>1, <1>2

(* A reply with something in it can be collected.                          *)
LEMMA FitsIf ==
  ASSUME NEW r, KeyIs(r.dev), SaidBy(r), r.reply.from.kind # "nothing"
  PROVE  ReplyFits(r.reply, r.dev.key) /\ r.reply.status = "SUCCESS"
<1>1. r.dev.key \in Nat /\ StagedIs(r.dev.staged)
  BY DEF KeyIs, KeyState
<1>2. CASE r.reply = Stack
  <2>1. Stack.from.kind \notin Keyed
    BY StackIs DEF Keyed
  <2>2. QED BY <1>2, <2>1, StackIs DEF ReplyFits, Full
<1>3. CASE r.reply \in {Bare("PENDING"), Bare("NO_OPERATION")}
  <2>1. r.reply.from = Nothing
    BY <1>3 DEF Bare
  <2>2. QED BY <2>1, NothingIs
<1>4. CASE r.dev.staged # Nothing /\ r.reply.status = "SUCCESS" /\ r.reply.from = r.dev.staged
             /\ r.reply.at \in Nat /\ r.reply.len \in 1 .. Full
  BY <1>1, <1>4 DEF ReplyFits, KeyIs
<1>5. QED BY <1>2, <1>3, <1>4 DEF SaidBy

(* A piece is put behind the others.                                       *)
Gathers(g, k, reply) ==
  /\ Pieces(Collect(g, reply), k) /\ Collect(g, reply) # <<>>
  /\ Len(Collect(g, reply)) = Len(g) + 1 /\ Len(g) \in Nat
  /\ \A i \in 1 .. Len(g) : Collect(g, reply)[i] = g[i]
  /\ Collect(g, reply)[Len(g) + 1] =
       [from |-> reply.from, at |-> reply.at, len |-> reply.len, total |-> Total(g) + reply.len]
  /\ Total(Collect(g, reply)) = Total(g) + reply.len /\ Total(g) \in Nat

(* Collecting a fitting reply keeps the pieces, and adds its length.       *)
LEMMA CollectIs ==
  ASSUME NEW g, NEW k, Pieces(g, k), NEW reply, ReplyFits(reply, k)
  PROVE  Gathers(g, k, reply)
<1> DEFINE p == [from |-> reply.from, at |-> reply.at, len |-> reply.len,
                 total |-> Total(g) + reply.len]
           h == Collect(g, reply)
<1>1. g \in Seq(Piece) /\ Len(g) \in Nat
  BY DEF Pieces
<1>2. Total(g) \in Nat
  <2>1. CASE g = <<>>
    BY <2>1 DEF Total
  <2>2. CASE g # <<>>
    <3>1. Len(g) \in 1 .. Len(g) /\ g[Len(g)] \in Piece
      BY <1>1, <2>2
    <3>2. QED BY <2>2, <3>1 DEF Total, Piece
  <2>3. QED BY <2>1, <2>2
<1>3. reply.from \in Froms
  BY StackIs DEF ReplyFits, StagedIs, Staged, Froms
<1>4. PieceIs(p, k)
  BY <1>2, <1>3 DEF PieceIs, Piece, ReplyFits
<1>5. h = Append(g, p)
  BY DEF Collect
<1>6. p.total = Total(g) + reply.len /\ p \in Piece
  BY <1>4 DEF PieceIs
<1> HIDE DEF p, h
<1>7. /\ h \in Seq(Piece) /\ h # <<>> /\ Len(h) = Len(g) + 1
      /\ \A i \in 1 .. Len(g) : h[i] = g[i]
      /\ h[Len(g) + 1] = p
  BY <1>1, <1>5, <1>6
<1>8. Pieces(h, k)
  <2>1. ASSUME NEW i \in 1 .. Len(h) PROVE PieceIs(h[i], k)
    <3>1. CASE i \in 1 .. Len(g)
      BY <1>7, <3>1 DEF Pieces
    <3>2. CASE i = Len(g) + 1
      BY <1>4, <1>7, <3>2
    <3>3. QED BY <1>1, <1>7, <3>1, <3>2
  <2>2. QED BY <1>7, <2>1 DEF Pieces
<1>9. Total(h) = p.total
  BY <1>7 DEF Total
<1>10. QED BY <1>1, <1>2, <1>6, <1>7, <1>8, <1>9 DEF h, p, Gathers

(* A new request wipes nothing but what was delivered.                     *)
LEMMA ClearedSame ==
  ASSUME NEW d, KeyIs(d)
  PROVE  /\ KeyIs(Cleared(d)) /\ SameKey(d, Cleared(d))
         /\ Cleared(d).staged \in {d.staged, Nothing}
         /\ ~d.asking /\ d.packets = <<>> /\ WipesDelivered(d) /\ d.delivered =>
              Cleared(d).staged = Nothing
<1> DEFINE e == Cleared(d)
<1>1. KeyIs(e)
  BY ClearedIs
<1>2. CASE e = d /\ ~(WipesDelivered(d) /\ d.delivered /\ ~d.asking /\ d.packets = <<>>)
  <2> HIDE DEF e
  <2>1. QED BY <1>1, <1>2 DEF SameKey, e
<1>3. CASE WipesDelivered(d) /\ d.delivered /\ ~d.asking /\ d.packets = <<>> /\ e = Wiped(d)
  <2>1. V2(d) /\ d.asking = FALSE
    BY <1>3 DEF WipesDelivered, V2, KeyIs, KeyState
  <2> HIDE DEF e
  <2>2. /\ e.version = d.version /\ e.key = d.key /\ e.staged = Nothing
        /\ e.packets = <<>> /\ e.asking = FALSE /\ e.mark = d.mark
    BY <1>3, <2>1, WipedIs
  <2>3. QED BY <1>1, <1>3, <2>1, <2>2 DEF SameKey, e
<1>4. QED BY <1>2, <1>3, ClearedIs

(* What comes of a keyhandle, whoever sent it.                             *)
Answers(r) ==
  /\ KeyIs(r.dev) /\ r.dev.version = dev.version /\ r.dev.key = dev.key /\ SaidBy(r)
  /\ r.reply = Stack => dev.mark # 0 /\ counter + 1 <= dev.mark

(* And if its operation began clean: the guard drops it, or the key has    *)
(* another client's key and does not read it, or it is taken.              *)
GuardDrops(r) == r.reply = Stack /\ r.dev.staged = Nothing
NotRead(r) == V2(dev) /\ dev.key # session /\ r.reply # Stack
Taken(c, r) ==
  /\ r.reply = Bare("PENDING") /\ r.dev.staged = Nothing /\ dev.key = session
  /\ r.dev.packets = Prefix(c, sent + 1) /\ r.dev.asking = Final(c)
  /\ ~Final(c) => r.dev.mark = counter + 1
  /\ Final(c) /\ V2(dev) => r.dev.mark = 0
AnswersWell(c, r) ==
  \/ ~r.dev.asking /\ (GuardDrops(r) \/ NotRead(r))
  \/ Taken(c, r)

(* The next packet has a number above the last one's.                      *)
LEMMA NumberIs ==
  ASSUME TInv, NEW c \in Op, Talks(c, "send")
  PROVE  /\ NextPacketNum = counter + 1 /\ NextPacketNum \in 1 .. MaxPacket
         /\ sent \in Nat /\ sent + 1 <= Chunks[c] /\ Chunks[c] \in 1 .. MaxPacket
         /\ counter + 1 + Chunks[c] - (sent + 1) <= MaxPacket
         /\ counter \in Nat /\ MaxPacket \in Nat
<1>1. /\ sent \in 0 .. MaxPacket /\ counter \in 0 .. MaxPacket
      /\ sent < Chunks[c] /\ counter + Chunks[c] - sent <= MaxPacket
  BY DEF TInv, TTyped, TypeOK, Where, Conv
<1>2. Chunks[c] \in 1 .. MaxPacket /\ MaxPacket \in Nat
  BY TunnelAssumption
<1>3. counter < MaxPacket
  BY <1>1, <1>2
<1>4. QED BY <1>1, <1>2, <1>3 DEF NextPacketNum

(* A sent keyhandle is one for ChunkIs.                                    *)
LEMMA ChunkHere ==
  ASSUME TInv, NEW c \in Op, Talks(c, "send"),
         NEW r \in Chunk(dev, <<c, sent + 1>>, session, NextPacketNum, Final(c))
  PROVE  ChunkSays(dev, <<c, sent + 1>>, session, counter + 1, Final(c), r)
<1>1. <<c, sent + 1>> \in Packet /\ counter + 1 \in Nat /\ NextPacketNum = counter + 1
  BY NumberIs DEF Packet
<1>2. Final(c) \in BOOLEAN /\ KeyIs(dev)
  BY DEF Final, TInv, TTyped
<1>3. r \in Chunk(dev, <<c, sent + 1>>, session, counter + 1, Final(c))
  BY <1>1
<1>4. QED BY <1>1, <1>2, <1>3, ChunkIs, Zenon

(* send_stored_response() does not change the key it reads.                *)
LEMMA AnswersIs ==
  ASSUME TInv, NEW c \in Op, Talks(c, "send"),
         NEW r \in Chunk(dev, <<c, sent + 1>>, session, NextPacketNum, Final(c))
  PROVE  Answers(r)
<1> DEFINE d == Cleared(dev)
           read == IF session = dev.key THEN <<c, sent + 1>> ELSE <<"noise">>
<1>1. KeyIs(d) /\ d.version = dev.version /\ d.key = dev.key /\ d.mark = dev.mark
  BY ClearedSame DEF TInv, TTyped, SameKey
<1> HIDE DEF d, read
<1>2. ASSUME NEW e, KeyIs(e), Says(e, r), e.version = dev.version, e.key = dev.key
      PROVE  Answers(r)
  <2>1. SaidBy(r) /\ r.reply # Stack
    BY <1>2, SaidOf
  <2>2. QED BY <1>2, <2>1 DEF Answers, Says, Alike
<1>3. \/ \E e : NotOpened(dev, e) /\ Says(e, r)
      \/ Says(d, r)
      \/ d.mark # 0 /\ counter + 1 <= d.mark /\ r = [dev |-> d, reply |-> Stack]
      \/ \E e : KeyIs(e) /\ Says(e, r) /\ Takes(d, e, read, counter + 1, Final(c))
  BY ChunkHere, Zenon DEF ChunkSays, d, read
<1>4. CASE \E e : NotOpened(dev, e) /\ Says(e, r)
  BY <1>2, <1>4 DEF NotOpened, SameKey
<1>5. CASE Says(d, r)
  BY <1>1, <1>2, <1>5
<1>6. CASE d.mark # 0 /\ counter + 1 <= d.mark /\ r = [dev |-> d, reply |-> Stack]
  BY <1>1, <1>6 DEF Answers, SaidBy
<1>7. CASE \E e : KeyIs(e) /\ Says(e, r) /\ Takes(d, e, read, counter + 1, Final(c))
  BY <1>1, <1>2, <1>7 DEF Takes
<1>8. QED BY <1>3, <1>4, <1>5, <1>6, <1>7

(* The packets of an operation follow each other.                          *)
LEMMA PrefixGrows ==
  ASSUME NEW c, NEW n \in Nat
  PROVE  Append(Prefix(c, n), <<c, n + 1>>) = Prefix(c, n + 1)
BY DEF Prefix

(* What a key that was sent nothing else answers.                          *)
LEMMA AnswersWellIs ==
  ASSUME TInv, NEW c \in Op, Talks(c, "send"), Covered, c \in clean,
         NEW r \in Chunk(dev, <<c, sent + 1>>, session, NextPacketNum, Final(c))
  PROVE  AnswersWell(c, r)
<1> DEFINE d == Cleared(dev)
           packet == <<c, sent + 1>>
<1>1. Sending(c) /\ sent \in Nat
  BY NumberIs DEF TInv, Clean
<1>2. KeyIs(dev) /\ Final(c) \in BOOLEAN
  BY DEF TInv, TTyped, Final
<1>3. ChunkSays(dev, packet, session, counter + 1, Final(c), r)
  BY ChunkHere, Zenon
<1> HIDE DEF d, packet
<1>4. CASE V2(dev) /\ dev.key # session
  <2>1. PICK e : NotOpened(dev, e) /\ Says(e, r)
    BY <1>3, <1>4 DEF ChunkSays
  <2>2. ~r.dev.asking
    BY <1>1, <2>1 DEF NotOpened, SameKey, Says, Alike, Sending
  <2>3. r.reply # Stack
    BY <2>1, SaidOf DEF NotOpened
  <2>4. QED BY <1>4, <2>2, <2>3 DEF AnswersWell, NotRead
<1>5. CASE ~(V2(dev) /\ dev.key # session)
  <2>1. dev.key = session /\ (LeftOver \/ SoFar(c))
    BY <1>1, <1>5 DEF Sending, Elsewhere, LeftOver, SoFar
  <2>2. KeyIs(d) /\ SameKey(dev, d) /\ d.staged \in {dev.staged, Nothing}
    BY <1>2, ClearedSame DEF d
  <2>3. d.staged = Nothing /\ d.packets = Prefix(c, sent) /\ ~d.asking
    <3>1. ~d.asking /\ d.packets = dev.packets
      BY <1>1, <2>2 DEF SameKey, Sending
    <3>2. CASE LeftOver
      <4>1. d.staged = Nothing
        BY <1>1, <1>2, <3>2, ClearedSame DEF LeftOver, Sending, d
      <4>2. Prefix(c, sent) = <<>>
        BY <3>2 DEF LeftOver, Prefix
      <4>3. QED BY <3>1, <3>2, <4>1, <4>2 DEF LeftOver
    <3>3. CASE SoFar(c)
      BY <2>2, <3>1, <3>3 DEF SoFar
    <3>4. QED BY <2>1, <3>2, <3>3
  <2>4. \/ d.mark # 0 /\ r = [dev |-> d, reply |-> Stack]
        \/ \E e : KeyIs(e) /\ Says(e, r) /\ Takes(d, e, packet, counter + 1, Final(c))
    <3>1. \/ Cleared(dev).asking
          \/ Cleared(dev).mark # 0 /\ r = [dev |-> Cleared(dev), reply |-> Stack]
          \/ \E e : KeyIs(e) /\ Says(e, r) /\
               Takes(Cleared(dev), e, IF session = dev.key THEN packet ELSE <<"noise">>, counter + 1, Final(c))
      BY <1>3, <1>5, Zenon DEF ChunkSays
    <3>2. (IF session = dev.key THEN packet ELSE <<"noise">>) = packet
      BY <2>1
    <3>3. QED BY <2>3, <3>1, <3>2, Zenon DEF d
  <2>5. CASE d.mark # 0 /\ r = [dev |-> d, reply |-> Stack]
    BY <2>3, <2>5 DEF AnswersWell, GuardDrops
  <2>6. CASE \E e : KeyIs(e) /\ Says(e, r) /\ Takes(d, e, packet, counter + 1, Final(c))
    <3>1. PICK e : KeyIs(e) /\ Says(e, r) /\ Takes(d, e, packet, counter + 1, Final(c))
      BY <2>6
    <3>2. /\ e.staged = Nothing /\ e.packets = Append(Prefix(c, sent), packet) /\ e.asking = Final(c)
          /\ (~Final(c) => e.mark = counter + 1) /\ (Final(c) /\ V2(dev) => e.mark = 0)
      BY <2>2, <2>3, <3>1 DEF Takes, SameKey, V2
    <3>3. e.packets = Prefix(c, sent + 1)
      BY <1>1, <3>2, PrefixGrows DEF packet
    <3>4. e.packets # <<>>
      <4>1. 1 \in 1 .. sent + 1
        BY <1>1
      <4>2. DOMAIN Prefix(c, sent + 1) = 1 .. sent + 1
        BY DEF Prefix
      <4>3. DOMAIN <<>> = {}
        OBVIOUS
      <4>4. QED BY <3>3, <4>1, <4>2, <4>3
    <3>5. r.dev = e /\ r.reply = Bare("PENDING")
      BY <3>1, <3>2, <3>4 DEF Says
    <3>6. QED BY <2>1, <3>2, <3>3, <3>5 DEF AnswersWell, Taken
  <2>7. QED BY <2>4, <2>5, <2>6
<1>6. QED BY <1>4, <1>5

(* What is remembered of a keyhandle.                                      *)
Remembers(c, r) ==
  /\ dropped' = IF r.reply = Stack THEN dropped \cup {c} ELSE dropped
  /\ stale' = IF r.reply.from = dev.staged /\ dev.staged # Nothing THEN stale \cup {c} ELSE stale
  /\ clean' = clean /\ clients' = clients /\ dev'.version = dev.version

(* An operation that began clean hears nothing old, and, but for the guard *)
(* of v2, nothing of it is dropped; nor of any before one is given up.     *)
LEMMA RemembersWell ==
  ASSUME TInv, NEW c \in Op, Talks(c, "send"),
         NEW r \in Chunk(dev, <<c, sent + 1>>, session, NextPacketNum, Final(c)), Remembers(c, r)
  PROVE  /\ FreshReplies'
         /\ ~V2(dev) /\ Alone => clean \cap dropped' = {}
         /\ stale' \subseteq stale \cup {c} /\ stale' \subseteq Op
         /\ dropped' \subseteq dropped \cup {c} /\ dropped' \subseteq Op
         /\ NoCause => dropped' = {} /\ c \in clean /\ r.reply # Stack
<1>1. /\ step = "send" /\ phase[c] = "talking" /\ c \in Conv /\ session # 0 /\ InHand(c)
      /\ result[c] = "none"
  BY DEF Talks, TInv, Where, Conv, InHand
<1>2. stale \subseteq Op /\ dropped \subseteq Op /\ KeyIs(dev)
  BY DEF TInv, TTyped, TypeOK
<1>3. ASSUME Alone, c \in clean
      PROVE  /\ r.reply.from # dev.staged \/ dev.staged = Nothing
             /\ ~V2(dev) => r.reply # Stack
  <2>1. AnswersWell(c, r)
    BY <1>3, AnswersWellIs DEF Covered
  <2>2. dev.key = session
    BY <1>1, <1>3 DEF TInv, Shared
  <2>3. CASE GuardDrops(r)
    <3>1. r.reply.from # dev.staged
      BY <1>2, <2>3, StackIs DEF GuardDrops, KeyIs
    <3>2. ~V2(dev) => Unblocked
      BY <1>1, <1>3 DEF TInv, Clean, Covered, Sending
    <3>3. dev.mark # 0 /\ counter + 1 <= dev.mark
      BY <2>3, AnswersIs DEF GuardDrops, Answers
    <3>4. dev.mark \in Nat /\ counter \in Nat
      BY <1>2, NumberIs DEF KeyIs, KeyState
    <3>5. V2(dev)
      BY <3>2, <3>3, <3>4 DEF Unblocked
    <3>6. QED BY <3>1, <3>5
  <2>4. CASE Taken(c, r)
    <3>1. r.reply.from = Nothing /\ r.reply # Stack
      BY <2>4, StackIs DEF Taken, Bare
    <3>2. QED BY <3>1
  <2>5. QED BY <2>1, <2>2, <2>3, <2>4 DEF AnswersWell, NotRead
<1>4. FreshReplies'
  <2>1. SUFFICES ASSUME Alone PROVE clean \cap stale' = {}
    BY DEF Remembers, FreshReplies, Alone
  <2>2. clean \cap stale = {}
    BY <2>1 DEF TInv, FreshReplies, Alone
  <2>3. c \in clean => stale' = stale
    BY <1>3, <2>1 DEF Remembers
  <2>4. stale' \subseteq stale \cup {c}
    BY DEF Remembers
  <2>5. QED BY <2>2, <2>3, <2>4
<1>5. ASSUME ~V2(dev), Alone PROVE clean \cap dropped' = {}
  <2>1. clean \cap dropped = {}
    BY <1>5 DEF TInv, Clean, Covered
  <2>2. c \in clean => dropped' = dropped
    BY <1>3, <1>5 DEF Remembers
  <2>3. dropped' \subseteq dropped \cup {c}
    BY DEF Remembers
  <2>4. QED BY <2>1, <2>2, <2>3
<1>6. /\ stale' \subseteq stale \cup {c} /\ stale' \subseteq Op
      /\ dropped' \subseteq dropped \cup {c} /\ dropped' \subseteq Op
  BY <1>2 DEF Remembers
<1>7. ASSUME NoCause PROVE dropped' = {} /\ c \in clean /\ r.reply # Stack
  <2>1. dropped = {} /\ c \in clean /\ Unblocked
    BY <1>1, <1>7 DEF TInv, Quiet
  <2>2. dev.mark \in Nat /\ counter \in Nat
    BY <1>2, NumberIs DEF KeyIs, KeyState
  <2>3. r.reply # Stack
    BY <2>1, <2>2, AnswersIs DEF Answers, Unblocked
  <2>4. QED BY <2>1, <2>3 DEF Remembers
<1>8. QED BY <1>4, <1>5, <1>6, <1>7

(* The operation is given up at a keyhandle: a cause, unless it was one    *)
(* the guard dropped, which takes another cause.                           *)
LEMMA SendEnds ==
  ASSUME TInv, NEW c \in Op, Talks(c, "send"),
         NEW r \in Chunk(dev, <<c, sent + 1>>, session, NextPacketNum, Final(c)), Remembers(c, r),
         dev' = r.dev, session' \in {session, 0}, counter' = NextPacketNum, known' \in BOOLEAN,
         replyWhole' = replyWhole, tries' = tries, End(c, "error")
  PROVE  TInv'
<1>1. /\ step = "send" /\ phase[c] = "talking" /\ c \in Conv /\ ~replyWhole /\ result[c] = "none"
  BY DEF Talks, TInv, Where, Conv, InHand
<1>2. /\ FreshReplies'
      /\ ~V2(dev) /\ Alone => clean \cap dropped' = {}
      /\ stale' \subseteq stale \cup {c} /\ stale' \subseteq Op
      /\ dropped' \subseteq dropped \cup {c} /\ dropped' \subseteq Op
      /\ NoCause => dropped' = {} /\ c \in clean /\ r.reply # Stack
  BY RemembersWell
<1>3. KeyIs(dev') /\ dev'.version = dev.version /\ dev'.key = dev.key
  BY AnswersIs DEF Answers
<1>4. counter' \in 0 .. MaxPacket
  BY NumberIs
<1>5. Leave(c) /\ EndsAs(c, "error") /\ result' = [result EXCEPT ![c] = "error"]
  BY DEF End, EndsAs
<1>6. ~NoCause'
  <2>1. ASSUME NoCause' PROVE FALSE
    <3>1. NoCause
      BY <1>1, <1>2, <1>5, <2>1, NoCauseBefore DEF Remembers
    <3>2. c \notin dropped'
      BY <1>2, <3>1
    <3>3. QED BY <1>5, <2>1, <3>2, ErrorIsCause
  <2>2. QED BY <2>1
<1>7. /\ session' \in Unshared .. dev'.key /\ (Alone' => session' \in {0, dev'.key})
      /\ dev'.key \in Nat
  BY <1>3 DEF TInv, TTyped, TypeOK, Shared, Alone, Remembers, KeyIs, KeyState, Unshared
<1>8. WholeSaid'
  BY <1>1 DEF WholeSaid
<1>9. (~V2(dev) /\ Alone => clean \cap dropped = {})'
  BY <1>2, <1>3 DEF Remembers, V2, Alone
<1>10. Rested'
  BY <1>1, <1>2, <1>3, <1>4, <1>6, <1>7, <1>8, <1>9 DEF Rested, TInv, TTyped, TypeOK
<1>11. QED BY <1>1, <1>2, <1>3, <1>5, <1>10, OverHolds DEF Remembers

(* The request is not sent, or the key says that its user did not answer.  *)
LEMMA SendFailsHolds ==
  ASSUME TInv, NEW c \in Conv, SendFails(c)
  PROVE  TInv'
<1>1. /\ phase[c] = "talking" /\ c \in Op /\ ~replyWhole /\ result[c] = "none"
      /\ step = "send" /\ Talks(c, "send")
  BY DEF SendFails, Talks, TInv, Where, InHand
<1>2. /\ Leave(c) /\ EndsAs(c, "error") /\ result' = [result EXCEPT ![c] = "error"]
      /\ session' = session /\ replyWhole' = replyWhole /\ known' = known /\ tries' = tries
      /\ dev' = dev /\ clients' = clients /\ clean' = clean /\ stale' = stale /\ dropped' = dropped
  BY DEF SendFails, End, EndsAs, marks
<1>3. counter' \in 0 .. MaxPacket
  BY <1>1, NumberIs DEF SendFails
<1>4. ~NoCause'
  <2>1. ASSUME NoCause' PROVE FALSE
    <3>1. NoCause
      BY <1>1, <1>2, <2>1, NoCauseBefore
    <3>2. c \notin dropped'
      BY <1>2, <3>1 DEF TInv, Quiet
    <3>3. QED BY <1>1, <1>2, <2>1, <3>2, ErrorIsCause
  <2>2. QED BY <2>1
<1>5. /\ FreshReplies' /\ (~V2(dev)' /\ Alone' => clean' \cap dropped' = {})
      /\ stale' \subseteq Op /\ dropped' \subseteq Op
  BY <1>2, HistoryKept
<1>6. Rested'
  <2>1. WholeSaid'
    BY <1>1, <1>2 DEF WholeSaid
  <2>2. /\ KeyIs(dev)' /\ session' \in Unshared .. dev'.key /\ replyWhole' \in BOOLEAN
        /\ known' \in BOOLEAN /\ tries' \in [Derive -> 0 .. DERIVE_ATTEMPTS]
        /\ (Alone' => session' \in {0, dev'.key})
    BY <1>2 DEF TInv, TTyped, TypeOK, Shared, Alone
  <2>3. QED BY <1>3, <1>4, <1>5, <2>1, <2>2 DEF Rested
<1>7. QED BY <1>1, <1>2, <1>6, OverHolds

(* What the host takes of the reply to a keyhandle: nothing, or a piece of *)
(* the answer, if the keyhandle was the last.                              *)
TakenIn(c, r) ==
  \/ got' = <<>> /\ r.reply = Bare("PENDING") /\ r.dev.staged = Nothing
  \/ /\ got' = Collect(<<>>, r.reply) /\ Final(c)
     /\ r.reply.from.kind # "nothing" /\ r.reply.status = "SUCCESS"
     /\ ReplyFits(r.reply, r.dev.key)

(* What sendFragments accepts is nothing yet, or the first piece.          *)
LEMMA TakenInIs ==
  ASSUME NEW c, NEW r, KeyIs(r.dev), SaidBy(r), got = <<>>, Accepts(c, r.reply)
  PROVE  TakenIn(c, r)
<1>1. CASE r.reply.status = "PENDING" /\ UNCHANGED got
  <2>1. r.reply # Stack /\ r.reply.status # "SUCCESS"
    BY <1>1, StackIs
  <2>2. Bare("NO_OPERATION").status = "NO_OPERATION"
    BY DEF Bare
  <2>3. QED BY <1>1, <2>1, <2>2 DEF SaidBy, TakenIn
<1>2. CASE LooksLikeResult(c, r.reply) /\ got' = Collect(got, r.reply)
  <2>1. r.reply.from.kind # "nothing" /\ r.reply.status = "SUCCESS" /\ Final(c)
    BY <1>2 DEF LooksLikeResult, HasData
  <2>2. ReplyFits(r.reply, r.dev.key)
    BY <2>1, FitsIf
  <2>3. QED BY <1>2, <2>1, <2>2 DEF TakenIn
<1>3. QED BY <1>1, <1>2 DEF Accepts

(* The next keyhandle may go out, or the polls begin.                      *)
LEMMA AcceptHolds ==
  ASSUME TInv, NEW c \in Op, Talks(c, "send"),
         NEW r \in Chunk(dev, <<c, sent + 1>>, session, NextPacketNum, Final(c)), Remembers(c, r),
         Heard(r), Accepts(c, r.reply), sent' = sent + 1, Stay(IF Final(c) THEN "poll" ELSE "send"),
         session' = session, counter' = NextPacketNum, replyWhole' = replyWhole, tries' = tries
  PROVE  TInv'
<1>1. /\ step = "send" /\ phase[c] = "talking" /\ c \in Conv /\ ~replyWhole /\ result[c] = "none"
      /\ got = <<>> /\ session # 0
  BY DEF Talks, TInv, Where, Conv, InHand
<1>2. /\ FreshReplies'
      /\ ~V2(dev) /\ Alone => clean \cap dropped' = {}
      /\ stale' \subseteq stale \cup {c} /\ stale' \subseteq Op
      /\ dropped' \subseteq dropped \cup {c} /\ dropped' \subseteq Op
      /\ NoCause => dropped' = {} /\ c \in clean /\ r.reply # Stack
  BY RemembersWell
<1>3. /\ KeyIs(dev') /\ dev'.version = dev.version /\ dev'.key = dev.key /\ dev' = r.dev
      /\ SaidBy(r) /\ (V2(dev)' <=> V2(dev))
  BY AnswersIs DEF Answers, Heard, V2
<1>4. /\ NextPacketNum = counter + 1 /\ counter' = counter + 1
      /\ sent \in Nat /\ sent + 1 <= Chunks[c] /\ Chunks[c] \in 1 .. MaxPacket
      /\ counter' + Chunks[c] - sent' <= MaxPacket
      /\ counter \in Nat /\ counter' \in 0 .. MaxPacket /\ sent' \in 0 .. MaxPacket
  BY NumberIs
<1>5. /\ UNCHANGED <<lvars, result>> /\ phase' = phase /\ result' = result
      /\ step' = IF Final(c) THEN "poll" ELSE "send"
      /\ clients' = clients /\ clean' = clean /\ (Alone' <=> Alone)
  BY DEF Stay, Remembers, lvars, Alone
<1>6. TakenIn(c, r)
  BY <1>1, <1>3, TakenInIs
<1>7. /\ Pieces(got, dev.key)'
      /\ got' # <<>> => /\ Final(c) /\ got' = Collect(<<>>, r.reply) /\ Len(got') = 1
                        /\ got'[1].from = r.reply.from /\ got'[1].at = r.reply.at
                        /\ got'[1].len = r.reply.len /\ r.reply.status = "SUCCESS"
                        /\ r.reply.from.kind # "nothing"
      /\ got' = <<>> => r.reply = Bare("PENDING") /\ dev'.staged = Nothing
      /\ Len(got') = IF got' = <<>> THEN 0 ELSE 1
  <2>1. Pieces(<<>>, dev'.key)
    BY DEF Pieces
  <2>2. CASE got' = <<>> /\ r.reply = Bare("PENDING") /\ r.dev.staged = Nothing
    BY <1>3, <2>1, <2>2
  <2>3. CASE /\ got' = Collect(<<>>, r.reply) /\ Final(c)
             /\ r.reply.from.kind # "nothing" /\ r.reply.status = "SUCCESS"
             /\ ReplyFits(r.reply, r.dev.key)
    <3> DEFINE g == Collect(<<>>, r.reply)
    <3>1. /\ Pieces(g, dev'.key) /\ g # <<>> /\ Len(g) = Len(<<>>) + 1
          /\ g[Len(<<>>) + 1] = [from |-> r.reply.from, at |-> r.reply.at, len |-> r.reply.len,
                                 total |-> Total(<<>>) + r.reply.len]
      <4>1. ReplyFits(r.reply, dev'.key)
        BY <1>3, <2>3
      <4>2. Gathers(<<>>, dev'.key, r.reply)
        BY <2>1, <4>1, CollectIs, Zenon
      <4>3. QED BY <4>2 DEF Gathers
    <3>2. Len(<<>>) + 1 = 1
      OBVIOUS
    <3> HIDE DEF g
    <3>3. QED BY <2>3, <3>1, <3>2 DEF g
  <2>4. QED BY <1>6, <2>2, <2>3 DEF TakenIn
<1>8. Where(c)'
  <2>1. (Talks(c, "settle") => FALSE)' /\ InHand(c)'
    BY <1>1, <1>5 DEF Talks, InHand
  <2>2. Talks(c, "send")' => got' = <<>> /\ sent' < Chunks[c]
    BY <1>4, <1>5, <1>7 DEF Talks, Final
  <2>3. c \notin Derive
    BY TunnelAssumption
  <2>4. QED BY <1>1, <1>4, <1>5, <2>1, <2>2, <2>3 DEF Where
<1>9. Shared' /\ Caught' /\ WholeSaid'
  <2>1. ASSUME NEW i \in 1 .. Len(got')
        PROVE  i = 1 /\ got' # <<>>
    BY <1>7, <2>1
  <2>2. CASE r.reply = Stack
    <3>1. Stack.from.kind \notin Keyed /\ Stack.from.kind = "stack"
      BY StackIs DEF Keyed
    <3>2. Shared'
      BY <1>3, <1>5, <1>7, <2>1, <2>2, <3>1 DEF TInv, Shared
    <3>3. Caught'
      BY <1>7, <2>2, <3>1, StackIs DEF Caught, Bare
    <3>4. QED BY <1>1, <3>2, <3>3 DEF WholeSaid
  <2>3. CASE r.reply # Stack
    <3>1. got' # <<>> =>
            /\ dev'.staged # Nothing /\ r.reply.from = dev'.staged /\ r.reply.at \in Nat
            /\ r.reply.len \in Nat /\ r.reply.at + r.reply.len <= r.reply.from.len
            /\ r.reply.at + r.reply.len = r.reply.from.len => dev'.delivered
      <4>1. Bare("PENDING").status # "SUCCESS" /\ Bare("NO_OPERATION").status # "SUCCESS"
        BY DEF Bare
      <4>2. QED BY <1>3, <1>7, <2>3, <4>1 DEF SaidBy
    <3>2. Shared'
      BY <1>3, <1>5, <1>7, <2>1, <3>1 DEF TInv, Shared, KeyIs
    <3>3. Caught'
      <4>1. SUFFICES ASSUME dev'.staged # Nothing, ~dev'.delivered
                     PROVE  got' # <<>> /\ ~Ends(got'[Len(got')])
        BY DEF Caught, Ends
      <4>2. got' # <<>>
        BY <1>7, <4>1
      <4>3. r.reply.at + r.reply.len # r.reply.from.len
        BY <3>1, <4>1, <4>2
      <4>4. r.reply.from.len \in Nat
        BY <1>3, <3>1, <4>2 DEF KeyIs, StagedIs, Staged
      <4>5. QED BY <1>7, <3>1, <4>2, <4>3, <4>4 DEF Ends
    <3>4. QED BY <1>1, <3>2, <3>3 DEF WholeSaid
  <2>4. QED BY <2>2, <2>3
<1>10. ASSUME c \in clean, Covered
       PROVE  AnswersWell(c, r)
  BY <1>10, AnswersWellIs
<1>11. ASSUME Taken(c, r)
       PROVE  /\ got' = <<>> /\ dev'.staged = Nothing /\ dev'.packets = Prefix(c, sent')
              /\ dev'.asking = Final(c) /\ dev'.key = session /\ (~Final(c) => dev'.mark = counter')
              /\ (Final(c) /\ V2(dev) => dev'.mark = 0)
  <2>1. got' = <<>>
    BY <1>7, <1>11 DEF Taken, Bare
  <2>2. QED BY <1>3, <1>4, <1>11, <2>1 DEF Taken
<1>12. ASSUME Covered', c \in clean' PROVE Well(c)'
  <2>1. Covered /\ c \in clean
    BY <1>3, <1>5, <1>12 DEF Covered
  <2>2. ~V2(dev) => c \notin dropped'
    BY <1>2, <2>1 DEF Covered
  <2>3. CASE ~r.dev.asking /\ GuardDrops(r)
    <3>1. c \in dropped' /\ V2(dev)
      BY <2>2, <2>3 DEF GuardDrops, Remembers
    <3>2. got' # <<>>
      BY <1>7, <2>3, StackIs DEF GuardDrops
    <3>3. step' = "poll"
      BY <1>5, <1>7, <3>2
    <3>4. OnlyOf(c, dev.staged)' /\ (\A i \in 1 .. Len(got) : OnlyOf(c, got[i].from))'
      <4>1. dev'.staged.kind # "result"
        BY <1>3, <2>3, NothingIs DEF GuardDrops
      <4>2. \A i \in 1 .. Len(got') : got'[i].from.kind # "result"
        BY <1>7, <2>3, <3>2, StackIs DEF GuardDrops
      <4>3. QED BY <4>1, <4>2 DEF OnlyOf
    <3>5. QED BY <1>3, <2>3, <3>1, <3>3, <3>4 DEF Well, Polling
  <2>4. CASE ~r.dev.asking /\ NotRead(r)
    <3>1. ~Alone /\ V2(dev) /\ dev.key # session
      BY <1>1, <2>4 DEF NotRead, TInv, Shared
    <3>2. Sending(c)'
      BY <1>3, <2>4, <3>1 DEF Sending, Elsewhere
    <3>3. OnlyOf(c, dev.staged)' /\ (\A i \in 1 .. Len(got) : OnlyOf(c, got[i].from))'
      <4>1. dev'.staged.kind = "result" => dev'.staged.key # session
        BY <1>3, <3>1 DEF KeyIs, Keyed
      <4>2. ASSUME NEW i \in 1 .. Len(got') PROVE got'[i].from = dev'.staged
        <5>1. got' # <<>> /\ i = 1
          BY <1>7, <4>2
        <5>2. Bare("PENDING").status # "SUCCESS" /\ Bare("NO_OPERATION").status # "SUCCESS"
          BY DEF Bare
        <5>3. QED BY <1>3, <1>7, <2>4, <5>1, <5>2 DEF SaidBy, NotRead
      <4>3. QED BY <4>1, <4>2 DEF OnlyOf
    <3>4. QED BY <1>3, <1>5, <2>4, <3>1, <3>2, <3>3 DEF Well, Polling
  <2>5. CASE Taken(c, r)
    <3>1. CASE ~Final(c)
      <4>1. SoFar(c)' /\ Unblocked'
        BY <1>4, <1>11, <2>5, <3>1 DEF SoFar, Unblocked
      <4>2. QED BY <1>3, <1>5, <1>11, <2>2, <2>5, <3>1, <4>1 DEF Well, Sending
    <3>2. CASE Final(c)
      <4>1. Prefix(c, sent') = Payload(c)
        BY <1>4, <3>2 DEF Final, Prefix, Payload
      <4>2. OnlyOf(c, dev.staged)' /\ Len(got') = 0
        BY <1>11, <2>5, NothingIs DEF OnlyOf
      <4>3. Polling(c)'
        BY <1>11, <2>5, <4>1, <4>2 DEF Polling
      <4>4. Undisturbed(c)'
        BY <1>3, <1>11, <2>5, <3>2 DEF Undisturbed, Asked
      <4>5. QED BY <1>3, <1>5, <2>2, <3>2, <4>3, <4>4 DEF Well
    <3>3. QED BY <3>1, <3>2
  <2>6. QED BY <1>10, <2>1, <2>3, <2>4, <2>5 DEF AnswersWell
<1>13. ASSUME NoCause' PROVE Ours(c)'
  <2>1. NoCause
    BY <1>1, <1>2, <1>5, <1>13, NoCauseBefore
  <2>2. dropped' = {} /\ c \in clean /\ r.reply # Stack /\ c \notin Derive
    BY <1>2, <2>1, TunnelAssumption
  <2>3. Taken(c, r)
    <3>1. Alone /\ dev.key = session
      BY <1>1, <2>1 DEF NoCause, TInv, Shared
    <3>2. QED BY <1>10, <2>2, <3>1 DEF Covered, AnswersWell, GuardDrops, NotRead
  <2>4. step' = "send" => Unblocked'
    BY <1>4, <1>5, <1>11, <2>3 DEF Unblocked
  <2>5. QED BY <1>5, <2>2, <2>4 DEF Ours
<1>14. Going(c)'
  <2>1. /\ session' \in Unshared .. dev'.key /\ replyWhole' \in BOOLEAN /\ known' \in BOOLEAN
        /\ tries' \in [Derive -> 0 .. DERIVE_ATTEMPTS] /\ clean' \subseteq Op
    BY <1>3, <1>5 DEF TInv, TTyped, TypeOK, Heard
  <2>2. QED BY <1>2, <1>3, <1>4, <1>7, <1>8, <1>9, <1>12, <1>13, <2>1 DEF Going
<1>15. QED
  <2>1. step' \in {"send", "poll"} /\ clean' \subseteq clean \cup {c} /\ c \in Op \cup Derive
    BY <1>5
  <2>2. QED BY <1>1, <1>2, <1>3, <1>5, <1>14, <2>1, GoesOnHolds

(* sendChunked(): a keyhandle.                                             *)
LEMMA SendChunkHolds ==
  ASSUME TInv, NEW c \in Conv, SendChunk(c)
  PROVE  TInv'
<1>1. Talks(c, "send") /\ c \in Op
  BY DEF SendChunk, TInv, Where
<1>2. /\ counter' = NextPacketNum /\ replyWhole' = replyWhole /\ tries' = tries
      /\ clients' = clients /\ clean' = clean
  BY DEF SendChunk
<1>3. PICK r \in Chunk(dev, <<c, sent + 1>>, session, NextPacketNum, Final(c)) :
        /\ dropped' = IF r.reply = Stack THEN dropped \cup {c} ELSE dropped
        /\ stale' = IF r.reply.from = dev.staged /\ dev.staged # Nothing THEN stale \cup {c} ELSE stale
        /\ \/ /\ Heard(r) /\ Accepts(c, r.reply)
              /\ sent' = sent + 1
              /\ Stay(IF Final(c) THEN "poll" ELSE "send")
              /\ UNCHANGED session
           \/ Heard(r) /\ Refuses(c, r.reply) /\ End(c, "error")
           \/ Missed(r.dev) /\ End(c, "error") /\ UNCHANGED session
  BY Zenon DEF SendChunk
<1>4. known \in BOOLEAN
  BY DEF TInv, TTyped, TypeOK
<1>5. dev' = r.dev /\ known' \in BOOLEAN
  BY <1>3, <1>4 DEF Heard, Missed
<1>6. Remembers(c, r)
  BY <1>1, <1>2, <1>3, <1>5, AnswersIs DEF Remembers, Answers
<1>7. CASE Heard(r) /\ Accepts(c, r.reply) /\ sent' = sent + 1
             /\ Stay(IF Final(c) THEN "poll" ELSE "send") /\ UNCHANGED session
  BY <1>1, <1>2, <1>6, <1>7, AcceptHolds
<1>8. CASE Heard(r) /\ Refuses(c, r.reply) /\ End(c, "error")
  <2>1. session' \in {session, 0}
    BY <1>8 DEF Refuses
  <2>2. QED BY <1>1, <1>2, <1>5, <1>6, <1>8, <2>1, SendEnds
<1>9. CASE Missed(r.dev) /\ End(c, "error") /\ UNCHANGED session
  BY <1>1, <1>2, <1>5, <1>6, <1>9, SendEnds
<1>10. QED BY <1>3, <1>7, <1>8, <1>9

-----------------------------------------------------------------------------
(* The answer is polled for.                                               *)

(* A call that polls, and what is left when it is over.                    *)
LEMMA PollOver ==
  ASSUME TInv, NEW c \in Op \cup Derive, Talks(c, "poll"), Leave(c), NEW how, EndsAs(c, how),
         how = "wrong" /\ c \in clean => ~Covered,
         KeyIs(dev'), SameKey(dev, dev'), known' \in BOOLEAN, replyWhole' \in BOOLEAN,
         session' \in Unshared .. dev.key, Alone => session' \in {0, dev.key},
         counter' = counter, tries' = tries, clients' = clients, clean' = clean, stale' = stale,
         dropped' = dropped, WholeSaid', NoCause' => CalmNow'
  PROVE  TInv'
<1>1. phase[c] = "talking" /\ c \in Conv /\ result[c] = "none"
  BY DEF Talks, TInv, Where, Conv
<1>2. dev'.version = dev.version /\ dev'.key = dev.key
  BY DEF SameKey
<1>3. /\ FreshReplies' /\ (~V2(dev)' /\ Alone' => clean' \cap dropped' = {})
      /\ stale' \subseteq Op /\ dropped' \subseteq Op
  BY <1>2, HistoryKept
<1>4. NoCause' => dropped' = {}
  <2>1. result' = result \/ \E x : result' = [result EXCEPT ![c] = x]
    BY DEF EndsAs
  <2>2. NoCause' => NoCause
    BY <1>1, <2>1, NoCauseBefore
  <2>3. QED BY <2>2 DEF TInv, Quiet
<1>5. Rested'
  <2>1. counter' \in 0 .. MaxPacket /\ tries' \in [Derive -> 0 .. DERIVE_ATTEMPTS]
    BY DEF TInv, TTyped, TypeOK
  <2>2. session' \in Unshared .. dev'.key /\ (Alone' => session' \in {0, dev'.key})
    BY <1>2 DEF Alone
  <2>3. QED BY <1>3, <1>4, <2>1, <2>2 DEF Rested
<1>6. stale' \subseteq stale \cup {c} /\ dropped' \subseteq dropped \cup {c}
  OBVIOUS
<1>7. QED BY <1>1, <1>2, <1>5, <1>6, OverHolds

(* What is known of a call that polls.                                     *)
LEMMA PollKnows ==
  ASSUME TInv, NEW c \in Op \cup Derive, Talks(c, "poll")
  PROVE  /\ phase[c] = "talking" /\ step = "poll" /\ c \in Conv /\ result[c] = "none"
         /\ c \in Op => session # 0 /\ ~replyWhole /\ c \notin Derive
         /\ c \in Derive => session = 0 /\ got # <<>> /\ c \notin Op
         /\ session \in Unshared .. dev.key /\ (Alone => session \in {0, dev.key})
         /\ NoCause /\ c \in Op => c \in clean /\ dropped = {}
         /\ NoCause /\ c \in Derive => Calm
<1>1. phase[c] = "talking" /\ step = "poll" /\ c \in Conv /\ InHand(c)
  BY DEF Talks, InHand, Conv
<1>2. /\ result[c] = "none" /\ (c \in Op => session # 0 /\ ~replyWhole)
      /\ c \in Derive => session = 0 /\ got # <<>>
  BY <1>1 DEF TInv, Where
<1>3. \A d \in Op : InHand(d) => d = c
  BY <1>1, OneTalks DEF InHand, Talks, TInv, Conv
<1>4. (c \in Op => c \notin Derive) /\ (c \in Derive => c \notin Op)
  BY TunnelAssumption
<1>5. ASSUME NoCause, c \in Derive PROVE Calm
  <2>1. \A d \in Op : ~InHand(d)
    BY <1>3, <1>4, <1>5
  <2>2. QED BY <1>5, <2>1 DEF TInv, Quiet
<1>6. QED BY <1>1, <1>2, <1>4, <1>5 DEF TInv, TTyped, TypeOK, Shared, Quiet

(* It ends in an error.                                                    *)
LEMMA PollErrs ==
  ASSUME TInv, NEW c \in Op \cup Derive, Talks(c, "poll"), End(c, "error"),
         UNCHANGED <<session, replyWhole>>,
         KeyIs(dev'), SameKey(dev, dev'), known' \in BOOLEAN,
         counter' = counter, tries' = tries, clients' = clients, clean' = clean, stale' = stale,
         dropped' = dropped
  PROVE  TInv'
<1>1. /\ phase[c] = "talking" /\ c \in Conv /\ result[c] = "none"
      /\ c \in Op => session # 0 /\ ~replyWhole
      /\ c \in Derive => session = 0
      /\ session \in Unshared .. dev.key /\ (Alone => session \in {0, dev.key})
      /\ NoCause /\ c \in Op => dropped = {}
      /\ NoCause /\ c \in Derive => Calm
  BY PollKnows
<1>2. /\ Leave(c) /\ EndsAs(c, "error") /\ result' = [result EXCEPT ![c] = "error"]
      /\ session' = session /\ replyWhole' = replyWhole
  BY DEF End, EndsAs
<1>3. WholeSaid'
  BY <1>1, <1>2 DEF WholeSaid
<1>4. ASSUME NoCause' PROVE CalmNow'
  <2>1. NoCause
    BY <1>1, <1>2, <1>4, NoCauseBefore
  <2>2. c \in Derive
    BY <1>1, <1>2, <1>4, <2>1, ErrorIsCause
  <2>3. QED BY <1>1, <1>2, <2>1, <2>2 DEF Calm, CalmNow, SameKey, V2
<1>5. replyWhole' \in BOOLEAN
  BY <1>2 DEF TInv, TTyped, TypeOK
<1>6. QED BY <1>1, <1>2, <1>3, <1>4, <1>5, PollOver

(* All of a reply was had: the key served the last piece of it.            *)
LEMMA HadWhole ==
  ASSUME TInv, step = "poll", got # <<>>, OneReply(got), got[1].from.kind \in {"result", "derive"},
         V2(dev), known, dev.staged # Nothing
  PROVE  dev.delivered
<1> DEFINE n == Len(got)
           p == got[n]
<1>1. n \in Nat /\ 1 \in 1 .. n /\ n \in 1 .. n /\ got \in Seq(Piece)
  BY DEF TInv, TTyped, Pieces
<1>2. p \in Piece /\ p.from = got[1].from /\ p.at = p.total - p.len /\ p.total = got[1].from.len
  BY <1>1 DEF OneReply, Total
<1>3. p.at \in Nat /\ p.len \in Nat /\ p.total \in Nat
  BY <1>2 DEF Piece, Full
<1>4. Ends(p)
  BY <1>2, <1>3 DEF Ends
<1>5. QED BY <1>4 DEF TInv, Caught

(* The pieces of an answer that began to come are as long as it is, once   *)
(* they are as long as the host expects.                                   *)
LEMMA ComingIs ==
  ASSUME TInv, NEW c \in Op, ~V2(dev), Coming(c), got # <<>>
  PROVE  /\ Total(got) \in Nat \ {0} /\ Size[c] \in Nat \ {0}
         /\ KnowsLength(c) /\ Total(got) >= Size[c] => OneReply(got) /\ IsOwn(c)
         /\ ~KnowsLength(c) => OneReply(got) /\ IsOwn(c) /\ got[Len(got)].len < Full
<1> DEFINE n == Len(got)
           p == got[n]
<1>1. n \in Nat /\ 1 \in 1 .. n /\ n \in 1 .. n /\ got \in Seq(Piece) /\ PieceIs(p, dev.key)
  BY DEF TInv, TTyped, Pieces
<1>2. Total(got) = p.total /\ p.len \in 1 .. 2 /\ p.total \in Nat /\ p.len <= p.total
  BY <1>1 DEF Total, PieceIs, Piece, Full
<1>3. Size[c] \in Nat \ {0} /\ (~KnowsLength(c) => Size[c] = 1)
  <2>1. Measured("v1")
    BY DEF TInv, TTyped, KeyIs, V2
  <2>2. QED BY <2>1, TunnelAssumption DEF KnowsLength, Measured, Full
<1>4. Total(got) <= Size[c]
  BY DEF Coming
<1>5. got[1].from = ResultOf(c)
  BY <1>1 DEF Coming
<1>6. /\ got[1].from.kind = "result" /\ got[1].from.of = Payload(c) /\ got[1].from.len = Size[c]
  BY <1>5 DEF ResultOf
<1>7. ASSUME Total(got) = Size[c] PROVE OneReply(got) /\ IsOwn(c)
  <2>1. OneReply(got)
    BY <1>5, <1>6, <1>7 DEF OneReply, Coming
  <2>2. QED BY <1>6, <2>1 DEF IsOwn
<1>8. QED BY <1>2, <1>3, <1>4, <1>7 DEF Full

(* What opens for an operation that began clean is its own.                *)
LEMMA OpensItsOwn ==
  ASSUME TInv, NEW c \in Op, Talks(c, "poll"), c \in clean, Covered, got # <<>>, Opens(c)
  PROVE  IsOwn(c)
<1>1. Clean(c) /\ Polling(c)
  BY DEF TInv, Clean
<1>2. CASE V2(dev)
  <2>1. OneReply(got) /\ got[1].from.kind = "result" /\ got[1].from.key = session
    BY <1>2 DEF Opens
  <2>2. 1 \in 1 .. Len(got)
    BY DEF TInv, TTyped, Pieces
  <2>3. OnlyOf(c, got[1].from)
    BY <1>1, <2>2 DEF Polling
  <2>4. QED BY <2>1, <2>3 DEF OnlyOf, IsOwn
<1>3. CASE ~V2(dev)
  <2>1. Alone /\ c \notin dropped
    BY <1>1, <1>3 DEF Covered, Clean
  <2>2. Undisturbed(c)
    BY <1>1, <2>1 DEF Clean
  <2>3. Coming(c)
    BY <1>3, <2>2 DEF Undisturbed, Asked, Answered
  <2>4. KnowsLength(c) => Total(got) >= Size[c]
    BY <1>3 DEF Opens
  <2>5. QED BY <1>3, <2>3, <2>4, ComingIs
<1>4. QED BY <1>2, <1>3

(* What was collected is opened.                                           *)
LEMMA OpenedHolds ==
  ASSUME TInv, NEW c \in Op, Talks(c, "poll"), got # <<>>, Opened(c),
         KeyIs(dev'), SameKey(dev, dev'), known' \in BOOLEAN, known => known',
         (dev' = dev /\ known' = known) \/ ~V2(dev),
         counter' = counter, tries' = tries, clients' = clients, clean' = clean, stale' = stale,
         dropped' = dropped
  PROVE  TInv'
<1>1. /\ phase[c] = "talking" /\ step = "poll" /\ c \in Conv /\ result[c] = "none"
      /\ session # 0 /\ ~replyWhole /\ replyWhole \in BOOLEAN
      /\ session \in Unshared .. dev.key /\ (Alone => session \in {0, dev.key})
      /\ NoCause => c \in clean /\ dropped = {}
      /\ dev.key \in Nat
  BY PollKnows DEF TInv, TTyped, TypeOK, KeyIs, KeyState
<1>2. V2(dev)' <=> V2(dev)
  BY DEF V2, SameKey
<1>3. CASE Opens(c)
  <2> DEFINE how == IF IsOwn(c) THEN "own" ELSE "wrong"
  <2>1. End(c, how) /\ replyWhole' = TRUE /\ session' = session
    BY <1>3 DEF Opened
  <2>2. how \in {"own", "wrong"} /\ (how = "wrong" /\ c \in clean => ~Covered)
    BY <1>3, OpensItsOwn
  <2> HIDE DEF how
  <2>3. Leave(c) /\ EndsAs(c, how) /\ result' = [result EXCEPT ![c] = how]
    BY <2>1, <2>2 DEF End, EndsAs
  <2>4. WholeSaid'
    <3>1. SUFFICES ASSUME V2(dev), known', dev'.staged # Nothing PROVE dev'.delivered
      BY <1>2 DEF WholeSaid
    <3>2. dev' = dev /\ known
      BY <3>1
    <3>3. OneReply(got) /\ got[1].from.kind = "result"
      BY <1>3, <3>1 DEF Opens
    <3>4. QED BY <1>1, <3>1, <3>2, <3>3, HadWhole
  <2>5. ASSUME NoCause' PROVE CalmNow'
    <3>1. NoCause
      BY <1>1, <2>3, <2>5, NoCauseBefore
    <3>2. c \in clean /\ c \notin dropped /\ Alone
      BY <1>1, <3>1 DEF NoCause
    <3>3. Clean(c)
      BY <3>2 DEF TInv, Covered
    <3>4. Undisturbed(c)
      BY <3>2, <3>3 DEF Clean
    <3>5. ~dev.asking /\ dev.packets = <<>> /\ (V2(dev) => dev.mark = 0) /\ known
      BY <3>4 DEF Undisturbed, Asked, Answered
    <3>6. QED BY <1>2, <3>5 DEF CalmNow, SameKey
  <2>6. /\ session' \in Unshared .. dev.key /\ (Alone => session' \in {0, dev.key})
        /\ replyWhole' \in BOOLEAN
    BY <1>1, <2>1
  <2>7. QED BY <2>2, <2>3, <2>4, <2>5, <2>6, PollOver
<1>4. CASE ~Opens(c)
  <2>1. End(c, "error") /\ replyWhole' = replyWhole /\ session' \in {0, session}
    BY <1>4 DEF Opened
  <2>2. Leave(c) /\ EndsAs(c, "error") /\ result' = [result EXCEPT ![c] = "error"]
    BY <2>1 DEF End, EndsAs
  <2>3. WholeSaid'
    BY <1>1, <2>1 DEF WholeSaid
  <2>4. ~NoCause'
    <3>1. ASSUME NoCause' PROVE FALSE
      <4>1. NoCause
        BY <1>1, <2>2, <3>1, NoCauseBefore
      <4>2. QED BY <1>1, <2>2, <3>1, <4>1, ErrorIsCause
    <3>2. QED BY <3>1
  <2>5. /\ session' \in Unshared .. dev.key /\ (Alone => session' \in {0, dev.key})
        /\ replyWhole' \in BOOLEAN
    BY <1>1, <2>1 DEF Unshared
  <2>6. QED BY <2>2, <2>3, <2>4, <2>5, PollOver
<1>5. QED BY <1>3, <1>4

(* What a derive collected is opened.                                      *)
LEMMA DerivedHolds ==
  ASSUME TInv, NEW c \in Derive, Talks(c, "poll"), got # <<>>, Derived(c),
         KeyIs(dev'), SameKey(dev, dev'), known' \in BOOLEAN, known => known',
         (dev' = dev /\ known' = known) \/ ~V2(dev),
         counter' = counter, tries' = tries, clients' = clients, clean' = clean, stale' = stale,
         dropped' = dropped
  PROVE  TInv'
<1>1. /\ phase[c] = "talking" /\ step = "poll" /\ c \in Conv /\ result[c] = "none"
      /\ session = 0 /\ replyWhole \in BOOLEAN
      /\ NoCause => Calm
      /\ dev.key \in Nat /\ clean \subseteq Op /\ c \notin Op
  BY PollKnows DEF TInv, TTyped, TypeOK, KeyIs, KeyState
<1>2. (V2(dev)' <=> V2(dev)) /\ replyWhole' = replyWhole
  BY DEF V2, SameKey, Derived
<1>3. CASE OneReply(got) /\ got[1].from.kind = "derive" /\ got[1].from.of = <<c, tries[c]>>
  <2>1. /\ Leave(c) /\ EndsAs(c, "own") /\ result' = [result EXCEPT ![c] = "own"]
        /\ session' = got[1].from.key
    BY <1>3 DEF Derived, End, EndsAs
  <2>2. /\ session' \in Unshared .. dev.key /\ (Alone => session' \in {0, dev.key})
    <3>1. 1 \in 1 .. Len(got) /\ PieceIs(got[1], dev.key)
      BY DEF TInv, TTyped, Pieces
    <3>2. got[1].from.key \in Nat /\ got[1].from.key <= dev.key
      BY <1>3, <3>1 DEF PieceIs, Piece, Froms, Keyed
    <3>3. Alone => got[1].from.key = dev.key
      BY <1>3, <3>1 DEF TInv, Shared, Keyed
    <3>4. QED BY <1>1, <2>1, <3>2, <3>3 DEF Unshared
  <2>3. WholeSaid'
    <3>1. SUFFICES ASSUME V2(dev), known', dev'.staged # Nothing PROVE dev'.delivered
      BY <1>2 DEF WholeSaid
    <3>2. dev' = dev /\ known
      BY <3>1
    <3>3. QED BY <1>1, <1>3, <3>1, <3>2, HadWhole
  <2>4. ASSUME NoCause' PROVE CalmNow'
    <3>1. NoCause
      BY <1>1, <2>1, <2>4, NoCauseBefore
    <3>2. known
      BY <1>1, <1>3, <3>1 DEF Calm
    <3>3. QED BY <1>1, <1>2, <3>1, <3>2 DEF Calm, CalmNow, SameKey
  <2>5. QED BY <1>1, <1>2, <2>1, <2>2, <2>3, <2>4, PollOver
<1>4. CASE ~(OneReply(got) /\ got[1].from.kind = "derive" /\ got[1].from.of = <<c, tries[c]>>)
  <2>1. session' = session
    BY <1>4 DEF Derived
  <2>2. CASE End(c, "error")
    BY <1>2, <2>1, <2>2, PollErrs
  <2>3. CASE Leave(c) /\ UNCHANGED result
    <3>1. EndsAs(c, "again")
      BY <2>3 DEF EndsAs
    <3>2. WholeSaid'
      BY <1>1, <2>1 DEF WholeSaid
    <3>3. ASSUME NoCause' PROVE CalmNow'
      <4>1. NoCause
        BY <1>1, <2>3, <3>3, NoCauseBefore
      <4>2. QED BY <1>1, <1>2, <2>1, <4>1 DEF Calm, CalmNow, SameKey
    <3>4. session' \in Unshared .. dev.key /\ (Alone => session' \in {0, dev.key})
      BY <1>1, <2>1 DEF Unshared
    <3>5. QED BY <1>1, <1>2, <2>3, <3>1, <3>2, <3>3, <3>4, PollOver
  <2>4. QED BY <1>4, <2>2, <2>3 DEF Derived
<1>5. QED BY <1>3, <1>4

(* Either.                                                                 *)
LEMMA CollectedHolds ==
  ASSUME TInv, NEW c \in Op \cup Derive, Talks(c, "poll"), Collected(c),
         KeyIs(dev'), SameKey(dev, dev'), known' \in BOOLEAN, known => known',
         (dev' = dev /\ known' = known) \/ ~V2(dev),
         counter' = counter, tries' = tries, clients' = clients, clean' = clean, stale' = stale,
         dropped' = dropped
  PROVE  TInv'
<1>1. CASE c \in Op
  BY <1>1, OpenedHolds DEF Collected
<1>2. CASE c \notin Op
  BY <1>2, DerivedHolds DEF Collected
<1>3. QED BY <1>1, <1>2

(* The polls run out, or fail.                                             *)
LEMMA GiveUpHolds ==
  ASSUME TInv, NEW c \in Conv, GiveUp(c)
  PROVE  TInv'
<1>1. Talks(c, "poll") /\ c \in Op \cup Derive
  BY DEF GiveUp, TInv, Where
<1>2. /\ counter' = counter /\ tries' = tries /\ clients' = clients /\ clean' = clean
      /\ stale' = stale /\ dropped' = dropped /\ dev' = dev /\ known' = known
      /\ KeyIs(dev') /\ SameKey(dev, dev') /\ known' \in BOOLEAN
  BY DEF GiveUp, marks, TInv, TTyped, TypeOK, SameKey
<1>3. CASE Collected(c)
  BY <1>1, <1>2, <1>3, CollectedHolds
<1>4. CASE End(c, "error") /\ UNCHANGED <<session, replyWhole>>
  BY <1>1, <1>2, <1>4, PollErrs
<1>5. QED BY <1>3, <1>4 DEF GiveUp

(* All of the answer is there.                                             *)
LEMMA FinishHolds ==
  ASSUME TInv, NEW c \in Conv, Finish(c)
  PROVE  TInv'
<1>1. Talks(c, "poll") /\ c \in Op \cup Derive /\ Collected(c)
  BY DEF Finish, TInv, Where
<1>2. /\ counter' = counter /\ tries' = tries /\ clients' = clients /\ clean' = clean
      /\ stale' = stale /\ dropped' = dropped /\ dev' = dev /\ known' = known
      /\ KeyIs(dev') /\ SameKey(dev, dev') /\ known' \in BOOLEAN
  BY DEF Finish, marks, TInv, TTyped, TypeOK, SameKey
<1>3. QED BY <1>1, <1>2, CollectedHolds

(* What a poll brings: a piece of what is staged, or, if there was         *)
(* nothing, a text or the word that the key still asks.                    *)
Brings(r) ==
  /\ r.reply.status = "SUCCESS" /\ r.reply.from = dev.staged /\ r.reply.at = dev.cursor
  /\ r.reply.len \in 1 .. Full /\ dev.cursor + r.reply.len <= dev.staged.len
  /\ IF dev.cursor + r.reply.len = dev.staged.len
       THEN r.dev.cursor = 0 /\ r.dev.delivered
       ELSE r.dev.cursor = dev.cursor + r.reply.len /\ r.reply.len = Full
(* The reply to a ping, and the key after it.                              *)
Pinged(r) ==
  /\ KeyIs(r.dev) /\ SameKey(dev, r.dev) /\ SaidBy(r) /\ r.reply # Stack
  /\ dev.staged # Nothing => r.dev.staged = dev.staged /\ Brings(r)
  /\ dev.staged = Nothing =>
       /\ r.dev.staged.kind \in Texts \cup {"nothing"}
       /\ r.reply.from.kind \in Texts \cup {"nothing"}
       /\ dev.asking => r.dev = dev

(* A ping brings the next piece of what is staged, or that nothing is.     *)
LEMMA PingedIs ==
  ASSUME KeyIs(dev), NEW key, NEW r, r = Ping(dev, key)
  PROVE  Pinged(r)
<1>1. PICK e : NotOpened(dev, e) /\ Says(e, r)
  BY PingIs
<1>2. KeyIs(r.dev) /\ SameKey(dev, r.dev) /\ SaidBy(r) /\ r.reply # Stack /\ r.dev.staged = e.staged
  BY <1>1, SaidOf DEF NotOpened, SameKey, Says, Alike
<1>3. CASE dev.staged # Nothing
  <2>1. e = dev
    BY <1>1, <1>3 DEF NotOpened
  <2>2. QED BY <1>1, <1>2, <1>3, <2>1 DEF Says, Brings, Pinged
<1>4. CASE dev.staged = Nothing
  <2>1. e.staged.kind \in Texts \cup {"nothing"}
    <3>1. CASE e = dev
      BY <1>4, <3>1, NothingIs
    <3>2. CASE e.staged \in {Text("badTag"), Text("error")}
      BY <3>2 DEF Text, Texts
    <3>3. QED BY <1>1, <3>1, <3>2 DEF NotOpened
  <2>2. r.reply.from.kind \in Texts \cup {"nothing"}
    <3>1. CASE r.reply \in {Bare("PENDING"), Bare("NO_OPERATION")}
      <4>1. r.reply.from = Nothing
        BY <3>1 DEF Bare
      <4>2. QED BY <4>1, NothingIs
    <3>2. CASE r.reply.from = r.dev.staged
      BY <1>2, <2>1, <3>2
    <3>3. QED BY <1>2, <3>1, <3>2 DEF SaidBy
  <2>3. ASSUME dev.asking PROVE r.dev = dev
    <3>1. e = dev
      BY <1>1, <2>3 DEF NotOpened
    <3>2. QED BY <1>1, <1>4, <3>1 DEF Says
  <2>4. QED BY <1>2, <1>4, <2>1, <2>2, <2>3 DEF Pinged
<1>5. QED BY <1>3, <1>4

(* What becomes of it: collected, if it may be of the answer, or ignored.  *)
Sorts(c, r) ==
  \/ Plausible(c, r.reply) /\ got' = Collect(got, r.reply)
  \/ ~Plausible(c, r.reply) /\ got' = got /\ (r.reply.from.kind \in Texts => ~V2(dev))

(* An answer that comes goes on coming.                                    *)
LEMMA ComesOn ==
  ASSUME TInv, NEW c \in Op, ~V2(dev), Coming(c), ~Complete(c), NEW r, Pinged(r),
         Sorts(c, r), dev' = r.dev, session' = session
  PROVE  Coming(c)'
<1>1. /\ Pieces(got, dev.key) /\ got \in Seq(Piece) /\ Len(got) \in Nat
      /\ Size[c] \in Nat \ {0} /\ KeyIs(dev) /\ dev.cursor \in Nat
  BY TunnelAssumption DEF TInv, TTyped, Pieces, KeyIs, KeyState
<1>2. Total(got) \in Nat /\ Total(got) < Size[c]
  <2>1. CASE got = <<>>
    BY <1>1, <2>1 DEF Total
  <2>2. CASE got # <<>>
    <3>1. Total(got) \in Nat /\ (~KnowsLength(c) => got[Len(got)].len < Full)
      BY <2>2, ComingIs
    <3>2. KnowsLength(c) /\ ~(Total(got) >= Size[c])
      BY <2>2, <3>1 DEF Complete
    <3>3. QED BY <1>1, <3>1, <3>2
  <2>3. QED BY <2>1, <2>2
<1>3. ResultOf(c)' = ResultOf(c)
  BY DEF ResultOf, Payload
<1>4. ASSUME r.reply.from.kind \in Texts \cup {"nothing"}, dev'.staged = Nothing \/ dev'.staged.kind \in Texts
      PROVE  Coming(c)'
  <2>1. ~Plausible(c, r.reply)
    BY <1>4 DEF Plausible, HasData, Texts
  <2>2. got' = got
    BY <2>1 DEF Sorts
  <2>3. QED BY <1>3, <1>4, <2>2 DEF Coming
<1>5. CASE dev.staged = Nothing
  <2>1. dev'.staged = Nothing \/ dev'.staged.kind \in Texts
    BY <1>5 DEF Pinged, KeyIs, StagedIs
  <2>2. QED BY <1>4, <1>5, <2>1 DEF Pinged
<1>6. CASE dev.staged.kind \in Texts
  <2>1. dev.staged # Nothing
    BY <1>6, NothingIs DEF Texts
  <2>2. QED BY <1>4, <1>6, <2>1 DEF Pinged, Brings
<1>7. CASE dev.staged = ResultOf(c) /\ dev.cursor = IF Total(got) = Size[c] THEN 0 ELSE Total(got)
  <2> DEFINE g == Collect(got, r.reply)
             len == r.reply.len
  <2>1. /\ ResultOf(c).kind = "result" /\ ResultOf(c).len = Size[c] /\ dev.staged # Nothing
        /\ dev.cursor = Total(got)
    BY <1>2, <1>7, NothingIs DEF ResultOf
  <2>2. /\ dev'.staged = ResultOf(c) /\ Brings(r) /\ r.reply.from = ResultOf(c)
        /\ r.reply.at = Total(got) /\ len \in 1 .. Full /\ Total(got) + len <= Size[c]
        /\ IF Total(got) + len = Size[c] THEN dev'.cursor = 0
             ELSE dev'.cursor = Total(got) + len /\ len = Full
    BY <1>7, <2>1 DEF Pinged, Brings
  <2>3. Plausible(c, r.reply)
    BY <2>1, <2>2 DEF Plausible, HasData, Brings
  <2>4. Gathers(got, r.dev.key, r.reply)
    <3>1. r.reply.from.kind # "nothing" /\ KeyIs(r.dev) /\ SaidBy(r) /\ r.dev.key = dev.key
      BY <2>1, <2>2 DEF Pinged, SameKey
    <3>2. ReplyFits(r.reply, r.dev.key)
      BY <3>1, FitsIf
    <3>3. QED BY <1>1, <3>1, <3>2, CollectIs
  <2>5. got' = g
    BY <2>3 DEF Sorts
  <2>6. /\ Total(g) = Total(got) + len /\ Len(g) = Len(got) + 1
        /\ \A i \in 1 .. Len(got) : g[i] = got[i]
        /\ g[Len(got) + 1] = [from |-> ResultOf(c), at |-> Total(got), len |-> len,
                              total |-> Total(got) + len]
    BY <2>2, <2>4 DEF Gathers
  <2> HIDE DEF g, len
  <2>7. \A i \in 1 .. Len(g) : g[i].from = ResultOf(c) /\ g[i].at = g[i].total - g[i].len
    <3>1. TAKE i \in 1 .. Len(g)
    <3>2. CASE i \in 1 .. Len(got)
      BY <2>6, <3>2 DEF Coming
    <3>3. CASE i = Len(got) + 1
      <4>1. g[i].from = ResultOf(c) /\ g[i].at = Total(got) /\ g[i].len = len /\ g[i].total = Total(got) + len
        BY <2>6, <3>3
      <4>2. QED BY <1>2, <2>2, <4>1 DEF Full
    <3>4. QED BY <1>1, <2>6, <3>2, <3>3
  <2>8. Total(g) <= Size[c] /\ dev'.cursor = IF Total(g) = Size[c] THEN 0 ELSE Total(g)
    BY <2>2, <2>6
  <2>9. QED BY <1>3, <2>2, <2>5, <2>7, <2>8 DEF Coming
<1>8. QED BY <1>5, <1>6, <1>7 DEF Coming

(* The polls go on.                                                        *)
LEMMA PollsOn ==
  ASSUME TInv, NEW c \in Op \cup Derive, Talks(c, "poll"), ~Complete(c), NEW r, Pinged(r),
         Heard(r), Sorts(c, r), Stay("poll"), sent' = sent, session' = session,
         replyWhole' = replyWhole, counter' = counter, tries' = tries, clients' = clients,
         clean' = clean, stale' = stale, dropped' = dropped
  PROVE  TInv'
<1>1. /\ phase[c] = "talking" /\ step = "poll" /\ c \in Conv /\ result[c] = "none"
      /\ c \in Op => session # 0 /\ ~replyWhole /\ c \notin Derive
      /\ c \in Derive => session = 0 /\ got # <<>> /\ c \notin Op
      /\ session \in Unshared .. dev.key /\ (Alone => session \in {0, dev.key})
      /\ NoCause /\ c \in Op => c \in clean /\ dropped = {}
      /\ NoCause /\ c \in Derive => Calm
  BY PollKnows
<1>2. /\ UNCHANGED <<lvars, result>> /\ phase' = phase /\ result' = result /\ step' = "poll"
      /\ dev' = r.dev /\ known' = (known \/ r.reply.status = "SUCCESS")
      /\ (Alone' <=> Alone)
  BY DEF Stay, Heard, lvars, Alone
<1>3. /\ KeyIs(dev') /\ dev'.version = dev.version /\ dev'.key = dev.key /\ dev'.mark = dev.mark
      /\ dev'.packets = dev.packets /\ dev'.asking = dev.asking
      /\ SaidBy(r) /\ r.reply # Stack /\ (V2(dev)' <=> V2(dev))
  BY <1>2 DEF Pinged, SameKey, V2
<1>4. Pieces(got, dev.key) /\ got \in Seq(Piece) /\ Len(got) \in Nat /\ known \in BOOLEAN
  BY DEF TInv, TTyped, TypeOK, Pieces
<1>5. ASSUME Plausible(c, r.reply)
      PROVE  /\ got' = Collect(got, r.reply) /\ Gathers(got, dev'.key, r.reply)
             /\ r.reply.status = "SUCCESS" /\ r.reply.from = dev'.staged /\ dev'.staged # Nothing
             /\ r.reply.at \in Nat /\ r.reply.len \in Nat
             /\ r.reply.at + r.reply.len <= r.reply.from.len
             /\ r.reply.at + r.reply.len = r.reply.from.len => dev'.delivered
  <2>1. r.reply.status = "SUCCESS" /\ r.reply.from.kind \in {"result", "connect", "derive", "stack"}
    BY <1>5 DEF Plausible, HasData
  <2>2. r.reply.from.kind # "nothing"
    BY <2>1
  <2>3. ReplyFits(r.reply, r.dev.key)
    BY <1>2, <1>3, <2>2, FitsIf
  <2>4. Gathers(got, dev'.key, r.reply)
    <3>1. Pieces(got, r.dev.key) /\ dev'.key = r.dev.key
      BY <1>2, <1>3, <1>4
    <3>2. Gathers(got, r.dev.key, r.reply)
      BY <2>3, <3>1, CollectIs, Zenon
    <3>3. QED BY <3>1, <3>2
  <2>5. Bare("PENDING").status # "SUCCESS" /\ Bare("NO_OPERATION").status # "SUCCESS"
    BY DEF Bare
  <2>6. /\ r.reply.from = dev'.staged /\ dev'.staged # Nothing
        /\ r.reply.at \in Nat /\ r.reply.len \in Nat
        /\ r.reply.at + r.reply.len <= r.reply.from.len
        /\ r.reply.at + r.reply.len = r.reply.from.len => dev'.delivered
    BY <1>2, <1>3, <2>1, <2>5 DEF SaidBy, Full
  <2>7. got' = Collect(got, r.reply)
    BY <1>5 DEF Sorts
  <2>8. QED BY <2>1, <2>4, <2>6, <2>7
<1>6. ASSUME ~Plausible(c, r.reply) PROVE got' = got
  BY <1>6 DEF Sorts
<1>7. /\ Pieces(got, dev.key)'
      /\ got # <<>> => got' # <<>> /\ got'[1] = got[1]
      /\ \A i \in 1 .. Len(got') :
           \/ i \in 1 .. Len(got) /\ got'[i] = got[i]
           \/ /\ Plausible(c, r.reply) /\ i = Len(got) + 1 /\ i = Len(got')
              /\ got'[i].from = dev'.staged /\ got'[i].at = r.reply.at /\ got'[i].len = r.reply.len
  <2>1. CASE Plausible(c, r.reply)
    <3> DEFINE g == Collect(got, r.reply)
    <3>1. /\ Pieces(g, dev'.key) /\ g # <<>> /\ Len(g) = Len(got) + 1
          /\ \A i \in 1 .. Len(got) : g[i] = got[i]
          /\ g[Len(got) + 1] = [from |-> r.reply.from, at |-> r.reply.at, len |-> r.reply.len,
                                total |-> Total(got) + r.reply.len]
      BY <1>5, <2>1 DEF Gathers
    <3>2. got' = g
      BY <1>5, <2>1
    <3>3. /\ g[Len(got) + 1].from = dev'.staged /\ g[Len(got) + 1].at = r.reply.at
          /\ g[Len(got) + 1].len = r.reply.len
      BY <1>5, <2>1, <3>1
    <3> HIDE DEF g
    <3>4. got # <<>> => 1 \in 1 .. Len(got)
      BY <1>4
    <3>5. \A i \in 1 .. Len(g) : i \in 1 .. Len(got) \/ i = Len(got) + 1
      BY <1>4, <3>1
    <3>6. QED BY <2>1, <3>1, <3>2, <3>3, <3>4, <3>5
  <2>2. CASE ~Plausible(c, r.reply)
    BY <1>3, <1>4, <1>6, <2>2
  <2>3. QED BY <2>1, <2>2
<1>8. Where(c)'
  <2>1. InHand(c)' /\ ~Talks(c, "settle")' /\ ~Talks(c, "send")'
    BY <1>1, <1>2 DEF InHand, Talks
  <2>2. QED BY <1>1, <1>2, <1>7, <2>1 DEF Where
<1>9. Shared'
  <2>1. SUFFICES ASSUME Alone, NEW i \in 1 .. Len(got'), got'[i].from.kind \in Keyed
                 PROVE  got'[i].from.key = dev.key
    BY <1>1, <1>2, <1>3 DEF Shared
  <2>2. CASE got'[i].from = dev'.staged
    BY <1>3, <2>1, <2>2 DEF KeyIs
  <2>3. CASE i \in 1 .. Len(got) /\ got'[i] = got[i]
    BY <2>1, <2>3 DEF TInv, Shared
  <2>4. QED BY <1>7, <2>2, <2>3
<1>10. Caught'
  <2>1. SUFFICES ASSUME V2(dev), dev'.staged # Nothing, ~dev'.delivered
                 PROVE  got' # <<>> /\ ~Ends(got'[Len(got')])
    BY <1>3 DEF Caught
  <2>2. CASE Plausible(c, r.reply)
    <3>1. /\ r.reply.from = dev'.staged /\ r.reply.at \in Nat /\ r.reply.len \in Nat
          /\ r.reply.at + r.reply.len <= r.reply.from.len
          /\ r.reply.at + r.reply.len # r.reply.from.len
      BY <1>5, <2>1, <2>2
    <3>2. r.reply.from.len \in Nat
      BY <1>3, <3>1 DEF KeyIs, StagedIs, Staged
    <3>3. got' # <<>> /\ Len(got') = Len(got) + 1
      BY <1>5, <2>2 DEF Gathers
    <3>4. Len(got') \in 1 .. Len(got') /\ Len(got') \notin 1 .. Len(got)
      BY <1>4, <3>3
    <3>5. got'[Len(got')].from = dev'.staged /\ got'[Len(got')].at = r.reply.at
          /\ got'[Len(got')].len = r.reply.len
      BY <1>7, <3>4
    <3>6. QED BY <3>1, <3>2, <3>3, <3>5 DEF Ends
  <2>3. CASE ~Plausible(c, r.reply)
    <3>1. r.reply.from.kind \notin Texts
      BY <2>1, <2>3 DEF Sorts
    <3>2. /\ r.reply.status = "SUCCESS" /\ r.reply.from = dev'.staged /\ r.reply.len \in 1 .. Full
          /\ IF r.reply.at + r.reply.len = r.reply.from.len THEN dev'.delivered
               ELSE r.reply.len = Full
      <4>1. ~(r.dev.staged = Nothing /\ r.reply \in {Bare("PENDING"), Bare("NO_OPERATION")})
        BY <1>2, <2>1
      <4>2. QED BY <1>2, <1>3, <4>1 DEF SaidBy
    <3>3. r.reply.len = Full
      BY <2>1, <3>2
    <3>4. dev'.staged.kind \in Keyed
      BY <1>3, <2>1, <3>1, <3>2 DEF KeyIs, StagedIs, Staged, Kinds
    <3>5. Plausible(c, r.reply)
      BY <3>2, <3>3, <3>4 DEF Plausible, HasData, Keyed
    <3>6. QED BY <2>3, <3>5
  <2>4. QED BY <2>2, <2>3
<1>11. WholeSaid' /\ FreshReplies'
  BY <1>1 DEF WholeSaid, TInv, FreshReplies
<1>12. ASSUME Covered', c \in clean' PROVE Well(c)'
  <2>1. Covered /\ c \in clean /\ c \in Op
    BY <1>2, <1>3, <1>12 DEF Covered, TInv, TTyped, TypeOK
  <2>2. Clean(c) /\ Polling(c) /\ (Alone /\ c \notin dropped => Undisturbed(c))
    BY <2>1 DEF TInv, Clean
  <2>3. Payload(c)' = Payload(c)
    BY DEF Payload
  <2>4. OnlyOf(c, dev'.staged)
    <3>1. CASE dev.staged # Nothing
      BY <1>2, <2>2, <3>1 DEF Pinged, Polling
    <3>2. CASE dev.staged = Nothing
      <4>1. dev'.staged.kind # "result"
        BY <1>2, <3>2 DEF Pinged, Texts
      <4>2. QED BY <4>1 DEF OnlyOf
    <3>3. QED BY <3>1, <3>2
  <2>5. \A i \in 1 .. Len(got') : OnlyOf(c, got'[i].from)
    BY <1>7, <2>2, <2>4 DEF Polling
  <2>6. Polling(c)'
    BY <1>3, <2>2, <2>3, <2>4, <2>5 DEF Polling, OnlyOf
  <2>7. ASSUME Alone, c \notin dropped PROVE Undisturbed(c)'
    <3>1. (V2(dev) => dev.mark = 0)' /\ Undisturbed(c)
      BY <1>3, <2>2, <2>7 DEF Undisturbed
    <3>2. CASE Asked
      <4>1. ~Plausible(c, r.reply) /\ dev' = dev
        BY <1>2, <3>2 DEF Asked, Pinged, Plausible, HasData, Texts
      <4>2. Asked'
        BY <1>6, <3>2, <4>1 DEF Asked
      <4>3. QED BY <3>1, <4>2 DEF Undisturbed
    <3>3. CASE Answered(c)
      <4>1. got' # <<>> => known'
        BY <1>2, <1>5, <1>6, <3>3 DEF Answered
      <4>2. ~V2(dev) => Coming(c)'
        BY <1>2, <2>1, <3>3, ComesOn DEF Answered
      <4>3. Answered(c)'
        BY <1>3, <3>3, <4>1, <4>2 DEF Answered
      <4>4. QED BY <3>1, <4>3 DEF Undisturbed
    <3>4. QED BY <3>1, <3>2, <3>3 DEF Undisturbed
  <2>8. ~V2(dev)' => c \notin dropped'
    BY <1>3, <2>2 DEF Clean
  <2>9. QED BY <1>2, <2>6, <2>7, <2>8 DEF Well
<1>13. ASSUME NoCause' PROVE Ours(c)'
  <2>1. NoCause
    BY <1>1, <1>2, <1>13, NoCauseBefore
  <2>2. dropped = {}
    BY <2>1 DEF TInv, Quiet
  <2>3. ASSUME c \in Derive PROVE Calm'
    <3>1. Calm /\ got # <<>> /\ session = 0
      BY <1>1, <2>1, <2>3
    <3>2. QED BY <1>1, <1>2, <1>3, <1>7, <3>1 DEF Calm
  <2>4. QED BY <1>1, <1>2, <2>1, <2>2, <2>3 DEF Ours
<1>14. Going(c)'
  <2>1. /\ session' \in Unshared .. dev'.key /\ replyWhole' \in BOOLEAN /\ known' \in BOOLEAN
        /\ tries' \in [Derive -> 0 .. DERIVE_ATTEMPTS] /\ clean' \subseteq Op /\ stale' \subseteq Op
        /\ dropped' \subseteq Op /\ counter' \in 0 .. MaxPacket /\ sent' \in 0 .. MaxPacket
    BY <1>1, <1>2, <1>3, <1>4 DEF TInv, TTyped, TypeOK
  <2>2. QED BY <1>3, <1>7, <1>8, <1>9, <1>10, <1>11, <1>12, <1>13, <2>1 DEF Going
<1>15. QED
  <2>1. step' \in {"send", "poll"} /\ clean' \subseteq clean \cup {c}
        /\ stale' \subseteq stale \cup {c} /\ dropped' \subseteq dropped \cup {c}
    BY <1>2
  <2>2. QED BY <1>1, <1>2, <1>3, <1>14, <2>1, GoesOnHolds

(* pollForResponse(): one OKPING.                                          *)
LEMMA PollHolds ==
  ASSUME TInv, NEW c \in Conv, Poll(c)
  PROVE  TInv'
<1> DEFINE r == Ping(dev, IF c \in Op THEN session ELSE 0)
<1>1. Talks(c, "poll") /\ c \in Op \cup Derive /\ ~Complete(c)
  BY DEF Poll, TInv, Where
<1>2. counter' = counter /\ tries' = tries /\ clients' = clients /\ clean' = clean
      /\ stale' = stale /\ dropped' = dropped
  BY DEF Poll, marks
<1>3. Pinged(r)
  BY PingedIs DEF TInv, TTyped
<1>4. \/ /\ Heard(r) /\ Plausible(c, r.reply)
         /\ got' = Collect(got, r.reply)
         /\ Stay("poll") /\ UNCHANGED <<sent, session, replyWhole>>
      \/ /\ Heard(r) /\ ~Plausible(c, r.reply)
         /\ r.reply.from.kind \in Texts => ~V2(dev)
         /\ Stay("poll") /\ UNCHANGED <<sent, got, session, replyWhole>>
      \/ Heard(r) /\ ~V2(dev) /\ Collected(c)
      \/ Heard(r) /\ End(c, "error") /\ UNCHANGED <<session, replyWhole>>
      \/ Missed(r.dev) /\ End(c, "error") /\ UNCHANGED <<session, replyWhole>>
  BY Zenon DEF Poll, Texts
<1> HIDE DEF r
<1>5. ASSUME Heard(r) \/ Missed(r.dev)
      PROVE  /\ KeyIs(dev') /\ SameKey(dev, dev') /\ known' \in BOOLEAN
             /\ Heard(r) => (known => known')
  BY <1>3, <1>5 DEF Heard, Missed, Pinged, TInv, TTyped, TypeOK
<1>6. CASE /\ Heard(r) /\ Plausible(c, r.reply)
           /\ got' = Collect(got, r.reply)
           /\ Stay("poll") /\ UNCHANGED <<sent, session, replyWhole>>
  <2>1. Sorts(c, r)
    BY <1>6 DEF Sorts
  <2>2. QED BY <1>1, <1>2, <1>3, <1>6, <2>1, PollsOn
<1>7. CASE /\ Heard(r) /\ ~Plausible(c, r.reply)
           /\ r.reply.from.kind \in Texts => ~V2(dev)
           /\ Stay("poll") /\ UNCHANGED <<sent, got, session, replyWhole>>
  <2>1. Sorts(c, r)
    BY <1>7 DEF Sorts
  <2>2. QED BY <1>1, <1>2, <1>3, <1>7, <2>1, PollsOn
<1>8. CASE Heard(r) /\ ~V2(dev) /\ Collected(c)
  BY <1>1, <1>2, <1>5, <1>8, CollectedHolds
<1>9. CASE (Heard(r) \/ Missed(r.dev)) /\ End(c, "error") /\ UNCHANGED <<session, replyWhole>>
  BY <1>1, <1>2, <1>5, <1>9, PollErrs
<1>10. QED BY <1>4, <1>6, <1>7, <1>8, <1>9

-----------------------------------------------------------------------------
(* A derive.                                                               *)

(* A derive is tried so often and no more.                                 *)
Tried ==
  \A c \in Derive :
    result[c] = "none" => tries[c] < DERIVE_ATTEMPTS \/ Talks(c, "poll")

(* The new key or the old one: what it was sent before is as it was.       *)
Rekeys(r) ==
  /\ KeyIs(r.dev) /\ r.dev.version = dev.version /\ r.dev.mark = dev.mark
  /\ r.dev.packets = dev.packets /\ r.dev.asking = dev.asking
  /\ SaidBy(r) /\ r.reply # Stack

(* What the key says to the OKCONNECT of a derive.                         *)
LEMMA DerivationIs ==
  ASSUME KeyIs(dev), NEW c \in Derive, tries[c] \in Nat, NEW r \in DeriveReplies(c)
  PROVE  Rekeys(r)
<1>1. CASE r = Serve(dev)
  <2>1. Says(dev, r)
    BY <1>1, ServeIs
  <2>2. SaidBy(r) /\ r.reply # Stack
    BY <2>1, SaidOf
  <2>3. QED BY <2>1, <2>2 DEF Says, Alike, Rekeys
<1>2. CASE r = Connect(dev, Derivation(c))
  <2> DEFINE s == [Derivation(c) EXCEPT !.key = dev.key + 1]
             k == dev.key + 1
             of == <<c, tries[c] + 1>>
             len == IF V2(dev) THEN Size[c] ELSE 1
             t == [kind |-> "derive", of |-> of, key |-> k, len |-> len]
  <2>1. k \in Nat /\ of \in Derive \X Nat /\ len \in Nat \ {0}
    BY TunnelAssumption DEF KeyIs, KeyState
  <2>2. s = t
    <3>1. Derivation(c) = [kind |-> "derive", of |-> of, key |-> 0, len |-> len]
      <4> DEFINE n == [Nothing EXCEPT !.kind = "derive"]
                 m == [n EXCEPT !.of = of]
      <4>1. n = [kind |-> "derive", of |-> <<>>, key |-> 0, len |-> 0]
        BY DEF Nothing
      <4>2. Derivation(c) = [m EXCEPT !.len = len]
        BY Zenon DEF Derivation
      <4> HIDE DEF of, len, n
      <4>3. m = [kind |-> "derive", of |-> of, key |-> 0, len |-> 0]
        BY <4>1
      <4> HIDE DEF m
      <4>4. QED BY <4>2, <4>3
    <3> HIDE DEF of, len
    <3>2. QED BY <3>1
  <2> HIDE DEF k, of, len
  <2>3. t \in Staged /\ t # Nothing
    BY <2>1 DEF Staged, Kinds, Keyed, Texts, Ofs, Nothing
  <2>4. StagedIs(t)
    BY <2>1, <2>3 DEF StagedIs, Texts
  <2>5. StagedIs(s) /\ s # Nothing /\ s.key = dev.key + 1
    BY <2>2, <2>3, <2>4 DEF k
  <2>6. PICK e :
          /\ KeyIs(e) /\ Says(e, r)
          /\ dev.asking => e = dev
          /\ ~dev.asking => Rekeyed(dev, e, s)
    <3>1. \E e :
             /\ KeyIs(e) /\ Says(e, Connect(dev, Derivation(c)))
             /\ dev.asking => e = dev
             /\ ~dev.asking => Rekeyed(dev, e, s)
      <4>1. StagedIs([Derivation(c) EXCEPT !.key = dev.key + 1])
        BY <2>5
      <4>2. [Derivation(c) EXCEPT !.key = dev.key + 1] # Nothing
        BY <2>5
      <4>3. [Derivation(c) EXCEPT !.key = dev.key + 1].key = dev.key + 1
        BY <2>5
      <4>4. QED BY <4>1, <4>2, <4>3, ConnectIs
    <3>2. QED BY <1>2, <3>1
  <2> HIDE DEF s
  <2>7. SaidBy(r) /\ r.reply # Stack
    BY <2>6, SaidOf
  <2>8. QED BY <2>6, <2>7 DEF Says, Alike, Rekeyed, Rekeys
<1>3. QED BY <1>1, <1>2 DEF DeriveReplies

(* deriveOnce(): the answer, or a part of it, is there.                    *)
LEMMA DeriveGoesOn ==
  ASSUME TInv, NEW c \in Derive, Talks(c, "begin"), NEW r, Rekeys(r), Heard(r),
         r.reply.status # "NO_OPERATION",
         got' = Collect(<<>>, [r.reply EXCEPT !.len = IF r.reply.status = "PENDING" THEN 1 ELSE @]),
         Stay("poll"), sent' = sent, session' = 0, tries' \in [Derive -> 0 .. DERIVE_ATTEMPTS],
         counter' = counter, replyWhole' = replyWhole, clients' = clients,
         clean' = clean, stale' = stale, dropped' = dropped
  PROVE  TInv'
<1> DEFINE reply == [r.reply EXCEPT !.len = IF r.reply.status = "PENDING" THEN 1 ELSE @]
<1>1. /\ phase[c] = "talking" /\ step = "begin" /\ c \in Conv /\ result[c] = "none" /\ c \notin Op
  BY TunnelAssumption DEF Talks, TInv, Where, Conv
<1>2. /\ UNCHANGED <<lvars, result>> /\ phase' = phase /\ result' = result /\ step' = "poll"
      /\ dev' = r.dev /\ known' = (known \/ r.reply.status = "SUCCESS")
      /\ (Alone' <=> Alone)
  BY DEF Stay, Heard, lvars, Alone
<1>3. /\ KeyIs(dev') /\ dev'.version = dev.version /\ dev'.mark = dev.mark
      /\ dev'.packets = dev.packets /\ dev'.asking = dev.asking
      /\ SaidBy(r) /\ r.reply # Stack /\ (V2(dev)' <=> V2(dev)) /\ dev'.key \in Nat
  BY <1>2 DEF Rekeys, V2, KeyIs, KeyState
<1>4. /\ reply.from = r.reply.from /\ reply.at = r.reply.at /\ reply.len \in 1 .. Full
      /\ reply.at \in Nat /\ reply.from = dev'.staged
      /\ dev'.staged # Nothing =>
           /\ r.reply.status = "SUCCESS" /\ reply.len = r.reply.len
           /\ reply.at + reply.len <= reply.from.len
           /\ reply.at + reply.len = reply.from.len => dev'.delivered
  <2>1. CASE r.dev.staged = Nothing /\ r.reply = Bare("PENDING")
    <3>1. reply = [status |-> "PENDING", from |-> Nothing, at |-> 0, len |-> 1]
      BY <2>1 DEF Bare
    <3> HIDE DEF reply
    <3>2. r.reply.from = Nothing /\ r.reply.at = 0
      BY <2>1 DEF Bare
    <3>3. QED BY <1>2, <2>1, <3>1, <3>2 DEF Full
  <2>2. CASE /\ r.dev.staged # Nothing /\ r.reply.status = "SUCCESS" /\ r.reply.from = r.dev.staged
             /\ DOMAIN r.reply = {"status", "from", "at", "len"}
             /\ r.reply.at \in Nat /\ r.reply.len \in 1 .. Full
             /\ r.reply.at + r.reply.len <= r.reply.from.len
             /\ r.reply.at + r.reply.len = r.reply.from.len => r.dev.delivered
    <3>1. r.reply.status # "PENDING"
      BY <2>2
    <3>2. reply.from = r.reply.from /\ reply.at = r.reply.at /\ reply.len = r.reply.len
      BY <2>2, <3>1
    <3> HIDE DEF reply
    <3>3. QED BY <1>2, <2>2, <3>2
  <2>3. r.reply # Bare("NO_OPERATION")
    BY DEF Bare
  <2>4. r.reply # Stack /\ SaidBy(r)
    BY <1>3
  <2>5. r.reply # Bare("NO_OPERATION") => \/ r.dev.staged = Nothing /\ r.reply = Bare("PENDING")
                                         \/ r.dev.staged # Nothing
    BY <2>4 DEF SaidBy
  <2>6. QED BY <2>1, <2>2, <2>3, <2>4, <2>5 DEF SaidBy
<1> HIDE DEF reply
<1>5. /\ Pieces(got, dev.key)' /\ Len(got') = 1 /\ got' # <<>>
      /\ got'[1].from = dev'.staged /\ got'[1].at = reply.at /\ got'[1].len = reply.len
  <2>1. Pieces(<<>>, dev'.key)
    BY DEF Pieces
  <2>2. ReplyFits(reply, dev'.key)
    BY <1>3, <1>4 DEF ReplyFits, KeyIs
  <2>3. Gathers(<<>>, dev'.key, reply)
    BY <2>1, <2>2, CollectIs, Zenon
  <2> DEFINE g == Collect(<<>>, reply)
  <2>4. /\ Pieces(g, dev'.key) /\ g # <<>> /\ Len(g) = Len(<<>>) + 1
        /\ g[Len(<<>>) + 1] = [from |-> reply.from, at |-> reply.at, len |-> reply.len,
                               total |-> Total(<<>>) + reply.len]
    BY <2>3 DEF Gathers
  <2>5. Len(<<>>) + 1 = 1
    OBVIOUS
  <2>6. got' = g
    BY DEF reply
  <2> HIDE DEF g
  <2>7. g[1].from = reply.from /\ g[1].at = reply.at /\ g[1].len = reply.len
    BY <2>4, <2>5
  <2>8. QED BY <1>4, <2>4, <2>5, <2>6, <2>7
<1>6. Where(c)'
  <2>1. InHand(c)' /\ ~Talks(c, "settle")' /\ ~Talks(c, "send")'
    BY <1>1, <1>2 DEF InHand, Talks
  <2>2. QED BY <1>1, <1>2, <1>5, <2>1 DEF Where
<1>7. Shared' /\ WholeSaid' /\ FreshReplies'
  <2>1. \A i \in 1 .. Len(got') : i = 1
    <3> DEFINE n == Len(got')
    <3>1. n = 1
      BY <1>5
    <3> HIDE DEF n
    <3>2. \A i \in 1 .. n : i = 1
      BY <3>1
    <3>3. QED BY <3>2 DEF n
  <2>2. Shared'
    BY <1>3, <1>5, <2>1 DEF Shared, KeyIs
  <2>3. QED BY <2>2 DEF WholeSaid, FreshReplies, TInv
<1>8. Caught'
  <2>1. SUFFICES ASSUME dev'.staged # Nothing, ~dev'.delivered
                 PROVE  got' # <<>> /\ ~Ends(got'[Len(got')])
    BY DEF Caught
  <2>2. /\ reply.at \in Nat /\ reply.len \in Nat /\ dev'.staged.len \in Nat
        /\ reply.at + reply.len <= dev'.staged.len /\ reply.at + reply.len # dev'.staged.len
    BY <1>3, <1>4, <2>1 DEF Full, KeyIs, StagedIs, Staged
  <2>3. QED BY <1>5, <2>2 DEF Ends
<1>9. ASSUME NoCause' PROVE Ours(c)'
  <2>1. Rested
    BY <1>1, RestedHere
  <2>2. NoCause /\ dropped' = {} /\ CalmNow
    BY <1>1, <1>2, <1>9, <2>1, CalmKept
  <2>3. got'[1].from.kind = "nothing" \/ known'
    BY <1>2, <1>4, <1>5, NothingIs
  <2>4. Calm'
    BY <1>2, <1>3, <2>2, <2>3 DEF Calm, CalmNow
  <2>5. QED BY <1>1, <1>2, <2>2, <2>4 DEF Ours
<1>10. Going(c)'
  <2>1. /\ session' \in Unshared .. dev'.key /\ replyWhole' \in BOOLEAN /\ known' \in BOOLEAN
        /\ clean' \subseteq Op /\ stale' \subseteq Op
        /\ dropped' \subseteq Op /\ counter' \in 0 .. MaxPacket /\ sent' \in 0 .. MaxPacket
    BY <1>2, <1>3 DEF TInv, TTyped, TypeOK, Unshared
  <2>2. c \notin clean'
    BY <1>1, <2>1
  <2>3. QED BY <1>3, <1>5, <1>6, <1>7, <1>8, <1>9, <2>1, <2>2 DEF Going
<1>11. QED
  <2>1. step' \in {"send", "poll"} /\ clean' \subseteq clean \cup {c} /\ c \in Op \cup Derive
        /\ stale' \subseteq stale \cup {c} /\ dropped' \subseteq dropped \cup {c}
    BY <1>2
  <2>2. QED BY <1>1, <1>2, <1>3, <1>10, <2>1, GoesOnHolds

(* deriveOnce(): no answer.                                                *)
LEMMA DeriveEnds ==
  ASSUME TInv, NEW c \in Derive, Talks(c, "begin"), NEW r, Rekeys(r), dev' = dev \/ dev' = r.dev,
         known' \in BOOLEAN, End(c, "error"), session' = 0,
         tries' \in [Derive -> 0 .. DERIVE_ATTEMPTS],
         counter' = counter, replyWhole' = replyWhole, clients' = clients,
         clean' = clean, stale' = stale, dropped' = dropped
  PROVE  TInv'
<1>1. /\ phase[c] = "talking" /\ step = "begin" /\ c \in Conv
  BY DEF Talks, Conv
<1>2. Leave(c) /\ EndsAs(c, "error") /\ result' = [result EXCEPT ![c] = "error"]
  BY DEF End, EndsAs
<1>3. /\ KeyIs(dev') /\ dev'.version = dev.version /\ dev'.mark = dev.mark
      /\ dev'.packets = dev.packets /\ dev'.asking = dev.asking
  BY DEF Rekeys, TInv, TTyped
<1>4. dev'.key \in Nat
  BY <1>3 DEF KeyIs, KeyState
<1>5. Rested
  BY <1>1, RestedHere
<1>6. /\ FreshReplies' /\ (~V2(dev)' /\ Alone' => clean' \cap dropped' = {})
      /\ stale' \subseteq Op /\ dropped' \subseteq Op
  BY <1>3, HistoryKept
<1>7. ASSUME NoCause' PROVE dropped' = {} /\ CalmNow'
  <2>1. NoCause /\ dropped' = {} /\ CalmNow
    BY <1>1, <1>2, <1>5, <1>7, CalmKept
  <2>2. QED BY <1>3, <2>1 DEF CalmNow, V2
<1>8. Rested'
  <2>1. /\ session' \in Unshared .. dev'.key /\ (Alone' => session' \in {0, dev'.key})
        /\ counter' \in 0 .. MaxPacket /\ replyWhole' \in BOOLEAN /\ WholeSaid'
    BY <1>4 DEF Unshared, TInv, TTyped, TypeOK, WholeSaid
  <2>2. QED BY <1>3, <1>6, <1>7, <2>1 DEF Rested
<1>9. QED
  <2>1. stale' \subseteq stale \cup {c} /\ dropped' \subseteq dropped \cup {c}
    OBVIOUS
  <2>2. QED BY <1>1, <1>2, <1>3, <1>8, <2>1, OverHolds

(* deriveOnce().                                                           *)
LEMMA SendDeriveHolds ==
  ASSUME TInv, Tried, NEW c \in Conv, SendDerive(c)
  PROVE  TInv'
<1>1. /\ Talks(c, "begin") /\ c \in Derive /\ session' = 0
      /\ tries' = [tries EXCEPT ![c] = @ + 1]
      /\ counter' = counter /\ replyWhole' = replyWhole /\ clients' = clients
      /\ clean' = clean /\ stale' = stale /\ dropped' = dropped
  BY DEF SendDerive, KeyWhileDeriving, marks
<1>2. tries \in [Derive -> 0 .. DERIVE_ATTEMPTS] /\ KeyIs(dev) /\ known \in BOOLEAN
  BY DEF TInv, TTyped, TypeOK
<1>3. tries' \in [Derive -> 0 .. DERIVE_ATTEMPTS] /\ tries[c] \in Nat
  <2>1. result[c] = "none"
    BY <1>1 DEF TInv, Where, Talks
  <2>2. tries[c] < DERIVE_ATTEMPTS /\ tries[c] \in 0 .. DERIVE_ATTEMPTS
    BY <1>1, <1>2, <2>1 DEF Tried, Talks
  <2>3. tries[c] + 1 \in 0 .. DERIVE_ATTEMPTS
    BY <2>2 DEF DERIVE_ATTEMPTS
  <2>4. QED BY <1>1, <1>2, <2>2, <2>3
<1>4. \A r \in DeriveReplies(c) : Rekeys(r)
  BY <1>1, <1>2, <1>3, DerivationIs
<1>5. CASE \E r \in DeriveReplies(c) :
             /\ Heard(r) /\ r.reply.status # "NO_OPERATION"
             /\ got' = Collect(<<>>, [r.reply EXCEPT !.len = IF r.reply.status = "PENDING" THEN 1 ELSE @])
             /\ Stay("poll") /\ UNCHANGED sent
  <2>1. PICK r \in DeriveReplies(c) :
             /\ Heard(r) /\ r.reply.status # "NO_OPERATION"
             /\ got' = Collect(<<>>, [r.reply EXCEPT !.len = IF r.reply.status = "PENDING" THEN 1 ELSE @])
             /\ Stay("poll") /\ UNCHANGED sent
    BY <1>5, Zenon
  <2>2. Rekeys(r)
    BY <1>4, <2>1
  <2>3. QED BY <1>1, <1>3, <2>1, <2>2, DeriveGoesOn
<1>6. CASE \E r \in DeriveReplies(c) : (Heard(r) \/ Missed(r.dev)) /\ End(c, "error")
  <2>1. PICK r \in DeriveReplies(c) : (Heard(r) \/ Missed(r.dev)) /\ End(c, "error")
    BY <1>6
  <2>2. dev' = r.dev /\ known' \in BOOLEAN /\ Rekeys(r)
    BY <1>2, <1>4, <2>1 DEF Heard, Missed
  <2>3. QED BY <1>1, <1>3, <2>1, <2>2, DeriveEnds
<1>7. CASE Missed(dev) /\ End(c, "error")
  <2>1. dev' = dev /\ known' \in BOOLEAN
    BY <1>2, <1>7 DEF Missed
  <2>2. \E r : r \in DeriveReplies(c)
    BY DEF DeriveReplies
  <2>3. PICK r : Rekeys(r)
    BY <1>4, <2>2
  <2>4. QED BY <1>1, <1>3, <1>7, <2>1, <2>3, DeriveEnds
<1>8. QED BY <1>5, <1>6, <1>7, Zenon DEF SendDerive

-----------------------------------------------------------------------------
(* The key's side.                                                         *)

(* The key changes by itself: what is to be shown of it.                   *)
Still(c) ==
  /\ step = "send" => Sending(c)
  /\ step = "poll" => Polling(c) /\ (Alone /\ c \notin dropped => Undisturbed(c))
(* And of what has been settled, when nobody was disturbed.                *)
Settled ==
  /\ step = "send" => Unblocked
  /\ (\A c \in Op : ~InHand(c)) => Calm

(* A step of the key that keeps its part of the invariant keeps it all.    *)
LEMMA KeyMoves ==
  ASSUME TInv, UNCHANGED <<lvars, ovars, session, counter, replyWhole, tries, result, marks>>,
         KeyIs(dev'), dev'.version = dev.version, dev.key <= dev'.key, known' \in BOOLEAN,
         clients' \in 0 .. Clients, Alone' => Alone, Shared', Caught', WholeSaid',
         \A c \in clean : Covered' /\ phase[c] = "talking" => Still(c)',
         NoCause' => Settled'
  PROVE  TInv'
<1>1. /\ running' = running /\ waiting' = waiting /\ phase' = phase /\ step' = step /\ sent' = sent
      /\ got' = got /\ session' = session /\ counter' = counter /\ replyWhole' = replyWhole
      /\ tries' = tries /\ result' = result /\ clean' = clean /\ stale' = stale /\ dropped' = dropped
  BY DEF lvars, ovars, marks
<1>2. LaneOK'
  BY <1>1, LaneKept DEF TInv, TTyped, lvars
<1>3. TTyped'
  <2>1. dev.key \in Nat /\ dev'.key \in Nat
    BY DEF TInv, TTyped, KeyIs, KeyState
  <2>2. session' \in Unshared .. dev'.key
    BY <1>1, <2>1 DEF TInv, TTyped, TypeOK, Unshared
  <2>3. TypeOK'
    <3>1. L!TypeOK'
      BY <1>2 DEF LaneOK
    <3>2. /\ step' \in Step /\ sent' \in 0 .. MaxPacket
          /\ counter' \in 0 .. MaxPacket /\ replyWhole' \in BOOLEAN
          /\ tries' \in [Derive -> 0 .. DERIVE_ATTEMPTS] /\ result' \in [Conv -> Result]
          /\ clean' \subseteq Op /\ stale' \subseteq Op /\ dropped' \subseteq Op
          /\ \A i \in 1 .. Len(got') : got'[i].len \in 1 .. Full
      BY <1>1 DEF TInv, TTyped, TypeOK
    <3>3. QED BY <2>2, <3>1, <3>2, Zenon DEF TypeOK
  <2>4. Pieces(got, dev.key)'
    <3>1. ASSUME NEW i \in 1 .. Len(got) PROVE PieceIs(got[i], dev'.key)
      <4>1. PieceIs(got[i], dev.key)
        BY DEF TInv, TTyped, Pieces
      <4>2. got[i].from.key \in Nat
        BY <4>1 DEF PieceIs, Piece, Froms
      <4>3. QED BY <2>1, <4>1, <4>2 DEF PieceIs
    <3>2. QED BY <1>1, <3>1 DEF Pieces, TInv, TTyped
  <2>5. QED BY <1>2, <2>3, <2>4 DEF TTyped
<1>4. AtWork'
  BY <1>1 DEF TInv, AtWork
<1>5. \A c \in Conv :
        /\ Talks(c, "settle")' <=> Talks(c, "settle")
        /\ Talks(c, "send")' <=> Talks(c, "send")
        /\ Talks(c, "poll")' <=> Talks(c, "poll")
  BY <1>1 DEF Talks
<1>6. \A c \in Conv : Where(c)'
  BY <1>1, <1>5 DEF TInv, Where, InHand
<1>7. FreshReplies'
  BY <1>1 DEF TInv, FreshReplies, Alone
<1>8. ASSUME Covered', NEW c \in clean' PROVE Clean(c)'
  <2>1. c \in Conv /\ c \in clean /\ Covered
    BY <1>1, <1>8 DEF TInv, TTyped, TypeOK, Conv, Covered, V2
  <2>2. Clean(c)
    BY <2>1 DEF TInv
  <2>3. (V2(dev)' <=> V2(dev)) /\ result'[c] # "wrong" /\ (~V2(dev)' => c \notin dropped')
    BY <1>1, <2>2 DEF V2, Clean
  <2>4. CASE phase[c] = "talking"
    <3>1. Still(c)'
      BY <1>8, <2>1, <2>4
    <3>2. (Talks(c, "send") => step = "send")' /\ (Talks(c, "poll") => step = "poll")'
      BY DEF Talks
    <3>3. QED BY <2>3, <3>1, <3>2 DEF Clean, Still
  <2>5. CASE phase[c] # "talking"
    <3>1. ~Talks(c, "send")' /\ ~Talks(c, "poll")'
      BY <1>1, <2>5 DEF Talks
    <3>2. QED BY <2>3, <3>1 DEF Clean
  <2>6. QED BY <2>4, <2>5
<1>9. Quiet'
  <2>1. SUFFICES ASSUME NoCause'
                 PROVE  /\ dropped = {}
                        /\ \A c \in Op : InHand(c)' => c \in clean
                        /\ Settled'
    BY <1>1 DEF Quiet, Settled
  <2>2. NoCause
    BY <1>1, <2>1 DEF NoCause
  <2>3. \A c \in Op : InHand(c)' <=> InHand(c)
    BY <1>5 DEF InHand, Conv
  <2>4. QED BY <2>1, <2>2, <2>3 DEF TInv, Quiet
<1>10. QED BY <1>3, <1>4, <1>6, <1>7, <1>8, <1>9 DEF TInv

(* What is said of an operation in hand that began clean.                  *)
LEMMA CleanInHand ==
  ASSUME TInv, NEW c \in clean, Covered, phase[c] = "talking"
  PROVE  Still(c) /\ c \in Op /\ Chunks[c] \in 1 .. MaxPacket /\ Size[c] \in Nat \ {0}
<1>1. c \in Op
  BY DEF TInv, TTyped, TypeOK
<1>2. QED BY <1>1, TunnelAssumption DEF TInv, Clean, Still, Talks

(* A cause is not made up by the key.                                      *)
LEMMA CauseStays ==
  ASSUME UNCHANGED <<lvars, ovars, result, marks>>, Alone' => Alone, NoCause'
  PROVE  NoCause
<1>1. result' = result /\ dropped' = dropped
  BY DEF marks
<1>2. QED BY <1>1 DEF NoCause

(* Nobody's hand is changed by the key.                                    *)
LEMMA HandsStay ==
  ASSUME UNCHANGED <<lvars, ovars>>
  PROVE  \A c \in Op : InHand(c)' <=> InHand(c)
<1>1. phase' = phase /\ step' = step
  BY DEF lvars, ovars
<1>2. QED BY <1>1 DEF InHand, Talks

(* wipetasks().                                                            *)
LEMMA WipeHolds ==
  ASSUME TInv, Wipe
  PROVE  TInv'
<1>1. /\ UNCHANGED <<lvars, ovars, session, counter, replyWhole, tries, result, marks>>
      /\ step' = step /\ sent' = sent /\ got' = got /\ session' = session /\ counter' = counter
      /\ clean' = clean /\ dropped' = dropped
      /\ dev.staged # Nothing /\ known' = known /\ clients' = clients /\ (Alone' <=> Alone)
  BY DEF Wipe, Key, ovars, marks, Alone
<1>2. KeyIs(dev) /\ known \in BOOLEAN /\ clients \in 0 .. Clients /\ dev.key \in Nat
  BY DEF TInv, TTyped, TypeOK, KeyIs, KeyState
<1>3. /\ KeyIs(dev') /\ dev'.version = dev.version /\ dev'.key = dev.key /\ dev'.staged = Nothing
      /\ dev'.packets = <<>> /\ dev'.asking = FALSE
      /\ dev'.mark = (IF V2(dev) THEN dev.mark ELSE 0) /\ (V2(dev)' <=> V2(dev))
  <2>1. dev' = Wiped(dev)
    BY DEF Wipe, Key
  <2>2. QED BY <1>2, <2>1, WipedIs DEF V2
<1>4. Shared' /\ Caught' /\ WholeSaid'
  BY <1>1, <1>3 DEF TInv, Shared, Caught, WholeSaid
<1>5. ASSUME NEW c \in clean, Covered', phase[c] = "talking" PROVE Still(c)'
  <2>1. Still(c)
    BY <1>1, <1>3, <1>5, CleanInHand DEF Covered
  <2>2. ASSUME step = "send" PROVE Sending(c)'
    <3>1. Sending(c)
      BY <2>1, <2>2 DEF Still
    <3>2. CASE LeftOver
      <4>1. Prefix(c, 0) = <<>>
        BY DEF Prefix
      <4>2. SoFar(c)'
        BY <1>1, <1>3, <3>2, <4>1 DEF LeftOver, SoFar
      <4>3. QED BY <1>3, <4>2 DEF Sending, Unblocked
    <3>3. CASE Elsewhere
      BY <1>1, <1>3, <3>3 DEF Elsewhere, Sending
    <3>4. QED BY <1>1, <3>1, <3>2, <3>3 DEF Sending, SoFar
  <2>3. ASSUME step = "poll" PROVE Polling(c)' /\ (Alone /\ c \notin dropped => Undisturbed(c)')
    <3>1. Polling(c) /\ (Alone /\ c \notin dropped => Undisturbed(c))
      BY <2>1, <2>3 DEF Still
    <3>2. OnlyOf(c, dev.staged)'
      BY <1>3, NothingIs DEF OnlyOf
    <3>3. Polling(c)'
      BY <1>1, <1>3, <3>1, <3>2 DEF Polling, OnlyOf, Payload
    <3>4. ASSUME Alone, c \notin dropped PROVE Undisturbed(c)'
      <4>1. Answered(c) /\ (V2(dev) => dev.mark = 0)
        BY <1>1, <3>1, <3>4 DEF Undisturbed, Asked
      <4>2. ResultOf(c)' = ResultOf(c)
        BY <1>1 DEF ResultOf, Payload
      <4>3. Coming(c) => Coming(c)'
        BY <1>1, <1>3, <4>2 DEF Coming
      <4>4. QED BY <1>1, <1>3, <4>1, <4>3 DEF Answered, Undisturbed
    <3>5. QED BY <3>3, <3>4
  <2>4. QED BY <1>1, <2>2, <2>3 DEF Still
<1>6. ASSUME NoCause' PROVE Settled'
  <2>1. NoCause
    BY <1>1, <1>6, CauseStays
  <2>2. \A c \in Op : InHand(c)' <=> InHand(c)
    BY <1>1, HandsStay
  <2>3. step = "send" => Unblocked'
    BY <1>1, <1>3, <2>1 DEF TInv, Quiet, Unblocked
  <2>4. (\A c \in Op : ~InHand(c)) => Calm'
    BY <1>1, <1>3, <2>1 DEF TInv, Quiet, Calm
  <2>5. QED BY <1>1, <2>2, <2>3, <2>4 DEF Settled
<1>7. QED BY <1>1, <1>2, <1>3, <1>4, <1>5, <1>6, KeyMoves

(* The packets of a whole request are answered by a reply of its length.   *)
LEMMA PayloadLength ==
  ASSUME NEW c \in Op
  PROVE  LengthOf(Payload(c)) = Size[c] /\ Size[c] \in Nat \ {0}
<1>1. Chunks[c] \in 1 .. MaxPacket /\ MaxPacket \in Nat /\ Size[c] \in Nat \ {0}
  BY TunnelAssumption
<1>2. Payload(c)[1] = <<c, 1>>
  BY <1>1 DEF Payload
<1>3. QED BY <1>1, <1>2 DEF LengthOf

(* The challenge ends: what is staged then is of what was asked about.     *)
Ended(d) ==
  /\ KeyIs(dev) /\ KeyIs(d) /\ d.version = dev.version /\ d.key = dev.key /\ d.mark = dev.mark
  /\ d.packets = <<>> /\ d.asking = FALSE
  /\ \/ d.staged.kind = "error"
     \/ d.staged = [kind |-> "result", of |-> dev.packets, key |-> dev.key, len |-> LengthOf(dev.packets)]
          /\ d.cursor = 0

(* So does the end of a challenge, confirmed, refused or timed out.        *)
LEMMA ChallengeEnds ==
  ASSUME TInv, dev.asking, Key(dev'), known' = FALSE, clients' = clients, Ended(dev')
  PROVE  TInv'
<1>1. /\ UNCHANGED <<lvars, ovars, session, counter, replyWhole, tries, result, marks>>
      /\ step' = step /\ sent' = sent /\ got' = got /\ session' = session /\ counter' = counter
      /\ clean' = clean /\ dropped' = dropped /\ (Alone' <=> Alone)
  BY DEF Key, ovars, marks, Alone
<1>2. clients \in 0 .. Clients /\ dev.key \in Nat
  BY DEF TInv, TTyped, TypeOK, KeyIs, KeyState
<1>3. /\ KeyIs(dev') /\ dev'.version = dev.version /\ dev'.key = dev.key /\ dev'.mark = dev.mark
      /\ dev'.packets = <<>> /\ dev'.asking = FALSE /\ (V2(dev)' <=> V2(dev))
  BY DEF Ended, V2
<1>4. Shared' /\ Caught' /\ WholeSaid'
  BY <1>1, <1>3 DEF TInv, Shared, Caught, WholeSaid
<1>5. ASSUME NEW c \in clean, Covered', phase[c] = "talking" PROVE Still(c)'
  <2>1. Still(c) /\ c \in Op
    BY <1>1, <1>3, <1>5, CleanInHand DEF Covered
  <2>2. step # "send"
    BY <2>1 DEF Still, Sending
  <2>3. ASSUME step = "poll" PROVE Polling(c)' /\ (Alone /\ c \notin dropped => Undisturbed(c)')
    <3>1. /\ Polling(c) /\ (Alone /\ c \notin dropped => Undisturbed(c))
          /\ dev.packets = Payload(c) /\ dev.key = session
      BY <2>1, <2>3 DEF Still, Polling
    <3>2. dev'.staged.kind = "error" \/ (dev'.staged = ResultOf(c) /\ dev'.cursor = 0)
      BY <2>1, <3>1, PayloadLength DEF Ended, ResultOf
    <3>3. OnlyOf(c, dev'.staged)
      BY <3>2 DEF OnlyOf, ResultOf
    <3>4. Polling(c)'
      BY <1>1, <1>3, <3>1, <3>3 DEF Polling, OnlyOf, Payload
    <3>5. ASSUME Alone, c \notin dropped PROVE Undisturbed(c)'
      <4>1. Asked /\ (V2(dev) => dev.mark = 0)
        BY <3>1, <3>5 DEF Undisturbed, Answered
      <4>2. ResultOf(c)' = ResultOf(c)
        BY <1>1 DEF ResultOf, Payload
      <4>3. got' = <<>> /\ Total(<<>>) = 0 /\ Size[c] \in Nat \ {0} /\ Len(got') = 0
        BY <1>1, <2>1, <4>1, PayloadLength DEF Asked, Total
      <4>4. Total(got') <= Size[c] /\ Total(got') = 0 /\ Total(got') # Size[c]
        BY <4>3
      <4>5. dev'.staged.kind \in Texts \/ (dev'.staged = ResultOf(c)' /\ dev'.cursor = 0)
        BY <3>2, <4>2 DEF Texts
      <4>6. Coming(c)'
        BY <4>3, <4>4, <4>5 DEF Coming
      <4>7. QED BY <1>3, <4>1, <4>3, <4>6 DEF Answered, Undisturbed
    <3>6. QED BY <3>4, <3>5
  <2>4. QED BY <1>1, <2>2, <2>3 DEF Still
<1>6. ASSUME NoCause' PROVE Settled'
  <2>1. NoCause
    BY <1>1, <1>6, CauseStays
  <2>2. \A c \in Op : InHand(c)' <=> InHand(c)
    BY <1>1, HandsStay
  <2>3. step = "send" => Unblocked'
    BY <1>1, <1>3, <2>1 DEF TInv, Quiet, Unblocked
  <2>4. ~(\A c \in Op : ~InHand(c))
    BY <2>1 DEF TInv, Quiet, Calm
  <2>5. QED BY <1>1, <2>2, <2>3, <2>4 DEF Settled
<1>7. QED
  <2>1. dev.key <= dev'.key
    BY <1>2, <1>3
  <2>2. known' \in BOOLEAN /\ clients' \in 0 .. Clients
    BY <1>2
  <2>3. QED BY <1>1, <1>3, <1>4, <1>5, <1>6, <2>1, <2>2, KeyMoves

(* The user confirms.                                                      *)
LEMMA PressHolds ==
  ASSUME TInv, Press
  PROVE  TInv'
<1>1. KeyIs(dev) /\ dev.asking /\ dev' = Pressed(dev, LengthOf(dev.packets)) /\ Key(dev')
        /\ known' = FALSE /\ clients' = clients
  BY DEF Press, Key, TInv, TTyped
<1>2. Ended(dev')
  <2> DEFINE s == [kind |-> "result", of |-> dev.packets, key |-> dev.key, len |-> LengthOf(dev.packets)]
             e == Pressed(dev, LengthOf(dev.packets))
  <2>1. /\ KeyIs(e) /\ e.version = dev.version /\ e.key = dev.key /\ e.staged = s /\ e.cursor = 0
        /\ e.mark = dev.mark /\ e.packets = <<>> /\ e.asking = FALSE
    BY <1>1, PressedIs
  <2>2. dev' = e
    BY <1>1
  <2> HIDE DEF e
  <2>3. QED BY <1>1, <2>1, <2>2 DEF Ended
<1>3. QED BY <1>1, <1>2, ChallengeEnds

(* The challenge runs out.                                                 *)
LEMMA LapseHolds ==
  ASSUME TInv, Lapse
  PROVE  TInv'
<1>1. KeyIs(dev) /\ dev.asking /\ dev' = Lapsed(dev) /\ Key(dev')
        /\ known' = FALSE /\ clients' = clients
  BY DEF Lapse, Key, TInv, TTyped
<1>2. Ended(dev')
  <2> DEFINE e == Lapsed(dev)
  <2>1. /\ KeyIs(e) /\ e.version = dev.version /\ e.key = dev.key /\ e.staged = Text("error")
        /\ e.mark = dev.mark /\ e.packets = <<>> /\ e.asking = FALSE
    BY <1>1, LapsedIs
  <2>2. dev' = e /\ Text("error").kind = "error"
    BY <1>1 DEF Text
  <2> HIDE DEF e
  <2>3. QED BY <1>1, <2>1, <2>2 DEF Ended
<1>3. QED BY <1>1, <1>2, ChallengeEnds

(* Another client connects.                                                *)
LEMMA OtherClientHolds ==
  ASSUME TInv, OtherClient
  PROVE  TInv'
<1>1. /\ UNCHANGED <<lvars, ovars, session, counter, replyWhole, tries, result, marks>>
      /\ step' = step /\ sent' = sent /\ got' = got /\ session' = session /\ counter' = counter
      /\ clean' = clean /\ dropped' = dropped /\ known' = FALSE /\ ~dev.asking
      /\ clients > 0 /\ clients' = clients - 1 /\ dev' = Connect(dev, Greeting).dev
  BY DEF OtherClient, Key, ovars, marks
<1>2. clients \in 0 .. Clients /\ Clients \in Nat /\ dev.key \in Nat /\ session \in Unshared .. dev.key
  BY TunnelAssumption DEF TInv, TTyped, TypeOK, KeyIs, KeyState
<1>3. clients' \in 0 .. Clients /\ ~Alone'
  BY <1>1, <1>2 DEF Alone
<1>4. /\ KeyIs(dev') /\ dev'.version = dev.version /\ ~dev'.asking /\ dev'.key = dev.key + 1
      /\ (V2(dev)' <=> V2(dev))
  BY <1>1, GreetingIs DEF TInv, TTyped, V2
<1>5. dev'.key # session' /\ dev.key <= dev'.key /\ (dev'.staged.kind \in Keyed => dev'.staged.key # session')
  BY <1>1, <1>2, <1>4 DEF KeyIs, Unshared
<1>6. Shared' /\ Caught' /\ WholeSaid'
  BY <1>1, <1>3 DEF Shared, Caught, WholeSaid
<1>7. ASSUME NEW c \in clean, Covered', phase[c] = "talking" PROVE Still(c)'
  <2>1. V2(dev) /\ V2(dev)'
    BY <1>3, <1>4, <1>7 DEF Covered
  <2>2. Still(c)
    BY <1>7, <2>1, CleanInHand DEF Covered
  <2>3. step' = "send" => Sending(c)'
    BY <1>4, <1>5, <2>1 DEF Sending, Elsewhere
  <2>4. step' = "poll" => Polling(c)'
    <3>1. OnlyOf(c, dev.staged)'
      BY <1>5 DEF OnlyOf, Keyed
    <3>2. QED BY <1>1, <1>4, <2>2, <3>1 DEF Still, Polling, OnlyOf, Payload
  <2>5. QED BY <1>3, <2>3, <2>4 DEF Still
<1>8. ~NoCause'
  BY <1>3 DEF NoCause
<1>9. QED
  <2>1. known' \in BOOLEAN
    BY <1>1
  <2>2. QED BY <1>1, <1>3, <1>4, <1>5, <1>6, <1>7, <1>8, <2>1, KeyMoves

-----------------------------------------------------------------------------
(* The theorems.                                                           *)

IInv == TInv /\ Tried

(* A key that was just plugged in.                                         *)
LEMMA FreshIs ==
  ASSUME NEW v \in Version, Measured(v)
  PROVE  KeyIs(Fresh(v)) /\ Fresh(v).key = 0 /\ Fresh(v).staged = Nothing /\ Fresh(v).mark = 0
           /\ Fresh(v).packets = <<>> /\ Fresh(v).asking = FALSE
<1> DEFINE d == Fresh(v)
<1>1. Nothing \in Staged /\ StagedIs(Nothing) /\ Nothing.kind \notin Keyed
  BY NothingIs DEF StagedIs, Keyed
<1>2. /\ d \in KeyState /\ d.key = 0 /\ d.staged = Nothing /\ d.mark = 0 /\ d.packets = <<>>
      /\ d.asking = FALSE /\ Measured(d.version)
  BY <1>1, NoPackets DEF Fresh, KeyState
<1> HIDE DEF d
<1>3. KeyIs(d)
  BY <1>1, <1>2 DEF KeyIs
<1>4. QED BY <1>2, <1>3 DEF d

(* The tunnel begins with nothing under way.                               *)
LEMMA TunnelAtFirst == Init => IInv
<1> SUFFICES ASSUME Init PROVE IInv
  OBVIOUS
<1>1. /\ L!Init /\ step = "idle" /\ sent = 0 /\ got = <<>>
      /\ session = 0 /\ counter = 0 /\ replyWhole = FALSE /\ known = TRUE
      /\ tries = [c \in Derive |-> 0] /\ result = [c \in Conv |-> "none"]
      /\ clients = Clients /\ clean = {} /\ stale = {} /\ dropped = {}
  BY DEF Init
<1>2. /\ KeyIs(dev) /\ dev.key = 0 /\ dev.staged = Nothing /\ dev.mark = 0 /\ dev.packets = <<>>
      /\ dev.asking = FALSE
  BY FreshIs DEF Init
<1>3. LaneOK /\ \A c \in Conv : phase[c] = "outside"
  BY <1>1, LaneAtFirst DEF L!Init
<1>4. Len(got) = 0
  BY <1>1
<1>5. TTyped
  <2>1. TypeOK
    <3>1. L!TypeOK
      BY <1>3 DEF LaneOK
    <3>2. session \in Unshared .. dev.key /\ sent \in 0 .. MaxPacket /\ counter \in 0 .. MaxPacket
          /\ clients \in 0 .. Clients
      BY <1>1, <1>2, TunnelAssumption DEF Unshared
    <3>3. tries \in [Derive -> 0 .. DERIVE_ATTEMPTS] /\ result \in [Conv -> Result]
      BY <1>1 DEF DERIVE_ATTEMPTS, Result
    <3>4. \A i \in 1 .. Len(got) : got[i].len \in 1 .. Full
      BY <1>4
    <3>5. step \in Step /\ replyWhole \in BOOLEAN /\ known \in BOOLEAN
          /\ clean \subseteq Op /\ stale \subseteq Op /\ dropped \subseteq Op
      BY <1>1 DEF Step
    <3>6. QED BY <3>1, <3>2, <3>3, <3>4, <3>5, Zenon DEF TypeOK
  <2>2. Pieces(got, dev.key)
    BY <1>1 DEF Pieces
  <2>3. QED BY <1>2, <1>3, <2>1, <2>2 DEF TTyped
<1>6. AtWork
  BY <1>1, <1>3 DEF AtWork
<1>7. \A c \in Conv : Where(c)
  BY <1>1, <1>3 DEF Where, Talks, InHand
<1>8. Shared /\ Caught /\ WholeSaid /\ FreshReplies
  BY <1>1, <1>4 DEF Shared, Caught, WholeSaid, FreshReplies
<1>9. Quiet
  BY <1>1, <1>2 DEF Quiet, InHand, Talks, Calm
<1>10. Tried
  BY <1>1 DEF Tried, DERIVE_ATTEMPTS
<1>11. QED BY <1>1, <1>5, <1>6, <1>7, <1>8, <1>9, <1>10 DEF TInv, IInv

(* A call ends or goes on: no other is tried more often.                   *)
LEMMA TriedIf ==
  ASSUME TInv, Tried, tries' = tries, NEW c \in Conv, phase[c] \in {"talking", "settled"},
         \A d \in Conv \ {c} : result'[d] = result[d],
         c \in Derive /\ result'[c] = "none" => tries[c] < DERIVE_ATTEMPTS \/ Talks(c, "poll")'
  PROVE  Tried'
<1>1. SUFFICES ASSUME NEW d \in Derive, d # c, result'[d] = "none"
               PROVE  tries[d] < DERIVE_ATTEMPTS
  BY DEF Tried
<1>2. d \in Conv /\ result[d] = "none"
  BY <1>1 DEF Conv
<1>3. ~Talks(d, "poll")
  BY <1>1, <1>2, OneTalks DEF Talks, TInv
<1>4. QED BY <1>2, <1>3 DEF Tried

(* A step that leaves the calls alone.                                     *)
LEMMA TriedStays ==
  ASSUME Tried, tries' = tries, result' = result,
         \A d \in Conv : phase[d] = "talking" => phase'[d] = "talking", step' = step
  PROVE  Tried'
<1>1. \A d \in Derive : Talks(d, "poll") => Talks(d, "poll")'
  BY DEF Talks, Conv
<1>2. QED BY <1>1 DEF Tried

(* A derive that is over or is polled for.                                 *)
LEMMA TriedKept ==
  ASSUME TInv, Tried, [Next]_vars
  PROVE  Tried'
<1>1. result \in [Conv -> Result] /\ tries \in [Derive -> 0 .. DERIVE_ATTEMPTS]
        /\ phase \in [Conv -> L!Phase]
  BY DEF TInv, TTyped, TypeOK, LaneOK, L!TypeOK
<1>2. ASSUME NEW c \in Conv, NEW how, End(c, how)
      PROVE  result' = [result EXCEPT ![c] = how] /\ \A d \in Conv \ {c} : result'[d] = result[d]
  BY <1>1, <1>2 DEF End
<1>3. ASSUME NEW at, Stay(at) PROVE phase' = phase /\ result' = result /\ step' = at
  BY <1>3 DEF Stay, lvars
<1>4. ASSUME NEW c \in Conv, Call(c) PROVE Tried'
  <2>1. tries' = tries /\ result' = result
    BY <1>4 DEF Call
  <2>2. ASSUME NEW d \in Derive, Talks(d, "poll") PROVE Talks(d, "poll")'
    <3>1. d \in Conv /\ phase[d] = "talking"
      BY <2>2 DEF Talks, Conv
    <3>2. CASE L!CallIdle(c)
      BY <3>1, <3>2 DEF L!CallIdle, TInv, TTyped, LaneOK, L!LaneInv, L!RunningIsHeld, L!InLane
    <3>3. CASE L!CallBusy(c) /\ step' = step
      BY <1>1, <2>2, <3>1, <3>3 DEF L!CallBusy, Talks
    <3>4. QED BY <1>4, <3>2, <3>3 DEF Call
  <2>3. QED BY <2>1, <2>2 DEF Tried
<1>5. ASSUME NEW c \in Conv, Release(c) PROVE Tried'
  <2>1. tries' = tries /\ result' = result /\ phase[c] = "settled"
    BY <1>5 DEF Release, L!Release
  <2>2. ASSUME c \in Derive, result'[c] = "none" PROVE tries[c] < DERIVE_ATTEMPTS
    BY <2>1, <2>2 DEF Tried, Talks
  <2>3. QED BY <2>1, <2>2, TriedIf
<1>6. ASSUME NEW c \in Conv, ConnectTunnel(c) \/ KeepSession(c) \/ Settle(c) \/ SendChunk(c) \/ SendFails(c)
      PROVE  Tried'
  <2>1. phase[c] = "talking" /\ tries' = tries /\ c \notin Derive
    BY <1>6, TunnelAssumption DEF ConnectTunnel, KeepSession, Settle, SendChunk, SendFails, Talks, TInv,
         Where
  <2>2. \A d \in Conv \ {c} : result'[d] = result[d]
    <3>1. (\E at : Stay(at)) \/ (\E how : End(c, how))
      BY <1>6 DEF ConnectTunnel, KeepSession, Settle, SendChunk, SendFails
    <3>2. QED BY <1>2, <1>3, <3>1
  <2>3. QED BY <2>1, <2>2, TriedIf
<1>7. ASSUME NEW c \in Conv, Poll(c) \/ GiveUp(c) \/ Finish(c) PROVE Tried'
  <2>1. phase[c] = "talking" /\ step = "poll" /\ tries' = tries /\ (c \in Derive => c \notin Op)
    BY <1>7, TunnelAssumption DEF Poll, GiveUp, Finish, Talks
  <2>2. \/ Stay("poll")
        \/ End(c, "error")
        \/ Collected(c)
    BY <1>7 DEF Poll, GiveUp, Finish
  <2>3. CASE Stay("poll")
    BY <1>3, <2>1, <2>3, TriedStays
  <2>4. CASE \E how \in {"own", "wrong", "error"} : End(c, how)
    <3>1. PICK how \in {"own", "wrong", "error"} : End(c, how)
      BY <2>4
    <3>2. result'[c] # "none"
      BY <1>1, <1>2, <3>1
    <3>3. QED BY <1>2, <2>1, <3>1, <3>2, TriedIf
  <2>5. CASE TriesLeft(c) /\ UNCHANGED result
    BY <2>1, <2>5, TriedIf DEF TriesLeft
  <2>6. Collected(c) => \/ \E how \in {"own", "wrong", "error"} : End(c, how)
                        \/ TriesLeft(c) /\ UNCHANGED result
    BY DEF Collected, Opened, Derived
  <2>7. QED BY <2>2, <2>3, <2>4, <2>5, <2>6
<1>8. ASSUME NEW c \in Conv, SendDerive(c) PROVE Tried'
  <2>1. phase[c] = "talking" /\ c \in Derive /\ tries' = [tries EXCEPT ![c] = @ + 1] /\ step = "begin"
    BY <1>8 DEF SendDerive, Talks
  <2>2. \A d \in Derive \ {c} : tries'[d] = tries[d]
    BY <1>1, <2>1
  <2>3. \A d \in Derive : ~Talks(d, "poll")
    BY <2>1 DEF Talks
  <2>4. Stay("poll") \/ End(c, "error")
    BY <1>8 DEF SendDerive
  <2>5. CASE Stay("poll")
    BY <1>3, <2>1, <2>2, <2>3, <2>5 DEF Tried, Talks
  <2>6. CASE End(c, "error")
    <3>1. result'[c] # "none" /\ \A d \in Derive \ {c} : result'[d] = result[d]
      BY <1>1, <1>2, <2>6 DEF Conv
    <3>2. QED BY <2>2, <2>3, <3>1 DEF Tried
  <2>7. QED BY <2>4, <2>5, <2>6
<1>9. ASSUME (Wipe \/ Press \/ Lapse \/ OtherClient) \/ UNCHANGED vars PROVE Tried'
  <2>1. tries' = tries /\ result' = result /\ phase' = phase /\ step' = step
    BY <1>9 DEF Wipe, Press, Lapse, OtherClient, Key, vars, lvars, ovars
  <2>2. QED BY <2>1, TriedStays
<1>10. QED BY <1>4, <1>5, <1>6, <1>7, <1>8, <1>9 DEF Next

(* Whatever the operation, the key, the user or another client does.       *)
LEMMA TunnelKept == IInv /\ [Next]_vars => IInv'
<1> SUFFICES ASSUME IInv, [Next]_vars PROVE IInv'
  OBVIOUS
<1>1. TInv /\ Tried
  BY DEF IInv
<1>2. ASSUME NEW c \in Conv, Call(c) \/ Release(c) \/ ConnectTunnel(c) \/ KeepSession(c)
      PROVE  TInv'
  BY <1>1, <1>2, CallHolds, ReleaseHolds, ConnectTunnelHolds, KeepSessionHolds, Zenon
<1>3. ASSUME NEW c \in Conv, Settle(c) \/ SendChunk(c) \/ SendFails(c) PROVE TInv'
  BY <1>1, <1>3, SettleHolds, SendChunkHolds, SendFailsHolds, Zenon
<1>4. ASSUME NEW c \in Conv, Poll(c) \/ GiveUp(c) \/ Finish(c) \/ SendDerive(c) PROVE TInv'
  BY <1>1, <1>4, PollHolds, GiveUpHolds, FinishHolds, SendDeriveHolds, Zenon
<1>5. ASSUME Wipe \/ Press \/ Lapse \/ OtherClient PROVE TInv'
  BY <1>1, <1>5, WipeHolds, PressHolds, LapseHolds, OtherClientHolds, Zenon
<1>6. ASSUME UNCHANGED vars PROVE TInv'
  <2>1. UNCHANGED <<lvars, ovars, session, counter, replyWhole, tries, result, marks>>
          /\ dev' = dev /\ known' = known /\ clients' = clients
    BY <1>6 DEF vars, hvars
  <2>2. Kept /\ step' = step /\ phase' = phase
    BY <2>1 DEF Kept, lvars, ovars, marks
  <2>3. LaneOK'
    BY <1>1, <2>1, LaneKept DEF TInv, TTyped
  <2>4. \A d \in Conv : phase'[d] \in {"waiting", "talking"} => result[d] = "none"
    BY <1>1, <2>2 DEF TInv, Where
  <2>5. \A d \in Conv : phase'[d] = "talking" <=> phase[d] = "talking"
    BY <2>2
  <2>6. QED BY <1>1, <2>2, <2>3, <2>4, <2>5, BeginHolds
<1>7. TInv'
  BY <1>2, <1>3, <1>4, <1>5, <1>6, Zenon DEF Next
<1>8. Tried'
  BY <1>1, TriedKept
<1>9. QED BY <1>7, <1>8 DEF IInv

(* The tunnel is always in order.                                          *)
THEOREM TunnelInvariant == Spec => []IInv
BY TunnelAtFirst, TunnelKept, PTL DEF Spec

(* The session key that the host holds is the key's own, until another     *)
(* client connects: no derive, connect or failure of either leaves it      *)
(* stale (tunnelSession, plugins/okcrypto/index.js).                       *)
THEOREM SessionAlwaysShared == Spec => []SessionIsShared
<1>1. IInv => SessionIsShared
  BY DEF IInv, TInv, TTyped, Shared, Alone, SessionIsShared
<1>2. QED BY <1>1, TunnelInvariant, PTL

(* An operation that began with nothing of another unheard hears no old    *)
(* reply and never returns another's answer, whatever was given up before  *)
(* it (lastStagedAt and settleStagedReply, plugins/okcrypto/index.js).     *)
THEOREM CleanHaveTheirOwn == Spec => []OwnIfClean
<1>1. IInv => OwnIfClean
  BY DEF IInv, TInv, Clean, Covered, Alone, OwnIfClean
<1>2. QED BY <1>1, TunnelInvariant, PTL

(* The duplicate guard drops no keyhandle unless an operation was given up *)
(* for another reason or another client came: packet numbers may restart   *)
(* (reservePacketRun and nextPacketNum, src/protocol/chunk.js).            *)
THEOREM DropsHaveACause == Spec => []DropNeedsACause
<1>1. IInv => DropNeedsACause
  BY DEF IInv, TInv, Quiet, NoCause, Alone, DropNeedsACause
<1>2. QED BY <1>1, TunnelInvariant, PTL
=============================================================================
