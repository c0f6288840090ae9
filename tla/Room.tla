-------------------------------- MODULE Room --------------------------------
(* An identity's room: who is in it, and the requests its members send     *)
(* each other through it.  The server's side is mcp/core/room.js with the  *)
(* sockets of mcp/localhost/plugin.js, a member's is                       *)
(* bucket/src/room-client.js.  The server's storage answers in microtasks: *)
(* each of its handlers is one step.                                       *)
(*                                                                         *)
(* A socket is a member and the number of its dial.  Two may be open of    *)
(* one member: the network took one and the server does not know, or two   *)
(* programs of one computer joined under its id.                           *)
EXTENDS Naturals, Sequences, FiniteSets, FiniteSetsExt

CONSTANTS
  Members,                      (* the identity's devices                  *)
  MaxCalls,                     (* bounds: the sockets each opens, and     *)
  MaxMoves                      (* requests in all, a socket counting two  *)

ASSUME RoomAssumption == MaxCalls \in [Members -> Nat] /\ MaxMoves \in Nat

VARIABLES
  listed,      (* the server's sockets: getWebSockets()                    *)
  joinedAt,    (* when each of them joined, 0 if it has not                *)
  closing,     (* those it closed, until the close completes               *)
  toRoom, toMember,   (* messages on their way, per socket                 *)
  client,      (* the member's end of each socket                          *)
  peers,       (* `peers` of each                                          *)
  asked,       (* `pending`: its requests by number, and whom they are to  *)
  toAnswer,    (* requests its handler has not answered                    *)
  number,      (* its `seq`                                                *)
  answers,     (* what requests were answered, and what with               *)
  announced    (* members of whom no newest socket has closed since the    *)
               (* others were told they are there                          *)

roomVars == <<listed, joinedAt, closing, toRoom, toMember, client, peers, asked,
              toAnswer, number, answers, announced>>
clientVars == <<client, peers, asked, toAnswer, number, answers>>

Conns == UNION {{d} \X (1 .. MaxCalls[d]) : d \in Members}
MemberOf(s) == s[1]

(* A message; a request names the socket it was made on, for the           *)
(* properties.                                                             *)
Message(kind, who, id, of) == [t |-> kind, who |-> who, id |-> id, of |-> of]
JoinedNow(s, there) == [t |-> "joined", who |-> MemberOf(s), id |-> 0, of |-> s, peers |-> there]

RoomInit ==
  /\ listed = {} /\ joinedAt = [s \in Conns |-> 0] /\ closing = {}
  /\ toRoom = [s \in Conns |-> <<>>] /\ toMember = [s \in Conns |-> <<>>]
  /\ client = [s \in Conns |-> "none"]
  /\ peers = [s \in Conns |-> {}] /\ asked = [s \in Conns |-> {}]
  /\ toAnswer = [s \in Conns |-> {}] /\ number = [s \in Conns |-> 0]
  /\ answers = {} /\ announced = {}

-----------------------------------------------------------------------------
(* joined(): of each member, the newest of its sockets that are listed.    *)
HasJoined(s) == joinedAt[s] # 0
JoinedOf(d) == {s \in Conns : MemberOf(s) = d /\ HasJoined(s)}
There == {d \in Members : JoinedOf(d) # {}}
Newest(d) == CHOOSE s \in JoinedOf(d) : \A c \in JoinedOf(d) : joinedAt[c] <= joinedAt[s]
Joined == {Newest(d) : d \in There}

(* The time of a join: only a member's own sockets are compared by it.     *)
Now(d) == IF d \in There THEN joinedAt[Newest(d)] + 1 ELSE 1

(* What is sent to a socket that is closing goes nowhere.                  *)
Told(them, message) ==
  [s \in Conns |-> IF s \in them \ closing THEN Append(toMember[s], message) ELSE toMember[s]]

(* A join: it is the member from now on; its last socket is closed and the *)
(* others are not told, or they are told that it is there.                 *)
Join(s) ==
  LET others == {Newest(d) : d \in There \ {MemberOf(s)}}
      replaced == {Newest(d) : d \in There \cap {MemberOf(s)}}
      said == Told({s}, JoinedNow(s, There \ {MemberOf(s)}))
  IN  /\ joinedAt' = [joinedAt EXCEPT ![s] = Now(MemberOf(s))]
      /\ closing' = closing \cup replaced
      /\ toMember' =
           IF replaced # {} THEN said
           ELSE [c \in Conns |-> IF c \in others \ closing
                                 THEN Append(said[c], Message("up", MemberOf(s), 0, s)) ELSE said[c]]
      /\ announced' = IF replaced = {} THEN announced \cup {MemberOf(s)} ELSE announced

(* A frame is passed to its member as that is now, or the sender hears     *)
(* that it is gone.                                                        *)
Pass(s, m) ==
  /\ toMember' = IF m.who \in There
                 THEN Told({Newest(m.who)}, [m EXCEPT !.who = MemberOf(s)])
                 ELSE Told({s}, Message("gone", m.who, 0, s))
  /\ UNCHANGED <<joinedAt, closing, announced>>

(* webSocketMessage: what a closing socket still brings is taken as well.  *)
RoomHears(s) ==
  /\ s \in listed /\ toRoom[s] # <<>>
  /\ toRoom' = [toRoom EXCEPT ![s] = Tail(@)]
  /\ LET m == Head(toRoom[s]) IN IF m.t = "join" THEN Join(s) ELSE Pass(s, m)
  /\ UNCHANGED <<clientVars, listed>>

LeftTellsAll(s) ==
  [them |-> {Newest(d) : d \in There} \ {s}, tells |-> HasJoined(s)]

(* left(): the others hear it, unless a newer socket holds the member.     *)
Left(s) ==
  LET others == Joined \ {s}
  IN  [them |-> others, tells |-> HasJoined(s) /\ ~\E c \in others : MemberOf(c) = MemberOf(s)]

SocketCloses(s) ==
  /\ s \in listed /\ client[s] = "gone"
  /\ listed' = listed \ {s} /\ closing' = closing \ {s}
  /\ joinedAt' = [joinedAt EXCEPT ![s] = 0]
  /\ toRoom' = [toRoom EXCEPT ![s] = <<>>]
  /\ toMember' = IF Left(s).tells THEN Told(Left(s).them, Message("down", MemberOf(s), 0, s))
                 ELSE toMember
  /\ announced' = announced \ {d \in {MemberOf(s)} : HasJoined(s) /\ s = Newest(d)}
  /\ UNCHANGED clientVars

(* alarm(): who has not joined in time is closed.                          *)
JoinOverdue(s) ==
  /\ s \in listed \ closing /\ ~HasJoined(s)
  /\ closing' = closing \cup {s}
  /\ UNCHANGED <<clientVars, listed, joinedAt, toRoom, toMember, announced>>

-----------------------------------------------------------------------------
(* connectRoom: the challenge is answered with the join.                   *)
Made == FoldSet(LAMBDA s, n : n + number[s], 2 * Cardinality({s \in Conns : client[s] # "none"}), Conns)

Connect(s) ==
  /\ client[s] = "none" /\ \A n \in 1 .. s[2] - 1 : client[<<s[1], n>>] # "none"
  /\ Made + 1 < MaxMoves
  /\ client' = [client EXCEPT ![s] = "joining"]
  /\ listed' = listed \cup {s}
  /\ toRoom' = [toRoom EXCEPT ![s] = <<Message("join", MemberOf(s), 0, s)>>]
  /\ UNCHANGED <<joinedAt, closing, toMember, peers, asked, toAnswer, number, answers, announced>>

(* onmessage.                                                              *)
MemberHears(s) ==
  /\ client[s] \in {"joining", "in"} /\ toMember[s] # <<>>
  /\ toMember' = [toMember EXCEPT ![s] = Tail(@)]
  /\ LET m == Head(toMember[s])
         refused == IF m.t \in {"down", "gone"} THEN {q \in asked[s] : q.to = m.who} ELSE {}
         answered == IF m.t = "answer" THEN {q \in asked[s] : q.id = m.id /\ q.to = m.who} ELSE {}
     IN  /\ client' = [client EXCEPT ![s] = "in"]
         /\ peers' = [peers EXCEPT ![s] = CASE m.t = "joined" -> @ \cup m.peers
                                            [] m.t = "up" -> @ \cup {m.who}
                                            [] m.t = "down" -> @ \ {m.who}
                                            [] OTHER -> @]
         /\ asked' = [asked EXCEPT ![s] = @ \ (refused \cup answered)]
         /\ answers' = answers \cup {[on |-> s, id |-> q.id, of |-> m.of] : q \in answered}
         /\ toAnswer' = IF m.t = "request" THEN [toAnswer EXCEPT ![s] = @ \cup {m}] ELSE toAnswer
  /\ UNCHANGED <<listed, joinedAt, closing, toRoom, number, announced>>

(* request(): to one of peers(), under the socket's next number.           *)
AskPeer(s, d) ==
  /\ client[s] = "in" /\ d \in peers[s]
  /\ Made < MaxMoves
  /\ number' = [number EXCEPT ![s] = @ + 1]
  /\ asked' = [asked EXCEPT ![s] = @ \cup {[id |-> number'[s], to |-> d]}]
  /\ toRoom' = [toRoom EXCEPT ![s] = Append(@, Message("request", d, number'[s], s))]
  /\ UNCHANGED <<listed, joinedAt, closing, toMember, client, peers, toAnswer, answers, announced>>

(* The handler is done, and the answer goes out on the socket it came by.  *)
Answers(s, m) ==
  /\ client[s] = "in" /\ m \in toAnswer[s]
  /\ toAnswer' = [toAnswer EXCEPT ![s] = @ \ {m}]
  /\ toRoom' = [toRoom EXCEPT ![s] = Append(@, [m EXCEPT !.t = "answer"])]
  /\ UNCHANGED <<listed, joinedAt, closing, toMember, client, peers, asked, number, answers, announced>>

(* A request's time is up.                                                 *)
NoAnswer(s, q) ==
  /\ q \in asked[s]
  /\ asked' = [asked EXCEPT ![s] = @ \ {q}]
  /\ UNCHANGED <<listed, joinedAt, closing, toRoom, toMember, client, peers, toAnswer, number, answers, announced>>

(* The socket is closed, here or by the room, or the network takes it.     *)
Drops(s) ==
  /\ client[s] \in {"joining", "in"}
  /\ client' = [client EXCEPT ![s] = "gone"]
  /\ peers' = [peers EXCEPT ![s] = {}] /\ asked' = [asked EXCEPT ![s] = {}]
  /\ toAnswer' = [toAnswer EXCEPT ![s] = {}]
  /\ toMember' = [toMember EXCEPT ![s] = <<>>]
  /\ UNCHANGED <<listed, joinedAt, closing, toRoom, number, answers, announced>>

RoomNext ==
  \E s \in Conns :
    \/ RoomHears(s) \/ SocketCloses(s) \/ JoinOverdue(s)
    \/ Connect(s) \/ MemberHears(s) \/ Drops(s)
    \/ \E d \in Members : AskPeer(s, d)
    \/ \E m \in toAnswer[s] : Answers(s, m)
    \/ \E q \in asked[s] : NoAnswer(s, q)

RoomSpec == RoomInit /\ [][RoomNext]_roomVars

-----------------------------------------------------------------------------
(* Properties.                                                             *)
RoomTypeOK ==
  /\ closing \subseteq listed
  /\ \A s \in Conns : s \in listed => client[s] # "none"
  /\ \A s \in Conns : client[s] # "in" => peers[s] = {} /\ asked[s] = {}

RoomIsQuiet ==
  \A s \in listed : /\ toRoom[s] = <<>> /\ toMember[s] = <<>>
                    /\ client[s] = "in" /\ s \notin closing

(* Once nothing is on its way, each member that is there lists the others: *)
(* none that is not there, and each that is, but one that joined while the *)
(* close of an older socket of its own was pending after it was said to    *)
(* have left (it is let in as one "replaced", and nobody is told).  And a  *)
(* request is answered with an answer to itself or, the numbers starting   *)
(* anew with each socket, to the request of its number on another socket   *)
(* of the member: never to another member's.                               *)
RoomAgrees ==
  /\ RoomTypeOK
  /\ RoomIsQuiet =>
       \A s \in listed : LET others == {MemberOf(c) : c \in listed \ {s}}
                         IN  peers[s] \subseteq others /\ others \cap announced \subseteq peers[s]
  /\ \A a \in answers : MemberOf(a.of) = MemberOf(a.on)
=============================================================================
