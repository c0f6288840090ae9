------------------------------ MODULE BleRoom ------------------------------
(* The room's socket over Bluetooth: the phone's end                       *)
(* (src/transport/ble-socket.js), the server's (mcp/localhost/ble.js), and *)
(* the link under both (cli/ble-link.js): one link at a time, whole        *)
(* messages in order.  Only what the phone says can be lost on the way     *)
(* (notifications): the server's writes are acknowledged, one by one.      *)
(*                                                                         *)
(* No message names its socket.  The model does (`n`, the dial it is of),  *)
(* and gives every piece of a text its place in it, for the properties.    *)
EXTENDS Naturals, Sequences

CONSTANTS MaxDials, MaxTexts, MaxLost, MaxRadioLinks, MaxAsks       (* bounds *)

ASSUME BleAssumption ==
  {MaxDials, MaxTexts, MaxLost, MaxRadioLinks, MaxAsks} \subseteq Nat

VARIABLES
  radio,       (* whether the two are in reach of each other               *)
  toPhone, toServer,   (* messages on their way                            *)
  server,      (* its link, its socket (the dial it is of, or 0), and the  *)
               (* pieces its decoder holds                                 *)
  phone,       (* the same, whether its socket is open, and whether HERE   *)
               (* has come                                                 *)
  heard,       (* the last text handed on: where, to which socket, pieces  *)
  why,         (* what may excuse a text or a socket that is not its own   *)
  tally        (* what the bounds count                                    *)

bleVars == <<radio, toPhone, toServer, server, phone, heard, why, tally>>

Sockets == 0 .. MaxDials
Excuses == {"lost", "cut", "crossed"}

(* A text of socket `n`, in one piece or two: encodeText().                *)
Texts(n) ==
  {[i \in 1 .. of |-> [kind |-> IF i = of THEN "text" ELSE "part",
                       n |-> n, t |-> tally.texts + 1, i |-> i, of |-> of]] : of \in 1 .. 2}
Simple(kind, n) == [kind |-> kind, n |-> n]

WholeOf(pieces) ==
  /\ Len(pieces) = pieces[1].of
  /\ \A i \in DOMAIN pieces : /\ pieces[i].i = i
                              /\ pieces[i].n = pieces[1].n /\ pieces[i].t = pieces[1].t

Plus(counter) == tally' = [tally EXCEPT ![counter] = @ + 1]

BleInit ==
  /\ radio = FALSE /\ toPhone = <<>> /\ toServer = <<>>
  /\ server = [link |-> FALSE, socket |-> 0, parts |-> <<>>]
  /\ phone = [link |-> FALSE, socket |-> 0, open |-> FALSE, parts |-> <<>>, here |-> FALSE]
  /\ heard = [at |-> "none", socket |-> 0, pieces |-> <<>>]
  /\ why = {}
  /\ tally = [dials |-> 0, texts |-> 0, lost |-> 0, links |-> 0, asks |-> 0]

-----------------------------------------------------------------------------
OldServer == [server EXCEPT !.link = TRUE, !.socket = 0]

(* serve(): a decoder and a socket of the link's own.                      *)
FreshServer == [link |-> TRUE, socket |-> 0, parts |-> <<>>]

(* keep() opens one link at a time and serves it, HERE said first; the     *)
(* phone's decoder is one for all its links.                               *)
LinkComesUp ==
  /\ ~radio /\ ~server.link /\ ~phone.link /\ tally.links < MaxRadioLinks
  /\ radio' = TRUE
  /\ server' = FreshServer
  /\ phone' = [phone EXCEPT !.link = TRUE]
  /\ toPhone' = <<Simple("here", 0)>>
  /\ Plus("links")
  /\ UNCHANGED <<toServer, heard, why>>

(* What is on its way goes with the link.                                  *)
LinkDrops ==
  /\ radio /\ radio' = FALSE
  /\ toPhone' = <<>> /\ toServer' = <<>>
  /\ why' = why \cup (IF phone.parts # <<>> THEN {"cut"} ELSE {})
  /\ UNCHANGED <<server, phone, heard, tally>>

(* 'down' at the server: its socket closes, and keep() lets the link go.   *)
ServerHearsDown ==
  /\ ~radio /\ server.link
  /\ server' = [server EXCEPT !.link = FALSE, !.socket = 0]
  /\ UNCHANGED <<radio, toPhone, toServer, phone, heard, why, tally>>

PhoneDownKeeps == [phone EXCEPT !.link = FALSE, !.here = FALSE]

(* down() at the phone: its decoder keeps the pieces it holds.             *)
PhoneDown == [phone EXCEPT !.link = FALSE, !.socket = 0, !.open = FALSE, !.here = FALSE]
PhoneHearsDown ==
  /\ ~radio /\ phone.link
  /\ phone' = PhoneDown
  /\ UNCHANGED <<radio, toPhone, toServer, server, heard, why, tally>>

(* A notification lost on the air costs the message it is of.              *)
NotificationLost ==
  /\ toServer # <<>> /\ tally.lost < MaxLost
  /\ toServer' = Tail(toServer)
  /\ why' = why \cup {"lost"}
  /\ Plus("lost")
  /\ UNCHANGED <<radio, toPhone, server, phone, heard>>

-----------------------------------------------------------------------------
(* The phone.  Nothing it sends without a link arrives, and it is not told.*)
Sends(messages) == toServer' = IF radio THEN toServer \o messages ELSE toServer

OfASocket(m) == m.kind \in {"open", "opened", "part", "text", "close"}

(* The sockets cross when the phone dials while the server may still speak *)
(* to an earlier one.                                                      *)
Crosses ==
  \/ server.socket # 0
  \/ \E i \in DOMAIN toPhone : OfASocket(toPhone[i])
  \/ \E i \in DOMAIN toServer : OfASocket(toServer[i])

(* new WebSocket(ble://host/ws/room): the one before is closed here only.  *)
Dials ==
  /\ phone.here /\ tally.dials < MaxDials
  /\ phone' = [phone EXCEPT !.socket = tally.dials + 1, !.open = FALSE]
  /\ Sends(<<Simple("open", tally.dials + 1)>>)
  /\ why' = why \cup (IF Crosses THEN {"crossed"} ELSE {})
  /\ Plus("dials")
  /\ UNCHANGED <<radio, toPhone, server, heard>>

PhoneSays ==
  /\ phone.open /\ tally.texts < MaxTexts
  /\ \E text \in Texts(phone.socket) : Sends(text)
  /\ Plus("texts")
  /\ UNCHANGED <<radio, toPhone, server, phone, heard, why>>

PhoneCloses ==
  /\ phone.socket # 0
  /\ phone' = [phone EXCEPT !.socket = 0, !.open = FALSE]
  /\ Sends(<<Simple("close", phone.socket)>>)
  /\ UNCHANGED <<radio, toPhone, server, heard, why, tally>>

WhereSays(isOpen) == [kind |-> "where", n |-> 0, open |-> isOpen]

(* WHERE, said again at any time; and after the app started over under the *)
(* link, when nothing of the phone's end is left.                          *)
Asks ==
  /\ phone.link /\ tally.asks < MaxAsks
  /\ Plus("asks")
  /\ \/ /\ Sends(<<WhereSays(phone.socket # 0)>>)
        /\ UNCHANGED phone
     \/ /\ phone' = [link |-> TRUE, socket |-> 0, open |-> FALSE, parts |-> <<>>, here |-> FALSE]
        /\ Sends(<<WhereSays(FALSE)>>)
  /\ UNCHANGED <<radio, toPhone, server, heard, why>>

(* One message at the phone: push().                                       *)
PhoneHears ==
  /\ toPhone # <<>> /\ toPhone' = Tail(toPhone)
  /\ LET m == Head(toPhone)
     IN  /\ phone' =
              CASE m.kind = "here"   -> [phone EXCEPT !.here = TRUE]
                [] m.kind = "opened" -> [phone EXCEPT !.open = phone.socket # 0]
                [] m.kind = "part"   -> [phone EXCEPT !.parts = Append(@, m)]
                [] m.kind = "text"   -> [phone EXCEPT !.parts = <<>>]
                [] m.kind = "close"  -> [phone EXCEPT !.parts = <<>>, !.socket = 0, !.open = FALSE]
         /\ heard' = IF m.kind = "text" /\ phone.open
                       THEN [at |-> "phone", socket |-> phone.socket, pieces |-> Append(phone.parts, m)]
                       ELSE heard
  /\ UNCHANGED <<radio, toServer, server, why, tally>>

-----------------------------------------------------------------------------
(* The server.  What it says on a link that went fails, and its socket with *)
(* it, though 'down' has not come yet.                                     *)
Says(messages) ==
  IF radio THEN toPhone' = toPhone \o messages /\ UNCHANGED server
  ELSE toPhone' = toPhone /\ server' = [server EXCEPT !.socket = 0]

ServerSays ==
  /\ server.socket # 0 /\ tally.texts < MaxTexts
  /\ \E text \in Texts(server.socket) : Says(text)
  /\ Plus("texts")
  /\ UNCHANGED <<radio, toServer, phone, heard, why>>

ServerCloses ==
  /\ server.socket # 0
  /\ server' = [server EXCEPT !.socket = 0]
  /\ toPhone' = IF radio THEN Append(toPhone, Simple("close", server.socket)) ELSE toPhone
  /\ UNCHANGED <<radio, toServer, phone, heard, why, tally>>

(* WHERE from a phone with no socket open ends the one held for it.        *)
AfterWhere(m) == IF m.open THEN server.socket ELSE 0

(* One message at the server: the handler serve() puts on the link.        *)
ServerHears ==
  /\ toServer # <<>> /\ toServer' = Tail(toServer)
  /\ LET m == Head(toServer)
     IN  \/ /\ m.kind = "where"
            /\ server' = [server EXCEPT !.socket = AfterWhere(m)]
            /\ toPhone' = Append(toPhone, Simple("here", 0))
            /\ UNCHANGED heard
         \/ /\ m.kind = "open"
            /\ \/ /\ server' = [server EXCEPT !.socket = m.n]
                  /\ toPhone' = Append(toPhone, Simple("opened", m.n))
               \/ /\ server' = [server EXCEPT !.socket = 0]      \* no such room
                  /\ toPhone' = toPhone \o <<Simple("opened", m.n), Simple("close", m.n)>>
            /\ UNCHANGED heard
         \/ /\ m.kind = "part"
            /\ server' = [server EXCEPT !.parts = Append(@, m)]
            /\ UNCHANGED <<toPhone, heard>>
         \/ /\ m.kind = "text"
            /\ server' = [server EXCEPT !.parts = <<>>]
            /\ heard' = IF server.socket = 0 THEN heard
                        ELSE [at |-> "server", socket |-> server.socket, pieces |-> Append(server.parts, m)]
            /\ UNCHANGED toPhone
         \/ /\ m.kind = "close"
            /\ server' = [server EXCEPT !.parts = <<>>, !.socket = 0]
            /\ UNCHANGED <<toPhone, heard>>
  /\ UNCHANGED <<radio, phone, why, tally>>

-----------------------------------------------------------------------------
BleNext ==
  \/ LinkComesUp \/ LinkDrops \/ ServerHearsDown \/ PhoneHearsDown \/ NotificationLost
  \/ Dials \/ PhoneSays \/ PhoneCloses \/ Asks \/ PhoneHears
  \/ ServerSays \/ ServerCloses \/ ServerHears

(* A message that is there is delivered, and so is the end of a link.      *)
Delivers == PhoneHears \/ ServerHears \/ ServerHearsDown \/ PhoneHearsDown

BleSpec == BleInit /\ [][BleNext]_bleVars /\ WF_bleVars(Delivers)

-----------------------------------------------------------------------------
(* Properties.                                                             *)
BleTypeOK ==
  /\ radio \in BOOLEAN /\ why \subseteq Excuses
  /\ server.link \in BOOLEAN /\ server.socket \in Sockets
  /\ phone.link \in BOOLEAN /\ phone.socket \in Sockets
  /\ phone.open \in BOOLEAN /\ phone.here \in BOOLEAN
  /\ phone.open => phone.socket # 0
  /\ heard.socket \in Sockets

(* When nothing is on its way the two ends agree on the socket, if no      *)
(* notification was lost and no dial crossed what the server still said:   *)
(* the app starting over, WHERE, a room that refuses and closes from both  *)
(* sides at once included.                                                 *)
QuietAgrees ==
  radio /\ toPhone = <<>> /\ toServer = <<>> /\ why \cap {"lost", "crossed"} = {} =>
    /\ server.socket = phone.socket
    /\ phone.socket # 0 => phone.open

(* A text handed on is one whole text, and of the socket it is handed to.  *)
(* It may not be whole after a notification was lost (at the server), or   *)
(* after a link went in the middle of it (at the phone: the next one's     *)
(* first text gets its beginning); it may be another socket's only after   *)
(* the phone dialled again while the server still spoke to an earlier one. *)
(* And the two ends agree when nothing is on its way.                      *)
HeardAsSaid ==
  /\ BleTypeOK /\ QuietAgrees
  /\ heard.pieces # <<>> =>
       /\ (IF heard.at = "phone" THEN "cut" ELSE "lost") \in why \/ WholeOf(heard.pieces)
       /\ "crossed" \in why \/ heard.pieces[Len(heard.pieces)].n = heard.socket

(* A dial is answered, unless its OPEN was lost on the air.                *)
DialIsAnswered ==
  \A n \in 1 .. MaxDials :
    [](phone.socket = n /\ ~phone.open => <>(phone.socket # n \/ phone.open \/ "lost" \in why))
=============================================================================
