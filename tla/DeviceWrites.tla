---------------------------- MODULE DeviceWrites ----------------------------
(***************************************************************************)
(* What src/plugins/device/index.js writes to a key: slot fields, silent   *)
(* preferences, private keys and their labels, keys the device makes       *)
(* itself, and the wipes of each.                                          *)
(*                                                                         *)
(* Every such call is a plan of frames, and every frame is a conversation  *)
(* with a turn of its own in the key's lane: subscribe, write, take the    *)
(* FIRST report that looks like an answer (nothing in an answer names the  *)
(* request it answers), or time out.  Between two turns other calls run.   *)
(* generateKey alone holds one turn for the key and its label.             *)
(*                                                                         *)
(* A call is numbered when it begins, and its number is the value it       *)
(* writes; a wipe writes Blank.                                            *)
(***************************************************************************)
EXTENDS Naturals, Sequences, FiniteSets

CONSTANTS Apps,         \* the screens and commands that call the plugin
          Offered,      \* the calls they make, a subset of Kinds
          Retries,      \* sendField retries, loadKey ackRetries
          MaxCalls, MaxTimeouts, MaxRefused, MaxDropped  \* bounds

Kinds == {"setSlot", "setSilent", "wipeSlot", "loadKey", "generateEccKey",
          "generateKey", "wipeKey"}
Cells == {"site", "pass", "pref", "key", "label"}
Blank == 0

ASSUME DeviceWritesAssumption ==
  /\ Offered \subseteq Kinds
  /\ Retries \in Nat
  /\ MaxCalls \in Nat /\ MaxTimeouts \in Nat
  /\ MaxRefused \in Nat /\ MaxDropped \in Nat

VARIABLES call,      \* app -> its call: kind, number, step, try, phase
          lane,      \* the apps in the lane; the head has the turn
          inbox,     \* frames the key has not looked at
          wire,      \* reports on their way to the host
          store,     \* what the key holds in each cell
          begun,     \* the kinds of the calls that have begun, in order
          told,      \* <<call, step>> the host was told is done
          stored,    \* <<call, step>> -> how often the key did it
          loose,     \* a conversation ended before its answer had come
          shared,    \* two calls for the same cell were open together
          trouble    \* [timeouts, refused, dropped] so far

vars == <<call, lane, inbox, wire, store, begun, told, stored, loose, shared,
          trouble>>

\* Mutant: The label is written before the key.
PlanLabelFirst(kind) ==
  CASE kind = "setSlot"   -> << {"site"}, {"pass"} >>
    [] kind = "setSilent" -> << {"pref"} >>
    [] kind = "wipeSlot"  -> << {"site", "pass"} >>
    [] OTHER              -> << {"label"}, {"key"} >>

\* The cells each frame of a call sets, in the order they are sent.
Plan(kind) ==
  CASE kind = "setSlot"   -> << {"site"}, {"pass"} >>
    [] kind = "setSilent" -> << {"pref"} >>
    [] kind = "wipeSlot"  -> << {"site", "pass"} >>
    [] OTHER              -> << {"key"}, {"label"} >>

Touches(kind) == UNION {Plan(kind)[i] : i \in DOMAIN Plan(kind)}

Value(kind, n) == IF kind \in {"wipeSlot", "wipeKey"} THEN Blank ELSE n

\* A resend generates again, and a label or a wipe is asked for once.
Tries(kind, i) ==
  IF kind = "setSlot" \/ (kind = "loadKey" /\ i = 1) THEN Retries + 1 ELSE 1

\* What the key says when it has done a frame: nothing for a silent one, one
\* sentence a field for a slot wipe, the public key for generateKey.
Answers(f) ==
  CASE f.kind = "setSilent" -> << >>
    [] f.kind = "wipeSlot"  -> << "ack", "ack" >>
    [] f.kind = "generateKey" /\ f.step = 1 -> << "key" >>
    [] OTHER -> << "ack" >>

\* The reports the open conversation's listener takes for its answer.
Takes(c, what) ==
  CASE c.kind = "setSilent" -> what = "error"
    [] c.kind = "generateKey" /\ c.step = 1 -> TRUE
    [] OTHER -> what # "key"

Idle == [kind |-> "none", n |-> 0, step |-> 0, try |-> 0, phase |-> "idle"]

Numbers == 1 .. MaxCalls
Pairs == Numbers \X {1, 2}
Frames == [n : Numbers, kind : Kinds, step : {1, 2}]
Reports == [n : Numbers, step : {1, 2}, what : {"ack", "error", "key"}]
OpenCalls == [kind : Kinds, n : Numbers, step : {1, 2}, try : 1 .. Retries + 1,
              phase : {"queued", "waiting", "quieting"}]

Open == {a \in Apps : call[a].phase # "idle"}
Talking(a) == lane # << >> /\ Head(lane) = a /\ call[a].phase \in {"waiting", "quieting"}

\* An answer of call n's step is still to come.
Coming(n, i) ==
  \/ \E k \in DOMAIN inbox : inbox[k].n = n /\ inbox[k].step = i
  \/ \E k \in DOMAIN wire : wire[k].n = n /\ wire[k].step = i

TypeOK ==
  /\ call \in [Apps -> OpenCalls \cup {Idle}]
  /\ lane \in Seq(Apps)
  /\ inbox \in Seq(Frames)
  /\ wire \in Seq(Reports)
  /\ store \in [Cells -> 0 .. MaxCalls]
  /\ begun \in Seq(Kinds) /\ Len(begun) <= MaxCalls
  /\ told \subseteq Pairs
  /\ stored \in [Pairs -> Nat]
  /\ loose \in BOOLEAN /\ shared \in BOOLEAN
  /\ trouble \in [timeouts : 0 .. MaxTimeouts, refused : 0 .. MaxRefused,
                  dropped : 0 .. MaxDropped]

Init ==
  /\ call = [a \in Apps |-> Idle]
  /\ lane = << >> /\ inbox = << >> /\ wire = << >>
  /\ store = [c \in Cells |-> Blank]
  /\ begun = << >>
  /\ told = {} /\ stored = [p \in Pairs |-> 0]
  /\ loose = FALSE /\ shared = FALSE
  /\ trouble = [timeouts |-> 0, refused |-> 0, dropped |-> 0]

-----------------------------------------------------------------------------
(* The calls.                                                              *)

Begin(a, kind) ==
  /\ call[a].phase = "idle"
  /\ Len(begun) < MaxCalls
  /\ begun' = Append(begun, kind)
  /\ call' = [call EXCEPT ![a] = [kind |-> kind, n |-> Len(begun) + 1,
                                  step |-> 1, try |-> 1, phase |-> "queued"]]
  /\ lane' = Append(lane, a)
  /\ shared' = (shared \/ \E b \in Open :
                             Touches(call[b].kind) \cap Touches(kind) # {})
  /\ UNCHANGED <<inbox, wire, store, told, stored, loose, trouble>>

\* The turn is this app's: the listener is up and the frame is written.
\* generateKey waits first for a while without a report, and goes ahead when
\* none comes (busQuiet): either way a late one may still be on its way.
Ask(a) ==
  LET c == call[a] IN
  /\ c.phase = "queued" /\ lane # << >> /\ Head(lane) = a
  /\ inbox' = Append(inbox, [n |-> c.n, kind |-> c.kind, step |-> c.step])
  /\ call' = [call EXCEPT ![a].phase = "waiting"]
  /\ UNCHANGED <<lane, wire, store, begun, told, stored, loose, shared, trouble>>

\* Mutant: A failed call forgets to give its turn back.
FinishHolds(a) ==
  /\ call' = [call EXCEPT ![a] = Idle]
  /\ UNCHANGED lane

\* The turn ends and so does the call.
Finish(a) ==
  /\ call' = [call EXCEPT ![a] = Idle]
  /\ lane' = Tail(lane)

\* The frame of this turn is answered: the next one waits for a turn of its
\* own, but for generateKey, which writes the label inside the same one.
Advance(a) ==
  LET c == call[a] IN
  IF c.step = Len(Plan(c.kind))
    THEN Finish(a)
    ELSE /\ call' = [call EXCEPT ![a].step = 2, ![a].try = 1,
                                 ![a].phase = "queued"]
         /\ lane' = IF c.kind = "generateKey" THEN lane
                                              ELSE Append(Tail(lane), a)

\* Mutant: Any answer is taken for success, as the desktop's listener-less writes did.
HearSuccess(a) ==
  LET c == call[a]  r == Head(wire) IN
  /\ wire # << >> /\ Talking(a) /\ Takes(c, r.what)
  /\ wire' = Tail(wire)
  /\ told' = told \cup {<<c.n, c.step>>}
  /\ Advance(a)
  /\ UNCHANGED <<inbox, store, begun, stored, loose, shared, trouble>>

\* A report reaches the conversation that has the turn.
Hear(a) ==
  LET c == call[a]  r == Head(wire) IN
  /\ wire # << >> /\ Talking(a) /\ Takes(c, r.what)
  /\ wire' = Tail(wire)
  /\ IF r.what = "error"
       THEN Finish(a) /\ UNCHANGED told
       ELSE /\ told' = told \cup {<<c.n, c.step>>}
            /\ IF c.kind = "wipeSlot"
                 THEN /\ call' = [call EXCEPT ![a].phase = "quieting"]
                      /\ UNCHANGED lane
                 ELSE Advance(a)
  /\ UNCHANGED <<inbox, store, begun, stored, loose, shared, trouble>>

\* A report no listener takes.
Skip ==
  /\ wire # << >>
  /\ ~ \E a \in Apps : Talking(a) /\ Takes(call[a], Head(wire).what)
  /\ wire' = Tail(wire)
  /\ UNCHANGED <<call, lane, inbox, store, begun, told, stored, loose, shared,
                 trouble>>

\* The quiet window after a slot wipe's answers, or the refusal window of a
\* silent frame, has passed.
WindowEnds(a) ==
  LET c == call[a] IN
  /\ Talking(a)
  /\ \/ c.phase = "quieting" /\ wire = << >>
     \/ c.phase = "waiting" /\ c.kind = "setSilent"
  /\ Finish(a)
  /\ loose' = (loose \/ Coming(c.n, c.step))
  /\ UNCHANGED <<inbox, wire, store, begun, told, stored, shared, trouble>>

\* Mutant: A field that was never acknowledged is passed over.
TimeOutGoesOn(a) ==
  LET c == call[a] IN
  /\ Talking(a) /\ c.phase = "waiting" /\ ~Coming(c.n, c.step)
  /\ Advance(a)
  /\ UNCHANGED <<inbox, wire, store, begun, told, stored, loose, shared, trouble>>

\* No answer in time: ask again in a new turn, or give up.
TimeOut(a) ==
  LET c == call[a] IN
  /\ Talking(a) /\ c.phase = "waiting" /\ c.kind # "setSilent"
  /\ \/ trouble.timeouts < MaxTimeouts
     \/ ~Coming(c.n, c.step)
  /\ trouble' = [trouble EXCEPT !.timeouts =
                   IF Coming(c.n, c.step) THEN @ + 1 ELSE @]
  /\ loose' = (loose \/ Coming(c.n, c.step))
  /\ IF c.try < Tries(c.kind, c.step)
       THEN /\ call' = [call EXCEPT ![a].try = @ + 1, ![a].phase = "queued"]
            /\ lane' = Append(Tail(lane), a)
       ELSE Finish(a)
  /\ UNCHANGED <<inbox, wire, store, begun, told, stored, shared>>

-----------------------------------------------------------------------------
(* The key, as the comments and tests of the plugin describe it.           *)

Said(f, what) == [n |-> f.n, step |-> f.step, what |-> what]

KeyStores ==
  LET f == Head(inbox)  answers == Answers(f) IN
  /\ inbox # << >>
  /\ inbox' = Tail(inbox)
  /\ store' = [c \in Cells |-> IF c \in Plan(f.kind)[f.step]
                                 THEN Value(f.kind, f.n) ELSE store[c]]
  /\ stored' = [stored EXCEPT ![<<f.n, f.step>>] = @ + 1]
  /\ wire' = wire \o [k \in DOMAIN answers |-> Said(f, answers[k])]
  /\ UNCHANGED <<call, lane, begun, told, loose, shared, trouble>>

KeyRefuses ==
  LET f == Head(inbox) IN
  /\ inbox # << >> /\ trouble.refused < MaxRefused
  /\ inbox' = Tail(inbox)
  /\ wire' = Append(wire, Said(f, "error"))
  /\ trouble' = [trouble EXCEPT !.refused = @ + 1]
  /\ UNCHANGED <<call, lane, store, begun, told, stored, loose, shared>>

\* A frame that comes while the key is busy, or outside config mode, is
\* dropped without a word.
KeyDrops ==
  /\ inbox # << >> /\ trouble.dropped < MaxDropped
  /\ inbox' = Tail(inbox)
  /\ trouble' = [trouble EXCEPT !.dropped = @ + 1]
  /\ UNCHANGED <<call, lane, wire, store, begun, told, stored, loose, shared>>

-----------------------------------------------------------------------------
Work == \/ \E a \in Apps : Ask(a) \/ Hear(a) \/ WindowEnds(a) \/ TimeOut(a)
        \/ Skip \/ KeyStores \/ KeyRefuses \/ KeyDrops

Next == (\E a \in Apps, kind \in Offered : Begin(a, kind)) \/ Work

\* Timers fire, the lane hands on its turn, the key works its inbox: whatever
\* is under way goes on.  No app has to make a call.
Spec == Init /\ [][Next]_vars /\ WF_vars(Work)

-----------------------------------------------------------------------------
(* Properties.                                                             *)

\* A field, key or label the host reports as written was written by the key,
\* unless an earlier conversation was left before its answer had come: that
\* answer may then be taken for a later frame's (sendField and the others
\* match on /^(Success|Error)/ alone).
ToldIsStored == TypeOK /\ (~loose => \A p \in told : stored[p] > 0)

\* One call makes the device generate one key at most, however the answers
\* fall: generateEccKey and generateKey send their frame once.
GeneratedOnce ==
  \A n \in DOMAIN begun : begun[n] \in {"generateEccKey", "generateKey"} =>
                            stored[<<n, 1>>] <= 1

\* Fields go out one at a time and each is waited for: the second frame of a
\* plan is not stored over a first that was not, so a label never names a key
\* that is not there and a slot is not half written from the end.  A key is
\* generated once by a call, whatever is sent again.
PlanInOrder ==
  /\ GeneratedOnce
  /\ ~loose => \A n \in Numbers : stored[<<n, 2>>] > 0 => stored[<<n, 1>>] > 0

\* A plan is carried out in its order, and with nothing open, the label of
\* the key slot is that of the key in it, unless calls for the slot ran
\* together, an answer was left behind, or the call that left this key was
\* refused its name and said so.
NamesAgree ==
  /\ PlanInOrder
  /\ Open = {} /\ inbox = << >> /\ ~loose /\ ~shared =>
       \/ store["label"] = store["key"]
       \/ \E n \in DOMAIN begun : /\ <<n, 1>> \in told /\ <<n, 2>> \notin told
                                 /\ store["key"] = Value(begun[n], n)

\* Whoever waits for an answer that does not come gives up in the end: no
\* call stays open and no turn of the lane is held for ever.
CallsEnd == []<>(Open = {} /\ lane = << >>)
=============================================================================
