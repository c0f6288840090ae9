----------------------------- MODULE PinBracket -----------------------------
(***************************************************************************)
(* Setting a PIN on a classic key (runPinSequence and waitForStep in       *)
(* src/plugins/device/index.js, src/src/device/pin.js and console.js).     *)
(*                                                                         *)
(* One message, OKPIN, drives every transition, and what it does depends   *)
(* on where the key is: open the entry, close it, open the confirmation,   *)
(* compare and commit.  The host keeps in step by waiting for the key's    *)
(* line after each.  The lines come on the wire, and on a DEBUG build on a *)
(* console as well; the two are separate interfaces, each in order, with   *)
(* no order between them.  Digits are pressed through the caller's hook    *)
(* or, on a DEBUG build, typed on the console's interface.                 *)
(***************************************************************************)
EXTENDS Naturals, Sequences, FiniteSets

CONSTANTS Digits,       \* the digits of the PIN, in order
          MinDigits,    \* fewer are refused by the key
          MaxBrackets, MaxLate, MaxPresses     \* bounds

ASSUME PinAssumption ==
  /\ Digits \in Seq(Nat) /\ Len(Digits) >= MinDigits
  /\ MinDigits \in Nat \ {0}
  /\ MaxBrackets \in Nat /\ MaxLate \in Nat /\ MaxPresses \in Nat

NoPin == << >>

VARIABLES debug,        \* a DEBUG build, with a console
          hook,         \* this call presses the buttons itself
          step,         \* where setPin is in PIN_SEQUENCE; 0 when none runs
          phase,        \* "start" of a step, or "await" its answer
          heard,        \* the console's buffer, as lines
          outcome,      \* of the last setPin: "none", "ok" or "failed"
          okpin,        \* OKPIN messages the key has not taken
          typed,        \* digits on their way to the key
          vendor, log,    \* lines on their way to the host
          at,           \* what the next OKPIN does: 0 .. 3
          entry,        \* the key's digit buffer
          first,        \* the entry kept for the comparison
          committing,   \* the key is writing the PIN
          pinHeld,      \* the PIN the key will accept
          spoiled,      \* this call met a late line, or an early timer
          calls, late, presses

hostVars == <<step, phase, heard, outcome>>
pinKeyVars  == <<at, entry, first, committing, pinHeld>>
pinVars  == <<debug, hook, step, phase, heard, outcome, okpin, typed, vendor, log,
              at, entry, first, committing, pinHeld, spoiled, calls, late, presses>>

\* Mutant: The caller is let go at "Both PINs Match".
SequenceLetsGo ==
  << [does |-> "send",   expect |-> "enter"],
     [does |-> "digits", expect |-> "ack"],
     [does |-> "send",   expect |-> "storing"],
     [does |-> "send",   expect |-> "confirm"],
     [does |-> "digits", expect |-> "ack"],
     [does |-> "send",   expect |-> "matched"] >>

\* PIN_SEQUENCE: what each step does and the line it waits for.
Sequence ==
  << [does |-> "send",   expect |-> "enter"],
     [does |-> "digits", expect |-> "ack"],
     [does |-> "send",   expect |-> "storing"],
     [does |-> "send",   expect |-> "confirm"],
     [does |-> "digits", expect |-> "ack"],
     [does |-> "send",   expect |-> "matched"],
     [does |-> "wait",   expect |-> "committed"] >>

Refusals == {"tooShort", "mismatch"}
Lines == {"enter", "storing", "confirm", "bothMatch", "setPin", "ack"} \cup Refusals

\* HID_PROMPTS and PROMPTS: the line that ends a step on either channel.
OnWire(expect) == IF expect = "matched" THEN {"setPin"} ELSE {expect}
OnConsole(expect) ==
  CASE expect = "matched"   -> {"bothMatch"}
    [] expect = "committed" -> {"setPin"}
    [] OTHER                -> {expect}

LinesOf(line, s) == Cardinality({k \in DOMAIN s : s[k] = line})
Has(lines, s) == \E k \in DOMAIN s : s[k] \in lines

PinTypeOK ==
  /\ debug \in BOOLEAN /\ hook \in BOOLEAN
  /\ step \in 0 .. Len(Sequence) /\ phase \in {"start", "await"}
  /\ heard \in Seq(Lines) /\ vendor \in Seq(Lines) /\ log \in Seq(Lines)
  /\ outcome \in {"none", "ok", "failed"}
  /\ okpin \in Nat /\ at \in 0 .. 3
  /\ typed \in Seq(Nat) /\ entry \in Seq(Nat) /\ first \in Seq(Nat)
  /\ pinHeld \in Seq(Nat) /\ committing \in BOOLEAN /\ spoiled \in BOOLEAN
  /\ calls \in 0 .. MaxBrackets /\ late \in 0 .. MaxLate /\ presses \in 0 .. MaxPresses

PinInit ==
  /\ debug \in BOOLEAN /\ hook = TRUE
  /\ step = 0 /\ phase = "start" /\ heard = << >> /\ outcome = "none"
  /\ okpin = 0 /\ typed = << >> /\ vendor = << >> /\ log = << >>
  /\ at = 0 /\ entry = << >> /\ first = << >>
  /\ committing = FALSE /\ pinHeld = NoPin
  /\ spoiled = FALSE /\ calls = 0 /\ late = 0 /\ presses = 0

-----------------------------------------------------------------------------
(* The host.                                                               *)

SetPin ==
  /\ step = 0 /\ calls < MaxBrackets
  /\ outcome = "ok" => typed = << >>     \* the caller's own presses are done
  /\ calls' = calls + 1
  /\ hook' \in {h \in BOOLEAN : debug \/ h}
  /\ step' = 1 /\ phase' = "start" /\ outcome' = "none"
  /\ spoiled' = ~(okpin = 0 /\ typed = << >> /\ vendor = << >> /\ log = << >> /\ ~committing)
  /\ UNCHANGED <<debug, heard, okpin, typed, vendor, log, pinKeyVars, late, presses>>

Passed ==
  IF step = Len(Sequence)
    THEN step' = 0 /\ phase' = "start" /\ outcome' = "ok"
    ELSE step' = step + 1 /\ phase' = "start" /\ UNCHANGED outcome

Failed == step' = 0 /\ phase' = "start" /\ outcome' = "failed"

\* One channel may lag behind the other: what it still carries is then heard
\* in a later step.
ChannelMayLag ==
  IF log = << >> /\ vendor = << >>
    THEN UNCHANGED <<spoiled, late>>
    ELSE late < MaxLate /\ late' = late + 1 /\ spoiled' = TRUE

\* The console is cleared before a step that sends or types; the listeners are
\* up before the write.
SendOkpin ==
  /\ step # 0 /\ phase = "start" /\ Sequence[step].does = "send"
  /\ ChannelMayLag
  /\ heard' = << >> /\ okpin' = okpin + 1
  /\ phase' = "await"
  /\ UNCHANGED <<debug, hook, step, outcome, typed, vendor, log, pinKeyVars, calls,
                 presses>>

\* The digits go out.  Through the hook each press is awaited: the key has
\* them all when it returns.  On the console they are one write, and the acks
\* are counted.
SendDigits ==
  /\ step # 0 /\ phase = "start" /\ Sequence[step].does = "digits"
  /\ ChannelMayLag
  /\ heard' = << >> /\ typed' = typed \o Digits
  /\ phase' = "await"
  /\ UNCHANGED <<debug, hook, step, outcome, okpin, vendor, log, pinKeyVars, calls,
                 presses>>

DigitsIn ==
  /\ step # 0 /\ phase = "await" /\ Sequence[step].does = "digits"
  /\ IF hook THEN typed = << >> ELSE LinesOf("ack", heard) >= Len(Digits)
  /\ Passed
  /\ UNCHANGED <<debug, hook, heard, okpin, typed, vendor, log, pinKeyVars, calls,
                 spoiled, late, presses>>

\* A line on the wire.  A sending step listens, and any refusal ends it.
HearWire ==
  /\ vendor # << >>
  /\ vendor' = Tail(vendor)
  /\ IF step = 0 \/ phase = "start" \/ Sequence[step].does # "send"
       THEN UNCHANGED <<step, phase, outcome>>
       ELSE IF Head(vendor) \in Refusals THEN Failed
       ELSE IF Head(vendor) \in OnWire(Sequence[step].expect) THEN Passed
       ELSE UNCHANGED <<step, phase, outcome>>
  /\ UNCHANGED <<debug, hook, heard, okpin, typed, log, pinKeyVars, calls, spoiled,
                 late, presses>>

\* A line on the console, kept in its buffer, which the step's waiter reads.
HearLog ==
  LET text == Append(heard, Head(log)) IN
  /\ log # << >>
  /\ log' = Tail(log) /\ heard' = text
  /\ IF step = 0 \/ phase = "start" \/ Sequence[step].does = "digits"
       THEN UNCHANGED <<step, phase, outcome>>
       ELSE IF Sequence[step].does = "send" /\ Has(Refusals, text) THEN Failed
       ELSE IF Has(OnConsole(Sequence[step].expect), text) THEN Passed
       ELSE UNCHANGED <<step, phase, outcome>>
  /\ UNCHANGED <<debug, hook, okpin, typed, vendor, pinKeyVars, calls, spoiled, late, presses>>

\* The last step sends nothing.  A console that has said nothing is not waited
\* for; one that has is, and is read before it is waited on.
AwaitCommit ==
  /\ step # 0 /\ phase = "start" /\ Sequence[step].does = "wait"
  /\ IF heard = << >> \/ Has(OnConsole(Sequence[step].expect), heard)
       THEN Passed
       ELSE phase' = "await" /\ UNCHANGED <<step, outcome>>
  /\ UNCHANGED <<debug, hook, heard, okpin, typed, vendor, log, pinKeyVars, calls,
                 spoiled, late, presses>>

\* Nothing came in time: the awaited line, or the last of the acks, clears the
\* timer as it is heard.  The last wait is advisory: its timeout is tolerated.
TimesOut ==
  /\ step # 0 /\ phase = "await"
  /\ Sequence[step].does = "digits" => ~hook /\ LinesOf("ack", heard) < Len(Digits)
  /\ \/ late < MaxLate /\ late' = late + 1 /\ spoiled' = TRUE
     \/ /\ vendor = << >> /\ log = << >> /\ okpin = 0 /\ typed = << >> /\ ~committing
        /\ UNCHANGED <<spoiled, late>>
  /\ IF Sequence[step].does = "wait" THEN Passed ELSE Failed
  /\ UNCHANGED <<debug, hook, heard, okpin, typed, vendor, log, pinKeyVars, calls, presses>>

\* The caller goes on: with the PIN set it presses buttons.
CallerPresses ==
  /\ step = 0 /\ outcome = "ok" /\ presses < MaxPresses
  /\ presses' = presses + 1
  /\ typed' = Append(typed, Head(Digits))
  /\ UNCHANGED <<debug, hook, hostVars, okpin, vendor, log, pinKeyVars, calls, spoiled, late>>

-----------------------------------------------------------------------------
(* The key, as pin.js describes it.                                        *)

Say(onWire, onConsole) ==
  /\ vendor' = vendor \o onWire
  /\ log' = IF debug THEN log \o onConsole ELSE log

Both(line) == Say(<<line>>, <<line>>)

PinOpens ==      \* entry, or its confirmation
  /\ at \in {0, 2}
  /\ entry' = << >> /\ at' = at + 1
  /\ Both(IF at = 0 THEN "enter" ELSE "confirm")
  /\ UNCHANGED <<first, committing>>

PinRefused ==
  /\ at \in {1, 3}
  /\ Len(entry) < MinDigits \/ (at = 3 /\ entry # first)
  /\ at' = 0
  /\ Both(IF Len(entry) < MinDigits THEN "tooShort" ELSE "mismatch")
  /\ UNCHANGED <<entry, first, committing>>

PinClosed ==
  /\ at = 1 /\ Len(entry) >= MinDigits
  /\ first' = entry /\ at' = 2
  /\ Both("storing")
  /\ UNCHANGED <<entry, committing>>

PinsMatch ==
  /\ at = 3 /\ Len(entry) >= MinDigits /\ entry = first
  /\ committing' = TRUE /\ at' = 0
  /\ Say(<< >>, <<"bothMatch">>)
  /\ UNCHANGED <<entry, first>>

KeyTakesOkpin ==
  /\ okpin > 0 /\ ~committing
  /\ okpin' = okpin - 1
  /\ PinOpens \/ PinRefused \/ PinClosed \/ PinsMatch
  /\ UNCHANGED <<debug, hook, hostVars, typed, pinHeld, calls, spoiled, late, presses>>

\* A digit is appended while the entry is open, and to the very buffer that is
\* being hashed while the key commits.
KeyTakesDigit ==
  /\ typed # << >>
  /\ typed' = Tail(typed)
  /\ IF at \in {1, 3} \/ committing
       THEN entry' = Append(entry, Head(typed)) /\ Say(<< >>, <<"ack">>)
       ELSE UNCHANGED <<entry, vendor, log>>
  /\ UNCHANGED <<debug, hook, hostVars, okpin, at, first, committing, pinHeld,
                 calls, spoiled, late, presses>>

KeyCommits ==
  /\ committing
  /\ committing' = FALSE /\ pinHeld' = entry
  /\ Both("setPin")
  /\ UNCHANGED <<debug, hook, hostVars, okpin, typed, at, entry, first, calls,
                 spoiled, late, presses>>

-----------------------------------------------------------------------------
Onward == \/ SendOkpin \/ SendDigits \/ DigitsIn \/ HearWire \/ HearLog
          \/ AwaitCommit \/ TimesOut
          \/ KeyTakesOkpin \/ KeyTakesDigit \/ KeyCommits

PinNext == SetPin \/ CallerPresses \/ Onward

\* A bracket under way goes on: the key works, lines arrive, timers fire.
PinSpec == PinInit /\ [][PinNext]_pinVars /\ WF_pinVars(Onward)

-----------------------------------------------------------------------------
(* Properties.                                                             *)

\* A key that was between brackets never has cause to refuse two entries of
\* the same digits: no OKPIN overtakes a digit and none is sent twice.
NoCauseToRefuse == late = 0 => ~Has(Refusals, vendor) /\ ~Has(Refusals, log)

\* After setPin has succeeded the key holds the digits that were given, and
\* goes on holding them whatever the caller presses next: it is not let go
\* while the key still hashes its buffer.  Earlier brackets may have been left
\* between any two transitions; only a line or a timer out of time in this one
\* can spoil it.
SuccessIsThePin ==
  /\ PinTypeOK /\ NoCauseToRefuse
  /\ outcome = "ok" /\ ~spoiled => pinHeld = Digits /\ ~committing

\* Every setPin ends.
BracketEnds == []<>(step = 0)
=============================================================================
