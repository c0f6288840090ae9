------------------------------- MODULE Bucket -------------------------------
(***************************************************************************)
(* One store of a bucket (bucket/src/bucket.js): keys, each with a value,  *)
(* the date it last changed and whether it is archived.  A removal keeps   *)
(* the value, archived and dated.  Where two copies differ the newer       *)
(* record wins, by a rule that is the same on every device.                *)
(*                                                                         *)
(* Dates are naturals; a value is a natural, ordered as the texts are.     *)
(***************************************************************************)
EXTENDS Naturals

CONSTANTS
  Keys,
  Values,
  NoRec        (* a key the store does not hold                            *)

Rec == [v : Values, at : Nat, archived : BOOLEAN]

ASSUME ValuesAssumption == Values \subseteq Nat
ASSUME NoRecAssumption == NoRec \notin Rec

Store == [Keys -> Rec \cup {NoRec}]
EmptyStore == [k \in Keys |-> NoRec]

Live(r) == r # NoRec /\ ~r.archived

(* `${archived ? 1 : 0}${v}`: the text two records of one date compare by. *)
SigBelow(a, b) ==
  \/ ~a.archived /\ b.archived
  \/ a.archived = b.archived /\ a.v < b.v

(* Is record b later than record a?                                        *)
Later(a, b) ==
  \/ b.at > a.at
  \/ b.at = a.at /\ SigBelow(a, b)

(* Mutant: a tie is not broken. *)
NewerByDate(a, b) ==
  \/ a = NoRec
  \/ b # NoRec /\ b.at > a.at

(* newer(a, b): b takes the place of a, which may be missing.              *)
Newer(a, b) ==
  \/ a = NoRec
  \/ b # NoRec /\ Later(a, b)

(* mergeKeys(into, from), where `from` may hold only some of the keys.     *)
MergeKeys(into, from) ==
  [k \in Keys |-> IF from[k] # NoRec /\ Newer(into[k], from[k])
                  THEN from[k] ELSE into[k]]

(* Mutant: the clock as it reads. *)
StampNow(clock, t) == t

(* stamp(): now, or just after the newest date this bucket has seen.       *)
Stamp(clock, t) == IF t > clock THEN t ELSE clock + 1

(* The clock after `recs` were taken in: past every date in them.  A set   *)
(* of one element.                                                         *)
Stamps(clock, recs) == {clock} \cup {recs[k].at : k \in {j \in Keys : recs[j] # NoRec}}
PastAll(clock, recs) ==
  {m \in Stamps(clock, recs) : \A x \in Stamps(clock, recs) : x <= m}

(* kv.setItem and kv.removeItem on bucket b at clock reading t.            *)
SetItem(b, k, v, t) ==
  IF Live(b.recs[k]) /\ b.recs[k].v = v THEN b
  ELSE LET s == Stamp(b.clock, t)
       IN  [recs |-> [b.recs EXCEPT ![k] = [v |-> v, at |-> s, archived |-> FALSE]],
            clock |-> s]

RemoveItem(b, k, t) ==
  IF ~Live(b.recs[k]) THEN b
  ELSE LET s == Stamp(b.clock, t)
       IN  [recs |-> [b.recs EXCEPT ![k] = [v |-> @.v, at |-> s, archived |-> TRUE]],
            clock |-> s]

(***************************************************************************)
(* bucket/src/replicate.js: a unit is a record here (ListStores has the    *)
(* stores whose one value is split into parts).                            *)
(***************************************************************************)

(* hashOf: the value and whether it is archived - not the date.            *)
SameHash(r, s) ==
  IF r = NoRec \/ s = NoRec THEN r = s
  ELSE r.v = s.v /\ r.archived = s.archived

(* The keys a side that announced `mine` owes one that announced `theirs`. *)
Lacking(mine, theirs) ==
  {k \in Keys : mine[k] # NoRec /\ ~SameHash(mine[k], theirs[k])}

(* give() refuses when a unit it owes is not as it was announced.          *)
Changed(recs, mine, theirs) ==
  \E k \in Lacking(mine, theirs) : ~SameHash(recs[k], mine[k])

Give(recs, mine, theirs) ==
  [k \in Keys |-> IF k \in Lacking(mine, theirs) THEN recs[k] ELSE NoRec]

(* Two stores with the same values, and with the same state (stateOf).     *)
Alike(r, s) == \A k \in Keys : SameHash(r[k], s[k])
SameState(r, s) == r = s
=============================================================================
