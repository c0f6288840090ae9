---------------------------- MODULE BucketProofs ----------------------------
(***************************************************************************)
(* Theorems about Bucket and BucketSync: the merge of two stores is the    *)
(* least upper bound of one order, so it does not matter who merges, how   *)
(* often or in which order; and no run of the trades, the rounds with the  *)
(* sealed copy, the departures and the restarts loses the newest record,   *)
(* nor leaves two devices apart after a round that nobody disturbed.       *)
(* And about ListStores: in what two lists agree after an exchange, and    *)
(* what of them stands through edits and merges.                           *)
(***************************************************************************)
EXTENDS BucketSync, ListStores, SequenceTheorems, FiniteSetTheorems,
        WellFoundedInduction, TLAPS

MaybeRec == Rec \cup {NoRec}

(* The order of records: a missing one is below all.                       *)
Below(a, b) == a = b \/ (b # NoRec /\ Newer(a, b))

(* What MergeKeys keeps of two records of a key.                           *)
Winner(a, b) == IF b # NoRec /\ Newer(a, b) THEN b ELSE a

(* A record and its fields.                                                *)
LEMMA RecFields ==
  ASSUME NEW r \in MaybeRec, r # NoRec
  PROVE  r \in Rec /\ r.v \in Nat /\ r.at \in Nat /\ r.archived \in BOOLEAN
  BY ValuesAssumption DEF MaybeRec, Rec

(* Two records that differ are ordered one way and not the other.          *)
LEMMA BelowAntisymmetric ==
  ASSUME NEW a \in MaybeRec, NEW b \in MaybeRec, Below(a, b), Below(b, a)
  PROVE  a = b
<1>1. CASE a = NoRec \/ b = NoRec
  BY <1>1 DEF Below, Newer
<1>2. CASE a # NoRec /\ b # NoRec
  BY <1>2, RecFields DEF Below, Newer, Later, SigBelow
<1> QED BY <1>1, <1>2

(* Of two records one is below the other.                                  *)
LEMMA BelowTotal ==
  ASSUME NEW a \in MaybeRec, NEW b \in MaybeRec
  PROVE  Below(a, b) \/ Below(b, a)
<1>1. CASE a = NoRec \/ b = NoRec
  BY <1>1 DEF Below, Newer
<1>2. CASE a # NoRec /\ b # NoRec
  <2>1. /\ a \in Rec /\ b \in Rec
        /\ a.v \in Nat /\ a.at \in Nat /\ a.archived \in BOOLEAN
        /\ b.v \in Nat /\ b.at \in Nat /\ b.archived \in BOOLEAN
    BY <1>2, RecFields
  <2>2. a.v = b.v /\ a.at = b.at /\ a.archived = b.archived => a = b
    BY <2>1 DEF Rec
  <2>3. QED BY <1>2, <2>1, <2>2 DEF Below, Newer, Later, SigBelow
<1> QED BY <1>1, <1>2

(* The order on records is transitive.                                     *)
LEMMA BelowTransitive ==
  ASSUME NEW a \in MaybeRec, NEW b \in MaybeRec, NEW c \in MaybeRec,
         Below(a, b), Below(b, c)
  PROVE  Below(a, c)
<1>1. CASE a = NoRec \/ b = NoRec \/ c = NoRec
  BY <1>1 DEF Below, Newer
<1>2. CASE a # NoRec /\ b # NoRec /\ c # NoRec
  BY <1>2, RecFields DEF Below, Newer, Later, SigBelow
<1> QED BY <1>1, <1>2

(* The winner is the least record above both.                              *)
LEMMA WinnerIsTheLater ==
  ASSUME NEW a \in MaybeRec, NEW b \in MaybeRec
  PROVE  /\ Winner(a, b) \in {a, b}
         /\ Winner(a, b) \in MaybeRec
         /\ Below(a, Winner(a, b))
         /\ Below(b, Winner(a, b))
<1>1. Below(a, Winner(a, b))
  BY DEF Winner, Below
<1>2. Below(b, Winner(a, b))
  <2>1. CASE b # NoRec /\ Newer(a, b)
    BY <2>1 DEF Winner, Below
  <2>2. CASE ~(b # NoRec /\ Newer(a, b))
    <3>1. b = NoRec => Below(b, a)
      BY DEF Below, Newer
    <3>2. b # NoRec => Below(b, a)
      BY <2>2, BelowTotal DEF Below
    <3>3. QED BY <2>2, <3>1, <3>2 DEF Winner
  <2>3. QED BY <2>1, <2>2
<1>3. QED BY <1>1, <1>2 DEF Winner

(* Merging is the same whoever merges, in whatever order and however often *)
(* (bucket.js newer, "the same rule on every device").                     *)
THEOREM MergeAgrees ==
  ASSUME NEW r \in Store, NEW s \in Store, NEW t \in Store
  PROVE  /\ MergeKeys(r, s) \in Store
         /\ MergeKeys(r, s) = MergeKeys(s, r)
         /\ MergeKeys(MergeKeys(r, s), t) = MergeKeys(r, MergeKeys(s, t))
         /\ MergeKeys(r, r) = r
<1>1. ASSUME NEW x \in Store, NEW y \in Store
      PROVE  /\ MergeKeys(x, y) \in Store
             /\ MergeKeys(x, y) = [k \in Keys |-> Winner(x[k], y[k])]
  <2>1. MergeKeys(x, y) = [k \in Keys |-> Winner(x[k], y[k])]
    BY DEF MergeKeys, Winner
  <2>2. \A k \in Keys : Winner(x[k], y[k]) \in MaybeRec
    BY WinnerIsTheLater DEF Store, MaybeRec
  <2>3. QED BY <2>1, <2>2 DEF Store, MaybeRec
<1>2. \A k \in Keys : r[k] \in MaybeRec /\ s[k] \in MaybeRec /\ t[k] \in MaybeRec
  BY DEF Store, MaybeRec
<1>3. \A k \in Keys : Winner(r[k], s[k]) = Winner(s[k], r[k])
  <2>1. SUFFICES ASSUME NEW k \in Keys PROVE Winner(r[k], s[k]) = Winner(s[k], r[k])
    OBVIOUS
  <2>2. \/ Winner(r[k], s[k]) = Winner(s[k], r[k])
        \/ Below(r[k], s[k]) /\ Below(s[k], r[k])
    BY <1>2, WinnerIsTheLater
  <2>3. QED BY <1>2, <2>2, BelowAntisymmetric, WinnerIsTheLater
<1>4. \A k \in Keys : Winner(Winner(r[k], s[k]), t[k]) = Winner(r[k], Winner(s[k], t[k]))
  <2>1. SUFFICES ASSUME NEW k \in Keys
        PROVE Winner(Winner(r[k], s[k]), t[k]) = Winner(r[k], Winner(s[k], t[k]))
    OBVIOUS
  <2> DEFINE a == r[k]  b == s[k]  c == t[k]
             l == Winner(Winner(a, b), c)
             m == Winner(a, Winner(b, c))
  <2>2. a \in MaybeRec /\ b \in MaybeRec /\ c \in MaybeRec
    BY <1>2
  <2>3. Winner(a, b) \in MaybeRec /\ Winner(b, c) \in MaybeRec
    BY <2>2, WinnerIsTheLater
  <2>4. /\ l \in {a, b, c} /\ l \in MaybeRec
        /\ Below(a, l) /\ Below(b, l) /\ Below(c, l)
    <3>1. /\ l \in {Winner(a, b), c} /\ l \in MaybeRec
          /\ Below(Winner(a, b), l) /\ Below(c, l)
      BY <2>2, <2>3, WinnerIsTheLater
    <3>2. /\ Winner(a, b) \in {a, b}
          /\ Below(a, Winner(a, b)) /\ Below(b, Winner(a, b))
      BY <2>2, WinnerIsTheLater
    <3>3. Below(a, l) /\ Below(b, l)
      BY <2>2, <2>3, <3>1, <3>2, BelowTransitive
    <3>4. QED BY <3>1, <3>2, <3>3
  <2>5. /\ m \in {a, b, c} /\ m \in MaybeRec
        /\ Below(a, m) /\ Below(b, m) /\ Below(c, m)
    <3>1. /\ m \in {a, Winner(b, c)} /\ m \in MaybeRec
          /\ Below(a, m) /\ Below(Winner(b, c), m)
      BY <2>2, <2>3, WinnerIsTheLater
    <3>2. /\ Winner(b, c) \in {b, c}
          /\ Below(b, Winner(b, c)) /\ Below(c, Winner(b, c))
      BY <2>2, WinnerIsTheLater
    <3>3. Below(b, m) /\ Below(c, m)
      BY <2>2, <2>3, <3>1, <3>2, BelowTransitive
    <3>4. QED BY <3>1, <3>2, <3>3
  <2> HIDE DEF a, b, c, l, m
  <2>6. Below(l, m) /\ Below(m, l)
    BY <2>4, <2>5
  <2>7. l = m
    BY <2>4, <2>5, <2>6, BelowAntisymmetric
  <2>8. QED BY <2>7 DEF a, b, c, l, m
<1>5. MergeKeys(r, s) = MergeKeys(s, r)
  BY <1>1, <1>3
<1>6. MergeKeys(MergeKeys(r, s), t) = MergeKeys(r, MergeKeys(s, t))
  <2>1. MergeKeys(r, s) \in Store /\ MergeKeys(s, t) \in Store
    BY <1>1
  <2>2. \A k \in Keys : /\ MergeKeys(r, s)[k] = Winner(r[k], s[k])
                        /\ MergeKeys(s, t)[k] = Winner(s[k], t[k])
    BY <1>1
  <2>3. /\ MergeKeys(MergeKeys(r, s), t) = [k \in Keys |-> Winner(Winner(r[k], s[k]), t[k])]
        /\ MergeKeys(r, MergeKeys(s, t)) = [k \in Keys |-> Winner(r[k], Winner(s[k], t[k]))]
    BY <1>1, <2>1, <2>2
  <2>4. QED BY <1>4, <2>3
<1>7. MergeKeys(r, r) = r
  <2>1. \A k \in Keys : Winner(r[k], r[k]) = r[k]
    BY DEF Winner
  <2>2. QED BY <1>1, <2>1 DEF Store
<1> QED BY <1>1, <1>5, <1>6, <1>7

(* One round of HAVE and GIVE between two devices that stand still leaves  *)
(* them alike: what both hold with the same hash is not given, and the     *)
(* rest each merges by the same rule (trade.js give).                      *)
THEOREM RoundMakesAlike ==
  ASSUME NEW r \in Store, NEW s \in Store
  PROVE  Alike(MergeKeys(r, Give(s, s, r)), MergeKeys(s, Give(r, r, s)))
<1> DEFINE mr == MergeKeys(r, Give(s, s, r))
           ms == MergeKeys(s, Give(r, r, s))
<1>1. SUFFICES ASSUME NEW k \in Keys PROVE SameHash(mr[k], ms[k])
  BY DEF Alike
<1>2. r[k] \in MaybeRec /\ s[k] \in MaybeRec
  BY DEF Store, MaybeRec
<1>3. /\ mr[k] = Winner(r[k], Give(s, s, r)[k])
      /\ ms[k] = Winner(s[k], Give(r, r, s)[k])
  BY DEF MergeKeys, Winner
<1>4. CASE SameHash(r[k], s[k])
  <2>1. SameHash(s[k], r[k])
    BY <1>4 DEF SameHash
  <2>2. Give(s, s, r)[k] = NoRec /\ Give(r, r, s)[k] = NoRec
    BY <1>4, <2>1 DEF Give, Lacking
  <2>3. QED BY <1>3, <1>4, <2>2 DEF Winner
<1>5. CASE ~SameHash(r[k], s[k])
  <2>1. ~SameHash(s[k], r[k])
    BY <1>5 DEF SameHash
  <2>2. Give(s, s, r)[k] = s[k] /\ Give(r, r, s)[k] = r[k]
    BY <1>5, <2>1 DEF Give, Lacking
  <2>3. mr[k] = ms[k]
    <3>1. \/ Winner(r[k], s[k]) = Winner(s[k], r[k])
          \/ Below(r[k], s[k]) /\ Below(s[k], r[k])
      BY <1>2, WinnerIsTheLater
    <3>2. QED BY <1>2, <1>3, <2>2, <3>1, BelowAntisymmetric, WinnerIsTheLater
  <2>4. QED BY <2>3 DEF SameHash
<1> QED BY <1>4, <1>5

-----------------------------------------------------------------------------
(* What a message of each kind is, and which of them a trade in each phase *)
(* may have on its way.                                                    *)
HelloAsk == [dir : {"ask"}, type : {"hello"}]
ProveAsk == [dir : {"ask"}, type : {"prove"}]
HaveAsk  == [dir : {"ask"}, type : {"have"}, have : Store]
GiveAsk  == [dir : {"ask"}, type : {"give"}, give : Store]
NoAnswer == [dir : {"answer"}, ok : {FALSE}]
YesAnswer == [dir : {"answer"}, ok : {TRUE}]
StateAnswer == [dir : {"answer"}, ok : {TRUE}, state : Store]
HaveAnswer == [dir : {"answer"}, ok : {TRUE}, have : Store, give : Store]

Fits(m, ph) ==
  \/ m = None
  \/ ph = "hello" /\ m \in HelloAsk \cup YesAnswer \cup NoAnswer
  \/ ph = "prove" /\ m \in ProveAsk \cup StateAnswer \cup NoAnswer
  \/ ph = "have" /\ m \in HaveAsk \cup HaveAnswer \cup NoAnswer
  \/ ph = "give" /\ m \in GiveAsk \cup StateAnswer \cup NoAnswer

(* Does message m, in phase ph, give records?                              *)
Gives(m, ph) == m # None /\ (m \in GiveAsk \/ (ph = "have" /\ m \in HaveAnswer))

TradeType == [ph : Phase, peer : Dev \cup {0}, mine : Store \cup {None},
              rounds : Nat, took : BOOLEAN, quiet : BOOLEAN]

Typed ==
  /\ bucket \in [Dev -> BucketType]
  /\ kept \in [Dev -> BucketType]
  /\ joined \subseteq Dev
  /\ tr \in [Dev -> TradeType]
  /\ DOMAIN wire = Dev /\ wire = [d \in Dev |-> wire[d]]
  /\ \A d \in Dev : Fits(wire[d], tr[d].ph)
  /\ \A d \in Dev : tr[d].ph = "put" => tr[d].mine \in Store
  /\ server \in Store
  /\ newest \in Store

(* Store r holds nothing later than store s.                               *)
Under(r, s) == \A k \in Keys : Below(r[k], s[k])

Covers(b) == \A k \in Keys : b.recs[k] # NoRec => b.recs[k].at <= b.clock

(* No record anywhere is later than the newest written.                    *)
AllUnder ==
  /\ \A d \in Dev : Under(bucket[d].recs, newest)
  /\ Under(server, newest)
  /\ \A d \in Dev : tr[d].ph = "put" => Under(tr[d].mine, newest)
  /\ \A d \in Dev :
       Gives(wire[d], tr[d].ph) => Under(wire[d].give, newest)

IInv ==
  /\ Typed
  /\ \A d \in Dev : Covers(bucket[d]) /\ Covers(kept[d])
  /\ \A d \in Dev : Under(kept[d].recs, bucket[d].recs)
  /\ AllUnder
  /\ NewestKept

-----------------------------------------------------------------------------
(* What the operators do to stores that are typed and ordered.             *)
LEMMA UnderTransitive ==
  ASSUME NEW r \in Store, NEW s \in Store, NEW t \in Store, Under(r, s), Under(s, t)
  PROVE  Under(r, t)
<1>1. SUFFICES ASSUME NEW k \in Keys PROVE Below(r[k], t[k])
  BY DEF Under
<1>2. r[k] \in MaybeRec /\ s[k] \in MaybeRec /\ t[k] \in MaybeRec
  BY DEF Store, MaybeRec
<1>3. Below(r[k], s[k]) /\ Below(s[k], t[k])
  BY DEF Under
<1> QED BY <1>2, <1>3, BelowTransitive

(* A merge is the least store above both, made of their own records.       *)
LEMMA MergeIsLub ==
  ASSUME NEW r \in Store, NEW s \in Store
  PROVE  /\ MergeKeys(r, s) \in Store
         /\ Under(r, MergeKeys(r, s))
         /\ \A n \in Store : Under(r, n) /\ Under(s, n) => Under(MergeKeys(r, s), n)
         /\ \A k \in Keys : MergeKeys(r, s)[k] \in {r[k], s[k]}
<1>1. \A k \in Keys : /\ r[k] \in MaybeRec /\ s[k] \in MaybeRec
                      /\ MergeKeys(r, s)[k] = Winner(r[k], s[k])
  BY DEF Store, MaybeRec, MergeKeys, Winner
<1>2. \A k \in Keys : /\ MergeKeys(r, s)[k] \in {r[k], s[k]}
                      /\ Below(r[k], MergeKeys(r, s)[k])
  BY <1>1, WinnerIsTheLater
<1>3. QED BY <1>2, MergeAgrees DEF Under

(* A clock past all dates of a store covers it.                            *)
LEMMA ClockMoves ==
  ASSUME NEW recs \in Store, NEW c \in Nat, NEW m \in PastAll(c, recs)
  PROVE  /\ m \in Nat
         /\ [recs |-> recs, clock |-> m] \in BucketType
         /\ Covers([recs |-> recs, clock |-> m])
<1>1. \A k \in Keys : recs[k] # NoRec => recs[k].at \in Nat
  BY RecFields DEF Store, MaybeRec
<1>2. Stamps(c, recs) \subseteq Nat
  BY <1>1 DEF Stamps
<1>3. m \in Nat /\ \A x \in Stamps(c, recs) : x <= m
  BY <1>2 DEF PastAll
<1>4. \A k \in Keys : recs[k] # NoRec => recs[k].at \in Stamps(c, recs)
  BY DEF Stamps
<1> QED BY <1>3, <1>4 DEF BucketType, Covers

(* What is given of a store is below whatever the store is below.          *)
LEMMA PiecesOfAStore ==
  ASSUME NEW r \in Store, NEW x, NEW y, NEW ks
  PROVE  /\ Give(r, x, y) \in Store
         /\ OnlyKeys(r, ks) \in Store
         /\ \A n \in Store : Under(r, n) => Under(Give(r, x, y), n) /\ Under(OnlyKeys(r, ks), n)
<1>1. \A a : Below(NoRec, a)
  BY DEF Below, Newer
<1>2. Give(r, x, y) \in Store /\ OnlyKeys(r, ks) \in Store
  BY DEF Store, Give, OnlyKeys
<1>3. \A k \in Keys : Give(r, x, y)[k] \in {NoRec, r[k]} /\ OnlyKeys(r, ks)[k] \in {NoRec, r[k]}
  BY DEF Give, OnlyKeys
<1>4. QED BY <1>1, <1>2, <1>3 DEF Under

(* A write is dated past everything its device holds.                      *)
LEMMA StampIsLater ==
  ASSUME NEW b \in BucketType, Covers(b), NEW k \in Keys, NEW t \in Nat,
         NEW r \in Rec, r.at = Stamp(b.clock, t)
  PROVE  LET w == [recs |-> [b.recs EXCEPT ![k] = r], clock |-> Stamp(b.clock, t)]
         IN  w \in BucketType /\ Covers(w) /\ Under(b.recs, w.recs)
<1> DEFINE w == [recs |-> [b.recs EXCEPT ![k] = r], clock |-> Stamp(b.clock, t)]
<1>1. /\ b.recs \in Store /\ b.clock \in Nat
      /\ Stamp(b.clock, t) \in Nat /\ Stamp(b.clock, t) > b.clock
  BY DEF BucketType, Stamp
<1>2. w \in BucketType
  BY <1>1 DEF BucketType, Store
<1>3. \A j \in Keys : b.recs[j] # NoRec => b.recs[j].at \in Nat /\ b.recs[j].at <= b.clock
  <2>1. \A j \in Keys : b.recs[j] \in MaybeRec
    BY <1>1 DEF Store, MaybeRec
  <2>2. QED BY <2>1, RecFields DEF Covers
<1>4. r # NoRec /\ r.at \in Nat
  BY NoRecAssumption, RecFields DEF MaybeRec, Rec
<1>5. \A j \in Keys : w.recs[j] = IF j = k THEN r ELSE b.recs[j]
  BY <1>1 DEF Store
<1>6. Covers(w)
  BY <1>1, <1>3, <1>5 DEF Covers
<1>7. Later(b.recs[k], r) \/ b.recs[k] = NoRec
  BY <1>1, <1>3, <1>4 DEF Later
<1>8. Under(b.recs, w.recs)
  BY <1>4, <1>5, <1>7 DEF Under, Below, Newer
<1> QED BY <1>2, <1>6, <1>8

(* An edit is later than all its bucket holds.                             *)
LEMMA EditIsLater ==
  ASSUME NEW b \in BucketType, Covers(b), NEW k \in Keys, NEW t \in Nat, NEW c,
         c = RemoveItem(b, k, t) \/ \E v \in Values : c = SetItem(b, k, v, t)
  PROVE  c \in BucketType /\ Covers(c) /\ Under(b.recs, c.recs)
<1>1. CASE c = b
  BY <1>1 DEF Under, Below
<1>2. ASSUME NEW v \in Values, c = SetItem(b, k, v, t), c # b
      PROVE  c \in BucketType /\ Covers(c) /\ Under(b.recs, c.recs)
  <2> DEFINE r == [v |-> v, at |-> Stamp(b.clock, t), archived |-> FALSE]
  <2>1. r \in Rec /\ r.at = Stamp(b.clock, t)
    BY DEF Rec, Stamp, BucketType
  <2>2. c = [recs |-> [b.recs EXCEPT ![k] = r], clock |-> Stamp(b.clock, t)]
    BY <1>2 DEF SetItem
  <2> HIDE DEF r
  <2>3. QED BY <2>1, <2>2, StampIsLater
<1>3. CASE c = RemoveItem(b, k, t) /\ c # b
  <2> DEFINE r == [v |-> b.recs[k].v, at |-> Stamp(b.clock, t), archived |-> TRUE]
  <2>1. Live(b.recs[k])
    BY <1>3 DEF RemoveItem
  <2>2. b.recs[k] \in Rec
    BY <2>1 DEF Live, BucketType, Store
  <2>3. r \in Rec /\ r.at = Stamp(b.clock, t)
    BY <2>2 DEF Rec, Stamp, BucketType
  <2>4. c = [recs |-> [b.recs EXCEPT ![k] = r], clock |-> Stamp(b.clock, t)]
    BY <1>3, <2>1 DEF RemoveItem, BucketType, Store
  <2> HIDE DEF r
  <2>5. QED BY <2>3, <2>4, StampIsLater
<1> QED BY <1>1, <1>2, <1>3

-----------------------------------------------------------------------------
(* Every step but a write leaves each device's bucket as it was, above it, *)
(* or as it was kept; its file as it was, or as the bucket is now.         *)
Grows ==
  \A d \in Dev :
    \/ /\ Under(bucket[d].recs, bucket'[d].recs)
       /\ kept'[d] \in {kept[d], bucket'[d]}
    \/ bucket'[d] = kept[d] /\ kept'[d] = kept[d]

(* The part of the invariant that a step must show for itself.             *)
LEMMA GrowingKeeps ==
  ASSUME IInv, Grows, Typed', AllUnder', newest' = newest,
         \A d \in Dev : Covers(bucket'[d])
  PROVE  IInv'
<1>1. /\ \A d \in Dev : bucket[d].recs \in Store /\ kept[d].recs \in Store
      /\ \A d \in Dev : bucket'[d].recs \in Store /\ kept'[d].recs \in Store
      /\ newest \in Store
  BY DEF IInv, Typed, BucketType
<1>2. \A d \in Dev : Covers(kept'[d])
  BY DEF IInv, Grows
<1>3. \A d \in Dev : Under(kept'[d].recs, bucket'[d].recs)
  <2>1. SUFFICES ASSUME NEW d \in Dev PROVE Under(kept'[d].recs, bucket'[d].recs)
    OBVIOUS
  <2>2. CASE kept'[d] = bucket'[d]
    BY <2>2 DEF Under, Below
  <2>3. CASE Under(bucket[d].recs, bucket'[d].recs) /\ kept'[d] = kept[d]
    BY <1>1, <2>3, UnderTransitive DEF IInv
  <2>4. QED BY <2>2, <2>3 DEF Grows
<1>4. NewestKept'
  <2>1. SUFFICES ASSUME NEW k \in Keys, newest[k] # NoRec
                 PROVE  \E d \in Dev : kept'[d].recs[k] = newest[k]
    BY DEF NewestKept
  <2>2. PICK d \in Dev : kept[d].recs[k] = newest[k]
    BY <2>1 DEF IInv, NewestKept
  <2>3. CASE kept'[d] = kept[d]
    BY <2>2, <2>3
  <2>4. CASE kept'[d] = bucket'[d] /\ Under(bucket[d].recs, bucket'[d].recs)
    <3>1. /\ kept[d].recs[k] \in MaybeRec /\ bucket[d].recs[k] \in MaybeRec
          /\ bucket'[d].recs[k] \in MaybeRec /\ newest[k] \in MaybeRec
      BY <1>1 DEF Store, MaybeRec
    <3>2. /\ Below(kept[d].recs[k], bucket[d].recs[k])
          /\ Below(bucket[d].recs[k], bucket'[d].recs[k])
          /\ Below(bucket'[d].recs[k], newest[k])
      BY <2>4 DEF IInv, AllUnder, Under
    <3>3. Below(newest[k], bucket'[d].recs[k])
      BY <2>2, <3>1, <3>2, BelowTransitive
    <3>4. bucket'[d].recs[k] = newest[k]
      BY <3>1, <3>2, <3>3, BelowAntisymmetric
    <3>5. QED BY <2>4, <3>4
  <2>5. QED BY <2>3, <2>4 DEF Grows
<1> QED BY <1>2, <1>3, <1>4 DEF IInv

(* A trade that is disturbed keeps its phase and its peers.                *)
LEMMA DisturbKeeps ==
  ASSUME NEW t \in [Dev -> TradeType], NEW x, NEW y
  PROVE  /\ Disturb(t, x, y) \in [Dev -> TradeType]
         /\ \A d \in Dev : /\ Disturb(t, x, y)[d].ph = t[d].ph
                           /\ Disturb(t, x, y)[d].mine = t[d].mine
                           /\ Disturb(t, x, y)[d].peer = t[d].peer
                           /\ Disturb(t, x, y)[d].took = t[d].took
  BY DEF Disturb, TradeType

(* A message or a phase changes for one device, no bucket does.            *)
LEMMA TalkKeeps ==
  ASSUME IInv, UNCHANGED <<bucket, kept, server, newest>>, joined' \subseteq Dev,
         NEW d \in Dev, tr' \in [Dev -> TradeType],
         \A e \in Dev \ {d} : tr'[e].ph = tr[e].ph /\ tr'[e].mine = tr[e].mine,
         NEW m, wire' = [wire EXCEPT ![d] = m], Fits(m, tr'[d].ph),
         Gives(m, tr'[d].ph) => Under(m.give, newest),
         tr'[d].ph = "put" => tr'[d].mine \in Store /\ Under(tr'[d].mine, newest)
  PROVE  IInv'
<1>1. /\ DOMAIN wire' = Dev /\ wire' = [e \in Dev |-> wire'[e]]
      /\ wire'[d] = m
      /\ \A e \in Dev \ {d} : wire'[e] = wire[e]
  BY DEF IInv, Typed
<1>2. Typed'
  BY <1>1 DEF IInv, Typed
<1>3. AllUnder'
  BY <1>1 DEF IInv, AllUnder
<1>4. Grows
  BY DEF Grows, Under, Below
<1>5. \A e \in Dev : Covers(bucket'[e])
  BY DEF IInv
<1> QED BY <1>2, <1>3, <1>4, <1>5, GrowingKeeps

(* What the types say of each device.                                      *)
LEMMA TypedFacts ==
  ASSUME Typed
  PROVE  /\ \A d \in Dev : /\ bucket[d] \in BucketType /\ bucket[d].recs \in Store
                           /\ bucket[d].clock \in Nat
                           /\ tr[d] \in TradeType
         /\ Idle \in TradeType /\ Idle.ph = "idle"
         /\ Dev \subseteq Nat \ {0}
         /\ \A ph : Fits(None, ph)
  BY DevAssumption DEF Typed, BucketType, TradeType, Idle, Phase, ROUNDS, Fits

(* A trade ends, and what was taken in may be saved.                       *)
LEMMA EndKeeps ==
  ASSUME IInv, NEW d \in Dev, NEW b \in BucketType, NEW took,
         Covers(b), Under(bucket[d].recs, b.recs), Under(b.recs, newest),
         EndTrade(d, b, took), UNCHANGED <<joined, newest>>,
         server' \in Store, Under(server', newest)
  PROVE  IInv'
<1> DEFINE t == Disturb(tr, IF b = bucket[d] THEN 0 ELSE d, d)
<1>1. Typed
  BY DEF IInv, Typed
<1>2. /\ t \in [Dev -> TradeType]
      /\ \A e \in Dev : t[e].ph = tr[e].ph /\ t[e].mine = tr[e].mine
  BY <1>1, DisturbKeeps DEF Typed
<1> HIDE DEF t
<1>3. tr' = [t EXCEPT ![d] = Idle]
  BY DEF EndTrade, t
<1>4. /\ tr' \in [Dev -> TradeType]
      /\ tr'[d].ph = "idle"
      /\ \A e \in Dev \ {d} : tr'[e].ph = tr[e].ph /\ tr'[e].mine = tr[e].mine
  BY <1>1, <1>2, <1>3, TypedFacts
<1>5. /\ bucket' = [bucket EXCEPT ![d] = b]
      /\ kept' = IF took THEN [kept EXCEPT ![d] = b] ELSE kept
      /\ wire' = [wire EXCEPT ![d] = None]
  BY DEF EndTrade
<1>6. /\ bucket' \in [Dev -> BucketType] /\ kept' \in [Dev -> BucketType]
      /\ \A e \in Dev : bucket'[e] = IF e = d THEN b ELSE bucket[e]
      /\ \A e \in Dev : kept'[e] \in {kept[e], bucket'[e]}
  BY <1>1, <1>5 DEF Typed
<1>7. /\ DOMAIN wire' = Dev /\ wire' = [e \in Dev |-> wire'[e]]
      /\ \A e \in Dev : wire'[e] = IF e = d THEN None ELSE wire[e]
  BY <1>1, <1>5 DEF Typed
<1>8. Typed'
  <2>1. \A e \in Dev : Fits(wire'[e], tr'[e].ph)
    BY <1>1, <1>4, <1>7, TypedFacts DEF Typed
  <2>2. \A e \in Dev : tr'[e].ph = "put" => tr'[e].mine \in Store
    BY <1>1, <1>4 DEF Typed
  <2>3. QED BY <1>1, <1>4, <1>6, <1>7, <2>1, <2>2 DEF Typed
<1>9. AllUnder'
  <2>1. \A e \in Dev : Gives(wire'[e], tr'[e].ph) => Under(wire'[e].give, newest)
    BY <1>4, <1>7 DEF IInv, AllUnder, Gives
  <2>2. QED BY <1>4, <1>6, <2>1 DEF IInv, AllUnder
<1>10. Grows
  <2>1. \A e \in Dev : Under(bucket[e].recs, bucket'[e].recs)
    BY <1>6 DEF Under, Below
  <2>2. QED BY <1>6, <2>1 DEF Grows
<1>11. \A e \in Dev : Covers(bucket'[e])
  BY <1>6 DEF IInv
<1> QED BY <1>8, <1>9, <1>10, <1>11, GrowingKeeps

(* A trade that is thrown away takes nothing along.                        *)
LEMMA ThrowKeeps ==
  ASSUME IInv, NEW d \in Dev, ThrowTrade(d), joined' \subseteq Dev,
         UNCHANGED <<server, newest>>
  PROVE  IInv'
<1>1. Typed /\ UNCHANGED <<bucket, kept>>
  BY DEF IInv, ThrowTrade
<1>2. /\ tr' \in [Dev -> TradeType]
      /\ \A e \in Dev \ {d} : tr'[e].ph = tr[e].ph /\ tr'[e].mine = tr[e].mine
      /\ tr'[d].ph = "idle"
      /\ wire' = [wire EXCEPT ![d] = None]
      /\ Fits(None, tr'[d].ph)
  BY <1>1, TypedFacts DEF ThrowTrade, Typed
<1> DEFINE m == None
<1>3. /\ wire' = [wire EXCEPT ![d] = m] /\ Fits(m, tr'[d].ph)
      /\ ~Gives(m, tr'[d].ph)
  BY <1>2 DEF Gives
<1> HIDE DEF m
<1> QED BY <1>1, <1>2, <1>3, TalkKeeps

(* A device says what it has.                                              *)
LEMMA SendHaveKeeps ==
  ASSUME IInv, NEW d \in Dev, SendHave(d), UNCHANGED <<joined, server, newest>>
  PROVE  IInv'
<1>1. Typed /\ UNCHANGED <<bucket, kept>>
  BY DEF IInv, SendHave
<1> DEFINE m == [dir |-> "ask", type |-> "have", have |-> bucket[d].recs]
<1>2. m \in HaveAsk /\ (\A ph : ~Gives(m, ph))
  BY <1>1, TypedFacts DEF HaveAsk, GiveAsk, HaveAnswer, Gives
<1>3. wire' = [wire EXCEPT ![d] = m]
  BY DEF SendHave, Ask
<1> HIDE DEF m
<1>4. /\ tr' \in [Dev -> TradeType]
      /\ \A e \in Dev \ {d} : tr'[e].ph = tr[e].ph /\ tr'[e].mine = tr[e].mine
      /\ tr'[d].ph = "have"
  BY <1>1, TypedFacts DEF SendHave, Typed, TradeType, Phase
<1>5. Fits(m, tr'[d].ph)
  BY <1>2, <1>4 DEF Fits
<1>6. joined' \subseteq Dev
  BY <1>1 DEF Typed
<1> QED BY <1>1, <1>2, <1>3, <1>4, <1>5, <1>6, TalkKeeps

(* The answering side sends m, its own store standing still.               *)
LEMMA AnswerKeeps ==
  ASSUME IInv, NEW d \in Dev, NEW m, Reply(d, m), Fits(m, tr[d].ph), tr[d].ph # "put",
         Gives(m, tr[d].ph) => Under(m.give, newest),
         UNCHANGED <<bucket, kept, joined, tr, server, newest>>
  PROVE  IInv'
<1>1. tr' \in [Dev -> TradeType] /\ joined' \subseteq Dev
  BY DEF IInv, Typed
<1>2. wire' = [wire EXCEPT ![d] = m]
  BY DEF Reply
<1> QED BY <1>1, <1>2, TalkKeeps

-----------------------------------------------------------------------------
(* Every step, action by action.                                           *)
LEMMA InitHolds == Init => IInv
<1> SUFFICES ASSUME Init PROVE IInv
  OBVIOUS
<1>1. EmptyStore \in Store /\ \A r \in Store : Under(EmptyStore, r)
  BY DEF EmptyStore, Store, Under, Below, Newer
<1>2. NewBucket \in BucketType /\ Covers(NewBucket)
  BY <1>1 DEF NewBucket, BucketType, Covers, EmptyStore
<1>3. Idle \in TradeType /\ Idle.ph = "idle"
  BY DEF Idle, TradeType, Phase, ROUNDS
<1>4. Typed
  BY <1>1, <1>2, <1>3 DEF Init, Typed, Fits
<1>5. AllUnder
  BY <1>1, <1>3 DEF Init, AllUnder, NewBucket, Gives
<1>6. NewestKept
  BY DEF Init, NewestKept, EmptyStore
<1>7. \A d \in Dev : Under(kept[d].recs, bucket[d].recs)
  BY DEF Init, Under, Below
<1> QED BY <1>2, <1>4, <1>5, <1>6, <1>7 DEF IInv, Init

(* A bucket is written to with records above its own.                      *)
LEMMA WriteKeeps ==
  ASSUME IInv, NEW d \in Dev, NEW b \in BucketType, Covers(b),
         Under(bucket[d].recs, b.recs), Write(d, b)
  PROVE  IInv'
<1> DEFINE fresh == [k \in Keys |-> IF b.recs[k] # bucket[d].recs[k] THEN b.recs[k] ELSE NoRec]
<1>1. /\ Typed
      /\ bucket' = [bucket EXCEPT ![d] = b]
      /\ kept' = [kept EXCEPT ![d] = b]
      /\ newest' = MergeKeys(newest, fresh)
      /\ tr' = Disturb(tr, d, 0)
      /\ UNCHANGED <<joined, wire, server>>
  BY DEF IInv, Write
<1>2. newest \in Store /\ b.recs \in Store /\ fresh \in Store
  BY <1>1 DEF Typed, BucketType, Store
<1> HIDE DEF fresh
<1>3. newest' \in Store /\ Under(newest, newest')
  BY <1>1, <1>2, MergeIsLub
<1>4. Under(fresh, newest')
  BY <1>1, <1>2, MergeAgrees, MergeIsLub
<1>5. /\ bucket' \in [Dev -> BucketType] /\ kept' \in [Dev -> BucketType]
      /\ \A e \in Dev : bucket'[e] = IF e = d THEN b ELSE bucket[e]
      /\ \A e \in Dev : kept'[e] = IF e = d THEN b ELSE kept[e]
  BY <1>1 DEF Typed
<1>6. /\ tr' \in [Dev -> TradeType]
      /\ \A e \in Dev : tr'[e].ph = tr[e].ph /\ tr'[e].mine = tr[e].mine
  BY <1>1, DisturbKeeps DEF Typed
<1>7. Typed'
  BY <1>1, <1>3, <1>5, <1>6 DEF Typed
<1>8. Under(b.recs, newest')
  <2>1. SUFFICES ASSUME NEW k \in Keys PROVE Below(b.recs[k], newest'[k])
    BY DEF Under
  <2>2. CASE b.recs[k] = bucket[d].recs[k]
    <3>1. /\ Below(bucket[d].recs[k], newest[k]) /\ Below(newest[k], newest'[k])
      BY <1>3 DEF IInv, AllUnder, Under
    <3>2. b.recs[k] \in MaybeRec /\ newest[k] \in MaybeRec /\ newest'[k] \in MaybeRec
      BY <1>2, <1>3 DEF Store, MaybeRec
    <3>3. QED BY <2>2, <3>1, <3>2, BelowTransitive
  <2>3. CASE b.recs[k] # bucket[d].recs[k]
    BY <1>4, <2>3 DEF fresh, Under
  <2>4. QED BY <2>2, <2>3
<1>9. AllUnder'
  <2>1. \A r \in Store : Under(r, newest) => Under(r, newest')
    BY <1>2, <1>3, UnderTransitive
  <2>2. \A e \in Dev : Under(bucket'[e].recs, newest')
    BY <1>1, <1>5, <1>8, <2>1, TypedFacts DEF IInv, AllUnder
  <2>3. Under(server', newest')
    BY <1>1, <2>1 DEF IInv, AllUnder, Typed
  <2>4. \A e \in Dev : tr'[e].ph = "put" => Under(tr'[e].mine, newest')
    BY <1>1, <1>6, <2>1 DEF IInv, AllUnder, Typed
  <2>5. \A e \in Dev : Gives(wire'[e], tr'[e].ph) => Under(wire'[e].give, newest')
    BY <1>1, <1>6, <2>1 DEF IInv, AllUnder, GiveAsk, HaveAnswer, Gives
  <2>6. QED BY <2>2, <2>3, <2>4, <2>5 DEF AllUnder
<1>10. \A e \in Dev : Covers(bucket'[e]) /\ Covers(kept'[e])
  BY <1>5 DEF IInv
<1>11. \A e \in Dev : Under(kept'[e].recs, bucket'[e].recs)
  BY <1>5 DEF IInv, Under, Below
<1>12. NewestKept'
  <2>1. SUFFICES ASSUME NEW k \in Keys, newest'[k] # NoRec
                 PROVE  \E e \in Dev : kept'[e].recs[k] = newest'[k]
    BY DEF NewestKept
  <2>2. newest'[k] \in {newest[k], fresh[k]}
    BY <1>1, <1>2, MergeIsLub
  <2>3. CASE newest'[k] = fresh[k]
    BY <1>5, <2>1, <2>3 DEF fresh
  <2>4. CASE newest'[k] = newest[k]
    <3>1. PICK e \in Dev : kept[e].recs[k] = newest[k]
      BY <2>1, <2>4 DEF IInv, NewestKept
    <3>2. CASE e # d
      BY <1>5, <2>4, <3>1, <3>2
    <3>3. CASE e = d
      <4>1. /\ Below(kept[d].recs[k], bucket[d].recs[k])
            /\ Below(bucket[d].recs[k], b.recs[k])
            /\ Below(b.recs[k], newest[k])
        BY <1>8, <2>4 DEF IInv, Under
      <4>2. /\ kept[d].recs[k] \in MaybeRec /\ bucket[d].recs[k] \in MaybeRec
            /\ b.recs[k] \in MaybeRec /\ newest[k] \in MaybeRec
        BY <1>1, <1>2 DEF Typed, BucketType, Store, MaybeRec
      <4>3. b.recs[k] = newest[k]
        BY <3>1, <3>3, <4>1, <4>2, BelowTransitive, BelowAntisymmetric
      <4>4. QED BY <1>5, <2>4, <4>3
    <3>4. QED BY <3>2, <3>3
  <2>5. QED BY <2>2, <2>3, <2>4
<1> QED BY <1>7, <1>9, <1>10, <1>11, <1>12 DEF IInv

(* A key is set or removed.                                                *)
LEMMA EditKeeps ==
  ASSUME IInv, NEW d \in Dev, Set(d) \/ Remove(d)
  PROVE  IInv'
<1>1. \E k \in Keys, t \in Reads[d] :
        \/ Write(d, RemoveItem(bucket[d], k, t))
        \/ \E v \in Values : Write(d, SetItem(bucket[d], k, v, t))
  BY DEF Set, Remove
<1>2. PICK k \in Keys, t \in Reads[d] :
        \E b : /\ Write(d, b)
               /\ b = RemoveItem(bucket[d], k, t) \/ \E v \in Values : b = SetItem(bucket[d], k, v, t)
  <2>1. PICK k \in Keys, t \in Reads[d] :
          \/ Write(d, RemoveItem(bucket[d], k, t))
          \/ \E v \in Values : Write(d, SetItem(bucket[d], k, v, t))
    BY <1>1
  <2>2. CASE Write(d, RemoveItem(bucket[d], k, t))
    BY <2>2
  <2>3. CASE \E v \in Values : Write(d, SetItem(bucket[d], k, v, t))
    BY <2>3
  <2>4. QED BY <2>1, <2>2, <2>3
<1>3. PICK b : /\ Write(d, b)
               /\ b = RemoveItem(bucket[d], k, t) \/ \E v \in Values : b = SetItem(bucket[d], k, v, t)
  BY <1>2
<1>4. bucket[d] \in BucketType /\ Covers(bucket[d])
  BY TypedFacts DEF IInv
<1>5. b \in BucketType /\ Covers(b) /\ Under(bucket[d].recs, b.recs)
  <2>1. t \in Nat
    BY ReadsAssumption
  <2>2. QED BY <1>3, <1>4, <2>1, EditIsLater
<1> QED BY <1>3, <1>5, WriteKeeps

(* A device leaves or restarts, with what its file has.                    *)
LEMMA LeaveKeeps ==
  ASSUME IInv, NEW d \in Dev, Leave(d) \/ Restart(d)
  PROVE  IInv'
<1> DEFINE t == Disturb(tr, d, d)
<1>1. /\ Typed
      /\ tr' = [t EXCEPT ![d] = Idle]
      /\ wire' = [wire EXCEPT ![d] = None]
      /\ joined' = joined \ {d}
      /\ UNCHANGED <<kept, server, newest>>
      /\ bucket' = bucket \/ bucket' = [bucket EXCEPT ![d] = kept[d]]
  BY DEF IInv, Leave, Restart, LeaveRoom
<1>2. /\ t \in [Dev -> TradeType]
      /\ \A e \in Dev : t[e].ph = tr[e].ph /\ t[e].mine = tr[e].mine
  BY <1>1, DisturbKeeps DEF Typed
<1> HIDE DEF t
<1>3. /\ tr' \in [Dev -> TradeType]
      /\ tr'[d].ph = "idle"
      /\ \A e \in Dev \ {d} : tr'[e].ph = tr[e].ph /\ tr'[e].mine = tr[e].mine
  BY <1>1, <1>2, TypedFacts
<1>4. /\ bucket' \in [Dev -> BucketType]
      /\ \A e \in Dev : bucket'[e] \in {bucket[e], kept[e]}
  BY <1>1 DEF Typed
<1>5. /\ DOMAIN wire' = Dev /\ wire' = [e \in Dev |-> wire'[e]]
      /\ \A e \in Dev : wire'[e] = IF e = d THEN None ELSE wire[e]
  BY <1>1 DEF Typed
<1>6. Typed'
  <2>1. \A e \in Dev : Fits(wire'[e], tr'[e].ph)
    BY <1>1, <1>3, <1>5, TypedFacts DEF Typed
  <2>2. QED BY <1>1, <1>3, <1>4, <1>5, <2>1 DEF Typed
<1>7. \A e \in Dev : Under(bucket'[e].recs, newest)
  <2>1. \A e \in Dev : Under(kept[e].recs, bucket[e].recs) /\ Under(bucket[e].recs, newest)
    BY DEF IInv, AllUnder
  <2>2. \A e \in Dev : kept[e].recs \in Store /\ bucket[e].recs \in Store /\ newest \in Store
    BY <1>1 DEF Typed, BucketType
  <2>3. \A e \in Dev : Under(kept[e].recs, newest)
    BY <2>1, <2>2, UnderTransitive
  <2>4. QED BY <1>4, <2>1, <2>3
<1>8. AllUnder'
  BY <1>1, <1>3, <1>5, <1>7 DEF IInv, AllUnder, Gives
<1>9. Grows
  BY <1>1, <1>4 DEF Grows, Under, Below
<1>10. \A e \in Dev : Covers(bucket'[e])
  BY <1>4 DEF IInv
<1> QED BY <1>1, <1>6, <1>8, <1>9, <1>10, GrowingKeeps

(* A trade or a round begins.                                              *)
LEMMA StartKeeps ==
  ASSUME IInv, NEW d \in Dev, StartTrade(d) \/ StartRound(d)
  PROVE  IInv'
<1>1. Typed
  BY DEF IInv
<1>2. CASE StartTrade(d)
  <2> DEFINE m == [dir |-> "ask", type |-> "hello"]
  <2>1. m \in HelloAsk /\ (\A ph : ~Gives(m, ph))
    BY DEF HelloAsk, GiveAsk, HaveAnswer, Gives
  <2>2. wire' = [wire EXCEPT ![d] = m]
    BY <1>2 DEF StartTrade, Ask
  <2> HIDE DEF m
  <2>3. /\ tr' \in [Dev -> TradeType]
        /\ \A e \in Dev \ {d} : tr'[e].ph = tr[e].ph /\ tr'[e].mine = tr[e].mine
        /\ tr'[d].ph = "hello"
    BY <1>1, <1>2 DEF StartTrade, Typed, TradeType, Phase, Idle
  <2>4. Fits(m, tr'[d].ph)
    BY <2>1, <2>3 DEF Fits
  <2>5. UNCHANGED <<bucket, kept, server, newest>> /\ joined' \subseteq Dev
    BY <1>1, <1>2 DEF StartTrade, Typed
  <2> QED BY <2>1, <2>2, <2>3, <2>4, <2>5, TalkKeeps
<1>3. CASE StartRound(d)
  <2>1. UNCHANGED <<bucket, kept, server, newest, wire>> /\ joined' \subseteq Dev
    BY <1>1, <1>3 DEF StartRound, Typed
  <2>2. /\ tr' \in [Dev -> TradeType]
        /\ \A e \in Dev \ {d} : tr'[e].ph = tr[e].ph /\ tr'[e].mine = tr[e].mine
        /\ tr'[d].ph \in {"idle", "table"}
        /\ tr[d].ph = "idle"
    BY <1>1, <1>3, TypedFacts DEF StartRound, Typed, TradeType, Phase, Idle
  <2>3. wire' = [wire EXCEPT ![d] = None] /\ wire[d] = None
    BY <1>1, <2>1, <2>2 DEF Typed, Fits
  <2> DEFINE m == None
  <2>4. /\ wire' = [wire EXCEPT ![d] = m] /\ Fits(m, tr'[d].ph)
        /\ ~Gives(m, tr'[d].ph)
    BY <1>1, <2>3, TypedFacts DEF Gives
  <2> HIDE DEF m
  <2> QED BY <2>1, <2>2, <2>4, TalkKeeps
<1> QED BY <1>2, <1>3

(* The trade's steps that take nothing in.                                 *)
LEMMA ComputerTalkKeeps ==
  ASSUME IInv, NEW d \in Dev, SendProve(d) \/ Compare(d) \/ Settle(d)
  PROVE  IInv'
<1>1. Typed /\ bucket[d] \in BucketType /\ Covers(bucket[d])
      /\ Under(bucket[d].recs, bucket[d].recs) /\ Under(bucket[d].recs, newest)
      /\ server \in Store /\ Under(server, newest)
  BY TypedFacts DEF IInv, AllUnder, Typed, Under, Below
<1>2. UNCHANGED <<joined, server, newest>>
  BY DEF SendProve, Compare, Settle
<1>3. CASE \E took : EndTrade(d, bucket[d], took)
  BY <1>1, <1>2, <1>3, EndKeeps
<1>4. CASE SendHave(d)
  BY <1>2, <1>4, SendHaveKeeps
<1>5. CASE SendProve(d) /\ wire[d].ok
  <2> DEFINE m == [dir |-> "ask", type |-> "prove"]
  <2>1. m \in ProveAsk /\ (\A ph : ~Gives(m, ph))
    BY DEF ProveAsk, GiveAsk, HaveAnswer, Gives
  <2>2. wire' = [wire EXCEPT ![d] = m] /\ UNCHANGED <<bucket, kept>>
    BY <1>5 DEF SendProve, Ask
  <2> HIDE DEF m
  <2>3. tr' = [tr EXCEPT ![d].ph = "prove"]
    BY <1>5 DEF SendProve
  <2>4. /\ tr' \in [Dev -> TradeType]
        /\ \A e \in Dev \ {d} : tr'[e].ph = tr[e].ph /\ tr'[e].mine = tr[e].mine
        /\ tr'[d].ph = "prove"
    BY <1>1, <2>3 DEF Typed, TradeType, Phase
  <2>5. Fits(m, tr'[d].ph)
    BY <2>1, <2>4 DEF Fits
  <2>6. joined' \subseteq Dev
    BY <1>1, <1>2 DEF Typed
  <2> QED BY <1>2, <2>1, <2>2, <2>4, <2>5, <2>6, TalkKeeps
<1> QED BY <1>3, <1>4, <1>5 DEF SendProve, Compare, Settle

(* A trade or a round is given up.                                         *)
LEMMA GiveUpKeeps ==
  ASSUME IInv, NEW d \in Dev, GiveUp(d) \/ FailRound(d)
  PROVE  IInv'
<1>1. ThrowTrade(d) /\ UNCHANGED <<joined, server, newest>>
  BY DEF GiveUp, FailRound
<1>2. joined' \subseteq Dev
  BY <1>1 DEF IInv, Typed
<1> QED BY <1>1, <1>2, ThrowKeeps

(* Device p takes records in while the trade of device d goes on.          *)
LEMMA TakeKeeps ==
  ASSUME IInv, NEW p \in Dev, NEW d \in Dev, NEW b \in BucketType,
         Covers(b), Under(bucket[p].recs, b.recs), Under(b.recs, newest),
         bucket' = [bucket EXCEPT ![p] = b],
         kept' \in {kept, [kept EXCEPT ![p] = b]},
         UNCHANGED <<joined, server, newest>>,
         tr' \in [Dev -> TradeType],
         \A e \in Dev \ {d} : tr'[e].ph = tr[e].ph /\ tr'[e].mine = tr[e].mine,
         NEW m, wire' = [wire EXCEPT ![d] = m], Fits(m, tr'[d].ph),
         Gives(m, tr'[d].ph) => Under(m.give, newest),
         tr'[d].ph = "put" => tr'[d].mine \in Store /\ Under(tr'[d].mine, newest)
  PROVE  IInv'
<1>1. /\ DOMAIN wire' = Dev /\ wire' = [e \in Dev |-> wire'[e]]
      /\ wire'[d] = m
      /\ \A e \in Dev \ {d} : wire'[e] = wire[e]
  BY DEF IInv, Typed
<1>2. /\ bucket' \in [Dev -> BucketType] /\ kept' \in [Dev -> BucketType]
      /\ \A e \in Dev : bucket'[e] = IF e = p THEN b ELSE bucket[e]
      /\ \A e \in Dev : kept'[e] \in {kept[e], bucket'[e]}
  BY DEF IInv, Typed
<1>3. Typed'
  BY <1>1, <1>2 DEF IInv, Typed
<1>4. AllUnder'
  BY <1>1, <1>2 DEF IInv, AllUnder
<1>5. Grows
  <2>1. \A e \in Dev : Under(bucket[e].recs, bucket'[e].recs)
    BY <1>2 DEF Under, Below
  <2>2. QED BY <1>2, <2>1 DEF Grows
<1>6. \A e \in Dev : Covers(bucket'[e])
  BY <1>2 DEF IInv
<1> QED BY <1>3, <1>4, <1>5, <1>6, GrowingKeeps

(* What taking in a store that is under the newest makes of a bucket.      *)
LEMMA Taken ==
  ASSUME IInv, NEW p \in Dev, NEW s \in Store, Under(s, newest),
         NEW m \in PastAll(bucket[p].clock, MergeKeys(bucket[p].recs, s))
  PROVE  LET b == [recs |-> MergeKeys(bucket[p].recs, s), clock |-> m]
         IN  /\ b \in BucketType /\ Covers(b) /\ b.recs \in Store
             /\ Under(bucket[p].recs, b.recs)
             /\ Under(b.recs, newest)
<1>1. /\ bucket[p].recs \in Store /\ bucket[p].clock \in Nat /\ newest \in Store
      /\ Under(bucket[p].recs, newest)
  BY TypedFacts DEF IInv, Typed, AllUnder
<1>2. /\ MergeKeys(bucket[p].recs, s) \in Store
      /\ Under(bucket[p].recs, MergeKeys(bucket[p].recs, s))
      /\ Under(MergeKeys(bucket[p].recs, s), newest)
  BY <1>1, MergeIsLub
<1> QED BY <1>1, <1>2, ClockMoves

(* What a peer gives is merged.                                            *)
LEMMA TakeGiveKeeps ==
  ASSUME IInv, NEW d \in Dev, TakeGive(d)
  PROVE  IInv'
<1>1. /\ Typed /\ bucket[d] \in BucketType /\ Covers(bucket[d])
      /\ Under(bucket[d].recs, bucket[d].recs) /\ Under(bucket[d].recs, newest)
      /\ server \in Store /\ Under(server, newest)
      /\ bucket[d].recs \in Store /\ newest \in Store
      /\ UNCHANGED <<joined, server, newest>> /\ joined' \subseteq Dev
  BY TypedFacts DEF IInv, AllUnder, Typed, Under, Below, TakeGive
<1>2. CASE EndTrade(d, bucket[d], tr[d].took)
  BY <1>1, <1>2, EndKeeps
<1>3. CASE ThrowTrade(d)
  BY <1>1, <1>3, ThrowKeeps
<1>4. CASE wire[d].ok /\ ~Changed(bucket[d].recs, tr[d].mine, wire[d].have)
  <2> DEFINE recs == MergeKeys(bucket[d].recs, wire[d].give)
             g == Give(bucket[d].recs, tr[d].mine, wire[d].have)
             msg == [dir |-> "ask", type |-> "give", give |-> g]
             t == Disturb(tr, IF recs = bucket[d].recs THEN 0 ELSE d, d)
  <2>1. wire[d] \in HaveAnswer /\ wire[d] # None
    BY <1>1, <1>4 DEF TakeGive, Answered, Typed, Fits, HaveAsk, NoAnswer
  <2>2. wire[d].give \in Store /\ Under(wire[d].give, newest)
    BY <2>1 DEF HaveAnswer, Gives, IInv, AllUnder, TakeGive
  <2>3. PICK m \in PastAll(bucket[d].clock, recs) :
          /\ bucket' = [bucket EXCEPT ![d] = [recs |-> recs, clock |-> m]]
          /\ tr' = [t EXCEPT ![d].ph = "give", ![d].took = @ \/ recs # bucket[d].recs]
          /\ wire' = [wire EXCEPT ![d] = msg]
          /\ UNCHANGED kept
    BY <1>4 DEF TakeGive, Ask
  <2> DEFINE b == [recs |-> recs, clock |-> m]
  <2>4. /\ b \in BucketType /\ Covers(b)
        /\ Under(bucket[d].recs, b.recs) /\ Under(b.recs, newest)
    BY <2>2, Taken
  <2>5. g \in Store /\ Under(g, newest)
    BY <1>1, PiecesOfAStore
  <2>6. msg \in GiveAsk /\ msg.give = g
    BY <2>5 DEF GiveAsk
  <2>7. /\ t \in [Dev -> TradeType]
        /\ \A e \in Dev : t[e].ph = tr[e].ph /\ t[e].mine = tr[e].mine
    BY <1>1, DisturbKeeps DEF Typed
  <2> HIDE DEF t
  <2> DEFINE took == t[d].took \/ recs # bucket[d].recs
  <2>8. /\ tr' \in [Dev -> TradeType]
        /\ \A e \in Dev \ {d} : tr'[e].ph = tr[e].ph /\ tr'[e].mine = tr[e].mine
        /\ tr'[d].ph = "give"
    <3>1. tr' = [t EXCEPT ![d] = [@ EXCEPT !.ph = "give", !.took = took]]
      BY <2>3, <2>7
    <3>2. t[d] \in TradeType /\ took \in BOOLEAN
      BY <2>7 DEF TradeType
    <3> HIDE DEF took
    <3>3. [t[d] EXCEPT !.ph = "give", !.took = took] \in TradeType
      BY <3>2 DEF TradeType, Phase
    <3>4. [t[d] EXCEPT !.ph = "give", !.took = took].ph = "give"
      BY <3>2 DEF TradeType
    <3>5. QED BY <2>7, <3>1, <3>3, <3>4
  <2>9. /\ bucket' = [bucket EXCEPT ![d] = b] /\ wire' = [wire EXCEPT ![d] = msg]
        /\ kept' \in {kept, [kept EXCEPT ![d] = b]} /\ tr'[d].ph # "put"
    BY <2>3, <2>8
  <2> HIDE DEF b, msg, g, recs
  <2>10. Fits(msg, tr'[d].ph)
    BY <2>6, <2>8 DEF Fits
  <2>11. Gives(msg, tr'[d].ph) => Under(msg.give, newest)
    BY <2>5, <2>6
  <2> QED BY <1>1, <2>4, <2>8, <2>9, <2>10, <2>11, TakeKeeps
<1> QED BY <1>2, <1>3, <1>4 DEF TakeGive

(* A device answers its peer.                                              *)
LEMMA AnswersKeep ==
  ASSUME IInv, NEW d \in Dev, AnswerHello(d) \/ AnswerProve(d) \/ AnswerHave(d) \/ AnswerGive(d)
  PROVE  IInv'
<1>1. /\ Typed /\ server \in Store /\ newest \in Store
      /\ wire[d] # None /\ Peer(d) \in Dev
      /\ tr[d].ph # "put"
      /\ UNCHANGED <<joined, server, newest>>
  BY DEF IInv, Typed, AnswerHello, AnswerProve, AnswerHave, AnswerGive, Asked, Fits
<1> DEFINE p == Peer(d)
<1>2. /\ bucket[p] \in BucketType /\ bucket[p].recs \in Store /\ Under(bucket[p].recs, newest)
  BY <1>1, TypedFacts DEF IInv, AllUnder
<1>3. /\ tr[d].ph = "hello" => Asked(d, "hello") \/ Answered(d)
      /\ Asked(d, "hello") => tr[d].ph = "hello"
      /\ Asked(d, "prove") => tr[d].ph = "prove"
      /\ Asked(d, "have") => tr[d].ph = "have"
      /\ Asked(d, "give") => tr[d].ph = "give" /\ wire[d] \in GiveAsk
  BY <1>1 DEF Typed, Fits, Asked, Answered, HelloAsk, ProveAsk, HaveAsk, GiveAsk,
              YesAnswer, NoAnswer, StateAnswer, HaveAnswer
<1> DEFINE refuses == Reply(d, Refused) /\ UNCHANGED <<bucket, kept, tr>>
<1>4. CASE refuses /\ tr[d].ph \in {"prove", "have", "give"}
  <2>1. Refused \in NoAnswer /\ (\A ph : ~Gives(Refused, ph))
    BY DEF Refused, NoAnswer, GiveAsk, HaveAnswer, Gives
  <2>2. Fits(Refused, tr[d].ph)
    BY <1>4, <2>1 DEF Fits
  <2> QED BY <1>1, <1>4, <2>1, <2>2, AnswerKeeps
<1>5. CASE AnswerHello(d)
  <2> DEFINE m == [dir |-> "answer", ok |-> TRUE]
  <2>1. m \in YesAnswer /\ (\A ph \in Phase \ {"have"} : ~Gives(m, ph))
    BY DEF YesAnswer, GiveAsk, HaveAnswer, Gives
  <2>2. Reply(d, m) /\ UNCHANGED <<bucket, kept, tr>> /\ tr[d].ph = "hello"
    BY <1>3, <1>5 DEF AnswerHello
  <2> HIDE DEF m
  <2>3. Fits(m, tr[d].ph) /\ ~Gives(m, tr[d].ph)
    BY <2>1, <2>2 DEF Fits, Phase
  <2> QED BY <1>1, <2>1, <2>2, <2>3, AnswerKeeps
<1>6. CASE AnswerProve(d) /\ ~refuses
  <2> DEFINE m == [dir |-> "answer", ok |-> TRUE, state |-> bucket[p].recs]
  <2>1. m \in StateAnswer /\ (\A ph \in Phase \ {"have"} : ~Gives(m, ph))
    BY <1>2 DEF StateAnswer, GiveAsk, HaveAnswer, Gives
  <2>2. Reply(d, m) /\ UNCHANGED <<bucket, kept, tr>> /\ tr[d].ph = "prove"
    BY <1>3, <1>6 DEF AnswerProve
  <2> HIDE DEF m
  <2>3. Fits(m, tr[d].ph) /\ ~Gives(m, tr[d].ph)
    BY <2>1, <2>2 DEF Fits, Phase
  <2> QED BY <1>1, <2>1, <2>2, <2>3, AnswerKeeps
<1>7. CASE AnswerHave(d) /\ ~refuses
  <2> DEFINE g == Give(bucket[p].recs, bucket[p].recs, wire[d].have)
             m == [dir |-> "answer", ok |-> TRUE, have |-> bucket[p].recs, give |-> g]
  <2>1. g \in Store /\ Under(g, newest)
    BY <1>1, <1>2, PiecesOfAStore
  <2>2. m \in HaveAnswer /\ m.give = g
    BY <1>2, <2>1 DEF HaveAnswer
  <2>3. Reply(d, m) /\ UNCHANGED <<bucket, kept, tr>> /\ tr[d].ph = "have"
    BY <1>3, <1>7 DEF AnswerHave
  <2> HIDE DEF m, g
  <2>4. Fits(m, tr[d].ph)
    BY <2>2, <2>3 DEF Fits
  <2> QED BY <1>1, <2>1, <2>2, <2>3, <2>4, AnswerKeeps
<1>8. CASE AnswerGive(d) /\ ~refuses
  <2> DEFINE recs == MergeKeys(bucket[p].recs, wire[d].give)
             m == [dir |-> "answer", ok |-> TRUE, state |-> recs]
             t == Disturb(tr, IF recs # bucket[p].recs THEN p ELSE 0, d)
  <2>1. tr[d].ph = "give" /\ wire[d] \in GiveAsk
    BY <1>3, <1>8 DEF AnswerGive
  <2>2. wire[d].give \in Store /\ Under(wire[d].give, newest)
    BY <1>1, <2>1 DEF GiveAsk, Gives, IInv, AllUnder
  <2>3. PICK c \in PastAll(bucket[p].clock, recs) :
          /\ bucket' = [bucket EXCEPT ![p] = [recs |-> recs, clock |-> c]]
          /\ kept' = IF recs # bucket[p].recs
                     THEN [kept EXCEPT ![p] = [recs |-> recs, clock |-> c]] ELSE kept
          /\ tr' = t
          /\ wire' = [wire EXCEPT ![d] = m]
    BY <1>8 DEF AnswerGive, Reply
  <2> DEFINE b == [recs |-> recs, clock |-> c]
  <2>4. /\ b \in BucketType /\ Covers(b) /\ recs \in Store
        /\ Under(bucket[p].recs, b.recs) /\ Under(b.recs, newest)
    BY <1>1, <2>2, Taken
  <2>5. m \in StateAnswer /\ (\A ph \in Phase \ {"have"} : ~Gives(m, ph))
    BY <2>4 DEF StateAnswer, GiveAsk, HaveAnswer, Gives
  <2>6. /\ tr' \in [Dev -> TradeType]
        /\ \A e \in Dev : tr'[e].ph = tr[e].ph /\ tr'[e].mine = tr[e].mine
    BY <1>1, <2>3, DisturbKeeps DEF Typed
  <2>7. /\ bucket' = [bucket EXCEPT ![p] = b] /\ wire' = [wire EXCEPT ![d] = m]
        /\ kept' \in {kept, [kept EXCEPT ![p] = b]}
    BY <2>3
  <2> HIDE DEF b, m, recs, t
  <2>8. Fits(m, tr'[d].ph) /\ ~Gives(m, tr'[d].ph) /\ tr'[d].ph = "give"
    BY <2>1, <2>5, <2>6 DEF Fits, Phase
  <2>9. p \in Dev
    BY <1>1
  <2> HIDE DEF p
  <2> QED BY <1>1, <2>1, <2>4, <2>5, <2>6, <2>7, <2>8, <2>9, TakeKeeps
<1>9. AnswerProve(d) \/ AnswerHave(d) \/ AnswerGive(d) => tr[d].ph \in {"prove", "have", "give"}
  BY <1>3 DEF AnswerProve, AnswerHave, AnswerGive
<1> HIDE DEF refuses
<1> QED BY <1>4, <1>5, <1>6, <1>7, <1>8, <1>9

(* A round takes the rows of the server and puts the merged ones.          *)
LEMMA RoundKeeps ==
  ASSUME IInv, NEW d \in Dev, TakeRows(d) \/ PutRows(d)
  PROVE  IInv'
<1>1. /\ Typed /\ bucket[d] \in BucketType /\ Covers(bucket[d])
      /\ Under(bucket[d].recs, bucket[d].recs) /\ Under(bucket[d].recs, newest)
      /\ server \in Store /\ Under(server, newest) /\ newest \in Store
      /\ bucket[d].recs \in Store
      /\ UNCHANGED <<joined, newest>> /\ joined' \subseteq Dev
  BY TypedFacts DEF IInv, AllUnder, Typed, Under, Below, TakeRows, PutRows
<1>2. CASE TakeRows(d)
  <2> DEFINE got == OnlyKeys(server, RowsToGet(bucket[d].recs, tr[d].mine))
             recs == MergeKeys(bucket[d].recs, got)
             took == recs # bucket[d].recs
             puts == RowsToPut(recs, tr[d].mine)
             rows == OnlyKeys(recs, puts)
             t == Disturb(tr, IF took THEN d ELSE 0, d)
  <2>1. got \in Store /\ Under(got, newest)
    BY <1>1, PiecesOfAStore
  <2>2. PICK c \in PastAll(bucket[d].clock, recs) :
          IF puts = {} THEN EndTrade(d, [recs |-> recs, clock |-> c], took)
          ELSE /\ bucket' = [bucket EXCEPT ![d] = [recs |-> recs, clock |-> c]]
               /\ tr' = [t EXCEPT ![d].ph = "put", ![d].took = took, ![d].mine = rows]
               /\ UNCHANGED <<kept, wire>>
    BY <1>2, Zenon DEF TakeRows
  <2>3. tr[d].ph = "table" /\ UNCHANGED server
    BY <1>2 DEF TakeRows
  <2> HIDE DEF got
  <2> DEFINE b == [recs |-> recs, clock |-> c]
  <2>4. /\ b \in BucketType /\ Covers(b) /\ b.recs \in Store /\ recs = b.recs
        /\ Under(bucket[d].recs, b.recs) /\ Under(b.recs, newest)
    BY <2>1, Taken
  <2>5. rows \in Store /\ Under(rows, newest)
    BY <1>1, <2>4, PiecesOfAStore
  <2>6. CASE puts = {}
    <3>1. EndTrade(d, b, took)
      BY <2>2, <2>6
    <3> HIDE DEF b, took
    <3>2. QED BY <1>1, <2>3, <2>4, <3>1, EndKeeps
  <2>7. CASE puts # {}
    <3>1. /\ t \in [Dev -> TradeType]
          /\ \A e \in Dev : t[e].ph = tr[e].ph /\ t[e].mine = tr[e].mine
      BY <1>1, DisturbKeeps DEF Typed
    <3>2. /\ bucket' = [bucket EXCEPT ![d] = b]
          /\ tr' = [t EXCEPT ![d] = [@ EXCEPT !.ph = "put", !.took = took, !.mine = rows]]
          /\ kept' \in {kept, [kept EXCEPT ![d] = b]}
          /\ wire' = wire
      BY <2>2, <2>7, <3>1
    <3>3. t[d] \in TradeType /\ took \in BOOLEAN
      BY <3>1
    <3> HIDE DEF b, took, rows, t, puts
    <3>4. /\ [t[d] EXCEPT !.ph = "put", !.took = took, !.mine = rows] \in TradeType
          /\ [t[d] EXCEPT !.ph = "put", !.took = took, !.mine = rows].ph = "put"
          /\ [t[d] EXCEPT !.ph = "put", !.took = took, !.mine = rows].mine = rows
      BY <2>5, <3>3 DEF TradeType, Phase
    <3>5. /\ tr' \in [Dev -> TradeType]
          /\ \A e \in Dev \ {d} : tr'[e].ph = tr[e].ph /\ tr'[e].mine = tr[e].mine
          /\ tr'[d].ph = "put" /\ tr'[d].mine = rows
      BY <3>1, <3>2, <3>4
    <3>6. wire[d] = None /\ DOMAIN wire = Dev
      BY <1>1, <2>3 DEF Typed, Fits
    <3> DEFINE m == None
    <3>7. /\ wire' = [wire EXCEPT ![d] = m] /\ Fits(m, tr'[d].ph)
          /\ ~Gives(m, tr'[d].ph)
      BY <1>1, <3>2, <3>6, TypedFacts DEF Gives, Typed
    <3> HIDE DEF m
    <3>8. /\ b \in BucketType /\ Covers(b)
          /\ Under(bucket[d].recs, b.recs) /\ Under(b.recs, newest)
          /\ bucket' = [bucket EXCEPT ![d] = b]
          /\ kept' \in {kept, [kept EXCEPT ![d] = b]}
          /\ UNCHANGED <<joined, server, newest>>
      BY <1>1, <2>3, <2>4, <3>2
    <3>9. tr'[d].mine \in Store /\ Under(tr'[d].mine, newest)
      BY <2>5, <3>5
    <3> QED BY <3>5, <3>7, <3>8, <3>9, TakeKeeps
  <2> QED BY <2>6, <2>7
<1>3. CASE PutRows(d)
  <2>1. tr[d].mine \in Store /\ Under(tr[d].mine, newest)
    BY <1>1, <1>3 DEF PutRows, Typed, IInv, AllUnder
  <2>2. server' = Overwrite(tr[d].mine) /\ EndTrade(d, bucket[d], tr[d].took)
    BY <1>3 DEF PutRows
  <2>3. server' \in Store /\ Under(server', newest)
    BY <1>1, <2>1, <2>2 DEF Overwrite, Store, Under
  <2> QED BY <1>1, <2>2, <2>3, EndKeeps
<1> QED BY <1>2, <1>3

(* A device joins.                                                         *)
LEMMA JoinKeeps ==
  ASSUME IInv, NEW d \in Dev, Join(d)
  PROVE  IInv'
<1>1. UNCHANGED <<bucket, kept, tr, wire, server, newest>> /\ joined' \subseteq Dev
  BY DEF Join, IInv, Typed
<1> QED BY <1>1 DEF IInv, Typed, AllUnder, NewestKept, Covers

(* Every step keeps the invariant.                                         *)
LEMMA NextKeeps == IInv /\ [Next]_vars => IInv'
<1> SUFFICES ASSUME IInv, [Next]_vars PROVE IInv'
  OBVIOUS
<1>1. CASE UNCHANGED vars
  BY <1>1 DEF vars, IInv, Typed, AllUnder, NewestKept, Covers
<1>2. CASE Next
  <2>1. PICK d \in Dev :
          \/ Set(d) \/ Remove(d)
          \/ Join(d) \/ Leave(d) \/ Restart(d)
          \/ TradeStep(d) \/ GiveUp(d)
          \/ RoundStep(d) \/ FailRound(d)
    BY <1>2 DEF Next
  <2>2. QED
    BY <2>1, EditKeeps, JoinKeeps, LeaveKeeps, StartKeeps, ComputerTalkKeeps, TakeGiveKeeps,
       AnswersKeep, GiveUpKeeps, RoundKeeps
    DEF TradeStep, RoundStep
<1> QED BY <1>1, <1>2

-----------------------------------------------------------------------------
(* A bucket's clock is past every date in it, whatever was written, taken  *)
(* in or read back: what a device writes next is the newest it knows       *)
(* (bucket.js stamp, merge).                                               *)
THEOREM ClockAlwaysCovers == Spec => []ClockCovers
<1>1. IInv => ClockCovers
  BY DEF IInv, ClockCovers, Covers
<1> QED BY <1>1, InitHolds, NextKeeps, PTL DEF Spec

(* The newest record ever written of a key stays in some device's file,    *)
(* for any number of devices and keys, whatever trades, rounds, departures *)
(* and restarts come in between (bucket.js newer, roomsync.js).            *)
THEOREM NewestAlwaysKept == Spec => []NewestKept
<1>1. IInv => NewestKept
  BY DEF IInv
<1> QED BY <1>1, InitHolds, NextKeeps, PTL DEF Spec

(* No step makes a record older, but a restart that reads the file.        *)
LEMMA StepNeverOlder ==
  ASSUME IInv, [Next]_vars, NEW d \in Dev, NEW k \in Keys
  PROVE  \/ bucket'[d].recs[k] = bucket[d].recs[k]
         \/ Newer(bucket[d].recs[k], bucket'[d].recs[k])
         \/ bucket'[d] = kept[d]
<1>1. Typed
  BY DEF IInv
<1>2. ASSUME NEW e \in Dev, NEW b, Under(bucket[e].recs, b.recs), bucket' = [bucket EXCEPT ![e] = b]
      PROVE  \/ bucket'[d].recs[k] = bucket[d].recs[k]
             \/ Newer(bucket[d].recs[k], bucket'[d].recs[k])
  <2>1. bucket'[d] = IF d = e THEN b ELSE bucket[d]
    BY <1>1, <1>2 DEF Typed
  <2>2. QED BY <1>2, <2>1 DEF Under, Below
<1>3. CASE bucket' = bucket
  BY <1>3
<1>4. ASSUME NEW e \in Dev, NEW took, EndTrade(e, bucket[e], took) PROVE bucket' = bucket
  BY <1>1, <1>4 DEF EndTrade, Typed
<1>5. ASSUME NEW e \in Dev, Set(e) \/ Remove(e)
      PROVE  \E b : Under(bucket[e].recs, b.recs) /\ bucket' = [bucket EXCEPT ![e] = b]
  <2>1. \/ \E j \in Keys, v \in Values, t \in Reads[e] : Write(e, SetItem(bucket[e], j, v, t))
        \/ \E j \in Keys, t \in Reads[e] : Write(e, RemoveItem(bucket[e], j, t))
    BY <1>5 DEF Set, Remove
  <2>2. bucket[e] \in BucketType /\ Covers(bucket[e]) /\ \A t \in Reads[e] : t \in Nat
    BY <1>1, TypedFacts, ReadsAssumption DEF IInv
  <2>3. QED BY <2>1, <2>2, EditIsLater DEF Write
<1>6. ASSUME NEW e \in Dev, TakeGive(e)
      PROVE  bucket' = bucket \/ \E b : Under(bucket[e].recs, b.recs) /\ bucket' = [bucket EXCEPT ![e] = b]
  <2>1. CASE bucket' = bucket \/ EndTrade(e, bucket[e], tr[e].took) \/ ThrowTrade(e)
    BY <1>4, <2>1 DEF ThrowTrade
  <2>2. CASE wire[e].ok /\ ~Changed(bucket[e].recs, tr[e].mine, wire[e].have)
    <3>1. wire[e] \in HaveAnswer /\ wire[e].give \in Store
      BY <1>1, <1>6, <2>2 DEF TakeGive, Answered, Typed, Fits, HaveAsk, NoAnswer, HaveAnswer
    <3>2. Under(bucket[e].recs, MergeKeys(bucket[e].recs, wire[e].give))
      BY <1>1, <3>1, TypedFacts, MergeIsLub
    <3>3. \E c : bucket' = [bucket EXCEPT ![e] =
                  [recs |-> MergeKeys(bucket[e].recs, wire[e].give), clock |-> c]]
      BY <1>6, <2>2 DEF TakeGive
    <3>4. QED BY <3>2, <3>3
  <2>3. QED BY <1>6, <2>1, <2>2 DEF TakeGive
<1>7. ASSUME NEW e \in Dev, AnswerGive(e)
      PROVE  \/ bucket' = bucket
             \/ \E p \in Dev : \E b : Under(bucket[p].recs, b.recs) /\ bucket' = [bucket EXCEPT ![p] = b]
  <2> DEFINE p == Peer(e)
  <2>1. p \in Dev /\ bucket[p].recs \in Store
    BY <1>1, <1>7, TypedFacts DEF AnswerGive, Typed
  <2>2. wire[e].give \in Store
    BY <1>1, <1>7 DEF AnswerGive, Asked, Typed, Fits, HelloAsk, ProveAsk, HaveAsk, GiveAsk,
                      YesAnswer, NoAnswer, StateAnswer, HaveAnswer
  <2>3. Under(bucket[p].recs, MergeKeys(bucket[p].recs, wire[e].give))
    BY <2>1, <2>2, MergeIsLub
  <2>4. bucket' = bucket \/ \E c : bucket' = [bucket EXCEPT ![p] =
                  [recs |-> MergeKeys(bucket[p].recs, wire[e].give), clock |-> c]]
    BY <1>7 DEF AnswerGive
  <2>5. QED BY <2>1, <2>3, <2>4
<1>8. ASSUME NEW e \in Dev, TakeRows(e)
      PROVE  \E b : Under(bucket[e].recs, b.recs) /\ bucket' = [bucket EXCEPT ![e] = b]
  <2> DEFINE got == OnlyKeys(server, RowsToGet(bucket[e].recs, tr[e].mine))
  <2>1. got \in Store
    BY <1>1, PiecesOfAStore DEF Typed
  <2>2. Under(bucket[e].recs, MergeKeys(bucket[e].recs, got))
    BY <1>1, <2>1, TypedFacts, MergeIsLub
  <2>3. \E c : bucket' = [bucket EXCEPT ![e] = [recs |-> MergeKeys(bucket[e].recs, got), clock |-> c]]
    BY <1>8 DEF TakeRows, EndTrade
  <2>4. QED BY <2>2, <2>3
<1>9. ASSUME NEW e \in Dev, Restart(e)
      PROVE  bucket'[d] = bucket[d] \/ bucket'[d] = kept[d]
  BY <1>1, <1>9 DEF Restart, Typed
<1>10. CASE UNCHANGED vars
  BY <1>3, <1>10 DEF vars
<1>11. CASE Next
  <2>1. PICK e \in Dev :
          \/ Set(e) \/ Remove(e)
          \/ Join(e) \/ Leave(e) \/ Restart(e)
          \/ TradeStep(e) \/ GiveUp(e)
          \/ RoundStep(e) \/ FailRound(e)
    BY <1>11 DEF Next
  <2>2. CASE Join(e) \/ Leave(e) \/ GiveUp(e) \/ FailRound(e)
    BY <1>3, <2>2 DEF Join, Leave, GiveUp, FailRound, ThrowTrade
  <2>3. CASE StartTrade(e) \/ StartRound(e) \/ AnswerHello(e) \/ AnswerProve(e) \/ AnswerHave(e)
    BY <1>3, <2>3 DEF StartTrade, StartRound, AnswerHello, AnswerProve, AnswerHave
  <2>4. CASE SendProve(e) \/ Compare(e) \/ Settle(e) \/ PutRows(e)
    BY <1>3, <1>4, <2>4 DEF SendProve, Compare, Settle, PutRows, SendHave
  <2>5. CASE Set(e) \/ Remove(e) \/ TakeGive(e) \/ AnswerGive(e) \/ TakeRows(e)
    BY <1>2, <1>3, <1>5, <1>6, <1>7, <1>8, <2>5
  <2>6. CASE Restart(e)
    BY <1>9, <2>6
  <2>7. QED BY <2>1, <2>2, <2>3, <2>4, <2>5, <2>6 DEF TradeStep, RoundStep
<1> QED BY <1>10, <1>11

(* A device's record only ever gives way to a later one, but for a restart *)
(* that goes back to what was kept (bucket.js mergeKeys, stamp).           *)
THEOREM RecordsNeverOlder == Spec => NeverOlder
<1>1. IInv /\ [Next]_vars =>
        [\A d \in Dev, k \in Keys :
           \/ bucket'[d].recs[k] = bucket[d].recs[k]
           \/ Newer(bucket[d].recs[k], bucket'[d].recs[k])
           \/ bucket'[d] = kept[d]]_vars
  BY StepNeverOlder
<1> QED BY <1>1, InitHolds, NextKeeps, PTL DEF Spec, NeverOlder


-----------------------------------------------------------------------------
(* The lists that a rule merges.                                           *)
Lists == [at : 0 .. MaxEdits, items : Items]

(* An item and its fields; two that have the same are one.                 *)
LEMMA ItemIs ==
  ASSUME NEW x \in Item
  PROVE  /\ x.val \in Vals \cup {0} /\ x.val \in Nat /\ x.flag \in BOOLEAN
         /\ x.at \in 0 .. MaxEdits /\ x.at \in Nat /\ x # NoItem
         /\ \A y \in Item : x.val = y.val /\ x.at = y.at /\ x.flag = y.flag => x = y
<1>1. x.val \in Vals \cup {0} /\ x.flag \in BOOLEAN /\ x.at \in 0 .. MaxEdits
  BY DEF Item
<1>2. \A y \in Item : x.val = y.val /\ x.at = y.at /\ x.flag = y.flag => x = y
  BY DEF Item
<1>3. x.val \in Nat /\ x.at \in Nat
  <2>1. Vals \subseteq Nat
    BY ValsAssumption, Zenon
  <2>2. x.at \in Nat
    BY <1>1
  <2>3. x.val \in Vals \/ x.val = 0
    BY <1>1
  <2>4. 0 \in Nat
    OBVIOUS
  <2>5. QED BY <2>1, <2>2, <2>3, <2>4, Zenon
<1>4. x # NoItem
  BY NoItemAssumption
<1>5. QED BY <1>1, <1>2, <1>3, <1>4, Zenon

(* An item is made of its fields.                                          *)
LEMMA ItemOf ==
  ASSUME NEW v \in Vals \cup {0}, NEW t \in 0 .. MaxEdits, NEW f \in BOOLEAN
  PROVE  [val |-> v, at |-> t, flag |-> f] \in Item
<1> DEFINE V == Vals \cup {0}
           T == 0 .. MaxEdits
<1>1. v \in V /\ t \in T
  OBVIOUS
<1> HIDE DEF V, T
<1>2. [val |-> v, at |-> t, flag |-> f] \in [val : V, at : T, flag : BOOLEAN]
  BY <1>1
<1>3. QED BY <1>2 DEF V, T, Item

(* One that is dated and flagged anew.                                     *)
LEMMA ItemAgain ==
  ASSUME NEW y \in Item, NEW t, NEW f
  PROVE  [y EXCEPT !.flag = f, !.at = t] = [val |-> y.val, at |-> t, flag |-> f]
<1> DEFINE V == Vals \cup {0}
           T == 0 .. MaxEdits
<1>1. y \in [val : V, at : T, flag : BOOLEAN]
  BY DEF Item
<1> DEFINE u == [y EXCEPT !.flag = f]
           z == [val |-> y.val, at |-> y.at, flag |-> f]
<1> HIDE DEF V, T
<1>2. u = z
  BY <1>1
<1>3. [u EXCEPT !.at = t] = [z EXCEPT !.at = t]
  BY <1>2, Zenon
<1>4. [z EXCEPT !.at = t] = [val |-> y.val, at |-> t, flag |-> f]
  OBVIOUS
<1>5. QED BY <1>3, <1>4, Zenon

(* What a rule may make of two items.                                      *)
Made(z, x, y) ==
  /\ z \in Item
  /\ z.at = x.at \/ z.at = y.at
  /\ x = y => z = x

(* The later of two dates is one of them, and no earlier than either.      *)
LEMMA LaterIs ==
  ASSUME NEW x \in Nat, NEW y \in Nat
  PROVE  /\ LaterOf(x, y) \in {x, y} /\ LaterOf(x, y) = LaterOf(y, x)
         /\ LaterOf(x, y) >= x /\ LaterOf(x, y) >= y
BY DEF LaterOf

(* The Guest Book takes one of the two, the later.                         *)
LEMMA GuestIs ==
  ASSUME NEW x \in Item, NEW y \in Item
  PROVE  /\ GuestItem(x, y) \in {x, y} /\ Made(GuestItem(x, y), x, y)
         /\ x.flag = y.flag => GuestItem(x, y) = GuestItem(y, x)
         /\ GuestItem(GuestItem(x, y), x) = GuestItem(x, y)
         /\ GuestItem(GuestItem(x, y), y) = GuestItem(x, y)
<1>1. /\ x.val \in Nat /\ x.at \in Nat /\ y.val \in Nat /\ y.at \in Nat
  BY ItemIs
<1>2. GuestItem(x, y) \in {x, y} /\ (x = y => GuestItem(x, y) = x)
  BY DEF GuestItem
<1>3. x.flag = y.flag => GuestItem(x, y) = GuestItem(y, x)
  <2>1. x.val = y.val /\ x.at = y.at /\ x.flag = y.flag => x = y
    BY ItemIs
  <2>2. QED BY <1>1, <2>1 DEF GuestItem
<1>4. /\ GuestItem(GuestItem(x, y), x) = GuestItem(x, y)
      /\ GuestItem(GuestItem(x, y), y) = GuestItem(x, y)
  BY <1>1 DEF GuestItem
<1>5. QED BY <1>2, <1>3, <1>4 DEF Made

(* A contact that is later than the last is later than what the last was.  *)
LEMMA GuestInOrder ==
  ASSUME NEW x \in Item, NEW y \in Item, NEW z \in Item,
         GuestItem(x, z) = x, GuestItem(x, y) = y
  PROVE  GuestItem(y, z) = y
<1>1. /\ x.val \in Nat /\ x.at \in Nat /\ y.val \in Nat /\ y.at \in Nat
      /\ z.val \in Nat /\ z.at \in Nat
  BY ItemIs
<1>2. z = x \/ (~(z.at > x.at) /\ ~(z.at = x.at /\ z.val > x.val))
  BY DEF GuestItem
<1>3. y = x \/ y.at > x.at \/ (y.at = x.at /\ y.val > x.val)
  BY DEF GuestItem
<1>4. ~(z.at > y.at) /\ ~(z.at = y.at /\ z.val > y.val)
  BY <1>1, <1>2, <1>3
<1>5. QED BY <1>4 DEF GuestItem

(* Passwords take one of the two, the same on either side.                 *)
LEMMA PassIs ==
  ASSUME NEW x \in Item, NEW y \in Item
  PROVE  /\ PassItem(x, y) \in {x, y} /\ Made(PassItem(x, y), x, y)
         /\ PassItem(x, y) = PassItem(y, x)
<1>1. /\ x.val \in Nat /\ x.at \in Nat /\ y.val \in Nat /\ y.at \in Nat
      /\ x.flag \in BOOLEAN /\ y.flag \in BOOLEAN
      /\ (x.val = y.val /\ x.at = y.at /\ x.flag = y.flag => x = y)
  BY ItemIs
<1>2. PassItem(x, y) \in {x, y} /\ (x = y => PassItem(x, y) = x)
  BY DEF PassItem
<1>3. PassItem(x, y) = PassItem(y, x)
  <2>1. CASE x.at # y.at
    BY <1>1, <2>1 DEF PassItem
  <2>2. CASE x.at = y.at /\ x.flag = y.flag
    BY <1>1, <2>2 DEF PassItem
  <2>3. CASE x.at = y.at /\ x.flag # y.flag
    BY <1>1, <2>3 DEF PassItem
  <2>4. QED BY <2>1, <2>2, <2>3
<1>4. QED BY <1>2, <1>3 DEF Made

(* A record that is as new as one that is as new as another is as new as   *)
(* that.                                                                   *)
LEMMA PassInOrder ==
  ASSUME NEW x \in Item, NEW y \in Item, NEW z \in Item,
         PassItem(x, z) = x, PassItem(y, x) = y
  PROVE  PassItem(y, z) = y
<1>1. /\ x.val \in Nat /\ x.at \in Nat /\ y.val \in Nat /\ y.at \in Nat
      /\ z.val \in Nat /\ z.at \in Nat
      /\ x.flag \in BOOLEAN /\ y.flag \in BOOLEAN /\ z.flag \in BOOLEAN
  BY ItemIs
<1>2. \/ z = x
      \/ z.at < x.at
      \/ z.at = x.at /\ ~(z.flag /\ ~x.flag) /\ ~(z.flag = x.flag /\ z.val > x.val)
  BY <1>1 DEF PassItem
<1>3. \/ x = y
      \/ x.at < y.at
      \/ x.at = y.at /\ ~(x.flag /\ ~y.flag) /\ ~(x.flag = y.flag /\ x.val > y.val)
  BY <1>1 DEF PassItem
<1>4. \/ z = y
      \/ z.at < y.at
      \/ z.at = y.at /\ ~(z.flag /\ ~y.flag) /\ ~(z.flag = y.flag /\ z.val > y.val)
  BY <1>1, <1>2, <1>3
<1>5. QED BY <1>1, <1>4 DEF PassItem

(* The Cryptobox keeps a removal.                                          *)
LEMMA BoxIs ==
  ASSUME NEW x \in Item, NEW y \in Item
  PROVE  /\ Made(BoxItem(x, y), x, y)
         /\ BoxItem(x, y).flag <=> x.flag \/ y.flag
<1>1. /\ x.at \in 0 .. MaxEdits /\ y.at \in 0 .. MaxEdits /\ y.val \in Vals \cup {0}
      /\ x.flag \in BOOLEAN /\ y.flag \in BOOLEAN
  BY ItemIs
<1>2. CASE x.flag \/ y.flag
  <2> DEFINE t == IF y.at # 0 THEN y.at ELSE x.at
             z == [y EXCEPT !.flag = TRUE, !.at = t]
  <2>1. t \in 0 .. MaxEdits /\ (t = x.at \/ t = y.at) /\ (x = y => t = x.at)
    BY <1>1
  <2>2. BoxItem(x, y) = z
    BY <1>2 DEF BoxItem
  <2> HIDE DEF t
  <2>3. z = [val |-> y.val, at |-> t, flag |-> TRUE]
    BY ItemAgain
  <2> HIDE DEF z
  <2>4. z \in Item /\ z.at = t /\ z.flag /\ z.val = y.val
    <3>1. TRUE \in BOOLEAN
      OBVIOUS
    <3>2. z \in Item
      BY <1>1, <2>1, <2>3, <3>1, ItemOf, Zenon
    <3>3. QED BY <2>3, <3>2
  <2>5. x = y => z = x
    <3>1. x = y => x.flag = TRUE
      BY <1>1, <1>2
    <3>2. QED BY <2>1, <2>3, <2>4, <3>1, ItemIs
  <2>6. QED BY <1>2, <2>1, <2>2, <2>4, <2>5 DEF Made
<1>3. CASE ~(x.flag \/ y.flag)
  BY <1>3 DEF BoxItem, Made
<1>4. QED BY <1>2, <1>3

(* The Key Chain keeps what either knows.                                  *)
LEMMA ChainIs ==
  ASSUME NEW x \in Item, NEW y \in Item
  PROVE  Made(ChainItem(x, y), x, y) /\ (ChainItem(x, y).flag <=> x.flag \/ y.flag)
<1> DEFINE base == IF y.flag /\ ~x.flag THEN y ELSE x
           other == IF base = y THEN x ELSE y
           v == IF base.val # 0 THEN base.val ELSE other.val
           t == LaterOf(x.at, y.at)
           f == x.flag \/ y.flag
<1>1. ChainItem(x, y) = [val |-> v, at |-> t, flag |-> f]
  BY DEF ChainItem
<1>2. /\ x.at \in 0 .. MaxEdits /\ y.at \in 0 .. MaxEdits /\ x.at \in Nat /\ y.at \in Nat
      /\ x.val \in Vals \cup {0} /\ y.val \in Vals \cup {0}
      /\ x.flag \in BOOLEAN /\ y.flag \in BOOLEAN
  BY ItemIs
<1>3. t \in 0 .. MaxEdits /\ (t = x.at \/ t = y.at) /\ (x = y => t = x.at)
  BY <1>2, LaterIs
<1>4. v \in Vals \cup {0} /\ (x = y => v = x.val)
  BY <1>2
<1>5. f \in BOOLEAN /\ (x = y => f = x.flag)
  BY <1>2, Zenon
<1> HIDE DEF v, t, f
<1>6. /\ ChainItem(x, y) \in Item /\ ChainItem(x, y).val = v /\ ChainItem(x, y).at = t
      /\ ChainItem(x, y).flag = f
  BY <1>1, <1>3, <1>4, <1>5, ItemOf
<1>7. x = y => ChainItem(x, y) = x
  BY <1>3, <1>4, <1>5, <1>6, ItemIs
<1>8. f <=> x.flag \/ y.flag
  BY Zenon DEF f
<1>9. QED BY <1>3, <1>6, <1>7, <1>8 DEF Made

-----------------------------------------------------------------------------
(* What a list has of an item when it took another list's in.              *)
Takes(z, x, y) ==
  /\ x = NoItem => z = y
  /\ y = NoItem => z = x
  /\ x # NoItem /\ y # NoItem =>
       /\ Made(z, x, y)
       /\ kind = "guestbook" => z = GuestItem(x, y)
       /\ kind = "passwords" => z = PassItem(x, y)
       /\ kind \in {"cryptobox", "keychain"} => (z.flag <=> x.flag \/ y.flag)

(* Both lists' items, and a date of theirs.                                *)
Merged(j, a, b) ==
  /\ j \in Lists /\ j.at \in {a.at, b.at}
  /\ \/ j.items = a.items /\ j.at = a.at
     \/ j.at >= a.at /\ j.at >= b.at
  /\ \A i \in Ids : Takes(j.items[i], a.items[i], b.items[i])
ByRule(j, a, b, under) ==
  \A i \in Ids : a.items[i] # NoItem /\ b.items[i] # NoItem => j.items[i] = Both(a, b, i, under)

(* An item that both lists have is merged by the rule of its store.        *)
LEMMA BothIs ==
  ASSUME kind \in Kinds, NEW a \in Lists, NEW b \in Lists, NEW i \in Ids, NEW under,
         a.items[i] # NoItem, b.items[i] # NoItem
  PROVE  Takes(Both(a, b, i, under), a.items[i], b.items[i])
<1> DEFINE x == a.items[i]
           y == b.items[i]
<1>1. x \in Item /\ y \in Item
  BY DEF Lists, Items
<1> HIDE DEF x, y
<1>2. Both(a, b, i, under) =
        CASE kind = "guestbook" -> GuestItem(x, y)
          [] kind = "passwords" -> PassItem(x, y)
          [] kind = "cryptobox" -> IF under THEN BoxItem(y, x) ELSE BoxItem(x, y)
          [] kind = "keychain" -> IF under THEN ChainItem(y, x) ELSE ChainItem(x, y)
  BY DEF Both, x, y
<1>3. kind \in {"guestbook", "passwords", "cryptobox", "keychain"}
  BY ValsAssumption
<1>4. \A z : Made(z, y, x) => Made(z, x, y)
  BY DEF Made
<1> DEFINE z == Both(a, b, i, under)
<1> HIDE DEF z
<1>5. CASE kind = "guestbook"
  <2>1. z = GuestItem(x, y)
    BY <1>2, <1>5 DEF z
  <2>2. QED BY <1>1, <1>5, <2>1, GuestIs, ItemIs DEF Takes, z, x, y
<1>6. CASE kind = "passwords"
  <2>1. z = PassItem(x, y)
    BY <1>2, <1>6 DEF z
  <2>2. QED BY <1>1, <1>6, <2>1, PassIs, ItemIs DEF Takes, z, x, y
<1>7. CASE kind = "cryptobox"
  <2>1. z = BoxItem(y, x) \/ z = BoxItem(x, y)
    BY <1>2, <1>7 DEF z
  <2>2. QED BY <1>1, <1>4, <1>7, <2>1, BoxIs, ItemIs DEF Takes, z, x, y
<1>8. CASE kind = "keychain"
  <2>1. z = ChainItem(y, x) \/ z = ChainItem(x, y)
    BY <1>2, <1>8 DEF z
  <2>2. QED BY <1>1, <1>4, <1>8, <2>1, ChainIs, ItemIs DEF Takes, z, x, y
<1>9. QED BY <1>3, <1>5, <1>6, <1>7, <1>8

(* A whole list is taken in item by item.                                  *)
LEMMA JoinedTakes ==
  ASSUME kind \in Kinds, NEW a \in Lists, NEW b \in Lists, NEW under
  PROVE  Merged(JoinAs(a, b, under), a, b) /\ ByRule(JoinAs(a, b, under), a, b, under)
<1> DEFINE taken(i) == IF b.items[i] = NoItem THEN a.items[i]
                       ELSE IF a.items[i] = NoItem THEN b.items[i]
                       ELSE Both(a, b, i, under)
           items == [i \in Ids |-> taken(i)]
           at == IF items = a.items THEN a.at ELSE LaterOf(a.at, b.at)
<1>1. JoinAs(a, b, under) = [at |-> at, items |-> items]
  BY Zenon DEF JoinAs
<1>2. a.at \in 0 .. MaxEdits /\ b.at \in 0 .. MaxEdits /\ a.items \in Items /\ b.items \in Items
  BY DEF Lists
<1>3. ASSUME NEW i \in Ids
      PROVE  /\ taken(i) \in Item \cup {NoItem}
             /\ Takes(taken(i), a.items[i], b.items[i])
  <2>1. a.items[i] \in Item \cup {NoItem} /\ b.items[i] \in Item \cup {NoItem}
    BY <1>2 DEF Items
  <2>2. a.items[i] # NoItem /\ b.items[i] # NoItem => Takes(Both(a, b, i, under), a.items[i], b.items[i])
    BY BothIs
  <2>3. QED BY <2>1, <2>2 DEF Takes, Made
<1>4. items \in Items
  BY <1>3 DEF Items
<1>5. /\ at \in {a.at, b.at} /\ at \in 0 .. MaxEdits
      /\ (items = a.items /\ at = a.at) \/ (at >= a.at /\ at >= b.at)
  BY <1>2, LaterIs
<1> HIDE DEF at
<1>6. \A i \in Ids : items[i] = taken(i)
  OBVIOUS
<1>7. \A i \in Ids : a.items[i] # NoItem /\ b.items[i] # NoItem => items[i] = Both(a, b, i, under)
  BY <1>6
<1> HIDE DEF items, taken
<1>8. JoinAs(a, b, under).at = at /\ JoinAs(a, b, under).items = items
  BY <1>1
<1>9. JoinAs(a, b, under) \in Lists
  <2> DEFINE T == 0 .. MaxEdits
  <2>1. at \in T
    BY <1>5
  <2> HIDE DEF T
  <2>2. JoinAs(a, b, under) \in [at : T, items : Items]
    BY <1>1, <1>4, <2>1
  <2>3. QED BY <2>2 DEF T, Lists
<1>10. QED BY <1>3, <1>5, <1>6, <1>7, <1>8, <1>9 DEF Merged, ByRule

(* The parts of a list are a list of its date.                             *)
LEMMA PartsAre ==
  ASSUME NEW a \in Lists, NEW b \in Lists
  PROVE  /\ Parts(a, b) \in Lists /\ Parts(a, b).at = b.at
         /\ \A i \in Ids : Parts(a, b).items[i] =
                             IF a.items[i] # b.items[i] THEN b.items[i] ELSE NoItem
<1> DEFINE items == [i \in Ids |-> IF a.items[i] # b.items[i] THEN b.items[i] ELSE NoItem]
<1>1. Parts(a, b) = [at |-> b.at, items |-> items]
  BY Zenon DEF Parts
<1>2. b.at \in 0 .. MaxEdits /\ b.items \in Items
  BY DEF Lists
<1>3. items \in Items
  BY <1>2 DEF Items
<1>4. \A i \in Ids : items[i] = IF a.items[i] # b.items[i] THEN b.items[i] ELSE NoItem
  OBVIOUS
<1> HIDE DEF items
<1>5. Parts(a, b) \in Lists
  <2> DEFINE T == 0 .. MaxEdits
  <2>1. b.at \in T
    BY <1>2
  <2> HIDE DEF T
  <2>2. Parts(a, b) \in [at : T, items : Items]
    BY <1>1, <1>3, <2>1
  <2>3. QED BY <2>2 DEF T, Lists
<1>6. QED BY <1>1, <1>4, <1>5

(* Parts are taken in as the whole list would be, item by item.            *)
LEMMA PartsTake ==
  ASSUME kind \in Kinds, NEW a \in Lists, NEW b \in Lists, NEW under
  PROVE  Merged(JoinAs(a, Parts(a, b), under), a, b)
<1> DEFINE p == Parts(a, b)
           j == JoinAs(a, p, under)
<1>1. /\ p \in Lists /\ p.at = b.at
      /\ \A i \in Ids : p.items[i] = IF a.items[i] # b.items[i] THEN b.items[i] ELSE NoItem
  BY PartsAre
<1> HIDE DEF p
<1> HIDE DEF j
<1>2. Merged(j, a, p)
  BY <1>1, JoinedTakes, Zenon DEF j
<1>3. ASSUME NEW i \in Ids PROVE Takes(j.items[i], a.items[i], b.items[i])
  <2>1. CASE a.items[i] # b.items[i]
    BY <1>1, <1>2, <2>1 DEF Merged
  <2>2. CASE a.items[i] = b.items[i]
    <3>1. j.items[i] = a.items[i]
      BY <1>1, <1>2, <2>2 DEF Merged, Takes
    <3>2. a.items[i] \in Item \cup {NoItem}
      BY DEF Lists, Items
    <3>3. a.items[i] # NoItem => /\ GuestItem(a.items[i], a.items[i]) = a.items[i]
                                 /\ PassItem(a.items[i], a.items[i]) = a.items[i]
      BY DEF GuestItem, PassItem
    <3>4. QED BY <2>2, <3>1, <3>2, <3>3 DEF Takes, Made
  <2>3. QED BY <2>1, <2>2
<1>4. QED BY <1>1, <1>2, <1>3 DEF Merged, j, p

-----------------------------------------------------------------------------
(* In what an exchange agrees.                                             *)

(* Lists that are not ordered by their text.                               *)
Comparable(a, b) == kind \in {"guestbook", "passwords"} \/ a.at # b.at

(* The least of some numbers.                                              *)
LEMMA LeastOf ==
  ASSUME NEW T, T \subseteq Nat, T # {}
  PROVE  \E i \in T : \A j \in T : i <= j
<1> DEFINE R == {ss \in Nat \X Nat : ss[1] < ss[2]}
<1>1. IsWellFoundedOn(R, Nat)
  BY NatLessThanWellFounded, Zenon DEF OpToRel
<1> HIDE DEF R
<1>2. PICK i \in T : \A j \in T : ~(<<j, i>> \in R)
  BY <1>1, WFMin, Zenon
<1>3. ASSUME NEW j \in T PROVE i <= j
  <2>1. i \in Nat /\ j \in Nat
    OBVIOUS
  <2>2. <<j, i>> \notin {ss \in Nat \X Nat : ss[1] < ss[2]}
    BY <1>2 DEF R
  <2>3. QED BY <2>1, <2>2
<1>4. QED BY <1>3

(* Two items that differ are below one another in one way.                 *)
LEMMA ItemBelowIs ==
  ASSUME NEW x \in Item \cup {NoItem}, NEW y \in Item \cup {NoItem}, x # y
  PROVE  ItemBelow(x, y) <=> ~ItemBelow(y, x)
<1>1. CASE x = NoItem \/ y = NoItem
  BY <1>1 DEF ItemBelow
<1>2. CASE x # NoItem /\ y # NoItem
  <2>1. x \in Item /\ y \in Item
    BY <1>2
  <2>2. /\ x.val \in Nat /\ x.at \in Nat /\ y.val \in Nat /\ y.at \in Nat
        /\ x.flag \in BOOLEAN /\ y.flag \in BOOLEAN
        /\ ~(x.val = y.val /\ x.at = y.at /\ x.flag = y.flag)
    BY <2>1, ItemIs
  <2>3. CASE x.val # y.val \/ x.at # y.at
    BY <1>2, <2>2, <2>3 DEF ItemBelow
  <2>4. CASE x.val = y.val /\ x.at = y.at
    BY <1>2, <2>2, <2>4 DEF ItemBelow
  <2>5. QED BY <2>3, <2>4
<1>3. QED BY <1>1, <1>2

(* So are the texts of two lists that differ: the first item in which they *)
(* do decides.                                                             *)
LEMMA TextBelowIs ==
  ASSUME NEW a \in Items, NEW b \in Items, a # b
  PROVE  TextBelow(a, b) <=> ~TextBelow(b, a)
<1> DEFINE T == {i \in Ids : a[i] # b[i]}
<1>1. T \subseteq Nat /\ T # {}
  <2>1. Ids \subseteq Nat
    BY ValsAssumption
  <2>2. T # {}
    BY DEF Items
  <2>3. QED BY <2>1, <2>2
<1>2. PICK m \in T : \A j \in T : m <= j
  BY <1>1, LeastOf, Zenon
<1>3. m \in Ids /\ m \in Nat /\ a[m] # b[m]
  BY <1>1
<1>4. \A j \in Ids : j < m => a[j] = b[j]
  <2>1. SUFFICES ASSUME NEW j \in Ids, j < m, a[j] # b[j] PROVE FALSE
    OBVIOUS
  <2>2. j \in Nat /\ m <= j
    BY <1>1, <1>2, <2>1
  <2>3. QED BY <1>3, <2>1, <2>2
<1>5. a[m] \in Item \cup {NoItem} /\ b[m] \in Item \cup {NoItem}
  BY <1>3 DEF Items
<1>6. ItemBelow(a[m], b[m]) <=> ~ItemBelow(b[m], a[m])
  BY <1>3, <1>5, ItemBelowIs, Zenon
<1>7. ASSUME NEW x, NEW y, (x = a /\ y = b) \/ (x = b /\ y = a)
      PROVE  TextBelow(x, y) <=> ItemBelow(x[m], y[m])
  <2>1. \A j \in Ids : j < m => x[j] = y[j]
    BY <1>4, <1>7
  <2>2. x[m] # y[m]
    BY <1>3, <1>7
  <2>3. ASSUME ItemBelow(x[m], y[m]) PROVE TextBelow(x, y)
    BY <1>3, <2>1, <2>3, Zenon DEF TextBelow
  <2>4. ASSUME TextBelow(x, y) PROVE ItemBelow(x[m], y[m])
    <3>1. PICK i \in Ids : ItemBelow(x[i], y[i]) /\ \A j \in Ids : j < i => x[j] = y[j]
      BY <2>4, Zenon DEF TextBelow
    <3>2. i \in Nat
      BY <3>1, ValsAssumption
    <3>3. CASE i < m
      <4>1. x[i] = y[i]
        BY <2>1, <3>1, <3>3
      <4>2. ~ItemBelow(x[i], x[i])
        <5>1. x[i] \in Item \cup {NoItem}
          BY <1>7, <3>1 DEF Items
        <5>2. x[i] # NoItem => x[i].val \in Nat /\ x[i].at \in Nat
          BY <5>1, ItemIs
        <5>3. QED BY <5>2 DEF ItemBelow
      <4>3. QED BY <3>1, <4>1, <4>2
    <3>4. CASE m < i
      BY <1>3, <2>2, <3>1, <3>4
    <3>5. CASE i = m
      BY <3>1, <3>5
    <3>6. QED BY <1>3, <3>2, <3>3, <3>4, <3>5
  <2>5. QED BY <2>3, <2>4
<1>8. TextBelow(a, b) <=> ItemBelow(a[m], b[m])
  BY <1>7, Zenon
<1>9. TextBelow(b, a) <=> ItemBelow(b[m], a[m])
  BY <1>7, Zenon
<1>10. QED BY <1>6, <1>8, <1>9, Zenon

(* Of two lists that differ one is the older.                              *)
LEMMA OlderIs ==
  ASSUME NEW a \in Lists, NEW b \in Lists, a.items # b.items
  PROVE  Older(a, b) <=> ~Older(b, a)
<1>1. a.at \in Nat /\ b.at \in Nat /\ a.items \in Items /\ b.items \in Items
  BY DEF Lists
<1>2. TextBelow(a.items, b.items) <=> ~TextBelow(b.items, a.items)
  BY <1>1, TextBelowIs, Zenon
<1>3. QED BY <1>1, <1>2 DEF Older

(* The rule of each store, with the lists in their order.                  *)
RuleIs(z, x, y, under) ==
  /\ kind = "guestbook" => z = GuestItem(x, y)
  /\ kind = "passwords" => z = PassItem(x, y)
  /\ kind = "cryptobox" => z = IF under THEN BoxItem(y, x) ELSE BoxItem(x, y)
  /\ kind = "keychain" => z = IF under THEN ChainItem(y, x) ELSE ChainItem(x, y)
  /\ kind \in {"guestbook", "passwords", "cryptobox", "keychain"}
LEMMA BothByKind ==
  ASSUME kind \in Kinds, NEW a, NEW b, NEW i, NEW under
  PROVE  RuleIs(Both(a, b, i, under), a.items[i], b.items[i], under)
<1>1. CASE kind = "guestbook"
  BY <1>1 DEF Both, RuleIs
<1>2. CASE kind = "passwords"
  BY <1>2 DEF Both, RuleIs
<1>3. CASE kind = "cryptobox"
  BY <1>3 DEF Both, RuleIs
<1>4. CASE kind = "keychain"
  BY <1>4 DEF Both, RuleIs
<1>5. kind \in {"guestbook", "passwords", "cryptobox", "keychain"}
  BY ValsAssumption
<1>6. QED BY <1>1, <1>2, <1>3, <1>4, <1>5

(* The parts of a list are merged as the whole of it would be.             *)
LEMMA PartsAsWhole ==
  ASSUME kind \in Kinds, NEW a \in Lists, NEW b \in Lists, Comparable(a, b), NEW i \in Ids,
         NEW tie
  PROVE  JoinAs(a, Parts(a, b), PartsUnder(a, Parts(a, b), tie)).items[i] = Joined(a, b).items[i]
<1> DEFINE p == Parts(a, b)
           under == PartsUnder(a, p, tie)
           older == Older(b, a)
           u == JoinAs(a, p, under)
           w == JoinAs(a, b, older)
           x == a.items[i]
           y == b.items[i]
<1>1. /\ p \in Lists /\ p.at = b.at /\ p.items[i] = IF x # y THEN y ELSE NoItem
  BY PartsAre
<1>2. a.at \in Nat /\ b.at \in Nat
  BY DEF Lists
<1>3. a.at # b.at => (under <=> older)
  BY <1>1, <1>2 DEF PartsUnder, Older
<1> SUFFICES u.items[i] = w.items[i]
  BY DEF Joined
<1> HIDE DEF p, under, older, u, w
<1>4. Merged(u, a, p) /\ ByRule(u, a, p, under) /\ Merged(w, a, b) /\ ByRule(w, a, b, older)
  BY <1>1, JoinedTakes, Zenon DEF u, w
<1>5. CASE x = NoItem \/ y = NoItem \/ x = y
  <2>1. Takes(u.items[i], x, p.items[i]) /\ Takes(w.items[i], x, y)
    BY <1>4 DEF Merged
  <2>2. QED BY <1>1, <1>5, <2>1 DEF Takes, Made
<1>6. CASE x # NoItem /\ y # NoItem /\ x # y
  <2>1. p.items[i] = y
    BY <1>1, <1>6
  <2>2. u.items[i] = Both(a, p, i, under) /\ w.items[i] = Both(a, b, i, older)
    BY <1>4, <1>6, <2>1 DEF ByRule
  <2>3. RuleIs(u.items[i], x, y, under) /\ RuleIs(w.items[i], x, y, older)
    BY <2>1, <2>2, BothByKind, Zenon
  <2> HIDE DEF x, y
  <2>4. CASE kind \in {"guestbook", "passwords"}
    BY <2>3, <2>4 DEF RuleIs
  <2>5. CASE a.at # b.at
    BY <1>3, <2>3, <2>5 DEF RuleIs
  <2>6. QED BY <2>4, <2>5 DEF Comparable
<1>7. QED BY <1>5, <1>6

(* Whoever takes the other's whole list in, both have the same.  In the    *)
(* Guest Book nothing is archived.                                         *)
LEMMA JoinedAlike ==
  ASSUME kind \in Kinds, NEW a \in Lists, NEW b \in Lists, NEW i \in Ids,
         kind = "guestbook" /\ a.items[i] # NoItem /\ b.items[i] # NoItem =>
           a.items[i].flag = b.items[i].flag
  PROVE  Joined(a, b).items[i] = Joined(b, a).items[i]
<1> DEFINE first == Older(b, a)
           second == Older(a, b)
           u == JoinAs(a, b, first)
           w == JoinAs(b, a, second)
           x == a.items[i]
           y == b.items[i]
<1>1. x \in Item \cup {NoItem} /\ y \in Item \cup {NoItem}
  BY DEF Lists, Items
<1>2. x # y => (first <=> ~second)
  BY OlderIs
<1> SUFFICES u.items[i] = w.items[i]
  BY DEF Joined
<1> HIDE DEF first, second, u, w
<1>3. Merged(u, a, b) /\ ByRule(u, a, b, first) /\ Merged(w, b, a) /\ ByRule(w, b, a, second)
  BY JoinedTakes, Zenon DEF u, w
<1> HIDE DEF x, y
<1>4. Takes(u.items[i], x, y) /\ Takes(w.items[i], y, x)
  BY <1>3 DEF Merged, x, y
<1>5. CASE x = NoItem \/ y = NoItem \/ x = y
  BY <1>5, <1>4 DEF Takes, Made
<1>6. CASE x # NoItem /\ y # NoItem /\ x # y
  <2>1. CASE kind = "guestbook"
    <3>1. x \in Item /\ y \in Item /\ x.flag = y.flag
      BY <1>1, <1>6, <2>1 DEF x, y
    <3>2. GuestItem(x, y) = GuestItem(y, x)
      BY <3>1, GuestIs, Zenon
    <3>3. QED BY <1>6, <1>4, <2>1, <3>2 DEF Takes
  <2>2. CASE kind = "passwords"
    <3>1. x \in Item /\ y \in Item
      BY <1>1, <1>6
    <3>2. PassItem(x, y) = PassItem(y, x)
      BY <3>1, PassIs, Zenon
    <3>3. QED BY <1>6, <1>4, <2>2, <3>2 DEF Takes
  <2>3. CASE kind \notin {"guestbook", "passwords"}
    <3>1. u.items[i] = Both(a, b, i, first) /\ w.items[i] = Both(b, a, i, second)
      BY <1>3, <1>6 DEF ByRule, x, y
    <3>2. RuleIs(u.items[i], x, y, first) /\ RuleIs(w.items[i], y, x, second)
      BY <3>1, BothByKind, Zenon DEF x, y
    <3>3. QED BY <1>2, <1>6, <2>3, <3>2 DEF RuleIs
  <2>4. QED BY <2>1, <2>2, <2>3
<1>7. QED BY <1>5, <1>6

(* However two lists are merged, both ways, an item is in both or in       *)
(* neither, and removed (or named) in both or in neither.                  *)
MarkedAlike(u, w) == (u = NoItem <=> w = NoItem) /\ (u # NoItem => u.flag = w.flag)
LEMMA FlagsAlike ==
  ASSUME kind \in Kinds, NEW x \in Item \cup {NoItem}, NEW y \in Item \cup {NoItem}, NEW u, NEW w,
         Takes(u, x, y), Takes(w, y, x),
         kind = "guestbook" /\ x # NoItem /\ y # NoItem => x.flag = y.flag
  PROVE  MarkedAlike(u, w)
<1> SUFFICES (u = NoItem <=> w = NoItem) /\ (u # NoItem => u.flag = w.flag)
  BY DEF MarkedAlike
<1>1. kind \in {"guestbook", "passwords", "cryptobox", "keychain"}
  BY ValsAssumption
<1>2. CASE x = NoItem \/ y = NoItem
  BY <1>2 DEF Takes
<1>3. CASE x # NoItem /\ y # NoItem
  <2>1. u \in Item /\ w \in Item /\ x \in Item /\ y \in Item
    BY <1>3 DEF Takes, Made
  <2>2. u # NoItem /\ w # NoItem /\ u.flag \in BOOLEAN /\ w.flag \in BOOLEAN
    BY <2>1, ItemIs
  <2>3. CASE kind = "guestbook"
    <3>1. GuestItem(x, y) = GuestItem(y, x)
      BY <1>3, <2>1, <2>3, GuestIs, Zenon
    <3>2. QED BY <1>3, <2>2, <2>3, <3>1 DEF Takes
  <2>4. CASE kind = "passwords"
    <3>1. PassItem(x, y) = PassItem(y, x)
      BY <2>1, PassIs, Zenon
    <3>2. QED BY <1>3, <2>2, <2>4, <3>1 DEF Takes
  <2>5. CASE kind \in {"cryptobox", "keychain"}
    <3>1. (u.flag <=> x.flag \/ y.flag) /\ (w.flag <=> y.flag \/ x.flag)
      BY <1>3, <2>5 DEF Takes
    <3>2. u.flag <=> w.flag
      BY <3>1, Zenon
    <3>3. QED BY <2>2, <3>2
  <2>6. QED BY <1>1, <2>3, <2>4, <2>5
<1>4. QED BY <1>2, <1>3

-----------------------------------------------------------------------------
(* What lists and devices have at any time.                                *)
HasItem(d, i) == list[d].items[i] # NoItem

(* Nothing is dated later than the edits there were.                       *)
Dated ==
  /\ \A d \in Sides : /\ list[d].at <= edits /\ read[d] <= edits
                      /\ \A i \in Ids : HasItem(d, i) => list[d].items[i].at <= edits
  /\ \A i \in Ids : latest[i] # NoItem => latest[i].at <= edits

(* An item that is in a list was edited.                                   *)
Known == \A d \in Sides, i \in Ids : HasItem(d, i) => latest[i] # NoItem

(* The last edit of a contact is with a device whose clock has reached it, *)
(* and nobody has a later one.                                             *)
ContactKept(i) ==
  latest[i] # NoItem =>
    /\ ~latest[i].flag
    /\ \E d \in Sides : list[d].items[i] = latest[i] /\ latest[i].at <= read[d]
    /\ \A d \in Sides : HasItem(d, i) => /\ ~list[d].items[i].flag
                                         /\ GuestItem(latest[i], list[d].items[i]) = latest[i]

(* One call writes at a time, and a record of the Passwords is no newer    *)
(* than what its bucket saw.                                               *)
OneCall ==
  /\ \A d \in Sides : putting[d] = {} \/ removing[d] = {}
  /\ \A d \in Sides, i \in Ids : HasItem(d, i) => list[d].items[i].at <= list[d].at

ListInv ==
  /\ ListTypeOK /\ Dated /\ Known
  /\ kind = "guestbook" => \A i \in Ids : ContactKept(i)
  /\ kind = "passwords" => OneCall /\ EntriesListed

(* Nothing is in any list at first.                                        *)
LEMMA ListsAtFirst == ListInit => ListInv
<1> SUFFICES ASSUME ListInit PROVE ListInv
  OBVIOUS
<1> DEFINE none == [i \in Ids |-> NoItem]
           T == 0 .. MaxEdits
<1>1. 0 \in T /\ none \in Items
  BY ValsAssumption DEF Items
<1>2. /\ kind \in Kinds /\ list = [d \in Sides |-> [at |-> 0, items |-> none]]
      /\ index = [d \in Sides |-> {}] /\ putting = [d \in Sides |-> {}]
      /\ removing = [d \in Sides |-> {}] /\ unlisted = {} /\ edits = 0 /\ read = [d \in Sides |-> 0] /\ latest = none
  BY Zenon DEF ListInit
<1>3. \A i \in Ids : none[i] = NoItem
  OBVIOUS
<1> HIDE DEF none, T
<1>4. /\ list \in [Sides -> [at : T, items : Items]] /\ read \in [Sides -> T] /\ edits \in T
      /\ index \in [Sides -> SUBSET Ids] /\ putting \in [Sides -> SUBSET Ids]
      /\ removing \in [Sides -> SUBSET Ids] /\ unlisted \subseteq Ids
  BY <1>1, <1>2
<1>5. ListTypeOK
  BY <1>1, <1>2, <1>4 DEF ListTypeOK, T
<1>6. \A d \in Sides : list[d].at = 0 /\ read[d] = 0 /\ \A i \in Ids : ~HasItem(d, i)
  BY <1>2, <1>3 DEF HasItem
<1>7. \A i \in Ids : latest[i] = NoItem
  BY <1>2, <1>3
<1>8. OneCall
  BY <1>2, <1>6 DEF OneCall
<1>9. EntriesListed
  BY <1>6 DEF EntriesListed, Held, HasItem
<1>10. QED BY <1>2, <1>5, <1>6, <1>7, <1>8, <1>9 DEF ListInv, Dated, Known, ContactKept

(* A device's list, its items, and the last edits.                         *)
LEMMA ListIs ==
  ASSUME ListTypeOK, NEW d \in Sides
  PROVE  /\ list[d] \in Lists /\ list[d].at \in Nat /\ list[d].items \in Items
         /\ read[d] \in Nat /\ edits \in Nat /\ index[d] \subseteq Ids
         /\ putting[d] \subseteq Ids /\ removing[d] \subseteq Ids
<1>1. list[d] \in Lists /\ read[d] \in 0 .. MaxEdits /\ edits \in 0 .. MaxEdits
      /\ index[d] \subseteq Ids /\ putting[d] \subseteq Ids /\ removing[d] \subseteq Ids
  BY DEF ListTypeOK, Lists
<1>2. list[d].at \in 0 .. MaxEdits /\ list[d].items \in Items
  BY <1>1 DEF Lists
<1>3. QED BY <1>1, <1>2

(* What it has of an item.                                                 *)
LEMMA ItemHeld ==
  ASSUME ListTypeOK, NEW d \in Sides, NEW i \in Ids
  PROVE  /\ HasItem(d, i) => list[d].items[i] \in Item
         /\ latest[i] # NoItem => latest[i] \in Item
<1>1. list[d].items \in Items
  BY ListIs, Zenon
<1>2. latest \in Items
  BY DEF ListTypeOK
<1>3. QED BY <1>1, <1>2 DEF HasItem, Items

(* The date of an edit.                                                    *)
LEMMA ClockIs ==
  ASSUME ListTypeOK, Dated, edits < MaxEdits, NEW d \in Sides, NEW t \in Clocks(d)
  PROVE  /\ t \in 0 .. MaxEdits /\ t > read[d] /\ edits <= t /\ t <= edits + 1
         /\ Stamped(d, t) \in 0 .. MaxEdits /\ Stamped(d, t) <= edits + 1
         /\ edits + 1 \in 0 .. MaxEdits
<1>1. list[d].at \in Nat /\ list[d].at <= edits /\ edits \in Nat /\ read[d] \in Nat
  BY ListIs DEF Dated
<1>2. t \in {edits, edits + 1} /\ t > read[d]
  BY DEF Clocks
<1>3. MaxEdits \in Nat
  BY ValsAssumption
<1> DEFINE a == list[d].at
<1>4. a \in Nat /\ a <= edits /\ Stamped(d, t) = IF t > a THEN t ELSE a + 1
  BY <1>1 DEF Stamped
<1> HIDE DEF a
<1>5. QED BY <1>1, <1>2, <1>3, <1>4

(* What each edit has in common, and what it does to its store.            *)
EditOf(d, t, i, item) ==
  /\ t \in Clocks(d) /\ i \in Ids /\ item \in Item /\ item.at <= edits + 1
  /\ Put(d, t, i, item)
  /\ kind = "guestbook" => item.at = t /\ ~item.flag
  /\ kind = "cryptobox" /\ HasItem(d, i) /\ list[d].items[i].flag => item.flag
  /\ index' = index /\ unlisted' = unlisted
  /\ kind # "passwords" => putting' = putting /\ removing' = removing
  /\ kind = "passwords" =>
       /\ item.at = Stamped(d, t) /\ putting[d] = {} /\ removing[d] = {}
       /\ IF item.flag THEN putting' = putting /\ removing' = [removing EXCEPT ![d] = {i}]
          ELSE putting' = [putting EXCEPT ![d] = {i}] /\ removing' = removing

(* An item is moved to another thread.                                     *)
LEMMA ItemMoved ==
  ASSUME NEW y \in Item, NEW v \in Vals
  PROVE  /\ [y EXCEPT !.val = v] \in Item
         /\ [y EXCEPT !.val = v].at = y.at /\ [y EXCEPT !.val = v].flag = y.flag
<1> DEFINE V == Vals \cup {0}
           T == 0 .. MaxEdits
<1>1. y \in [val : V, at : T, flag : BOOLEAN] /\ v \in V
  BY DEF Item
<1> HIDE DEF V, T
<1>2. /\ [y EXCEPT !.val = v] \in [val : V, at : T, flag : BOOLEAN]
      /\ [y EXCEPT !.val = v].at = y.at /\ [y EXCEPT !.val = v].flag = y.flag
  BY <1>1
<1>3. QED BY <1>2 DEF V, T, Item

(* Every edit of a device puts one item into its list.                     *)
LEMMA EditIs ==
  ASSUME ListInv, NEW d \in Sides, Edit(d)
  PROVE  \E t, i, item : EditOf(d, t, i, item)
<1> DEFINE Goal == \E t, i, item : EditOf(d, t, i, item)
<1>1. ListTypeOK /\ Dated /\ Known
  BY DEF ListInv
<1>2. ASSUME NEW t \in Clocks(d), edits < MaxEdits
      PROVE  /\ t \in 0 .. MaxEdits /\ t <= edits + 1
             /\ Stamped(d, t) \in 0 .. MaxEdits /\ Stamped(d, t) <= edits + 1
             /\ edits \in Nat /\ 0 \in 0 .. MaxEdits
  BY <1>1, <1>2, ClockIs, ListIs, ValsAssumption
<1>3. ASSUME NEW i \in Held(list[d].items)
      PROVE  /\ i \in Ids /\ HasItem(d, i) /\ list[d].items[i] \in Item
             /\ list[d].items[i].at <= edits
  <2>1. i \in Ids /\ HasItem(d, i)
    BY <1>3 DEF Held, HasItem
  <2>2. list[d].items[i] \in Item
    BY <1>1, <2>1, ItemHeld
  <2>3. list[d].items[i].at <= edits
    BY <1>1, <2>1 DEF Dated
  <2>4. QED BY <2>1, <2>2, <2>3
<1>4. TRUE \in BOOLEAN /\ FALSE \in BOOLEAN
  OBVIOUS
<1> HIDE DEF Goal
<1>5. ASSUME EditContact(d) PROVE Goal
  <2>1. PICK t \in Clocks(d), i \in Ids, v \in Vals :
          /\ kind = "guestbook" /\ Put(d, t, i, [val |-> v, at |-> t, flag |-> FALSE])
          /\ UNCHANGED indexVars
    BY <1>5, Zenon DEF EditContact
  <2> DEFINE item == [val |-> v, at |-> t, flag |-> FALSE]
  <2>2. edits < MaxEdits
    BY <2>1 DEF Put
  <2>3. item \in Item
    <3>1. v \in Vals \cup {0} /\ t \in 0 .. MaxEdits
      BY <1>2, <2>2
    <3>2. QED BY <1>4, <3>1, ItemOf, Zenon
  <2>4. item.at = t /\ item.flag = FALSE /\ Put(d, t, i, item)
    BY <2>1
  <2> HIDE DEF item
  <2>5. EditOf(d, t, i, item)
    BY <1>2, <2>1, <2>2, <2>3, <2>4 DEF EditOf, indexVars
  <2>6. QED BY <2>5, Zenon DEF Goal
<1>6. ASSUME AddMessage(d) PROVE Goal
  <2>1. PICK t \in Clocks(d), i \in Ids, v \in Vals :
          /\ kind = "cryptobox" /\ latest[i] = NoItem
          /\ Put(d, t, i, [val |-> v, at |-> 0, flag |-> FALSE])
          /\ UNCHANGED indexVars
    BY <1>6, Zenon DEF AddMessage
  <2> DEFINE item == [val |-> v, at |-> 0, flag |-> FALSE]
  <2>2. edits < MaxEdits
    BY <2>1 DEF Put
  <2>3. item \in Item
    <3>1. v \in Vals \cup {0} /\ 0 \in 0 .. MaxEdits
      BY <1>2, <2>2
    <3>2. QED BY <1>4, <3>1, ItemOf, Zenon
  <2>4. item.at = 0 /\ Put(d, t, i, item)
    BY <2>1
  <2> HIDE DEF item
  <2>5. ~HasItem(d, i)
    BY <1>1, <2>1 DEF Known
  <2>6. 0 <= edits + 1
    BY <1>2, <2>2
  <2>7. EditOf(d, t, i, item)
    BY <2>1, <2>3, <2>4, <2>5, <2>6 DEF EditOf, indexVars
  <2>8. QED BY <2>7, Zenon DEF Goal
<1>7. ASSUME MoveThread(d) PROVE Goal
  <2>1. PICK t \in Clocks(d), i \in Held(list[d].items), v \in Vals :
          /\ kind = "cryptobox" /\ Put(d, t, i, [list[d].items[i] EXCEPT !.val = v])
          /\ UNCHANGED indexVars
    BY <1>7, Zenon DEF MoveThread
  <2> DEFINE y == list[d].items[i]
             item == [y EXCEPT !.val = v]
  <2>2. edits < MaxEdits
    BY <2>1 DEF Put
  <2>3. /\ item \in Item /\ item.at = y.at /\ item.flag = y.flag /\ Put(d, t, i, item)
        /\ y.at <= edits /\ y.at \in Nat
    BY <1>3, <2>1, ItemMoved, ItemIs
  <2> HIDE DEF item
  <2>4. item.at <= edits + 1
    BY <1>2, <2>2, <2>3
  <2>5. EditOf(d, t, i, item)
    BY <1>3, <2>1, <2>3, <2>4 DEF EditOf, indexVars
  <2>6. QED BY <2>5, Zenon DEF Goal
<1>8. ASSUME RemoveMessage(d) PROVE Goal
  <2>1. PICK t \in Clocks(d), i \in Held(list[d].items) :
          /\ kind = "cryptobox"
          /\ Put(d, t, i, [list[d].items[i] EXCEPT !.flag = TRUE, !.at = t])
          /\ UNCHANGED indexVars
    BY <1>8, Zenon DEF RemoveMessage
  <2> DEFINE y == list[d].items[i]
             item == [val |-> y.val, at |-> t, flag |-> TRUE]
  <2>2. edits < MaxEdits
    BY <2>1 DEF Put
  <2>3. item \in Item
    <3>1. y.val \in Vals \cup {0} /\ t \in 0 .. MaxEdits
      BY <1>2, <1>3, <2>2, ItemIs
    <3>2. QED BY <1>4, <3>1, ItemOf, Zenon
  <2>4. Put(d, t, i, item)
    <3>1. [y EXCEPT !.flag = TRUE, !.at = t] = item
      BY <1>3, ItemAgain
    <3>2. QED BY <2>1, <3>1, Zenon
  <2>5. item.at = t /\ item.flag = TRUE
    OBVIOUS
  <2> HIDE DEF item
  <2>6. EditOf(d, t, i, item)
    BY <1>2, <1>3, <2>1, <2>2, <2>3, <2>4, <2>5 DEF EditOf, indexVars
  <2>7. QED BY <2>6, Zenon DEF Goal
<1>9. ASSUME RecordKey(d) PROVE Goal
  <2> DEFINE old(i) == list[d].items[i]
             v(i, w) == IF w = 0 /\ old(i) # NoItem THEN old(i).val ELSE w
             f(i, named) == named \/ (old(i) # NoItem /\ old(i).flag)
             Renewed(i, t, named) ==
               {x \in Vals : named /\ (latest[i] = NoItem \/ (latest[i].at < t /\ latest[i].val # x))}
  <2>1. PICK t \in Clocks(d), i \in Ids, named \in BOOLEAN :
          \E w \in {0} \cup Renewed(i, t, named) :
            /\ kind = "keychain"
            /\ Put(d, t, i, [val |-> v(i, w), at |-> t, flag |-> f(i, named)])
            /\ UNCHANGED indexVars
    BY <1>9, Zenon DEF RecordKey
  <2>2. PICK w \in {0} \cup Renewed(i, t, named) :
            /\ kind = "keychain"
            /\ Put(d, t, i, [val |-> v(i, w), at |-> t, flag |-> f(i, named)])
            /\ UNCHANGED indexVars
    BY <2>1, Zenon
  <2>3. w \in {0} \cup Vals
    <3>1. Renewed(i, t, named) \subseteq Vals
      OBVIOUS
    <3>2. QED BY <2>2, <3>1
  <2> HIDE DEF Renewed
  <2> DEFINE item == [val |-> v(i, w), at |-> t, flag |-> f(i, named)]
  <2>4. edits < MaxEdits
    BY <2>2 DEF Put
  <2>5. item \in Item
    <3>1. v(i, w) \in Vals \cup {0}
      <4>1. CASE old(i) = NoItem
        BY <2>3, <4>1
      <4>2. CASE old(i) # NoItem
        <5>1. old(i) \in Item
          BY <1>1, <4>2, ItemHeld DEF HasItem
        <5>2. old(i).val \in Vals \cup {0}
          BY <5>1, ItemIs
        <5>3. QED BY <2>3, <4>2, <5>2
      <4>3. QED BY <4>1, <4>2
    <3>2. t \in 0 .. MaxEdits
      BY <1>2, <2>4
    <3>3. f(i, named) \in BOOLEAN
      BY Zenon
    <3> HIDE DEF v, f
    <3>4. QED BY <3>1, <3>2, <3>3, ItemOf, Zenon
  <2>6. item.at = t /\ Put(d, t, i, item)
    BY <2>2
  <2> HIDE DEF item
  <2>7. EditOf(d, t, i, item)
    BY <1>2, <2>2, <2>4, <2>5, <2>6 DEF EditOf, indexVars
  <2>8. QED BY <2>7, Zenon DEF Goal
<1>10. ASSUME PutEntry(d) PROVE Goal
  <2>1. PICK t \in Clocks(d), i \in Ids, w \in Vals :
          /\ kind = "passwords" /\ IndexWritten(d)
          /\ Put(d, t, i, [val |-> w, at |-> Stamped(d, t), flag |-> FALSE])
          /\ putting' = [putting EXCEPT ![d] = {i}]
          /\ UNCHANGED <<index, removing, unlisted>>
    BY <1>10, Zenon DEF PutEntry
  <2> DEFINE item == [val |-> w, at |-> Stamped(d, t), flag |-> FALSE]
  <2>2. edits < MaxEdits
    BY <2>1 DEF Put
  <2>3. item \in Item
    <3>1. w \in Vals \cup {0} /\ Stamped(d, t) \in 0 .. MaxEdits
      BY <1>2, <2>2
    <3>2. QED BY <1>4, <3>1, ItemOf, Zenon
  <2>4. item.at = Stamped(d, t) /\ item.flag = FALSE /\ Put(d, t, i, item)
    BY <2>1
  <2> HIDE DEF item
  <2>5. EditOf(d, t, i, item)
    BY <1>2, <2>1, <2>2, <2>3, <2>4 DEF EditOf, IndexWritten
  <2>6. QED BY <2>5, Zenon DEF Goal
<1>11. ASSUME RemoveEntry(d) PROVE Goal
  <2>1. PICK t \in Clocks(d), i \in index[d] \cap Held(list[d].items) :
          /\ kind = "passwords" /\ IndexWritten(d)
          /\ Put(d, t, i, [list[d].items[i] EXCEPT !.flag = TRUE, !.at = Stamped(d, t)])
          /\ removing' = [removing EXCEPT ![d] = {i}]
          /\ UNCHANGED <<index, putting, unlisted>>
    BY <1>11, Zenon DEF RemoveEntry
  <2> DEFINE y == list[d].items[i]
             item == [val |-> y.val, at |-> Stamped(d, t), flag |-> TRUE]
  <2>2. edits < MaxEdits
    BY <2>1 DEF Put
  <2>3. i \in Held(list[d].items)
    BY <2>1
  <2>4. item \in Item
    <3>1. y.val \in Vals \cup {0} /\ Stamped(d, t) \in 0 .. MaxEdits
      BY <1>2, <1>3, <2>2, <2>3, ItemIs
    <3>2. QED BY <1>4, <3>1, ItemOf, Zenon
  <2>5. Put(d, t, i, item)
    <3>1. [y EXCEPT !.flag = TRUE, !.at = Stamped(d, t)] = item
      BY <1>3, <2>3, ItemAgain
    <3>2. QED BY <2>1, <3>1, Zenon
  <2>6. item.at = Stamped(d, t) /\ item.flag = TRUE
    OBVIOUS
  <2> HIDE DEF item
  <2>7. EditOf(d, t, i, item)
    BY <1>2, <1>3, <2>1, <2>2, <2>3, <2>4, <2>5, <2>6 DEF EditOf, IndexWritten
  <2>8. QED BY <2>7, Zenon DEF Goal
<1>12. QED
  BY <1>5, <1>6, <1>7, <1>8, <1>9, <1>10, <1>11, Zenon DEF Edit, Goal

(* An edit in the list, and in what is remembered of it.                   *)
PutDone(d, t, i, item) ==
  /\ edits' = edits + 1 /\ edits \in Nat /\ edits' \in 0 .. MaxEdits /\ kind' = kind
  /\ read' = [read EXCEPT ![d] = t] /\ t \in 0 .. MaxEdits /\ read[d] < t
  /\ t <= edits'
  /\ list'[d] \in Lists /\ list'[d].at <= edits'
  /\ list'[d].at = Stamped(d, t) /\ list[d].at < Stamped(d, t)
  /\ list' = [list EXCEPT ![d] = list'[d]]
  /\ list'[d].items[i] = item
  /\ \A j \in Ids \ {i} : list'[d].items[j] = list[d].items[j]
Remembered(i, item) ==
  \E new \in Item :
    /\ latest' = [latest EXCEPT ![i] = new]
    /\ new.at <= edits'
    /\ new \in {item, latest[i]}
    /\ kind = "guestbook" =>
         new = IF latest[i] = NoItem THEN item ELSE GuestItem(latest[i], item)

(* So an edit does.                                                        *)
LEMMA PutIs ==
  ASSUME ListInv, NEW d \in Sides, NEW t, NEW i, NEW item, EditOf(d, t, i, item)
  PROVE  PutDone(d, t, i, item) /\ Remembered(i, item)
<1>1. ListTypeOK /\ Dated /\ t \in Clocks(d) /\ i \in Ids /\ item \in Item /\ item.at <= edits + 1
  BY DEF ListInv, EditOf
<1>2. /\ edits < MaxEdits /\ edits' = edits + 1 /\ kind' = kind /\ read' = [read EXCEPT ![d] = t]
  BY DEF EditOf, Put
<1> DEFINE items == [list[d].items EXCEPT ![i] = item]
           at == Stamped(d, t)
           new == IF \/ latest[i] = NoItem
                     \/ kind = "guestbook"
                     \/ kind = "keychain" /\ item.val # 0
                  THEN IF latest[i] = NoItem THEN item ELSE GuestItem(latest[i], item)
                  ELSE latest[i]
<1>3. list' = [list EXCEPT ![d] = [at |-> at, items |-> items]]
  BY Zenon DEF EditOf, Put
<1>4. latest' = [latest EXCEPT ![i] = new]
  BY DEF EditOf, Put
<1>5. /\ t \in 0 .. MaxEdits /\ t > read[d] /\ edits <= t /\ t <= edits + 1
      /\ at \in 0 .. MaxEdits /\ at <= edits + 1 /\ edits + 1 \in 0 .. MaxEdits
  BY <1>1, <1>2, ClockIs
<1>6. list[d].items \in Items /\ edits \in Nat /\ read[d] \in Nat
      /\ (latest[i] # NoItem => latest[i] \in Item /\ latest[i].at <= edits)
  <2>1. latest[i] # NoItem => latest[i].at <= edits
    BY <1>1 DEF Dated
  <2>2. latest[i] # NoItem => latest[i] \in Item
    BY <1>1, ItemHeld
  <2>3. list[d].items \in Items /\ edits \in Nat /\ read[d] \in Nat
    BY <1>1, ListIs
  <2>4. QED BY <2>1, <2>2, <2>3
<1>7. items \in Items /\ items[i] = item /\ \A j \in Ids \ {i} : items[j] = list[d].items[j]
  BY <1>1, <1>6 DEF Items
<1>8. /\ new \in Item /\ new \in {item, latest[i]}
      /\ kind = "guestbook" =>
           new = IF latest[i] = NoItem THEN item ELSE GuestItem(latest[i], item)
  BY <1>1, <1>6, GuestIs
<1>9. new.at <= edits + 1
  <2>1. latest[i] # NoItem => latest[i].at \in Nat
    BY <1>6, ItemIs
  <2>2. new = item \/ (latest[i] # NoItem /\ new = latest[i])
    BY <1>1, <1>6, GuestIs
  <2> HIDE DEF new
  <2>3. QED BY <1>1, <1>6, <2>1, <2>2
<1> HIDE DEF items, at, new
<1>10. list'[d] = [at |-> at, items |-> items]
  BY <1>1, <1>3 DEF ListTypeOK
<1>11. list' = [list EXCEPT ![d] = list'[d]]
  BY <1>3, <1>10
<1>12. list'[d] \in Lists /\ list'[d].at = at /\ list'[d].items = items
  <2> DEFINE T == 0 .. MaxEdits
  <2>1. at \in T
    BY <1>5
  <2> HIDE DEF T
  <2>2. list'[d] \in [at : T, items : Items]
    BY <1>7, <1>10, <2>1
  <2>3. QED BY <1>10, <2>2 DEF T, Lists
<1>13. Remembered(i, item)
  BY <1>2, <1>4, <1>8, <1>9, Zenon DEF Remembered
<1>14. read[d] < t /\ t <= edits' /\ edits' \in 0 .. MaxEdits /\ at <= edits'
  BY <1>2, <1>5, <1>6
<1>16. at = Stamped(d, t) /\ list[d].at < at
  <2>1. t \in Nat /\ list[d].at \in Nat
    BY <1>1, <1>5, ListIs
  <2>2. QED BY <2>1 DEF at, Stamped
<1>15. QED BY <1>2, <1>5, <1>6, <1>7, <1>11, <1>12, <1>13, <1>14, <1>16 DEF PutDone

(* An edit keeps the invariant.                                            *)
LEMMA EditOfKeeps ==
  ASSUME ListInv, NEW d \in Sides, NEW t, NEW i, NEW item, EditOf(d, t, i, item)
  PROVE  ListInv'
<1>1. /\ ListTypeOK /\ Dated /\ Known /\ i \in Ids /\ item \in Item /\ item.at <= edits + 1
      /\ kind = "guestbook" => item.at = t /\ ~item.flag /\ \A j \in Ids : ContactKept(j)
      /\ index' = index /\ unlisted' = unlisted
      /\ kind # "passwords" => putting' = putting /\ removing' = removing
      /\ kind = "passwords" =>
           /\ item.at = Stamped(d, t) /\ putting[d] = {} /\ removing[d] = {}
           /\ IF item.flag THEN putting' = putting /\ removing' = [removing EXCEPT ![d] = {i}]
              ELSE putting' = [putting EXCEPT ![d] = {i}] /\ removing' = removing
  BY DEF ListInv, EditOf
<1>2. PutDone(d, t, i, item) /\ Remembered(i, item)
  BY PutIs, Zenon
<1>3. PICK new \in Item :
        /\ latest' = [latest EXCEPT ![i] = new]
        /\ new.at <= edits'
        /\ new \in {item, latest[i]}
        /\ kind = "guestbook" =>
             new = IF latest[i] = NoItem THEN item ELSE GuestItem(latest[i], item)
  BY <1>2 DEF Remembered
<1>4. /\ edits' = edits + 1 /\ edits \in Nat /\ edits' \in 0 .. MaxEdits /\ kind' = kind
      /\ read' = [read EXCEPT ![d] = t] /\ t \in 0 .. MaxEdits /\ read[d] < t
      /\ t <= edits'
      /\ list'[d] \in Lists /\ list'[d].at <= edits'
      /\ list'[d].at = Stamped(d, t) /\ list[d].at < Stamped(d, t)
      /\ list' = [list EXCEPT ![d] = list'[d]]
      /\ list'[d].items[i] = item
      /\ \A j \in Ids \ {i} : list'[d].items[j] = list[d].items[j]
  BY <1>2 DEF PutDone
<1>5. /\ list \in [Sides -> Lists] /\ read \in [Sides -> 0 .. MaxEdits] /\ latest \in Items
      /\ index \in [Sides -> SUBSET Ids] /\ kind \in Kinds
      /\ putting \in [Sides -> SUBSET Ids] /\ removing \in [Sides -> SUBSET Ids]
      /\ unlisted \subseteq Ids
  BY <1>1 DEF ListTypeOK, Lists
<1>6. \A e \in Sides \ {d} : list'[e] = list[e] /\ read'[e] = read[e]
  BY <1>4, <1>5
<1>7. \A e \in Sides, j \in Ids : e # d \/ j # i => list'[e].items[j] = list[e].items[j]
  BY <1>4, <1>6
<1>8. latest'[i] = new /\ \A j \in Ids \ {i} : latest'[j] = latest[j]
  BY <1>1, <1>3, <1>5 DEF Items
<1>9. /\ item # NoItem /\ new # NoItem /\ item.at \in Nat /\ t \in Nat /\ read'[d] = t
      /\ item.flag \in BOOLEAN
  BY <1>1, <1>3, <1>4, <1>5, ItemIs
<1>10. ListTypeOK'
  <2>1. list' \in [Sides -> Lists] /\ latest' \in Items
    BY <1>1, <1>3, <1>4, <1>5 DEF Items
  <2>2. read' \in [Sides -> 0 .. MaxEdits]
    BY <1>4, <1>5
  <2>3. /\ index' \in [Sides -> SUBSET Ids] /\ unlisted' \subseteq Ids
        /\ putting' \in [Sides -> SUBSET Ids] /\ removing' \in [Sides -> SUBSET Ids]
    BY <1>1, <1>5
  <2>4. QED BY <1>4, <1>5, <2>1, <2>2, <2>3 DEF ListTypeOK, Lists
<1>11. Dated'
  <2>1. ASSUME NEW e \in Sides PROVE list'[e].at <= edits' /\ read'[e] <= edits'
    <3>1. list[e].at \in Nat /\ read[e] \in Nat /\ list[e].at <= edits /\ read[e] <= edits
      BY <1>1, ListIs DEF Dated
    <3>2. QED BY <1>4, <1>6, <1>9, <3>1
  <2>2. ASSUME NEW e \in Sides, NEW j \in Ids, HasItem(e, j)' PROVE list'[e].items[j].at <= edits'
    <3>1. CASE e = d /\ j = i
      BY <1>1, <1>4, <3>1
    <3>2. CASE e # d \/ j # i
      <4>1. HasItem(e, j) /\ list'[e].items[j] = list[e].items[j]
        BY <1>7, <2>2, <3>2 DEF HasItem
      <4>2. list[e].items[j].at <= edits /\ list[e].items[j].at \in Nat
        BY <1>1, <4>1, ItemHeld, ItemIs DEF Dated
      <4>3. QED BY <1>4, <4>1, <4>2
    <3>3. QED BY <3>1, <3>2
  <2>3. ASSUME NEW j \in Ids, latest'[j] # NoItem PROVE latest'[j].at <= edits'
    <3>1. CASE j = i
      BY <1>3, <1>8, <3>1
    <3>2. CASE j # i
      <4>1. latest'[j] = latest[j] /\ latest[j] # NoItem
        BY <1>8, <2>3, <3>2
      <4>2. latest[j] \in Item /\ latest[j].at <= edits
        BY <1>1, <1>5, <4>1 DEF Dated, Items
      <4>3. latest[j].at \in Nat
        BY <4>2, ItemIs
      <4>4. QED BY <1>4, <4>1, <4>2, <4>3
    <3>3. QED BY <3>1, <3>2
  <2>4. QED BY <2>1, <2>2, <2>3 DEF Dated
<1>12. Known'
  BY <1>1, <1>7, <1>8, <1>9 DEF Known, HasItem
<1>13. ASSUME kind = "guestbook", NEW j \in Ids PROVE ContactKept(j)'
  <2>1. CASE j # i
    <3>1. latest'[j] = latest[j] /\ \A e \in Sides : list'[e].items[j] = list[e].items[j]
      BY <1>7, <1>8, <2>1
    <3>2. ContactKept(j)
      BY <1>1, <1>13
    <3>3. ASSUME latest[j] # NoItem, NEW e \in Sides, latest[j].at <= read[e]
          PROVE  latest[j].at <= read'[e]
      <4>1. latest[j].at \in Nat /\ read[e] \in Nat
        BY <1>1, <3>3, ItemHeld, ListIs, ItemIs
      <4>2. QED BY <1>4, <1>6, <1>9, <3>3, <4>1
    <3>4. QED BY <3>1, <3>2, <3>3 DEF ContactKept, HasItem
  <2>2. CASE j = i /\ latest[i] = NoItem
    <3>1. latest'[i] = item /\ ~item.flag /\ item.at = t
      BY <1>1, <1>3, <1>8, <1>13, <2>2
    <3>2. \A e \in Sides : HasItem(e, i)' => list'[e].items[i] = item
      BY <1>1, <1>4, <1>7, <2>2 DEF Known, HasItem
    <3>3. GuestItem(item, item) = item
      BY DEF GuestItem
    <3>4. item.at <= read'[d]
      BY <1>9, <3>1
    <3>5. QED BY <1>4, <2>2, <3>1, <3>2, <3>3, <3>4 DEF ContactKept
  <2>3. CASE j = i /\ latest[i] # NoItem
    <3> DEFINE last == latest[i]
    <3>1. last \in Item /\ last.at \in Nat /\ ~last.flag /\ ~item.flag /\ item.at = t
      <4>1. last \in Item
        BY <1>5, <2>3 DEF Items
      <4>2. QED BY <1>1, <1>13, <2>3, <4>1, ItemIs DEF ContactKept
    <3>2. PICK o \in Sides : list[o].items[i] = last /\ last.at <= read[o]
      BY <1>1, <1>13, <2>3 DEF ContactKept
    <3>3. \A e \in Sides : HasItem(e, i) => /\ ~list[e].items[i].flag
                                           /\ GuestItem(last, list[e].items[i]) = last
      BY <1>1, <1>13, <2>3 DEF ContactKept
    <3> HIDE DEF last
    <3>4. new = GuestItem(last, item) /\ (new = last \/ new = item)
      BY <1>3, <1>13, <2>3 DEF last
    <3>5. \E e \in Sides : list'[e].items[i] = new /\ new.at <= read'[e]
      <4>1. CASE new = item
        BY <1>4, <1>9, <3>1, <4>1
      <4>2. CASE new # item
        <5>1. o # d
          <6>1. SUFFICES ASSUME o = d PROVE FALSE
            OBVIOUS
          <6>2. read[d] \in Nat
            BY <1>1, ListIs
          <6>3. item.at > last.at
            BY <1>4, <1>9, <3>1, <3>2, <6>1, <6>2
          <6>4. GuestItem(last, item) = item
            BY <6>3 DEF GuestItem
          <6>5. QED BY <3>4, <4>2, <6>4
        <5>2. new = last
          BY <3>4, <4>2
        <5>3. QED BY <1>6, <3>2, <5>1, <5>2
      <4>3. QED BY <4>1, <4>2
    <3>6. ASSUME NEW e \in Sides, HasItem(e, i)'
          PROVE  ~list'[e].items[i].flag /\ GuestItem(new, list'[e].items[i]) = new
      <4>1. CASE e = d
        <5>1. GuestItem(new, item) = new
          BY <1>1, <3>1, <3>4, GuestIs
        <5>2. QED BY <1>4, <3>1, <4>1, <5>1
      <4>2. CASE e # d
        <5> DEFINE z == list[e].items[i]
        <5>1. list'[e].items[i] = z /\ HasItem(e, i)
          BY <1>1, <1>7, <3>6, <4>2 DEF HasItem
        <5>2. z \in Item /\ ~z.flag /\ GuestItem(last, z) = last
          BY <1>1, <3>3, <5>1, ItemHeld
        <5> HIDE DEF z
        <5>3. GuestItem(new, z) = new
          <6>1. CASE new = last
            BY <5>2, <6>1
          <6>2. CASE new # last
            <7>1. GuestItem(last, item) = item /\ new = item
              BY <3>4, <6>2, Zenon
            <7>2. item \in Item
              BY <1>1, Zenon
            <7>3. QED BY <3>1, <5>2, <7>1, <7>2, GuestInOrder
          <6>3. QED BY <6>1, <6>2
        <5>4. QED BY <5>1, <5>2, <5>3
      <4>3. QED BY <4>1, <4>2
    <3>7. ~new.flag
      BY <3>1, <3>4
    <3>8. QED BY <1>8, <2>3, <3>5, <3>6, <3>7 DEF ContactKept
  <2>4. QED BY <2>1, <2>2, <2>3
<1>14. ASSUME kind = "passwords" PROVE (OneCall /\ EntriesListed)'
  <2>1. OneCall /\ EntriesListed
    BY <1>14 DEF ListInv
  <2>2. /\ putting[d] = {} /\ removing[d] = {} /\ item.at = list'[d].at
        /\ \A e \in Sides \ {d} : putting'[e] = putting[e] /\ removing'[e] = removing[e]
        /\ item.flag => putting'[d] = {}
        /\ ~item.flag => putting'[d] = {i} /\ removing'[d] = {}
        /\ item.flag => removing'[d] = {i}
        /\ index' = index /\ unlisted' = unlisted
    BY <1>1, <1>4, <1>5, <1>14
  <2>3. OneCall'
    <3>1. \A e \in Sides : putting'[e] = {} \/ removing'[e] = {}
      BY <2>1, <2>2, <1>9 DEF OneCall
    <3>2. ASSUME NEW e \in Sides, NEW j \in Ids, HasItem(e, j)'
          PROVE  list'[e].items[j].at <= list'[e].at
      <4>1. CASE e = d /\ j = i
        BY <1>4, <1>9, <2>2, <4>1
      <4>2. CASE e # d \/ j # i
        <5>1. HasItem(e, j) /\ list'[e].items[j] = list[e].items[j]
          BY <1>7, <3>2, <4>2 DEF HasItem
        <5>2. list[e].items[j].at <= list[e].at /\ list[e].items[j].at \in Nat /\ list[e].at \in Nat
          BY <1>1, <2>1, <5>1, ItemHeld, ItemIs, ListIs DEF OneCall
        <5>3. list[e].at <= list'[e].at /\ list'[e].at \in Nat
          <6>1. CASE e = d
            BY <1>4, <1>9, <2>2, <5>2, <6>1
          <6>2. CASE e # d
            BY <1>6, <5>2, <6>2
          <6>3. QED BY <6>1, <6>2
        <5>4. QED BY <5>1, <5>2, <5>3
      <4>3. QED BY <4>1, <4>2
    <3>3. QED BY <3>1, <3>2 DEF OneCall
  <2>4. ASSUME NEW o \in Sides, NEW j \in Ids, o # d \/ j # i, Listed(o, j) PROVE Listed(o, j)'
    BY <2>2, <2>4 DEF Listed
  <2>5. /\ HasItem(d, i)' /\ list'[d].items[i] = item
        /\ item.flag \/ Listed(d, i)'
    BY <1>4, <1>9, <2>2 DEF Listed, HasItem
  <2>6. ASSUME HasItem(d, i) PROVE PassItem(item, list[d].items[i]) = item
    <3> DEFINE old == list[d].items[i]
    <3>1. old.at \in Nat /\ old.at <= list[d].at /\ list[d].at \in Nat
      BY <1>1, <2>1, <2>6, ItemHeld, ItemIs, ListIs DEF OneCall
    <3>2. list[d].at < item.at
      BY <1>4, <2>2
    <3> HIDE DEF old
    <3>3. old.at < item.at
      BY <1>9, <3>1, <3>2
    <3>4. PassItem(item, old) = item
      BY <1>9, <3>1, <3>3 DEF PassItem
    <3>5. QED BY <3>4 DEF old
  <2>7. ASSUME NEW e \in Sides, NEW j \in Ids, HasItem(e, j)', ~list'[e].items[j].flag
        PROVE  ListedElsewhere(e, j)'
    <3>1. CASE e = d /\ j = i
      <4>1. PassItem(item, item) = item
        BY DEF PassItem
      <4>2. QED BY <1>1, <2>5, <3>1, <4>1 DEF ListedElsewhere, Held, HasItem
    <3>2. CASE e # d \/ j # i
      <4> DEFINE z == list[e].items[j]
      <4>1. list'[e].items[j] = z /\ HasItem(e, j) /\ ~z.flag
        BY <1>7, <2>7, <3>2 DEF HasItem
      <4>2. PICK o \in Sides :
              /\ HasItem(o, j) /\ PassItem(list[o].items[j], z) = list[o].items[j]
              /\ list[o].items[j].flag \/ Listed(o, j) \/ j \in unlisted
        BY <2>1, <1>14, <4>1 DEF EntriesListed, ListedElsewhere, Held, HasItem
      <4>3. CASE o # d \/ j # i
        <5>1. list'[o].items[j] = list[o].items[j]
          BY <1>7, <4>3
        <5>2. Listed(o, j) => Listed(o, j)'
          BY <2>4, <4>3
        <5>3. QED BY <2>2, <4>1, <4>2, <5>1, <5>2 DEF ListedElsewhere, Held, HasItem
      <4>4. CASE o = d /\ j = i
        <5>1. z \in Item /\ list[d].items[i] \in Item /\ item \in Item
          BY <1>1, <4>1, <4>2, <4>4, ItemHeld
        <5>2. PassItem(item, list[d].items[i]) = item /\ PassItem(list[d].items[i], z) = list[d].items[i]
          BY <2>6, <4>2, <4>4
        <5> HIDE DEF z
        <5>3. PassItem(item, z) = item
          BY <5>1, <5>2, PassInOrder, Zenon
        <5>4. i \in Held(list'[d].items) /\ list'[e].items[i] = z
          BY <1>1, <2>5, <4>1, <4>4 DEF Held, HasItem
        <5>5. QED BY <2>5, <4>4, <5>3, <5>4 DEF ListedElsewhere
      <4>5. QED BY <4>3, <4>4
    <3>3. QED BY <3>1, <3>2
  <2>8. EntriesListed'
    BY <2>7 DEF EntriesListed, Held, HasItem
  <2>9. QED BY <2>3, <2>8
<1>15. QED BY <1>4, <1>10, <1>11, <1>12, <1>13, <1>14 DEF ListInv

(* The index is written, or is not: each entry listed stays so, but for    *)
(* one whose write never came.                                             *)
LEMMA IndexKeeps ==
  ASSUME ListInv, NEW d \in Sides, WriteIndex(d) \/ DropIndex(d)
  PROVE  ListInv'
<1>1. /\ ListTypeOK /\ Dated /\ Known
      /\ kind = "guestbook" => \A i \in Ids : ContactKept(i)
      /\ kind = "passwords" => OneCall /\ EntriesListed
  BY DEF ListInv
<1>2. /\ kind' = kind /\ list' = list /\ edits' = edits /\ read' = read /\ latest' = latest
      /\ putting' = [putting EXCEPT ![d] = {}] /\ removing' = [removing EXCEPT ![d] = {}]
      /\ \/ /\ index' = [index EXCEPT ![d] = (@ \cup putting[d]) \ removing[d]]
            /\ unlisted' = unlisted
         \/ index' = index /\ unlisted' = unlisted \cup putting[d]
  BY DEF WriteIndex, DropIndex
<1>3. /\ putting \in [Sides -> SUBSET Ids] /\ removing \in [Sides -> SUBSET Ids]
      /\ index \in [Sides -> SUBSET Ids] /\ unlisted \subseteq Ids
  BY <1>1 DEF ListTypeOK
<1>4. /\ putting' \in [Sides -> SUBSET Ids] /\ removing' \in [Sides -> SUBSET Ids]
      /\ index' \in [Sides -> SUBSET Ids] /\ unlisted' \subseteq Ids
  BY <1>2, <1>3
<1>5. ListTypeOK' /\ Dated' /\ Known' /\ (kind = "guestbook" => \A i \in Ids : ContactKept(i)')
  BY <1>1, <1>2, <1>4 DEF ListTypeOK, Dated, Known, ContactKept, HasItem
<1>6. ASSUME kind = "passwords" PROVE (OneCall /\ EntriesListed)'
  <2>1. OneCall /\ EntriesListed
    BY <1>1, <1>6
  <2>2. OneCall'
    BY <1>2, <1>3, <2>1 DEF OneCall, HasItem
  <2>3. ASSUME NEW o \in Sides, NEW i \in Ids, Listed(o, i) \/ i \in unlisted
        PROVE  Listed(o, i)' \/ i \in unlisted'
    <3>1. CASE o # d
      <4>1. putting'[o] = putting[o] /\ removing'[o] = removing[o] /\ index'[o] = index[o]
        BY <1>2, <1>3, <3>1
      <4>2. QED BY <1>2, <2>3, <4>1 DEF Listed
    <3>2. CASE o = d
      <4>1. removing'[d] = {} /\ (putting[d] = {} \/ removing[d] = {})
        BY <1>2, <1>3, <2>1 DEF OneCall
      <4>2. CASE index' = index /\ unlisted' = unlisted \cup putting[d]
        BY <2>3, <3>2, <4>1, <4>2 DEF Listed
      <4>3. CASE /\ index' = [index EXCEPT ![d] = (@ \cup putting[d]) \ removing[d]]
                 /\ unlisted' = unlisted
        <5>1. index'[d] = (index[d] \cup putting[d]) \ removing[d]
          BY <1>3, <4>3
        <5>2. QED BY <2>3, <3>2, <4>1, <4>3, <5>1 DEF Listed
      <4>4. QED BY <1>2, <4>2, <4>3
    <3>3. QED BY <3>1, <3>2
  <2>4. ASSUME NEW e \in Sides, NEW i \in Held(list[e].items), ~list[e].items[i].flag
        PROVE  ListedElsewhere(e, i)'
    <3>1. PICK o \in Sides :
            /\ i \in Held(list[o].items)
            /\ PassItem(list[o].items[i], list[e].items[i]) = list[o].items[i]
            /\ list[o].items[i].flag \/ Listed(o, i) \/ i \in unlisted
      BY <1>6, <2>1, <2>4 DEF EntriesListed, ListedElsewhere
    <3>2. i \in Ids
      BY <2>4 DEF Held
    <3>3. QED BY <1>2, <2>3, <3>1, <3>2 DEF ListedElsewhere
  <2>5. EntriesListed'
    BY <1>2, <2>4 DEF EntriesListed
  <2>6. QED BY <2>2, <2>5
<1>7. QED BY <1>2, <1>5, <1>6 DEF ListInv

-----------------------------------------------------------------------------
(* What an exchange does to one device: nothing, or it took another's in.  *)
Left(x) == list'[x] = list[x] /\ index'[x] = index[x]
TookIn(x, y) ==
  /\ Merged(list'[x], list[x], list[y])
  /\ kind = "passwords" => index'[x] = Reindexed(index[x], index[y], list'[x].items)

(* So it is for each, and nobody's clock or edit has part in it.            *)
LEMMA ExchangeIs ==
  ASSUME ListTypeOK, NEW d \in Sides, NEW e \in Sides, Exchange(d, e)
  PROVE  /\ kind' = kind /\ edits' = edits /\ read' = read /\ latest' = latest
         /\ putting' = putting /\ removing' = removing /\ unlisted' = unlisted
         /\ list' \in [Sides -> Lists] /\ index' \in [Sides -> SUBSET Ids]
         /\ \A x \in Sides : Left(x) \/ (x = d /\ TookIn(d, e)) \/ (x = e /\ TookIn(e, d))
<1> DEFINE other(x) == IF x = d THEN e ELSE d
           at(x, takers, ties) ==
             IF x \in takers THEN TakenBy(x, other(x), ties[x]).list ELSE list[x]
           ix(x, takers, ties) ==
             IF x \in takers THEN TakenBy(x, other(x), ties[x]).index ELSE index[x]
<1>1. PICK takers \in {{d}, {d, e}}, ties \in [{d, e} -> Ties] :
        /\ list' = [x \in Sides |-> at(x, takers, ties)]
        /\ index' = [x \in Sides |-> ix(x, takers, ties)]
  BY DEF Exchange
<1>2. /\ kind' = kind /\ edits' = edits /\ read' = read /\ latest' = latest /\ d # e
      /\ putting' = putting /\ removing' = removing /\ unlisted' = unlisted
  BY DEF Exchange
<1>3. ASSUME NEW x \in Sides, NEW y \in Sides, NEW tie
      PROVE  /\ Merged(TakenBy(x, y, tie).list, list[x], list[y])
             /\ TakenBy(x, y, tie).list \in Lists
             /\ TakenBy(x, y, tie).index \subseteq Ids
             /\ kind = "passwords" =>
                  TakenBy(x, y, tie).index = Reindexed(index[x], index[y], TakenBy(x, y, tie).list.items)
  <2> DEFINE under == PartsUnder(list[x], Parts(list[x], list[y]), tie)
             l == JoinAs(list[x], Parts(list[x], list[y]), under)
             live == Reindexed(index[x], index[y], l.items)
  <2>1. kind \in Kinds /\ list[x] \in Lists /\ list[y] \in Lists
        /\ index[x] \subseteq Ids /\ index[y] \subseteq Ids
    BY ListIs DEF ListTypeOK
  <2>2. TakenBy(x, y, tie) = [list |-> l, index |-> IF kind = "passwords" THEN live ELSE {}]
    BY Zenon DEF TakenBy
  <2> HIDE DEF under
  <2>3. Merged(l, list[x], list[y])
    BY <2>1, PartsTake, Zenon
  <2>4. live \subseteq Ids
    BY <2>1 DEF Reindexed
  <2> HIDE DEF l, live
  <2>5. TakenBy(x, y, tie).list = l /\ TakenBy(x, y, tie).index = IF kind = "passwords" THEN live ELSE {}
    BY <2>2
  <2>6. l \in Lists
    BY <2>3 DEF Merged
  <2>7. QED BY <2>3, <2>4, <2>5, <2>6 DEF live
<1>4. ASSUME NEW x \in Sides
      PROVE  /\ other(x) \in Sides /\ at(x, takers, ties) \in Lists /\ ix(x, takers, ties) \in SUBSET Ids
             /\ list'[x] = at(x, takers, ties) /\ index'[x] = ix(x, takers, ties)
  <2>1. other(x) \in Sides
    OBVIOUS
  <2>2. list[x] \in Lists /\ index[x] \subseteq Ids
    BY ListIs
  <2>3. list'[x] = at(x, takers, ties) /\ index'[x] = ix(x, takers, ties)
    BY <1>1, Zenon
  <2> DEFINE tie == ties[x]
  <2> HIDE DEF tie
  <2>4. TakenBy(x, other(x), tie).list \in Lists /\ TakenBy(x, other(x), tie).index \subseteq Ids
    BY <1>3, <2>1
  <2> HIDE DEF other
  <2>5. at(x, takers, ties) \in Lists /\ ix(x, takers, ties) \in SUBSET Ids
    BY <2>2, <2>4 DEF tie
  <2>6. QED BY <2>1, <2>3, <2>5
<1>5. list' \in [Sides -> Lists] /\ index' \in [Sides -> SUBSET Ids]
  <2> HIDE DEF at, ix
  <2>1. QED BY <1>1, <1>4
<1>6. ASSUME NEW x \in Sides
      PROVE  Left(x) \/ (x = d /\ TookIn(d, e)) \/ (x = e /\ TookIn(e, d))
  <2>1. CASE x \notin takers
    BY <1>4, <2>1 DEF Left
  <2>2. CASE x \in takers
    <3> DEFINE y == other(x)
               tie == ties[x]
    <3>1. /\ y \in Sides /\ list'[x] = TakenBy(x, y, tie).list /\ index'[x] = TakenBy(x, y, tie).index
          /\ (x = d /\ y = e) \/ (x = e /\ y = d)
      BY <1>1, <1>2, <1>4, <2>2
    <3> HIDE DEF y, tie
    <3>2. TookIn(x, y)
      BY <1>3, <3>1 DEF TookIn
    <3>3. QED BY <3>1, <3>2
  <2>3. QED BY <2>1, <2>2
<1>7. QED BY <1>2, <1>5, <1>6

(* An exchange keeps the invariant: what one of the two has is there after *)
(* it, and the last edit of a contact wins over every other.               *)
LEMMA ExchangeKeeps ==
  ASSUME ListInv, NEW d \in Sides, NEW e \in Sides, Exchange(d, e)
  PROVE  ListInv'
<1>1. ListTypeOK /\ Dated /\ Known
  BY DEF ListInv
<1>2. /\ kind' = kind /\ edits' = edits /\ read' = read /\ latest' = latest
      /\ putting' = putting /\ removing' = removing /\ unlisted' = unlisted
      /\ list' \in [Sides -> Lists] /\ index' \in [Sides -> SUBSET Ids]
      /\ \A x \in Sides : Left(x) \/ (x = d /\ TookIn(d, e)) \/ (x = e /\ TookIn(e, d))
  BY <1>1, ExchangeIs
<1>3. ListTypeOK'
  BY <1>1, <1>2 DEF ListTypeOK, Lists
<1>4. ASSUME NEW x \in Sides, NEW i \in Ids
      PROVE  \/ Left(x)
             \/ \E y \in Sides :
                  Takes(list'[x].items[i], list[x].items[i], list[y].items[i])
  BY <1>2 DEF TookIn, Merged
<1>5. Dated'
  <2>1. ASSUME NEW x \in Sides PROVE list'[x].at <= edits' /\ read'[x] <= edits'
    <3>1. \A y \in Sides : list[y].at <= edits /\ read[y] <= edits
      BY <1>1 DEF Dated
    <3>2. list'[x].at \in {list[y].at : y \in Sides}
      BY <1>2 DEF Left, TookIn, Merged
    <3>3. QED BY <1>2, <3>1, <3>2
  <2>2. ASSUME NEW x \in Sides, NEW i \in Ids, HasItem(x, i)' PROVE list'[x].items[i].at <= edits'
    <3>1. \A y \in Sides : HasItem(y, i) => list[y].items[i].at <= edits
      BY <1>1 DEF Dated
    <3>2. CASE Left(x)
      BY <1>2, <2>2, <3>1, <3>2 DEF Left, HasItem
    <3>3. ASSUME NEW y \in Sides, Takes(list'[x].items[i], list[x].items[i], list[y].items[i])
          PROVE  list'[x].items[i].at <= edits'
      BY <1>2, <2>2, <3>1, <3>3 DEF Takes, Made, HasItem
    <3>4. QED BY <1>4, <3>2, <3>3
  <2>3. QED BY <1>1, <1>2, <2>1, <2>2 DEF Dated
<1>6. Known'
  <2>1. ASSUME NEW x \in Sides, NEW i \in Ids, HasItem(x, i)' PROVE \E y \in Sides : HasItem(y, i)
    BY <1>4, <2>1 DEF Left, Takes, HasItem
  <2>2. QED BY <1>1, <1>2, <2>1 DEF Known
<1>7. ASSUME kind = "guestbook", NEW i \in Ids PROVE ContactKept(i)'
  <2>1. SUFFICES ASSUME latest[i] # NoItem
                 PROVE  /\ ~latest[i].flag
                        /\ \E o \in Sides : list'[o].items[i] = latest[i] /\ latest[i].at <= read[o]
                        /\ \A x \in Sides : HasItem(x, i)' =>
                             /\ ~list'[x].items[i].flag
                             /\ GuestItem(latest[i], list'[x].items[i]) = latest[i]
    BY <1>2 DEF ContactKept
  <2> DEFINE last == latest[i]
  <2>2. /\ ~last.flag
        /\ \E o \in Sides : list[o].items[i] = last /\ last.at <= read[o]
        /\ \A x \in Sides : HasItem(x, i) => /\ ~list[x].items[i].flag
                                             /\ GuestItem(last, list[x].items[i]) = last
    BY <1>7, <2>1 DEF ListInv, ContactKept
  <2>3. PICK o \in Sides : list[o].items[i] = last /\ last.at <= read[o]
    BY <2>2
  <2> HIDE DEF last
  <2>4. list'[o].items[i] = last
    <3>1. ASSUME NEW y \in Sides, Takes(list'[o].items[i], last, list[y].items[i])
          PROVE  list'[o].items[i] = last
      BY <1>7, <2>1, <2>2, <3>1 DEF Takes, HasItem, last
    <3>2. QED BY <1>4, <2>3, <3>1 DEF Left
  <2>5. ASSUME NEW x \in Sides, HasItem(x, i)'
        PROVE  ~list'[x].items[i].flag /\ GuestItem(last, list'[x].items[i]) = last
    <3>1. \E y \in Sides : HasItem(y, i) /\ list'[x].items[i] = list[y].items[i]
      <4>1. ASSUME NEW y \in Sides, Takes(list'[x].items[i], list[x].items[i], list[y].items[i])
            PROVE  \/ HasItem(x, i) /\ list'[x].items[i] = list[x].items[i]
                   \/ HasItem(y, i) /\ list'[x].items[i] = list[y].items[i]
        BY <1>7, <2>5, <4>1 DEF Takes, HasItem, GuestItem
      <4>2. QED BY <1>4, <2>5, <4>1 DEF Left, HasItem
    <3>2. QED BY <2>2, <3>1
  <2>6. QED BY <2>2, <2>3, <2>4, <2>5 DEF last
<1>8. ASSUME kind = "passwords" PROVE (OneCall /\ EntriesListed)'
  <2>1. OneCall /\ EntriesListed
    BY <1>8 DEF ListInv
  <2>2. ASSUME NEW x \in Sides, NEW y \in Sides, NEW i \in Ids, TookIn(x, y)
        PROVE  /\ HasItem(x, i)' <=> HasItem(x, i) \/ HasItem(y, i)
               /\ \/ HasItem(x, i) /\ list'[x].items[i] = list[x].items[i]
                  \/ HasItem(y, i) /\ list'[x].items[i] = list[y].items[i]
                  \/ ~HasItem(x, i) /\ ~HasItem(y, i)
               /\ HasItem(x, i) /\ HasItem(y, i) =>
                    list'[x].items[i] = PassItem(list[x].items[i], list[y].items[i])
    BY <1>8, <2>2 DEF TookIn, Merged, Takes, HasItem, PassItem
  <2>3. OneCall'
    <3>1. ASSUME NEW x \in Sides, NEW i \in Ids, HasItem(x, i)'
          PROVE  list'[x].items[i].at <= list'[x].at
      <4>1. \A y \in Sides : HasItem(y, i) =>
              list[y].items[i].at \in Nat /\ list[y].at \in Nat /\ list[y].items[i].at <= list[y].at
        BY <1>1, <2>1, ItemHeld, ItemIs, ListIs DEF OneCall
      <4>2. CASE Left(x)
        BY <3>1, <4>1, <4>2 DEF Left, HasItem
      <4>3. ASSUME NEW y \in Sides, TookIn(x, y) PROVE list'[x].items[i].at <= list'[x].at
        <5>1. Merged(list'[x], list[x], list[y])
          BY <4>3 DEF TookIn
        <5>2. CASE list'[x].items = list[x].items /\ list'[x].at = list[x].at
          BY <3>1, <4>1, <5>2 DEF HasItem
        <5>3. CASE list'[x].at >= list[x].at /\ list'[x].at >= list[y].at
          <6>1. list'[x].at \in Nat
            BY <5>1, <4>1 DEF Merged, Lists
          <6>2. PICK z \in {x, y} : HasItem(z, i) /\ list'[x].items[i] = list[z].items[i]
            BY <2>2, <3>1, <4>3 DEF HasItem
          <6>3. list[z].at <= list'[x].at
            BY <5>3, <6>2
          <6>4. QED BY <4>1, <6>1, <6>2, <6>3
        <5>4. QED BY <5>1, <5>2, <5>3 DEF Merged
      <4>4. QED BY <1>2, <4>2, <4>3
    <3>2. QED BY <1>2, <2>1, <3>1 DEF OneCall
  <2> DEFINE Vouches(o, i) == list[o].items[i].flag \/ Listed(o, i) \/ i \in unlisted
  <2>4. ASSUME NEW o \in Sides, NEW i \in Ids, HasItem(o, i), Vouches(o, i),
               list'[o].items[i] = list[o].items[i]
        PROVE  Vouches(o, i)'
    <3>1. CASE list[o].items[i].flag \/ i \in unlisted \/ i \in putting[o]
      BY <1>2, <2>4, <3>1 DEF Listed
    <3>2. CASE ~list[o].items[i].flag /\ i \in index[o] \ removing[o]
      <4>1. CASE Left(o)
        BY <1>2, <3>2, <4>1 DEF Left, Listed
      <4>2. ASSUME NEW y \in Sides, TookIn(o, y) PROVE Vouches(o, i)'
        <5>1. index'[o] = Reindexed(index[o], index[y], list'[o].items)
          BY <1>8, <4>2 DEF TookIn
        <5>2. i \in index'[o]
          BY <2>4, <3>2, <5>1 DEF Reindexed, HasItem
        <5>3. QED BY <1>2, <3>2, <5>2 DEF Listed
      <4>3. QED BY <1>2, <4>1, <4>2
    <3>3. QED BY <2>4, <3>1, <3>2 DEF Listed
  <2> HIDE DEF Vouches
  <2>5. ASSUME NEW y \in Sides, NEW i \in Ids, HasItem(y, i), ~list[y].items[i].flag
        PROVE  \E o \in Sides : /\ HasItem(o, i) /\ Vouches(o, i)
                                /\ PassItem(list[o].items[i], list[y].items[i]) = list[o].items[i]
    BY <1>8, <2>1, <2>5 DEF EntriesListed, ListedElsewhere, Held, HasItem, Vouches
  <2>6. ASSUME NEW o \in Sides, NEW i \in Ids, NEW w \in Item, HasItem(o, i)', Vouches(o, i)',
               PassItem(list'[o].items[i], w) = list'[o].items[i]
        PROVE  \E p \in Sides : /\ i \in Held(list'[p].items)
                                /\ PassItem(list'[p].items[i], w) = list'[p].items[i]
                                /\ list'[p].items[i].flag \/ Listed(p, i)' \/ i \in unlisted'
    BY <2>6 DEF Held, HasItem, Vouches
  <2>7. ASSUME NEW x \in Sides, NEW i \in Ids, HasItem(x, i)', ~list'[x].items[i].flag
        PROVE  ListedElsewhere(x, i)'
    <3> DEFINE w == list'[x].items[i]
               m(o) == list[o].items[i]
    <3>1. PICK t \in Sides : HasItem(t, i) /\ w = m(t)
      <4>1. CASE Left(x)
        BY <2>7, <4>1 DEF Left, HasItem
      <4>2. ASSUME NEW y \in Sides, TookIn(x, y) PROVE \E t \in Sides : HasItem(t, i) /\ w = m(t)
        BY <2>2, <2>7, <4>2
      <4>3. QED BY <1>2, <4>1, <4>2
    <3>2. PICK o \in Sides : HasItem(o, i) /\ Vouches(o, i) /\ PassItem(m(o), w) = m(o)
      BY <2>5, <2>7, <3>1
    <3>3. w \in Item /\ m(o) \in Item
      BY <1>1, <3>1, <3>2, ItemHeld
    <3>4. SUFFICES \E p \in Sides : /\ HasItem(p, i)' /\ Vouches(p, i)'
                                    /\ PassItem(list'[p].items[i], w) = list'[p].items[i]
      BY <2>6, <3>3 DEF ListedElsewhere
    <3>5. CASE list'[o].items[i] = m(o)
      BY <2>4, <3>2, <3>5 DEF HasItem
    <3>6. CASE list'[o].items[i] # m(o)
      <4>1. PICK y \in Sides : ((o = d /\ y = e) \/ (o = e /\ y = d)) /\ TookIn(o, y)
        BY <1>2, <3>6 DEF Left
      <4>2. HasItem(y, i) /\ m(y) \in Item /\ list'[o].items[i] = m(y) /\ HasItem(o, i)'
        BY <1>1, <2>2, <3>2, <3>6, <4>1, ItemHeld
      <4>3. PassItem(m(o), m(y)) = m(y) /\ PassItem(m(y), m(o)) = m(y)
        <5>1. PassItem(m(o), m(y)) = m(y)
          BY <2>2, <3>2, <4>1, <4>2
        <5>2. PassItem(m(o), m(y)) = PassItem(m(y), m(o))
          BY <3>3, <4>2, PassIs
        <5>3. QED BY <5>1, <5>2
      <4>4. CASE m(y).flag
        <5>1. PassItem(m(y), w) = m(y)
          BY <3>2, <3>3, <4>2, <4>3, PassInOrder, Zenon
        <5>2. Vouches(o, i)'
          BY <4>2, <4>4 DEF Vouches
        <5>3. QED BY <4>2, <5>1, <5>2
      <4>5. CASE ~m(y).flag
        <5>1. PICK p \in Sides : HasItem(p, i) /\ Vouches(p, i) /\ PassItem(m(p), m(y)) = m(p)
          BY <2>5, <4>2, <4>5
        <5>2. m(p) \in Item
          BY <1>1, <5>1, ItemHeld
        <5>3. p # o
          BY <3>6, <4>2, <4>3, <5>1
        <5>4. list'[p].items[i] = m(p)
          <6>1. CASE p = y
            <7>1. CASE Left(y)
              BY <6>1, <7>1 DEF Left
            <7>2. CASE TookIn(y, o)
              BY <2>2, <3>2, <4>2, <4>3, <6>1, <7>2
            <7>3. QED BY <1>2, <4>1, <5>3, <6>1, <7>1, <7>2
          <6>2. CASE p # y
            <7>1. Left(p)
              BY <1>2, <4>1, <5>3, <6>2
            <7>2. QED BY <7>1 DEF Left
          <6>3. QED BY <6>1, <6>2
        <5>5. HasItem(p, i)' /\ Vouches(p, i)'
          BY <2>4, <5>1, <5>4 DEF HasItem
        <5>6. PassItem(m(p), w) = m(p)
          <6>1. PassItem(m(p), m(o)) = m(p)
            BY <3>3, <4>2, <4>3, <5>1, <5>2, PassInOrder, Zenon
          <6>2. QED BY <3>2, <3>3, <5>2, <6>1, PassInOrder, Zenon
        <5>7. QED BY <5>4, <5>5, <5>6
      <4>6. QED BY <4>4, <4>5
    <3>7. QED BY <3>5, <3>6
  <2>8. EntriesListed'
    BY <2>7 DEF EntriesListed, Held, HasItem
  <2>9. QED BY <2>3, <2>8
<1>9. QED BY <1>2, <1>3, <1>5, <1>6, <1>7, <1>8 DEF ListInv

(* Every step keeps it.                                                    *)
LEMMA ListKept == ListInv /\ [ListNext]_listVars => ListInv'
<1> SUFFICES ASSUME ListInv, [ListNext]_listVars PROVE ListInv'
  OBVIOUS
<1>1. ASSUME NEW d \in Sides, Edit(d) PROVE ListInv'
  <2>1. PICK t, i, item : EditOf(d, t, i, item)
    BY <1>1, EditIs
  <2>2. QED BY <2>1, EditOfKeeps
<1>2. ASSUME UNCHANGED listVars PROVE ListInv'
  BY <1>2 DEF listVars, indexVars, ListInv, ListTypeOK, Dated, Known, ContactKept, OneCall, EntriesListed, ListedElsewhere, Listed, HasItem
<1>3. QED BY <1>1, <1>2, IndexKeeps, ExchangeKeeps, Zenon DEF ListNext

(* At any time: nothing is dated ahead, the last edit of a contact is      *)
(* held and later than all others, and each live entry is listed.          *)
THEOREM ListInvariant == ListSpec => []ListInv
<1>1. ListInv /\ [ListNext]_listVars => ListInv'
  BY ListKept
<1>2. QED BY <1>1, ListsAtFirst, PTL DEF ListSpec

(* The last edit of a contact is never lost, whatever is merged into what. *)
THEOREM ListsAlwaysStand == ListSpec => []ListsStand
<1>1. ListInv => ListsStand
  <2> SUFFICES ASSUME ListInv PROVE ListsStand
    OBVIOUS
  <2>1. ASSUME kind = "guestbook", NEW i \in Ids PROVE Survives(i)
    BY <2>1 DEF ListInv, ContactKept, Survives, Held
  <2>2. QED BY <2>1 DEF ListInv, ListsStand, NewestContactKept
<1>2. QED BY <1>1, ListInvariant, PTL

(* No entry of the Passwords is put and then on no index, though index and *)
(* record are written one after the other and merged in between.           *)
THEOREM EntriesAlwaysListed == ListSpec => []EntriesListed
<1>1. ListInv => EntriesListed
  BY DEF ListInv, EntriesListed
<1>2. QED BY <1>1, ListInvariant, PTL

(* Two devices that merge the same whole lists come to the same items,     *)
(* whatever their dates; taking the parts that differ is taking the whole  *)
(* list when the dates differ; and when they do not, the two still agree   *)
(* in which items there are and which are removed or named.                *)
THEOREM ExchangesAgree == ListSpec => []ExchangeAgrees
<1>1. ListInv => ExchangeAgrees
  <2> SUFFICES ASSUME ListInv PROVE ExchangeAgrees
    OBVIOUS
  <2>1. kind \in Kinds /\ ListTypeOK /\ \A d \in Sides : list[d] \in Lists
    BY ListIs DEF ListInv, ListTypeOK
  <2>2. ASSUME NEW d \in Sides, NEW e \in Sides, NEW i \in Ids
        PROVE  kind = "guestbook" /\ HasItem(d, i) /\ HasItem(e, i) =>
                 list[d].items[i].flag = list[e].items[i].flag
    <3>1. SUFFICES ASSUME kind = "guestbook", HasItem(d, i), HasItem(e, i)
                   PROVE  list[d].items[i].flag = list[e].items[i].flag
      OBVIOUS
    <3>2. ~list[d].items[i].flag /\ ~list[e].items[i].flag
      BY <3>1 DEF ListInv, ContactKept, Known
    <3>3. list[d].items[i].flag \in BOOLEAN /\ list[e].items[i].flag \in BOOLEAN
      BY <2>1, <3>1, ItemHeld, ItemIs
    <3>4. QED BY <3>2, <3>3
  <2>3. ASSUME NEW d \in Sides, NEW e \in Sides, NEW tie
        PROVE  /\ TakenBy(d, e, tie).list =
                    JoinAs(list[d], Parts(list[d], list[e]),
                           PartsUnder(list[d], Parts(list[d], list[e]), tie))
               /\ Merged(TakenBy(d, e, tie).list, list[d], list[e])
               /\ TakenBy(d, e, tie).list.items \in Items
               /\ Joined(list[d], list[e]).items \in Items
    <3> DEFINE parts == Parts(list[d], list[e])
               under == PartsUnder(list[d], parts, tie)
               l == JoinAs(list[d], parts, under)
    <3>1. TakenBy(d, e, tie).list = l
      BY DEF TakenBy
    <3> HIDE DEF under
    <3>2. Merged(l, list[d], list[e])
      BY <2>1, PartsTake, Zenon
    <3> DEFINE older == Older(list[e], list[d])
    <3> HIDE DEF older
    <3>3. Merged(JoinAs(list[d], list[e], older), list[d], list[e])
      BY <2>1, JoinedTakes, Zenon
    <3>4. Joined(list[d], list[e]).items \in Items
      BY <3>3 DEF Merged, Lists, Joined, older
    <3>5. l.items \in Items
      BY <3>2 DEF Merged, Lists
    <3>6. QED BY <3>1, <3>2, <3>4, <3>5 DEF under
  <2>4. WholesAgree
    <3>1. SUFFICES ASSUME NEW d \in Sides, NEW e \in Sides
                   PROVE  Joined(list[d], list[e]).items = Joined(list[e], list[d]).items
      BY DEF WholesAgree
    <3>2. ASSUME NEW i \in Ids
          PROVE  Joined(list[d], list[e]).items[i] = Joined(list[e], list[d]).items[i]
      BY <2>1, <2>2, JoinedAlike, Zenon DEF HasItem
    <3>3. Joined(list[d], list[e]).items \in Items /\ Joined(list[e], list[d]).items \in Items
      BY <2>3
    <3>4. QED BY <3>2, <3>3 DEF Items
  <2>5. PartsSuffice
    <3>1. SUFFICES ASSUME NEW d \in Sides, NEW e \in Sides, NEW tie \in Ties,
                          Comparable(list[d], list[e])
                   PROVE  TakenBy(d, e, tie).list.items = Joined(list[d], list[e]).items
      BY DEF PartsSuffice, Comparable
    <3> DEFINE l == JoinAs(list[d], Parts(list[d], list[e]),
                           PartsUnder(list[d], Parts(list[d], list[e]), tie))
               w == Joined(list[d], list[e])
    <3>2. ASSUME NEW i \in Ids PROVE l.items[i] = w.items[i]
      BY <2>1, <3>1, PartsAsWhole, Zenon
    <3>3. TakenBy(d, e, tie).list = l /\ l.items \in Items /\ w.items \in Items
      BY <2>3
    <3> HIDE DEF l, w
    <3>4. l.items = w.items
      BY <3>2, <3>3 DEF Items
    <3>5. QED BY <3>3, <3>4 DEF w
  <2>6. FlagsAgree
    <3>1. SUFFICES ASSUME NEW d \in Sides, NEW e \in Sides, NEW i \in Ids,
                          NEW mine \in Ties, NEW theirs \in Ties
                   PROVE  LET x == TakenBy(d, e, mine).list.items[i]
                              y == TakenBy(e, d, theirs).list.items[i]
                          IN  (x = NoItem <=> y = NoItem) /\ (x # NoItem => x.flag = y.flag)
      BY DEF FlagsAgree
    <3> DEFINE x == TakenBy(d, e, mine).list.items[i]
               y == TakenBy(e, d, theirs).list.items[i]
               a == list[d].items[i]
               b == list[e].items[i]
    <3>2. Takes(x, a, b) /\ Takes(y, b, a)
      BY <2>3 DEF Merged
    <3>3. a \in Item \cup {NoItem} /\ b \in Item \cup {NoItem}
      BY <2>1 DEF Lists, Items
    <3>4. kind = "guestbook" /\ a # NoItem /\ b # NoItem => a.flag = b.flag
      BY <2>2 DEF HasItem
    <3> HIDE DEF x, y, a, b
    <3>5. (x = NoItem <=> y = NoItem) /\ (x # NoItem => x.flag = y.flag)
      <4>1. kind \in Kinds
        BY <2>1
      <4>2. MarkedAlike(x, y)
        BY <3>2, <3>3, <3>4, <4>1, FlagsAlike, Zenon
      <4>3. QED BY <4>2 DEF MarkedAlike
    <3>6. QED BY <3>5 DEF x, y
  <2>7. QED BY <2>4, <2>5, <2>6 DEF ExchangeAgrees
<1>2. QED BY <1>1, ListInvariant, PTL

(* No list ever loses an item, to an edit or to a merge, and a message     *)
(* that was removed stays so.                                              *)
THEOREM NothingIsUndone == ListSpec => NothingComesBack
<1> DEFINE Stays(d, i) ==
             /\ list'[d].items[i] # NoItem
             /\ kind = "cryptobox" /\ list[d].items[i].flag => list'[d].items[i].flag
           NoneBack == \A d \in Sides : \A i \in Held(list[d].items) : Stays(d, i)
<1>1. ASSUME ListInv, ListNext PROVE NoneBack
  <2>1. ListTypeOK
    BY <1>1 DEF ListInv
  <2>2. ASSUME NEW x \in Sides, NEW i \in Ids, HasItem(x, i), list'[x].items[i] = list[x].items[i]
        PROVE  Stays(x, i)
    BY <2>2 DEF HasItem
  <2>3. ASSUME NEW d \in Sides, Edit(d) PROVE NoneBack
    <3>1. PICK t, j, item : EditOf(d, t, j, item)
      BY <1>1, <2>3, EditIs
    <3>2. PutDone(d, t, j, item)
      BY <1>1, <3>1, PutIs, Zenon
    <3>3. ASSUME NEW x \in Sides, NEW i \in Ids, HasItem(x, i) PROVE Stays(x, i)
      <4>1. CASE x = d /\ i = j
        <5>1. list'[d].items[j] = item
          BY <3>2 DEF PutDone
        <5>2. item # NoItem
          BY <3>1, ItemIs DEF EditOf
        <5>3. kind = "cryptobox" /\ HasItem(d, j) /\ list[d].items[j].flag => item.flag
          BY <3>1 DEF EditOf
        <5>4. QED BY <3>3, <4>1, <5>1, <5>2, <5>3
      <4>2. CASE x = d /\ i # j
        BY <2>2, <3>2, <3>3, <4>2 DEF PutDone
      <4>3. CASE x # d
        <5>1. list' = [list EXCEPT ![d] = list'[d]]
          BY <3>2 DEF PutDone
        <5>2. list'[x] = list[x]
          BY <2>1, <4>3, <5>1 DEF ListTypeOK
        <5>3. QED BY <2>2, <3>3, <5>2
      <4>4. QED BY <4>1, <4>2, <4>3
    <3>4. QED BY <3>3 DEF Held, HasItem
  <2>4. ASSUME NEW d \in Sides, NEW e \in Sides, Exchange(d, e) PROVE NoneBack
    <3>1. \A x \in Sides : Left(x) \/ (x = d /\ TookIn(d, e)) \/ (x = e /\ TookIn(e, d))
      BY <2>1, <2>4, ExchangeIs
    <3>2. ASSUME NEW x \in Sides, NEW i \in Ids, HasItem(x, i) PROVE Stays(x, i)
      <4>1. CASE Left(x)
        BY <2>2, <3>2, <4>1 DEF Left
      <4>2. ASSUME NEW y \in Sides, TookIn(x, y) PROVE Stays(x, i)
        <5>1. Takes(list'[x].items[i], list[x].items[i], list[y].items[i])
          BY <4>2 DEF TookIn, Merged
        <5>2. CASE list[y].items[i] = NoItem
          BY <2>2, <3>2, <5>1, <5>2 DEF Takes
        <5>3. CASE list[y].items[i] # NoItem
          <6>1. list'[x].items[i] \in Item
            BY <3>2, <5>1, <5>3 DEF Takes, Made, HasItem
          <6>2. list'[x].items[i] # NoItem
            BY <6>1, ItemIs
          <6>3. kind = "cryptobox" /\ list[x].items[i].flag => list'[x].items[i].flag
            BY <3>2, <5>1, <5>3 DEF Takes, HasItem
          <6>4. QED BY <6>2, <6>3
        <5>4. QED BY <5>2, <5>3
      <4>3. QED BY <3>1, <4>1, <4>2
    <3>3. QED BY <3>2 DEF Held, HasItem
  <2>5. ASSUME NEW d \in Sides, WriteIndex(d) \/ DropIndex(d) PROVE NoneBack
    <3>1. list' = list
      BY <2>5 DEF WriteIndex, DropIndex
    <3>2. QED BY <2>2, <3>1 DEF Held, HasItem
  <2>6. QED BY <1>1, <2>3, <2>4, <2>5, Zenon DEF ListNext
<1>2. ListInv /\ [ListNext]_listVars => [NoneBack]_listVars
  BY <1>1
<1>3. ListSpec => [][NoneBack]_listVars
  BY <1>2, ListInvariant, PTL DEF ListSpec
<1>4. QED BY <1>3 DEF NothingComesBack

-----------------------------------------------------------------------------
(* What a round that nobody disturbed is made of.                          *)

(* A trade that waits for its peer.                                        *)
Waits == {"hello", "prove", "have", "give"}

(* Undisturbed, the two sides' records are those that were announced, then *)
(* those with what the other gave.                                         *)
Undisturbed(d) ==
  LET me == bucket[d].recs   it == bucket[Peer(d)].recs   mine == tr[d].mine
      answered == Answered(d) /\ wire[d].ok
  IN  /\ tr[d].ph = "have" =>
           /\ mine = me
           /\ Asked(d, "have") => wire[d].have = mine
           /\ answered => wire[d].have = it /\ wire[d].give = Give(it, it, mine)
      /\ tr[d].ph = "give" =>
           /\ Asked(d, "give") => /\ me = MergeKeys(mine, Give(it, it, mine))
                                  /\ mine \in Store
                                  /\ wire[d].give = Give(mine, mine, it)
           /\ answered => Alike(me, it)

TradeOf(d) ==
  /\ tr[d].rounds \in 0 .. ROUNDS
  /\ tr[d].ph \in {"hello", "prove"} => tr[d].rounds = 0
  /\ tr[d].ph \in Waits => Peer(d) \in Dev \ {d}
  /\ tr[d].quiet => Undisturbed(d)

(* A device queues trades with others only.                                *)
Queued ==
  /\ work = [d \in Dev |-> work[d]]
  /\ \A d \in Dev : work[d] \in Seq((Dev \ {d}) \cup {SealedRound})

SideType == [proven : BOOLEAN, rounds : 0 .. ROUNDS, mine : BOOLEAN]

RoundInv ==
  /\ IInv
  /\ IsFiniteSet(joined) /\ Queued
  /\ ans \in [Dev -> [Dev -> SideType \cup {None}]]
  /\ \A d \in Dev : TradeOf(d)

(* A step that is not the trade's own leaves it as it was, or disturbs it. *)
Aside(e) ==
  /\ wire'[e] = wire[e]
  /\ tr'[e].ph = tr[e].ph /\ tr'[e].peer = tr[e].peer
  /\ tr'[e].mine = tr[e].mine /\ tr'[e].rounds = tr[e].rounds
  /\ tr'[e].quiet => /\ tr[e].quiet
                     /\ bucket'[e].recs = bucket[e].recs
                     /\ bucket'[Peer(e)].recs = bucket[Peer(e)].recs

(* What a step leaves aside keeps its invariant.                           *)
LEMMA AsideKeeps ==
  ASSUME NEW e \in Dev, TradeOf(e), Aside(e)
  PROVE  TradeOf(e)'
<1>1. tr'[e].quiet => Undisturbed(e)'
  <2>1. SUFFICES ASSUME tr'[e].quiet PROVE Undisturbed(e)'
    OBVIOUS
  <2>2. Undisturbed(e) /\ bucket'[e].recs = bucket[e].recs
        /\ bucket'[Peer(e)].recs = bucket[Peer(e)].recs
        /\ Peer(e)' = Peer(e) /\ wire'[e] = wire[e]
        /\ tr'[e].ph = tr[e].ph /\ tr'[e].mine = tr[e].mine
    BY <2>1 DEF TradeOf, Aside, Peer
  <2>3. QED BY <2>2 DEF Undisturbed, Asked, Answered
<1>2. QED BY <1>1 DEF TradeOf, Aside, Peer

(* What a disturbance does to the other trades.                            *)
LEMMA DisturbSets ==
  ASSUME Typed, NEW who, NEW but, NEW e \in Dev
  PROVE  LET t == Disturb(tr, who, but)[e]
         IN  /\ t.ph = tr[e].ph /\ t.peer = tr[e].peer
             /\ t.mine = tr[e].mine /\ t.rounds = tr[e].rounds
             /\ e # but /\ t.quiet => tr[e].quiet /\ e # who /\ tr[e].peer # who
             /\ e = but => t = tr[e]
<1>1. tr[e] \in TradeType
  BY TypedFacts
<1>2. Disturb(tr, who, but)[e] = IF e # but /\ (e = who \/ tr[e].peer = who)
                                 THEN [tr[e] EXCEPT !.quiet = FALSE] ELSE tr[e]
  BY DEF Disturb
<1>3. QED BY <1>1, <1>2 DEF TradeType

(* Whose trade it is not, when a bucket changes.                           *)
LEMMA OthersAside ==
  ASSUME Typed, NEW d, NEW x \in Dev, NEW b, NEW who,
         bucket' = [bucket EXCEPT ![x] = b], b.recs = bucket[x].recs \/ who = x,
         \A e \in Dev \ {d} : wire'[e] = wire[e] /\ tr'[e] = Disturb(tr, who, d)[e]
  PROVE  \A e \in Dev \ {d} : Aside(e)
<1> SUFFICES ASSUME NEW e \in Dev \ {d} PROVE Aside(e)
  OBVIOUS
<1>1. \A y : y # x \/ b.recs = bucket[x].recs => bucket'[y].recs = bucket[y].recs
  BY DEF Typed
<1>2. QED BY <1>1, DisturbSets DEF Aside, Peer

(* ... and when none does.                                                 *)
LEMMA StillAside ==
  ASSUME NEW d, bucket' = bucket,
         \A e \in Dev \ {d} : wire'[e] = wire[e] /\ tr'[e] = tr[e]
  PROVE  \A e \in Dev \ {d} : Aside(e)
BY DEF Aside, Peer

(* A device with no trade has nothing to keep.                             *)
LEMMA IdleTrade ==
  ASSUME NEW d \in Dev, tr'[d] = Idle
  PROVE  TradeOf(d)'
BY DEF TradeOf, Idle, Waits, ROUNDS

-----------------------------------------------------------------------------
(* The trades, action by action.                                           *)

(* What is written, put or read back elsewhere disturbs; what a device     *)
(* begins or ends has nothing to keep.                                     *)
LEMMA WriteTrades ==
  ASSUME RoundInv, NEW d \in Dev, Set(d) \/ Remove(d)
  PROVE  \A e \in Dev : TradeOf(e)'
<1>1. \E b : Write(d, b)
  BY DEF Set, Remove
<1>2. PICK b : Write(d, b)
  BY <1>1
<1>3. bucket' = [bucket EXCEPT ![d] = b] /\ tr' = Disturb(tr, d, 0) /\ wire' = wire
  BY <1>2 DEF Write
<1>4. Typed /\ \A e \in Dev : TradeOf(e)
  BY DEF RoundInv, IInv
<1>5. \A e \in Dev \ {0} : Aside(e)
  BY <1>3, <1>4, OthersAside
<1>6. 0 \notin Dev
  BY DevAssumption
<1>7. QED BY <1>4, <1>5, <1>6, AsideKeeps

(* A device that goes gives its trade up, and disturbs those with it.      *)
LEMMA LeaveTrades ==
  ASSUME RoundInv, NEW d \in Dev, Leave(d) \/ Restart(d)
  PROVE  \A e \in Dev : TradeOf(e)'
<1>1. Typed /\ \A e \in Dev : TradeOf(e)
  BY DEF RoundInv, IInv
<1>2. PICK b : bucket' = [bucket EXCEPT ![d] = b]
  <2>1. bucket = [bucket EXCEPT ![d] = bucket[d]]
    BY <1>1 DEF Typed
  <2>2. QED BY <2>1 DEF Leave, Restart
<1>3. /\ tr' = [Disturb(tr, d, d) EXCEPT ![d] = Idle] /\ wire' = [wire EXCEPT ![d] = None]
  BY DEF Leave, Restart, LeaveRoom
<1>4. DOMAIN Disturb(tr, d, d) = Dev /\ DOMAIN wire = Dev
  BY <1>1 DEF Disturb, Typed
<1>5. /\ tr'[d] = Idle
      /\ \A e \in Dev \ {d} : tr'[e] = Disturb(tr, d, d)[e] /\ wire'[e] = wire[e]
  BY <1>3, <1>4
<1>6. \A e \in Dev \ {d} : Aside(e)
  BY <1>1, <1>2, <1>5, OthersAside
<1>7. QED BY <1>1, <1>5, <1>6, AsideKeeps, IdleTrade

(* A trade ends: what it took disturbs the others.                         *)
LEMMA EndTrades ==
  ASSUME RoundInv, NEW d \in Dev, NEW b, NEW took, EndTrade(d, b, took)
  PROVE  \A e \in Dev : TradeOf(e)'
<1> DEFINE who == IF b = bucket[d] THEN 0 ELSE d
<1>1. Typed /\ \A e \in Dev : TradeOf(e)
  BY DEF RoundInv, IInv
<1>2. /\ tr' = [Disturb(tr, who, d) EXCEPT ![d] = Idle] /\ wire' = [wire EXCEPT ![d] = None]
      /\ bucket' = [bucket EXCEPT ![d] = b]
  BY DEF EndTrade
<1>3. DOMAIN Disturb(tr, who, d) = Dev /\ DOMAIN wire = Dev
  BY <1>1 DEF Disturb, Typed
<1>4. b.recs = bucket[d].recs \/ who = d
  OBVIOUS
<1> HIDE DEF who
<1>5. /\ tr'[d] = Idle
      /\ \A e \in Dev \ {d} : tr'[e] = Disturb(tr, who, d)[e] /\ wire'[e] = wire[e]
  BY <1>2, <1>3
<1>6. \A e \in Dev \ {d} : Aside(e)
  BY <1>1, <1>2, <1>4, <1>5, OthersAside
<1>7. QED BY <1>1, <1>5, <1>6, AsideKeeps, IdleTrade

(* A trade that fails has nothing to keep, and changes nothing.            *)
LEMMA ThrowTrades ==
  ASSUME RoundInv, NEW d \in Dev, ThrowTrade(d)
  PROVE  \A e \in Dev : TradeOf(e)'
<1>1. Typed /\ \A e \in Dev : TradeOf(e)
  BY DEF RoundInv, IInv
<1>2. /\ tr' = [tr EXCEPT ![d] = Idle] /\ wire' = [wire EXCEPT ![d] = None] /\ bucket' = bucket
  BY DEF ThrowTrade
<1>3. DOMAIN tr = Dev /\ DOMAIN wire = Dev
  BY <1>1 DEF Typed
<1>4. /\ tr'[d] = Idle
      /\ \A e \in Dev \ {d} : tr'[e] = tr[e] /\ wire'[e] = wire[e]
  BY <1>2, <1>3
<1>5. \A e \in Dev \ {d} : Aside(e)
  BY <1>2, <1>4, StillAside
<1>6. QED BY <1>1, <1>4, <1>5, AsideKeeps, IdleTrade

(* A trade begins with nothing announced.                                  *)
LEMMA StartTrades ==
  ASSUME RoundInv, NEW d \in Dev, StartTrade(d) \/ StartRound(d)
  PROVE  \A e \in Dev : TradeOf(e)'
<1>1. Typed /\ (\A e \in Dev : TradeOf(e)) /\ DOMAIN tr = Dev /\ DOMAIN wire = Dev
  BY DEF RoundInv, IInv, Typed
<1>2. bucket' = bucket /\ \A e \in Dev \ {d} : wire'[e] = wire[e] /\ tr'[e] = tr[e]
  BY <1>1 DEF StartTrade, StartRound, Ask
<1>3. \A e \in Dev \ {d} : Aside(e)
  BY <1>2, StillAside
<1>4. CASE StartTrade(d)
  <2>1. Head(work[d]) \in Dev \ {d}
    <3>1. work[d] \in Seq((Dev \ {d}) \cup {SealedRound}) /\ work[d] # <<>>
      BY <1>4 DEF RoundInv, Queued, StartTrade
    <3>2. Head(work[d]) \in (Dev \ {d}) \cup {SealedRound}
      BY <3>1, HeadTailProperties
    <3>3. Head(work[d]) \in Dev
      BY <1>4 DEF StartTrade
    <3>4. QED BY <3>2, <3>3, DevAssumption DEF SealedRound
  <2>2. tr'[d] = [Idle EXCEPT !.ph = "hello", !.peer = Head(work[d])]
    BY <1>1, <1>4 DEF StartTrade
  <2>3. /\ tr'[d].ph = "hello" /\ tr'[d].peer = Head(work[d]) /\ tr'[d].rounds = 0
        /\ tr'[d].quiet = FALSE
    BY <2>2 DEF Idle
  <2>4. TradeOf(d)'
    BY <2>1, <2>3 DEF TradeOf, Peer, ROUNDS
  <2>5. QED BY <1>1, <1>3, <2>4, AsideKeeps
<1>5. CASE StartRound(d)
  <2>1. CASE tr' = tr
    <3>1. wire' = wire
      BY <1>5 DEF StartRound
    <3>2. \A e \in Dev : Aside(e)
      BY <1>2, <2>1, <3>1, StillAside DEF Aside, Peer
    <3>3. QED BY <1>1, <3>2, AsideKeeps
  <2>2. CASE tr' # tr
    <3>1. tr'[d] = [Idle EXCEPT !.ph = "table", !.mine = server]
      BY <1>1, <1>5, <2>2 DEF StartRound
    <3>2. tr'[d].ph = "table" /\ tr'[d].rounds = 0 /\ tr'[d].quiet = FALSE
      BY <3>1 DEF Idle
    <3>3. TradeOf(d)'
      BY <3>2 DEF TradeOf, Waits, ROUNDS
    <3>4. QED BY <1>1, <1>3, <3>3, AsideKeeps
  <2>3. QED BY <2>1, <2>2
<1>6. QED BY <1>4, <1>5

(* What a device has is announced, and nobody has disturbed the round yet. *)
LEMMA SendHaveTrades ==
  ASSUME RoundInv, NEW d \in Dev, SendHave(d), tr[d].rounds < ROUNDS,
         tr[d].ph \in {"prove", "give"}
  PROVE  \A e \in Dev : TradeOf(e)'
<1>1. Typed /\ (\A e \in Dev : TradeOf(e)) /\ DOMAIN tr = Dev /\ DOMAIN wire = Dev
      /\ tr[d] \in TradeType
  BY TypedFacts DEF RoundInv, IInv, Typed
<1> DEFINE m == [dir |-> "ask", type |-> "have", have |-> bucket[d].recs]
<1>2. bucket' = bucket /\ \A e \in Dev \ {d} : wire'[e] = wire[e] /\ tr'[e] = tr[e]
  BY <1>1 DEF SendHave, Ask
<1>3. \A e \in Dev \ {d} : Aside(e)
  BY <1>2, StillAside
<1>4. /\ wire'[d] = m /\ tr'[d].ph = "have" /\ tr'[d].mine = bucket[d].recs
      /\ tr'[d].rounds = tr[d].rounds + 1 /\ tr'[d].peer = tr[d].peer
  BY <1>1 DEF SendHave, Ask, TradeType
<1>5. m.dir = "ask" /\ m.have = bucket[d].recs
  OBVIOUS
<1> HIDE DEF m
<1>6. tr'[d].rounds \in 0 .. ROUNDS /\ Peer(d)' \in Dev \ {d}
  BY <1>1, <1>4 DEF TradeOf, ROUNDS, Peer, Waits
<1>7. Undisturbed(d)'
  BY <1>2, <1>4, <1>5 DEF Undisturbed, Answered
<1>8. TradeOf(d)'
  BY <1>4, <1>6, <1>7 DEF TradeOf
<1>9. QED BY <1>1, <1>3, <1>8, AsideKeeps

(* Each HAVE announces what its device holds, and is undisturbed yet.      *)
LEMMA TalkTrades ==
  ASSUME RoundInv, NEW d \in Dev, SendProve(d) \/ Compare(d) \/ Settle(d)
  PROVE  \A e \in Dev : TradeOf(e)'
<1>1. Typed /\ (\A e \in Dev : TradeOf(e)) /\ DOMAIN tr = Dev /\ DOMAIN wire = Dev
      /\ tr[d] \in TradeType
  BY TypedFacts DEF RoundInv, IInv, Typed
<1>2. CASE \E took : EndTrade(d, bucket[d], took)
  BY <1>2, EndTrades
<1>3. CASE SendHave(d) /\ (Compare(d) \/ Settle(d)) /\ tr[d].rounds < ROUNDS
  BY <1>3, SendHaveTrades DEF Compare, Settle
<1>4. Compare(d) => tr[d].rounds < ROUNDS
  BY <1>1 DEF Compare, TradeOf, ROUNDS
<1>5. CASE SendProve(d) /\ wire[d].ok
  <2>1. /\ bucket' = bucket /\ tr' = [tr EXCEPT ![d].ph = "prove"]
        /\ \A e \in Dev \ {d} : wire'[e] = wire[e] /\ tr'[e] = tr[e]
    BY <1>1, <1>5 DEF SendProve, Ask
  <2>2. \A e \in Dev \ {d} : Aside(e)
    BY <2>1, StillAside
  <2>3. /\ tr'[d].ph = "prove" /\ tr'[d].rounds = tr[d].rounds /\ tr'[d].peer = tr[d].peer
        /\ tr[d].ph = "hello"
    BY <1>1, <1>5, <2>1 DEF SendProve, TradeType
  <2>4. TradeOf(d)'
    BY <1>1, <2>3 DEF TradeOf, Undisturbed, Peer, Waits, ROUNDS
  <2>5. QED BY <1>1, <2>2, <2>4, AsideKeeps
<1>6. QED BY <1>2, <1>3, <1>4, <1>5 DEF SendProve, Compare, Settle

(* The peer's records are taken in, and its own given.                     *)
LEMMA TakeGiveTrades ==
  ASSUME RoundInv, NEW d \in Dev, TakeGive(d)
  PROVE  \A e \in Dev : TradeOf(e)'
<1>1. Typed /\ (\A e \in Dev : TradeOf(e)) /\ DOMAIN tr = Dev /\ DOMAIN wire = Dev
      /\ DOMAIN bucket = Dev /\ tr[d] \in TradeType /\ bucket[d].recs \in Store
  BY TypedFacts DEF RoundInv, IInv, Typed
<1>2. CASE EndTrade(d, bucket[d], tr[d].took) \/ ThrowTrade(d)
  BY <1>2, EndTrades, ThrowTrades
<1>3. CASE wire[d].ok /\ ~Changed(bucket[d].recs, tr[d].mine, wire[d].have)
  <2> DEFINE recs == MergeKeys(bucket[d].recs, wire[d].give)
             g == Give(bucket[d].recs, tr[d].mine, wire[d].have)
             msg == [dir |-> "ask", type |-> "give", give |-> g]
             who == IF recs = bucket[d].recs THEN 0 ELSE d
             t == Disturb(tr, who, d)
  <2>1. PICK m \in PastAll(bucket[d].clock, recs) :
          /\ bucket' = [bucket EXCEPT ![d] = [recs |-> recs, clock |-> m]]
          /\ tr' = [t EXCEPT ![d].ph = "give", ![d].took = @ \/ recs # bucket[d].recs]
          /\ wire' = [wire EXCEPT ![d] = msg]
    BY <1>3 DEF TakeGive, Ask
  <2> DEFINE b == [recs |-> recs, clock |-> m]
             took == t[d].took \/ recs # bucket[d].recs
  <2>2. b.recs = recs /\ (b.recs = bucket[d].recs \/ who = d)
    OBVIOUS
  <2>3. bucket' = [bucket EXCEPT ![d] = b]
    BY <2>1
  <2>4. /\ DOMAIN t = Dev /\ t[d] = tr[d]
    BY <1>1, DisturbSets DEF Disturb
  <2>5. tr' = [t EXCEPT ![d] = [@ EXCEPT !.ph = "give", !.took = took]]
    BY <2>1, <2>4
  <2>6. msg.dir = "ask" /\ msg.give = g
    OBVIOUS
  <2> HIDE DEF who, b, msg, took
  <2>7. \A e \in Dev \ {d} : wire'[e] = wire[e] /\ tr'[e] = t[e]
    BY <1>1, <2>1, <2>4, <2>5
  <2>8. \A e \in Dev \ {d} : Aside(e)
    BY <1>1, <2>2, <2>3, <2>7, OthersAside
  <2>9. /\ tr'[d].ph = "give" /\ tr'[d].peer = tr[d].peer /\ tr'[d].mine = tr[d].mine
        /\ tr'[d].rounds = tr[d].rounds /\ tr'[d].quiet = tr[d].quiet
    BY <1>1, <2>4, <2>5 DEF TradeType
  <2>10. /\ bucket'[d].recs = recs /\ wire'[d] = msg
         /\ \A e \in Dev \ {d} : bucket'[e] = bucket[e]
    BY <1>1, <2>1, <2>2, <2>3
  <2>11. tr[d].ph = "have" /\ Answered(d) /\ Peer(d) \in Dev \ {d}
    BY <1>1 DEF TakeGive, TradeOf, Waits
  <2>12. ASSUME tr[d].quiet
         PROVE  Undisturbed(d)'
    <3> DEFINE it == bucket[Peer(d)].recs
               mine == tr[d].mine
    <3>1. mine = bucket[d].recs /\ wire[d].have = it /\ wire[d].give = Give(it, it, mine)
      BY <1>1, <1>3, <2>11, <2>12 DEF TradeOf, Undisturbed
    <3>2. recs = MergeKeys(mine, Give(it, it, mine)) /\ g = Give(mine, mine, it) /\ mine \in Store
      BY <1>1, <3>1
    <3>3. Peer(d)' = Peer(d) /\ bucket'[Peer(d)].recs = it
      BY <2>9, <2>10, <2>11 DEF Peer
    <3> HIDE DEF recs, g, it, mine
    <3>4. QED BY <2>6, <2>9, <2>10, <3>2, <3>3 DEF Undisturbed, Asked, Answered, mine
  <2>13. TradeOf(d)'
    BY <1>1, <2>9, <2>11, <2>12 DEF TradeOf, Peer
  <2>14. QED BY <1>1, <2>8, <2>13, AsideKeeps
<1>4. QED BY <1>2, <1>3 DEF TakeGive

(* The peer answers.                                                       *)
LEMMA AnswersTrades ==
  ASSUME RoundInv, NEW d \in Dev,
         AnswerHello(d) \/ AnswerProve(d) \/ AnswerHave(d) \/ AnswerGive(d)
  PROVE  \A e \in Dev : TradeOf(e)'
<1> DEFINE p == Peer(d)
           it == bucket[p].recs
           mine == tr[d].mine
<1>1. Typed /\ (\A e \in Dev : TradeOf(e)) /\ DOMAIN tr = Dev /\ DOMAIN wire = Dev
      /\ DOMAIN bucket = Dev /\ tr[d] \in TradeType /\ Fits(wire[d], tr[d].ph)
  BY TypedFacts DEF RoundInv, IInv, Typed
<1>2. /\ Asked(d, "hello") => tr[d].ph = "hello"
      /\ Asked(d, "prove") => tr[d].ph = "prove"
      /\ Asked(d, "have") => tr[d].ph = "have"
      /\ Asked(d, "give") => tr[d].ph = "give"
  BY <1>1 DEF Asked, Fits, HelloAsk, ProveAsk, HaveAsk, GiveAsk, YesAnswer, NoAnswer,
              StateAnswer, HaveAnswer
<1>3. tr[d].ph \in Waits /\ p \in Dev \ {d} /\ it \in Store
  BY <1>1, <1>2, TypedFacts DEF AnswerHello, AnswerProve, AnswerHave, AnswerGive, TradeOf, Waits
<1> HIDE DEF it, mine, p
<1>4. ASSUME NEW m, wire' = [wire EXCEPT ![d] = m], m.dir = "answer", bucket' = bucket, tr' = tr,
             m.ok /\ tr[d].quiet /\ tr[d].ph = "have" => m.have = it /\ m.give = Give(it, it, mine),
             m.ok => tr[d].ph # "give"
      PROVE  \A e \in Dev : TradeOf(e)'
  <2>1. \A e \in Dev \ {d} : Aside(e)
    BY <1>4, StillAside
  <2>2. wire'[d] = m /\ ~Asked(d, "have")' /\ ~Asked(d, "give")'
    BY <1>1, <1>4 DEF Asked
  <2>3. ASSUME tr[d].quiet PROVE Undisturbed(d)'
    <3>1. Undisturbed(d)
      BY <1>1, <2>3 DEF TradeOf
    <3>2. QED BY <1>4, <2>2, <2>3, <3>1 DEF Undisturbed, Peer, it, p, mine
  <2>4. TradeOf(d)'
    BY <1>1, <1>4, <2>3 DEF TradeOf, Peer
  <2>5. QED BY <1>1, <2>1, <2>4, AsideKeeps
<1>5. Refused.dir = "answer" /\ ~Refused.ok
  BY DEF Refused
<1>6. CASE wire' = [wire EXCEPT ![d] = Refused] /\ bucket' = bucket /\ tr' = tr
  BY <1>4, <1>5, <1>6
<1>7. CASE AnswerHello(d)
  <2> DEFINE m == [dir |-> "answer", ok |-> TRUE]
  <2>1. wire' = [wire EXCEPT ![d] = m] /\ m.dir = "answer" /\ bucket' = bucket /\ tr' = tr
        /\ tr[d].ph = "hello"
    BY <1>2, <1>7 DEF AnswerHello, Reply
  <2> HIDE DEF m
  <2>2. QED BY <1>4, <2>1
<1>8. CASE AnswerProve(d) /\ wire' # [wire EXCEPT ![d] = Refused]
  <2> DEFINE m == [dir |-> "answer", ok |-> TRUE, state |-> it]
  <2>1. wire' = [wire EXCEPT ![d] = m] /\ m.dir = "answer" /\ bucket' = bucket /\ tr' = tr
        /\ tr[d].ph = "prove"
    BY <1>2, <1>8 DEF AnswerProve, Reply, it, p
  <2> HIDE DEF m
  <2>2. QED BY <1>4, <2>1
<1>9. CASE AnswerHave(d) /\ wire' # [wire EXCEPT ![d] = Refused]
  <2> DEFINE m == [dir |-> "answer", ok |-> TRUE, have |-> it, give |-> Give(it, it, wire[d].have)]
  <2>1. wire' = [wire EXCEPT ![d] = m] /\ m.dir = "answer" /\ bucket' = bucket /\ tr' = tr
        /\ tr[d].ph = "have" /\ m.have = it /\ m.give = Give(it, it, wire[d].have)
        /\ Asked(d, "have")
    BY <1>2, <1>9 DEF AnswerHave, Reply, it, p
  <2> HIDE DEF m
  <2>2. tr[d].quiet => wire[d].have = mine
    BY <1>1, <2>1 DEF TradeOf, Undisturbed, mine
  <2>3. QED BY <1>4, <2>1, <2>2
<1>10. CASE AnswerGive(d) /\ wire' # [wire EXCEPT ![d] = Refused]
  <2> DEFINE recs == MergeKeys(it, wire[d].give)
             m == [dir |-> "answer", ok |-> TRUE, state |-> recs]
             who == IF recs # it THEN p ELSE 0
             t == Disturb(tr, who, d)
  <2>1. PICK c \in PastAll(bucket[p].clock, recs) :
          /\ bucket' = [bucket EXCEPT ![p] = [recs |-> recs, clock |-> c]]
          /\ tr' = t
          /\ wire' = [wire EXCEPT ![d] = m]
    BY <1>10 DEF AnswerGive, Reply, it, p
  <2> DEFINE b == [recs |-> recs, clock |-> c]
  <2>2. /\ bucket' = [bucket EXCEPT ![p] = b] /\ b.recs = recs
        /\ b.recs = bucket[p].recs \/ who = p
    BY <2>1 DEF it
  <2>3. m.dir = "answer"
    OBVIOUS
  <2> HIDE DEF b, who, m, t
  <2>4. \A e \in Dev \ {d} : wire'[e] = wire[e] /\ tr'[e] = t[e]
    BY <1>1, <2>1
  <2>5. \A e \in Dev \ {d} : Aside(e)
    BY <1>1, <1>3, <2>2, <2>4, OthersAside DEF t
  <2>6. tr'[d] = tr[d] /\ wire'[d] = m
    BY <1>1, <2>1, DisturbSets DEF t
  <2>7. bucket'[p].recs = recs /\ bucket'[d].recs = bucket[d].recs
    BY <1>1, <1>3, <2>2
  <2>8. tr[d].ph = "give" /\ Asked(d, "give")
    BY <1>2, <1>10 DEF AnswerGive
  <2>9. ASSUME tr[d].quiet PROVE Undisturbed(d)'
    <3>1. /\ bucket[d].recs = MergeKeys(mine, Give(it, it, mine)) /\ mine \in Store
          /\ wire[d].give = Give(mine, mine, it)
      BY <1>1, <2>8, <2>9 DEF TradeOf, Undisturbed, it, p, mine
    <3>2. Alike(bucket[d].recs, recs)
      BY <1>3, <3>1, RoundMakesAlike
    <3>3. Peer(d)' = p
      BY <2>6 DEF p, Peer
    <3> HIDE DEF recs
    <3>4. QED BY <2>3, <2>6, <2>7, <2>8, <3>2, <3>3 DEF Undisturbed, Asked, Answered
  <2>10. TradeOf(d)'
    BY <1>1, <2>6, <2>9 DEF TradeOf, Peer
  <2>11. QED BY <1>1, <2>5, <2>10, AsideKeeps
<1>11. AnswerProve(d) \/ AnswerHave(d) => bucket' = bucket /\ tr' = tr
  BY DEF AnswerProve, AnswerHave
<1>12. AnswerGive(d) /\ wire' = [wire EXCEPT ![d] = Refused] =>
         \/ bucket' = bucket /\ tr' = tr
         \/ \E s : wire' = [wire EXCEPT ![d] = [dir |-> "answer", ok |-> TRUE, state |-> s]]
  BY DEF AnswerGive, Reply
<1>13. \A s : [wire EXCEPT ![d] = [dir |-> "answer", ok |-> TRUE, state |-> s]]
               # [wire EXCEPT ![d] = Refused]
  <2>1. SUFFICES ASSUME NEW s PROVE [wire EXCEPT ![d] = [dir |-> "answer", ok |-> TRUE, state |-> s]][d]
                                      # [wire EXCEPT ![d] = Refused][d]
    OBVIOUS
  <2>2. [dir |-> "answer", ok |-> TRUE, state |-> s].ok = TRUE
    OBVIOUS
  <2>3. QED BY <1>1, <1>5, <2>2
<1>14. QED BY <1>6, <1>7, <1>8, <1>9, <1>10, <1>11, <1>12, <1>13

(* A round takes rows in and puts them.                                    *)
LEMMA RoundTrades ==
  ASSUME RoundInv, NEW d \in Dev, TakeRows(d) \/ PutRows(d)
  PROVE  \A e \in Dev : TradeOf(e)'
<1>1. Typed /\ (\A e \in Dev : TradeOf(e)) /\ DOMAIN tr = Dev /\ DOMAIN wire = Dev
      /\ tr[d] \in TradeType
  BY TypedFacts DEF RoundInv, IInv, Typed
<1>2. CASE \E b, took : EndTrade(d, b, took)
  BY <1>2, EndTrades
<1>3. CASE TakeRows(d) /\ ~\E b, took : EndTrade(d, b, took)
  <2> DEFINE got == OnlyKeys(server, RowsToGet(bucket[d].recs, tr[d].mine))
             recs == MergeKeys(bucket[d].recs, got)
             took == recs # bucket[d].recs
             rows == OnlyKeys(recs, RowsToPut(recs, tr[d].mine))
             who == IF took THEN d ELSE 0
             t == Disturb(tr, who, d)
  <2>1. PICK c \in PastAll(bucket[d].clock, recs) :
          /\ bucket' = [bucket EXCEPT ![d] = [recs |-> recs, clock |-> c]]
          /\ tr' = [t EXCEPT ![d].ph = "put", ![d].took = took, ![d].mine = rows]
          /\ wire' = wire
    BY <1>3 DEF TakeRows
  <2> DEFINE b == [recs |-> recs, clock |-> c]
  <2>2. bucket' = [bucket EXCEPT ![d] = b] /\ (b.recs = bucket[d].recs \/ who = d)
    BY <2>1
  <2>3. DOMAIN t = Dev /\ t[d] = tr[d]
    BY <1>1, DisturbSets DEF Disturb
  <2>4. tr' = [t EXCEPT ![d] = [@ EXCEPT !.ph = "put", !.took = took, !.mine = rows]]
    BY <2>1, <2>3
  <2> HIDE DEF b, who, took, rows, t
  <2>5. \A e \in Dev \ {d} : wire'[e] = wire[e] /\ tr'[e] = t[e]
    BY <2>1, <2>3, <2>4
  <2>6. \A e \in Dev \ {d} : Aside(e)
    BY <1>1, <2>2, <2>5, OthersAside DEF t
  <2>7. tr'[d].ph = "put" /\ tr'[d].rounds = tr[d].rounds
    BY <1>1, <2>3, <2>4 DEF TradeType
  <2>8. TradeOf(d)'
    BY <1>1, <2>7 DEF TradeOf, Undisturbed, Waits
  <2>9. QED BY <1>1, <2>6, <2>8, AsideKeeps
<1>4. PutRows(d) => \E b, took : EndTrade(d, b, took)
  BY DEF PutRows
<1>5. QED BY <1>2, <1>3, <1>4

(* No step but those of the round itself makes it other than it was.       *)
LEMMA TradesKept ==
  ASSUME RoundInv, [Next]_vars
  PROVE  \A e \in Dev : TradeOf(e)'
<1>1. CASE UNCHANGED <<bucket, tr, wire>>
  BY <1>1, AsideKeeps DEF RoundInv, Aside, Peer
<1>2. ASSUME NEW d \in Dev, Join(d) PROVE UNCHANGED <<bucket, tr, wire>>
  BY <1>2 DEF Join
<1>3. ASSUME NEW d \in Dev, GiveUp(d) \/ FailRound(d) PROVE ThrowTrade(d)
  BY <1>3 DEF GiveUp, FailRound
<1>4. UNCHANGED vars => UNCHANGED <<bucket, tr, wire>>
  BY DEF vars
<1>5. CASE Next
  <2>1. PICK d \in Dev :
          \/ Set(d) \/ Remove(d)
          \/ Join(d) \/ Leave(d) \/ Restart(d)
          \/ TradeStep(d) \/ GiveUp(d)
          \/ RoundStep(d) \/ FailRound(d)
    BY <1>5 DEF Next
  <2>2. QED
    BY <1>1, <1>2, <1>3, <2>1, WriteTrades, LeaveTrades, ThrowTrades, StartTrades, TalkTrades,
       TakeGiveTrades, AnswersTrades, RoundTrades
    DEF TradeStep, RoundStep
<1>6. QED BY <1>1, <1>4, <1>5

-----------------------------------------------------------------------------
(* What is queued, and what the answering side remembers.                  *)

(* What is due is with other devices.                                      *)
LEMMA DueIs ==
  ASSUME NEW d \in Dev, NEW here \in SUBSET Dev, IsFiniteSet(here), NEW due \in Due(d, here)
  PROVE  due \in Seq((Dev \ {d}) \cup {SealedRound})
<1> DEFINE Others == (Dev \ {d}) \cup {SealedRound}
           peers == {p \in here \ {d} : Starts(d, p)}
<1>1. IsFiniteSet(peers)
  BY FS_Subset
<1>2. Cardinality(peers) \in Nat
  BY <1>1, FS_CardinalityType
<1>3. PICK s \in Trades(d, here) : due = s \o <<SealedRound>>
  BY DEF Due
<1>4. s \in [1 .. Cardinality(peers) -> peers]
  BY <1>3 DEF Trades
<1>5. peers \subseteq Others
  OBVIOUS
<1> HIDE DEF peers
<1>6. s \in [1 .. Cardinality(peers) -> Others]
  BY <1>4, <1>5
<1>7. <<SealedRound>> \in Seq(Others)
  OBVIOUS
<1> HIDE DEF Others
<1>8. s \in Seq(Others)
  BY <1>2, <1>6, SeqDef
<1>9. due \in Seq(Others)
  BY <1>3, <1>7, <1>8, ConcatProperties
<1>10. QED BY <1>9 DEF Others

(* A device is in the room, or queues its work, or not.                    *)
LEMMA QueueKept ==
  ASSUME RoundInv, [Next]_vars
  PROVE  IsFiniteSet(joined') /\ Queued'
<1> DEFINE Others(d) == (Dev \ {d}) \cup {SealedRound}
<1>1. /\ IsFiniteSet(joined) /\ joined \in SUBSET Dev
      /\ work = [d \in Dev |-> work[d]] /\ \A d \in Dev : work[d] \in Seq(Others(d))
  BY DEF RoundInv, IInv, Typed, Queued
<1>2. ASSUME NEW d \in Dev, NEW q \in Seq(Others(d)), work' = [work EXCEPT ![d] = q]
      PROVE  Queued'
  <2> DEFINE Q(e) == Seq(Others(e))
  <2>1. work' = [e \in Dev |-> work'[e]] /\ \A e \in Dev : work'[e] = IF e = d THEN q ELSE work[e]
    BY <1>1, <1>2
  <2>2. q \in Q(d) /\ \A e \in Dev : work[e] \in Q(e)
    BY <1>1
  <2> HIDE DEF Q
  <2>3. \A e \in Dev : work'[e] \in Q(e)
    BY <2>1, <2>2
  <2>4. QED BY <2>1, <2>3 DEF Queued, Q
<1>3. CASE UNCHANGED <<joined, work>>
  BY <1>1, <1>3 DEF Queued
<1>4. ASSUME NEW d \in Dev, Set(d) \/ Remove(d)
      PROVE  IsFiniteSet(joined') /\ Queued'
  <2>1. PICK b : Write(d, b)
    BY <1>4 DEF Set, Remove
  <2>2. PICK due \in IF d \in joined THEN Due(d, joined) ELSE {<<>>} :
          work' = [work EXCEPT ![d] = @ \o due]
    BY <2>1 DEF Write
  <2>3. due \in Seq(Others(d))
    <3>1. ASSUME d \in joined PROVE due \in Seq(Others(d))
      <4>1. due \in Due(d, joined)
        BY <2>2, <3>1
      <4>2. QED BY <1>1, <4>1, DueIs, Zenon
    <3>2. <<>> \in Seq(Others(d))
      BY EmptySeq
    <3>3. d \notin joined => due = <<>>
      BY <2>2
    <3>4. QED BY <3>1, <3>2, <3>3
  <2>4. work[d] \o due \in Seq(Others(d))
    BY <1>1, <2>3, ConcatProperties, Zenon
  <2>5. Queued'
    BY <1>2, <2>2, <2>4
  <2>6. QED BY <1>1, <2>1, <2>5 DEF Write
<1>5. ASSUME NEW d \in Dev, Join(d)
      PROVE  IsFiniteSet(joined') /\ Queued'
  <2>1. IsFiniteSet(joined')
    BY <1>1, <1>5, FS_AddElement DEF Join
  <2>2. PICK due \in Due(d, joined) :
          work' = [e \in Dev |->
            IF e = d THEN work[d] \o due
            ELSE IF e \in joined /\ Starts(e, d) THEN Append(work[e], d) ELSE work[e]]
    BY <1>5 DEF Join
  <2>3. due \in Seq(Others(d))
    BY <1>1, <2>2, DueIs
  <2>4. work[d] \o due \in Seq(Others(d))
    BY <1>1, <2>3, ConcatProperties, Zenon
  <2>5. ASSUME NEW e \in Dev \ {d} PROVE Append(work[e], d) \in Seq(Others(e))
    <3>1. d \in Others(e) /\ work[e] \in Seq(Others(e))
      BY <1>1
    <3>2. QED BY <3>1, AppendProperties, Zenon
  <2> DEFINE Q(e) == Seq(Others(e))
  <2>6. /\ work[d] \o due \in Q(d) /\ \A e \in Dev : work[e] \in Q(e)
        /\ \A e \in Dev \ {d} : Append(work[e], d) \in Q(e)
    BY <1>1, <2>4, <2>5
  <2> HIDE DEF Q
  <2>7. \A e \in Dev : work'[e] \in Q(e)
    BY <2>2, <2>6
  <2>8. work' = [e \in Dev |-> work'[e]]
    BY <2>2
  <2>9. QED BY <2>1, <2>7, <2>8 DEF Queued, Q
<1>6. ASSUME NEW d \in Dev, LeaveRoom(d)
      PROVE  IsFiniteSet(joined') /\ Queued'
  <2>1. IsFiniteSet(joined')
    BY <1>1, <1>6, FS_RemoveElement DEF LeaveRoom
  <2>2. <<>> \in Seq(Others(d))
    BY EmptySeq
  <2>3. QED BY <1>2, <1>6, <2>1, <2>2 DEF LeaveRoom
<1>7. ASSUME NEW d \in Dev, StartTrade(d) \/ StartRound(d)
      PROVE  IsFiniteSet(joined') /\ Queued'
  <2>1. work[d] # <<>> /\ work' = [work EXCEPT ![d] = Tail(work[d])] /\ joined' = joined
    BY <1>7 DEF StartTrade, StartRound
  <2>2. Tail(work[d]) \in Seq(Others(d))
    BY <1>1, <2>1, HeadTailProperties, Zenon
  <2>3. QED BY <1>1, <1>2, <2>1, <2>2
<1>8. ASSUME NEW d \in Dev, PutRows(d)
      PROVE  IsFiniteSet(joined') /\ Queued'
  <2>1. /\ work' = [e \in Dev |-> IF e \in Told(d, tr[d].mine)
                                  THEN Append(work[e], SealedRound) ELSE work[e]]
        /\ joined' = joined
    BY <1>8 DEF PutRows
  <2>2. ASSUME NEW e \in Dev PROVE Append(work[e], SealedRound) \in Seq(Others(e))
    <3>1. SealedRound \in Others(e) /\ work[e] \in Seq(Others(e))
      BY <1>1
    <3>2. QED BY <3>1, AppendProperties, Zenon
  <2> DEFINE Q(e) == Seq(Others(e))
  <2>3. \A e \in Dev : work[e] \in Q(e) /\ Append(work[e], SealedRound) \in Q(e)
    BY <1>1, <2>2
  <2> HIDE DEF Q
  <2>4. \A e \in Dev : work'[e] \in Q(e)
    BY <2>1, <2>3
  <2>5. work' = [e \in Dev |-> work'[e]]
    BY <2>1
  <2>6. QED BY <1>1, <2>1, <2>4, <2>5 DEF Queued, Q
<1>9. UNCHANGED vars => UNCHANGED <<joined, work>>
  BY DEF vars
<1>10. CASE Next
  <2>1. PICK d \in Dev :
          \/ Set(d) \/ Remove(d)
          \/ Join(d) \/ Leave(d) \/ Restart(d)
          \/ TradeStep(d) \/ GiveUp(d)
          \/ RoundStep(d) \/ FailRound(d)
    BY <1>10 DEF Next
  <2>2. CASE Leave(d) \/ Restart(d)
    BY <1>6, <2>2 DEF Leave, Restart
  <2>3. CASE \/ SendProve(d) \/ Compare(d) \/ TakeGive(d) \/ Settle(d)
             \/ AnswerHello(d) \/ AnswerProve(d) \/ AnswerHave(d) \/ AnswerGive(d)
             \/ GiveUp(d) \/ TakeRows(d) \/ FailRound(d)
    BY <1>3, <2>3 DEF SendProve, Compare, TakeGive, Settle, AnswerHello, AnswerProve, AnswerHave,
       AnswerGive, GiveUp, TakeRows, FailRound
  <2>4. QED
    BY <1>4, <1>5, <1>7, <1>8, <2>1, <2>2, <2>3 DEF TradeStep, RoundStep
<1>11. QED BY <1>3, <1>9, <1>10

(* The answering side remembers a trade it has heard of, and its rounds.   *)
LEMMA SidesKept ==
  ASSUME RoundInv, [Next]_vars
  PROVE  ans' \in [Dev -> [Dev -> SideType \cup {None}]]
<1> DEFINE SideOrNone == SideType \cup {None}
<1>1. ans \in [Dev -> [Dev -> SideOrNone]] /\ Typed /\ \A d \in Dev : TradeOf(d)
  BY DEF RoundInv, IInv
<1>2. ASSUME NEW p \in Dev, NEW d \in Dev, NEW s \in SideOrNone, ans' = [ans EXCEPT ![p][d] = s]
      PROVE  ans' \in [Dev -> [Dev -> SideOrNone]]
  <2> HIDE DEF SideOrNone
  <2>1. ans' = [ans EXCEPT ![p] = [ans[p] EXCEPT ![d] = s]]
    BY <1>2
  <2>2. [ans[p] EXCEPT ![d] = s] \in [Dev -> SideOrNone]
    BY <1>1
  <2>3. QED BY <1>1, <2>1, <2>2
<1>3. ASSUME NEW d \in Dev, AnswerHello(d) \/ AnswerProve(d) \/ AnswerHave(d) \/ AnswerGive(d)
      PROVE  \E p \in Dev : \E s \in SideOrNone : ans' = [ans EXCEPT ![p][d] = s]
  <2> DEFINE p == Peer(d)
             t == ans[p][d]
  <2>1. p \in Dev
    <3>1. Fits(wire[d], tr[d].ph)
      BY <1>1 DEF Typed
    <3>2. tr[d].ph \in Waits
      BY <1>3, <3>1 DEF AnswerHello, AnswerProve, AnswerHave, AnswerGive, Asked, Fits, Waits
    <3>3. QED BY <1>1, <3>2 DEF TradeOf
  <2>2. t \in SideOrNone /\ None \in SideOrNone
    BY <1>1, <2>1
  <2>3. CASE ans' = [ans EXCEPT ![p][d] = None]
    BY <2>1, <2>2, <2>3
  <2>4. CASE AnswerHello(d)
    <3>1. ans' = [ans EXCEPT ![p][d] = [proven |-> FALSE, rounds |-> 0, mine |-> FALSE]]
      BY <2>4 DEF AnswerHello
    <3>2. [proven |-> FALSE, rounds |-> 0, mine |-> FALSE] \in SideOrNone
      BY DEF SideType, ROUNDS
    <3>3. QED BY <2>1, <3>1, <3>2
  <2>5. CASE AnswerProve(d) /\ t # None
    <3>1. ans' = [ans EXCEPT ![p][d] = [@ EXCEPT !.proven = TRUE]]
      BY <2>5 DEF AnswerProve
    <3>2. [t EXCEPT !.proven = TRUE] \in SideOrNone
      BY <2>2, <2>5 DEF SideType
    <3>3. ans' = [ans EXCEPT ![p][d] = [t EXCEPT !.proven = TRUE]]
      BY <1>1, <2>1, <3>1
    <3>4. QED BY <2>1, <3>2, <3>3
  <2>6. CASE AnswerHave(d) /\ t # None /\ t.rounds < ROUNDS
    <3> DEFINE n == t.rounds + 1
    <3>1. n \in 0 .. ROUNDS
      BY <2>2, <2>6 DEF SideType, ROUNDS
    <3>2. \/ ans' = [ans EXCEPT ![p][d] = None]
          \/ ans' = [ans EXCEPT ![p][d].rounds = @ + 1, ![p][d].mine = TRUE]
      BY <2>6 DEF AnswerHave, Forget
    <3>3. CASE ans' = [ans EXCEPT ![p][d].rounds = @ + 1, ![p][d].mine = TRUE]
      <4>1. ans' = [ans EXCEPT ![p][d] = [[t EXCEPT !.rounds = n] EXCEPT !.mine = TRUE]]
        BY <1>1, <2>1, <3>3
      <4> HIDE DEF n
      <4>2. [[t EXCEPT !.rounds = n] EXCEPT !.mine = TRUE] \in SideOrNone
        BY <2>2, <2>6, <3>1 DEF SideType
      <4>3. QED BY <2>1, <4>1, <4>2
    <3>4. QED BY <2>3, <3>2, <3>3
  <2>7. CASE AnswerGive(d) /\ t # None
    <3>1. ans' # [ans EXCEPT ![p][d] = None] => ans' = [ans EXCEPT ![p][d] = [t EXCEPT !.mine = FALSE]]
      BY <1>1, <2>1, <2>7 DEF AnswerGive, Forget
    <3>2. [t EXCEPT !.mine = FALSE] \in SideOrNone
      BY <2>2, <2>7 DEF SideType
    <3>3. QED BY <2>1, <2>3, <3>1, <3>2
  <2>8. AnswerHave(d) /\ t # None /\ ~(t.rounds < ROUNDS) => ans' = [ans EXCEPT ![p][d] = None]
    <3>1. t # None => t.rounds \in Nat
      BY <2>2 DEF SideType
    <3>2. QED BY <3>1 DEF AnswerHave, Forget, ROUNDS
  <2>9. t = None /\ (AnswerProve(d) \/ AnswerHave(d) \/ AnswerGive(d)) =>
          ans' = [ans EXCEPT ![p][d] = None]
    BY DEF AnswerProve, AnswerHave, AnswerGive, Forget
  <2>10. QED BY <1>3, <2>3, <2>4, <2>5, <2>6, <2>7, <2>8, <2>9
<1>4. ASSUME NEW d \in Dev, Restart(d) PROVE ans' \in [Dev -> [Dev -> SideOrNone]]
  <2>1. ans' = [ans EXCEPT ![d] = [e \in Dev |-> None]]
    BY <1>4 DEF Restart
  <2>2. None \in SideOrNone
    OBVIOUS
  <2> HIDE DEF SideOrNone
  <2>3. QED BY <1>1, <2>1, <2>2
<1>5. UNCHANGED vars => ans' = ans
  BY DEF vars
<1>6. CASE Next
  <2>1. PICK d \in Dev :
          \/ Set(d) \/ Remove(d)
          \/ Join(d) \/ Leave(d) \/ Restart(d)
          \/ TradeStep(d) \/ GiveUp(d)
          \/ RoundStep(d) \/ FailRound(d)
    BY <1>6 DEF Next
  <2>2. CASE Set(d) \/ Remove(d)
    BY <1>1, <2>2 DEF Set, Remove, Write
  <2>3. CASE \/ Join(d) \/ Leave(d) \/ StartTrade(d) \/ StartRound(d)
             \/ SendProve(d) \/ Compare(d) \/ TakeGive(d) \/ Settle(d)
             \/ GiveUp(d) \/ TakeRows(d) \/ PutRows(d) \/ FailRound(d)
    BY <1>1, <2>3 DEF Join, Leave, StartTrade, StartRound, SendProve, Compare, TakeGive, Settle,
       GiveUp, TakeRows, PutRows, FailRound
  <2>4. CASE AnswerHello(d) \/ AnswerProve(d) \/ AnswerHave(d) \/ AnswerGive(d)
    BY <1>2, <1>3, <2>4
  <2>5. QED BY <1>4, <2>1, <2>2, <2>3, <2>4 DEF TradeStep, RoundStep
<1>7. QED BY <1>1, <1>5, <1>6

(* The rounds of trades keep their invariant.                              *)
LEMMA RoundInvKept == RoundInv /\ [Next]_vars => RoundInv'
<1> SUFFICES ASSUME RoundInv, [Next]_vars PROVE RoundInv'
  OBVIOUS
<1>1. IInv'
  BY NextKeeps DEF RoundInv
<1>2. QED BY <1>1, TradesKept, QueueKept, SidesKept DEF RoundInv

(* At first nothing is traded, queued or remembered.                       *)
LEMMA RoundInvAtFirst == Init => RoundInv
<1> SUFFICES ASSUME Init PROVE RoundInv
  OBVIOUS
<1>1. IInv /\ IsFiniteSet(joined)
  BY InitHolds, FS_EmptySet DEF Init
<1>2. Queued
  <2>1. \A d \in Dev : <<>> \in Seq((Dev \ {d}) \cup {SealedRound})
    BY EmptySeq
  <2>2. QED BY <2>1 DEF Init, Queued
<1>3. ans \in [Dev -> [Dev -> SideType \cup {None}]]
  <2>1. None \in SideType \cup {None}
    OBVIOUS
  <2> HIDE DEF SideType
  <2>2. QED BY <2>1 DEF Init
<1>4. \A d \in Dev : TradeOf(d)
  BY DEF Init, TradeOf, Idle, Waits, ROUNDS
<1>5. QED BY <1>1, <1>2, <1>3, <1>4 DEF RoundInv

(* What a trade in each phase has announced and given, while nobody        *)
(* disturbs it, and what waits in the queues, at any time.                 *)
THEOREM RoundInvariant == Spec => []RoundInv
BY RoundInvAtFirst, RoundInvKept, PTL DEF Spec

(* A round of a trade that nothing else disturbed leaves both sides with   *)
(* the same values, for any devices, keys, values and dates.               *)
THEOREM QuietRoundsAgree == Spec => []QuietRoundAgrees
<1>1. RoundInv => QuietRoundAgrees
  <2> SUFFICES ASSUME RoundInv PROVE QuietRoundAgrees
    OBVIOUS
  <2>1. Typed /\ Queued /\ ans \in [Dev -> [Dev -> SideType \cup {None}]]
        /\ \A d \in Dev : TradeOf(d) /\ tr[d] \in TradeType /\ Fits(wire[d], tr[d].ph)
    BY TypedFacts DEF RoundInv, IInv, Typed
  <2>2. work \in [Dev -> Seq(Dev \cup {SealedRound})]
    <3>1. ASSUME NEW d \in Dev PROVE work[d] \in Seq(Dev \cup {SealedRound})
      <4>1. work[d] \in Seq((Dev \ {d}) \cup {SealedRound})
        BY <2>1 DEF Queued
      <4>2. (Dev \ {d}) \cup {SealedRound} \subseteq Dev \cup {SealedRound}
        OBVIOUS
      <4>3. QED BY <4>1, <4>2, SeqMonotonic, Zenon
    <3> DEFINE Q == Seq(Dev \cup {SealedRound})
    <3>2. \A d \in Dev : work[d] \in Q
      BY <3>1
    <3> HIDE DEF Q
    <3>3. work \in [Dev -> Q]
      BY <2>1, <3>2 DEF Queued
    <3>4. QED BY <3>3 DEF Q
  <2>3. ASSUME NEW d \in Dev
        PROVE  /\ tr[d].ph \in Phase
               /\ tr[d].ph \in {"hello", "prove", "have", "give"} => tr[d].peer \in Dev \ {d}
               /\ tr[d].rounds \in 0 .. ROUNDS
               /\ tr[d].ph \in {"idle", "table", "put"} => wire[d] = None
    BY <2>1 DEF TradeOf, TradeType, Fits, Waits, Peer
  <2>4. \A d \in Dev, e \in Dev : ans[d][e] = None \/ ans[d][e].rounds \in 0 .. ROUNDS
    BY <2>1 DEF SideType
  <2>5. TypeOK
    BY <2>1, <2>2, <2>3, <2>4 DEF TypeOK, Typed
  <2>6. ASSUME NEW d \in Dev, tr[d].ph = "give", Answered(d), wire[d].ok, tr[d].quiet
        PROVE  Alike(bucket[d].recs, bucket[Peer(d)].recs)
    BY <2>1, <2>6 DEF TradeOf, Undisturbed
  <2>7. QED BY <2>5, <2>6 DEF QuietRoundAgrees
<1>2. QED BY <1>1, RoundInvariant, PTL
=============================================================================
