----------------------------- MODULE ListStores -----------------------------
(***************************************************************************)
(* The stores of a bucket that are merged by a rule of their own           *)
(* (bucket/src/rules.js): the Guest Book, the Cryptobox and the Key Chain, *)
(* each one value holding a list of items, and the Passwords, a record per *)
(* entry with an index.  A trade moves a list in parts, one per item       *)
(* (replicate.js units, joinParts), and the rule merges them in.           *)
(*                                                                         *)
(* An item is [val, at, flag]:                                             *)
(*   guestbook  the contact's text; when it last changed; -                *)
(*   cryptobox  the message's thread; when it was removed; is it removed   *)
(*   keychain   the key's certificate (0: none yet); when it was last      *)
(*              used; is it filed under a name rather than a hash          *)
(*   passwords  the sealed entry; its record's date; is it archived        *)
(***************************************************************************)
EXTENDS Naturals

CONSTANTS
  Kinds,       (* the stores looked at                                     *)
  Ids, Vals,   (* items, and what one may hold (both positive, ordered as  *)
               (* their texts are)                                         *)
  NoItem,      (* an item a list does not hold                             *)
  Sides,       (* the devices                                              *)
  MaxEdits     (* bound: edits                                             *)

ASSUME ValsAssumption ==
  /\ Ids \subseteq Nat \ {0} /\ Vals \subseteq Nat \ {0} /\ MaxEdits \in Nat
  /\ Kinds \subseteq {"guestbook", "cryptobox", "keychain", "passwords"}

VARIABLES
  kind,        (* which store this is                                      *)
  list,        (* list[d] = [at, items]: d's copy and its record's date    *)
  index,       (* index[d]: the ids d's Passwords index names              *)
  putting,     (* putting[d], removing[d]: the entry d has put or removed, *)
  removing,    (* whose index is not written yet                           *)
  unlisted,    (* ghost: the entries put whose index was never written     *)
  edits,       (* how many edits there were                                *)
  read,        (* read[d]: d's clock at its last edit                      *)
  latest       (* ghost: what the last edit of each item made of it        *)

indexVars == <<index, putting, removing, unlisted>>
listVars == <<kind, list, indexVars, edits, read, latest>>

Item == [val : Vals \cup {0}, at : 0 .. MaxEdits, flag : BOOLEAN]
Items == [Ids -> Item \cup {NoItem}]
ASSUME NoItemAssumption == NoItem \notin Item
Held(items) == {i \in Ids : items[i] # NoItem}

ListTypeOK ==
  /\ kind \in Kinds
  /\ list \in [Sides -> [at : 0 .. MaxEdits, items : Items]]
  /\ index \in [Sides -> SUBSET Ids]
  /\ putting \in [Sides -> SUBSET Ids] /\ removing \in [Sides -> SUBSET Ids]
  /\ unlisted \subseteq Ids
  /\ edits \in 0 .. MaxEdits
  /\ read \in [Sides -> 0 .. MaxEdits]
  /\ latest \in Items

ListInit ==
  /\ kind \in Kinds
  /\ list = [d \in Sides |-> [at |-> 0, items |-> [i \in Ids |-> NoItem]]]
  /\ index = [d \in Sides |-> {}]
  /\ putting = [d \in Sides |-> {}] /\ removing = [d \in Sides |-> {}]
  /\ unlisted = {}
  /\ edits = 0
  /\ read = [d \in Sides |-> 0]
  /\ latest = [i \in Ids |-> NoItem]

LaterOf(x, y) == IF x > y THEN x ELSE y

-----------------------------------------------------------------------------
(* The rules, item by item: `lo` is the item in the older of the two lists *)
(* and `hi` in the newer, `mine` in this device's and `theirs` in the one  *)
(* taken in.                                                               *)

(* Mutants. *)
TheirsIfAsNew(mine, theirs) == IF theirs.at >= mine.at THEN theirs ELSE mine
OlderContact(mine, theirs) == IF theirs.at < mine.at THEN theirs ELSE mine
NewerListOnly(lo, hi) == hi
NamedByBoth(mine, theirs, items) ==
  {i \in mine \cap theirs : items[i] # NoItem /\ ~items[i].flag}

(* guestbook(): the contact that changed later; a tie by its text.         *)
GuestItem(mine, theirs) ==
  IF \/ theirs.at > mine.at
     \/ theirs.at = mine.at /\ theirs.val > mine.val
  THEN theirs ELSE mine

(* cryptobox(): the newer list's copy, removed if either side removed it.  *)
BoxItem(lo, hi) ==
  IF lo.flag \/ hi.flag
  THEN [hi EXCEPT !.flag = TRUE, !.at = IF hi.at # 0 THEN hi.at ELSE lo.at]
  ELSE hi

(* keychain/src/list.js combine: the name over the hash, else the first;   *)
(* what only one knows is kept; last used, the later time.                 *)
ChainItem(a, b) ==
  LET base == IF b.flag /\ ~a.flag THEN b ELSE a
      other == IF base = b THEN a ELSE b
  IN  [val |-> IF base.val # 0 THEN base.val ELSE other.val,
       at |-> LaterOf(a.at, b.at),
       flag |-> a.flag \/ b.flag]

(* passwords(): each record by newer().                                    *)
PassItem(mine, theirs) ==
  IF \/ theirs.at > mine.at
     \/ /\ theirs.at = mine.at
        /\ \/ theirs.flag /\ ~mine.flag
           \/ theirs.flag = mine.flag /\ theirs.val > mine.val
  THEN theirs ELSE mine

(* newer() of two records of one list: the later date, else the text.      *)
ItemBelow(x, y) ==
  \/ x = NoItem /\ y # NoItem
  \/ /\ x # NoItem /\ y # NoItem
     /\ \/ x.val < y.val
        \/ x.val = y.val /\ x.at < y.at
        \/ x.val = y.val /\ x.at = y.at /\ ~x.flag /\ y.flag
TextBelow(x, y) ==
  \E i \in Ids : ItemBelow(x[i], y[i]) /\ \A j \in Ids : j < i => x[j] = y[j]
Older(a, b) == a.at < b.at \/ (a.at = b.at /\ TextBelow(a.items, b.items))

(* An item both lists hold; `under`: is b's list the older (`ordered`)?    *)
Both(a, b, i, under) ==
  LET mine == a.items[i]   theirs == b.items[i]
      lo == IF under THEN theirs ELSE mine
      hi == IF under THEN mine ELSE theirs
  IN  CASE kind = "guestbook" -> GuestItem(mine, theirs)
        [] kind = "passwords" -> PassItem(mine, theirs)
        [] kind = "cryptobox" -> BoxItem(lo, hi)
        [] kind = "keychain" -> ChainItem(lo, hi)

(* A rule takes in list b: what only one holds is kept, and the date moves *)
(* only when something changed.                                            *)
JoinAs(a, b, under) ==
  LET items == [i \in Ids |->
        IF b.items[i] = NoItem THEN a.items[i]
        ELSE IF a.items[i] = NoItem THEN b.items[i]
        ELSE Both(a, b, i, under)]
  IN  [at |-> IF items = a.items THEN a.at ELSE LaterOf(a.at, b.at), items |-> items]

(* A whole list is taken in: the two texts are alike in form.              *)
Joined(a, b) == JoinAs(a, b, Older(b, a))

(* give() and joinParts(): the parts of b that a does not hold alike, as a *)
(* list of just these, dated as b's value is.                              *)
Parts(a, b) ==
  [at |-> b.at,
   items |-> [i \in Ids |-> IF a.items[i] # b.items[i] THEN b.items[i] ELSE NoItem]]

(* With equal dates the texts decide, and a list put together from parts   *)
(* has another text than one that was written: a Key Chain is written in   *)
(* lines ("{", a line break), its parts are joined in one (an open brace,  *)
(* a quote), so a device's own is the older on either side; in the Crypto  *)
(* Box it hangs on the order its messages and their fields were written    *)
(* in, which is not modelled: either (TRUE: the parts are the older).      *)
Ties == IF kind = "cryptobox" THEN BOOLEAN ELSE {FALSE}
PartsUnder(a, p, tie) == p.at < a.at \/ (p.at = a.at /\ tie)

(* The index is rebuilt: every id either side names whose record is live.  *)
Reindexed(mine, theirs, items) ==
  {i \in mine \cup theirs : items[i] # NoItem /\ ~items[i].flag}

-----------------------------------------------------------------------------
(* The clocks of the devices agree, and two devices may read the same: the *)
(* n-th edit is made at n or n - 1.  The record's own date is past what    *)
(* its bucket saw (bucket.js stamp).                                       *)
Clocks(d) == {t \in {edits, edits + 1} : t > read[d]}
Stamped(d, t) == IF t > list[d].at THEN t ELSE list[d].at + 1

Put(d, t, i, item) ==
  /\ edits < MaxEdits
  /\ edits' = edits + 1
  /\ read' = [read EXCEPT ![d] = t]
  /\ list' = [list EXCEPT ![d] = [at |-> Stamped(d, t), items |-> [@.items EXCEPT ![i] = item]]]
  /\ latest' = [latest EXCEPT ![i] =
       IF \/ @ = NoItem
          \/ kind = "guestbook"
          \/ kind = "keychain" /\ item.val # 0
       THEN IF @ = NoItem THEN item ELSE GuestItem(@, item)
       ELSE @]
  /\ UNCHANGED kind

(* A contact is added or edited (guestbook/src/store.js newContact, rename,*)
(* setDetails, addKeys, setVerified: each stamps the contact's history).   *)
EditContact(d) ==
  \E t \in Clocks(d), i \in Ids, v \in Vals :
    /\ kind = "guestbook"
    /\ Put(d, t, i, [val |-> v, at |-> t, flag |-> FALSE])
    /\ UNCHANGED indexVars

(* A message is kept in a thread, its thread is moved, it is removed       *)
(* (cryptobox/src/store.js add, moveThread, remove).                       *)
AddMessage(d) ==
  \E t \in Clocks(d), i \in Ids, v \in Vals :
    /\ kind = "cryptobox"
    /\ latest[i] = NoItem
    /\ Put(d, t, i, [val |-> v, at |-> 0, flag |-> FALSE])
    /\ UNCHANGED indexVars
MoveThread(d) ==
  \E t \in Clocks(d), i \in Held(list[d].items), v \in Vals :
    /\ kind = "cryptobox"
    /\ Put(d, t, i, [list[d].items[i] EXCEPT !.val = v])
    /\ UNCHANGED indexVars
RemoveMessage(d) ==
  \E t \in Clocks(d), i \in Held(list[d].items) :
    /\ kind = "cryptobox"
    /\ ~list[d].items[i].flag
    /\ Put(d, t, i, [list[d].items[i] EXCEPT !.flag = TRUE, !.at = t])
    /\ UNCHANGED indexVars

(* A derive is recorded, by its name or (a phone) by its hash; with a name *)
(* a certificate may be made or renewed for it, which replaces the old one *)
(* (keychain/cli/record.js record).                                        *)
RecordKey(d) ==
  \E t \in Clocks(d), i \in Ids, named \in BOOLEAN :
  \E v \in {0} \cup {x \in Vals : named /\ (latest[i] = NoItem \/ (latest[i].at < t /\ latest[i].val # x))} :
    /\ kind = "keychain"
    /\ LET old == list[d].items[i]
       IN  Put(d, t, i, [val |-> IF v = 0 /\ old # NoItem THEN old.val ELSE v,
                           at |-> t,
                           flag |-> named \/ (old # NoItem /\ old.flag)])
    /\ UNCHANGED indexVars

(* An entry is put or removed, one call after the other: its record is     *)
(* written, and the index by a write of its own that is awaited after it   *)
(* (passwords/src/manager.js keep, remove).                                *)
IndexWritten(d) == putting[d] = {} /\ removing[d] = {}
PutEntry(d) ==
  \E t \in Clocks(d), i \in Ids, v \in Vals :
    /\ kind = "passwords" /\ IndexWritten(d)
    /\ Put(d, t, i, [val |-> v, at |-> Stamped(d, t), flag |-> FALSE])
    /\ putting' = [putting EXCEPT ![d] = {i}]
    /\ UNCHANGED <<index, removing, unlisted>>
RemoveEntry(d) ==
  \E t \in Clocks(d), i \in index[d] \cap Held(list[d].items) :
    /\ kind = "passwords" /\ IndexWritten(d)
    /\ ~list[d].items[i].flag
    /\ Put(d, t, i, [list[d].items[i] EXCEPT !.flag = TRUE, !.at = Stamped(d, t)])
    /\ removing' = [removing EXCEPT ![d] = {i}]
    /\ UNCHANGED <<index, putting, unlisted>>
WriteIndex(d) ==
  /\ ~IndexWritten(d)
  /\ index' = [index EXCEPT ![d] = (@ \cup putting[d]) \ removing[d]]
  /\ putting' = [putting EXCEPT ![d] = {}]
  /\ removing' = [removing EXCEPT ![d] = {}]
  /\ UNCHANGED <<kind, list, edits, read, latest, unlisted>>

(* The second write fails, or the program ends before it.                  *)
DropIndex(d) ==
  /\ ~IndexWritten(d)
  /\ unlisted' = unlisted \cup putting[d]
  /\ putting' = [putting EXCEPT ![d] = {}]
  /\ removing' = [removing EXCEPT ![d] = {}]
  /\ UNCHANGED <<kind, list, index, edits, read, latest>>

(* A round of a trade: each side takes the parts the other gave - or it    *)
(* ends between the two, and only one took them.                           *)
TakenBy(d, e, tie) ==
  LET parts == Parts(list[d], list[e])
      l == JoinAs(list[d], parts, PartsUnder(list[d], parts, tie))
  IN  [list |-> l,
       index |-> IF kind = "passwords" THEN Reindexed(index[d], index[e], l.items) ELSE {}]

Exchange(d, e) ==
  /\ d # e
  /\ list[d].items # list[e].items \/ index[d] # index[e]
  /\ \E takers \in {{d}, {d, e}}, ties \in [{d, e} -> Ties] :
       LET other(x) == IF x = d THEN e ELSE d
           taken(x) == TakenBy(x, other(x), ties[x])
       IN  /\ list' = [x \in Sides |-> IF x \in takers THEN taken(x).list ELSE list[x]]
           /\ index' = [x \in Sides |-> IF x \in takers THEN taken(x).index ELSE index[x]]
  /\ UNCHANGED <<kind, putting, removing, unlisted, edits, read, latest>>

Edit(d) ==
  \/ EditContact(d)
  \/ AddMessage(d) \/ MoveThread(d) \/ RemoveMessage(d)
  \/ RecordKey(d)
  \/ PutEntry(d) \/ RemoveEntry(d)

ListNext ==
  \E d \in Sides :
    \/ Edit(d) \/ WriteIndex(d) \/ DropIndex(d)
    \/ \E e \in Sides : Exchange(d, e)

ListSpec == ListInit /\ [][ListNext]_listVars

-----------------------------------------------------------------------------
(* Properties. *)

(* Two devices that merge the same two whole lists come to the same items, *)
(* whatever their dates (rules.js `ordered`: "a merge run on either device *)
(* is the same").                                                          *)
WholesAgree ==
  \A d, e \in Sides : d # e =>
    Joined(list[d], list[e]).items = Joined(list[e], list[d]).items

(* Taking only the parts that differ gives what taking the other's whole   *)
(* list would (rules.js: "a value need not arrive whole to merge whole"),  *)
(* unless the dates are equal and the store's rule goes by the order of    *)
(* the lists.                                                              *)
PartsSuffice ==
  \A d, e \in Sides, tie \in Ties :
    d # e /\ (kind \in {"guestbook", "passwords"} \/ list[d].at # list[e].at) =>
      TakenBy(d, e, tie).list.items = Joined(list[d], list[e]).items

(* What two devices cannot disagree in after an exchange, whatever their   *)
(* dates and however their texts compare: which items there are, which of  *)
(* them are removed, or filed under a name.                                *)
FlagsAgree ==
  \A d, e \in Sides, mine, theirs \in Ties : d # e =>
    LET x == TakenBy(d, e, mine).list.items
        y == TakenBy(e, d, theirs).list.items
    IN  \A i \in Ids :
          (x[i] = NoItem <=> y[i] = NoItem) /\ (x[i] # NoItem => x[i].flag = y[i].flag)

(* Whichever device merges, the two end with the same list: whole lists    *)
(* always; in parts, when the dates differ, and else in all but the value  *)
(* of an item that both hold - which MergedTheSame says too, of the state  *)
(* an exchange that was cut off leaves, and the code breaks.               *)
ExchangeAgrees == WholesAgree /\ PartsSuffice /\ FlagsAgree

(* ... the same list, whatever the dates (rules.js:22: "the same           *)
(* tie-break as newer()), so a merge run on either device is the same").   *)
MergedTheSame ==
  \A d, e \in Sides, mine, theirs \in Ties : d # e =>
    TakenBy(d, e, mine).list.items = TakenBy(e, d, theirs).list.items

(* The last edit of a contact is never lost to an older copy of it, on     *)
(* whichever list and in whatever order they merge (rules.js: "where both  *)
(* have it the NEWER wins ... per entry").                                 *)
Survives(i) ==
  latest[i] # NoItem =>
    \E d \in Sides : i \in Held(list[d].items) /\ list[d].items[i].val = latest[i].val
NewestContactKept == kind = "guestbook" => \A i \in Ids : Survives(i)

(* ... nor the last certificate of a key.                                  *)
NewestCertificateKept == kind = "keychain" => \A i \in Ids : Survives(i)

(* A removed message never comes back, and no list ever loses an item      *)
(* (rules.js: "stuff never gets deleted, just flagged as archived").       *)
NothingComesBack ==
  [][\A d \in Sides : \A i \in Held(list[d].items) :
       /\ list'[d].items[i] # NoItem
       /\ kind = "cryptobox" /\ list[d].items[i].flag => list'[d].items[i].flag]_listVars

(* An entry is never put and then on no index: a live entry that a device  *)
(* holds is named by the index of a device (or is about to be, by a write  *)
(* that is awaited) that holds the entry at least as new, or was removed   *)
(* there; unless its own index write never came (rules.js passwords(): the *)
(* index is "rebuilt as the union").                                       *)
Listed(d, i) == i \in putting[d] \/ i \in index[d] \ removing[d]
ListedElsewhere(d, i) ==
  \E o \in Sides :
    /\ i \in Held(list[o].items)
    /\ PassItem(list[o].items[i], list[d].items[i]) = list[o].items[i]
    /\ list[o].items[i].flag \/ Listed(o, i) \/ i \in unlisted
EntriesListed ==
  kind = "passwords" =>
    \A d \in Sides : \A i \in Held(list[d].items) :
      ~list[d].items[i].flag => ListedElsewhere(d, i)

(* What a Guest Book is for stands through merges and edits: the last edit *)
(* of a contact.                                                           *)
ListsStand == ListTypeOK /\ NewestContactKept
=============================================================================
