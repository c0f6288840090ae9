------------------------------ MODULE EdgeCopy ------------------------------
(* A computer's copy of the key's chain of links (edge/cli/copy.js), what   *)
(* it reads from the key (edge/plugin/index.js), and what it concludes      *)
(* (edge/src/chain.js verify, edge/src/copy.js assess).                     *)
(*                                                                         *)
(* A link is a use (from = 0) or a LOSS, the pressed acceptance that        *)
(* from .. to is gone, which names the link after it if the key held that.  *)
(* A head is what a hash chain makes of it: it stands for the links up to   *)
(* it, so it IS their sequence.  Seqs begin at 1.  Left out: budgets,       *)
(* reveals and debts, CONTINUE, and the checkpoints of budgets, which       *)
(* sync() does not hand to assess().                                        *)
EXTENDS Naturals, Sequences, FiniteSets, FiniteSetsExt

CONSTANTS
  RingSize,     (* how many links the key's ring holds                     *)
  MaxLinks, MaxRestarts, MaxEdits, MaxRuns      (* bounds                  *)

ASSUME EdgeAssumption ==
  /\ RingSize \in Nat \ {0} /\ MaxLinks \in Nat
  /\ MaxRestarts \in Nat /\ MaxEdits \in Nat /\ MaxRuns \in Nat

VARIABLES
  chain,        (* the key: every link it wrote                            *)
  ring,         (* the key: the oldest seq it still gives out              *)
  reveals,      (* the firmware: older ones tell their heads               *)
  copy,         (* the copy on disk: its links, and the head last seen     *)
  job,          (* what the computer is at, and what it has read for it    *)
  heads,        (* the connection's tracker: heads by seq                  *)
  verdict,      (* the last report of sync()                               *)
  edited,       (* ghost: the copy was changed by something else           *)
  counted       (* what the bounds count                                   *)

chainVars == <<chain, ring, reveals>>
edgeVars == <<chainVars, copy, job, heads, verdict, edited, counted>>

Seqs == 1 .. MaxLinks
TopSeq == Len(chain)
TrueHead(s) == SubSeq(chain, 1, s)
Weld(head, link) == Append(head, link)

UseLink == [from |-> 0, to |-> 0, next |-> <<>>, by |-> "key"]

(* The head this computer cannot weld, as no links make it.                *)
NoHead == <<[UseLink EXCEPT !.by = "nobody"]>>

NoLinks == [s \in {} |-> <<>>]
LastSeq(links) == IF DOMAIN links = {} THEN 0 ELSE Max(DOMAIN links)

Unseen == [seq |-> 0, head |-> <<>>]
AtRest == [at |-> "rest", links |-> NoLinks, seq |-> 0, oldest |-> 0, head |-> NoHead,
           held |-> {}, behind |-> FALSE]
Nothing == [kind |-> "none", open |-> {}, lost |-> {}, links |-> NoLinks, seq |-> 0, behind |-> FALSE]

EdgeInit ==
  /\ chain = <<>> /\ ring = 1 /\ reveals \in BOOLEAN
  /\ copy = [links |-> NoLinks, seen |-> Unseen]
  /\ job = AtRest /\ heads = NoLinks /\ verdict = Nothing
  /\ edited = FALSE
  /\ counted = [restarts |-> 0, edits |-> 0, runs |-> 0]

-----------------------------------------------------------------------------
(* The key (external).                                                     *)
Grown(link) ==
  /\ TopSeq < MaxLinks
  /\ chain' = Append(chain, link)
  /\ ring' = Max({ring, TopSeq + 2 - RingSize})
  /\ UNCHANGED <<reveals, copy, job, verdict, edited, counted>>

KeyWrites == Grown(UseLink) /\ UNCHANGED heads

(* After a restart the ring holds its latest link only.                    *)
KeyRestarts ==
  /\ counted.restarts < MaxRestarts
  /\ counted' = [counted EXCEPT !.restarts = @ + 1]
  /\ ring' = Max({ring, TopSeq})
  /\ UNCHANGED <<chain, reveals, copy, job, heads, verdict, edited>>

-----------------------------------------------------------------------------
(* chain.verify(): links against the head the key reports for `seq`.       *)

EndUnchecked(l, seq, head, s) == l[s].head \in {NoHead, [i \in 1 .. s |-> l[i].link]}

(* The run of links that welds forward from the genesis.                   *)
ForwardOk(l, seq, head, s) ==
  LET w == [i \in 1 .. s |-> l[i].link]
  IN  /\ l[s].head \in {NoHead, w}
      /\ s = seq => head \in {NoHead, w}
Through(l, seq, head) ==
  Max({s \in 0 .. seq : \A i \in 1 .. s : i \in DOMAIN l /\ ForwardOk(l, seq, head, i)})

(* The run that welds backward from the key's head, down through the heads *)
(* stored with the links; its lowest link has nothing below it to weld.    *)
HeadAt(l, seq, head, s) == IF s = seq THEN head ELSE l[s].head
Linked(l, seq, head, s) ==
  /\ s - 1 > Through(l, seq, head)
  /\ {s, s - 1} \subseteq DOMAIN l
  /\ HeadAt(l, seq, head, s) # NoHead /\ l[s - 1].head # NoHead
BackOk(l, seq, head, s) ==
  Linked(l, seq, head, s) /\ Weld(l[s - 1].head, l[s].link) = HeadAt(l, seq, head, s)
Bottom(l, seq, head) ==
  Min({s \in 2 .. seq + 1 : \A i \in s .. seq : BackOk(l, seq, head, i)} \cup {seq + 1})

Verified(l, seq, head) == (1 .. Through(l, seq, head)) \cup (Bottom(l, seq, head) .. seq)

(* The head trusted at a seq, or NoHead.                                   *)
TrustedAt(l, seq, head, s) ==
  IF s = seq THEN head
  ELSE IF s <= Through(l, seq, head) THEN [i \in 1 .. s |-> l[i].link]
  ELSE IF s + 1 >= Bottom(l, seq, head) /\ s < seq THEN l[s].head
  ELSE NoHead

(* What makes it "tampered": a copy ahead of the key or of the head it saw, *)
(* a weld that does not hold, a link removed that the ring still gave, or   *)
(* another head where one was seen.                                         *)
ChainFailed(l, seen, seq, head, from) ==
  \/ LastSeq(l) > seq \/ seen.seq > seq
  \/ LET s == Through(l, seq, head) + 1 IN s <= seq /\ s \in DOMAIN l /\ ~ForwardOk(l, seq, head, s)
  \/ LET s == Bottom(l, seq, head) - 1
     IN  s > 1 /\ Linked(l, seq, head, s) /\ ~BackOk(l, seq, head, s)
  \/ \E s \in from .. seq : s \notin DOMAIN l
  \/ seen # Unseen /\ TrustedAt(l, seq, head, seen.seq) \notin {NoHead, seen.head}

-----------------------------------------------------------------------------
(* copy.assess(): what a copy that welds still lacks.                      *)
Gaps(l, seq, head) == (1 .. seq) \ Verified(l, seq, head)

Losses(l) == {s \in DOMAIN l : l[s].link.from > 0}

(* A LOSS counts when it is verified, or the key's own link this session.  *)
VerifiedLosses(l, gaps, own) == {s \in Losses(l) : s \in own \/ s \notin gaps}

(* Links the key itself stands behind: its own of this session, and the    *)
(* one after a LOSS that the LOSS names.                                    *)
KeptSeqs(l, gaps, own) ==
  own \cup {s \in DOMAIN l : \E j \in VerifiedLosses(l, gaps, own) :
                                l[j].link.to + 1 = s /\ l[j].link.next = <<l[s].link>>}

(* The unbroken ranges of a set of seqs.                                   *)
Ranges(set) ==
  {p[1] .. p[2] : p \in {q \in set \X set :
     q[1] <= q[2] /\ (q[1] .. q[2]) \subseteq set /\ q[1] - 1 \notin set /\ q[2] + 1 \notin set}}

(* LOSS links later than a gap cover it, together.                         *)
Covers(l, losses, g) ==
  \A s \in g : \E j \in losses : j > Max(g) /\ s \in l[j].link.from .. l[j].link.to

MissingSeqs(l, seq, head, own) ==
  LET gaps == Gaps(l, seq, head) IN gaps \ KeptSeqs(l, gaps, own)

OpenRanges(l, seq, head, own) ==
  LET losses == VerifiedLosses(l, Gaps(l, seq, head), own)
  IN  UNION {g \in Ranges(MissingSeqs(l, seq, head, own)) : ~Covers(l, losses, g)}

-----------------------------------------------------------------------------
(* The connection: what the key's client makes of the key's answers.       *)

(* weldTracked() over a .. b: a head where the one before it is known.     *)
Tracked(known, a, b) ==
  LET starts == {s \in a .. b : s = 1 \/ s - 1 \in DOMAIN known}
      k == Min(starts \cup {b + 1})
      base == IF k = 1 THEN <<>> ELSE known[k - 1]
  IN  [s \in DOMAIN known \cup (k .. b) |->
         IF s \in k .. b THEN base \o SubSeq(chain, k, s) ELSE known[s]]

HeadOf(known, s) == IF s \in DOMAIN known THEN known[s] ELSE NoHead

SeedsNothing(links) == heads

(* knownHead(): where the copy ends (seedHead).                            *)
Seeded(links) ==
  LET s == LastSeq(links)
  IN  IF s > 0 /\ links[s].head # NoHead
        THEN [t \in DOMAIN heads \cup {s} |-> IF t = s THEN links[s].head ELSE heads[t]]
        ELSE heads

Goes(where) == job' = [job EXCEPT !.at = where]
Throws == job' = AtRest /\ UNCHANGED <<copy, verdict, edited, chainVars, counted>>

(* sync() or catchUp(): loads the copy; sync tells the client its end.      *)
BeginRun(what) ==
  /\ job.at = "rest" /\ counted.runs < MaxRuns
  /\ what = "catch" => DOMAIN copy.links # {}
  /\ job' = [AtRest EXCEPT !.at = what, !.links = copy.links]
  /\ heads' = IF what = "sync" THEN Seeded(copy.links) ELSE heads
  /\ counted' = [counted EXCEPT !.runs = @ + 1]
  /\ UNCHANGED <<chainVars, copy, verdict, edited>>

(* HEAD.  The copy is behind when the ring no longer reaches it.           *)
ReadHead ==
  /\ job.at \in {"sync", "catch", "warmed"}
  /\ job' = [job EXCEPT !.at = CASE job.at = "catch" -> "catching"
                               [] job.at = "sync" -> "head"
                               [] OTHER -> "again",
                        !.seq = TopSeq, !.oldest = ring,
                        !.head = IF reveals \/ TopSeq = 0 THEN TrueHead(TopSeq) ELSE HeadOf(heads, TopSeq),
                        !.behind = LastSeq(job.links) + 1 < ring]
  /\ UNCHANGED <<chainVars, copy, heads, verdict, edited, counted>>

(* trackedHead(): the key's links welded onto the newest head known; an    *)
(* answer that a link is no longer held ends the run.                      *)
WeldHead ==
  LET near == {s \in DOMAIN heads : s < job.seq /\ s + 1 >= job.oldest}
      next == IF near = {} THEN job.oldest ELSE Max(near) + 1
      known == Tracked(heads, next, job.seq)
      on == IF job.at = "catching" THEN "catching" ELSE "read"
      where == IF HeadOf(known, job.seq) # NoHead \/ job.at = "catching" THEN on
               ELSE IF job.at = "head" THEN "warm" ELSE "none"
  IN  /\ job.at \in {"head", "again"}
      /\ IF job.head # NoHead THEN Goes("read") /\ UNCHANGED <<heads, copy, verdict, edited, chainVars, counted>>
         ELSE IF next < ring THEN Throws /\ UNCHANGED heads
         ELSE /\ heads' = known
              /\ IF where = "none" THEN Throws
                 ELSE /\ job' = [job EXCEPT !.at = where, !.head = HeadOf(known, job.seq)]
                      /\ UNCHANGED <<copy, verdict, edited, chainVars, counted>>

(* warmUp(): the login card's top gives a head the key confirms - or there *)
(* is none, and the run ends ("it needs a checkpoint").                    *)
WarmUp ==
  /\ job.at = "warm"
  /\ \/ \E s \in 1 .. TopSeq :
          /\ heads' = [t \in DOMAIN heads \cup {s} |-> IF t = s THEN TrueHead(s) ELSE heads[t]]
          /\ Goes("warmed")
          /\ UNCHANGED <<copy, verdict, edited, chainVars, counted>>
     \/ Throws /\ UNCHANGED heads

-----------------------------------------------------------------------------
(* pickup() from a seq to the head read: the links, each with its head.    *)
Picked(known, a) ==
  [s \in a .. job.seq |-> [link |-> chain[s],
                           head |-> IF reveals THEN TrueHead(s) ELSE HeadOf(known, s)]]

(* follows(): the very next link must weld onto the one before it.         *)
Follows(prev, p, r, s) ==
  p + 1 = s /\ p > 0 =>
    /\ prev.head # NoHead /\ r.head # NoHead
    /\ Weld(prev.head, r.link) = r.head

LinkBefore(links, got, s) == IF s \in DOMAIN got THEN got[s] ELSE links[s]

(* The links of `got` that follow, up to the first that does not.          *)
Taken(links, got) ==
  LET first == Min(DOMAIN got)
      prev(s) == IF s = first THEN LastSeq(links) ELSE s - 1
      fine(s) == LET p == prev(s)
                 IN  Follows(IF p = 0 THEN got[s] ELSE LinkBefore(links, got, p), p, got[s], s)
  IN  {s \in DOMAIN got : \A i \in first .. s : fine(i)}

WithLinks(links, got, take) ==
  [s \in DOMAIN links \cup take |-> IF s \in take THEN got[s] ELSE links[s]]

(* sync() reads from its last link or the ring's start, as HEAD gave it.   *)
ReadLinks ==
  LET a == Max({LastSeq(job.links) + 1, job.oldest})
      known == IF reveals THEN heads ELSE Tracked(heads, a, job.seq)
      got == Picked(known, a)
  IN  /\ job.at = "read"
      /\ IF a > job.seq THEN Goes("held") /\ UNCHANGED <<heads, copy, verdict, edited, chainVars, counted>>
         ELSE IF a < ring THEN Throws /\ UNCHANGED heads
         ELSE /\ heads' = known
              /\ job' = [job EXCEPT !.at = "held",
                           !.links = WithLinks(job.links, got, Taken(job.links, got))]
              /\ UNCHANGED <<copy, verdict, edited, chainVars, counted>>

(* The links the key still holds, compared with the copy's (heldSeqs).     *)
ReadHeld ==
  /\ job.at = "held"
  /\ IF job.seq > 0 /\ job.oldest < ring THEN Throws
     ELSE /\ job' = [job EXCEPT !.at = "judge",
                       !.held = {s \in DOMAIN job.links : s \in job.oldest .. job.seq
                                                          /\ job.links[s].link = chain[s]}]
          /\ UNCHANGED <<copy, verdict, edited, chainVars, counted>>
  /\ UNCHANGED heads

Says(kind, open, lost) ==
  verdict' = [kind |-> kind, open |-> open, lost |-> lost, links |-> job.links, seq |-> job.seq,
           behind |-> job.behind]

(* "a copy that does not verify is reported, not kept"                     *)
Saved(kind) == kind # "tampered"

Signed == TopSeq = job.seq /\ job.head = TrueHead(TopSeq)

(* assess, verdictOf, and for a verified copy the key's checkpoint over    *)
(* the same head; then save(), which `--status` leaves out.                *)
Judge ==
  LET l == job.links
      open == OpenRanges(l, job.seq, job.head, job.held)
      kind == IF ChainFailed(l, copy.seen, job.seq, job.head, job.oldest) THEN "tampered"
              ELSE IF open # {} THEN "gap"
              ELSE IF job.seq > 0 /\ ~Signed THEN "unsigned"
              ELSE "verified"
  IN  /\ job.at = "judge"
      /\ Says(kind, IF kind = "tampered" THEN {} ELSE open,
                MissingSeqs(l, job.seq, job.head, job.held) \ open)
      /\ \/ copy' = copy
         \/ /\ Saved(kind)
            /\ copy' = [links |-> l, seen |-> IF kind = "unsigned" THEN copy.seen
                                             ELSE [seq |-> job.seq, head |-> job.head]]
      /\ job' = AtRest
      /\ UNCHANGED <<chainVars, heads, edited, counted>>

(* catchUp(): the links right after the copy's last, kept unjudged.        *)
CatchUp ==
  LET a == LastSeq(job.links) + 1
      known == IF reveals THEN heads ELSE Tracked(heads, a, job.seq)
      got == Picked(known, a)
  IN  /\ job.at = "catching"
      /\ job' = AtRest
      /\ IF a > job.seq \/ a < ring THEN UNCHANGED <<copy, heads>>
         ELSE /\ heads' = known
              /\ copy' = [copy EXCEPT !.links = WithLinks(job.links, got, Taken(job.links, got))]
      /\ UNCHANGED <<chainVars, verdict, edited, counted>>

(* `edge loss`: the person accepts what the last report found open; with   *)
(* the press the key shows the head after it.                              *)
AcceptLoss ==
  /\ job.at = "rest" /\ verdict.kind = "gap"
  /\ LET from == Min(verdict.open)  to == Max(verdict.open)
         next == IF to < TopSeq /\ to + 1 >= ring THEN <<chain[to + 1]>> ELSE <<>>
         link == [from |-> from, to |-> to, next |-> next, by |-> "key"]
     IN  /\ Grown(link)
         /\ heads' = IF reveals THEN heads
                     ELSE [t \in DOMAIN heads \cup {TopSeq + 1} |->
                             IF t = TopSeq + 1 THEN Append(chain, link) ELSE heads[t]]

(* The command ends: a new one is a new connection.                        *)
Disconnect ==
  /\ job.at = "rest" /\ heads # NoLinks
  /\ heads' = NoLinks
  /\ UNCHANGED <<chainVars, copy, job, verdict, edited, counted>>

(* The copy is changed at rest: a link lost, or another in its place, a    *)
(* LOSS included, with its head as it was, welded or none.                 *)
FileChanges ==
  /\ job.at = "rest" /\ counted.edits < MaxEdits
  /\ counted' = [counted EXCEPT !.edits = @ + 1]
  /\ edited' = TRUE
  /\ \E s \in DOMAIN copy.links :
       \/ copy' = [copy EXCEPT !.links = [t \in DOMAIN copy.links \ {s} |-> copy.links[t]]]
       \/ \E from \in 0 .. s - 1, h \in {"kept", "welded", "none"} :
            LET link == [from |-> from, to |-> IF from = 0 THEN 0 ELSE s - 1, next |-> <<>>, by |-> "edit"]
                below == IF s = 1 THEN <<>>
                         ELSE IF s - 1 \in DOMAIN copy.links THEN copy.links[s - 1].head ELSE NoHead
            IN  copy' = [copy EXCEPT !.links[s] =
                   [link |-> link,
                    head |-> IF h = "kept" THEN copy.links[s].head
                             ELSE IF h = "welded" /\ below # NoHead THEN Weld(below, link)
                             ELSE NoHead]]
  /\ UNCHANGED <<chainVars, job, heads, verdict>>

EdgeNext ==
  \/ KeyWrites \/ KeyRestarts
  \/ BeginRun("sync") \/ BeginRun("catch")
  \/ ReadHead \/ WeldHead \/ WarmUp \/ ReadLinks \/ ReadHeld \/ Judge \/ CatchUp
  \/ AcceptLoss \/ Disconnect \/ FileChanges

EdgeSpec == EdgeInit /\ [][EdgeNext]_edgeVars

-----------------------------------------------------------------------------
(* Properties.                                                             *)
EdgeTypeOK ==
  /\ TopSeq <= MaxLinks /\ ring \in 1 .. MaxLinks + 1 /\ reveals \in BOOLEAN
  /\ DOMAIN copy.links \subseteq Seqs /\ copy.seen.seq \in 0 .. MaxLinks
  /\ job.at \in {"rest", "sync", "catch", "head", "again", "warm", "warmed", "read", "held", "judge", "catching"}
  /\ DOMAIN heads \subseteq Seqs
  /\ verdict.kind \in {"none", "verified", "gap", "unsigned", "tampered"}
  /\ verdict.open \subseteq Seqs /\ verdict.lost \subseteq Seqs

(* What a copy reported as verified proves: what it says is lost, the key   *)
(* has a later LOSS for, and above the last of that every link is the key's *)
(* (edge/src/copy.js: "Only if its OWN copy of the chain verifies") - no    *)
(* edit of the copy, and no LOSS in it that the key did not write, makes it *)
(* say more.  Below an accepted loss the links weld from the genesis and to *)
(* nothing of the key's: there it is the key's word if nothing changed it.  *)
VerifiedIsTheKeys ==
  /\ EdgeTypeOK
  /\ verdict.kind = "verified" =>
       /\ \A s \in verdict.lost : \E j \in s + 1 .. TopSeq : s \in chain[j].from .. chain[j].to
       /\ \A s \in (1 .. verdict.seq) \ verdict.lost :
            ~edited \/ s > Max(verdict.lost \cup {0}) =>
              s \in DOMAIN verdict.links /\ verdict.links[s].link = chain[s]

(* What the person accepted as lost at the key is not reported as open     *)
(* again, as long as the copy holds that LOSS as the key's.                *)
AcceptedStaysAccepted ==
  verdict.kind = "gap" /\ ~edited =>
    \A g \in Ranges(verdict.open) :
      ~\E j \in DOMAIN verdict.links \ (verdict.open \cup verdict.lost) :
          j > Max(g) /\ g \subseteq verdict.links[j].link.from .. verdict.links[j].link.to

(* "tampered" is said of a copy that something else changed, however the   *)
(* key moves on and restarts while it is read; or, on a firmware that hides *)
(* its heads, of an honest copy the ring no longer reached: the first link  *)
(* read has no head to weld the next onto, and `follows` drops the rest.    *)
(* Nor is the person asked to accept a loss twice.                         *)
AlarmNeedsACause ==
  /\ verdict.kind = "tampered" => edited \/ (~reveals /\ verdict.behind)
  /\ AcceptedStaysAccepted

(* What the check of a copy says is so, a good word and a bad one: the two *)
(* above.                                                                  *)
VerdictIsTrue == VerifiedIsTheKeys /\ AlarmNeedsACause
=============================================================================
