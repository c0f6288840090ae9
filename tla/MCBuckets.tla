------------------------------ MODULE MCBuckets ------------------------------
(* Bounds for BucketSync and ListStores, checked side by side: a behaviour *)
(* is one of either.  BucketSync: two devices, the second with its clock   *)
(* behind, one key of two values.  ListStores: two devices, two items of   *)
(* two values, three edits, each of the four stores; the device that edits *)
(* first is the left one, for the two are alike.                           *)
EXTENDS BucketSync, ListStores, TLC

CONSTANTS k1, left, right

MCKeys == {k1}
MCValues == {0, 1}
MCDev == {1, 2}
MCReads == <<{1, 3}, {1}>>
MCIds == {1, 2}
MCVals == {1, 2}
MCSides == {left, right}
MCKinds == {"guestbook", "cryptobox", "keychain", "passwords"}

VARIABLE part      (* which of the two this behaviour is                    *)

MCInit == Init /\ ListInit /\ part \in {"sync", "lists"} /\ (part = "sync" => kind = "keychain")

MCNext ==
  \/ part = "sync" /\ Next /\ UNCHANGED <<listVars, part>>
  \/ /\ part = "lists" /\ ListNext /\ UNCHANGED <<vars, part>>
     /\ edits = 0 => list'[right] = list[right]

MCFairness == WF_vars(part = "sync" /\ \E d \in Dev : Progress(d))

MCSpec == MCInit /\ [][MCNext]_<<vars, listVars, part>> /\ MCFairness
=============================================================================
