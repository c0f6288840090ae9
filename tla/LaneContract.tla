---------------------------- MODULE LaneContract ----------------------------
(***************************************************************************)
(* What src/transport/lane.js promises its callers, without a queue: at    *)
(* most one of them holds the key; a caller who asks while it is held      *)
(* comes after those it may not overtake; and when the holder ends, one    *)
(* with nobody left before it follows at once.                             *)
(***************************************************************************)
EXTENDS Naturals, FiniteSets

CONSTANTS Conv, Urgent

VARIABLES
  holding,   (* the callers that have the key: none or one    *)
  before     (* of each caller that asked: who goes before it *)

cvars == <<holding, before>>

Asked == DOMAIN before

ContractInit ==
  /\ holding = {}
  /\ before = [c \in {} |-> {}]

(* An urgent caller comes after the urgent ones that asked earlier, and    *)
(* before every ordinary one; an ordinary caller after all of them.        *)
WithAsked(c) ==
  [d \in Asked \cup {c} |->
     IF d = c THEN IF c \in Urgent THEN Asked \cap Urgent ELSE Asked
     ELSE IF c \in Urgent /\ d \notin Urgent THEN before[d] \cup {c}
     ELSE before[d]]

Ask(c) ==
  /\ c \notin Asked \cup holding
  /\ IF holding = {}
       THEN holding' = {c} /\ UNCHANGED before
       ELSE before' = WithAsked(c) /\ UNCHANGED holding

HandOver ==
  /\ holding # {}
  /\ IF Asked = {}
       THEN holding' = {} /\ UNCHANGED before
       ELSE \E d \in Asked :
              /\ before[d] = {}
              /\ holding' = {d}
              /\ before' = [e \in Asked \ {d} |-> before[e] \ {d}]

ContractNext == HandOver \/ \E c \in Conv : Ask(c)

ContractSpec == ContractInit /\ [][ContractNext]_cvars /\ WF_cvars(HandOver)
=============================================================================
