--------------------------- MODULE MCVendorBridge ---------------------------
(* Bounds for VendorBridge: three calls of two frames, answers of two      *)
(* reports. A second part, apart from it, is the other request of the      *)
(* vendor interface, VendorOperation: one that confirms its presses and    *)
(* may be announced to a budget, and one that is paid and whose answer is  *)
(* two reports. A behaviour is of one of the two.                          *)
EXTENDS VendorBridge, VendorOperation

CONSTANTS c1, c2, c3, o1, o2

MCConv == {c1, c2, c3}
MCOps == {o1, o2}
MCFirst == {o1}
MCSecond == {o2}

VARIABLE part
mcvars == <<part, vars, opVars>>

MCInit == part \in {"bridge", "operation"} /\ Init /\ OpInit

MCNext ==
  \/ part = "bridge" /\ Next /\ UNCHANGED <<opVars, part>>
  \/ part = "operation" /\ OpNext /\ UNCHANGED <<vars, part>>

(* The fairness of each part's own specification.                          *)
MCFairness ==
  /\ \A c \in Conv :
       /\ WF_vars(part = "bridge" /\ Release(c))
       /\ WF_vars(part = "bridge" /\ Timeout(c))
  /\ WF_opVars(part = "operation" /\ OpOnward)

MCSpec == MCInit /\ [][MCNext]_mcvars /\ MCFairness
=============================================================================
