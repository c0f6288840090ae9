--------------------------- MODULE MCPipeTransport ---------------------------
(* Bounds for PipeTransport: three requests, an ordinary one and a         *)
(* matching one on the vendor interface, and one on the FIDO interface.    *)
(* A second part, apart from it, is the socket over Bluetooth: a behaviour *)
(* is of one of the two.                                                   *)
EXTENDS PipeTransport, BleRoom

CONSTANTS v1, m1, f1

MCConv == {v1, m1, f1}
MCFido == {f1}
MCMatching == {m1}

VARIABLE part
mcvars == <<part, vars, bleVars>>

MCInit == part \in {"pipe", "ble"} /\ Init /\ BleInit

MCNext ==
  \/ part = "pipe" /\ Next /\ UNCHANGED <<bleVars, part>>
  \/ part = "ble" /\ BleNext /\ UNCHANGED <<vars, part>>

(* The fairness of each part's own specification.                          *)
MCFairness ==
  /\ \A c \in Conv :
       /\ WF_vars(part = "pipe" /\ Release(c))
       /\ WF_vars(part = "pipe" /\ (WriteDone(c) \/ WriteFails(c)))
       /\ WF_vars(part = "pipe" /\ Timeout(c))
  /\ WF_bleVars(part = "ble" /\ Delivers)

MCSpec == MCInit /\ [][MCNext]_mcvars /\ MCFairness
=============================================================================
