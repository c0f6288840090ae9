------------------------------ MODULE MCDevice ------------------------------
(* Bounds for the device plugin's three modules and the edge copy, checked *)
(* side by side: a behaviour is one of DeviceWrites (two callers, two calls *)
(* of any kind), ConfigMode (two screens, five calls), PinBracket (three   *)
(* brackets of a two-digit PIN) or EdgeCopy (four links, a ring of two,    *)
(* three runs, a restart and a change of the copy).                        *)
EXTENDS DeviceWrites, ConfigMode, PinBracket, EdgeCopy

CONSTANTS s1, s2

MCOffered == Kinds
MCApps == {s1, s2}
MCDigits == <<1, 2>>

VARIABLE part      (* which of the four this behaviour is                  *)

allVars == <<vars, cmVars, pinVars, edgeVars, part>>

MCInit ==
  /\ Init /\ CmInit /\ PinInit /\ EdgeInit
  /\ part \in {"writes", "mode", "pin", "edge"}
  /\ part # "mode" => locked /\ console
  /\ part # "pin" => debug
  /\ part # "edge" => reveals

MCNext ==
  \/ part = "writes" /\ Next /\ UNCHANGED <<cmVars, pinVars, edgeVars, part>>
  \/ part = "mode" /\ CmNext /\ UNCHANGED <<vars, pinVars, edgeVars, part>>
  \/ part = "pin" /\ PinNext /\ UNCHANGED <<vars, cmVars, edgeVars, part>>
  \/ part = "edge" /\ EdgeNext /\ UNCHANGED <<vars, cmVars, pinVars, part>>

\* The fairness of the first three, each within its own behaviours.
MCFairness ==
  /\ WF_vars(part = "writes" /\ Work)
  /\ WF_cmVars(part = "mode" /\ \E s \in Screens : Answering(s))
  /\ WF_pinVars(part = "pin" /\ Onward)

MCSpec == MCInit /\ [][MCNext]_allVars /\ MCFairness

(* No write, no call of a screen and no bracket stays open for ever: each  *)
(* wait of the device plugin has a timer, and no turn of the lane is kept. *)
EveryCallEnds == CallsEnd /\ CallsComeBack /\ BracketEnds
=============================================================================
