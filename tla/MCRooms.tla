------------------------------- MODULE MCRooms -------------------------------
(* Bounds for KeyhandlePlan, Room, AgentPlan and EdgeBudget, which share   *)
(* nothing: a behaviour is of one of the four.                             *)
EXTENDS KeyhandlePlan, Room, AgentPlan, EdgeBudget, TLC

CONSTANTS d1, d2, phone, tablet

MCDevices == {d1, d2}
MCCalls == (d1 :> 2) @@ (d2 :> 1)
MCOwned == {phone, tablet}
MCExecOf == (1 :> "push") @@ (2 :> "push") @@ (3 :> "plan") @@ (4 :> "plan") @@ (5 :> "pull")
MCSymmetry == Permutations(MCOwned)

VARIABLE part
mcvars == <<part, vars, roomVars, planVars, budgetVars>>

PlanParts == {"devices", "calls"}
BudgetParts == {"service", "commands", "beside", "runner"}

MCInit ==
  /\ part \in {"keyhandles", "room"} \cup PlanParts \cup BudgetParts
  /\ Init /\ RoomInit /\ PlanInit /\ BudgetInit
  /\ part # "keyhandles" => length = 1 /\ overhead = 0

(* Two devices and one plan_data at a time, or two of those and one device. *)
MCPlanNext ==
  /\ PlanNext
  /\ IF part = "devices" THEN \E k \in DataCalls : reading'[k] = NotReading
     ELSE \E d \in Devices : d \notin online' /\ ask'[d] = NoAsk /\ runs'[d] = "no"

(* Who uses the key: the service alone (a command that asks for two signs, *)
(* every request), two commands of the service, the service with a plan    *)
(* beside it, or the plan alone and a link of another; the key locks only  *)
(* on the first.                                                           *)
MCBudgetNext ==
  /\ BudgetNext
  /\ part \in {"service", "commands"} => asking'["plan"] = Idle
  /\ part # "service" => asking'["continue"] = Idle /\ asking'["end"] = Idle /\ sign'[2] = NoUse
  /\ part # "service" => ~faults'.locked
  /\ part # "commands" => exec'["pull"] = Shut
  /\ part = "runner" => asking'["budget"] = Idle
  /\ part # "runner" => faults'.others = 0

(* Two requests, on whichever sockets.                                     *)
MCRoomNext ==
  RoomNext /\ FoldSet(LAMBDA s, n : n + number'[s], 0, Conns) <= 2

MCNext ==
  \/ part = "keyhandles" /\ Next /\ UNCHANGED <<roomVars, planVars, budgetVars, part>>
  \/ part = "room" /\ MCRoomNext /\ UNCHANGED <<vars, planVars, budgetVars, part>>
  \/ part \in PlanParts /\ MCPlanNext /\ UNCHANGED <<vars, roomVars, budgetVars, part>>
  \/ part \in BudgetParts /\ MCBudgetNext /\ UNCHANGED <<vars, roomVars, planVars, part>>

MCSpec == MCInit /\ [][MCNext]_mcvars
=============================================================================
