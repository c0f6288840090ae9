------------------------------ MODULE AgentPlan ------------------------------
(* An agent's plan: the agent's own copy (mcp/core/mcp.js,                 *)
(* AgentSessionCore), the room's mirror of it (mcp/core/room.js, from      *)
(* show() on), and the owner's devices, one of which runs it.              *)
(*                                                                         *)
(* On the localhost service (mcp/localhost/plugin.js) storage answers in   *)
(* microtasks, so a handler is one step; but plan_data awaits the digests  *)
(* of what it is given, and holds the copy of the plan it read before.     *)
(* What a device does of its own accord is external: its owner taps, and   *)
(* room-client.js sends planClaim and planUpdate, one at a time.           *)
EXTENDS Naturals, FiniteSets

CONSTANTS
  Devices,     (* the owner's devices                                      *)
  Items,       (* the plan's items                                         *)
  DataCalls,   (* the plan_data calls that may be under way at a time      *)
  MaxNamed     (* bound: how often a call's list names one item            *)

ASSUME NamedAssumption == MaxNamed \in Nat

VARIABLES
  plan,        (* the agent's copy: `shown` is that `seen` is its version  *)
  mirror,      (* the room's: its state, who runs it, its results          *)
  agentState,  (* the agent, to the room                                   *)
  online,      (* the devices in the room                                  *)
  ask,         (* what each has sent and the room has not taken            *)
  runs,        (* how far each is with running the plan                    *)
  reading,     (* plan_data: the copy each call holds, and how often its   *)
               (* list names each item                                     *)
  received,    (* how often each device was sent an item's data            *)
  unseen,      (* the owner has said something the agent was not shown     *)
  lapped       (* it, or another plan_data, came while one held its copy   *)

planVars == <<plan, mirror, agentState, online, ask, runs, reading, received, unseen, lapped>>

Ends == {"done", "declined", "failed", "ended"}
NoPlan == [state |-> "none", sent |-> {}, results |-> {}, shown |-> TRUE]
NoMirror == [state |-> "none", by |-> {}, results |-> {}]
NotReading == [of |-> NoPlan, times |-> [i \in Items |-> 0]]
Named(times) == {i \in Items : times[i] > 0}
NoAsk == [op |-> "none", state |-> "none", results |-> {}]

PlanInit ==
  /\ plan = NoPlan /\ mirror = NoMirror /\ agentState = "unknown"
  /\ online = {} /\ ask = [d \in Devices |-> NoAsk] /\ runs = [d \in Devices |-> "no"]
  /\ reading = [k \in DataCalls |-> NotReading]
  /\ received = [d \in Devices |-> [i \in Items |-> 0]]
  /\ unseen = FALSE /\ lapped = FALSE

HeldByACall == \E k \in DataCalls : reading[k] # NotReading

-----------------------------------------------------------------------------
(* The agent's tools.  A view() is the plan as the tool read it.           *)

(* save(): what the agent does itself it has seen.                         *)
Saves(p) == plan' = [p EXCEPT !.shown = TRUE] /\ unseen' = FALSE

(* mirror() and the room's show(): a new agent is entered as pending, a    *)
(* blocked one's plan is not kept.                                         *)
Shows(state) ==
  /\ agentState' = IF agentState = "unknown" THEN "pending" ELSE agentState
  /\ mirror' = IF agentState = "blocked" THEN mirror ELSE [NoMirror EXCEPT !.state = state]

PlanNew ==
  /\ plan.state = "none"
  /\ Saves([NoPlan EXCEPT !.state = "draft"])
  /\ Shows("draft")
  /\ UNCHANGED <<online, ask, runs, reading, received, lapped>>

(* plan_remove: a draft with an item less is shown again.                  *)
PlanRemove ==
  /\ plan.state = "draft"
  /\ Saves(plan)
  /\ Shows("draft")
  /\ UNCHANGED <<online, ask, runs, reading, received, lapped>>

(* plan_submit and submit(): only an accepted agent's, only to an owner.   *)
PlanSubmit ==
  /\ plan.state = "draft" /\ agentState = "accepted" /\ online # {}
  /\ Saves([plan EXCEPT !.state = "submitted"])
  /\ mirror' = [NoMirror EXCEPT !.state = "submitted"]
  /\ UNCHANGED <<agentState, online, ask, runs, reading, received, lapped>>

(* plan_data reads the plan, and looks at what was sent: an item is marked *)
(* only when its data has gone, so a list may name it again ...            *)
PlanData(k, times) ==
  /\ reading[k] = NotReading
  /\ plan.state = "running" /\ Named(times) # {} /\ Named(times) \cap plan.sent = {}
  /\ reading' = [reading EXCEPT ![k] = [of |-> plan, times |-> times]]
  /\ lapped' = (lapped \/ HeldByACall)
  /\ UNCHANGED <<plan, mirror, agentState, online, ask, runs, received, unseen>>

(* ... and, the digests right, has the room tell the devices, as often as  *)
(* the list says: data().                                                  *)
DataGoes(k) ==
  /\ reading[k] # NotReading
  /\ reading' = [reading EXCEPT ![k] = NotReading]
  /\ IF mirror.state = "running" /\ online # {}
     THEN /\ received' = [d \in Devices |-> [i \in Items |->
                 received[d][i] + (IF d \in online THEN reading[k].times[i] ELSE 0)]]
          /\ plan' = [reading[k].of EXCEPT !.sent = @ \cup Named(reading[k].times), !.shown = TRUE]
          /\ unseen' = (unseen /\ plan # reading[k].of)
     ELSE UNCHANGED <<received, plan, unseen>>
  /\ UNCHANGED <<mirror, agentState, online, ask, runs, lapped>>

(* A digest that does not match: nothing is sent.                          *)
DataRefused(k) ==
  /\ reading[k] # NotReading
  /\ reading' = [reading EXCEPT ![k] = NotReading]
  /\ UNCHANGED <<plan, mirror, agentState, online, ask, runs, received, unseen, lapped>>

(* plan_finish and finish().                                               *)
PlanFinish ==
  /\ plan.state \in {"submitted", "running"} /\ mirror # NoMirror /\ online # {}
  /\ Saves(plan)
  /\ lapped' = (lapped \/ HeldByACall)
  /\ UNCHANGED <<mirror, agentState, online, ask, runs, reading, received>>

(* plan_wait and plan_show: shownToAgent().                                *)
PlanWait ==
  /\ ~plan.shown
  /\ plan' = [plan EXCEPT !.shown = TRUE]
  /\ unseen' = FALSE
  /\ UNCHANGED <<mirror, agentState, online, ask, runs, reading, received, lapped>>

-----------------------------------------------------------------------------
(* The owner's devices.                                                    *)
Sends(d, what) ==
  /\ d \in online /\ ask[d] = NoAsk
  /\ ask' = [ask EXCEPT ![d] = what]
  /\ UNCHANGED <<plan, mirror, agentState, online, reading, received, unseen, lapped>>

(* Approve is tapped on the sheet: planClaim.                              *)
TapApprove(d) ==
  /\ runs[d] = "no" /\ mirror.state # "none"
  /\ Sends(d, [NoAsk EXCEPT !.op = "claim"])
  /\ UNCHANGED runs

(* Decline is, while the sheet is up.                                      *)
TapDecline(d) ==
  /\ runs[d] = "no" /\ mirror.state # "none"
  /\ Sends(d, [NoAsk EXCEPT !.op = "update", !.state = "declined"])
  /\ UNCHANGED runs

(* planUpdate, of the one that runs it: the budget is open, an item is     *)
(* done (the state is left as it is), or it is over.                       *)
Reports(d, state, results) ==
  /\ \/ runs[d] = "mine" /\ state \in {"running", "failed"} /\ results = {}
     \/ /\ runs[d] = "running" /\ state \in {"none", "done", "ended"}
        /\ results \subseteq {i \in Items : received[d][i] > 0}
  /\ Sends(d, [op |-> "update", state |-> state, results |-> results])
  /\ runs' = [runs EXCEPT ![d] = CASE state = "running" -> "running"
                                   [] state \in Ends -> "over"
                                   [] OTHER -> @]

(* setAgent, of any device.  Blocked or removed, the agent's plans that are *)
(* not running go.                                                         *)
OwnerSets(state) ==
  /\ online # {} /\ agentState \notin {"unknown", state}
  /\ agentState' = IF state = "removed" THEN "unknown" ELSE state
  /\ mirror' = IF state # "accepted" /\ mirror.state # "running" THEN NoMirror ELSE mirror
  /\ UNCHANGED <<plan, online, ask, runs, reading, received, unseen, lapped>>

Arrives(d) ==
  /\ d \notin online
  /\ online' = online \cup {d}
  /\ UNCHANGED <<plan, mirror, agentState, ask, runs, reading, received, unseen, lapped>>

(* It leaves, or starts over and has forgotten what it ran; what it sent   *)
(* last may or may not reach the room.                                     *)
Leaves(d) ==
  /\ online' = online \ {d} /\ d \in online
  /\ ask' \in {ask, [ask EXCEPT ![d] = NoAsk]}
  /\ runs' \in {runs, [runs EXCEPT ![d] = "no"]}
  /\ UNCHANGED <<plan, mirror, agentState, reading, received, unseen, lapped>>

-----------------------------------------------------------------------------
(* fromOwner() in the room, and fromRoom() at the agent's.                 *)

AnyMayClaim(d) == mirror.by # {} \/ mirror.state = "submitted"

(* "the first whose owner taps Approve claims it".                         *)
MayClaim(d) == mirror.by = {d} \/ (mirror.by = {} /\ mirror.state = "submitted")

TakesClaim(d) ==
  /\ ask[d].op = "claim"
  /\ ask' = [ask EXCEPT ![d] = NoAsk]
  /\ IF mirror # NoMirror /\ MayClaim(d)
     THEN /\ mirror' = [mirror EXCEPT !.by = {d}]
          /\ runs' = [runs EXCEPT ![d] = IF d \in online THEN "mine" ELSE @]
     ELSE UNCHANGED <<mirror, runs>>
  /\ UNCHANGED <<plan, agentState, online, reading, received, unseen, lapped>>

SaysAsSeen(p) == plan' = [p EXCEPT !.shown = TRUE] /\ unseen' = TRUE

(* fromRoom(): what the owner says, the agent has not seen.                *)
Says(p) == plan' = [p EXCEPT !.shown = FALSE] /\ unseen' = TRUE

TakesUpdate(d) ==
  /\ ask[d].op = "update"
  /\ ask' = [ask EXCEPT ![d] = NoAsk]
  /\ IF mirror # NoMirror /\ mirror.by \subseteq {d} /\ plan.state # "draft"
     THEN LET with(copy) == [copy EXCEPT !.state = IF ask[d].state = "none" THEN @ ELSE ask[d].state,
                                         !.results = @ \cup ask[d].results]
          IN  /\ mirror' = with(mirror) /\ Says(with(plan))
              /\ lapped' = (lapped \/ HeldByACall)
     ELSE UNCHANGED <<mirror, plan, unseen, lapped>>
  /\ UNCHANGED <<agentState, online, runs, reading, received>>

PlanNext ==
  \/ PlanNew \/ PlanRemove \/ PlanSubmit \/ PlanFinish \/ PlanWait
  \/ \E k \in DataCalls : DataGoes(k) \/ DataRefused(k) \/ \E times \in [Items -> 0 .. MaxNamed] : PlanData(k, times)
  \/ \E state \in {"accepted", "blocked", "removed"} : OwnerSets(state)
  \/ \E d \in Devices :
       \/ TapApprove(d) \/ TapDecline(d) \/ Arrives(d) \/ Leaves(d)
       \/ TakesClaim(d) \/ TakesUpdate(d)
       \/ \E state \in Ends \cup {"none", "running"}, results \in SUBSET Items : Reports(d, state, results)

PlanSpec == PlanInit /\ [][PlanNext]_planVars

-----------------------------------------------------------------------------
(* Properties.                                                             *)
PlanTypeOK ==
  /\ plan.state \in Ends \cup {"none", "draft", "submitted", "running"}
  /\ Cardinality(mirror.by) <= 1
  /\ agentState \in {"unknown", "pending", "accepted", "blocked"}

(* "two Approves never open two budgets" (room.js:448-452).  Budgets are   *)
(* opened by the devices, so what is counted is them: one device at most   *)
(* runs the plan, the one the room has it by, through claims that cross,   *)
(* devices that leave or forget, and an agent blocked meanwhile.           *)
OneRunner ==
  /\ PlanTypeOK
  /\ \A d, e \in Devices : {runs[d], runs[e]} \subseteq {"mine", "running"} => d = e
  /\ mirror # NoMirror => \A d \in Devices : runs[d] # "no" => mirror.by = {d}

(* Unless the owner's word or another plan_data came while one awaited its *)
(* digests: the agent's copy says what the room's says, nothing the owner  *)
(* said is marked seen before the agent was shown it, and no plan_data     *)
(* sends what another has sent - so a device is sent an item's data as     *)
(* often as one call's list named it, which mcp.js:440 lets it do again.   *)
AgentIsTold ==
  ~lapped =>
    /\ mirror # NoMirror => plan.state = mirror.state /\ plan.results = mirror.results
    /\ unseen => ~plan.shown
    /\ \A d \in Devices, i \in Items :
         /\ received[d][i] <= MaxNamed
         /\ \A k \in DataCalls : reading[k].times[i] > 0 => received[d][i] = 0
=============================================================================
