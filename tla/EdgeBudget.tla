----------------------------- MODULE EdgeBudget -----------------------------
(* Budgets on one key: the agent service (edge/cli/agent.js), a plan       *)
(* runner (edge/src/plan.js, runPlan) and the client both use              *)
(* (edge/src/client.js).                                                   *)
(*                                                                         *)
(* A call to the key is one step: calls go one at a time, and an answer is *)
(* taken before the next call goes.  What the key does is external, as the *)
(* code and the comments of its plugin have it: it keeps one chain, pays a *)
(* use from its oldest live budget, only over the head and the bytes the   *)
(* TX start named, and owes a receipt until it is filed.  A budget is      *)
(* named by the position of the link that opened it.                       *)
EXTENDS Naturals, Sequences, FiniteSets

CONSTANTS
  Signs,        (* the requests to sign, each with bytes of its own        *)
  Execs,        (* the agent's commands                                    *)
  ExecOf,       (* the command each sign is asked in; "plan", an item      *)
  Uses,         (* how many uses a budget has                              *)
  MaxBudgets,   (* how many budgets are asked for                          *)
  MaxLost,      (* how many answers are lost                               *)
  MaxOthers     (* links of others: a person's sign, another computer's    *)

VARIABLES
  ring,         (* the key's chain, from when the service started          *)
  live,         (* its live budgets                                        *)
  started,      (* its TX start: the sign it names, the head it is over    *)
  budget,       (* the service's budget, 0 for none                        *)
  book,         (* what the client keeps of each budget                    *)
  sign,         (* how far each sign is, in which budget, over which head  *)
  exec,         (* the commands: open or not, used, the links told         *)
  asking,       (* what is asked of the service and the runner, per kind   *)
  filing,       (* who is filing a receipt, for which use                  *)
  faults,       (* answers lost, links of others, whether it was locked    *)
  crossed       (* the signs that had another asker beside them            *)

budgetVars == <<ring, live, started, budget, book, sign, exec, asking, filing, faults, crossed>>

(* A sign is a number, in the order a plan has its items.                  *)
(* A budget has a use at least (grants.js:60); no command is named as what *)
(* may cross one.                                                          *)
ASSUME BudgetAssumption ==
  /\ Signs \subseteq Nat \ {0}
  /\ Execs \cap {"plan", "end", "asked"} = {} /\ ExecOf \in [Signs -> Execs \cup {"plan"}]
  /\ Uses \in Nat \ {0} /\ {MaxBudgets, MaxLost, MaxOthers} \subseteq Nat

Kinds == {"budget", "continue", "end", "plan"}
PlanItems == {s \in Signs : ExecOf[s] = "plan"}
Idle == [at |-> "none", of |-> 0]
NoUse == [at |-> "none", with |-> 0, before |-> 0]
Shut == [at |-> "shut", used |-> FALSE, links |-> {}]
NotFiling == [at |-> "none", of |-> 0, with |-> 0]
NewBook == [owed |-> {}, ended |-> FALSE, spent |-> 0]

BudgetInit ==
  /\ ring = <<>> /\ live = {} /\ started = {} /\ budget = 0 /\ book = <<>>
  /\ sign = [s \in Signs |-> NoUse]
  /\ exec = [e \in Execs |-> Shut]
  /\ asking = [k \in Kinds |-> Idle]
  /\ filing = [w \in {"agent", "plan"} |-> NotFiling]
  /\ faults = [lost |-> 0, others |-> 0, locked |-> FALSE]
  /\ crossed = {}

-----------------------------------------------------------------------------
(* The key.                                                                *)

IsReceipt(i, n) == ring[i].op = "receipt" /\ ring[i].of = n
OwedAt(i) == {n \in 1 .. i : ring[n].op = "use" /\ ~ \E j \in 1 .. i : IsReceipt(j, n)}
Owed == OwedAt(Len(ring))
SpentAt(b, i) == Cardinality({n \in 1 .. i : ring[n].op = "use" /\ ring[n].of = b})
SpentOf(b) == SpentAt(b, Len(ring))
StepOf(n) == SpentAt(ring[n].of, n)

Party(s) == IF ExecOf[s] = "plan" THEN "plan" ELSE "service"
Payers(s) == {b \in live : ring[b].by = Party(s) /\ SpentOf(b) < Uses}
Payable == {b \in live : SpentOf(b) < Uses}

Link(op, of, by) == [op |-> op, of |-> of, by |-> by, sign |-> 0]
Open(by) == Link("open", 0, by)
Use(s, b) == [Link("use", b, Party(s)) EXCEPT !.sign = s]
Receipt(n) == Link("receipt", n, "key")
End(b, by) == Link("end", b, by)
Other == Link("other", 0, "other")

(* Any link clears the TX start.                                           *)
Links(more) == ring' = ring \o more /\ started' = {}

Revokes(b, by) ==
  /\ live' = live \ {b}
  /\ IF b \in live THEN Links(<<End(b, by)>>) ELSE UNCHANGED <<ring, started>>

(* An answer comes, or is lost; `unheard`: the key never had the call.     *)
Heard(how) ==
  IF how = "answered" THEN UNCHANGED faults
  ELSE faults.lost < MaxLost /\ faults' = [faults EXCEPT !.lost = @ + 1]
Hows == {"answered", "lost", "unheard"}

-----------------------------------------------------------------------------
(* A use: client.js use(), in the service's paid() and the runner's pay(). *)

Done == {"told", "failed"}
InUse == {s \in Signs : sign[s].at \notin Done \cup {"none"}}
To(s, at) == sign' = [sign EXCEPT ![s].at = at]
(* What fails is thrown; paid() then looks at what the key owes.           *)
Failed(s) == IF Party(s) = "plan" THEN "failed" ELSE "owes?"

(* The service signs once for a command, while it is open; the runner, its *)
(* items in order.  A budget that ended or owes a receipt is refused, and  *)
(* with none at all (0) the service's fails before a call is made.         *)
Begins(s, b) ==
  /\ sign[s].at = "none"
  /\ sign' = [sign EXCEPT ![s] =
       [at |-> IF b = 0 \/ book[b].ended \/ book[b].owed # {} THEN Failed(s) ELSE "head",
        with |-> b, before |-> 0]]

SignAsked(s) ==
  /\ Party(s) = "service"
  /\ exec[ExecOf[s]].at = "open" /\ ~exec[ExecOf[s]].used
  /\ exec' = [exec EXCEPT ![ExecOf[s]].used = TRUE]
  /\ Begins(s, budget)
  /\ UNCHANGED <<ring, live, started, budget, book, asking, filing, faults, crossed>>

ReadHead(s) ==
  /\ sign[s].at = "head"
  /\ \E how \in {"answered", "unheard"} :
       /\ Heard(how)
       /\ sign' = [sign EXCEPT ![s].before = Len(ring),
                               ![s].at = IF how = "answered" THEN "start" ELSE Failed(s)]
  /\ UNCHANGED <<ring, live, started, budget, book, exec, asking, filing, crossed>>

StartTx(s) ==
  /\ sign[s].at = "start"
  /\ \E how \in Hows :
       LET taken == how # "unheard" /\ Owed = {} /\ Payable # {}
       IN  /\ Heard(how)
           /\ started' = IF taken THEN {[by |-> s, over |-> sign[s].before]} ELSE started
           /\ To(s, IF taken /\ how = "answered" THEN "sign" ELSE Failed(s))
  /\ UNCHANGED <<ring, live, budget, book, exec, asking, filing, crossed>>

Matches(s) == started = {[by |-> s, over |-> Len(ring)]}

(* Those who had another's use linked beside them.                         *)
Beside(s) ==
  {e \in Execs : exec[e].at = "open"} \cup {ExecOf[t] : t \in InUse}
    \cup {k \in {"plan", "end"} : asking[k].at \notin {"none", "failed", "done", "ended"}}

(* The key pays the use it was told of ...                                 *)
SignPaid(s) ==
  /\ sign[s].at = "sign" /\ Matches(s) /\ Owed = {}
  /\ \E b \in Payers(s) : (\A c \in Payers(s) : b <= c) /\ Links(<<Use(s, b)>>)
  /\ crossed' = crossed \cup (Beside(s) \ {ExecOf[s]})
  /\ \E how \in {"answered", "lost"} :
       Heard(how) /\ To(s, IF how = "answered" THEN "pickup" ELSE "look")
  /\ UNCHANGED <<live, budget, book, exec, asking, filing>>

(* ... refuses another, and the TX start is used up ...                    *)
SignRefused(s) ==
  /\ sign[s].at = "sign" /\ started # {} /\ ~Matches(s)
  /\ started' = {} /\ To(s, "look")
  /\ UNCHANGED <<ring, live, budget, book, exec, asking, filing, faults, crossed>>

(* ... and one nothing pays waits for a press, which makes no link.        *)
SignPressed(s) ==
  /\ sign[s].at = "sign"
  /\ started = {} \/ (Matches(s) /\ Payers(s) = {})
  /\ started' = {}
  /\ \E pressed \in BOOLEAN : To(s, IF pressed THEN "pickup" ELSE "look")
  /\ UNCHANGED <<ring, live, budget, book, exec, asking, filing, faults, crossed>>

SignUnheard(s) ==
  /\ sign[s].at = "sign" /\ Heard("unheard") /\ To(s, "look")
  /\ UNCHANGED <<ring, live, started, budget, book, exec, asking, filing, crossed>>

IsUseOf(n, s) == n \in 1 .. Len(ring) /\ ring[n].op = "use" /\ ring[n].sign = s

(* A link of this use is owed, and its step counted if this budget paid it. *)
Notes(s, n) ==
  LET b == sign[s].with
  IN  book' = [book EXCEPT ![b].owed = @ \cup {n},
                           ![b].spent = IF ring[n].of = b /\ StepOf(n) > @ THEN StepOf(n) ELSE @]

Tells(s, links) ==
  exec' = IF Party(s) = "plan" THEN exec ELSE [exec EXCEPT ![ExecOf[s]].links = @ \cup links]
Said(n, ok) == [seq |-> n, ok |-> ok]

(* A use that failed is looked for where it would be.                      *)
LookNowhere(s) ==
  /\ sign[s].at = "look"
  /\ To(s, Failed(s))
  /\ UNCHANGED <<ring, live, started, budget, book, exec, asking, filing, faults, crossed>>

Look(s) ==
  /\ sign[s].at = "look"
  /\ \E how \in {"answered", "unheard"} :
       /\ Heard(how)
       /\ IF how = "answered" /\ IsUseOf(sign[s].before + 1, s)
          THEN Notes(s, sign[s].before + 1) ELSE UNCHANGED book
  /\ To(s, Failed(s))
  /\ UNCHANGED <<ring, live, started, budget, exec, asking, filing, crossed>>

(* One that was answered too, and then as the newest link.                 *)
Pickup(s) ==
  /\ sign[s].at \in {"pickup", "newest"}
  /\ \E how \in {"answered", "unheard"} :
       LET n == IF sign[s].at = "pickup" THEN sign[s].before + 1 ELSE Len(ring)
           found == how = "answered" /\ IsUseOf(n, s)
       IN  /\ Heard(how)
           /\ IF found THEN Notes(s, n) /\ Tells(s, {Said(n, TRUE)}) ELSE UNCHANGED <<book, exec>>
           /\ To(s, IF found THEN "told" ELSE IF sign[s].at = "pickup" THEN "newest" ELSE Failed(s))
  /\ UNCHANGED <<ring, live, started, budget, asking, filing, crossed>>

(* paid(): what the key owes now is taken for this command's.              *)
KeyOwed(s) ==
  /\ sign[s].at = "owes?"
  /\ \E how \in {"answered", "unheard"} :
       /\ Heard(how)
       /\ Tells(s, IF how = "unheard" THEN {}
                   ELSE {Said(n, FALSE) : n \in {n \in Owed : Said(n, TRUE) \notin exec[ExecOf[s]].links}})
  /\ To(s, "failed")
  /\ UNCHANGED <<ring, live, started, budget, book, asking, filing, crossed>>

-----------------------------------------------------------------------------
(* The agent's commands: agent.js openExec, openEndpoint.                  *)

ExecAsked(e) ==
  /\ exec[e].at = "shut" /\ budget # 0 /\ book[budget].owed = {}
  /\ exec' = [exec EXCEPT ![e].at = "asked"]
  /\ UNCHANGED <<ring, live, started, budget, book, sign, asking, filing, faults, crossed>>

(* Opened over what the key says, with the budget there is by then.        *)
ExecOpens(e) ==
  /\ exec[e].at = "asked"
  /\ exec' = [exec EXCEPT ![e].at = IF Owed = {} /\ budget \in live THEN "open" ELSE "shut"]
  /\ UNCHANGED <<ring, live, started, budget, book, sign, asking, filing, faults, crossed>>

ExecCloses(e) ==
  /\ exec[e].at = "open"
  /\ exec' = [exec EXCEPT ![e].at = "closed"]
  /\ UNCHANGED <<ring, live, started, budget, book, sign, asking, filing, faults, crossed>>

-----------------------------------------------------------------------------
(* Budgets: client.js open(), continue(), end() in the service's handlers, *)
(* and the runner's own.                                                   *)

Asked(k, at, of) == asking' = [asking EXCEPT ![k] = [at |-> at, of |-> of]]
Opened == Cardinality({n \in 1 .. Len(ring) : ring[n].op = "open"})
Due == Cardinality({k \in {"budget", "plan", "continue"} : asking[k].at \in {"asked", "revoke"}})
(* Two requests to the service at once.                                    *)
Together == IF \E k \in Kinds \ {"plan"} : asking[k] # Idle THEN {"asked"} ELSE {}

BudgetAsked(k) ==
  /\ k \in {"budget", "plan"} /\ asking[k] = Idle /\ Opened + Due < MaxBudgets
  /\ Asked(k, "asked", 0)
  /\ crossed' = crossed \cup (IF k = "plan" THEN {} ELSE Together)
  /\ UNCHANGED <<ring, live, started, budget, book, sign, exec, filing, faults>>

(* An old budget is ended before another continues it, owed or not.        *)
ContinueAsked ==
  /\ asking["continue"] = Idle /\ budget # 0 /\ Opened + Due < MaxBudgets
  /\ Asked("continue", "revoke", budget)
  /\ crossed' = crossed \cup Together
  /\ UNCHANGED <<ring, live, started, budget, book, sign, exec, filing, faults>>

ContinueRevokes ==
  /\ asking["continue"].at = "revoke"
  /\ \E how \in Hows :
       /\ Heard(how)
       /\ IF how = "unheard" THEN UNCHANGED <<ring, live, started>>
          ELSE Revokes(asking["continue"].of, "continue")
       /\ IF how = "answered" THEN Asked("continue", "asked", 0) ELSE Asked("continue", "none", 0)
  /\ UNCHANGED <<budget, book, sign, exec, filing, crossed>>

Gone(k) == IF k = "plan" THEN "failed" ELSE "none"

(* On the phone: the owner's yes and a press; not while a receipt is owed. *)
PhoneGrants(k) ==
  /\ asking[k].at = "asked"
  /\ IF Owed = {}
     THEN /\ Links(<<Open(IF k = "plan" THEN "plan" ELSE "service")>>)
          /\ live' = live \cup {Len(ring) + 1}
          /\ Asked(k, "granted", Len(ring) + 1)
     ELSE Asked(k, Gone(k), 0) /\ UNCHANGED <<ring, live, started>>
  /\ UNCHANGED <<budget, book, sign, exec, filing, faults, crossed>>

PhoneDeclines(k) ==
  /\ asking[k].at = "asked"
  /\ Asked(k, Gone(k), 0)
  /\ UNCHANGED <<ring, live, started, budget, book, sign, exec, filing, faults, crossed>>

(* The opening is read from the key and checked, and the budget is held.   *)
BudgetOpens(k) ==
  /\ asking[k].at = "granted"
  /\ \E how \in {"answered", "unheard"} :
       LET b == asking[k].of
       IN  /\ Heard(how)
           /\ IF how = "unheard" THEN Asked(k, Gone(k), 0) /\ UNCHANGED <<book, budget>>
              ELSE /\ book' = [c \in DOMAIN book \cup {b} |-> IF c = b THEN NewBook ELSE book[c]]
                   /\ budget' = IF k = "plan" THEN budget ELSE b
                   /\ IF k = "plan" THEN Asked(k, "running", b) ELSE Asked(k, "none", 0)
  /\ UNCHANGED <<ring, live, started, sign, exec, filing, crossed>>

EndAskedOwing ==
  /\ asking["end"] = Idle /\ budget # 0
  /\ IF book[budget].ended THEN budget' = 0 /\ UNCHANGED asking
     ELSE Asked("end", "revoke", budget) /\ UNCHANGED budget
  /\ crossed' = crossed \cup Together \cup {"end" : s \in {s \in InUse : sign[s].with = budget}}
  /\ UNCHANGED <<ring, live, started, book, sign, exec, filing, faults>>

(* end: only with every use receipted - as this budget counts them.        *)
EndAsked ==
  /\ asking["end"] = Idle /\ budget # 0 /\ book[budget].owed = {}
  /\ IF book[budget].ended THEN budget' = 0 /\ UNCHANGED asking
     ELSE Asked("end", "revoke", budget) /\ UNCHANGED budget
  /\ crossed' = crossed \cup Together \cup {"end" : s \in {s \in InUse : sign[s].with = budget}}
  /\ UNCHANGED <<ring, live, started, book, sign, exec, filing, faults>>

EndRevokes ==
  /\ asking["end"].at = "revoke"
  /\ LET b == asking["end"].of
     IN  \E how \in Hows :
           /\ Heard(how)
           /\ IF how = "unheard" THEN UNCHANGED <<ring, live, started>> ELSE Revokes(b, "end")
           /\ IF how = "answered" THEN book' = [book EXCEPT ![b].ended = TRUE] /\ budget' = 0
              ELSE UNCHANGED <<book, budget>>
  /\ Asked("end", "none", 0)
  /\ UNCHANGED <<sign, exec, filing, crossed>>

-----------------------------------------------------------------------------
(* Receipts: client.js receipt().                                          *)

Files(w, n, with) == filing' = [filing EXCEPT ![w] = [at |-> "file", of |-> n, with |-> with]]

(* The agent files what exec-open, status or a command's end told it of.   *)
AgentFiles(n) ==
  /\ filing["agent"] = NotFiling
  /\ n \in Owed \/ (budget # 0 /\ n \in book[budget].owed)
  /\ Files("agent", n, budget)
  /\ UNCHANGED <<ring, live, started, budget, book, sign, exec, asking, faults, crossed>>

(* Filed: nothing more is owed for it; with every use spent and receipted  *)
(* the key has ended the budget.                                           *)
Filed(w) ==
  LET b == filing[w].with
      owed == book[b].owed \ {filing[w].of}
  IN  /\ book' = IF b = 0 THEN book
                 ELSE [book EXCEPT ![b].owed = owed,
                        ![b].ended = @ \/ (owed = {} /\ book[b].spent >= Uses)]
      /\ filing' = [filing EXCEPT ![w] = NotFiling]
      /\ IF w = "plan" THEN Asked("plan", "running", b) ELSE UNCHANGED asking

NotFiled(w) ==
  /\ filing' = [filing EXCEPT ![w] = NotFiling]
  /\ IF w = "plan" THEN Asked("plan", "failing", filing[w].with) ELSE UNCHANGED asking
  /\ UNCHANGED book

Then(w, at) == filing' = [filing EXCEPT ![w].at = at] /\ UNCHANGED <<book, asking>>

(* A receipt is sent once.  The key ends a budget whose last use it is.  A *)
(* use the key says owes nothing, and this budget counts, was receipted:   *)
(* the head is read for it.                                                *)
FileReceipt(w) ==
  /\ filing[w].at = "file"
  /\ \E how \in Hows :
       LET n == filing[w].of
           b == filing[w].with
           taken == how # "unheard" /\ n \in Owed
           ends == ring[n].of \in live /\ SpentOf(ring[n].of) = Uses
       IN  /\ Heard(how)
           /\ IF taken
              THEN /\ Links(<<Receipt(n)>> \o IF ends THEN <<End(ring[n].of, "key")>> ELSE <<>>)
                   /\ live' = IF ends THEN live \ {ring[n].of} ELSE live
              ELSE UNCHANGED <<ring, live, started>>
           /\ CASE how = "answered" /\ taken -> Filed(w)
                [] how = "answered" /\ ~taken /\ b # 0 /\ n \in book[b].owed -> Then(w, "head")
                [] how # "answered" /\ b # 0 -> Then(w, "newest")
                [] OTHER -> NotFiled(w)
  /\ UNCHANGED <<budget, sign, exec, crossed>>

(* No answer: the key's newest link tells whether it was.                  *)
AskNewest(w) ==
  /\ filing[w].at \in {"newest", "head"}
  /\ \E how \in {"answered", "unheard"} :
       /\ Heard(how)
       /\ IF how = "answered" /\ (filing[w].at = "head" \/ IsReceipt(Len(ring), filing[w].of))
          THEN Filed(w) ELSE NotFiled(w)
  /\ UNCHANGED <<ring, live, started, budget, sign, exec, crossed>>

-----------------------------------------------------------------------------
(* A plan: plan.js runPlan, from its budget on.                            *)

PlanBook == book[asking["plan"].of]
Begun == {s \in PlanItems : sign[s].at # "none"}

PlanSigns(s) ==
  /\ asking["plan"].at = "running"
  /\ s \in PlanItems \ Begun /\ \A t \in PlanItems \ Begun : s <= t
  /\ Begins(s, asking["plan"].of)
  /\ Asked("plan", "signing", asking["plan"].of)
  /\ UNCHANGED <<ring, live, started, budget, book, exec, filing, faults, crossed>>

(* What the item left owed is filed, signed or not.                        *)
PlanReceipts ==
  /\ asking["plan"].at = "signing" /\ \A s \in Begun : sign[s].at \in Done
  /\ IF PlanBook.owed = {} THEN Asked("plan", "running", asking["plan"].of) /\ UNCHANGED filing
     ELSE \E n \in PlanBook.owed :
            Files("plan", n, asking["plan"].of) /\ Asked("plan", "filing", asking["plan"].of)
  /\ UNCHANGED <<ring, live, started, budget, book, sign, exec, faults, crossed>>

Result ==
  IF Begun = {} THEN "ended"
  ELSE IF \A s \in PlanItems : sign[s].at = "told" THEN "done" ELSE "failed"

(* After every item; or with none begun: the agent or the time ended it,   *)
(* or a datum is not the one approved (which says "failed").               *)
PlanEnds ==
  /\ asking["plan"].at = "running" /\ Begun \in {{}, PlanItems}
  /\ Asked("plan", IF PlanBook.ended THEN Result ELSE "ending", asking["plan"].of)
  /\ UNCHANGED <<ring, live, started, budget, book, sign, exec, filing, faults, crossed>>

(* A plan that failed ends its budget only with nothing owed.              *)
PlanRevokes ==
  LET b == asking["plan"].of
  IN  /\ asking["plan"].at \in {"ending", "failing"}
      /\ IF asking["plan"].at = "failing" /\ PlanBook.owed # {}
         THEN Asked("plan", "failed", b) /\ UNCHANGED <<ring, live, started, book, faults>>
         ELSE \E how \in Hows :
                /\ Heard(how)
                /\ IF how = "unheard" THEN UNCHANGED <<ring, live, started>> ELSE Revokes(b, "end")
                /\ book' = IF how = "answered" THEN [book EXCEPT ![b].ended = TRUE] ELSE book
                /\ Asked("plan", IF asking["plan"].at = "failing" THEN "failed"
                                 ELSE IF how = "answered" THEN Result ELSE "failing", b)
      /\ UNCHANGED <<budget, sign, exec, filing, crossed>>

-----------------------------------------------------------------------------
(* A lock, a restart, a lifetime over: budgets go, and leave no link.      *)
KeyLocks ==
  /\ ~faults.locked /\ live # {}
  /\ faults' = [faults EXCEPT !.locked = TRUE]
  /\ live' = {} /\ started' = {}
  /\ UNCHANGED <<ring, budget, book, sign, exec, asking, filing, crossed>>

OtherLinks ==
  /\ faults.others < MaxOthers
  /\ faults' = [faults EXCEPT !.others = @ + 1]
  /\ Links(<<Other>>)
  /\ UNCHANGED <<live, budget, book, sign, exec, asking, filing, crossed>>

(* What goes on once begun, and the agent's filing.                        *)
Working ==
  \/ \E s \in Signs :
       \/ ReadHead(s) \/ StartTx(s) \/ SignPaid(s) \/ SignRefused(s) \/ SignPressed(s) \/ SignUnheard(s)
       \/ Look(s) \/ Pickup(s) \/ KeyOwed(s) \/ PlanSigns(s)
  \/ PlanReceipts \/ PlanEnds \/ PlanRevokes
  \/ \E w \in {"agent", "plan"} : FileReceipt(w) \/ AskNewest(w)
  \/ \E n \in 1 .. Len(ring) : AgentFiles(n)

BudgetNext ==
  \/ Working
  \/ \E s \in Signs : SignAsked(s)
  \/ \E e \in Execs : ExecAsked(e) \/ ExecOpens(e) \/ ExecCloses(e)
  \/ \E k \in Kinds : BudgetAsked(k) \/ PhoneGrants(k) \/ PhoneDeclines(k) \/ BudgetOpens(k)
  \/ ContinueAsked \/ ContinueRevokes \/ EndAsked \/ EndRevokes \/ KeyLocks \/ OtherLinks

BudgetSpec == BudgetInit /\ [][BudgetNext]_budgetVars

-----------------------------------------------------------------------------
(* Properties.                                                             *)

(* Positions are of links that are there, a debt or a budget of one that   *)
(* makes it.                                                               *)
BudgetTypeOK ==
  /\ \A i \in 1 .. Len(ring) :
       /\ ring[i].op \in {"open", "use", "receipt", "end", "other"}
       /\ ring[i].by \in {"service", "plan", "continue", "end", "key", "other"}
       /\ ring[i].op = "use" => ring[i].sign \in Signs
       /\ ring[i].op \in {"use", "end"} => ring[i].of < i /\ ring[ring[i].of].op = "open"
       /\ ring[i].op = "receipt" => ring[i].of < i /\ ring[ring[i].of].op = "use"
  /\ \A b \in live \cup DOMAIN book : ring[b].op = "open"
  /\ \A t \in started : t.by \in Signs /\ t.over \in 0 .. Len(ring)
  /\ budget \in {0} \cup DOMAIN book
  /\ \A b \in DOMAIN book : book[b].owed \subseteq 1 .. Len(ring) /\ book[b].spent <= SpentOf(b)
  /\ \A s \in Signs : sign[s].with \in {0} \cup DOMAIN book
  /\ \A e \in Execs : exec[e].links # {} => exec[e].used
  /\ faults.lost <= MaxLost /\ faults.others <= MaxOthers

UsesIn(e) == {n \in 1 .. Len(ring) : ring[n].op = "use" /\ ExecOf[ring[n].sign] = e}

(* A command has one paid use at most, whatever else uses the key.         *)
OnePaidEach ==
  \A e \in Execs : \A m, n \in UsesIn(e) : m = n

(* The links a command is told of, and files receipts for, are its own,    *)
(* unless another's use was linked beside it (agent.js:133-136 takes what  *)
(* the key owes for this command's).                                       *)
ToldOfItsOwn ==
  \A e \in Execs : e \notin crossed => \A l \in exec[e].links : l.seq \in UsesIn(e)

(* A use the key has paid is known to whoever must file its receipt once   *)
(* its sign is over.  Two lost answers may hide it; one hides a plan's if  *)
(* another's link came behind it (client.js:203-205 looks in one place).   *)
DebtIsKnown ==
  \A n \in Owed :
    LET s == ring[n].sign
    IN  sign[s].at \in Done =>
          \/ n \in book[sign[s].with].owed
          \/ Party(s) = "service" /\ Said(n, FALSE) \in exec[ExecOf[s]].links
          \/ Party(s) = "plan" /\ faults.lost = 1 /\ n < Len(ring)
          \/ faults.lost > 1

(* A budget the client takes for ended pays nothing more.                  *)
EndedIsGone ==
  \A b \in DOMAIN book : book[b].ended => b \notin live

(* No use is left owing by the end of its budget, unless the end crossed   *)
(* it or an answer was lost (client.js end(): receipts first).             *)
EndsOwingNothing ==
  \A i \in 1 .. Len(ring) :
    ring[i].op = "end" /\ ring[i].by \in {"end", "key"} /\ "end" \notin crossed /\ faults.lost = 0
      => \A n \in OwedAt(i) : ring[n].of = ring[i].of => sign[ring[n].sign].with # ring[i].of

(* The service holds the newest budget it opened until that has ended,     *)
(* unless two of its requests were under way together (setBudget).         *)
HeldByService ==
  LET opened == {b \in DOMAIN book : ring[b].by = "service"}
  IN  \A b \in opened :
        /\ \A c \in opened : c <= b
        /\ \A k \in {"budget", "continue", "end"} : asking[k] = Idle
        => "asked" \in crossed \/ budget = b \/ book[b].ended

(* With every answer heard, a plan says "failed" only over an item that    *)
(* was not signed or a receipt that is owed.  (With the answer to its last *)
(* receipt lost it says so over a plan that is done: the key has ended the *)
(* budget behind the receipt, which is then not the newest link.)          *)
PlanFailsForACause ==
  asking["plan"].at = "failed" /\ asking["plan"].of \in DOMAIN book /\ faults.lost = 0 =>
    \/ \E s \in PlanItems : sign[s].at # "told"
    \/ \E n \in Owed : ring[n].of = asking["plan"].of

(* Every use the key pays has one asker, who comes to know of it and no    *)
(* other does: OnePaidEach, ToldOfItsOwn and DebtIsKnown.                  *)
UsesAreTheirOwn == BudgetTypeOK /\ OnePaidEach /\ ToldOfItsOwn /\ DebtIsKnown

(* A budget ends once, owing nothing, and its holder and its plan know how *)
(* it ended: the four parts above.                                         *)
BudgetsEndClean == EndedIsGone /\ EndsOwingNothing /\ HeldByService /\ PlanFailsForACause
=============================================================================
