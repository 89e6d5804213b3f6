--------------------------- MODULE ProjectControls ---------------------------
(***************************************************************************)
(* The controls of one project: its budget items and expenses              *)
(* (routes/budget.ts), budget revisions (budgetRevisions.ts), change       *)
(* orders (changeOrders.ts), budget alerts (budgetAlerts.ts), forecast     *)
(* snapshots (forecast.ts) and its deletion (projects.ts).  An IPC and a   *)
(* commitment stand for all of them.                                       *)
(*                                                                         *)
(* A request is the reads its handler makes before its transaction, then   *)
(* the transaction; a transaction that locks rows waits while the deletion *)
(* of the project holds them.  Every change order adds 1, every expense    *)
(* and the commitment cost 4.                                              *)
(***************************************************************************)
EXTENDS Naturals, FiniteSets, FiniteSetsExt, Absent

CONSTANTS BudgetItems, BudgetRevisions, ChangeOrders, Expenses, Alerts, ControlRequests, Amounts

ASSUME FiniteOrders == IsFiniteSet(ChangeOrders)

VARIABLES
  projectRow,   \* "there", "deleted"
  budgetTotal,
  revision,     \* of each revision: "none", "draft", "approved", "superseded"
  belongs,      \* of each item: None (no row), "loose", or its revision
  planned,
  change,       \* of each change order: "none", "pending", "approved", "rejected", "deleted"
  expense,      \* of each expense: "none", "there", "posted" (from the posting of labour cost)
  spentOn,      \* its item, or None
  ipc,          \* "none", "draft", "certified"
  commitment,   \* "none", "draft", "active", "cancelled"
  alert, alertKey,
  asked,        \* of each request: None, or what it is about and what it has read
  holds,        \* what the deletion of the project has locked
  moments       \* of each snapshot under way: the figures that held since it began (no part of the code)

budgetvars == <<revision, belongs, planned>>
ordervars == <<budgetTotal, change>>
costvars == <<expense, spentOn, ipc, commitment>>
alertvars == <<alert, alertKey>>
controlVars == <<projectRow, budgetvars, ordervars, costvars, alertvars, asked, holds, moments>>

ControlsInit ==
    /\ projectRow = "there" /\ budgetTotal = 0
    /\ revision = [r \in BudgetRevisions |-> "none"]
    /\ belongs = [i \in BudgetItems |-> None] /\ planned = [i \in BudgetItems |-> 0]
    /\ change = [c \in ChangeOrders |-> "none"]
    /\ expense = [e \in Expenses |-> "none"] /\ spentOn = [e \in Expenses |-> None]
    /\ ipc = "none" /\ commitment = "none"
    /\ alert = [a \in Alerts |-> "none"] /\ alertKey = [a \in Alerts |-> None]
    /\ asked = [q \in ControlRequests |-> None] /\ holds = {}
    /\ moments = [q \in ControlRequests |-> {}]

Ask(q, what) == asked[q] = None /\ asked' = [asked EXCEPT ![q] = what]
Asks(q, op) == asked[q] # None /\ asked[q].op = op
Done(q) == asked' = [asked EXCEPT ![q] = None]

\* The router's middleware.
Exists == projectRow = "there"

\* Mutant: the deletion locks the project and reads the rest.
FreeButProject(row) == row # "project" \/ row \notin holds

\* A row is free unless the deletion holds it.
Free(row) == row \notin holds

-----------------------------------------------------------------------------
(* Budget items and expenses.                                              *)

CreateItem(i, n) ==
    /\ Exists /\ Free("project") /\ belongs[i] = None
    /\ belongs' = [belongs EXCEPT ![i] = "loose"] /\ planned' = [planned EXCEPT ![i] = n]
    /\ UNCHANGED <<projectRow, revision, ordervars, costvars, alertvars, asked, holds>>

Mutable(r) == r \in {"loose"} \cup {s \in BudgetRevisions : revision[s] = "draft"}

\* PATCH and DELETE /items/:itemId: the item, and assertItemMutable.
ReadItem(q, i, op, n) ==
    /\ Exists /\ belongs[i] # None /\ Mutable(belongs[i])
    /\ Ask(q, [op |-> op, item |-> i, seen |-> belongs[i], amount |-> n])
    /\ UNCHANGED <<projectRow, budgetvars, ordervars, costvars, alertvars, holds>>

\* Their transactions lock and check the revision that was read.
WriteItem(q) ==
    \E i \in BudgetItems :
      /\ Asks(q, "patchItem") \/ Asks(q, "deleteItem")
      /\ asked[q].item = i /\ Free("revisions")
      /\ IF belongs[i] = None \/ ~Mutable(asked[q].seen)
         THEN UNCHANGED <<belongs, planned, spentOn>>
         ELSE IF asked[q].op = "patchItem"
         THEN planned' = [planned EXCEPT ![i] = asked[q].amount] /\ UNCHANGED <<belongs, spentOn>>
         ELSE /\ belongs' = [belongs EXCEPT ![i] = None] /\ planned' = [planned EXCEPT ![i] = 0]
              /\ spentOn' = [e \in Expenses |-> IF spentOn[e] = i THEN None ELSE spentOn[e]]
      /\ Done(q)
      /\ UNCHANGED <<projectRow, revision, ordervars, expense, ipc, commitment, alertvars, holds>>

\* POST /expenses, with its item still there; and an expense from a posting of labour cost.
CreateExpense(e, i) ==
    /\ Exists /\ Free("project") /\ expense[e] = "none" /\ i \in {j \in BudgetItems : belongs[j] # None} \cup {None}
    /\ \/ expense' = [expense EXCEPT ![e] = "there"] /\ spentOn' = [spentOn EXCEPT ![e] = i]
       \/ i = None /\ expense' = [expense EXCEPT ![e] = "posted"] /\ spentOn' = spentOn
    /\ UNCHANGED <<projectRow, budgetvars, ordervars, ipc, commitment, alertvars, asked, holds>>

\* The posting's foreign key refuses the other ones.
DeleteExpense(e) ==
    /\ Exists /\ expense[e] = "there"
    /\ expense' = [expense EXCEPT ![e] = "none"] /\ spentOn' = [spentOn EXCEPT ![e] = None]
    /\ UNCHANGED <<projectRow, budgetvars, ordervars, ipc, commitment, alertvars, asked, holds>>

-----------------------------------------------------------------------------
(* Budget revisions.                                                       *)

CreateRevision(r) ==
    /\ Exists /\ Free("project") /\ revision[r] = "none"
    /\ revision' = [revision EXCEPT ![r] = "draft"]
    /\ UNCHANGED <<projectRow, belongs, planned, ordervars, costvars, alertvars, asked, holds>>

\* The project's lock orders approvals; the one approved before is superseded.
ApproveRevision(r) ==
    /\ Exists /\ Free("project") /\ Free("revisions") /\ revision[r] = "draft"
    /\ revision' = [s \in BudgetRevisions |-> IF s = r THEN "approved"
                                              ELSE IF revision[s] = "approved" THEN "superseded" ELSE revision[s]]
    /\ UNCHANGED <<projectRow, belongs, planned, ordervars, costvars, alertvars, asked, holds>>

\* POST /:revisionId/items/:itemId looks at the revision the item goes to, not at the one it leaves.
ReadAssignment(q, r, i) ==
    /\ Exists /\ revision[r] = "draft" /\ belongs[i] # None
    /\ Ask(q, [op |-> "assign", item |-> i, to |-> r])
    /\ UNCHANGED <<projectRow, budgetvars, ordervars, costvars, alertvars, holds>>
AssignItem(q) ==
    /\ Asks(q, "assign") /\ Free("revisions")
    /\ belongs' = IF revision[asked[q].to] = "draft" /\ belongs[asked[q].item] # None
                  THEN [belongs EXCEPT ![asked[q].item] = asked[q].to] ELSE belongs
    /\ Done(q)
    /\ UNCHANGED <<projectRow, revision, planned, ordervars, costvars, alertvars, holds>>

-----------------------------------------------------------------------------
(* Change orders.                                                          *)

CreateChange(c) ==
    /\ Exists /\ Free("project") /\ change[c] = "none"
    /\ change' = [change EXCEPT ![c] = "pending"]
    /\ UNCHANGED <<projectRow, budgetTotal, budgetvars, costvars, alertvars, asked, holds>>

\* Conditional on status = 'pending'; an approval increments the total in place.
Decide(c, answer) ==
    /\ Exists /\ change[c] = "pending"
    /\ answer = "approved" => Free("project")
    /\ change' = [change EXCEPT ![c] = answer]
    /\ budgetTotal' = IF answer = "approved" THEN budgetTotal + 1 ELSE budgetTotal
    /\ UNCHANGED <<projectRow, budgetvars, costvars, alertvars, asked, holds>>

\* Mutant: what was pending when it was read is deleted.
DeleteDecided(c) ==
    /\ Exists /\ change[c] \in {"pending", "approved", "rejected"}
    /\ change' = [change EXCEPT ![c] = "deleted"]
    /\ UNCHANGED <<projectRow, budgetTotal, budgetvars, costvars, alertvars, asked, holds>>

\* Locked, and looked at again.
DeleteChange(c) ==
    /\ Exists /\ change[c] \in {"pending", "rejected"}
    /\ change' = [change EXCEPT ![c] = "deleted"]
    /\ UNCHANGED <<projectRow, budgetTotal, budgetvars, costvars, alertvars, asked, holds>>

-----------------------------------------------------------------------------
(* Figures, forecasts and alerts.                                          *)

CostPlan == MapThenSumSet(LAMBDA i : planned[i], BudgetItems)
ActualCost == 4 * Cardinality({e \in Expenses : expense[e] # "none"})
CommittedCost == IF commitment = "active" THEN 4 ELSE 0

\* calculateForecast: the estimate at completion that counts commitments.
Eac(plan, actual, committed) == IF plan > actual + committed THEN plan ELSE actual + committed

Tier(percent) == IF percent >= 100 THEN "critical" ELSE IF percent >= 90 THEN "warning" ELSE "info"

\* The rules that look at the project, with the keys that make their alerts unique.
Hits(plan, actual, committed) ==
    IF plan = 0 THEN {}
    ELSE LET percent == ((actual + committed) * 100) \div plan
             over == ((Eac(plan, actual, committed) - plan) * 100) \div plan
         IN  (IF percent >= 80 THEN {<<"consumption", Tier(percent)>>} ELSE {})
             \cup (IF Eac(plan, actual, committed) > plan
                   THEN {<<"forecast", IF over >= 10 THEN "critical" ELSE "warning">>} ELSE {})
             \cup (IF actual + committed > plan THEN {<<"exposure", "critical">>} ELSE {})

\* collectForecastInputs makes one query after another, each on the pool and not on the
\* caller's transaction; a snapshot and an evaluation of the alerts begin with it.
Collect(q, op) ==
    /\ Exists
    /\ Ask(q, [op |-> op, plan |-> CostPlan, actual |-> None, committed |-> None])
    /\ UNCHANGED <<projectRow, budgetvars, ordervars, costvars, alertvars, holds>>
CollectActual(q) ==
    /\ Asks(q, "snapshot") \/ Asks(q, "evaluate")
    /\ asked[q].actual = None
    /\ asked' = [asked EXCEPT ![q].actual = ActualCost]
    /\ UNCHANGED <<projectRow, budgetvars, ordervars, costvars, alertvars, holds>>
CollectCommitted(q) ==
    /\ Asks(q, "snapshot") \/ Asks(q, "evaluate")
    /\ asked[q].actual # None /\ asked[q].committed = None
    /\ asked' = [asked EXCEPT ![q].committed = CommittedCost]
    /\ UNCHANGED <<projectRow, budgetvars, ordervars, costvars, alertvars, holds>>

StoreSnapshot(q) ==
    /\ Asks(q, "snapshot") /\ asked[q].committed # None /\ Free("project")
    /\ Done(q)
    /\ UNCHANGED <<projectRow, budgetvars, ordervars, costvars, alertvars, holds>>

Unresolved == {a \in Alerts : alert[a] \in {"open", "acknowledged"}}

\* ON CONFLICT DO NOTHING on the index over unresolved alerts.
Insertable(fresh) == {key \in fresh : \A a \in Unresolved : alertKey[a] # key}

\* persistCandidates inserts one alert after another; here one of them.
PersistAlert(q, a) ==
    /\ Asks(q, "evaluate") /\ asked[q].committed # None /\ alert[a] = "none" /\ Free("project")
    /\ \E key \in Insertable(Hits(asked[q].plan, asked[q].actual, asked[q].committed)) :
         alert' = [alert EXCEPT ![a] = "open"] /\ alertKey' = [alertKey EXCEPT ![a] = key]
    /\ UNCHANGED <<projectRow, budgetvars, ordervars, costvars, asked, holds>>
EndEvaluation(q) ==
    /\ Asks(q, "evaluate") /\ asked[q].committed # None
    /\ Done(q)
    /\ UNCHANGED <<projectRow, budgetvars, ordervars, costvars, alertvars, holds>>

\* Conditional on the status.
Acknowledge(a) ==
    /\ alert[a] = "open" /\ alert' = [alert EXCEPT ![a] = "acknowledged"]
    /\ UNCHANGED <<projectRow, budgetvars, ordervars, costvars, alertKey, asked, holds>>
ResolveAlert(a) ==
    /\ a \in Unresolved /\ alert' = [alert EXCEPT ![a] = "resolved"]
    /\ UNCHANGED <<projectRow, budgetvars, ordervars, costvars, alertKey, asked, holds>>

-----------------------------------------------------------------------------
(* Deleting the project.                                                   *)

\* What happens to IPCs and commitments elsewhere, each change under its row's lock.
CreateIpc == Exists /\ Free("project") /\ ipc = "none" /\ ipc' = "draft" /\ commitment' = commitment
CertifyIpc == Free("ipcs") /\ ipc = "draft" /\ ipc' = "certified" /\ commitment' = commitment
CreateCommitment == Exists /\ Free("project") /\ commitment = "none" /\ commitment' = "draft" /\ ipc' = ipc
ApproveCommitment == Free("commitments") /\ commitment = "draft" /\ commitment' = "active" /\ ipc' = ipc
CancelCommitment == Free("commitments") /\ commitment \in {"draft", "active"} /\ commitment' = "cancelled" /\ ipc' = ipc
Elsewhere ==
    /\ CreateIpc \/ CertifyIpc \/ CreateCommitment \/ ApproveCommitment \/ CancelCommitment
    /\ UNCHANGED <<projectRow, budgetvars, ordervars, expense, spentOn, alertvars, asked, holds>>

\* DELETE /:id locks the project, its IPCs, its revisions and its commitments, in this order.
LockOrder == <<"project", "ipcs", "revisions", "commitments">>
History(row) ==
    CASE row = "project" -> FALSE
      [] row = "ipcs" -> ipc = "certified"
      [] row = "revisions" -> \E r \in BudgetRevisions : revision[r] = "approved"
      [] row = "commitments" -> commitment \in {"draft", "active"}

\* One more lock, which is given up with the others when what it shows is history.
LockNext(n) == holds' = IF History(LockOrder[n]) THEN {} ELSE holds \cup {LockOrder[n]}

BeginDelete == Exists /\ holds = {} /\ LockNext(1)
ContinueDelete == \E n \in 2..4 : Cardinality(holds) = n - 1 /\ LockNext(n)
LockForDelete ==
    /\ BeginDelete \/ ContinueDelete
    /\ UNCHANGED <<projectRow, budgetvars, ordervars, costvars, alertvars, asked>>

\* Everything of the project goes with it.
DeleteProject ==
    /\ Cardinality(holds) = 4
    /\ projectRow' = "deleted" /\ holds' = {}
    /\ belongs' = [i \in BudgetItems |-> None] /\ planned' = [i \in BudgetItems |-> 0]
    /\ revision' = [r \in BudgetRevisions |-> "none"] /\ change' = [c \in ChangeOrders |-> "none"]
    /\ expense' = [e \in Expenses |-> "none"] /\ spentOn' = [e \in Expenses |-> None]
    /\ alert' = [a \in Alerts |-> "none"] /\ alertKey' = [a \in Alerts |-> None]
    /\ asked' = [q \in ControlRequests |-> None]
    /\ budgetTotal' = 0 /\ ipc' = "none" /\ commitment' = "none"

-----------------------------------------------------------------------------
ControlStep ==
    \/ \E i \in BudgetItems, n \in Amounts : CreateItem(i, n)
    \/ \E q \in ControlRequests, i \in BudgetItems :
         \/ \E n \in Amounts : ReadItem(q, i, "patchItem", n)
         \/ ReadItem(q, i, "deleteItem", 0)
         \/ \E r \in BudgetRevisions : ReadAssignment(q, r, i)
    \/ \E q \in ControlRequests :
         \/ WriteItem(q) \/ AssignItem(q)
         \/ \E op \in {"snapshot", "evaluate"} : Collect(q, op)
         \/ CollectActual(q) \/ CollectCommitted(q) \/ StoreSnapshot(q) \/ EndEvaluation(q)
         \/ \E a \in Alerts : PersistAlert(q, a)
    \/ \E e \in Expenses : DeleteExpense(e) \/ \E i \in BudgetItems \cup {None} : CreateExpense(e, i)
    \/ \E r \in BudgetRevisions : CreateRevision(r) \/ ApproveRevision(r)
    \/ \E c \in ChangeOrders : CreateChange(c) \/ DeleteChange(c) \/ \E d \in {"approved", "rejected"} : Decide(c, d)
    \/ \E a \in Alerts : Acknowledge(a) \/ ResolveAlert(a)
    \/ Elsewhere \/ LockForDelete \/ DeleteProject

Figures == <<CostPlan, ActualCost, CommittedCost>>
ControlsNext ==
    /\ ControlStep
    /\ moments' = [q \in ControlRequests |->
                     IF asked'[q] # None /\ asked'[q].op = "snapshot" THEN moments[q] \cup {Figures, Figures'} ELSE {}]

ControlsSpec == ControlsInit /\ [][ControlsNext]_controlVars

-----------------------------------------------------------------------------
(***************************************************************************)
(* The project's total is what its approved change orders add up to,       *)
(* through decisions and deletions that race (changeOrders.ts:196-206).    *)
(***************************************************************************)
BudgetTotalAccounted == budgetTotal = Cardinality({c \in ChangeOrders : change[c] = "approved"})

(***************************************************************************)
(* "A project with certified financial history must never be destroyable": *)
(* no certification, approval or commitment slips in between the checks of *)
(* the deletion and the deletion (projects.ts:134-158).                    *)
(***************************************************************************)
HistoryNeverDestroyed ==
    [][projectRow' # projectRow => \A row \in {"ipcs", "revisions", "commitments"} : ~History(row)]_controlVars

(***************************************************************************)
(* Evaluations that race leave one unresolved alert of each rule and tier. *)
(***************************************************************************)
OneUnresolvedAlert == \A a, b \in Unresolved : alertKey[a] = alertKey[b] => a = b

(***************************************************************************)
(* "Once approved, a revision's item set is a historical record"           *)
(* (budgetRevisions.ts:188): while the project is there, an approved or    *)
(* superseded revision keeps its items and their amounts.                  *)
(***************************************************************************)
ApprovedItemsFixed ==
    [][\A r \in BudgetRevisions :
         revision[r] \in {"approved", "superseded"} /\ projectRow' = projectRow =>
           \A i \in BudgetItems : (belongs[i] = r <=> belongs'[i] = r)
                                  /\ (belongs[i] = r => planned'[i] = planned[i])]_controlVars

(***************************************************************************)
(* A stored snapshot "reflects one consistent calculation boundary"        *)
(* (forecast.ts:198-202): its figures all held at one moment.              *)
(***************************************************************************)
SnapshotConsistent ==
    \A q \in ControlRequests :
      Asks(q, "snapshot") /\ asked[q].committed # None => <<asked[q].plan, asked[q].actual, asked[q].committed>> \in moments[q]

=============================================================================
