---------------------------- MODULE RecordsProofs ----------------------------
(***************************************************************************)
(* Proofs about ProjectControls, SiteRecords, Payroll, TaxRules and        *)
(* ZatcaOnboarding: what a request writes on the strength of what it has   *)
(* read.                                                                   *)
(***************************************************************************)
EXTENDS ProjectControls, SiteRecords, Payroll, TaxRules, ZatcaOnboarding, FiniteSetTheorems, TLAPS

-----------------------------------------------------------------------------
(* The controls of a project.                                              *)

Approved == {c \in ChangeOrders : change[c] = "approved"}

\* The deletion holds a first part of what it locks, and nothing of it is history.
LockSets == {{}, {"project"}, {"project", "ipcs"}, {"project", "ipcs", "revisions"},
             {"project", "ipcs", "revisions", "commitments"}}

ControlsInv ==
    /\ DOMAIN change = ChangeOrders /\ DOMAIN revision = BudgetRevisions
    /\ budgetTotal \in Nat /\ BudgetTotalAccounted
    /\ holds \in LockSets
    /\ \A row \in holds : ~History(row)

\* How many locks there are says which.
LEMMA CountedLocks ==
  ASSUME NEW S \in LockSets
  PROVE  /\ Cardinality(S) = 1 => S = {"project"}
         /\ Cardinality(S) = 2 => S = {"project", "ipcs"}
         /\ Cardinality(S) = 3 => S = {"project", "ipcs", "revisions"}
         /\ Cardinality(S) = 4 => S = {"project", "ipcs", "revisions", "commitments"}
<1>0. Cardinality({}) = 0 /\ IsFiniteSet({})
  BY FS_EmptySet
<1>1. Cardinality({"project"}) = 1 /\ IsFiniteSet({"project"})
  BY FS_Singleton
<1>2. Cardinality({"project"} \cup {"ipcs"}) = 2 /\ IsFiniteSet({"project"} \cup {"ipcs"})
  BY <1>1, FS_AddElement
<1>3. {"project"} \cup {"ipcs"} = {"project", "ipcs"}
  OBVIOUS
<1>4. Cardinality({"project", "ipcs"} \cup {"revisions"}) = 3 /\ IsFiniteSet({"project", "ipcs"} \cup {"revisions"})
  BY <1>2, <1>3, FS_AddElement
<1>5. {"project", "ipcs"} \cup {"revisions"} = {"project", "ipcs", "revisions"}
  OBVIOUS
<1>6. Cardinality({"project", "ipcs", "revisions"} \cup {"commitments"}) = 4
  BY <1>4, <1>5, FS_AddElement
<1>7. {"project", "ipcs", "revisions"} \cup {"commitments"} = {"project", "ipcs", "revisions", "commitments"}
  OBVIOUS
<1> QED  BY <1>0, <1>1, <1>2, <1>3, <1>4, <1>5, <1>6, <1>7 DEF LockSets

\* One more approved order is one more in the total.
LEMMA ApprovalCounts ==
  ASSUME NEW c \in ChangeOrders, c \notin Approved
  PROVE  Cardinality(Approved \cup {c}) = Cardinality(Approved) + 1
  BY FiniteOrders, FS_Subset, FS_AddElement DEF Approved

\* The initial state.
LEMMA ControlsInvInit == ControlsInit => ControlsInv
<1> SUFFICES ASSUME ControlsInit PROVE ControlsInv
  OBVIOUS
<1>1. {c \in ChangeOrders : change[c] = "approved"} = {}
  BY DEF ControlsInit
<1>2. BudgetTotalAccounted
  BY <1>1, FS_EmptySet DEF BudgetTotalAccounted, ControlsInit
<1> QED  BY <1>2 DEF ControlsInit, ControlsInv, LockSets

\* Decisions and deletions of change orders keep the total.
LEMMA OrdersKeep ==
  ASSUME NEW c \in ChangeOrders, ControlsInv,
         CreateChange(c) \/ DeleteChange(c) \/ \E d \in {"approved", "rejected"} : Decide(c, d)
  PROVE  ControlsInv'
<1>1. DOMAIN change' = ChangeOrders /\ budgetTotal' \in Nat /\ UNCHANGED <<revision, holds, ipc, commitment>>
  BY DEF ControlsInv, CreateChange, DeleteChange, Decide, budgetvars, costvars
<1>2. BudgetTotalAccounted'
  <2>1. CASE Decide(c, "approved")
    <3>1. c \notin Approved /\ Approved' = Approved \cup {c} /\ budgetTotal' = budgetTotal + 1
      BY <2>1 DEF Decide, Approved, ControlsInv
    <3>2. Cardinality(Approved') = Cardinality(Approved) + 1
      BY <3>1, ApprovalCounts
    <3> QED  BY <3>1, <3>2 DEF BudgetTotalAccounted, Approved, ControlsInv
  <2>2. CASE CreateChange(c) \/ DeleteChange(c) \/ Decide(c, "rejected")
    <3>1. Approved' = Approved /\ budgetTotal' = budgetTotal
      BY <2>2 DEF CreateChange, DeleteChange, Decide, Approved, ControlsInv
    <3> QED  BY <3>1 DEF BudgetTotalAccounted, Approved, ControlsInv
  <2> QED  BY <2>1, <2>2
<1>3. \A row \in holds : ~History(row)'
  BY <1>1 DEF ControlsInv, History
<1> QED  BY <1>1, <1>2, <1>3 DEF ControlsInv

\* What the deletion holds is not made into history meanwhile.
LEMMA HistoryKeeps ==
  ASSUME ControlsInv, Elsewhere \/ \E r \in BudgetRevisions : CreateRevision(r) \/ ApproveRevision(r)
  PROVE  ControlsInv'
<1>1. UNCHANGED <<change, budgetTotal, holds>> /\ DOMAIN revision' = BudgetRevisions
  BY DEF ControlsInv, Elsewhere, CreateRevision, ApproveRevision, budgetvars, ordervars
<1>2. ASSUME NEW row \in holds PROVE ~History(row)'
  <2>1. row \in {"project", "ipcs", "revisions", "commitments"} /\ "project" \in holds /\ ~History(row)
    BY DEF ControlsInv, LockSets
  <2>2. CASE Elsewhere
    BY <2>1, <2>2, <1>1 DEF Elsewhere, CreateIpc, CertifyIpc, CreateCommitment, ApproveCommitment, CancelCommitment,
        History, Free, budgetvars
  <2>3. CASE \E r \in BudgetRevisions : CreateRevision(r) \/ ApproveRevision(r)
    BY <2>1, <2>3, <1>1 DEF ControlsInv, CreateRevision, ApproveRevision, History, Free, costvars
  <2> QED  BY <2>2, <2>3
<1> QED  BY <1>1, <1>2 DEF ControlsInv, BudgetTotalAccounted

\* Each lock is taken after the ones before it, on what is not history.
LEMMA LocksKeep ==
  ASSUME ControlsInv, LockForDelete
  PROVE  ControlsInv'
<1>1. UNCHANGED <<change, budgetTotal, revision, ipc, commitment>>
  BY DEF LockForDelete, budgetvars, ordervars, costvars
<1>2. holds' \in LockSets /\ \A row \in holds' : ~History(row)
  <2>1. CASE BeginDelete
    BY <2>1 DEF BeginDelete, LockNext, LockOrder, LockSets, ControlsInv
  <2>2. CASE ContinueDelete
    <3>1. PICK n \in 2..4 : Cardinality(holds) = n - 1 /\ LockNext(n)
      BY <2>2 DEF ContinueDelete
    <3>2. CASE n = 2
      BY <3>1, <3>2, CountedLocks DEF LockNext, LockOrder, LockSets, ControlsInv
    <3>3. CASE n = 3
      BY <3>1, <3>3, CountedLocks DEF LockNext, LockOrder, LockSets, ControlsInv
    <3>4. CASE n = 4
      BY <3>1, <3>4, CountedLocks DEF LockNext, LockOrder, LockSets, ControlsInv
    <3> QED  BY <3>2, <3>3, <3>4
  <2> QED  BY <2>1, <2>2 DEF LockForDelete
<1>3. \A row \in holds' : ~History(row)'
  BY <1>1, <1>2 DEF History
<1> QED  BY <1>1, <1>2, <1>3 DEF ControlsInv, BudgetTotalAccounted

\* Nothing is left of a deleted project.
LEMMA DeletionKeeps ==
  ASSUME ControlsInv, DeleteProject
  PROVE  ControlsInv'
<1>1. {c \in ChangeOrders : change'[c] = "approved"} = {} /\ budgetTotal' = 0
  BY DEF DeleteProject
<1>2. BudgetTotalAccounted'
  BY <1>1, FS_EmptySet DEF BudgetTotalAccounted
<1> QED  BY <1>2 DEF DeleteProject, ControlsInv, LockSets

\* The steps that change neither orders nor revisions, locks, IPCs and commitments.
OtherStep ==
    \/ \E i \in BudgetItems, n \in Amounts : CreateItem(i, n)
    \/ \E q \in ControlRequests, i \in BudgetItems :
         \/ \E n \in Amounts : ReadItem(q, i, "patchItem", n)
         \/ ReadItem(q, i, "deleteItem", 0)
         \/ \E r \in BudgetRevisions : ReadAssignment(q, r, i)
    \/ \E q \in ControlRequests :
         \/ WriteItem(q) \/ AssignItem(q)
         \/ \E op \in {"snapshot", "evaluate"} : Collect(q, op)
         \/ CollectActual(q) \/ CollectCommitted(q) \/ StoreSnapshot(q) \/ EndEvaluation(q)
         \/ \E a \in Alerts : PersistAlert(q, a)
    \/ \E e \in Expenses : DeleteExpense(e) \/ \E i \in BudgetItems \cup {None} : CreateExpense(e, i)
    \/ \E a \in Alerts : Acknowledge(a) \/ ResolveAlert(a)

\* They spare the project too.
LEMMA OthersSpare == OtherStep => UNCHANGED <<projectRow, change, budgetTotal, revision, holds, ipc, commitment>>
<1>1. ASSUME NEW i \in BudgetItems, NEW n \in Amounts, CreateItem(i, n)
      PROVE  UNCHANGED <<projectRow, change, budgetTotal, revision, holds, ipc, commitment>>
  BY <1>1 DEF CreateItem, ordervars, costvars
<1>2. ASSUME NEW q \in ControlRequests, NEW i \in BudgetItems, NEW op, NEW n, ReadItem(q, i, op, n)
      PROVE  UNCHANGED <<projectRow, change, budgetTotal, revision, holds, ipc, commitment>>
  BY <1>2 DEF ReadItem, budgetvars, ordervars, costvars
<1>3. ASSUME NEW q \in ControlRequests, NEW i \in BudgetItems, NEW r \in BudgetRevisions, ReadAssignment(q, r, i)
      PROVE  UNCHANGED <<projectRow, change, budgetTotal, revision, holds, ipc, commitment>>
  BY <1>3 DEF ReadAssignment, budgetvars, ordervars, costvars
<1>4. ASSUME NEW q \in ControlRequests, WriteItem(q) \/ AssignItem(q)
      PROVE  UNCHANGED <<projectRow, change, budgetTotal, revision, holds, ipc, commitment>>
  BY <1>4 DEF WriteItem, AssignItem, ordervars, costvars
<1>5. ASSUME NEW q \in ControlRequests, NEW op, Collect(q, op)
      PROVE  UNCHANGED <<projectRow, change, budgetTotal, revision, holds, ipc, commitment>>
  BY <1>5 DEF Collect, budgetvars, ordervars, costvars
<1>6. ASSUME NEW q \in ControlRequests,
             CollectActual(q) \/ CollectCommitted(q) \/ StoreSnapshot(q) \/ EndEvaluation(q)
      PROVE  UNCHANGED <<projectRow, change, budgetTotal, revision, holds, ipc, commitment>>
  BY <1>6 DEF CollectActual, CollectCommitted, StoreSnapshot, EndEvaluation, budgetvars, ordervars, costvars
<1>7. ASSUME NEW q \in ControlRequests, NEW a \in Alerts, PersistAlert(q, a)
      PROVE  UNCHANGED <<projectRow, change, budgetTotal, revision, holds, ipc, commitment>>
  BY <1>7 DEF PersistAlert, budgetvars, ordervars, costvars
<1>8. ASSUME NEW e \in Expenses, DeleteExpense(e) \/ \E i : CreateExpense(e, i)
      PROVE  UNCHANGED <<projectRow, change, budgetTotal, revision, holds, ipc, commitment>>
  BY <1>8 DEF DeleteExpense, CreateExpense, budgetvars, ordervars
<1>9. ASSUME NEW a \in Alerts, Acknowledge(a) \/ ResolveAlert(a)
      PROVE  UNCHANGED <<projectRow, change, budgetTotal, revision, holds, ipc, commitment>>
  BY <1>9 DEF Acknowledge, ResolveAlert, budgetvars, ordervars, costvars
<1> QED  BY <1>1, <1>2, <1>3, <1>4, <1>5, <1>6, <1>7, <1>8, <1>9 DEF OtherStep

\* Every step keeps the invariant.
LEMMA ControlsInvStep == ControlsInv /\ [ControlsNext]_controlVars => ControlsInv'
<1> SUFFICES ASSUME ControlsInv, [ControlsNext]_controlVars PROVE ControlsInv'
  OBVIOUS
<1>1. CASE OtherStep \/ UNCHANGED controlVars
  <2>1. UNCHANGED <<change, budgetTotal, revision, holds, ipc, commitment>>
    BY <1>1, OthersSpare DEF controlVars, budgetvars, ordervars, costvars
  <2> QED  BY <2>1 DEF ControlsInv, BudgetTotalAccounted, History
<1>2. CASE \E c \in ChangeOrders :
             CreateChange(c) \/ DeleteChange(c) \/ \E d \in {"approved", "rejected"} : Decide(c, d)
  BY <1>2, OrdersKeep
<1>3. CASE Elsewhere \/ \E r \in BudgetRevisions : CreateRevision(r) \/ ApproveRevision(r)
  BY <1>3, HistoryKeeps
<1>4. CASE LockForDelete
  BY <1>4, LocksKeep
<1>5. CASE DeleteProject
  BY <1>5, DeletionKeeps
<1> QED  BY <1>1, <1>2, <1>3, <1>4, <1>5 DEF ControlsNext, ControlStep, OtherStep

(***************************************************************************)
(* The project's total is the number of its approved change orders.        *)
(***************************************************************************)
THEOREM BudgetTotalAccountedCorrect == ControlsSpec => []BudgetTotalAccounted
<1>1. ControlsInv => BudgetTotalAccounted
  BY DEF ControlsInv
<1> QED  BY <1>1, ControlsInvInit, ControlsInvStep, PTL DEF ControlsSpec

(***************************************************************************)
(* A project is deleted under four locks, taken one after another, and     *)
(* when it goes none of what they hold has become history.                 *)
(***************************************************************************)
THEOREM HistoryNeverDestroyedCorrect == ControlsSpec => HistoryNeverDestroyed
<1> DEFINE Kept == projectRow' # projectRow => \A row \in {"ipcs", "revisions", "commitments"} : ~History(row)
<1>1. ControlsInv /\ [ControlsNext]_controlVars => Kept
  <2> SUFFICES ASSUME ControlsInv, [ControlsNext]_controlVars PROVE Kept
    OBVIOUS
  <2>1. CASE DeleteProject
    <3>1. holds = {"project", "ipcs", "revisions", "commitments"}
      BY <2>1, CountedLocks DEF DeleteProject, ControlsInv
    <3> QED  BY <3>1 DEF ControlsInv
  <2>2. CASE OtherStep \/ UNCHANGED controlVars
    BY <2>2, OthersSpare DEF controlVars
  <2>3. CASE \/ \E c \in ChangeOrders :
                  CreateChange(c) \/ DeleteChange(c) \/ \E d \in {"approved", "rejected"} : Decide(c, d)
             \/ \E r \in BudgetRevisions : CreateRevision(r) \/ ApproveRevision(r)
             \/ Elsewhere \/ LockForDelete
    BY <2>3 DEF CreateChange, DeleteChange, Decide, CreateRevision, ApproveRevision, Elsewhere, LockForDelete
  <2> QED  BY <2>1, <2>2, <2>3 DEF ControlsNext, ControlStep, OtherStep
<1>2. ControlsInv /\ [ControlsNext]_controlVars => [Kept]_controlVars
  BY <1>1
<1> QED  BY <1>2, ControlsInvInit, ControlsInvStep, PTL DEF ControlsSpec, HistoryNeverDestroyed

-----------------------------------------------------------------------------
(* Budget alerts.                                                          *)

AlertInv == DOMAIN alert = Alerts /\ DOMAIN alertKey = Alerts /\ OneUnresolvedAlert

\* The initial state.
LEMMA AlertInvInit == ControlsInit => AlertInv
  BY DEF ControlsInit, AlertInv, OneUnresolvedAlert, Unresolved

\* An alert is stored beside no unresolved one of its key, and none is opened again.
LEMMA AlertInvStep == AlertInv /\ [ControlsNext]_controlVars => AlertInv'
<1> SUFFICES ASSUME AlertInv, [ControlsNext]_controlVars PROVE AlertInv'
  OBVIOUS
<1> USE DEF AlertInv, OneUnresolvedAlert, Unresolved
<1>1. CASE \E q \in ControlRequests, a \in Alerts : PersistAlert(q, a)
  BY <1>1 DEF PersistAlert, Insertable
<1>2. CASE \E a \in Alerts : Acknowledge(a) \/ ResolveAlert(a)
  BY <1>2 DEF Acknowledge, ResolveAlert
<1>3. CASE DeleteProject
  BY <1>3 DEF DeleteProject
<1>4. CASE UNCHANGED alertvars
  BY <1>4 DEF alertvars
<1>5. CASE UNCHANGED controlVars
  BY <1>5, <1>4 DEF controlVars
<1>6. ASSUME ControlStep, ~DeleteProject, ~\E a \in Alerts : Acknowledge(a) \/ ResolveAlert(a),
             ~\E q \in ControlRequests, a \in Alerts : PersistAlert(q, a)
      PROVE  UNCHANGED alertvars
  BY <1>6 DEF ControlStep, CreateItem, ReadItem, ReadAssignment, WriteItem, AssignItem, Collect, CollectActual,
     CollectCommitted, StoreSnapshot, EndEvaluation, DeleteExpense, CreateExpense, CreateRevision, ApproveRevision,
     CreateChange, DeleteChange, Decide, Elsewhere, LockForDelete
<1> QED  BY <1>1, <1>2, <1>3, <1>4, <1>5, <1>6 DEF ControlsNext

(***************************************************************************)
(* Two evaluations at once never leave the project two unresolved alerts   *)
(* about the same thing.                                                   *)
(***************************************************************************)
THEOREM OneUnresolvedAlertCorrect == ControlsSpec => []OneUnresolvedAlert
<1>1. AlertInv => OneUnresolvedAlert
  BY DEF AlertInv
<1> QED  BY <1>1, AlertInvInit, AlertInvStep, PTL DEF ControlsSpec

-----------------------------------------------------------------------------
(* Payroll: what a request does when its period is locked.                 *)

\* The allocation a request has read is still one of that record, or gone for good.
AtDesk(q) ==
    /\ At(q, "allocate") => desk[q].record \in Records
    /\ At(q, "reallocate") \/ At(q, "deallocate") =>
         /\ desk[q].on \in Allocations /\ desk[q].record \in Records \ {None}
         /\ \/ ofRecord[desk[q].on] = desk[q].record
            \/ ofRecord[desk[q].on] = None /\ posting[desk[q].on] = "deleted"

PayInv ==
    /\ DOMAIN review = PayPeriods /\ DOMAIN net = Records /\ DOMAIN desk = Clerks
    /\ ofRecord \in [Allocations -> Records \cup {None}]
    /\ DOMAIN share = Allocations /\ DOMAIN amount = Allocations /\ DOMAIN posting = Allocations
    /\ \A q \in Clerks : AtDesk(q)

\* The initial state.
LEMMA PayInvInit == PayInit => PayInv
  BY DEF PayInit, PayInv, AtDesk, At

\* A request reads.
LEMMA ReadingKeeps ==
  ASSUME NEW q \in Clerks, PayInv,
         \/ \E p \in PayPeriods, w \in Windows : ReadPeriods(q, p, w)
         \/ \E p \in PayPeriods, e \in Employees, n \in Nets : ReadRecord(q, p, e, n)
         \/ \E r \in Records, a \in Allocations, s \in Shares : ReadForAllocation(q, r, a, s)
         \/ \E a \in Allocations : ReadAllocation(q, a, "deallocate", 0)
                                   \/ \E s \in Shares \cup {0} : ReadAllocation(q, a, "reallocate", s)
  PROVE  PayInv'
<1>1. UNCHANGED <<review, net, ofRecord, share, amount, posting>> /\ DOMAIN desk' = Clerks
  BY DEF PayInv, ReadPeriods, ReadRecord, ReadForAllocation, ReadAllocation, TakeUp, periodvars, allocationvars, postingvars
<1>2. ASSUME NEW k \in Clerks \ {q} PROVE desk'[k] = desk[k]
  BY DEF PayInv, ReadPeriods, ReadRecord, ReadForAllocation, ReadAllocation, TakeUp
<1>3. AtDesk(q)'
  <2>1. CASE \E p \in PayPeriods, w \in Windows : ReadPeriods(q, p, w)
    BY <2>1 DEF PayInv, ReadPeriods, TakeUp, AtDesk, At
  <2>2. CASE \E p \in PayPeriods, e \in Employees, n \in Nets : ReadRecord(q, p, e, n)
    BY <2>2 DEF PayInv, ReadRecord, TakeUp, AtDesk, At
  <2>3. CASE \E r \in Records, a \in Allocations, s \in Shares : ReadForAllocation(q, r, a, s)
    BY <2>3 DEF PayInv, ReadForAllocation, TakeUp, AtDesk, At
  <2>4. CASE \E a \in Allocations, op \in {"deallocate", "reallocate"}, s \in Shares \cup {0} : ReadAllocation(q, a, op, s)
    BY <2>4, <1>1 DEF PayInv, ReadAllocation, TakeUp, AtDesk, At
  <2> QED  BY <2>1, <2>2, <2>3, <2>4
<1>4. \A k \in Clerks : AtDesk(k)'
  BY <1>1, <1>2, <1>3 DEF PayInv, AtDesk, At
<1> QED  BY <1>1, <1>4 DEF PayInv

\* A request writes: an allocation that is gone does not come back.
LEMMA WritingKeeps ==
  ASSUME NEW q \in Clerks, PayInv,
         WritePeriod(q) \/ WriteRecord(q) \/ Allocate(q) \/ Reallocate(q) \/ Deallocate(q)
  PROVE  PayInv'
<1>1. CASE WritePeriod(q) \/ WriteRecord(q)
  BY <1>1 DEF PayInv, WritePeriod, WriteRecord, PutDown, AtDesk, At, periodvars, allocationvars, postingvars
<1>2. CASE Allocate(q)
  <2>1. PICK a \in Allocations : Allocate(q)!(a)
    BY <1>2 DEF Allocate
  <2>2. UNCHANGED <<review, net, posting>> /\ desk' = [desk EXCEPT ![q] = None]
        /\ DOMAIN share' = Allocations /\ DOMAIN amount' = Allocations
    BY <2>1 DEF PayInv, PutDown, periodvars, allocationvars, postingvars
  <2>3. ofRecord' \in [Allocations -> Records \cup {None}]
    BY <2>1 DEF PayInv, AtDesk, allocationvars
  <2>4. \A k \in Clerks : AtDesk(k)'
    BY <2>1, <2>2 DEF PayInv, AtDesk, At, allocationvars
  <2> QED  BY <2>2, <2>3, <2>4 DEF PayInv
<1>3. CASE Reallocate(q)
  BY <1>3 DEF PayInv, Reallocate, PutDown, AtDesk, At, periodvars, postingvars
<1>4. CASE Deallocate(q)
  BY <1>4 DEF PayInv, Deallocate, PutDown, AtDesk, At, periodvars, allocationvars
<1> QED  BY <1>1, <1>2, <1>3, <1>4

\* The steps of a period, of postings and of employees.
LEMMA PeriodKeeps ==
  ASSUME PayInv,
         \/ \E p \in PayPeriods : Submit(p) \/ Post(p) \/ \E v \in {"approved", "rejected"} : Judge(p, v)
         \/ \E a \in Allocations : ReversePosting(a)
         \/ \E e \in Employees : SetActive(e)
  PROVE  PayInv'
<1>1. CASE \E p \in PayPeriods : Submit(p) \/ \E v \in {"approved", "rejected"} : Judge(p, v)
  BY <1>1 DEF PayInv, Submit, Judge, AtDesk, At, allocationvars, postingvars
<1>2. CASE \E p \in PayPeriods : Post(p)
  BY <1>2 DEF PayInv, Post, AtDesk, At, allocationvars
<1>3. CASE \E a \in Allocations : ReversePosting(a)
  BY <1>3 DEF PayInv, ReversePosting, Reversible, AtDesk, At, periodvars, allocationvars
<1>4. CASE \E e \in Employees : SetActive(e)
  BY <1>4 DEF PayInv, SetActive, AtDesk, At, periodvars, allocationvars, postingvars
<1> QED  BY <1>1, <1>2, <1>3, <1>4

\* Every step keeps the invariant.
LEMMA PayInvStep == PayInv /\ [PayNext]_payVars => PayInv'
<1>1. PayInv /\ PayNext => PayInv'
  BY ReadingKeeps, WritingKeeps, PeriodKeeps DEF PayNext
<1>2. PayInv /\ UNCHANGED payVars => PayInv'
  BY DEF PayInv, AtDesk, At, payVars, periodvars, allocationvars, postingvars
<1> QED  BY <1>1, <1>2

\* What a reviewer sees of period p stays.
Seen(p) == review[p] \in {"submitted", "approved", "posted"} =>
             /\ \A e \in Employees : net'[<<p, e>>] = net[<<p, e>>]
             /\ In(p)' = In(p) /\ \A a \in In(p) : share'[a] = share[a] /\ amount'[a] = amount[a]

\* Whoever writes has looked at the status under the lock.
LEMMA SeenStays ==
  ASSUME PayInv, [PayNext]_payVars, NEW p \in PayPeriods, review[p] \in {"submitted", "approved", "posted"}
  PROVE  Seen(p)
<1>1. CASE \E q \in Clerks : WriteRecord(q)
  <2>1. PICK q \in Clerks, r \in Records : WriteRecord(q)!(r)
    BY <1>1 DEF WriteRecord
  <2>2. \A e \in Employees : <<p, e>> \in Records /\ (Unlocked(q, r[1]) => r # <<p, e>>)
    BY DEF Records, Unlocked, Editable
  <2> QED  BY <2>1, <2>2 DEF Seen, In, PayInv, allocationvars
<1>2. CASE \E q \in Clerks : Allocate(q)
  <2>1. PICK q \in Clerks, a \in Allocations : Allocate(q)!(a)
    BY <1>2 DEF Allocate
  <2> QED  BY <2>1 DEF Seen, In, PayInv, Unlocked, Editable, allocationvars
<1>3. CASE \E q \in Clerks : Reallocate(q)
  <2>1. PICK q \in Clerks, a \in Allocations : Reallocate(q)!(a)
    BY <1>3 DEF Reallocate
  <2>2. At(q, "reallocate") /\ AtDesk(q) /\ desk[q].on = a
    BY <2>1 DEF PayInv
  <2> QED  BY <2>1, <2>2 DEF Seen, In, PayInv, Unlocked, Editable, AtDesk, At
<1>4. CASE \E q \in Clerks : Deallocate(q)
  <2>1. PICK q \in Clerks, a \in Allocations : Deallocate(q)!(a)
    BY <1>4 DEF Deallocate
  <2>2. At(q, "deallocate") /\ AtDesk(q) /\ desk[q].on = a
    BY <2>1 DEF PayInv
  <2> QED  BY <2>1, <2>2 DEF Seen, In, PayInv, Unlocked, Editable, AtDesk, At, allocationvars
<1>5. CASE UNCHANGED <<net, ofRecord, share, amount>>
  BY <1>5 DEF Seen, In
<1>6. CASE UNCHANGED payVars
  BY <1>6, <1>5 DEF payVars, allocationvars
<1>7. ASSUME NEW q \in Clerks,
             \/ \E k \in PayPeriods, w \in Windows : ReadPeriods(q, k, w)
             \/ \E k \in PayPeriods, e \in Employees, n \in Nets : ReadRecord(q, k, e, n)
             \/ \E r \in Records, a \in Allocations, s \in Shares : ReadForAllocation(q, r, a, s)
             \/ \E a \in Allocations : ReadAllocation(q, a, "deallocate", 0)
                                       \/ \E s \in Shares \cup {0} : ReadAllocation(q, a, "reallocate", s)
             \/ WritePeriod(q)
      PROVE  Seen(p)
  <2>1. UNCHANGED <<net, ofRecord, share, amount>>
    BY <1>7 DEF ReadPeriods, ReadRecord, ReadForAllocation, ReadAllocation, WritePeriod, allocationvars
  <2> QED  BY <2>1, <1>5
<1>8. CASE \/ \E k \in PayPeriods : Submit(k) \/ Post(k) \/ \E v \in {"approved", "rejected"} : Judge(k, v)
           \/ \E a \in Allocations : ReversePosting(a)
           \/ \E e \in Employees : SetActive(e)
  BY <1>8, <1>5 DEF Submit, Post, Judge, ReversePosting, SetActive, allocationvars
<1>9. ASSUME NEW q \in Clerks,
              \/ \E k \in PayPeriods, w \in Windows : ReadPeriods(q, k, w)
              \/ \E k \in PayPeriods, e \in Employees, n \in Nets : ReadRecord(q, k, e, n)
              \/ \E r \in Records, a \in Allocations, s \in Shares : ReadForAllocation(q, r, a, s)
              \/ \E a \in Allocations : ReadAllocation(q, a, "deallocate", 0)
                                        \/ \E s \in Shares \cup {0} : ReadAllocation(q, a, "reallocate", s)
              \/ WritePeriod(q) \/ WriteRecord(q) \/ Allocate(q) \/ Reallocate(q) \/ Deallocate(q)
       PROVE  Seen(p)
  BY <1>9, <1>1, <1>2, <1>3, <1>4, <1>7, Zenon
<1> QED  BY <1>6, <1>8, <1>9 DEF PayNext

(***************************************************************************)
(* From its submission on, unless it is rejected, neither the records nor  *)
(* the allocations of a period change.                                     *)
(***************************************************************************)
THEOREM ReviewedIsFixedCorrect == PaySpec => ReviewedIsFixed
<1> DEFINE Fixed == \A p \in PayPeriods : review[p] \in {"submitted", "approved", "posted"} =>
                      /\ \A e \in Employees : net'[<<p, e>>] = net[<<p, e>>]
                      /\ In(p)' = In(p) /\ \A a \in In(p) : share'[a] = share[a] /\ amount'[a] = amount[a]
<1>1. PayInv /\ [PayNext]_payVars => [Fixed]_payVars
  BY SeenStays DEF Seen
<1> QED  BY <1>1, PayInvInit, PayInvStep, PTL DEF PaySpec, ReviewedIsFixed

\* An allocation that was posted is one of a posted period.
Counted(a) ==
    /\ ofRecord[a] # None => net[ofRecord[a]] # None
    /\ posting[a] \in {"posted", "reversed"} => ofRecord[a] # None /\ review[ofRecord[a][1]] = "posted"
    /\ labour[a] = IF posting[a] = "posted" THEN amount[a] ELSE 0

\* What a request will write are amounts.
Priced(q) ==
    /\ At(q, "record") \/ At(q, "amend") => desk[q].net \in Nets
    /\ At(q, "allocate") => desk[q].share \in Shares
    /\ At(q, "reallocate") => desk[q].share \in Shares \cup {0} /\ desk[q].oldAmount \in Int
    /\ At(q, "allocate") \/ At(q, "reallocate") => net[desk[q].record] # None

LabourInv ==
    /\ net \in [Records -> Nets \cup {None}]
    /\ amount \in [Allocations -> Int] /\ labour \in [Allocations -> Int]
    /\ \A a \in Allocations : Counted(a)
    /\ \A q \in Clerks : Priced(q)

\* The initial state.
LEMMA LabourInvInit == PayInit => LabourInv
  BY DEF PayInit, LabourInv, Counted, Priced, At

\* An allocation is of a record of some period.
LEMMA PeriodOf ==
  ASSUME PayInv, NEW a \in Allocations, ofRecord[a] # None
  PROVE  ofRecord[a][1] \in PayPeriods
  BY DEF PayInv, Records

\* What a request multiplies.
LEMMA Factors ==
  ASSUME LabourInv, NEW q \in Clerks, PayInv, At(q, "allocate") \/ At(q, "reallocate")
  PROVE  /\ desk[q].record \in Records /\ net[desk[q].record] \in Int /\ net[desk[q].record] # None
         /\ desk[q].share \in Int
<1>1. desk[q].record \in Records
  BY DEF PayInv, AtDesk, At
<1>2. net[desk[q].record] \in Nets
  BY <1>1 DEF LabourInv, Priced
<1>3. desk[q].share \in 0..Whole
  BY AmountsAssumption DEF LabourInv, Priced, Shares
<1>4. net[desk[q].record] \in Int /\ net[desk[q].record] # None
  BY <1>2, AmountsAssumption
<1>5. desk[q].share \in Int
  BY <1>3, AmountsAssumption
<1> QED  BY <1>1, <1>4, <1>5

\* A request reads: only what is on its desk is new.
LEMMA ReadingPrices ==
  ASSUME NEW q \in Clerks, PayInv, LabourInv,
         \/ \E p \in PayPeriods, w \in Windows : ReadPeriods(q, p, w)
         \/ \E p \in PayPeriods, e \in Employees, n \in Nets : ReadRecord(q, p, e, n)
         \/ \E r \in Records, a \in Allocations, s \in Shares : ReadForAllocation(q, r, a, s)
         \/ \E a \in Allocations : ReadAllocation(q, a, "deallocate", 0)
                                   \/ \E s \in Shares \cup {0} : ReadAllocation(q, a, "reallocate", s)
  PROVE  LabourInv'
<1>1. UNCHANGED <<review, net, ofRecord, share, amount, posting, labour>>
  BY DEF ReadPeriods, ReadRecord, ReadForAllocation, ReadAllocation, periodvars, allocationvars, postingvars
<1>2. ASSUME NEW k \in Clerks \ {q} PROVE desk'[k] = desk[k]
  BY DEF PayInv, ReadPeriods, ReadRecord, ReadForAllocation, ReadAllocation, TakeUp
<1>3. Priced(q)'
  <2>1. CASE \E p \in PayPeriods, w \in Windows : ReadPeriods(q, p, w)
    BY <2>1 DEF PayInv, ReadPeriods, TakeUp, Priced, At
  <2>2. CASE \E p \in PayPeriods, e \in Employees, n \in Nets : ReadRecord(q, p, e, n)
    BY <2>2 DEF PayInv, ReadRecord, TakeUp, Priced, At
  <2>3. CASE \E r \in Records, a \in Allocations, s \in Shares : ReadForAllocation(q, r, a, s)
    BY <2>3 DEF PayInv, ReadForAllocation, TakeUp, Priced, At
  <2>4. CASE \E a \in Allocations : ReadAllocation(q, a, "deallocate", 0)
    BY <2>4 DEF PayInv, ReadAllocation, TakeUp, Priced, At
  <2>5. CASE \E a \in Allocations, s \in Shares \cup {0} : ReadAllocation(q, a, "reallocate", s)
    BY <2>5, <1>1 DEF PayInv, LabourInv, ReadAllocation, TakeUp, Priced, Counted, At
  <2> QED  BY <2>1, <2>2, <2>3, <2>4, <2>5
<1>4. \A k \in Clerks : Priced(k)'
  BY <1>1, <1>2, <1>3 DEF LabourInv, Priced, At
<1> QED  BY <1>1, <1>4 DEF LabourInv, Counted

\* A request writes: the period of a posted allocation is not editable.
LEMMA WritingPrices ==
  ASSUME NEW q \in Clerks, PayInv, LabourInv,
         WritePeriod(q) \/ WriteRecord(q) \/ Allocate(q) \/ Reallocate(q) \/ Deallocate(q)
  PROVE  LabourInv'
<1> USE DEF PutDown, At, periodvars, allocationvars, postingvars
<1>1. CASE WritePeriod(q)
  <2>1. PICK p \in PayPeriods : WritePeriod(q)!(p)
    BY <1>1 DEF WritePeriod
  <2>2. UNCHANGED <<net, ofRecord, amount, posting, labour>> /\ desk' = [desk EXCEPT ![q] = None]
    BY <2>1
  <2>3. \A k \in PayPeriods : review[k] = "posted" => review'[k] = "posted"
    BY <2>1 DEF PayInv
  <2>4. \A a \in Allocations : Counted(a)'
    BY <2>2, <2>3, PeriodOf DEF LabourInv, Counted
  <2> QED  BY <2>2, <2>4 DEF PayInv, LabourInv, Priced
<1>2. CASE WriteRecord(q)
  <2>1. PICK r \in Records : WriteRecord(q)!(r)
    BY <1>2 DEF WriteRecord
  <2>2. desk[q].net \in Nets
    BY <2>1 DEF LabourInv, Priced
  <2>3. net' \in [Records -> Nets \cup {None}] /\ \A s \in Records : net[s] # None => net'[s] # None
    BY <2>1, <2>2, AmountsAssumption DEF LabourInv
  <2>4. UNCHANGED <<review, ofRecord, share, amount, posting, labour>> /\ desk' = [desk EXCEPT ![q] = None]
    BY <2>1
  <2>5. \A k \in Clerks : Priced(k)'
    BY <2>3, <2>4 DEF PayInv, LabourInv, Priced, AtDesk
  <2> QED  BY <2>3, <2>4, <2>5 DEF PayInv, LabourInv, Counted
<1>3. CASE Allocate(q)
  <2>1. PICK a \in Allocations : Allocate(q)!(a)
    BY <1>3 DEF Allocate
  <2>2. /\ desk[q].record \in Records /\ net[desk[q].record] \in Int /\ desk[q].share \in Int
        /\ net[desk[q].record] # None
    BY <2>1, Factors
  <2>3. amount' \in [Allocations -> Int]
    BY <2>1, <2>2 DEF LabourInv
  <2>4. UNCHANGED <<review, net, posting, labour>> /\ desk' = [desk EXCEPT ![q] = None]
    BY <2>1
  <2>5. \A b \in Allocations : Counted(b)'
    BY <2>1, <2>2, <2>4 DEF PayInv, LabourInv, Counted
  <2> QED  BY <2>3, <2>4, <2>5 DEF PayInv, LabourInv, Priced
<1>4. CASE Reallocate(q)
  <2>1. PICK a \in Allocations : Reallocate(q)!(a)
    BY <1>4 DEF Reallocate
  <2>2. /\ desk[q].record \in Records /\ net[desk[q].record] \in Int /\ desk[q].share \in Int
        /\ desk[q].oldAmount \in Int
    BY <2>1, Factors DEF LabourInv, Priced
  <2>3. amount' \in [Allocations -> Int]
    BY <2>1, <2>2 DEF LabourInv
  <2>4. UNCHANGED <<review, net, ofRecord, posting, labour>> /\ desk' = [desk EXCEPT ![q] = None]
    BY <2>1
  <2>5. amount'[a] = amount[a] \/ posting[a] \notin {"posted", "reversed"}
    BY <2>1 DEF PayInv, LabourInv, Counted, AtDesk, Unlocked, Editable
  <2>6. \A b \in Allocations : b # a => amount'[b] = amount[b]
    BY <2>1 DEF LabourInv
  <2> QED  BY <2>3, <2>4, <2>5, <2>6 DEF PayInv, LabourInv, Priced, Counted
<1>5. CASE Deallocate(q)
  <2>1. PICK a \in Allocations : Deallocate(q)!(a)
    BY <1>5 DEF Deallocate
  <2>2. UNCHANGED <<review, net, labour>> /\ desk' = [desk EXCEPT ![q] = None]
    BY <2>1
  <2>3. UNCHANGED <<ofRecord, amount, posting>> \/ posting[a] \notin {"posted", "reversed"}
    BY <2>1 DEF PayInv, LabourInv, Counted, AtDesk, Unlocked, Editable
  <2>4. \A b \in Allocations : b # a => ofRecord'[b] = ofRecord[b] /\ amount'[b] = amount[b] /\ posting'[b] = posting[b]
    BY <2>1 DEF PayInv, LabourInv
  <2>5. amount' \in [Allocations -> Int]
    BY <2>1 DEF LabourInv
  <2>6. \A b \in Allocations : Counted(b)'
    BY <2>1, <2>2, <2>3, <2>4 DEF PayInv, LabourInv, Counted
  <2> QED  BY <2>2, <2>5, <2>6 DEF PayInv, LabourInv, Priced
<1> QED  BY <1>1, <1>2, <1>3, <1>4, <1>5

\* The steps of a period, of postings and of employees.
LEMMA PeriodPrices ==
  ASSUME PayInv, LabourInv,
         \/ \E p \in PayPeriods : Submit(p) \/ Post(p) \/ \E v \in {"approved", "rejected"} : Judge(p, v)
         \/ \E a \in Allocations : ReversePosting(a)
         \/ \E e \in Employees : SetActive(e)
  PROVE  LabourInv'
<1>1. CASE \E p \in PayPeriods : Submit(p) \/ \E v \in {"approved", "rejected"} : Judge(p, v)
  <2>1. UNCHANGED <<net, ofRecord, amount, posting, labour, desk>>
    BY <1>1 DEF Submit, Judge, allocationvars, postingvars
  <2>2. \A k \in PayPeriods : review[k] = "posted" => review'[k] = "posted"
    BY <1>1 DEF PayInv, Submit, Judge, Editable
  <2>3. \A a \in Allocations : Counted(a)'
    BY <2>1, <2>2, PeriodOf DEF LabourInv, Counted
  <2> QED  BY <2>1, <2>3 DEF LabourInv, Priced, At
<1>2. CASE \E p \in PayPeriods : Post(p)
  <2>1. PICK p \in PayPeriods : Post(p)
    BY <1>2
  <2>2. UNCHANGED <<net, ofRecord, amount, desk>>
    BY <2>1 DEF Post, allocationvars
  <2>3. labour' \in [Allocations -> Int]
    BY <2>1 DEF Post, LabourInv
  <2>4. \A a \in Allocations : Counted(a)'
    BY <2>1, <2>2 DEF Post, In, PayInv, LabourInv, Counted
  <2> QED  BY <2>2, <2>3, <2>4 DEF LabourInv, Priced, At
<1>3. CASE \E a \in Allocations : ReversePosting(a)
  BY <1>3 DEF PayInv, LabourInv, ReversePosting, Reversible, Counted, Priced, At, periodvars, allocationvars
<1>4. CASE \E e \in Employees : SetActive(e)
  BY <1>4 DEF LabourInv, SetActive, Counted, Priced, At, periodvars, allocationvars, postingvars
<1> QED  BY <1>1, <1>2, <1>3, <1>4

\* Every step keeps the invariant.
LEMMA LabourInvStep == PayInv /\ LabourInv /\ [PayNext]_payVars => LabourInv'
<1>1. PayInv /\ LabourInv /\ PayNext => LabourInv'
  BY ReadingPrices, WritingPrices, PeriodPrices DEF PayNext
<1>2. LabourInv /\ UNCHANGED payVars => LabourInv'
  BY DEF LabourInv, Counted, Priced, At, payVars, periodvars, allocationvars, postingvars
<1> QED  BY <1>1, <1>2

(***************************************************************************)
(* Labour cost is the amounts of what is posted and not reversed, whatever *)
(* requests had read of an allocation when its period was posted.          *)
(***************************************************************************)
THEOREM LabourCountedCorrect == PaySpec => []LabourCounted
<1>1. PayInv /\ LabourInv /\ [PayNext]_payVars => (PayInv /\ LabourInv)'
  BY PayInvStep, LabourInvStep
<1>2. LabourInv => LabourCounted
  BY DEF LabourInv, Counted, LabourCounted
<1> QED  BY <1>1, <1>2, PayInvInit, LabourInvInit, PTL DEF PaySpec

-----------------------------------------------------------------------------
(* The schedule of the site.                                               *)

\* An edge adds no cycle if its start is not reached from its end.
LEMMA NoNewCycle ==
  ASSUME NEW edges, NEW a \in ScheduleTasks, NEW b \in ScheduleTasks,
         a \notin Reachable(edges, b), ~Cyclic(edges)
  PROVE  ~Cyclic(edges \cup {<<a, b>>})
<1> SUFFICES ASSUME NEW C \in SUBSET ScheduleTasks, C # {},
                    \A x \in C : \E y \in C : <<x, y>> \in edges \cup {<<a, b>>}
             PROVE  FALSE
  BY DEF Cyclic
<1>1. PICK D \in SUBSET ScheduleTasks : b \in D /\ a \notin D /\ \A e \in edges : e[1] \in D => e[2] \in D
  BY DEF Reachable
<1>2. CASE a \in C /\ b \in C
  <2>1. \A x \in C \cap D : \E y \in C \cap D : <<x, y>> \in edges
    <3> SUFFICES ASSUME NEW x \in C \cap D PROVE \E y \in C \cap D : <<x, y>> \in edges
      OBVIOUS
    <3>1. PICK y \in C : <<x, y>> \in edges
      BY <1>1
    <3>2. y \in D
      BY <1>1, <3>1
    <3> QED  BY <3>1, <3>2
  <2>2. C \cap D # {} /\ C \cap D \in SUBSET ScheduleTasks
    BY <1>1, <1>2
  <2> QED  BY <2>1, <2>2 DEF Cyclic
<1>3. CASE ~(a \in C /\ b \in C)
  <2>1. \A x \in C : \E y \in C : <<x, y>> \in edges
    BY <1>3
  <2> QED  BY <2>1 DEF Cyclic
<1> QED  BY <1>2, <1>3

\* Without some of its edges a graph has no more cycles, and less is reached in it.
LEMMA FewerEdges ==
  ASSUME NEW edges, NEW fewer, fewer \subseteq edges
  PROVE  /\ ~Cyclic(edges) => ~Cyclic(fewer)
         /\ \A t, x : x \notin Reachable(edges, t) => x \notin Reachable(fewer, t)
<1>1. ASSUME Cyclic(fewer) PROVE Cyclic(edges)
  BY <1>1 DEF Cyclic
<1>2. ASSUME NEW t, NEW x, x \in Reachable(fewer, t) PROVE x \in Reachable(edges, t)
  BY <1>2 DEF Reachable
<1> QED  BY <1>1, <1>2

\* A node that no edge leads to is only reached from itself, whatever edges leave it.
LEMMA NewLeaf ==
  ASSUME NEW edges, NEW t, NEW p, NEW x \in ScheduleTasks, NEW y,
         \A e \in edges : e[2] # t, t # p, t # y, x \notin Reachable(edges, y)
  PROVE  x \notin Reachable(edges \cup {<<t, p>>}, y)
<1>1. PICK D \in SUBSET ScheduleTasks : y \in D /\ x \notin D /\ \A e \in edges : e[1] \in D => e[2] \in D
  BY DEF Reachable
<1>2. \A e \in edges \cup {<<t, p>>} : e[1] \in D \ {t} => e[2] \in D \ {t}
  BY <1>1
<1>3. D \ {t} \in SUBSET ScheduleTasks /\ y \in D \ {t} /\ x \notin D \ {t}
  BY <1>1
<1> QED  BY <1>2, <1>3 DEF Reachable

Known == scheduled \cup dropped

\* What a pending request will write closes no cycle.
Harmless(q) ==
    /\ Wants(q, "patchTask") =>
         LET t == wants[q].task
             p == wants[q].parent
         IN /\ t \in Known /\ p \in Known \cup {None}
            /\ (t \in scheduled /\ p \in scheduled /\ p # None => t \notin Reachable(Upwards, p) \/ parent[t] = p)
    /\ Wants(q, "depend") =>
         /\ wants[q].from \in ScheduleTasks /\ wants[q].to \in ScheduleTasks
         /\ wants[q].from \notin Reachable(follows, wants[q].to)

ScheduleInv ==
    /\ scheduled \subseteq ScheduleTasks /\ dropped \subseteq ScheduleTasks /\ scheduled \cap dropped = {}
    /\ DOMAIN parent = ScheduleTasks /\ DOMAIN wants = SiteRequests
    /\ \A t \in ScheduleTasks : parent[t] \in scheduled \cup {None} /\ (t \notin scheduled => parent[t] = None)
    /\ ScheduleAcyclic
    /\ \A q \in SiteRequests : Harmless(q)


\* At first there is nothing.
LEMMA ScheduleInvInit == SiteInit => ScheduleInv
<1> SUFFICES ASSUME SiteInit PROVE ScheduleInv
  OBVIOUS
<1>1. Upwards = {} /\ follows = {}
  BY DEF SiteInit, Upwards
<1>2. ~Cyclic({})
  BY DEF Cyclic
<1>3. \A q \in SiteRequests : Harmless(q)
  BY DEF SiteInit, Harmless, Wants
<1> QED  BY <1>1, <1>2, <1>3 DEF SiteInit, ScheduleInv, ScheduleAcyclic

\* A request is unharmed by a step that leaves it and what it will write in place.
LEMMA HarmlessKept ==
  ASSUME NEW q \in SiteRequests, Harmless(q), wants'[q] = wants[q], UNCHANGED schedulevars
  PROVE  Harmless(q)'
  BY DEF Harmless, Wants, Known, Upwards, Reachable, schedulevars

\* A new task.
LEMMA CreateTaskKeeps ==
  ASSUME ScheduleInv, NEW t \in ScheduleTasks, NEW p \in ScheduleTasks \cup {None}, CreateTask(t, p)
  PROVE  ScheduleInv'
<1>1. \A e \in Upwards : e[2] # t
  BY DEF ScheduleInv, Upwards, CreateTask
<1>2. CASE p = None
  <2>1. Upwards' = Upwards
    BY <1>2 DEF CreateTask, ScheduleInv, Upwards
  <2>2. ASSUME NEW q \in SiteRequests PROVE Harmless(q)'
    <3>1. Harmless(q) /\ wants' = wants /\ follows' = follows
      BY DEF ScheduleInv, CreateTask
    <3> QED  BY <2>1, <3>1 DEF Harmless, Wants, Known, CreateTask, Reachable, ScheduleInv
  <2> QED  BY <1>2, <2>1, <2>2 DEF ScheduleInv, ScheduleAcyclic, CreateTask, Cyclic
<1>3. CASE p # None
  <2>1. Upwards' = Upwards \cup {<<t, p>>} /\ p \in scheduled /\ t \notin Reachable(Upwards, p) /\ t # p
    BY <1>3 DEF CreateTask, ScheduleInv, Upwards, Parents
  <2>2. ~Cyclic(Upwards')
    <3>1. p \in ScheduleTasks /\ ~Cyclic(Upwards)
      BY <2>1 DEF ScheduleInv, ScheduleAcyclic
    <3>2. ~Cyclic(Upwards \cup {<<t, p>>})
      BY <2>1, <3>1, NoNewCycle
    <3> QED  BY <2>1, <3>2
  <2>3. ASSUME NEW q \in SiteRequests PROVE Harmless(q)'
    <3>1. Harmless(q) /\ wants' = wants /\ follows' = follows
      BY DEF ScheduleInv, CreateTask
    <3>2. \A x \in ScheduleTasks : \A y : t # y /\ x \notin Reachable(Upwards, y) => x \notin Reachable(Upwards', y)
      <4>1. \A x \in ScheduleTasks : \A y : t # y /\ x \notin Reachable(Upwards, y)
                                        => x \notin Reachable(Upwards \cup {<<t, p>>}, y)
        BY <1>1, <2>1, NewLeaf
      <4> QED  BY <2>1, <4>1
    <3>3. /\ scheduled' = scheduled \cup {t} /\ dropped' = dropped /\ t \notin scheduled \cup dropped
          /\ \A u \in scheduled : parent'[u] = parent[u]
      BY DEF CreateTask, ScheduleInv
    <3>4. ASSUME Wants(q, "patchTask"),
                 wants[q].task \in scheduled', wants[q].parent \in scheduled', wants[q].parent # None
          PROVE  wants[q].task \notin Reachable(Upwards', wants[q].parent) \/ parent'[wants[q].task] = wants[q].parent
      <4>1. wants[q].task \in Known /\ wants[q].parent \in Known \cup {None}
        BY <3>1, <3>4 DEF Harmless
      <4>2. wants[q].task \in scheduled /\ wants[q].parent \in scheduled
        BY <3>3, <3>4, <4>1 DEF Known
      <4>3. wants[q].task \notin Reachable(Upwards, wants[q].parent) \/ parent[wants[q].task] = wants[q].parent
        BY <3>1, <3>4, <4>2 DEF Harmless
      <4> QED  BY <3>2, <3>3, <4>2, <4>3 DEF ScheduleInv
    <3>5. Reachable(follows, wants[q].to)' = Reachable(follows, wants[q].to)
      BY <3>1 DEF Reachable
    <3> QED  BY <3>1, <3>3, <3>4, <3>5 DEF Harmless, Wants, Known, Reachable
  <2>4. ~Cyclic(Upwards)' /\ ~Cyclic(follows)'
    BY <2>2 DEF Cyclic, ScheduleInv, ScheduleAcyclic, CreateTask
  <2> QED  BY <1>3, <2>1, <2>3, <2>4 DEF ScheduleInv, ScheduleAcyclic, CreateTask
<1> QED  BY <1>2, <1>3

\* What a request that moves a task has found out.
LEMMA ReadTaskKeeps ==
  ASSUME ScheduleInv, NEW q \in SiteRequests, NEW t \in ScheduleTasks, NEW p \in ScheduleTasks \cup {None},
         ReadTask(q, t, p)
  PROVE  ScheduleInv'
<1>1. /\ wants'[q] = [op |-> "patchTask", task |-> t, parent |-> p] /\ DOMAIN wants' = SiteRequests
      /\ \A r \in SiteRequests \ {q} : wants'[r] = wants[r]
  BY DEF ReadTask, Want, ScheduleInv
<1>2. UNCHANGED schedulevars /\ Upwards' = Upwards
  BY DEF ReadTask, Upwards, schedulevars
<1>3. Harmless(q)'
  <2>1. t \in scheduled /\ p \in scheduled \cup {None}
    BY DEF ReadTask, Parents, ScheduleInv
  <2>2. p # None => t \notin Reachable(Upwards, p) \/ parent[t] = p
    BY DEF ReadTask, Parents
  <2>3. Reachable(Upwards', p) = Reachable(Upwards, p)
    BY <1>2
  <2> QED  BY <1>1, <1>2, <2>1, <2>2, <2>3 DEF Harmless, Wants, Known, schedulevars
<1>4. ASSUME NEW r \in SiteRequests, r # q PROVE Harmless(r)'
  BY <1>1, <1>2, <1>4, HarmlessKept DEF ScheduleInv
<1> QED  BY <1>1, <1>2, <1>3, <1>4 DEF ScheduleInv, ScheduleAcyclic, Cyclic, schedulevars

\* Once it has been answered, with no other request about, nothing is pending.
LEMMA NothingPending ==
  ASSUME ScheduleInv, OneAtATime, NEW q \in SiteRequests, wants[q] # None, Answered(q)
  PROVE  DOMAIN wants' = SiteRequests /\ \A r \in SiteRequests : Harmless(r)'
<1>1. DOMAIN wants' = SiteRequests /\ \A r \in SiteRequests : wants'[r] = None
  BY DEF ScheduleInv, OneAtATime, Answered
<1> QED  BY <1>1 DEF Harmless, Wants

\* A task is moved.
LEMMA PatchTaskKeeps ==
  ASSUME ScheduleInv, OneAtATime, NEW q \in SiteRequests, PatchTask(q)
  PROVE  ScheduleInv'
<1> DEFINE t == wants[q].task
           p == wants[q].parent
<1>1. DOMAIN wants' = SiteRequests /\ \A r \in SiteRequests : Harmless(r)'
  BY NothingPending DEF PatchTask, Wants
<1>2. CASE t \in scheduled /\ p \in scheduled \cup {None}
  <2>1. parent' = [parent EXCEPT ![t] = p] /\ t \in ScheduleTasks
    BY <1>2 DEF PatchTask, ScheduleInv
  <2>2. DOMAIN parent' = ScheduleTasks /\ parent'[t] = p /\ \A u \in ScheduleTasks \ {t} : parent'[u] = parent[u]
    BY <2>1 DEF ScheduleInv
  <2> HIDE DEF t, p
  <2>3. ~Cyclic(Upwards')
    <3>1. CASE p = None \/ parent[t] = p
      <4>1. Upwards' \subseteq Upwards
        BY <2>1, <2>2, <3>1 DEF Upwards
      <4> QED  BY <4>1, FewerEdges DEF ScheduleInv, ScheduleAcyclic
    <3>2. CASE p # None /\ parent[t] # p
      <4>1. t \notin Reachable(Upwards, p) /\ p \in ScheduleTasks
        BY <1>2, <3>2 DEF PatchTask, ScheduleInv, Harmless, t, p
      <4>2. ~Cyclic(Upwards \cup {<<t, p>>})
        BY <2>1, <4>1, NoNewCycle DEF ScheduleInv, ScheduleAcyclic
      <4>3. Upwards' \subseteq Upwards \cup {<<t, p>>}
        BY <2>1, <2>2 DEF Upwards
      <4> QED  BY <4>2, <4>3, FewerEdges
    <3> QED  BY <3>1, <3>2
  <2>4. ~Cyclic(Upwards)' /\ ~Cyclic(follows)'
    BY <2>3 DEF Cyclic, ScheduleInv, ScheduleAcyclic, PatchTask
  <2>5. scheduled' = scheduled /\ dropped' = dropped
    BY DEF PatchTask
  <2> QED  BY <1>1, <1>2, <2>2, <2>4, <2>5 DEF ScheduleInv, ScheduleAcyclic
<1>3. CASE ~(t \in scheduled /\ p \in scheduled \cup {None})
  <2>1. UNCHANGED schedulevars /\ Upwards' = Upwards
    BY <1>3 DEF PatchTask, Upwards, schedulevars
  <2> QED  BY <1>1, <2>1 DEF ScheduleInv, ScheduleAcyclic, Cyclic, schedulevars
<1> QED  BY <1>2, <1>3

\* A task is deleted, and what pointed at it is cut.
LEMMA DeleteTaskKeeps ==
  ASSUME ScheduleInv, NEW t \in ScheduleTasks, DeleteTask(t)
  PROVE  ScheduleInv'
<1>1. /\ scheduled' = scheduled \ {t} /\ dropped' = dropped \cup {t} /\ t \in scheduled /\ wants' = wants
      /\ DOMAIN parent' = ScheduleTasks
      /\ \A u \in ScheduleTasks : parent'[u] = IF u = t \/ parent[u] = t THEN None ELSE parent[u]
      /\ follows' \subseteq follows
  BY DEF DeleteTask
<1>2. Upwards' \subseteq Upwards
  BY <1>1 DEF Upwards
<1>3. ~Cyclic(Upwards)' /\ ~Cyclic(follows)'
  <2>1. ~Cyclic(Upwards') /\ ~Cyclic(follows')
    BY <1>1, <1>2, FewerEdges DEF ScheduleInv, ScheduleAcyclic
  <2> QED  BY <2>1 DEF Cyclic
<1>4. ASSUME NEW q \in SiteRequests PROVE Harmless(q)'
  <2>1. Harmless(q) /\ Known' = Known
    BY <1>1 DEF ScheduleInv, Known
  <2>2. ASSUME Wants(q, "patchTask"),
               wants[q].task \in scheduled', wants[q].parent \in scheduled', wants[q].parent # None
        PROVE  wants[q].task \notin Reachable(Upwards', wants[q].parent) \/ parent'[wants[q].task] = wants[q].parent
    <3>1. CASE wants[q].task \notin Reachable(Upwards, wants[q].parent)
      BY <1>2, <3>1, FewerEdges
    <3>2. CASE parent[wants[q].task] = wants[q].parent
      BY <1>1, <2>2, <3>2 DEF ScheduleInv
    <3> QED  BY <1>1, <2>1, <2>2, <3>1, <3>2 DEF Harmless
  <2>3. \A a, b : a \notin Reachable(follows, b) => a \notin Reachable(follows', b)
    BY <1>1, FewerEdges
  <2>4. ASSUME Wants(q, "depend") PROVE wants[q].from \notin Reachable(follows', wants[q].to)
    BY <2>1, <2>3, <2>4 DEF Harmless
  <2> QED  BY <1>1, <2>1, <2>2, <2>4 DEF Harmless, Wants, Reachable
<1>5. \A u \in ScheduleTasks : parent'[u] \in scheduled' \cup {None} /\ (u \notin scheduled' => parent'[u] = None)
  BY <1>1 DEF ScheduleInv
<1> QED  BY <1>1, <1>3, <1>4, <1>5 DEF ScheduleInv, ScheduleAcyclic

\* What a request that links two tasks has found out.
LEMMA ReadDependencyKeeps ==
  ASSUME ScheduleInv, NEW q \in SiteRequests, NEW a \in ScheduleTasks, NEW b \in ScheduleTasks, ReadDependency(q, a, b)
  PROVE  ScheduleInv'
<1>1. /\ wants'[q] = [op |-> "depend", from |-> a, to |-> b] /\ DOMAIN wants' = SiteRequests
      /\ \A r \in SiteRequests \ {q} : wants'[r] = wants[r]
  BY DEF ReadDependency, Want, ScheduleInv
<1>2. UNCHANGED schedulevars /\ Upwards' = Upwards
  BY DEF ReadDependency, Upwards, schedulevars
<1>3. Harmless(q)'
  BY <1>1, <1>2 DEF Harmless, Wants, ReadDependency, WouldCreateCycle, Reachable, schedulevars
<1>4. ASSUME NEW r \in SiteRequests, r # q PROVE Harmless(r)'
  BY <1>1, <1>2, <1>4, HarmlessKept DEF ScheduleInv
<1> QED  BY <1>1, <1>2, <1>3, <1>4 DEF ScheduleInv, ScheduleAcyclic, Cyclic, schedulevars

\* Two tasks are linked.
LEMMA CreateDependencyKeeps ==
  ASSUME ScheduleInv, OneAtATime, NEW q \in SiteRequests, CreateDependency(q)
  PROVE  ScheduleInv'
<1> DEFINE a == wants[q].from
           b == wants[q].to
<1>1. DOMAIN wants' = SiteRequests /\ \A r \in SiteRequests : Harmless(r)'
  BY NothingPending DEF CreateDependency, Wants
<1>2. UNCHANGED <<scheduled, dropped, parent>> /\ Upwards' = Upwards
  BY DEF CreateDependency, Upwards
<1>3. ~Cyclic(follows')
  <2>1. a \in ScheduleTasks /\ b \in ScheduleTasks /\ a \notin Reachable(follows, b)
    BY DEF CreateDependency, ScheduleInv, Harmless
  <2>2. follows' \subseteq follows \cup {<<a, b>>}
    BY DEF CreateDependency
  <2> HIDE DEF a, b
  <2>3. ~Cyclic(follows \cup {<<a, b>>})
    BY <2>1, NoNewCycle DEF ScheduleInv, ScheduleAcyclic
  <2> QED  BY <2>2, <2>3, FewerEdges
<1> QED  BY <1>1, <1>2, <1>3 DEF ScheduleInv, ScheduleAcyclic, Cyclic

\* A link is removed.
LEMMA DeleteDependencyKeeps ==
  ASSUME ScheduleInv, NEW e \in follows, DeleteDependency(e)
  PROVE  ScheduleInv'
<1>1. UNCHANGED <<scheduled, dropped, parent, wants>> /\ Upwards' = Upwards /\ follows' \subseteq follows
  BY DEF DeleteDependency, Upwards
<1>2. ~Cyclic(follows')
  BY <1>1, FewerEdges DEF ScheduleInv, ScheduleAcyclic
<1>3. ASSUME NEW q \in SiteRequests PROVE Harmless(q)'
  <2>1. \A a, b : a \notin Reachable(follows, b) => a \notin Reachable(follows', b)
    BY <1>1, FewerEdges
  <2>2. ASSUME Wants(q, "depend") PROVE wants[q].from \notin Reachable(follows', wants[q].to)
    BY <2>1, <2>2 DEF Harmless, ScheduleInv
  <2> QED  BY <1>1, <2>2 DEF Harmless, ScheduleInv, Wants, Known, Reachable
<1> QED  BY <1>1, <1>2, <1>3 DEF ScheduleInv, ScheduleAcyclic, Cyclic

\* What the other requests read and write is not the schedule.
LEMMA ElsewhereKeeps ==
  ASSUME ScheduleInv, UNCHANGED schedulevars, DOMAIN wants' = SiteRequests,
         \A r \in SiteRequests : wants'[r] = wants[r] \/ wants'[r] = None \/ wants'[r].op = "status"
  PROVE  ScheduleInv'
<1>1. Upwards' = Upwards
  BY DEF schedulevars, Upwards
<1>2. ASSUME NEW r \in SiteRequests PROVE Harmless(r)'
  <2>1. CASE wants'[r] = wants[r]
    BY <2>1, HarmlessKept DEF ScheduleInv
  <2>2. CASE wants'[r] = None \/ wants'[r].op = "status"
    BY <2>2 DEF Harmless, Wants
  <2> QED  BY <2>1, <2>2
<1> QED  BY <1>1, <1>2 DEF ScheduleInv, ScheduleAcyclic, Cyclic, schedulevars

\* Every step.
LEMMA ScheduleInvStep == ScheduleInv /\ OneAtATime /\ [SiteNext]_siteVars => ScheduleInv'
<1> SUFFICES ASSUME ScheduleInv, OneAtATime, [SiteNext]_siteVars PROVE ScheduleInv'
  OBVIOUS
<1>1. ASSUME NEW t \in ScheduleTasks, NEW p \in ScheduleTasks \cup {None}, CreateTask(t, p) PROVE ScheduleInv'
  BY <1>1, CreateTaskKeeps
<1>2. ASSUME NEW t \in ScheduleTasks, NEW p \in ScheduleTasks \cup {None}, NEW q \in SiteRequests, ReadTask(q, t, p)
      PROVE  ScheduleInv'
  BY <1>2, ReadTaskKeeps
<1>3. ASSUME NEW t \in ScheduleTasks, DeleteTask(t) PROVE ScheduleInv'
  BY <1>3, DeleteTaskKeeps
<1>4. ASSUME NEW q \in SiteRequests, NEW a \in ScheduleTasks, NEW b \in ScheduleTasks, ReadDependency(q, a, b)
      PROVE  ScheduleInv'
  BY <1>4, ReadDependencyKeeps
<1>5. ASSUME NEW e \in follows, DeleteDependency(e) PROVE ScheduleInv'
  BY <1>5, DeleteDependencyKeeps
<1>6. ASSUME NEW q \in SiteRequests, PatchTask(q) PROVE ScheduleInv'
  BY <1>6, PatchTaskKeeps
<1>7. ASSUME NEW q \in SiteRequests, CreateDependency(q) PROVE ScheduleInv'
  BY <1>7, CreateDependencyKeeps
<1>8. ASSUME NEW p \in PunchItems, NEW s, NEW q \in SiteRequests, ReadStatus(q, p, s) PROVE ScheduleInv'
  <2>1. UNCHANGED schedulevars /\ DOMAIN wants' = SiteRequests
    BY <1>8 DEF ReadStatus, Want, ScheduleInv
  <2>2. \A r \in SiteRequests : wants'[r] = wants[r] \/ wants'[r].op = "status"
    BY <1>8 DEF ReadStatus, Want, ScheduleInv
  <2> QED  BY <2>1, <2>2, ElsewhereKeeps
<1>9. ASSUME NEW q \in SiteRequests, SetStatus(q) PROVE ScheduleInv'
  BY <1>9, ElsewhereKeeps DEF SetStatus, Answered, ScheduleInv
<1>10. ASSUME NEW p \in PunchItems, (\E someone \in BOOLEAN : CreatePunch(p, someone) \/ Reassign(p, someone)) \/ DeletePunch(p)
       PROVE  ScheduleInv'
  BY <1>10, ElsewhereKeeps DEF CreatePunch, Reassign, DeletePunch, ScheduleInv
<1>11. ASSUME NEW x \in Entries, AddEntry(x) \/ DeleteEntry(x) PROVE ScheduleInv'
  BY <1>11, ElsewhereKeeps DEF AddEntry, DeleteEntry, ScheduleInv
<1>12. CASE UNCHANGED siteVars
  BY <1>12, ElsewhereKeeps DEF siteVars, ScheduleInv
<1> QED  BY <1>1, <1>2, <1>3, <1>4, <1>5, <1>6, <1>7, <1>8, <1>9, <1>10, <1>11, <1>12 DEF SiteNext

(***************************************************************************)
(* While requests come one after another, neither the tasks' parents nor   *)
(* their dependencies close a cycle (projectSchedule.ts:107, 300).         *)
(***************************************************************************)
THEOREM ScheduleAcyclicCorrect == SiteSpec /\ []OneAtATime => []ScheduleAcyclic
<1>1. ScheduleInv => ScheduleAcyclic
  BY DEF ScheduleInv
<1> QED  BY <1>1, ScheduleInvInit, ScheduleInvStep, PTL DEF SiteSpec
-----------------------------------------------------------------------------
(* Punch items.                                                            *)

\* A request that is under way has judged the item as it still is, unless the item was deleted.
PunchInv ==
    /\ punch \in [PunchItems -> DOMAIN AllowedTransitions \cup {"none", "deleted"}]
    /\ DOMAIN wants = SiteRequests
    /\ \A q \in SiteRequests : Wants(q, "status") =>
         /\ wants[q].item \in PunchItems /\ wants[q].next \in DOMAIN AllowedTransitions
         /\ punch[wants[q].item] \notin {"closed", "none"}

\* The initial state.
LEMMA PunchInvInit == SiteInit => PunchInv
  BY DEF SiteInit, PunchInv, Wants, AllowedTransitions

\* The answer to a request leaves no other under way that judged the status before it.
LEMMA PunchInvStep == PunchInv /\ OneAtATime /\ [SiteNext]_siteVars => PunchInv'
<1> SUFFICES ASSUME PunchInv, OneAtATime, [SiteNext]_siteVars PROVE PunchInv'
  OBVIOUS
<1> USE DEF PunchInv, Wants, Listed, schedulevars, punchvars
<1>1. DOMAIN AllowedTransitions = {"open", "assigned", "in_progress", "resolved", "verified", "closed"}
      /\ AllowedTransitions["closed"] = {}
      /\ \A s \in DOMAIN AllowedTransitions : AllowedTransitions[s] \subseteq DOMAIN AllowedTransitions
  BY DEF AllowedTransitions
<1> HIDE DEF AllowedTransitions
<1>2. CASE \E p \in PunchItems, someone \in BOOLEAN : CreatePunch(p, someone)
  BY <1>1, <1>2 DEF CreatePunch
<1>3. CASE \E p \in PunchItems : DeletePunch(p)
  BY <1>1, <1>3 DEF DeletePunch
<1>4. CASE \E p \in PunchItems, q \in SiteRequests, s \in DOMAIN AllowedTransitions : ReadStatus(q, p, s)
  <2>1. PICK p \in PunchItems, q \in SiteRequests, s \in DOMAIN AllowedTransitions : ReadStatus(q, p, s)
    BY <1>4
  <2>2. punch[p] \in DOMAIN AllowedTransitions /\ punch[p] # "closed"
    BY <1>1, <2>1 DEF ReadStatus
  <2> QED  BY <1>1, <2>1, <2>2 DEF ReadStatus, Want
<1>5. CASE \E q \in SiteRequests : SetStatus(q)
  <2>1. PICK q \in SiteRequests : SetStatus(q)
    BY <1>5
  <2>2. \A r \in SiteRequests : wants'[r] = None
    BY <2>1 DEF SetStatus, Answered, OneAtATime
  <2> QED  BY <1>1, <2>1, <2>2 DEF SetStatus, Answered
<1>6. CASE \E q \in SiteRequests : PatchTask(q) \/ CreateDependency(q)
  BY <1>6 DEF PatchTask, CreateDependency, Answered
<1>7. CASE \E q \in SiteRequests : \/ \E t \in ScheduleTasks, p \in ScheduleTasks \cup {None} : ReadTask(q, t, p)
                                   \/ \E a, b \in ScheduleTasks : ReadDependency(q, a, b)
  BY <1>7 DEF ReadTask, ReadDependency, Want
<1>8. CASE UNCHANGED <<punch, wants>>
  BY <1>8
<1>9. CASE UNCHANGED siteVars
  BY <1>9 DEF siteVars
<1>10. CASE \/ \E t \in ScheduleTasks, p \in ScheduleTasks \cup {None} : CreateTask(t, p)
            \/ \E t \in ScheduleTasks : DeleteTask(t)
            \/ \E e \in follows : DeleteDependency(e)
            \/ \E p \in PunchItems, someone \in BOOLEAN : Reassign(p, someone)
            \/ \E x \in Entries : AddEntry(x) \/ DeleteEntry(x)
  BY <1>8, <1>10 DEF CreateTask, DeleteTask, DeleteDependency, Reassign, AddEntry, DeleteEntry
<1> QED  BY <1>2, <1>3, <1>4, <1>5, <1>6, <1>7, <1>9, <1>10 DEF SiteNext

\* Only an answer to a request changes the status of a listed item.
LEMMA ClosedStays ==
  ASSUME PunchInv, [SiteNext]_siteVars, NEW p \in PunchItems, punch[p] = "closed"
  PROVE  punch'[p] \in {"closed", "deleted"}
<1> USE DEF PunchInv, Wants, Listed, schedulevars, punchvars
<1>1. CASE \E q \in SiteRequests : SetStatus(q)
  BY <1>1 DEF SetStatus
<1>2. CASE \E r \in PunchItems : DeletePunch(r) \/ \E someone \in BOOLEAN : CreatePunch(r, someone)
  BY <1>2 DEF DeletePunch, CreatePunch
<1>3. CASE punch' = punch
  BY <1>3
<1>4. CASE ~\E q \in SiteRequests : SetStatus(q)
  BY <1>2, <1>3, <1>4 DEF SiteNext, siteVars, CreateTask, DeleteTask, DeleteDependency, Reassign, AddEntry, DeleteEntry,
     ReadTask, ReadDependency, ReadStatus, PatchTask, CreateDependency
<1> QED  BY <1>1, <1>4

(***************************************************************************)
(* While requests come one after another a closed punch item keeps its     *)
(* status until it is deleted (punchItems.ts:281).                         *)
(***************************************************************************)
THEOREM ClosedIsTerminalCorrect == SiteSpec /\ []OneAtATime => ClosedIsTerminal
<1> DEFINE Stays == \A p \in PunchItems : punch[p] = "closed" => punch'[p] \in {"closed", "deleted"}
<1>1. PunchInv /\ [SiteNext]_siteVars => [Stays]_siteVars
  BY ClosedStays
<1> QED  BY <1>1, PunchInvInit, PunchInvStep, PTL DEF SiteSpec, ClosedIsTerminal

-----------------------------------------------------------------------------
(* Tax rules.                                                              *)

Row(i) == ostate[i] \in {"active", "reset"}

\* What a creation will close, and what a calculation has used.
Closes(i) == ostate[i] = "reading" /\ prior[i] # None =>
               prior[i] \in TaxOverrides /\ Row(prior[i]) /\ country[prior[i]] = country[i]
Used(k) == kused[k] # None =>
             kused[k] \in TaxOverrides /\ Row(kused[k]) /\ country[kused[k]] = kcountry[k] /\ kstep[k] = "done"

TaxInv ==
    /\ DOMAIN ostate = TaxOverrides /\ DOMAIN country = TaxOverrides /\ DOMAIN until = TaxOverrides
    /\ DOMAIN since = TaxOverrides /\ DOMAIN prior = TaxOverrides
    /\ DOMAIN kstep = Calculations /\ DOMAIN kcountry = Calculations /\ DOMAIN kused = Calculations
    /\ \A i \in TaxOverrides : Closes(i)
    /\ \A k \in Calculations : Used(k)

\* The initial state.
LEMMA TaxInvInit == TaxInit => TaxInv
  BY DEF TaxInit, TaxInv, Closes, Used

\* Every step keeps the invariant.
LEMMA TaxInvStep == TaxInv /\ [TaxNext]_taxVars => TaxInv'
<1> SUFFICES ASSUME TaxInv, [TaxNext]_taxVars PROVE TaxInv'
  OBVIOUS
<1> USE DEF TaxInv, Closes, Used, Row, overridevars, calcvars
<1>1. CASE \E i \in TaxOverrides, from \in Days, to \in Days \cup {None}, v \in Rates : BeginOverride(i, from, to, v)
  BY <1>1 DEF BeginOverride, PriorCandidates, Active
<1>2. CASE \E i \in TaxOverrides : InsertOverride(i)
  BY <1>2 DEF InsertOverride
<1>3. CASE \E i \in TaxOverrides : Reset(i)
  BY <1>3 DEF Reset
<1>4. CASE \E k \in Calculations, day \in Days, category \in Categories : Resolve(k, day, category)
  BY <1>4 DEF Resolve, Finish
<1>5. CASE \E k \in Calculations, day \in Days, s \in {"royalties", "services"} : Withhold(k, day, "non_resident", s)
  BY <1>5 DEF Withhold, Finish
<1>6. CASE \E k \in Calculations : ApplyOverride(k)
  BY <1>6 DEF ApplyOverride, Finish, InForce, Matching, Active
<1>7. CASE (\E c \in Countries : Publish(c) \/ SetProfile(c)) \/ UNCHANGED taxVars
  BY <1>7 DEF Publish, SetProfile, taxVars
<1> QED  BY <1>1, <1>2, <1>3, <1>4, <1>5, <1>6, <1>7 DEF TaxNext

(***************************************************************************)
(* A calculation uses overrides of the country whose version it uses only. *)
(***************************************************************************)
THEOREM CountriesNotMixedCorrect == TaxSpec => []CountriesNotMixed
<1>1. TaxInv => CountriesNotMixed
  BY DEF TaxInv, Used, CountriesNotMixed
<1> QED  BY <1>1, TaxInvInit, TaxInvStep, PTL DEF TaxSpec

\* An override that is inserted changes nothing for another country.
LEMMA InsertSpares ==
  ASSUME TaxInv, [TaxNext]_taxVars, NEW i \in TaxOverrides, NEW c \in Countries, NEW day \in Days,
         ostate[i] = "reading", ostate'[i] = "active", country[i] # c
  PROVE  InForce(c, day)' = InForce(c, day)
<1>1. InsertOverride(i)
  <2>1. CASE UNCHANGED ostate
    BY <2>1
  <2>2. CASE \E j \in TaxOverrides : Reset(j) \/ \E from, to, v : BeginOverride(j, from, to, v)
    BY <2>2 DEF Reset, BeginOverride, TaxInv
  <2>3. CASE \E j \in TaxOverrides : InsertOverride(j)
    BY <2>3 DEF InsertOverride, TaxInv
  <2>4. CASE \/ \E b \in Countries : Publish(b) \/ SetProfile(b)
             \/ \E k \in Calculations :
                  \/ \E d \in Days, category \in Categories : Resolve(k, d, category)
                  \/ \E d \in Days, s \in {"royalties", "services"} : Withhold(k, d, "non_resident", s)
                  \/ ApplyOverride(k)
             \/ UNCHANGED taxVars
    BY <2>4, <2>1 DEF Publish, SetProfile, Resolve, Withhold, ApplyOverride, taxVars, overridevars
  <2> QED  BY <2>2, <2>3, <2>4 DEF TaxNext
<1>2. UNCHANGED <<country, since>>
  BY <1>1 DEF InsertOverride
<1>3. \A j \in TaxOverrides : country[j] = c => (ostate'[j] = ostate[j] /\ until'[j] = until[j])
  BY <1>1 DEF InsertOverride, TaxInv, Closes
<1>4. Matching(c, day)' = Matching(c, day)
  BY <1>2, <1>3 DEF Matching, Active, Covers
<1> QED  BY <1>2, <1>4 DEF InForce

(***************************************************************************)
(* What a country's overrides say is untouched by an override made for     *)
(* another country.                                                        *)
(***************************************************************************)
THEOREM OtherCountryUntouchedCorrect == TaxSpec => OtherCountryUntouched
<1> DEFINE Untouched == \A i \in TaxOverrides, c \in Countries, day \in Days :
                          ostate[i] = "reading" /\ ostate'[i] = "active" /\ country[i] # c
                            => InForce(c, day)' = InForce(c, day)
<1>1. TaxInv /\ [TaxNext]_taxVars => [Untouched]_taxVars
  BY InsertSpares
<1> QED  BY <1>1, TaxInvInit, TaxInvStep, PTL DEF TaxSpec, OtherCountryUntouched

\* What a creation closes at the day it starts from has an end: it starts from a day.
OpenInv ==
    /\ OneOpenOverride
    /\ \A i \in TaxOverrides : ostate[i] = "reading" => since[i] # None

\* The initial state.
LEMMA OpenInvInit == TaxInit => OpenInv
  BY DEF TaxInit, OpenInv, OneOpenOverride, Open, Active

\* A creation leaves no second open override: the unique index refuses it, or the other one has got an end.
LEMMA OneOpenStep ==
  ASSUME TaxInv, OpenInv, [TaxNext]_taxVars
  PROVE  OpenInv'
<1> USE DEF OpenInv, OneOpenOverride, Open, Active, TaxInv, overridevars, calcvars
<1>1. CASE \E i \in TaxOverrides, from \in Days, to \in Days \cup {None}, v \in Rates : BeginOverride(i, from, to, v)
  BY <1>1, NoneIsNoOverride DEF BeginOverride
<1>2. ASSUME NEW i \in TaxOverrides, InsertOverride(i) PROVE OpenInv'
  <2>1. CASE Conflicts(i)
    BY <1>2, <2>1 DEF InsertOverride
  <2>2. CASE ~Conflicts(i)
    <3>1. Open' \subseteq (Open \ {prior[i]}) \cup {i} /\ UNCHANGED <<country, since>>
      <4>1. ostate[i] = "reading" /\ ostate' = [ostate EXCEPT ![i] = "active"] /\ UNCHANGED <<country, since>>
        BY <1>2, <2>2 DEF InsertOverride
      <4>2. CASE prior[i] = None
        <5>1. until' = until
          BY <1>2, <2>2, <4>2 DEF InsertOverride
        <5> QED  BY <4>1, <4>2, <5>1, NoneIsNoOverride
      <4>3. CASE prior[i] # None
        <5>1. prior[i] \in TaxOverrides /\ until' = [until EXCEPT ![prior[i]] = since[i]] /\ since[i] # None
          BY <1>2, <2>2, <4>1, <4>3 DEF InsertOverride, Closes
        <5> QED  BY <4>1, <5>1
      <4> QED  BY <4>2, <4>3
    <3>2. i \in Open' => \A j \in Open \ {prior[i]} : country[j] # country[i]
      <4>1. prior[i] # i
        BY <1>2, NoneIsNoOverride DEF InsertOverride, Closes, Row
      <4> QED  BY <1>2, <2>2, <4>1 DEF InsertOverride, Conflicts
    <3>3. OneOpenOverride'
      BY <3>1, <3>2
    <3> QED  BY <1>2, <2>2, <3>3 DEF InsertOverride
  <2> QED  BY <2>1, <2>2
<1>3. CASE \E i \in TaxOverrides : Reset(i)
  BY <1>3 DEF Reset
<1>4. CASE \E k \in Calculations : \/ \E day \in Days, category \in Categories : Resolve(k, day, category)
                                   \/ \E day \in Days, s \in {"royalties", "services"} : Withhold(k, day, "non_resident", s)
                                   \/ ApplyOverride(k)
  BY <1>4 DEF Resolve, Withhold, ApplyOverride
<1>5. CASE (\E c \in Countries : Publish(c) \/ SetProfile(c)) \/ UNCHANGED taxVars
  BY <1>5 DEF Publish, SetProfile, taxVars
<1> QED  BY <1>1, <1>2, <1>3, <1>4, <1>5 DEF TaxNext


(***************************************************************************)
(* A country has at most one override without an end, whatever creations   *)
(* overlap: one closes the one it has read, and the index refuses two.     *)
(***************************************************************************)
THEOREM OneOpenOverrideCorrect == TaxSpec => []OneOpenOverride
<1>1. TaxInv /\ OpenInv /\ [TaxNext]_taxVars => (TaxInv /\ OpenInv)'
  BY TaxInvStep, OneOpenStep
<1>2. OpenInv => OneOpenOverride
  BY DEF OpenInv
<1> QED  BY <1>1, <1>2, TaxInvInit, OpenInvInit, PTL DEF TaxSpec

-----------------------------------------------------------------------------
(* Onboarding: the unit's pointer into the secret store.                   *)

\* A request that has stored its secret and has not pointed the unit to it yet, and one that may have.
Stored(o) == \/ phase[o] \in {"open", "rows"}
             \/ phase[o] = "drop" /\ kind[o] \in Confirmations
             \/ phase[o] = "point" /\ kind[o] # "clear"
Past(o) == phase[o] \in {"status", "audit", "done"}

\* Where the pointer leads when its secret is gone: to a request that took it away.
Taken(o) == /\ kind[o] \in Confirmations \cup {"clear"} /\ seen[o].ref = secretRef
            /\ phase[o] = "point" \/ fate[o] = "lost"
FitsKey(o) == secrets[o].key # None /\ secrets[o].certificate # None => secrets[o].certificate = secrets[o].key

OnboardingInv ==
    /\ secretRef \in Officers \cup {None} /\ DOMAIN secrets = Officers
    /\ DOMAIN phase = Officers /\ DOMAIN kind = Officers /\ DOMAIN fate = Officers /\ DOMAIN seen = Officers
    /\ \A o \in Officers : DOMAIN seen[o] = {"status", "csid", "ref", "csr"} /\ seen[o].ref \in Officers \cup {None}
    /\ \A o \in Officers : phase[o] = "point" => kind[o] \in Confirmations \cup {"credential", "clear"}
    /\ \A o \in Officers : fate[o] = "lost" => phase[o] = "done"
    /\ \A o \in Officers : Stored(o) => secrets[o] # NoSecret
    /\ secretRef # None => Past(secretRef)
    /\ \A o \in Officers : seen[o].ref # None => Past(seen[o].ref)
    /\ Resolves(secretRef) \/ secretRef = None \/ \E o \in Officers : Taken(o)
    /\ \A o \in Officers : FitsKey(o)

\* The initial state.
LEMMA OnboardingInvInit == OnboardingInit => OnboardingInv
  BY DEF OnboardingInit, OnboardingInv, Unseen, NoSecret, Stored, FitsKey

\* A request begins: what it has read is what the unit points to.
LEMMA BeginKeeps ==
  ASSUME NEW o \in Officers, NEW k \in Asked, OnboardingInv, Begin(o, k)
  PROVE  OnboardingInv'
<1> USE DEF OnboardingInv, Begin, Goto, unitvars
<1>1. phase[o] = "idle" /\ phase'[o] \in {"put", "drop", "status", "call"} /\ (phase'[o] = "drop" => k = "clear")
  BY DEF FirstPhase, Confirmations
<1>2. /\ DOMAIN phase' = Officers /\ DOMAIN kind' = Officers /\ DOMAIN seen' = Officers
      /\ \A x \in Officers : DOMAIN seen'[x] = {"status", "csid", "ref", "csr"} /\ seen'[x].ref \in Officers \cup {None}
  OBVIOUS
<1>3. \A x \in Officers : phase'[x] = "point" => kind'[x] \in Confirmations \cup {"credential", "clear"}
  BY <1>1
<1>4. \A x \in Officers : Stored(x)' => secrets'[x] # NoSecret
  BY <1>1 DEF Stored, Confirmations
<1>5. \A x \in Officers : Past(x) => Past(x)'
  BY <1>1 DEF Past
<1>6. \A x \in Officers : Taken(x) => Taken(x)'
  BY <1>1 DEF Taken
<1>7. Resolves(secretRef)' \/ secretRef' = None \/ \E x \in Officers : Taken(x)'
  BY <1>6 DEF Resolves
<1>8. \A x \in Officers : (fate'[x] = "lost" => phase'[x] = "done") /\ FitsKey(x)'
  BY <1>1 DEF FitsKey
<1>9. \A x \in Officers : (seen[x].ref # None => Past(seen[x].ref))'
  BY <1>5
<1> QED  BY <1>2, <1>3, <1>4, <1>5, <1>7, <1>8, <1>9

\* A request stores a secret: there is nothing by its name that anybody could have seen.
LEMMA PutKeeps ==
  ASSUME NEW o \in Officers, OnboardingInv, PutCertificate(o) \/ PutKeyPair(o) \/ PutCredential(o) \/ PutIssued(o)
  PROVE  OnboardingInv'
<1> USE DEF OnboardingInv, Confirmations, Calls
<1>1. /\ phase[o] = "put" /\ UNCHANGED <<secretRef, kind, seen>>
      /\ \E p \in {"drop", "open", "point", "record", "done"} : phase' = [phase EXCEPT ![o] = p]
      /\ phase'[o] = "drop" => kind[o] \in Confirmations
      /\ phase'[o] = "point" => kind[o] = "credential"
      /\ \A x \in Officers : fate'[x] = "lost" => fate[x] = "lost"
  BY DEF PutCertificate, PutKeyPair, PutCredential, PutIssued, PutToken, Goto, Conclusion, Same, unitvars
<1>2. DOMAIN fate' = Officers /\ DOMAIN secrets' = Officers
  BY DEF PutCertificate, PutKeyPair, PutCredential, PutIssued, PutToken, Goto, Conclusion
<1>3. /\ \A x \in Officers : secrets'[x] = secrets[x] \/ (x = o /\ secrets'[x] # NoSecret /\ FitsKey(x)')
      /\ phase'[o] # "done" => secrets'[o] # NoSecret
  <2>1. CASE PutCertificate(o)
    <3>1. PICK k \in KeysMade :
            IF secrets[seen[o].ref].comparable /\ k = secrets[seen[o].ref].key
            THEN /\ secrets' = [secrets EXCEPT ![o] = [key |-> secrets[seen[o].ref].key, certificate |-> k,
                                                       comparable |-> kind[o] = "confirm_compliance"]]
                 /\ Goto(o, "drop")
            ELSE Conclusion(o, "refused") /\ UNCHANGED secrets
      BY <2>1 DEF PutCertificate
    <3>2. k # None
      BY AbsentIsNobody DEF KeysMade
    <3> QED  BY <3>1, <3>2 DEF NoSecret, FitsKey, Goto, Conclusion
  <2>2. CASE PutKeyPair(o)
    BY <2>2, AbsentIsNobody DEF PutKeyPair, NoSecret, FitsKey
  <2>3. CASE PutCredential(o) \/ PutIssued(o)
    BY <2>3, AbsentIsNobody DEF PutCredential, PutIssued, PutToken, NoSecret, FitsKey
  <2> QED  BY <2>1, <2>2, <2>3
<1>4. \A x \in Officers : Stored(x)' => secrets'[x] # NoSecret
  BY <1>1, <1>3 DEF Stored
<1>5. \A x \in Officers : Past(x) => Past(x)'
  BY <1>1 DEF Past
<1>6. \A x \in Officers : Taken(x) => Taken(x)'
  <2>1. \A x \in Officers : fate[x] = "lost" => fate'[x] = "lost"
    BY <1>1 DEF PutCertificate, PutKeyPair, PutCredential, PutIssued, PutToken, Goto, Conclusion
  <2> QED  BY <1>1, <2>1 DEF Taken
<1>7. Resolves(secretRef)' \/ secretRef' = None \/ \E x \in Officers : Taken(x)'
  BY <1>1, <1>3, <1>6 DEF Resolves
<1>8. \A x \in Officers : FitsKey(x)'
  BY <1>3 DEF FitsKey
<1>9. \A x \in Officers : (seen[x].ref # None => Past(seen[x].ref))'
  BY <1>1, <1>5
<1>10. \A x \in Officers : fate'[x] = "lost" => phase'[x] = "done"
  BY <1>1
<1>11. \A x \in Officers : phase'[x] = "point" => kind'[x] \in Confirmations \cup {"credential", "clear"}
  BY <1>1
<1> QED  BY <1>1, <1>2, <1>4, <1>5, <1>7, <1>8, <1>9, <1>10, <1>11

\* A CSR's transaction: its rows, and the pointer to its own key pair.
LEMMA CsrKeeps ==
  ASSUME NEW o \in Officers, OnboardingInv, OpenCsr(o) \/ CommitCsr(o)
  PROVE  OnboardingInv'
<1> USE DEF OnboardingInv
<1>1. CASE OpenCsr(o)
  <2>1. /\ phase[o] = "open" /\ phase' = [phase EXCEPT ![o] = "rows"] /\ UNCHANGED <<secretRef, secrets, kind, fate>>
        /\ DOMAIN seen' = Officers
        /\ \A x \in Officers : DOMAIN seen'[x] = {"status", "csid", "ref", "csr"} /\ seen'[x].ref = seen[x].ref
    BY <1>1 DEF OpenCsr, Goto, unitvars
  <2> QED  BY <2>1 DEF Stored, Past, Taken, Resolves, FitsKey
<1>2. CASE CommitCsr(o)
  <2>1. /\ phase[o] = "rows" /\ phase' = [phase EXCEPT ![o] = "audit"] /\ UNCHANGED <<seen, secrets, kind, fate>>
        /\ secretRef' = o
    BY <1>2 DEF CommitCsr, Goto, Same
  <2> QED  BY <2>1, AbsentIsNobody DEF Stored, Past, Resolves, FitsKey
<1> QED  BY <1>1, <1>2

\* A secret is deleted: one that was pointed to, so nobody's that is still on its way.
LEMMA DropKeeps ==
  ASSUME NEW o \in Officers, OnboardingInv, DropOld(o) \/ DropCleared(o)
  PROVE  OnboardingInv'
<1> USE DEF OnboardingInv, Confirmations
<1>1. /\ phase[o] = "drop" /\ kind[o] \in Confirmations \cup {"clear"}
      /\ phase' = [phase EXCEPT ![o] = "point"] /\ UNCHANGED <<secretRef, seen, kind, fate>>
      /\ DOMAIN secrets' = Officers
      /\ \A x \in Officers : secrets'[x] = secrets[x] \/ (x = seen[o].ref /\ secrets'[x] = NoSecret)
  BY DEF DropOld, DropCleared, Drop, Goto, Same, unitvars
<1>2. \A x \in Officers : Past(x) <=> Past(x)'
  BY <1>1 DEF Past
<1>3. \A x \in Officers : Stored(x)' => secrets'[x] # NoSecret
  <2> SUFFICES ASSUME NEW x \in Officers, Stored(x)' PROVE secrets'[x] # NoSecret
    OBVIOUS
  <2>1. Stored(x)
    BY <1>1 DEF Stored
  <2>2. x # seen[o].ref
    BY <2>1, AbsentIsNobody DEF Stored, Past
  <2> QED  BY <1>1, <2>1, <2>2
<1>4. Resolves(secretRef)' \/ secretRef' = None \/ \E x \in Officers : Taken(x)'
  <2>1. CASE secretRef = seen[o].ref
    BY <1>1, <2>1 DEF Taken
  <2>2. CASE secretRef # seen[o].ref
    BY <1>1, <2>2 DEF Taken, Resolves
  <2> QED  BY <2>1, <2>2
<1>5. \A x \in Officers : FitsKey(x)'
  BY <1>1 DEF FitsKey, NoSecret
<1> QED  BY <1>1, <1>2, <1>3, <1>4, <1>5

\* The pointer moves to the request's own secret, or to nothing.
LEMMA PointKeeps ==
  ASSUME NEW o \in Officers, OnboardingInv, PointUnit(o)
  PROVE  OnboardingInv'
<1> USE DEF OnboardingInv
<1>1. /\ phase[o] = "point" /\ \E p \in {"status", "audit"} : phase' = [phase EXCEPT ![o] = p]
      /\ UNCHANGED <<secrets, seen, kind, fate>>
      /\ secretRef' = IF kind[o] = "clear" THEN None ELSE o
  BY DEF PointUnit, Goto, Same
<1>2. \A x \in Officers : Past(x) => Past(x)'
  BY <1>1 DEF Past
<1>3. Resolves(secretRef)' \/ secretRef' = None
  BY <1>1, AbsentIsNobody DEF Resolves, Stored
<1>4. (secretRef # None => Past(secretRef))'
  BY <1>1 DEF Past
<1> QED  BY <1>1, <1>2, <1>3, <1>4 DEF Stored, FitsKey

\* What leaves the pointer and the store alone and goes on, or ends.
LEMMA MovingKeeps ==
  ASSUME NEW o \in Officers, OnboardingInv, NEW p \in {"put", "status", "record", "audit", "done"},
         phase[o] # "done", Past(o) => p \in {"audit", "done"},
         UNCHANGED <<secretRef, secrets, kind, seen>>, phase' = [phase EXCEPT ![o] = p],
         \/ UNCHANGED fate /\ phase[o] # "point"
         \/ p = "done" /\ phase[o] # "point" /\ \E f \in {"ok", "error", "refused"} : fate' = [fate EXCEPT ![o] = f]
         \/ p = "done" /\ fate' = [fate EXCEPT ![o] = "lost"]
  PROVE  OnboardingInv'
<1> USE DEF OnboardingInv
<1>1. \A x \in Officers : Past(x) => Past(x)'
  BY DEF Past
<1>2. \A x \in Officers : Stored(x)' => secrets'[x] # NoSecret
  BY DEF Stored
<1>3. \A x \in Officers : Taken(x) => Taken(x)'
  BY DEF Taken
<1>4. Resolves(secretRef)' \/ secretRef' = None \/ \E x \in Officers : Taken(x)'
  BY <1>3 DEF Resolves
<1>5. \A x \in Officers : FitsKey(x)' /\ (fate'[x] = "lost" => phase'[x] = "done")
                       /\ (phase'[x] = "point" => kind'[x] \in Confirmations \cup {"credential", "clear"})
  BY DEF FitsKey
<1>6. DOMAIN phase' = Officers /\ DOMAIN fate' = Officers
  OBVIOUS
<1> QED  BY <1>1, <1>2, <1>4, <1>5, <1>6

\* The rows of the unit's status, the call of the provider, the records of it, the end.
LEMMA OthersKeep ==
  ASSUME NEW o \in Officers, OnboardingInv,
         \/ WriteCsidStatus(o) \/ LeaveNotOnboarded(o) \/ Deactivate(o) \/ MarkActive(o) \/ CallProvider(o)
         \/ RecordOperation(o) \/ RecordLifecycle(o) \/ AuditStep(o) \/ AbandonStep(o)
  PROVE  OnboardingInv'
<1> USE DEF Goto, Conclusion, Same, unitvars
<1>1. CASE WriteCsidStatus(o) \/ LeaveNotOnboarded(o) \/ Deactivate(o) \/ MarkActive(o)
  <2>1. phase[o] = "status" /\ phase' = [phase EXCEPT ![o] = "audit"] /\ UNCHANGED <<secretRef, secrets, kind, seen, fate>>
    BY <1>1 DEF WriteCsidStatus, LeaveNotOnboarded, Deactivate, MarkActive, WriteEgsStatus
  <2> QED  BY <2>1, MovingKeeps DEF Past
<1>2. CASE CallProvider(o)
  <2>1. /\ phase[o] = "call" /\ UNCHANGED <<secretRef, secrets, kind, seen>>
        /\ \/ UNCHANGED fate /\ \E p \in {"put", "status", "record", "audit"} : phase' = [phase EXCEPT ![o] = p]
           \/ phase' = [phase EXCEPT ![o] = "done"] /\ fate' = [fate EXCEPT ![o] = "error"]
    <3>1. PICK w \in Answers :
            LET v == Verdict(kind[o], w) IN
            /\ verdict' = [verdict EXCEPT ![o] = v]
            /\ CASE v \in {"issued", "not_compliant"} -> Goto(o, "put")
                 [] v = "connected" -> Goto(o, "status")
                 [] kind[o] \in Recorded -> Goto(o, "record")
                 [] kind[o] = "verify" -> Goto(o, "audit")
                 [] OTHER -> Conclusion(o, "error")
      BY <1>2 DEF CallProvider
    <3>2. \/ Goto(o, "put") \/ Goto(o, "status") \/ Goto(o, "record") \/ Goto(o, "audit") \/ Conclusion(o, "error")
      BY <3>1
    <3> QED  BY <1>2, <3>2 DEF CallProvider
  <2> QED  BY <2>1, MovingKeeps DEF Past
<1>3. CASE RecordOperation(o) \/ RecordLifecycle(o)
  <2>1. /\ phase[o] = "record" /\ UNCHANGED <<secretRef, secrets, kind, seen>>
        /\ \/ UNCHANGED fate /\ phase' = [phase EXCEPT ![o] = "audit"]
           \/ phase' = [phase EXCEPT ![o] = "done"] /\ \E f \in {"error", "refused"} : fate' = [fate EXCEPT ![o] = f]
    BY <1>3 DEF RecordOperation, RecordLifecycle
  <2> QED  BY <2>1, MovingKeeps DEF Past
<1>4. CASE AuditStep(o)
  <2>1. /\ phase[o] = "audit" /\ UNCHANGED <<secretRef, secrets, kind, seen>>
        /\ phase' = [phase EXCEPT ![o] = "done"] /\ \E f \in {"error", "ok"} : fate' = [fate EXCEPT ![o] = f]
    BY <1>4 DEF AuditStep
  <2> QED  BY <2>1, MovingKeeps DEF Past
<1>5. CASE AbandonStep(o)
  BY <1>5, MovingKeeps DEF AbandonStep, Past
<1> QED  BY <1>1, <1>2, <1>3, <1>4, <1>5

\* Every step keeps the invariant.
LEMMA OnboardingInvStep == OnboardingInv /\ [OnboardingNext]_onboardingVars => OnboardingInv'
<1>1. OnboardingInv /\ OnboardingNext => OnboardingInv'
  BY BeginKeeps, PutKeeps, CsrKeeps, DropKeeps, PointKeeps, OthersKeep DEF OnboardingNext, OfficeContinue
<1>2. OnboardingInv /\ UNCHANGED onboardingVars => OnboardingInv'
  BY DEF OnboardingInv, onboardingVars, unitvars, officevars, Stored, Past, Taken, Resolves, FitsKey
<1> QED  BY <1>1, <1>2

(***************************************************************************)
(* The unit's pointer leads to a secret, unless a request took that secret *)
(* away and has not moved the pointer yet, or died before it could.        *)
(***************************************************************************)
THEOREM PointerResolvesCorrect == OnboardingSpec => []PointerResolves
<1>1. OnboardingInv => PointerResolves
  BY DEF OnboardingInv, Taken, PointerResolves
<1> QED  BY <1>1, OnboardingInvInit, OnboardingInvStep, PTL DEF OnboardingSpec

(***************************************************************************)
(* A certificate is only ever stored with the key it was issued for.       *)
(***************************************************************************)
THEOREM CertificateFitsKeyCorrect == OnboardingSpec => []CertificateFitsKey
<1>1. OnboardingInv => CertificateFitsKey
  BY DEF OnboardingInv, FitsKey, CertificateFitsKey
<1> QED  BY <1>1, OnboardingInvInit, OnboardingInvStep, PTL DEF OnboardingSpec

\* What the unit may point to: a compliance certificate for the checks is never that.
Pointed == {"csr", "credential"} \cup Confirmations

OwnedInv ==
    /\ DOMAIN csrRows = Officers
    /\ \A o \in Officers : phase[o] \in {"open", "rows"} => kind[o] = "csr"
    /\ secretRef # None => kind[secretRef] \in Pointed
    /\ \A o \in Officers : seen[o].ref # None => kind[seen[o].ref] \in Pointed
    /\ \A o, s \in Officers : s = seen[o].csr => csrRows[s] # "none"
    /\ \A o \in Officers : csrRows[o] # "none" /\ o \notin cleared => secrets[o] # NoSecret
    /\ \A o \in Officers : phase[o] = "record" /\ kind[o] = "compliance_csid" => secrets[o] # NoSecret
    /\ \A l \in lifecycles : /\ l[2] \in Officers /\ Past(l[2]) /\ kind[l[2]] = "compliance_csid"
                             /\ secrets[l[2]] # NoSecret

\* The initial state.
LEMMA OwnedInvInit == OnboardingInit => OwnedInv
  BY AbsentIsNobody DEF OnboardingInit, OwnedInv, Unseen

\* What findCurrentCsrInstance finds has a row.
LEMMA CurrentHasRow ==
  ASSUME NEW s \in Officers, s = CurrentCsr
  PROVE  csrRows[s] # "none"
  BY AbsentIsNobody DEF CurrentCsr, LatestCsr, Live

\* A new request owns nothing yet, and no row speaks of it.
LEMMA BeginOwns ==
  ASSUME NEW o \in Officers, NEW k \in Asked, OnboardingInv, OwnedInv, Begin(o, k)
  PROVE  OwnedInv'
<1> USE DEF OnboardingInv, OwnedInv, Begin, Goto, unitvars, rowvars, Past
<1>1. phase[o] = "idle" /\ phase' = [phase EXCEPT ![o] = FirstPhase(k)] /\ FirstPhase(k) \in {"put", "drop", "status", "call"}
  BY DEF FirstPhase
<1>2. kind' = [kind EXCEPT ![o] = k] /\ UNCHANGED <<secretRef, secrets, begun, csrRows, lifecycles, cleared>>
  OBVIOUS
<1>3. secretRef # o /\ \A x \in Officers : seen[x].ref # o
  BY <1>1, AbsentIsNobody
<1>4. secretRef' # None => kind'[secretRef'] \in Pointed
  BY <1>2, <1>3
<1>5. \A x \in Officers : seen'[x].ref # None => kind'[seen'[x].ref] \in Pointed
  BY <1>2, <1>3
<1>6. \A x, s \in Officers : s = seen'[x].csr => csrRows'[s] # "none"
  BY <1>2, CurrentHasRow
<1>7. \A l \in lifecycles : l[2] # o
  BY <1>1
<1> QED  BY <1>1, <1>2, <1>4, <1>5, <1>6, <1>7

\* A secret is stored under the reference of its own request.
LEMMA PutOwns ==
  ASSUME NEW o \in Officers, OnboardingInv, OwnedInv,
         PutCertificate(o) \/ PutKeyPair(o) \/ PutCredential(o) \/ PutIssued(o)
  PROVE  OwnedInv'
<1> USE DEF OnboardingInv, OwnedInv, Past, Confirmations, Calls
<1>1. /\ phase[o] = "put" /\ UNCHANGED <<secretRef, kind, seen, begun, csrRows, lifecycles, cleared>>
      /\ \E p \in {"drop", "open", "point", "record", "done"} : phase' = [phase EXCEPT ![o] = p]
      /\ phase'[o] = "open" => kind[o] = "csr"
  BY DEF PutCertificate, PutKeyPair, PutCredential, PutIssued, PutToken, Goto, Conclusion, Same, unitvars, rowvars
<1>2. /\ \A x \in Officers : secrets'[x] = secrets[x] \/ (x = o /\ secrets'[x] # NoSecret)
      /\ phase'[o] = "record" => secrets'[o] # NoSecret
  <2>1. CASE PutCertificate(o)
    <3>1. PICK k \in KeysMade :
            IF secrets[seen[o].ref].comparable /\ k = secrets[seen[o].ref].key
            THEN /\ secrets' = [secrets EXCEPT ![o] = [key |-> secrets[seen[o].ref].key, certificate |-> k,
                                                       comparable |-> kind[o] = "confirm_compliance"]]
                 /\ Goto(o, "drop")
            ELSE Conclusion(o, "refused") /\ UNCHANGED secrets
      BY <2>1 DEF PutCertificate
    <3>2. k # None
      BY AbsentIsNobody DEF KeysMade
    <3> QED  BY <3>1, <3>2 DEF NoSecret, Goto, Conclusion
  <2>2. CASE PutKeyPair(o)
    BY <2>2, AbsentIsNobody DEF PutKeyPair, NoSecret
  <2>3. CASE PutCredential(o) \/ PutIssued(o)
    BY <2>3, AbsentIsNobody DEF PutCredential, PutIssued, PutToken, NoSecret
  <2> QED  BY <2>1, <2>2, <2>3
<1> QED  BY <1>1, <1>2

\* A CSR's row comes with its key pair, which is still there.
LEMMA CsrOwns ==
  ASSUME NEW o \in Officers, OnboardingInv, OwnedInv, OpenCsr(o) \/ CommitCsr(o)
  PROVE  OwnedInv'
<1> USE DEF OnboardingInv, OwnedInv, Past
<1>1. CASE OpenCsr(o)
  <2>1. /\ phase[o] = "open" /\ phase' = [phase EXCEPT ![o] = "rows"]
        /\ UNCHANGED <<secretRef, secrets, kind, csrRows, lifecycles, cleared>>
        /\ \A x \in Officers : seen'[x].ref = seen[x].ref /\ (x # o => seen'[x].csr = seen[x].csr)
        /\ seen'[o].csr = CurrentCsr
    BY <1>1 DEF OpenCsr, Goto, unitvars
  <2> QED  BY <2>1, CurrentHasRow
<1>2. CASE CommitCsr(o)
  <2>1. /\ phase[o] = "rows" /\ phase' = [phase EXCEPT ![o] = "audit"] /\ UNCHANGED <<secrets, seen, kind, lifecycles, cleared>>
        /\ secretRef' = o
    BY <1>2 DEF CommitCsr, Goto, Same
  <2>2. secrets[o] # NoSecret /\ kind[o] = "csr"
    BY <2>1 DEF Stored
  <2>3. /\ DOMAIN csrRows' = Officers
        /\ \A s \in Officers : /\ csrRows'[s] # "none" => s = o \/ csrRows[s] # "none"
                               /\ csrRows[s] # "none" => csrRows'[s] # "none"
    BY <1>2 DEF CommitCsr
  <2> QED  BY <2>1, <2>2, <2>3 DEF Pointed
<1> QED  BY <1>1, <1>2

\* What is deleted is what the unit pointed to, and no CSR's unless it was cleared.
LEMMA DropOwns ==
  ASSUME NEW o \in Officers, OnboardingInv, OwnedInv, DropOld(o) \/ DropCleared(o)
  PROVE  OwnedInv'
<1> USE DEF OnboardingInv, OwnedInv, Past
<1>1. /\ phase[o] = "drop" /\ phase' = [phase EXCEPT ![o] = "point"]
      /\ UNCHANGED <<secretRef, seen, kind, csrRows, lifecycles>>
      /\ \A x \in Officers : secrets'[x] = secrets[x] \/ x = seen[o].ref
  BY DEF DropOld, DropCleared, Drop, Goto, Same, unitvars, rowvars
<1>2. \A x \in Officers : csrRows[x] # "none" /\ x \notin cleared' => x \notin cleared /\ secrets'[x] = secrets[x]
  BY AbsentIsNobody DEF DropOld, DropCleared, Drop
<1>3. \A x \in Officers : kind[x] = "compliance_csid" => secrets'[x] = secrets[x]
  BY <1>1, AbsentIsNobody DEF Pointed, Confirmations
<1> QED  BY <1>1, <1>2, <1>3

\* The unit is pointed to what the request has stored, or to nothing.
LEMMA PointOwns ==
  ASSUME NEW o \in Officers, OnboardingInv, OwnedInv, PointUnit(o)
  PROVE  OwnedInv'
<1> USE DEF OnboardingInv, OwnedInv, Past
<1>1. /\ phase[o] = "point" /\ \E p \in {"status", "audit"} : phase' = [phase EXCEPT ![o] = p]
      /\ UNCHANGED <<secrets, seen, kind, csrRows, lifecycles, cleared>>
      /\ secretRef' = IF kind[o] = "clear" THEN None ELSE o
  BY DEF PointUnit, Goto, Same, rowvars
<1>2. secretRef' # None => kind[secretRef'] \in Pointed
  BY <1>1 DEF Pointed
<1> QED  BY <1>1, <1>2

\* The rows of the unit's status, the call of the provider, the records of it, the end.
LEMMA OthersOwn ==
  ASSUME NEW o \in Officers, OnboardingInv, OwnedInv,
         \/ WriteCsidStatus(o) \/ LeaveNotOnboarded(o) \/ Deactivate(o) \/ MarkActive(o) \/ CallProvider(o)
         \/ RecordOperation(o) \/ RecordLifecycle(o) \/ AuditStep(o) \/ AbandonStep(o)
  PROVE  OwnedInv'
<1> USE DEF OnboardingInv, OwnedInv, Past, Goto, Conclusion, Same, unitvars, rowvars
<1>1. CASE WriteCsidStatus(o) \/ LeaveNotOnboarded(o) \/ Deactivate(o) \/ MarkActive(o)
  BY <1>1 DEF WriteCsidStatus, LeaveNotOnboarded, Deactivate, MarkActive, WriteEgsStatus
<1>2. CASE CallProvider(o)
  <2>1. /\ phase[o] = "call" /\ UNCHANGED <<secretRef, secrets, kind, seen, csrRows, lifecycles, cleared>>
        /\ \E p \in {"put", "status", "record", "audit", "done"} :
             phase' = [phase EXCEPT ![o] = p] /\ (p = "record" => kind[o] \in Recorded)
    <3>1. PICK w \in Answers :
            LET v == Verdict(kind[o], w) IN
            /\ verdict' = [verdict EXCEPT ![o] = v]
            /\ CASE v \in {"issued", "not_compliant"} -> Goto(o, "put")
                 [] v = "connected" -> Goto(o, "status")
                 [] kind[o] \in Recorded -> Goto(o, "record")
                 [] kind[o] = "verify" -> Goto(o, "audit")
                 [] OTHER -> Conclusion(o, "error")
      BY <1>2 DEF CallProvider
    <3>2. CASE kind[o] \in Recorded
      BY <1>2, <3>1, <3>2 DEF CallProvider
    <3>3. CASE kind[o] \notin Recorded
      <4>1. Goto(o, "put") \/ Goto(o, "status") \/ Goto(o, "audit") \/ Conclusion(o, "error")
        BY <3>1, <3>3
      <4> QED  BY <1>2, <4>1 DEF CallProvider
    <3> QED  BY <3>2, <3>3
  <2> QED  BY <2>1 DEF Recorded
<1>3. CASE RecordLifecycle(o)
  <2>1. /\ phase[o] = "record" /\ kind[o] = "compliance_csid" /\ UNCHANGED <<secretRef, secrets, kind, seen, csrRows, cleared>>
        /\ \E p \in {"audit", "done"} : phase' = [phase EXCEPT ![o] = p]
        /\ lifecycles' \subseteq lifecycles \cup {<<seen[o].csr, o>>}
    BY <1>3 DEF RecordLifecycle
  <2> QED  BY <2>1
<1>4. CASE RecordOperation(o) \/ AuditStep(o) \/ AbandonStep(o)
  <2>1. /\ phase[o] # "idle" /\ UNCHANGED <<secretRef, secrets, kind, seen, csrRows, lifecycles, cleared>>
        /\ \E p \in {"audit", "done"} : phase' = [phase EXCEPT ![o] = p]
    BY <1>4 DEF RecordOperation, AuditStep, AbandonStep
  <2> QED  BY <2>1
<1> QED  BY <1>1, <1>2, <1>3, <1>4

\* Every step keeps the invariant.
LEMMA OwnedInvStep == OnboardingInv /\ OwnedInv /\ [OnboardingNext]_onboardingVars => OwnedInv'
<1>1. OnboardingInv /\ OwnedInv /\ OnboardingNext => OwnedInv'
  BY BeginOwns, PutOwns, CsrOwns, DropOwns, PointOwns, OthersOwn DEF OnboardingNext, OfficeContinue
<1>2. OwnedInv /\ UNCHANGED onboardingVars => OwnedInv'
  BY DEF OwnedInv, onboardingVars, unitvars, rowvars, officevars, Past
<1> QED  BY <1>1, <1>2

(***************************************************************************)
(* The key pair of a CSR and the certificate of a compliance lifecycle are *)
(* never lost, unless the owner cleared that very one.                     *)
(***************************************************************************)
THEOREM OwnedSecretsStayCorrect == OnboardingSpec => []OwnedSecretsStay
<1>1. OnboardingInv /\ OwnedInv /\ [OnboardingNext]_onboardingVars => (OnboardingInv /\ OwnedInv)'
  BY OnboardingInvStep, OwnedInvStep
<1>2. OwnedInv => OwnedSecretsStay
  BY AbsentIsNobody DEF OwnedInv, OwnedSecretsStay, Resolves
<1> QED  BY <1>1, <1>2, OnboardingInvInit, OwnedInvInit, PTL DEF OnboardingSpec

\* A request of a recorded kind comes to its end over its row.
CallInv ==
    /\ DOMAIN verdict = Officers
    /\ \A o \in Officers : phase[o] # "done" => fate[o] = "nothing"
    /\ \A o \in Officers : phase[o] \in {"open", "rows"} => kind[o] = "csr"
    /\ \A o \in Officers : kind[o] \in Recorded /\ (phase[o] = "audit" \/ fate[o] \in {"ok", "error"})
                             => <<o, verdict[o]>> \in operations

\* The initial state.
LEMMA CallInvInit == OnboardingInit => CallInv
  BY DEF OnboardingInit, CallInv

\* An operation is recorded on the only way from the answer of the provider to the end of the request.
LEMMA CallInvStep == OnboardingInv /\ CallInv /\ [OnboardingNext]_onboardingVars => CallInv'
<1> SUFFICES ASSUME OnboardingInv, CallInv, [OnboardingNext]_onboardingVars PROVE CallInv'
  OBVIOUS
<1> USE DEF OnboardingInv, CallInv, Goto, Conclusion, Same, unitvars, rowvars, Recorded, Confirmations
<1>1. ASSUME NEW o \in Officers, \E k \in Asked : Begin(o, k) PROVE CallInv'
  <2>1. \E p \in {"put", "drop", "status", "call"} : phase' = [phase EXCEPT ![o] = p]
    BY <1>1 DEF Begin, FirstPhase
  <2> QED  BY <1>1, <2>1 DEF Begin
<1>2. ASSUME NEW o \in Officers, PutCertificate(o) PROVE CallInv'
  <2>1. /\ phase[o] = "put" /\ UNCHANGED <<kind, verdict, operations>>
        /\ \/ phase' = [phase EXCEPT ![o] = "drop"] /\ UNCHANGED fate
           \/ phase' = [phase EXCEPT ![o] = "done"] /\ fate' = [fate EXCEPT ![o] = "refused"]
    BY <1>2 DEF PutCertificate
  <2> QED  BY <2>1
<1>3. ASSUME NEW o \in Officers, PutKeyPair(o) \/ PutCredential(o) \/ PutIssued(o) PROVE CallInv'
  BY <1>3 DEF PutKeyPair, PutCredential, PutIssued, PutToken
<1>4. ASSUME NEW o \in Officers, OpenCsr(o) \/ CommitCsr(o) PROVE CallInv'
  BY <1>4 DEF OpenCsr, CommitCsr
<1>5. ASSUME NEW o \in Officers, DropOld(o) \/ DropCleared(o) \/ PointUnit(o) PROVE CallInv'
  BY <1>5 DEF DropOld, DropCleared, Drop, PointUnit
<1>6. ASSUME NEW o \in Officers, WriteCsidStatus(o) \/ LeaveNotOnboarded(o) \/ Deactivate(o) \/ MarkActive(o) PROVE CallInv'
  BY <1>6 DEF WriteCsidStatus, LeaveNotOnboarded, Deactivate, MarkActive, WriteEgsStatus
<1>7. ASSUME NEW o \in Officers, CallProvider(o) PROVE CallInv'
  <2>1. PICK w \in Answers :
          LET v == Verdict(kind[o], w) IN
          /\ verdict' = [verdict EXCEPT ![o] = v]
          /\ CASE v \in {"issued", "not_compliant"} -> Goto(o, "put")
               [] v = "connected" -> Goto(o, "status")
               [] kind[o] \in Recorded -> Goto(o, "record")
               [] kind[o] = "verify" -> Goto(o, "audit")
               [] OTHER -> Conclusion(o, "error")
    BY <1>7 DEF CallProvider
  <2>2. phase[o] = "call" /\ UNCHANGED <<kind, operations>>
    BY <1>7 DEF CallProvider
  <2>3. \E x : verdict' = [verdict EXCEPT ![o] = x]
    BY <2>1
  <2>4. CASE kind[o] \in Recorded
    <3>1. \E p \in {"put", "status", "record"} : phase' = [phase EXCEPT ![o] = p] /\ UNCHANGED fate
      BY <2>1, <2>4
    <3> QED  BY <2>2, <2>3, <3>1
  <2>5. CASE kind[o] \notin Recorded
    <3>1. Goto(o, "put") \/ Goto(o, "status") \/ Goto(o, "audit") \/ Conclusion(o, "error")
      BY <2>1, <2>5
    <3> QED  BY <2>2, <2>3, <2>5, <3>1
  <2> QED  BY <2>4, <2>5
<1>8. ASSUME NEW o \in Officers, RecordOperation(o) PROVE CallInv'
  BY <1>8 DEF RecordOperation
<1>9. ASSUME NEW o \in Officers, RecordLifecycle(o) PROVE CallInv'
  BY <1>9 DEF RecordLifecycle
<1>10. ASSUME NEW o \in Officers, AuditStep(o) PROVE CallInv'
  BY <1>10 DEF AuditStep
<1>11. ASSUME NEW o \in Officers, AbandonStep(o) PROVE CallInv'
  BY <1>11 DEF AbandonStep
<1>12. CASE UNCHANGED onboardingVars
  BY <1>12 DEF onboardingVars, officevars
<1> QED  BY <1>1, <1>2, <1>3, <1>4, <1>5, <1>6, <1>7, <1>8, <1>9, <1>10, <1>11, <1>12 DEF OnboardingNext, OfficeContinue

(***************************************************************************)
(* An owner is never told of an invoice check or a production certificate, *)
(* good or bad, without the row that says what ZATCA answered.             *)
(***************************************************************************)
THEOREM EveryCallRecordedCorrect == OnboardingSpec => []EveryCallRecorded
<1>1. OnboardingInv /\ CallInv /\ [OnboardingNext]_onboardingVars => (OnboardingInv /\ CallInv)'
  BY OnboardingInvStep, CallInvStep
<1>2. CallInv => EveryCallRecorded
  BY DEF CallInv, EveryCallRecorded
<1> QED  BY <1>1, <1>2, OnboardingInvInit, CallInvInit, PTL DEF OnboardingSpec

=============================================================================
