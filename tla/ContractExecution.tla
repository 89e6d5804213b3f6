-------------------------- MODULE ContractExecution --------------------------
(***************************************************************************)
(* The execution activity of one contract: its status                      *)
(* (server/src/routes/contracts.ts), its BOQ revisions with their items    *)
(* and publication (routes/boq.ts), and the creation of owner IPCs         *)
(* (routes/ipcs.ts) and measurements (routes/measurements.ts) on them.     *)
(*                                                                         *)
(* A request first reads without locks, one SELECT at a time, then runs a  *)
(* transaction.  Those that number a document or publish a revision lock   *)
(* the contract's row first; what they write is seen by others at COMMIT.  *)
(* A transaction that only waits for one row is one action.  Ids of rows   *)
(* are model values, taken from a finite supply.                           *)
(***************************************************************************)
EXTENDS Naturals, FiniteSets

CONSTANTS
  Revisions, Ipcs, Measurements,   \* ids for rows
  Items,                           \* lines a revision can have
  Requests,
  None

Kinds == {"revision", "ipc", "measurement", "publish", "items"}

ASSUME RowsAssumption ==
  /\ IsFiniteSet(Revisions) /\ IsFiniteSet(Ipcs)
  /\ Revisions \cap Ipcs = {} /\ Revisions \cap Measurements = {} /\ Ipcs \cap Measurements = {}
ASSUME NoneAssumption ==
  None \notin Requests \cup Revisions \cup Ipcs \cup Measurements \cup Kinds

VARIABLES
  status,       \* contracts.status
  revStatus,    \* boq_revisions.status, "absent" before the row exists
  number,       \* revision_number and ipc_number, 0 before the row exists
  supersedes,   \* supersedesRevisionId
  items,        \* boq_items of each revision
  onRevision,   \* boq_revision_id of each IPC and measurement
  contractLock, \* the transaction that holds the contract's row
  revLock,      \* those that have updated a revision's row
  pc, kind,     \* where each request is, and what it does
  target,       \* the row it inserts or updates
  base,         \* the published revision it has read
  num,          \* the number its INSERT has computed
  replaced      \* the revisions its publication has superseded

tableVars == <<status, revStatus, number, supersedes, items, onRevision>>
lockVars == <<contractLock, revLock>>
reqVars == <<pc, kind, target, base, num, replaced>>
vars == <<status, revStatus, number, supersedes, items, onRevision, contractLock, revLock, pc, kind, target, base, num, replaced>>

Numbered == Revisions \cup Ipcs
Dependent == Ipcs \cup Measurements

CONTRACT_STATUS_TRANSITIONS ==
  {<<"draft", "active">>, <<"active", "completed">>, <<"active", "terminated">>}
CONTRACT_EXECUTION_BLOCKED_STATUSES == {"completed", "terminated"}

Blocked == status \in CONTRACT_EXECUTION_BLOCKED_STATUSES

\* The table a request of each kind inserts into.
Rows(k) == IF k = "revision" THEN Revisions ELSE IF k = "ipc" THEN Ipcs ELSE Measurements

Existing(rows) == {x \in rows : number[x] # 0}
Taken(rows) == {number[x] : x \in Existing(rows)}
Published == {v \in Revisions : revStatus[v] = "published"}
Issued == {v \in Revisions : revStatus[v] \in {"published", "superseded"}}

TypeOK ==
  /\ status \in {"draft", "active"} \cup CONTRACT_EXECUTION_BLOCKED_STATUSES
  /\ revStatus \in [Revisions -> {"absent", "draft", "published", "superseded"}]
  /\ number \in [Numbered -> Nat]
  /\ supersedes \in [Revisions -> Revisions \cup {None}]
  /\ items \in [Revisions -> SUBSET Items]
  /\ onRevision \in [Dependent -> Revisions \cup {None}]
  /\ contractLock \in Requests \cup {None}
  /\ revLock \in [Revisions -> Requests \cup {None}]
  /\ pc \in [Requests -> {"idle", "revision", "begin", "insert", "publish", "supersede", "commit"}]
  /\ kind \in [Requests -> Kinds \cup {None}]
  /\ target \in [Requests -> Numbered \cup {None}]
  /\ base \in [Requests -> Revisions \cup {None}]
  /\ num \in [Requests -> Nat]
  /\ replaced \in [Requests -> SUBSET Revisions]

Init ==
  /\ status = "draft"
  /\ revStatus = [v \in Revisions |-> "absent"]
  /\ number = [x \in Numbered |-> 0]
  /\ supersedes = [v \in Revisions |-> None]
  /\ items = [v \in Revisions |-> {}]
  /\ onRevision = [d \in Dependent |-> None]
  /\ contractLock = None
  /\ revLock = [v \in Revisions |-> None]
  /\ pc = [r \in Requests |-> "idle"]
  /\ kind = [r \in Requests |-> None]
  /\ target = [r \in Requests |-> None]
  /\ base = [r \in Requests |-> None]
  /\ num = [r \in Requests |-> 0]
  /\ replaced = [r \in Requests |-> {}]

-----------------------------------------------------------------------------
(* PATCH /contracts/:contractId, its transition re-checked under the lock. *)

PatchContract ==
  /\ contractLock = None
  /\ \E new \in {"active", "completed", "terminated"} :
       /\ <<status, new>> \in CONTRACT_STATUS_TRANSITIONS
       /\ status' = new
  /\ UNCHANGED <<revStatus, number, supersedes, items, onRevision, lockVars, reqVars>>

-----------------------------------------------------------------------------
(* The reads before the transaction.                                       *)

Goto(r, label) == pc' = [pc EXCEPT ![r] = label]

\* findFirst of the contract and the check of its status.
ReadContract(r, k) ==
  /\ pc[r] = "idle"
  /\ ~Blocked
  /\ kind' = [kind EXCEPT ![r] = k]
  /\ Goto(r, IF k = "revision" THEN "begin" ELSE "revision")
  /\ UNCHANGED <<tableVars, lockVars, target, base, num, replaced>>

\* findFirst of the published revision an IPC or a measurement is based on.
ReadRevision(r) ==
  /\ pc[r] = "revision"
  /\ \E v \in Published : base' = [base EXCEPT ![r] = v]
  /\ Goto(r, "begin")
  /\ UNCHANGED <<tableVars, lockVars, kind, target, num, replaced>>

\* findOwnedRevision, before a publication or (a draft) an edit of its items.
ReadTarget(r, k, v) ==
  /\ pc[r] = "idle"
  /\ revStatus[v] # "absent" /\ (k = "items" => revStatus[v] = "draft")
  /\ kind' = [kind EXCEPT ![r] = k]
  /\ target' = [target EXCEPT ![r] = v]
  /\ Goto(r, "begin")
  /\ UNCHANGED <<tableVars, lockVars, base, num, replaced>>

-----------------------------------------------------------------------------
(* Transactions that lock the contract.                                    *)

Leave(r) ==
  /\ Goto(r, "idle")
  /\ kind' = [kind EXCEPT ![r] = None]
  /\ target' = [target EXCEPT ![r] = None]
  /\ base' = [base EXCEPT ![r] = None]
  /\ num' = [num EXCEPT ![r] = 0]
  /\ replaced' = [replaced EXCEPT ![r] = {}]

\* COMMIT or ROLLBACK.
EndTransaction(r) ==
  /\ contractLock' = (IF contractLock = r THEN None ELSE contractLock)
  /\ revLock' = [v \in Revisions |-> IF revLock[v] = r THEN None ELSE revLock[v]]
  /\ Leave(r)

\* Mutant: the contract's row is not locked.
LockNothing(r) ==
  /\ pc[r] = "begin" /\ kind[r] \in {"revision", "ipc", "publish"}
  /\ ~(kind[r] = "publish" /\ Blocked)
  /\ Goto(r, IF kind[r] = "publish" THEN "publish" ELSE "insert")
  /\ UNCHANGED <<tableVars, lockVars, kind, target, base, num, replaced>>

\* Mutant: a publication trusts the status of the contract it has been
\* created under.
LockContractUnchecked(r) ==
  /\ pc[r] = "begin" /\ kind[r] \in {"revision", "ipc", "publish"}
  /\ contractLock = None
  /\ contractLock' = r
  /\ Goto(r, IF kind[r] = "publish" THEN "publish" ELSE "insert")
  /\ UNCHANGED <<tableVars, revLock, kind, target, base, num, replaced>>

\* SELECT ... FOR UPDATE.  Only a publication looks at the status again.
LockContract(r) ==
  /\ pc[r] = "begin" /\ kind[r] \in {"revision", "ipc", "publish"}
  /\ contractLock = None
  /\ \/ /\ kind[r] = "publish" /\ Blocked
        /\ Leave(r)
        /\ UNCHANGED lockVars
     \/ /\ ~(kind[r] = "publish" /\ Blocked)
        /\ contractLock' = r
        /\ Goto(r, IF kind[r] = "publish" THEN "publish" ELSE "insert")
        /\ UNCHANGED <<revLock, kind, target, base, num, replaced>>
  /\ UNCHANGED tableVars

\* COALESCE(MAX(number), 0) + 1 over the committed rows.
NextNumber(rows) ==
  1 + CHOOSE n \in Taken(rows) \cup {0} : \A m \in Taken(rows) : m <= n

Unused(rows) == {x \in rows \ Existing(rows) : \A r \in Requests : target[r] # x}

\* INSERT ... SELECT.
InsertNumbered(r) ==
  /\ pc[r] = "insert"
  /\ \E x \in Unused(Rows(kind[r])) : target' = [target EXCEPT ![r] = x]
  /\ num' = [num EXCEPT ![r] = NextNumber(Rows(kind[r]))]
  /\ Goto(r, "commit")
  /\ UNCHANGED <<tableVars, lockVars, kind, base, replaced>>

CommitInsert(r) ==
  LET x == target[r] IN
  /\ pc[r] = "commit" /\ kind[r] \in {"revision", "ipc"}
  /\ number' = [number EXCEPT ![x] = num[r]]
  /\ \/ /\ kind[r] = "revision"
        /\ revStatus' = [revStatus EXCEPT ![x] = "draft"]
        /\ UNCHANGED onRevision
     \/ /\ kind[r] = "ipc"
        /\ onRevision' = [onRevision EXCEPT ![x] = base[r]]
        /\ UNCHANGED revStatus
  /\ EndTransaction(r)
  /\ UNCHANGED <<status, supersedes, items>>

\* UPDATE ... WHERE status = 'draft'.
PublishRow(r) ==
  LET v == target[r] IN
  /\ pc[r] = "publish"
  /\ revLock[v] = None
  /\ \/ /\ revStatus[v] = "draft"
        /\ revLock' = [revLock EXCEPT ![v] = r]
        /\ Goto(r, "supersede")
        /\ UNCHANGED <<contractLock, kind, target, base, num, replaced>>
     \/ /\ revStatus[v] # "draft"
        /\ EndTransaction(r)
  /\ UNCHANGED tableVars

\* UPDATE of every other published revision of the contract.
Supersede(r) ==
  LET others == Published \ {target[r]} IN
  /\ pc[r] = "supersede"
  /\ \A v \in others : revLock[v] = None
  /\ revLock' = [v \in Revisions |-> IF v \in others THEN r ELSE revLock[v]]
  /\ replaced' = [replaced EXCEPT ![r] = others]
  /\ Goto(r, "commit")
  /\ UNCHANGED <<tableVars, contractLock, kind, target, base, num>>

\* The predecessor recorded is one of those replaced (the latest of them).
CommitPublish(r) ==
  LET v == target[r] IN
  /\ pc[r] = "commit" /\ kind[r] = "publish"
  /\ revStatus' = [w \in Revisions |->
                     IF w = v THEN "published"
                     ELSE IF w \in replaced[r] THEN "superseded" ELSE revStatus[w]]
  /\ \/ /\ replaced[r] = {}
        /\ UNCHANGED supersedes
     \/ \E w \in replaced[r] : supersedes' = [supersedes EXCEPT ![v] = w]
  /\ EndTransaction(r)
  /\ UNCHANGED <<status, number, items, onRevision>>

-----------------------------------------------------------------------------
(* Transactions that wait for one row and do not keep it.                  *)

\* The foreign key of the new row waits for the contract's row.
CreateMeasurement(r) ==
  /\ pc[r] = "begin" /\ kind[r] = "measurement"
  /\ contractLock = None
  /\ \E m \in {x \in Measurements : onRevision[x] = None} :
       onRevision' = [onRevision EXCEPT ![m] = base[r]]
  /\ Leave(r)
  /\ UNCHANGED <<status, revStatus, number, supersedes, items, lockVars>>

\* Mutant: the status read before the transaction is trusted.
EditItemsUnchecked(r) ==
  LET v == target[r] IN
  /\ pc[r] = "begin" /\ kind[r] = "items"
  /\ revLock[v] = None
  /\ \E i \in Items :
       \/ items' = [items EXCEPT ![v] = @ \cup {i}]
       \/ items' = [items EXCEPT ![v] = @ \ {i}]
  /\ Leave(r)
  /\ UNCHANGED <<status, revStatus, number, supersedes, onRevision, lockVars>>

\* Adding or deleting an item: SELECT ... FOR UPDATE of the revision, which
\* waits for a publication that has updated it, and the check of its status.
EditItems(r) ==
  LET v == target[r] IN
  /\ pc[r] = "begin" /\ kind[r] = "items"
  /\ revLock[v] = None
  /\ \/ /\ revStatus[v] = "draft"
        /\ \E i \in Items :
             \/ items' = [items EXCEPT ![v] = @ \cup {i}]
             \/ items' = [items EXCEPT ![v] = @ \ {i}]
     \/ /\ revStatus[v] # "draft"
        /\ UNCHANGED items
  /\ Leave(r)
  /\ UNCHANGED <<status, revStatus, number, supersedes, onRevision, lockVars>>

\* The process dies, a check or a statement fails.
Abort(r) ==
  /\ pc[r] # "idle"
  /\ EndTransaction(r)
  /\ UNCHANGED tableVars

Step(r) ==
  \/ \E k \in {"revision", "ipc", "measurement"} : ReadContract(r, k)
  \/ ReadRevision(r)
  \/ \E k \in {"publish", "items"}, v \in Revisions : ReadTarget(r, k, v)
  \/ LockContract(r) \/ InsertNumbered(r) \/ CommitInsert(r)
  \/ PublishRow(r) \/ Supersede(r) \/ CommitPublish(r)
  \/ CreateMeasurement(r) \/ EditItems(r)
  \/ Abort(r)

Next == PatchContract \/ \E r \in Requests : Step(r)

Spec == Init /\ [][Next]_vars

-----------------------------------------------------------------------------
(* Properties.                                                             *)

\* "a contract has at most one published BOQ revision current at a time",
\* whichever drafts are published at the same moment.
OnePublished == Cardinality(Published) <= 1

Inserted(rows) == {r \in Requests : pc[r] = "commit" /\ target[r] \in rows /\ kind[r] # "publish"}

NumbersOf(rows) ==
  /\ Taken(rows) = 1..Cardinality(Existing(rows))
  /\ \A r, s \in Inserted(rows) : r = s /\ num[r] = Cardinality(Existing(rows)) + 1

\* The revisions and the IPCs of a contract are numbered 1, 2, 3, ... without
\* gap or duplicate, also when transactions are rolled back, and the unique
\* index on the number never refuses a row: two concurrent requests "can never
\* be handed the same revision number".
NumbersSequential == NumbersOf(Revisions) /\ NumbersOf(Ipcs)

HistoryExtended ==
  \A v \in Revisions :
    /\ v \in Issued => supersedes'[v] = supersedes[v] /\ v \in Issued'
    /\ revStatus[v] = "superseded" => revStatus'[v] = "superseded"
    /\ v \in Issued' \ Issued =>
         /\ revStatus'[v] = "published"
         /\ \/ Issued = {} /\ supersedes'[v] = None
            \/ Published = {supersedes'[v]}

\* The issued revisions are one chain that only grows: each publication names
\* as its predecessor the revision that was published until then, and nothing
\* already issued is reopened or linked anew ("never overwrite BOQ history").
HistoryOnlyGrows == [][HistoryExtended]_vars

ItemsKept == \A v \in Issued' : items'[v] = items[v]

\* The items of a revision are those it was published with, although edits
\* check the status of the revision before they run.
PublishedItemsFixed == [][ItemsKept]_vars

NothingIssued == Blocked => Issued' = Issued

\* "a contract that just moved to completed/terminated ... must not gain a
\* newly-published revision".
NoPublishAfterEnd == [][NothingIssued]_vars

NothingCreated ==
  Blocked =>
    /\ \A x \in Numbered : number'[x] = number[x]
    /\ \A d \in Dependent : onRevision'[d] = onRevision[d]

\* "a contract that is completed or terminated must not accept new execution
\* activity": no revision, IPC or measurement is created on it.
NoActivityAfterEnd == [][NothingCreated]_vars

-----------------------------------------------------------------------------
(* Inductive invariants, for the proofs.                                   *)

Locked == {"insert", "publish", "supersede", "commit"}

\* What a request knows once it holds the contract's row: the number it has
\* computed is still the next one, its revision still a draft, and the
\* revisions it replaces are still those published.
HoldsContract(r) ==
  /\ pc[r] \in Locked => contractLock = r
  /\ pc[r] = "insert" => kind[r] \in {"revision", "ipc"}
  /\ pc[r] \in {"publish", "supersede"} => kind[r] = "publish"
  /\ pc[r] = "commit" => kind[r] \in {"revision", "ipc", "publish"}
  /\ kind[r] \in {"publish", "items"} =>
       target[r] \in Revisions /\ revStatus[target[r]] # "absent"
  /\ kind[r] = "publish" /\ pc[r] \in Locked => ~Blocked
  /\ kind[r] = "publish" /\ pc[r] \in {"supersede", "commit"} => revStatus[target[r]] = "draft"
  /\ kind[r] = "publish" /\ pc[r] = "commit" => replaced[r] = Published
  /\ kind[r] \in {"revision", "ipc"} /\ pc[r] = "commit" =>
       /\ target[r] \in Rows(kind[r]) \ Existing(Rows(kind[r]))
       /\ num[r] = Cardinality(Existing(Rows(kind[r]))) + 1

LocksInv == \A r \in Requests : HoldsContract(r)

RevisionsInv ==
  /\ \A v \in Revisions : number[v] = 0 <=> revStatus[v] = "absent"
  /\ \A v \in Revisions \ Issued : supersedes[v] = None
  /\ \A v, w \in Published : v = w
  /\ Issued # {} => Published # {}

NumbersInv ==
  /\ Taken(Revisions) = 1..Cardinality(Existing(Revisions))
  /\ Taken(Ipcs) = 1..Cardinality(Existing(Ipcs))

=============================================================================
