-------------------------- MODULE CertificationLedger --------------------------
(***************************************************************************)
(* The quantities of one contract's BOQ revision: measurements, whose      *)
(* approval adds to what is approved of a BOQ item, and owner IPCs, whose  *)
(* certification claims a part of it (server/src/routes/measurements.ts,   *)
(* routes/ipcs.ts).  Both decisions are transactions that lock the         *)
(* document, then (an IPC) the contract, then the BOQ items in the order   *)
(* of their ids, and only then compare sums of rows of other documents.    *)
(*                                                                         *)
(* Quantities are counted in lines of one unit, a larger quantity being    *)
(* several lines.  Nothing is ever stored of a sum: Approved and Certified *)
(* are the queries of sumApprovedQuantity and certifyIpc.  A transaction   *)
(* that only ever touches one row it has locked is one action; it blocks   *)
(* while a decision holds that row.                                        *)
(***************************************************************************)
EXTENDS Naturals, FiniteSets

CONSTANTS
  Measurements, Ipcs,   \* documents
  Items,                \* ids of the revision's BOQ items
  Quantity,             \* [Items -> Nat]: the quantity of each
  MaxLines,             \* bound on the lines of a document for one item
  Requests,             \* requests that take decisions or add IPC lines
  Retentions,           \* values of the contract's retentionPercent
  None

ASSUME ItemsAssumption == Items \subseteq Nat /\ IsFiniteSet(Items)
ASSUME QuantityAssumption == Quantity \in [Items -> Nat]
ASSUME DocumentsAssumption ==
  /\ IsFiniteSet(Measurements) /\ IsFiniteSet(Ipcs) /\ Measurements \cap Ipcs = {}
ASSUME BoundAssumption == MaxLines \in Nat
ASSUME NoneAssumption == None \notin Requests \cup Retentions \cup Measurements \cup Ipcs \cup Items

Documents == Measurements \cup Ipcs

VARIABLES
  status,       \* of each document
  lines,        \* number of its lines for each item
  previous,     \* previousCertifiedQuantity of an IPC's lines for each item
  frozenRate,   \* retentionPercent its retentionAmount was computed with
  retention,    \* contracts.retentionPercent
  docLock, contractLock, itemLock,   \* transactions that hold the rows
  rpc,          \* where each request is
  doc,          \* the document it is about
  todo,         \* the items its decision has yet to lock
  before,       \* alreadyCertifiedQty of each item its decision has locked
  rate,         \* retentionPercent it read
  item          \* the item of the IPC line it adds

docVars == <<status, lines, previous, frozenRate>>
lockVars == <<docLock, contractLock, itemLock>>
reqVars == <<rpc, doc, todo, before, rate, item>>
vars == <<status, lines, previous, frozenRate, retention, docLock, contractLock, itemLock, rpc, doc, todo, before, rate, item>>

EDITABLE_STATUSES == {"draft", "rejected"}

Approved == {m \in Measurements : status[m] = "approved"}
Certified == {c \in Ipcs : status[c] = "certified"}

\* The units of an item in the lines of the documents of S: a SUM counts them.
Units(S, i) == {u \in S \X (1..MaxLines) : u[2] <= lines[u[1]][i]}

sumApprovedQuantity(i) == Cardinality(Units(Approved, i))

certifiedQuantity(i) == Cardinality(Units(Certified, i))

Deciding == {"contract", "items"}

TypeOK ==
  /\ status \in [Documents -> EDITABLE_STATUSES \cup {"submitted", "approved", "certified"}]
  /\ lines \in [Documents -> [Items -> 0..MaxLines]]
  /\ previous \in [Ipcs -> [Items -> Nat]]
  /\ frozenRate \in [Ipcs -> Retentions \cup {None}]
  /\ retention \in Retentions
  /\ docLock \in [Documents -> Requests \cup {None}]
  /\ contractLock \in Requests \cup {None}
  /\ itemLock \in [Items -> Requests \cup {None}]
  /\ rpc \in [Requests -> {"idle", "lock", "insert"} \cup Deciding]
  /\ doc \in [Requests -> Documents \cup {None}]
  /\ todo \in [Requests -> SUBSET Items]
  /\ before \in [Requests -> [Items -> Nat]]
  /\ rate \in [Requests -> Retentions \cup {None}]
  /\ item \in [Requests -> Items \cup {None}]

Init ==
  /\ status = [d \in Documents |-> "draft"]
  /\ lines = [d \in Documents |-> [i \in Items |-> 0]]
  /\ previous = [c \in Ipcs |-> [i \in Items |-> 0]]
  /\ frozenRate = [c \in Ipcs |-> None]
  /\ retention \in Retentions
  /\ docLock = [d \in Documents |-> None]
  /\ contractLock = None
  /\ itemLock = [i \in Items |-> None]
  /\ rpc = [r \in Requests |-> "idle"]
  /\ doc = [r \in Requests |-> None]
  /\ todo = [r \in Requests |-> {}]
  /\ before = [r \in Requests |-> [i \in Items |-> 0]]
  /\ rate = [r \in Requests |-> None]
  /\ item = [r \in Requests |-> None]

-----------------------------------------------------------------------------
(* Transactions on one document.                                           *)

Editable(d) == status[d] \in EDITABLE_STATUSES /\ docLock[d] = None

SetStatus(d, st) ==
  /\ status' = [status EXCEPT ![d] = st]
  /\ UNCHANGED <<lines, previous, frozenRate, retention, lockVars, reqVars>>

\* The foreign key of the new line also needs the item's row not to be locked
\* FOR UPDATE.
AddMeasurementLine(m, i) ==
  /\ Editable(m) /\ itemLock[i] = None
  /\ lines[m][i] < MaxLines
  /\ lines' = [lines EXCEPT ![m][i] = @ + 1]
  /\ UNCHANGED <<status, previous, frozenRate, retention, lockVars, reqVars>>

DeleteLine(d, i) ==
  /\ Editable(d)
  /\ lines[d][i] > 0
  /\ lines' = [lines EXCEPT ![d][i] = @ - 1]
  /\ UNCHANGED <<status, previous, frozenRate, retention, lockVars, reqVars>>

Submit(d) ==
  /\ Editable(d)
  /\ \E i \in Items : lines[d][i] > 0
  /\ SetStatus(d, "submitted")

Reject(d) ==
  /\ status[d] = "submitted" /\ docLock[d] = None
  /\ SetStatus(d, "rejected")

ApproveIpc(c) ==
  /\ status[c] = "submitted" /\ docLock[c] = None
  /\ SetStatus(c, "approved")

\* PATCH /contracts/:contractId with a retentionPercent.
PatchContract ==
  /\ contractLock = None
  /\ \E x \in Retentions \ {retention} : retention' = x
  /\ UNCHANGED <<docVars, lockVars, reqVars>>

-----------------------------------------------------------------------------
(* POST /ipcs/:ipcId/items: the certifiable remainder is compared before   *)
(* the transaction, and not again in it.                                   *)

Goto(r, label) == rpc' = [rpc EXCEPT ![r] = label]

CheckRemaining(r, c, i) ==
  /\ rpc[r] = "idle"
  /\ status[c] \in EDITABLE_STATUSES
  /\ lines[c][i] < MaxLines
  /\ certifiedQuantity(i) + 1 <= sumApprovedQuantity(i)
  /\ doc' = [doc EXCEPT ![r] = c]
  /\ item' = [item EXCEPT ![r] = i]
  /\ Goto(r, "insert")
  /\ UNCHANGED <<docVars, retention, lockVars, todo, before, rate>>

Leave(r) ==
  /\ Goto(r, "idle")
  /\ doc' = [doc EXCEPT ![r] = None]
  /\ todo' = [todo EXCEPT ![r] = {}]
  /\ before' = [before EXCEPT ![r] = [i \in Items |-> 0]]
  /\ rate' = [rate EXCEPT ![r] = None]
  /\ item' = [item EXCEPT ![r] = None]

InsertIpcLine(r) ==
  LET c == doc[r]
      i == item[r] IN
  /\ rpc[r] = "insert"
  /\ docLock[c] = None /\ itemLock[i] = None
  /\ lines' = (IF status[c] \in EDITABLE_STATUSES /\ lines[c][i] < MaxLines
                 THEN [lines EXCEPT ![c][i] = @ + 1] ELSE lines)
  /\ Leave(r)
  /\ UNCHANGED <<status, previous, frozenRate, retention, lockVars>>

-----------------------------------------------------------------------------
(* The decisions: approve a measurement, certify an IPC.                   *)

ReadDocument(r, d) ==
  /\ rpc[r] = "idle"
  /\ doc' = [doc EXCEPT ![r] = d]
  /\ Goto(r, "lock")
  /\ UNCHANGED <<docVars, retention, lockVars, todo, before, rate, item>>

Awaited(d) == IF d \in Measurements THEN "submitted" ELSE "approved"

\* SELECT ... FOR UPDATE of the document, the check of its status and the read
\* of its lines.
LockDocument(r) ==
  LET d == doc[r] IN
  /\ rpc[r] = "lock"
  /\ docLock[d] = None
  /\ \/ /\ status[d] = Awaited(d)
        /\ docLock' = [docLock EXCEPT ![d] = r]
        /\ todo' = [todo EXCEPT ![r] = {i \in Items : lines[d][i] > 0}]
        /\ Goto(r, IF d \in Measurements THEN "items" ELSE "contract")
        /\ UNCHANGED <<doc, before, rate, item>>
     \/ /\ status[d] # Awaited(d)
        /\ Leave(r)
        /\ UNCHANGED docLock
  /\ UNCHANGED <<docVars, retention, contractLock, itemLock>>

\* Mutant: the contract is read without FOR UPDATE.
ReadContractUnlocked(r) ==
  /\ rpc[r] = "contract"
  /\ rate' = [rate EXCEPT ![r] = retention]
  /\ Goto(r, "items")
  /\ UNCHANGED <<docVars, retention, lockVars, doc, todo, before, item>>

LockContract(r) ==
  /\ rpc[r] = "contract"
  /\ contractLock = None
  /\ contractLock' = r
  /\ rate' = [rate EXCEPT ![r] = retention]
  /\ Goto(r, "items")
  /\ UNCHANGED <<docVars, retention, docLock, itemLock, doc, todo, before, item>>

\* COMMIT or ROLLBACK.
EndTransaction(r) ==
  /\ docLock' = [d \in Documents |-> IF docLock[d] = r THEN None ELSE docLock[d]]
  /\ contractLock' = (IF contractLock = r THEN None ELSE contractLock)
  /\ itemLock' = [i \in Items |-> IF itemLock[i] = r THEN None ELSE itemLock[i]]
  /\ Leave(r)

\* Mutant: the sum of an IPC's own item is compared with the BOQ quantity, as
\* a measurement's is.
FitsBoq(d, i) ==
  IF d \in Measurements
    THEN sumApprovedQuantity(i) + lines[d][i] <= Quantity[i]
    ELSE certifiedQuantity(i) + lines[d][i] <= Quantity[i]

Fits(d, i) ==
  IF d \in Measurements
    THEN sumApprovedQuantity(i) + lines[d][i] <= Quantity[i]
    ELSE certifiedQuantity(i) + lines[d][i] <= sumApprovedQuantity(i)

\* Mutant: the items are locked in the order of the lines.
NextItemAsListed(r, i) == i \in todo[r]

NextItem(r, i) == i \in todo[r] /\ \A j \in todo[r] : i <= j

\* Mutant: the baseline of the snapshot is the approved quantity.
LockItemApprovedBaseline(r) ==
  /\ rpc[r] = "items"
  /\ \E i \in Items :
       /\ NextItem(r, i)
       /\ itemLock[i] = None
       /\ Fits(doc[r], i)
       /\ itemLock' = [itemLock EXCEPT ![i] = r]
       /\ todo' = [todo EXCEPT ![r] = @ \ {i}]
       /\ before' = [before EXCEPT ![r][i] = sumApprovedQuantity(i)]
  /\ UNCHANGED <<docVars, retention, docLock, contractLock, rpc, doc, rate, item>>

\* SELECT ... FOR UPDATE of the next item, and the comparison of the sums read
\* under its lock.
LockItem(r) ==
  /\ rpc[r] = "items"
  /\ \E i \in Items :
       /\ NextItem(r, i)
       /\ itemLock[i] = None
       /\ Fits(doc[r], i)
       /\ itemLock' = [itemLock EXCEPT ![i] = r]
       /\ todo' = [todo EXCEPT ![r] = @ \ {i}]
       /\ before' = [before EXCEPT ![r][i] = certifiedQuantity(i)]
  /\ UNCHANGED <<docVars, retention, docLock, contractLock, rpc, doc, rate, item>>

Overrun(r) ==
  /\ rpc[r] = "items"
  /\ \E i \in Items :
       /\ NextItem(r, i)
       /\ itemLock[i] = None
       /\ ~Fits(doc[r], i)
  /\ EndTransaction(r)
  /\ UNCHANGED <<docVars, retention>>

Decide(r) ==
  LET d == doc[r] IN
  /\ rpc[r] = "items" /\ todo[r] = {}
  /\ \/ /\ d \in Measurements
        /\ status' = [status EXCEPT ![d] = "approved"]
        /\ UNCHANGED <<previous, frozenRate>>
     \/ /\ d \in Ipcs
        /\ status' = [status EXCEPT ![d] = "certified"]
        /\ previous' = [previous EXCEPT ![d] = before[r]]
        /\ frozenRate' = [frozenRate EXCEPT ![d] = rate[r]]
  /\ EndTransaction(r)
  /\ UNCHANGED <<lines, retention>>

\* The process dies or a statement fails: PostgreSQL rolls back.
Abort(r) ==
  /\ rpc[r] # "idle"
  /\ EndTransaction(r)
  /\ UNCHANGED <<docVars, retention>>

DocumentStep ==
  \/ \E m \in Measurements, i \in Items : AddMeasurementLine(m, i)
  \/ \E d \in Documents, i \in Items : DeleteLine(d, i)
  \/ \E d \in Documents : Submit(d) \/ Reject(d)
  \/ \E c \in Ipcs : ApproveIpc(c)

RequestStep(r) ==
  \/ \E c \in Ipcs, i \in Items : CheckRemaining(r, c, i)
  \/ InsertIpcLine(r)
  \/ \E d \in Documents : ReadDocument(r, d)
  \/ LockDocument(r) \/ LockContract(r) \/ LockItem(r) \/ Overrun(r) \/ Decide(r)
  \/ Abort(r)

Next ==
  \/ DocumentStep
  \/ PatchContract
  \/ \E r \in Requests : RequestStep(r)

Spec == Init /\ [][Next]_vars

-----------------------------------------------------------------------------
(* Properties.                                                             *)

\* approve(): "overrun-safe": the approved measurements of an item never
\* exceed its BOQ quantity, whatever approvals run at the same time.
ApprovedWithinBoq == \A i \in Items : sumApprovedQuantity(i) <= Quantity[i]

\* certify(): no more of an item is certified than was measured and approved.
CertifiedWithinApproved ==
  \A i \in Items : certifiedQuantity(i) <= sumApprovedQuantity(i)

\* The certification snapshots of an item stack up without gap or overlap:
\* what one certified IPC claims, from its previousCertifiedQuantity to its
\* cumulativeQuantity, no other one claims, and nothing lies beyond the total.
SnapshotsStack ==
  \A i \in Items : \A c, d \in {x \in Certified : lines[x][i] > 0} :
    /\ previous[c][i] + lines[c][i] <= certifiedQuantity(i)
    /\ c # d => \/ previous[c][i] + lines[c][i] <= previous[d][i]
                \/ previous[d][i] + lines[d][i] <= previous[c][i]

DecidedKept ==
  \A d \in Documents :
    status[d] = (IF d \in Measurements THEN "approved" ELSE "certified") =>
      /\ status'[d] = status[d] /\ lines'[d] = lines[d]
      /\ d \in Ipcs => previous'[d] = previous[d] /\ frozenRate'[d] = frozenRate[d]

\* A decided document is history: neither its lines nor its snapshot change.
DecidedIsFinal == [][DecidedKept]_vars

CertifiedAtCurrentRate ==
  \A c \in Ipcs :
    status[c] # "certified" /\ status'[c] = "certified" => frozenRate'[c] = retention

\* IPC-002: the retention of a certified IPC is computed with the contract's
\* rate of the moment it is certified, "never an in-between value".
RetentionIsCurrent == [][CertifiedAtCurrentRate]_vars

\* The decision r waits for a row that s has locked.
WaitsFor(r, s) ==
  \/ rpc[r] \in {"lock", "insert"} /\ docLock[doc[r]] = s
  \/ rpc[r] = "insert" /\ itemLock[item[r]] = s
  \/ rpc[r] = "contract" /\ contractLock = s
  \/ rpc[r] = "items" /\ \E i \in Items : NextItem(r, i) /\ itemLock[i] = s

\* "this is what prevents a deadlock": no decisions wait for each other.
NoDeadlock ==
  \A S \in SUBSET Requests : S # {} => \E r \in S : \A s \in S : ~WaitsFor(r, s)

-----------------------------------------------------------------------------
(* Inductive invariants, for the proofs.                                   *)

\* Who holds which row, and what it has read under the lock.
HoldsItsRows(r) ==
  /\ rpc[r] # "idle" => doc[r] \in Documents
  /\ rpc[r] \in Deciding => docLock[doc[r]] = r /\ status[doc[r]] = Awaited(doc[r])
  /\ rpc[r] = "insert" => doc[r] \in Ipcs /\ item[r] \in Items
  /\ rpc[r] = "contract" => doc[r] \in Ipcs
  /\ rpc[r] = "items" /\ doc[r] \in Ipcs => contractLock = r /\ rate[r] = retention
  /\ contractLock = r => rpc[r] = "items"
  /\ \A d \in Documents : docLock[d] = r => rpc[r] \in Deciding /\ doc[r] = d
  /\ \A i \in Items : itemLock[i] = r =>
       rpc[r] = "items" /\ i \notin todo[r] /\ \A j \in todo[r] : i < j

LedgerLocks == \A r \in Requests : HoldsItsRows(r)

\* What a decision has compared under an item's lock still holds.
Compared(r) ==
  rpc[r] \in Deciding =>
    \A i \in Items : lines[doc[r]][i] > 0 /\ i \notin todo[r] =>
      itemLock[i] = r /\ Fits(doc[r], i) /\ before[r][i] = certifiedQuantity(i)

Checked == \A r \in Requests : Compared(r)

=============================================================================
