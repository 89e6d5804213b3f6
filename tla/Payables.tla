------------------------------- MODULE Payables -------------------------------
(***************************************************************************)
(* What a company owes its suppliers: commitments (purchase orders and     *)
(* subcontracts, server/src/routes/commitments.ts) and the subcontractor   *)
(* IPCs certified against them (routes/subcontractIpcs.ts).                *)
(*                                                                         *)
(* A request first reads without locks, then runs a transaction that locks *)
(* its rows one after the other, parent before child: the company or the   *)
(* contract, then the commitment; an IPC, then its commitment, then the    *)
(* commitment's lines (which only such transactions lock, so they are not  *)
(* waited for).  Foreign keys count too: a new row waits for those it      *)
(* refers to that are locked FOR UPDATE, and the audit row every           *)
(* transaction ends with refers to the company.  A transaction that locks  *)
(* no other row while it waits is one action.                              *)
(*                                                                         *)
(* An IPC claims units of the commitment's lines: of quantity where a line *)
(* has a quantity and a rate, of money where it has an amount only.        *)
(***************************************************************************)
EXTENDS Naturals, FiniteSets

CONSTANTS
  Commitments, Ipcs, Lines,  \* ids for rows
  Linked,                    \* the commitments that belong to the contract
  Subcontracts,              \* those that are not purchase orders
  Amount, MaxAmount,         \* commitment_lines.amount, and its bound
  Ceiling,                   \* its quantity, or its amount if it has none
  MaxClaim,                  \* bound on the units an IPC claims of a line
  Rates,                     \* values of retentionPercent
  Terms,                     \* those tried for each commitment, None for null
  Requests,
  None

ASSUME RowsAssumption ==
  /\ IsFiniteSet(Commitments) /\ IsFiniteSet(Ipcs) /\ IsFiniteSet(Lines)
  /\ Linked \subseteq Commitments /\ Subcontracts \subseteq Commitments
ASSUME LinesAssumption == Amount \in [Lines -> 0..MaxAmount] /\ Ceiling \in [Lines -> Nat]
ASSUME BoundAssumption ==
  MaxAmount \in Nat /\ MaxClaim \in Nat /\ Terms \in [Commitments -> SUBSET (Rates \cup {None})]

Kinds == {"create", "submit", "approve", "amend", "edit", "createIpc", "certify", "claim"}

ASSUME NoneAssumption ==
  /\ None \notin Requests \cup Commitments \cup Ipcs \cup Lines \cup Rates
  /\ None \notin Kinds /\ None \notin Nat

VARIABLES
  ended,        \* the contract is completed or terminated
  status, number, original, revised, retention, lines,   \* of commitments
  of, ipcNumber, ipcStatus, claimed, ipcRate,            \* of IPCs
  companyLock, contractLock, commitmentLock, ipcLock,    \* transactions that hold the rows
  pc, kind,     \* the row each request is about to lock, and what it does
  com, ipc, line,   \* the rows it is about
  next,         \* the number its INSERT has computed
  seen,         \* the lines of the commitment it has read
  rate          \* the retentionPercent it has read

comVars == <<status, number, original, revised, retention, lines>>
ipcVars == <<of, ipcNumber, ipcStatus, claimed, ipcRate>>
tableVars == <<ended, comVars, ipcVars>>
lockVars == <<companyLock, contractLock, commitmentLock, ipcLock>>
reqVars == <<pc, kind, com, ipc, line, next, seen, rate>>
vars == <<ended, status, number, original, revised, retention, lines,
          of, ipcNumber, ipcStatus, claimed, ipcRate,
          companyLock, contractLock, commitmentLock, ipcLock,
          pc, kind, com, ipc, line, next, seen, rate>>

EDITABLE_STATUSES == {"draft", "rejected"}
Submitted == {"pending_approval", "active"}

\* sumMoney of the lines of S: the units of money in them.
Total(S) == Cardinality({u \in S \X (1..MaxAmount) : u[2] <= Amount[u[1]]})

Certified == {i \in Ipcs : ipcStatus[i] = "certified"}

\* The units of a line that certified IPCs claim.
certifiedSoFar(l) == Cardinality({u \in Certified \X (1..MaxClaim) : u[2] <= claimed[u[1]][l]})

IpcsOf(c) == {i \in Ipcs : of[i] = c}

TypeOK ==
  /\ ended \in BOOLEAN
  /\ status \in [Commitments -> {"absent", "draft", "cancelled"} \cup Submitted]
  /\ number \in [Commitments -> Nat]
  /\ original \in [Commitments -> Nat \cup {None}]
  /\ revised \in [Commitments -> Nat \cup {None}]
  /\ retention \in [Commitments -> Rates \cup {None}]
  /\ lines \in [Commitments -> SUBSET Lines]
  /\ of \in [Ipcs -> Commitments \cup {None}]
  /\ ipcNumber \in [Ipcs -> Nat]
  /\ ipcStatus \in [Ipcs -> {"absent", "submitted", "approved", "certified"} \cup EDITABLE_STATUSES]
  /\ claimed \in [Ipcs -> [Lines -> 0..MaxClaim]]
  /\ ipcRate \in [Ipcs -> Rates \cup {None}]
  /\ companyLock \in Requests \cup {None}
  /\ contractLock \in Requests \cup {None}
  /\ commitmentLock \in [Commitments -> Requests \cup {None}]
  /\ ipcLock \in [Ipcs -> Requests \cup {None}]
  /\ pc \in [Requests -> {"idle", "company", "commitment", "edit", "claim", "commit"}]
  /\ kind \in [Requests -> Kinds \cup {None}]
  /\ com \in [Requests -> Commitments \cup {None}]
  /\ ipc \in [Requests -> Ipcs \cup {None}]
  /\ line \in [Requests -> Lines \cup {None}]
  /\ next \in [Requests -> Nat]
  /\ seen \in [Requests -> SUBSET Lines]
  /\ rate \in [Requests -> Rates \cup {None}]

Init ==
  /\ ended = FALSE
  /\ status = [c \in Commitments |-> "absent"]
  /\ number = [c \in Commitments |-> 0]
  /\ original = [c \in Commitments |-> None]
  /\ revised = [c \in Commitments |-> None]
  /\ retention = [c \in Commitments |-> None]
  /\ lines = [c \in Commitments |-> {}]
  /\ of = [i \in Ipcs |-> None]
  /\ ipcNumber = [i \in Ipcs |-> 0]
  /\ ipcStatus = [i \in Ipcs |-> "absent"]
  /\ claimed = [i \in Ipcs |-> [l \in Lines |-> 0]]
  /\ ipcRate = [i \in Ipcs |-> None]
  /\ companyLock = None
  /\ contractLock = None
  /\ commitmentLock = [c \in Commitments |-> None]
  /\ ipcLock = [i \in Ipcs |-> None]
  /\ pc = [r \in Requests |-> "idle"]
  /\ kind = [r \in Requests |-> None]
  /\ com = [r \in Requests |-> None]
  /\ ipc = [r \in Requests |-> None]
  /\ line = [r \in Requests |-> None]
  /\ next = [r \in Requests |-> 0]
  /\ seen = [r \in Requests |-> {}]
  /\ rate = [r \in Requests |-> None]

-----------------------------------------------------------------------------
(* The reads before the transactions.                                      *)

Goto(r, label) == pc' = [pc EXCEPT ![r] = label]

Begin(r, k, c, i, l, label) ==
  /\ pc[r] = "idle"
  /\ kind' = [kind EXCEPT ![r] = k]
  /\ com' = [com EXCEPT ![r] = c]
  /\ ipc' = [ipc EXCEPT ![r] = i]
  /\ line' = [line EXCEPT ![r] = l]
  /\ Goto(r, label)
  /\ UNCHANGED <<tableVars, next, seen, rate>>

\* The contract's status is looked at here, and not again by the transaction.
ReadForCreate(r, c) ==
  /\ status[c] = "absent" /\ \A q \in Requests : com[q] # c
  /\ c \in Linked => ~ended
  /\ Begin(r, "create", c, None, None, "company")
  /\ UNCHANGED lockVars

ReadDraft(r, c) ==
  /\ status[c] = "draft"
  /\ Begin(r, "edit", c, None, None, "edit")
  /\ UNCHANGED lockVars

findEligibleSubcontractCommitment(r, c) ==
  /\ c \in Subcontracts
  /\ status[c] = "active"
  /\ Begin(r, "createIpc", c, None, None, "commitment")
  /\ UNCHANGED lockVars

\* The ceiling is compared here, and by certify() again.
ReadForClaim(r, i, l) ==
  /\ ipcStatus[i] \in EDITABLE_STATUSES
  /\ l \in lines[of[i]]
  /\ certifiedSoFar(l) + 1 <= Ceiling[l]
  /\ Begin(r, "claim", None, i, l, "claim")
  /\ UNCHANGED lockVars

-----------------------------------------------------------------------------
(* Locks.                                                                  *)

Leave(r) ==
  /\ Goto(r, "idle")
  /\ kind' = [kind EXCEPT ![r] = None]
  /\ com' = [com EXCEPT ![r] = None]
  /\ ipc' = [ipc EXCEPT ![r] = None]
  /\ line' = [line EXCEPT ![r] = None]
  /\ next' = [next EXCEPT ![r] = 0]
  /\ seen' = [seen EXCEPT ![r] = {}]
  /\ rate' = [rate EXCEPT ![r] = None]

\* COMMIT or ROLLBACK.
EndTransaction(r) ==
  /\ companyLock' = (IF companyLock = r THEN None ELSE companyLock)
  /\ contractLock' = (IF contractLock = r THEN None ELSE contractLock)
  /\ commitmentLock' = [c \in Commitments |-> IF commitmentLock[c] = r THEN None ELSE commitmentLock[c]]
  /\ ipcLock' = [i \in Ipcs |-> IF ipcLock[i] = r THEN None ELSE ipcLock[i]]
  /\ Leave(r)

\* COALESCE(MAX(number), 0) + 1.
NextNumber(numbers) == 1 + CHOOSE n \in numbers \cup {0} : \A m \in numbers : m <= n

NumberedCommitments == {c \in Commitments : number[c] # 0}
CommitmentNumbers == {number[c] : c \in NumberedCommitments}
IpcNumbers(c) == {ipcNumber[i] : i \in IpcsOf(c)}

\* SELECT ... FOR UPDATE of the company and INSERT ... SELECT MAX + 1.
LockCompany(r) ==
  /\ pc[r] = "company"
  /\ companyLock = None
  /\ companyLock' = r
  /\ next' = [next EXCEPT ![r] = NextNumber(CommitmentNumbers)]
  /\ Goto(r, "commit")
  /\ UNCHANGED <<tableVars, contractLock, commitmentLock, ipcLock, kind, com, ipc, line, seen, rate>>

\* submit, approve and amend decide nothing on what they read before.  Without
\* a contract there is nothing to lock yet.
BeginUnlinked(r, k, c) ==
  /\ c \notin Linked
  /\ status[c] # "absent"
  /\ Begin(r, k, c, None, None, "commitment")
  /\ UNCHANGED lockVars

\* SELECT ... FOR UPDATE of the contract, and the check of its status.
LockContract(r, k, c) ==
  /\ c \in Linked
  /\ status[c] # "absent"
  /\ contractLock = None /\ ~ended
  /\ contractLock' = r
  /\ Begin(r, k, c, None, None, "commitment")
  /\ UNCHANGED <<companyLock, commitmentLock, ipcLock>>

\* certify() decides nothing on what it reads before.
LockIpc(r, i) ==
  /\ ipcLock[i] = None /\ ipcStatus[i] = "approved"
  /\ ipcLock' = [ipcLock EXCEPT ![i] = r]
  /\ Begin(r, "certify", of[i], i, None, "commitment")
  /\ UNCHANGED <<companyLock, contractLock, commitmentLock>>

\* What each transaction checks once it has the commitment's row; certify()
\* compares the ceilings under the locks of the lines.
Admitted(r) ==
  LET c == com[r]
      i == ipc[r] IN
  \/ kind[r] = "submit" /\ status[c] = "draft" /\ lines[c] # {}
  \/ kind[r] = "approve" /\ status[c] = "pending_approval"
  \/ kind[r] = "amend" /\ status[c] = "active"
  \/ kind[r] = "createIpc"
  \/ /\ kind[r] = "certify"
     /\ \A l \in Lines : claimed[i][l] > 0 => certifiedSoFar(l) + claimed[i][l] <= Ceiling[l]

ReadUnderLock(r) ==
  LET c == com[r] IN
  /\ seen' = [seen EXCEPT ![r] = lines[c]]
  /\ rate' = [rate EXCEPT ![r] = retention[c]]
  /\ next' = [next EXCEPT ![r] = IF kind[r] = "createIpc" THEN NextNumber(IpcNumbers(c)) ELSE 0]
  /\ Goto(r, "commit")
  /\ UNCHANGED <<kind, com, ipc, line>>

\* Mutant: the commitment is read without FOR UPDATE.
ReadUnlocked(r) ==
  /\ pc[r] = "commitment"
  /\ Admitted(r)
  /\ ReadUnderLock(r)
  /\ UNCHANGED <<tableVars, lockVars>>

LockCommitment(r) ==
  /\ pc[r] = "commitment"
  /\ commitmentLock[com[r]] = None
  /\ \/ /\ ~Admitted(r)
        /\ EndTransaction(r)
     \/ /\ Admitted(r)
        /\ commitmentLock' = [commitmentLock EXCEPT ![com[r]] = r]
        /\ ReadUnderLock(r)
        /\ UNCHANGED <<companyLock, contractLock, ipcLock>>
  /\ UNCHANGED tableVars

-----------------------------------------------------------------------------
(* The writes, and COMMIT.                                                 *)

Commits(r, k) == pc[r] = "commit" /\ kind[r] = k

\* The foreign key of the audit row.
Audited == companyLock = None

\* The audit row is written after the transaction; the foreign key of the
\* commitment itself waits for the contract.
createCommitment(r) ==
  LET c == com[r] IN
  /\ Commits(r, "create")
  /\ c \in Linked => contractLock = None
  /\ status' = [status EXCEPT ![c] = "draft"]
  /\ number' = [number EXCEPT ![c] = next[r]]
  /\ \E x \in Terms[c] : retention' = [retention EXCEPT ![c] = x]
  /\ EndTransaction(r)
  /\ UNCHANGED <<ended, original, revised, lines, ipcVars>>

SubmitCommitment(r) ==
  LET c == com[r] IN
  /\ Commits(r, "submit") /\ Audited
  /\ status' = [status EXCEPT ![c] = "pending_approval"]
  /\ original' = [original EXCEPT ![c] = Total(seen[r])]
  /\ revised' = [revised EXCEPT ![c] = Total(seen[r])]
  /\ EndTransaction(r)
  /\ UNCHANGED <<ended, number, retention, lines, ipcVars>>

ApproveCommitment(r) ==
  LET c == com[r] IN
  /\ Commits(r, "approve") /\ Audited
  /\ status' = [status EXCEPT ![c] = "active"]
  /\ EndTransaction(r)
  /\ UNCHANGED <<ended, number, original, revised, retention, lines, ipcVars>>

\* Ids that no commitment has.
Unused == Lines \ UNION {lines[c] : c \in Commitments}

AmendCommitment(r) ==
  LET c == com[r] IN
  /\ Commits(r, "amend") /\ Audited
  /\ \E added \in SUBSET Unused :
       /\ added # {}
       /\ lines' = [lines EXCEPT ![c] = @ \cup added]
       /\ revised' = [revised EXCEPT ![c] = Total(seen[r] \cup added)]
  /\ EndTransaction(r)
  /\ UNCHANGED <<ended, status, number, original, retention, ipcVars>>

CreateIpc(r) ==
  /\ Commits(r, "createIpc") /\ Audited
  /\ \E i \in {x \in Ipcs : of[x] = None} :
       /\ of' = [of EXCEPT ![i] = com[r]]
       /\ ipcNumber' = [ipcNumber EXCEPT ![i] = next[r]]
       /\ ipcStatus' = [ipcStatus EXCEPT ![i] = "draft"]
  /\ EndTransaction(r)
  /\ UNCHANGED <<ended, comVars, claimed, ipcRate>>

certifySubcontractIpc(r) ==
  LET i == ipc[r] IN
  /\ Commits(r, "certify") /\ Audited
  /\ ipcStatus' = [ipcStatus EXCEPT ![i] = "certified"]
  /\ ipcRate' = [ipcRate EXCEPT ![i] = rate[r]]
  /\ EndTransaction(r)
  /\ UNCHANGED <<ended, comVars, of, ipcNumber, claimed>>

-----------------------------------------------------------------------------
(* Transactions that lock one row.                                         *)

\* PATCH of a contract that completes or terminates it.
EndContract ==
  /\ contractLock = None /\ Audited
  /\ ~ended
  /\ ended' = TRUE
  /\ UNCHANGED <<comVars, ipcVars, lockVars, reqVars>>

\* The terms, a new line or a deleted one.
Edit(c) ==
  \/ /\ \E x \in Terms[c] : retention' = [retention EXCEPT ![c] = x]
     /\ UNCHANGED lines
  \/ /\ \/ \E l \in Unused : lines' = [lines EXCEPT ![c] = @ \cup {l}]
        \/ \E l \in lines[c] : lines' = [lines EXCEPT ![c] = @ \ {l}]
     /\ UNCHANGED retention

\* Mutant: the status read before the transaction is trusted.
EditUnchecked(r) ==
  /\ pc[r] = "edit"
  /\ commitmentLock[com[r]] = None /\ Audited
  /\ Edit(com[r])
  /\ Leave(r)
  /\ UNCHANGED <<ended, status, number, original, revised, ipcVars, lockVars>>

EditDraft(r) ==
  LET c == com[r] IN
  /\ pc[r] = "edit"
  /\ commitmentLock[c] = None /\ Audited
  /\ \/ status[c] = "draft" /\ Edit(c)
     \/ status[c] # "draft" /\ UNCHANGED <<retention, lines>>
  /\ Leave(r)
  /\ UNCHANGED <<ended, status, number, original, revised, ipcVars, lockVars>>

CancelCommitment(c) ==
  /\ status[c] \in {"draft", "pending_approval"}
  /\ commitmentLock[c] = None /\ Audited
  /\ status' = [status EXCEPT ![c] = "cancelled"]
  /\ UNCHANGED <<ended, number, original, revised, retention, lines, ipcVars, lockVars, reqVars>>

\* Adding a line of an IPC, a unit of a line of the commitment.
AddClaim(r) ==
  LET i == ipc[r]
      l == line[r] IN
  /\ pc[r] = "claim"
  /\ ipcLock[i] = None /\ Audited
  /\ claimed' = (IF ipcStatus[i] \in EDITABLE_STATUSES /\ claimed[i][l] < MaxClaim
                   THEN [claimed EXCEPT ![i][l] = @ + 1] ELSE claimed)
  /\ Leave(r)
  /\ UNCHANGED <<ended, comVars, of, ipcNumber, ipcStatus, ipcRate, lockVars>>

DeleteClaim(i, l) ==
  /\ ipcStatus[i] \in EDITABLE_STATUSES
  /\ ipcLock[i] = None /\ Audited
  /\ claimed[i][l] > 0
  /\ claimed' = [claimed EXCEPT ![i][l] = @ - 1]
  /\ UNCHANGED <<ended, comVars, of, ipcNumber, ipcStatus, ipcRate, lockVars, reqVars>>

MoveIpc(i, from, to) ==
  /\ ipcStatus[i] \in from
  /\ ipcLock[i] = None /\ Audited
  /\ ipcStatus' = [ipcStatus EXCEPT ![i] = to]
  /\ UNCHANGED <<ended, comVars, of, ipcNumber, claimed, ipcRate, lockVars, reqVars>>

SubmitIpc(i) == (\E l \in Lines : claimed[i][l] > 0) /\ MoveIpc(i, EDITABLE_STATUSES, "submitted")

ApproveIpc(i) == MoveIpc(i, {"submitted"}, "approved")

RejectIpc(i) == MoveIpc(i, {"submitted"}, "rejected")

\* The process dies, a statement fails, or PostgreSQL breaks a deadlock.
Abort(r) ==
  /\ pc[r] # "idle"
  /\ EndTransaction(r)
  /\ UNCHANGED tableVars

Read(r) ==
  \/ \E c \in Commitments : ReadForCreate(r, c) \/ ReadDraft(r, c) \/ findEligibleSubcontractCommitment(r, c)
  \/ \E c \in Commitments, k \in {"submit", "approve", "amend"} : BeginUnlinked(r, k, c)
  \/ \E i \in Ipcs, l \in Lines : ReadForClaim(r, i, l)

Lock(r) ==
  \/ LockCompany(r) \/ LockCommitment(r)
  \/ \E c \in Commitments, k \in {"submit", "approve", "amend"} : LockContract(r, k, c)
  \/ \E i \in Ipcs : LockIpc(r, i)

Commit(r) ==
  \/ createCommitment(r) \/ SubmitCommitment(r) \/ ApproveCommitment(r) \/ AmendCommitment(r)
  \/ CreateIpc(r) \/ certifySubcontractIpc(r)

IpcStep(i) ==
  \/ SubmitIpc(i) \/ ApproveIpc(i) \/ RejectIpc(i)
  \/ \E l \in Lines : DeleteClaim(i, l)

Next ==
  \/ EndContract
  \/ \E c \in Commitments : CancelCommitment(c)
  \/ \E i \in Ipcs : IpcStep(i)
  \/ \E r \in Requests : Read(r) \/ Lock(r) \/ Commit(r) \/ EditDraft(r) \/ AddClaim(r) \/ Abort(r)

Spec == Init /\ [][Next]_vars

-----------------------------------------------------------------------------
(* Properties.                                                             *)

\* submit() freezes, and amend() recomputes, the sum of "exactly the line set
\* that existed": the amount a commitment stands at is that of its lines.
RevisedIsSum ==
  \A c \in Commitments : status[c] \in Submitted => revised[c] = Total(lines[c])

SubmittedKept ==
  \A c \in Commitments : status[c] \in Submitted =>
    /\ original'[c] = original[c] /\ retention'[c] = retention[c]
    /\ lines[c] \subseteq lines'[c]
    /\ lines'[c] # lines[c] => status[c] = "active"

\* "Once submitted, a commitment's terms (like its line-derived amounts) are
\* meant to be fixed": amendments add lines, and nothing else changes.
SubmittedIsFixed == [][SubmittedKept]_vars

NothingPlaced ==
  ended => \A c \in Linked : status'[c] \in Submitted => status'[c] = status[c] /\ revised'[c] = revised[c]

\* A contract that ends "can never race past this check": no commitment under
\* it is submitted, approved or amended from then on.
NoPlacementAfterEnd == [][NothingPlaced]_vars

\* Certified IPCs claim no more of a line than the commitment gives, and only
\* lines of the commitment they belong to.
CertifiedWithinCommitted ==
  /\ \A l \in Lines : certifiedSoFar(l) <= Ceiling[l]
  /\ \A i \in Certified, l \in Lines : claimed[i][l] > 0 => l \in lines[of[i]]

\* IPCs exist only on commitments that are placed, although creation does not
\* look at the commitment again under its lock; all those certified of one
\* commitment are computed with one retention rate, the one it was placed with.
CertifiedAsPlaced ==
  \A i \in Ipcs : ipcStatus[i] # "absent" =>
    /\ status[of[i]] = "active"
    /\ i \in Certified => ipcRate[i] = retention[of[i]]

\* The commitments of a company, and the IPCs of a commitment, are numbered
\* 1, 2, 3, ... without gap or duplicate.
NumbersSequential ==
  /\ CommitmentNumbers = 1..Cardinality(NumberedCommitments)
  /\ \A c \in Commitments : IpcNumbers(c) = 1..Cardinality(IpcsOf(c))

\* r waits for a row that s has locked.
WaitsFor(r, s) ==
  \/ pc[r] = "company" /\ companyLock = s
  \/ pc[r] \in {"commitment", "edit"} /\ commitmentLock[com[r]] = s
  \/ pc[r] = "claim" /\ ipcLock[ipc[r]] = s
  \/ Commits(r, "create") /\ com[r] \in Linked /\ contractLock = s
  \/ pc[r] \in {"edit", "claim"} /\ companyLock = s
  \/ pc[r] = "commit" /\ kind[r] # "create" /\ companyLock = s

\* "Two requests targeting different scopes never contend for the same lock at
\* all, so they proceed fully in parallel": none wait for each other.
NoDeadlock ==
  \A S \in SUBSET Requests : S # {} => \E r \in S : \A s \in S : ~WaitsFor(r, s)

-----------------------------------------------------------------------------
(* Inductive invariants, for the proofs.                                   *)

Ordering == {"submit", "approve", "amend"}
Locking == Ordering \cup {"createIpc", "certify"}

\* What the transaction of r may rely on: what it has read before about rows
\* that never go back, and what it has read of the rows it has locked.
Relies(r) ==
  /\ pc[r] = "company" => kind[r] = "create"
  /\ pc[r] = "commitment" => kind[r] \in Locking
  /\ pc[r] = "edit" => kind[r] = "edit"
  /\ pc[r] = "commit" => kind[r] \in Locking \cup {"create"}
  /\ pc[r] = "claim" =>
       ipc[r] \in Ipcs /\ line[r] \in Lines /\ of[ipc[r]] # None /\ line[r] \in lines[of[ipc[r]]]
  /\ kind[r] = "create" => com[r] \in Commitments /\ status[com[r]] = "absent"
  /\ kind[r] \in Locking \cup {"edit"} => com[r] \in Commitments /\ status[com[r]] # "absent"
  /\ kind[r] = "createIpc" => status[com[r]] = "active"
  /\ kind[r] = "certify" => ipc[r] \in Ipcs /\ of[ipc[r]] = com[r] /\ ipcStatus[ipc[r]] = "approved"

Holds(r) ==
  /\ kind[r] \in Ordering /\ com[r] \in Linked => contractLock = r /\ ~ended
  /\ kind[r] = "certify" => ipcLock[ipc[r]] = r
  /\ Commits(r, "create") => companyLock = r /\ next[r] = Cardinality(NumberedCommitments) + 1
  /\ pc[r] = "commit" /\ kind[r] \in Locking => commitmentLock[com[r]] = r /\ Admitted(r)
  /\ pc[r] = "commit" /\ kind[r] \in {"submit", "amend"} => seen[r] = lines[com[r]]
  /\ Commits(r, "createIpc") => next[r] = Cardinality(IpcsOf(com[r])) + 1
  /\ Commits(r, "certify") => rate[r] = retention[com[r]]

RequestsInv ==
  /\ \A r \in Requests : Relies(r) /\ Holds(r)
  /\ \A r, s \in Requests : kind[r] = "create" /\ kind[s] = "create" /\ com[r] = com[s] => r = s

LinesInv ==
  /\ RevisedIsSum
  /\ \A c, d \in Commitments : c # d => lines[c] \cap lines[d] = {}

IpcsInv ==
  \A i \in Ipcs :
    /\ of[i] = None <=> ipcStatus[i] = "absent"
    /\ of[i] # None => status[of[i]] = "active"
    /\ \A l \in Lines : claimed[i][l] > 0 => of[i] # None /\ l \in lines[of[i]]
    /\ ipcStatus[i] = "certified" => ipcRate[i] = retention[of[i]]

CeilingsInv == \A l \in Lines : certifiedSoFar(l) <= Ceiling[l]

NumbersInv ==
  /\ NumbersSequential
  /\ \A c \in Commitments : number[c] = 0 <=> status[c] = "absent"

\* A lock is held by a transaction that needs it.
Held ==
  /\ \A r \in Requests : companyLock = r => Commits(r, "create")
  /\ \A r \in Requests, c \in Commitments : commitmentLock[c] = r => pc[r] = "commit" /\ kind[r] # "create"
  /\ \A r \in Requests, i \in Ipcs : ipcLock[i] = r => kind[r] = "certify" /\ pc[r] \in {"commitment", "commit"}

=============================================================================
