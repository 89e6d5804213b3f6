--------------------------- MODULE ContractProofs ---------------------------
(***************************************************************************)
(* Theorems about ContractExecution, for any finite supply of revisions    *)
(* and IPCs and any number of requests.                                    *)
(***************************************************************************)
EXTENDS ContractExecution, FiniteSetTheorems, TLAPS

LEMMA Members ==
  /\ Revisions \subseteq Numbered /\ Ipcs \subseteq Numbered /\ Numbered \subseteq Revisions \cup Ipcs
  /\ Ipcs \subseteq Dependent /\ Measurements \subseteq Dependent
BY DEF Numbered, Dependent

-----------------------------------------------------------------------------
(* Numbers.                                                                *)

\* The rows of a table are numbered 1 .. k.
LEMMA NumberedUpTo ==
  ASSUME TypeOK, NEW rows \in SUBSET Numbered, IsFiniteSet(rows),
         Taken(rows) = 1..Cardinality(Existing(rows))
  PROVE  /\ Cardinality(Existing(rows)) \in Nat
         /\ NextNumber(rows) = Cardinality(Existing(rows)) + 1
<1> DEFINE k == Cardinality(Existing(rows))
<1>1. IsFiniteSet(Existing(rows))
  BY FS_Subset DEF Existing
<1>2. k \in Nat
  BY <1>1, FS_CardinalityType
<1>3. k \in Taken(rows) \cup {0} /\ \A m \in Taken(rows) : m <= k
  BY <1>2
<1>4. \A n \in Taken(rows) \cup {0} : (\A m \in Taken(rows) : m <= n) => n = k
  BY <1>2, <1>3
<1>5. (CHOOSE n \in Taken(rows) \cup {0} : \A m \in Taken(rows) : m <= n) = k
  BY <1>3, <1>4
<1>6. QED
  BY <1>2, <1>5 DEF NextNumber

\* A row that gets the next number keeps the table numbered without gap.
LEMMA NumberingGrows ==
  ASSUME TypeOK, NEW rows \in SUBSET Numbered, IsFiniteSet(rows),
         Taken(rows) = 1..Cardinality(Existing(rows)),
         NEW x \in rows, x \notin Existing(rows),
         number' = [number EXCEPT ![x] = Cardinality(Existing(rows)) + 1]
  PROVE  /\ Cardinality(Existing(rows))' = Cardinality(Existing(rows)) + 1
         /\ Taken(rows)' = 1..Cardinality(Existing(rows))'
<1> DEFINE k == Cardinality(Existing(rows))
<1>1. IsFiniteSet(Existing(rows))
  BY FS_Subset DEF Existing
<1>2. k \in Nat /\ number \in [Numbered -> Nat]
  BY <1>1, FS_CardinalityType DEF TypeOK
<1> HIDE DEF k
<1>0. number' = [number EXCEPT ![x] = k + 1] /\ Taken(rows) = 1..k
  BY DEF k
<1>8. \A y \in rows : number'[y] = IF y = x THEN k + 1 ELSE number[y]
  BY <1>0, <1>2
<1>3. Existing(rows)' = Existing(rows) \cup {x}
  BY <1>2, <1>8 DEF Existing
<1>4. Cardinality(Existing(rows))' = k + 1
  BY <1>1, <1>2, <1>3, FS_AddElement DEF k
<1>5. Taken(rows)' = Taken(rows) \cup {k + 1}
  <2>1. Taken(rows)' = {number'[y] : y \in Existing(rows) \cup {x}}
    BY <1>3 DEF Taken
  <2>2. Existing(rows) \subseteq rows
    BY DEF Existing
  <2>3. QED
    BY <1>8, <2>1, <2>2 DEF Taken
<1>6. 1..(k + 1) = (1..k) \cup {k + 1}
  BY <1>2
<1>7. QED
  BY <1>0, <1>4, <1>5, <1>6 DEF k

-----------------------------------------------------------------------------
(* The inductive invariant.                                                *)

IInv == TypeOK /\ LocksInv /\ RevisionsInv /\ NumbersInv

LEMMA RowsFinite ==
  /\ IsFiniteSet(Revisions) /\ IsFiniteSet(Ipcs)
  /\ Rows("revision") = Revisions /\ Rows("ipc") = Ipcs
BY RowsAssumption DEF Rows

\* At most one request holds the contract's row.
LEMMA Alone ==
  ASSUME LocksInv, NEW r \in Requests, NEW s \in Requests, pc[r] \in Locked
  PROVE  /\ contractLock = r /\ contractLock # None
         /\ pc[s] \in Locked => s = r
BY NoneAssumption DEF LocksInv, HoldsContract

LEMMA InitCorrect == Init => IInv
<1> SUFFICES ASSUME Init PROVE IInv
  OBVIOUS
<1>1. TypeOK
  BY DEF Init, TypeOK, Blocked
<1>2. LocksInv
  BY NoneAssumption DEF Init, LocksInv, HoldsContract, Locked, Kinds
<1>3. RevisionsInv
  BY Members DEF Init, RevisionsInv, Issued, Published
<1>4. NumbersInv
  <2>1. Existing(Revisions) = {} /\ Existing(Ipcs) = {}
    BY Members DEF Init, Existing
  <2>2. Taken(Revisions) = {} /\ Taken(Ipcs) = {} /\ Cardinality({}) = 0 /\ 1..0 = {}
    BY <2>1, FS_EmptySet DEF Taken
  <2>3. QED
    BY <2>1, <2>2 DEF NumbersInv
<1>5. QED
  BY <1>1, <1>2, <1>3, <1>4 DEF IInv

\* COMMIT and ROLLBACK keep the types.
LEMMA LeaveTypes ==
  ASSUME TypeOK, NEW r \in Requests, Leave(r)
  PROVE  /\ pc' = [pc EXCEPT ![r] = "idle"] /\ kind' = [kind EXCEPT ![r] = None]
         /\ pc' \in [Requests -> {"idle", "revision", "begin", "insert", "publish", "supersede", "commit"}]
         /\ kind' \in [Requests -> Kinds \cup {None}]
         /\ target' \in [Requests -> Numbered \cup {None}]
         /\ base' \in [Requests -> Revisions \cup {None}]
         /\ num' \in [Requests -> Nat]
         /\ replaced' \in [Requests -> SUBSET Revisions]
BY DEF TypeOK, Leave, Goto

LEMMA EndTypes ==
  ASSUME TypeOK, NEW r \in Requests, EndTransaction(r)
  PROVE  /\ contractLock' \in Requests \cup {None}
         /\ revLock' \in [Revisions -> Requests \cup {None}]
         /\ Leave(r)
BY DEF TypeOK, EndTransaction

LEMMA TypeStep == ASSUME IInv, [Next]_vars PROVE TypeOK'
<1> USE DEF tableVars, lockVars, reqVars
<1>0. TypeOK
  BY DEF IInv
<1>1. CASE PatchContract
  BY <1>0, <1>1 DEF TypeOK, PatchContract, CONTRACT_STATUS_TRANSITIONS, CONTRACT_EXECUTION_BLOCKED_STATUSES
<1>2. ASSUME NEW r \in Requests, Step(r) PROVE TypeOK'
  <2>1. ASSUME NEW k \in {"revision", "ipc", "measurement"}, ReadContract(r, k) PROVE TypeOK'
    BY <1>0, <2>1 DEF TypeOK, ReadContract, Goto, Kinds
  <2>2. CASE ReadRevision(r)
    BY <1>0, <2>2 DEF TypeOK, ReadRevision, Goto, Published
  <2>3. ASSUME NEW k \in {"publish", "items"}, NEW v \in Revisions, ReadTarget(r, k, v) PROVE TypeOK'
    BY <1>0, <2>3, Members DEF TypeOK, ReadTarget, Goto, Kinds
  <2>4. CASE LockContract(r)
    BY <1>0, <2>4, LeaveTypes DEF TypeOK, LockContract, Goto
  <2>5. CASE InsertNumbered(r)
    <3>1. kind[r] \in {"revision", "ipc"} /\ Rows(kind[r]) \in SUBSET Numbered
      BY <2>5, RowsFinite, Members DEF IInv, LocksInv, HoldsContract, InsertNumbered
    <3>2. NextNumber(Rows(kind[r])) \in Nat
      BY <1>0, <3>1, RowsFinite, NumberedUpTo DEF IInv, NumbersInv
    <3>3. num' \in [Requests -> Nat] /\ target' \in [Requests -> Numbered \cup {None}]
      BY <1>0, <2>5, <3>1, <3>2 DEF TypeOK, InsertNumbered, Unused
    <3>4. QED
      BY <1>0, <2>5, <3>3 DEF TypeOK, InsertNumbered, Goto
  <2>6. CASE CommitInsert(r)
    <3>1. number' \in [Numbered -> Nat]
      BY <1>0, <2>6 DEF TypeOK, CommitInsert
    <3>2. revStatus' \in [Revisions -> {"absent", "draft", "published", "superseded"}]
      BY <1>0, <2>6 DEF TypeOK, CommitInsert
    <3>3. onRevision' \in [Dependent -> Revisions \cup {None}]
      BY <1>0, <2>6 DEF TypeOK, CommitInsert
    <3>4. EndTransaction(r) /\ UNCHANGED <<status, supersedes, items>>
      BY <2>6 DEF CommitInsert
    <3>5. QED
      BY <1>0, <3>1, <3>2, <3>3, <3>4, EndTypes, LeaveTypes DEF TypeOK
  <2>7. CASE PublishRow(r)
    BY <1>0, <2>7, EndTypes, LeaveTypes DEF TypeOK, PublishRow, Goto
  <2>8. CASE Supersede(r)
    BY <1>0, <2>8 DEF TypeOK, Supersede, Goto, Published
  <2>9. CASE CommitPublish(r)
    <3>1. revStatus' \in [Revisions -> {"absent", "draft", "published", "superseded"}]
      BY <1>0, <2>9 DEF TypeOK, CommitPublish
    <3>2. supersedes' \in [Revisions -> Revisions \cup {None}]
      BY <1>0, <2>9 DEF TypeOK, CommitPublish
    <3>3. EndTransaction(r) /\ UNCHANGED <<status, number, items, onRevision>>
      BY <2>9 DEF CommitPublish
    <3>4. QED
      BY <1>0, <3>1, <3>2, <3>3, EndTypes, LeaveTypes DEF TypeOK
  <2>10. CASE CreateMeasurement(r)
    BY <1>0, <2>10, LeaveTypes DEF TypeOK, CreateMeasurement
  <2>11. CASE EditItems(r)
    BY <1>0, <2>11, LeaveTypes DEF TypeOK, EditItems
  <2>12. CASE Abort(r)
    BY <1>0, <2>12, EndTypes, LeaveTypes DEF TypeOK, Abort
  <2>13. QED
    BY <1>2, <2>1, <2>2, <2>3, <2>4, <2>5, <2>6, <2>7, <2>8, <2>9, <2>10, <2>11, <2>12 DEF Step
<1>3. CASE UNCHANGED vars
  BY <1>0, <1>3 DEF TypeOK, vars
<1>4. QED
  BY <1>1, <1>2, <1>3 DEF Next

-----------------------------------------------------------------------------
(* Preservation of the other parts.                                        *)

\* What depends on the tables only does not change with them.
LEMMA TablesUnchanged ==
  ASSUME UNCHANGED <<status, revStatus, number>>
  PROVE  /\ Blocked' = Blocked /\ Published' = Published /\ Issued' = Issued
         /\ \A k : Existing(Rows(k))' = Existing(Rows(k))
         /\ Existing(Revisions)' = Existing(Revisions) /\ Existing(Ipcs)' = Existing(Ipcs)
         /\ Taken(Revisions)' = Taken(Revisions) /\ Taken(Ipcs)' = Taken(Ipcs)
BY DEF Blocked, Published, Issued, Existing, Taken, Rows

\* A request that does nothing keeps what it knows if nothing is committed.
LEMMA OthersKeep ==
  ASSUME LocksInv, UNCHANGED <<status, revStatus, number>>, NEW s \in Requests,
         pc'[s] = pc[s], kind'[s] = kind[s], target'[s] = target[s],
         num'[s] = num[s], replaced'[s] = replaced[s],
         pc[s] \in Locked => contractLock' = contractLock
  PROVE  HoldsContract(s)'
<1>1. HoldsContract(s)
  BY DEF LocksInv
<1>2. \A k : Existing(Rows(k))' = Existing(Rows(k))
  BY TablesUnchanged
<1>3. Existing(Rows(kind[s]))' = Existing(Rows(kind[s]))
  BY DEF Existing, Rows
<1>4. Blocked' = Blocked /\ Published' = Published
  BY TablesUnchanged
<1>5. QED
  BY <1>1, <1>3, <1>4 DEF HoldsContract, Rows, Existing

\* One that does not hold the contract's row depends on a row that exists.
LEMMA OutsidersKeep ==
  ASSUME LocksInv, NEW s \in Requests, pc[s] \notin Locked,
         pc'[s] = pc[s], kind'[s] = kind[s], target'[s] = target[s],
         \A v \in Revisions : revStatus[v] # "absent" => revStatus'[v] # "absent"
  PROVE  HoldsContract(s)'
BY DEF LocksInv, HoldsContract, Locked

LEMMA LeftHolds ==
  ASSUME TypeOK, NEW r \in Requests, Leave(r)
  PROVE  /\ HoldsContract(r)'
         /\ \A s \in Requests \ {r} :
              /\ pc'[s] = pc[s] /\ kind'[s] = kind[s] /\ target'[s] = target[s]
              /\ num'[s] = num[s] /\ replaced'[s] = replaced[s]
<1>1. pc'[r] = "idle" /\ kind'[r] = None
  BY DEF TypeOK, Leave, Goto
<1>2. HoldsContract(r)'
  BY <1>1, NoneAssumption DEF HoldsContract, Locked, Kinds
<1>3. QED
  BY <1>2 DEF TypeOK, Leave, Goto

\* A request that commits or rolls back frees the contract's row.
LEMMA EndHolds ==
  ASSUME TypeOK, LocksInv, NEW r \in Requests, EndTransaction(r)
  PROVE  /\ HoldsContract(r)'
         /\ \A s \in Requests \ {r} :
              /\ pc'[s] = pc[s] /\ kind'[s] = kind[s] /\ target'[s] = target[s]
              /\ num'[s] = num[s] /\ replaced'[s] = replaced[s]
              /\ pc[s] \in Locked => contractLock' = contractLock
<1>1. Leave(r) /\ contractLock' = IF contractLock = r THEN None ELSE contractLock
  BY DEF EndTransaction
<1>2. \A s \in Requests : pc[s] \in Locked => contractLock = s
  BY DEF LocksInv, HoldsContract
<1>3. QED
  BY <1>1, <1>2, LeftHolds

LEMMA LocksStep == ASSUME IInv, [Next]_vars PROVE LocksInv'
<1> USE DEF tableVars, lockVars, reqVars
<1>0. TypeOK /\ LocksInv
  BY DEF IInv
<1>1. CASE PatchContract
  <2>1. SUFFICES ASSUME NEW s \in Requests PROVE HoldsContract(s)'
    BY DEF LocksInv
  <2>2. pc[s] \notin Locked
    BY <1>0, <1>1, Alone DEF PatchContract
  <2>3. QED
    BY <1>0, <1>1, <2>2, OutsidersKeep DEF PatchContract
<1>2. ASSUME NEW r \in Requests, Step(r) PROVE LocksInv'
  <2>1. ASSUME NEW k \in {"revision", "ipc", "measurement"}, ReadContract(r, k) PROVE LocksInv'
    <3>1. pc'[r] \notin Locked /\ kind'[r] \notin {"publish", "items"}
      BY <1>0, <2>1 DEF TypeOK, ReadContract, Goto, Locked
    <3>2. HoldsContract(r)'
      BY <3>1 DEF HoldsContract, Locked
    <3>3. \A s \in Requests \ {r} : HoldsContract(s)'
      BY <1>0, <2>1, OthersKeep DEF TypeOK, ReadContract, Goto
    <3>4. QED
      BY <3>2, <3>3 DEF LocksInv
  <2>2. CASE ReadRevision(r)
    <3>1. pc'[r] \notin Locked /\ kind' = kind /\ target' = target /\ revStatus' = revStatus
      BY <1>0, <2>2 DEF TypeOK, ReadRevision, Goto, Locked
    <3>2. HoldsContract(r)'
      BY <1>0, <3>1 DEF LocksInv, HoldsContract, Locked
    <3>3. \A s \in Requests \ {r} : HoldsContract(s)'
      BY <1>0, <2>2, OthersKeep DEF TypeOK, ReadRevision, Goto
    <3>4. QED
      BY <3>2, <3>3 DEF LocksInv
  <2>3. ASSUME NEW k \in {"publish", "items"}, NEW v \in Revisions, ReadTarget(r, k, v) PROVE LocksInv'
    <3>1. pc'[r] \notin Locked /\ target'[r] = v /\ revStatus'[v] # "absent"
      BY <1>0, <2>3 DEF TypeOK, ReadTarget, Goto, Locked
    <3>2. HoldsContract(r)'
      BY <3>1 DEF HoldsContract, Locked
    <3>3. \A s \in Requests \ {r} : HoldsContract(s)'
      BY <1>0, <2>3, OthersKeep DEF TypeOK, ReadTarget, Goto
    <3>4. QED
      BY <3>2, <3>3 DEF LocksInv
  <2>4. CASE LockContract(r)
    <3>1. CASE kind[r] = "publish" /\ Blocked
      <4>1. Leave(r) /\ UNCHANGED <<tableVars, lockVars>>
        BY <2>4, <3>1 DEF LockContract
      <4>2. QED
        BY <1>0, <4>1, LeftHolds, OthersKeep DEF LocksInv
    <3>2. CASE ~(kind[r] = "publish" /\ Blocked)
      <4>1. /\ contractLock = None /\ contractLock' = r
            /\ Goto(r, IF kind[r] = "publish" THEN "publish" ELSE "insert")
            /\ UNCHANGED <<tableVars, kind, target, base, num, replaced>>
            /\ kind[r] \in {"revision", "ipc", "publish"}
        BY <2>4, <3>2 DEF LockContract
      <4>2. pc'[r] = (IF kind[r] = "publish" THEN "publish" ELSE "insert")
        BY <1>0, <4>1 DEF TypeOK, Goto
      <4>3. HoldsContract(r)'
        BY <1>0, <3>2, <4>1, <4>2, TablesUnchanged DEF LocksInv, HoldsContract, Locked
      <4>4. \A s \in Requests \ {r} : pc[s] \notin Locked /\ pc'[s] = pc[s]
        BY <1>0, <4>1, Alone DEF TypeOK, Goto
      <4>5. \A s \in Requests \ {r} : HoldsContract(s)'
        BY <1>0, <4>1, <4>4, OutsidersKeep
      <4>6. QED
        BY <4>3, <4>5 DEF LocksInv
    <3>3. QED
      BY <3>1, <3>2
  <2>5. CASE InsertNumbered(r)
    <3>1. kind[r] \in {"revision", "ipc"} /\ contractLock = r
      BY <1>0, <2>5 DEF LocksInv, HoldsContract, InsertNumbered, Locked
    <3>2. NextNumber(Rows(kind[r])) = Cardinality(Existing(Rows(kind[r]))) + 1
      BY <1>0, <3>1, RowsFinite, Members, NumberedUpTo DEF IInv, NumbersInv
    <3>3. /\ pc'[r] = "commit" /\ kind' = kind /\ contractLock' = contractLock
          /\ num'[r] = Cardinality(Existing(Rows(kind[r]))) + 1
          /\ target'[r] \in Rows(kind[r]) \ Existing(Rows(kind[r]))
          /\ UNCHANGED tableVars
      BY <1>0, <2>5, <3>2 DEF TypeOK, InsertNumbered, Goto, Unused
    <3>4. Existing(Rows(kind[r]))' = Existing(Rows(kind[r])) /\ Rows(kind[r])' = Rows(kind[r])
      BY <3>3 DEF Existing, Rows
    <3>5. HoldsContract(r)'
      BY <3>1, <3>3, <3>4 DEF HoldsContract, Locked, Rows, Existing
    <3>6. \A s \in Requests \ {r} : HoldsContract(s)'
      BY <1>0, <2>5, OthersKeep DEF TypeOK, InsertNumbered, Goto
    <3>7. QED
      BY <3>5, <3>6 DEF LocksInv
  <2>6. CASE CommitInsert(r) \/ CommitPublish(r)
    <3>1. pc[r] \in Locked /\ EndTransaction(r)
      BY <2>6 DEF CommitInsert, CommitPublish, Locked
    <3>2. \A v \in Revisions : revStatus[v] # "absent" => revStatus'[v] # "absent"
      BY <1>0, <2>6 DEF TypeOK, CommitInsert, CommitPublish
    <3>3. \A s \in Requests \ {r} : pc[s] \notin Locked
      BY <1>0, <3>1, Alone
    <3>4. QED
      BY <1>0, <3>1, <3>2, <3>3, EndHolds, OutsidersKeep DEF LocksInv
  <2>7. CASE PublishRow(r)
    <3>1. CASE revStatus[target[r]] = "draft"
      <4>1. /\ pc[r] = "publish" /\ pc'[r] = "supersede"
            /\ UNCHANGED <<tableVars, contractLock, kind, target, base, num, replaced>>
            /\ \A s \in Requests \ {r} : pc'[s] = pc[s]
        BY <1>0, <2>7, <3>1 DEF TypeOK, PublishRow, Goto
      <4>2. HoldsContract(r)'
        BY <1>0, <3>1, <4>1, TablesUnchanged DEF LocksInv, HoldsContract, Locked
      <4>3. QED
        BY <1>0, <4>1, <4>2, OthersKeep DEF LocksInv
    <3>2. CASE revStatus[target[r]] # "draft"
      <4>1. EndTransaction(r) /\ UNCHANGED tableVars
        BY <2>7, <3>2 DEF PublishRow
      <4>2. QED
        BY <1>0, <4>1, EndHolds, OthersKeep DEF LocksInv
    <3>3. QED
      BY <3>1, <3>2
  <2>8. CASE Supersede(r)
    <3>1. kind[r] = "publish" /\ contractLock = r /\ revStatus[target[r]] = "draft" /\ ~Blocked
      BY <1>0, <2>8 DEF LocksInv, HoldsContract, Locked, Supersede
    <3>2. Published \ {target[r]} = Published
      BY <3>1 DEF Published
    <3>3. /\ pc'[r] = "commit" /\ replaced'[r] = Published
          /\ UNCHANGED <<tableVars, contractLock, kind, target>>
          /\ \A s \in Requests \ {r} : pc'[s] = pc[s] /\ num'[s] = num[s] /\ replaced'[s] = replaced[s]
      BY <1>0, <2>8, <3>2 DEF TypeOK, Supersede, Goto
    <3>4. HoldsContract(r)'
      BY <1>0, <3>1, <3>3, TablesUnchanged DEF LocksInv, HoldsContract, Locked
    <3>5. QED
      BY <1>0, <3>3, <3>4, OthersKeep DEF LocksInv
  <2>9. CASE CreateMeasurement(r) \/ EditItems(r)
    <3>1. Leave(r) /\ UNCHANGED <<status, revStatus, number, contractLock>>
      BY <2>9 DEF CreateMeasurement, EditItems
    <3>2. QED
      BY <1>0, <3>1, LeftHolds, OthersKeep DEF LocksInv
  <2>10. CASE Abort(r)
    <3>1. EndTransaction(r) /\ UNCHANGED tableVars
      BY <2>10 DEF Abort
    <3>2. QED
      BY <1>0, <3>1, EndHolds, OthersKeep DEF LocksInv
  <2>11. QED
    BY <1>2, <2>1, <2>2, <2>3, <2>4, <2>5, <2>6, <2>7, <2>8, <2>9, <2>10 DEF Step
<1>3. CASE UNCHANGED vars
  <2>1. \A s \in Requests : HoldsContract(s)'
    BY <1>0, <1>3, OthersKeep DEF vars
  <2>2. QED
    BY <2>1 DEF LocksInv
<1>4. QED
  BY <1>1, <1>2, <1>3 DEF Next

\* Every step other than a COMMIT of a new row or of a publication leaves the
\* status and number of every row alone.
LEMMA Writers ==
  ASSUME IInv, [Next]_vars
  PROVE  \/ UNCHANGED <<revStatus, number, supersedes>>
         \/ \E r \in Requests : CommitInsert(r) \/ CommitPublish(r)
<1> USE DEF tableVars, lockVars, reqVars
<1>1. CASE PatchContract
  BY <1>1 DEF PatchContract
<1>2. ASSUME NEW r \in Requests, Step(r)
      PROVE  UNCHANGED <<revStatus, number, supersedes>> \/ CommitInsert(r) \/ CommitPublish(r)
  BY <1>2 DEF Step, ReadContract, ReadRevision, ReadTarget, LockContract, InsertNumbered,
              PublishRow, Supersede, CreateMeasurement, EditItems, Abort
<1>3. CASE UNCHANGED vars
  BY <1>3 DEF vars
<1>4. QED
  BY <1>1, <1>2, <1>3 DEF Next

\* A new row: it did not exist, and it gets the next number of its table.
LEMMA InsertFacts ==
  ASSUME IInv, NEW r \in Requests, CommitInsert(r)
  PROVE  \E rows \in {Revisions, Ipcs} : \E x \in rows \ Existing(rows) :
           /\ number' = [number EXCEPT ![x] = Cardinality(Existing(rows)) + 1]
           /\ rows = Revisions => revStatus' = [revStatus EXCEPT ![x] = "draft"]
           /\ rows = Ipcs => revStatus' = revStatus
           /\ supersedes' = supersedes
<1>1. kind[r] \in {"revision", "ipc"} /\ pc[r] = "commit"
  BY DEF CommitInsert
<1>2. /\ target[r] \in Rows(kind[r]) \ Existing(Rows(kind[r]))
      /\ num[r] = Cardinality(Existing(Rows(kind[r]))) + 1
  BY <1>1 DEF IInv, LocksInv, HoldsContract
<1>3. CASE kind[r] = "revision"
  <2>1. Rows(kind[r]) = Revisions /\ (Revisions = Ipcs => revStatus' = revStatus)
    BY <1>2, <1>3, RowsFinite, RowsAssumption
  <2>2. QED
    BY <1>2, <1>3, <2>1 DEF CommitInsert
<1>4. CASE kind[r] = "ipc"
  <2>1. Rows(kind[r]) = Ipcs /\ Revisions # Ipcs
    BY <1>2, <1>4, RowsFinite, RowsAssumption
  <2>2. QED
    BY <1>2, <1>4, <2>1 DEF CommitInsert
<1>5. QED
  BY <1>1, <1>3, <1>4

\* A publication: a draft becomes the one published revision and names as its
\* predecessor the one that was.
LEMMA PublishFacts ==
  ASSUME IInv, NEW r \in Requests, CommitPublish(r)
  PROVE  \E v \in Revisions :
           /\ revStatus[v] = "draft" /\ ~Blocked
           /\ Published' = {v} /\ Issued' = Issued \cup {v}
           /\ \A w \in Revisions :
                revStatus'[w] = IF w = v THEN "published"
                                ELSE IF w \in Published THEN "superseded" ELSE revStatus[w]
           /\ \A w \in Revisions \ {v} : supersedes'[w] = supersedes[w]
           /\ \/ Published = {} /\ supersedes'[v] = supersedes[v]
              \/ supersedes'[v] \in Published
           /\ number' = number
<1> DEFINE v == target[r]
<1>1. pc[r] = "commit" /\ kind[r] = "publish"
  BY DEF CommitPublish
<1>2. v \in Revisions /\ revStatus[v] = "draft" /\ replaced[r] = Published /\ ~Blocked
  BY <1>1 DEF IInv, LocksInv, HoldsContract, Locked
<1>3. \A w \in Revisions :
        revStatus'[w] = IF w = v THEN "published"
                        ELSE IF w \in Published THEN "superseded" ELSE revStatus[w]
  BY <1>2 DEF CommitPublish
<1>4. Published' = {v}
  BY <1>2, <1>3 DEF Published
<1>5. Issued' = Issued \cup {v}
  BY <1>2, <1>3 DEF Issued, Published
<1>6. /\ \A w \in Revisions \ {v} : supersedes'[w] = supersedes[w]
      /\ \/ Published = {} /\ supersedes'[v] = supersedes[v]
         \/ supersedes'[v] \in Published
      /\ number' = number
  BY <1>2 DEF CommitPublish, IInv, TypeOK
<1>7. QED
  BY <1>2, <1>3, <1>4, <1>5, <1>6

\* A new row turns an absent revision into a draft at most.
LEMMA InsertStatus ==
  ASSUME IInv, NEW r \in Requests, CommitInsert(r)
  PROVE  /\ \A v \in Revisions :
              revStatus'[v] = revStatus[v] \/ (revStatus[v] = "absent" /\ revStatus'[v] = "draft")
         /\ supersedes' = supersedes /\ Issued' = Issued
<1>1. PICK rows \in {Revisions, Ipcs} : \E x \in rows \ Existing(rows) :
         /\ rows = Revisions => revStatus' = [revStatus EXCEPT ![x] = "draft"]
         /\ rows = Ipcs => revStatus' = revStatus
         /\ supersedes' = supersedes
  BY InsertFacts
<1>2. PICK x \in rows \ Existing(rows) :
         /\ rows = Revisions => revStatus' = [revStatus EXCEPT ![x] = "draft"]
         /\ rows = Ipcs => revStatus' = revStatus
         /\ supersedes' = supersedes
  BY <1>1
<1>3. rows = Revisions => revStatus[x] = "absent"
  BY <1>2 DEF IInv, RevisionsInv, Existing
<1>4. \A v \in Revisions :
        revStatus'[v] = revStatus[v] \/ (revStatus[v] = "absent" /\ revStatus'[v] = "draft")
  BY <1>1, <1>2, <1>3 DEF IInv, TypeOK
<1>5. QED
  BY <1>2, <1>4 DEF Issued

LEMMA RevisionsStep == ASSUME IInv, [Next]_vars PROVE RevisionsInv'
<1>0. RevisionsInv /\ TypeOK
  BY DEF IInv
<1>1. CASE UNCHANGED <<revStatus, number, supersedes>>
  BY <1>0, <1>1 DEF RevisionsInv, Issued, Published
<1>2. ASSUME NEW r \in Requests, CommitInsert(r) PROVE RevisionsInv'
  <2>1. PICK rows \in {Revisions, Ipcs} : \E x \in rows \ Existing(rows) :
           /\ number' = [number EXCEPT ![x] = Cardinality(Existing(rows)) + 1]
           /\ rows = Revisions => revStatus' = [revStatus EXCEPT ![x] = "draft"]
           /\ rows = Ipcs => revStatus' = revStatus
           /\ supersedes' = supersedes
    BY <1>2, InsertFacts
  <2>2. PICK x \in rows \ Existing(rows) :
           /\ number' = [number EXCEPT ![x] = Cardinality(Existing(rows)) + 1]
           /\ rows = Revisions => revStatus' = [revStatus EXCEPT ![x] = "draft"]
           /\ rows = Ipcs => revStatus' = revStatus
           /\ supersedes' = supersedes
    BY <2>1
  <2>3. Cardinality(Existing(rows)) \in Nat
    BY RowsFinite, FS_Subset, FS_CardinalityType DEF Existing
  <2>4. CASE rows = Revisions
    <3>1. revStatus[x] = "absent"
      BY <1>0, <2>2, <2>4, Members DEF RevisionsInv, Existing, TypeOK
    <3>2. \A v \in Revisions :
            /\ revStatus'[v] = IF v = x THEN "draft" ELSE revStatus[v]
            /\ number'[v] = IF v = x THEN Cardinality(Existing(rows)) + 1 ELSE number[v]
      BY <1>0, <2>2, <2>4, Members DEF TypeOK
    <3>3. Issued' = Issued /\ Published' = Published
      BY <3>1, <3>2 DEF Issued, Published
    <3>4. QED
      BY <1>0, <2>2, <2>3, <2>4, <3>1, <3>2, <3>3 DEF RevisionsInv
  <2>5. CASE rows = Ipcs
    <3>1. \A v \in Revisions : number'[v] = number[v]
      BY <1>0, <2>2, <2>5, Members, RowsAssumption DEF TypeOK
    <3>2. revStatus' = revStatus /\ Issued' = Issued /\ Published' = Published
      BY <2>2, <2>5 DEF Issued, Published
    <3>3. QED
      BY <1>0, <2>2, <3>1, <3>2 DEF RevisionsInv
  <2>6. QED
    BY <2>4, <2>5
<1>3. ASSUME NEW r \in Requests, CommitPublish(r) PROVE RevisionsInv'
  <2>1. PICK v \in Revisions :
           /\ revStatus[v] = "draft" /\ ~Blocked
           /\ Published' = {v} /\ Issued' = Issued \cup {v}
           /\ \A w \in Revisions :
                revStatus'[w] = IF w = v THEN "published"
                                ELSE IF w \in Published THEN "superseded" ELSE revStatus[w]
           /\ \A w \in Revisions \ {v} : supersedes'[w] = supersedes[w]
           /\ \/ Published = {} /\ supersedes'[v] = supersedes[v]
              \/ supersedes'[v] \in Published
           /\ number' = number
    BY <1>3, PublishFacts
  <2>2. \A w \in Revisions : revStatus'[w] = "absent" <=> revStatus[w] = "absent"
    BY <2>1 DEF Published
  <2>3. QED
    BY <1>0, <2>1, <2>2 DEF RevisionsInv
<1>4. QED
  BY <1>1, <1>2, <1>3, Writers

LEMMA NumbersStep == ASSUME IInv, [Next]_vars PROVE NumbersInv'
<1>0. NumbersInv /\ TypeOK
  BY DEF IInv
<1>1. CASE UNCHANGED number
  <2>1. \A rows : Existing(rows)' = Existing(rows) /\ Taken(rows)' = Taken(rows)
    BY <1>1 DEF Existing, Taken
  <2>2. /\ Existing(Revisions)' = Existing(Revisions) /\ Taken(Revisions)' = Taken(Revisions)
        /\ Existing(Ipcs)' = Existing(Ipcs) /\ Taken(Ipcs)' = Taken(Ipcs)
    BY <1>1 DEF Existing, Taken
  <2>3. QED
    BY <1>0, <2>2 DEF NumbersInv
<1>2. ASSUME NEW r \in Requests, CommitInsert(r) PROVE NumbersInv'
  <2>1. PICK rows \in {Revisions, Ipcs} : \E x \in rows \ Existing(rows) :
           number' = [number EXCEPT ![x] = Cardinality(Existing(rows)) + 1]
    BY <1>2, InsertFacts
  <2>2. PICK x \in rows \ Existing(rows) :
           number' = [number EXCEPT ![x] = Cardinality(Existing(rows)) + 1]
    BY <2>1
  <2>3. Taken(rows)' = 1..Cardinality(Existing(rows))'
    BY <1>0, <2>2, NumberingGrows, RowsFinite, Members DEF NumbersInv
  <2>4. ASSUME NEW other \in {Revisions, Ipcs}, other # rows
        PROVE  Existing(other)' = Existing(other) /\ Taken(other)' = Taken(other)
    <3>1. other \subseteq Numbered /\ x \notin other /\ x \in Numbered
      BY <2>2, <2>4, Members, RowsAssumption
    <3>2. \A y \in other : number'[y] = number[y]
      BY <1>0, <2>2, <3>1 DEF TypeOK
    <3>3. Existing(other)' = Existing(other)
      BY <3>2 DEF Existing
    <3>4. QED
      BY <3>2, <3>3 DEF Taken, Existing
  <2>5. CASE rows = Revisions
    BY <1>0, <2>3, <2>4, <2>5 DEF NumbersInv
  <2>6. CASE rows = Ipcs
    BY <1>0, <2>3, <2>4, <2>6 DEF NumbersInv
  <2>7. QED
    BY <2>5, <2>6
<1>3. ASSUME NEW r \in Requests, CommitPublish(r) PROVE NumbersInv'
  BY <1>1, <1>3, PublishFacts
<1>4. QED
  BY <1>1, <1>2, <1>3, Writers

LEMMA Invariant == Spec => []IInv
<1>1. IInv /\ [Next]_vars => IInv'
  BY TypeStep, LocksStep, RevisionsStep, NumbersStep DEF IInv
<1>2. QED
  BY <1>1, InitCorrect, PTL DEF Spec

-----------------------------------------------------------------------------
(* Theorems.                                                               *)

\* The variables keep their types, for every instance.
THEOREM TypeCorrect == Spec => []TypeOK
<1>1. IInv => TypeOK
  BY DEF IInv
<1>2. QED
  BY <1>1, Invariant, PTL

\* However many drafts of a contract are published at the same moment, one
\* revision at most is published.
THEOREM OnePublishedCorrect == Spec => []OnePublished
<1>1. IInv => OnePublished
  <2> SUFFICES ASSUME IInv PROVE Cardinality(Published) <= 1
    BY DEF OnePublished
  <2>1. CASE Published = {}
    BY <2>1, FS_EmptySet
  <2>2. ASSUME NEW v \in Published PROVE Cardinality(Published) <= 1
    <3>1. Published = {v}
      BY <2>2 DEF IInv, RevisionsInv
    <3>2. Cardinality({v}) = 1
      BY FS_Singleton
    <3>3. QED
      BY <3>1, <3>2
  <2>3. QED
    BY <2>1, <2>2
<1>2. QED
  BY <1>1, Invariant, PTL

\* Revisions and IPCs are numbered without gap or duplicate and the unique
\* index never refuses one, for any number of concurrent requests.
THEOREM NumbersSequentialCorrect == Spec => []NumbersSequential
<1>1. IInv => NumbersSequential
  <2> SUFFICES ASSUME IInv PROVE NumbersOf(Revisions) /\ NumbersOf(Ipcs)
    BY DEF NumbersSequential
  <2>1. ASSUME NEW rows \in {Revisions, Ipcs}, NEW r \in Inserted(rows)
        PROVE  num[r] = Cardinality(Existing(rows)) + 1
    <3>1. r \in Requests /\ pc[r] = "commit" /\ target[r] \in rows /\ kind[r] # "publish"
      BY DEF Inserted
    <3>2. /\ kind[r] \in {"revision", "ipc"}
          /\ target[r] \in Rows(kind[r])
          /\ num[r] = Cardinality(Existing(Rows(kind[r]))) + 1
      BY <3>1 DEF IInv, LocksInv, HoldsContract
    <3>3. Rows(kind[r]) = rows
      BY <3>1, <3>2, RowsFinite, RowsAssumption
    <3>4. QED
      BY <3>2, <3>3
  <2>2. ASSUME NEW rows, NEW r \in Inserted(rows), NEW s \in Inserted(rows) PROVE r = s
    BY Alone DEF IInv, Inserted, Locked
  <2>3. QED
    BY <2>1, <2>2 DEF IInv, NumbersInv, NumbersOf
<1>2. QED
  BY <1>1, Invariant, PTL

\* Each publication extends the chain of issued revisions by one and rewrites
\* nothing of it.
THEOREM HistoryOnlyGrowsCorrect == Spec => HistoryOnlyGrows
<1>1. IInv /\ [Next]_vars => HistoryExtended
  <2> SUFFICES ASSUME IInv, [Next]_vars PROVE HistoryExtended
    OBVIOUS
  <2>0. TypeOK /\ RevisionsInv
    BY DEF IInv
  <2>1. CASE UNCHANGED <<revStatus, number, supersedes>>
    BY <2>1 DEF HistoryExtended, Issued
  <2>2. ASSUME NEW r \in Requests, CommitInsert(r) PROVE HistoryExtended
    BY <2>2, InsertStatus DEF HistoryExtended
  <2>3. ASSUME NEW r \in Requests, CommitPublish(r) PROVE HistoryExtended
    <3>1. PICK v \in Revisions :
             /\ revStatus[v] = "draft"
             /\ Issued' = Issued \cup {v}
             /\ \A w \in Revisions :
                  revStatus'[w] = IF w = v THEN "published"
                                  ELSE IF w \in Published THEN "superseded" ELSE revStatus[w]
             /\ \A w \in Revisions \ {v} : supersedes'[w] = supersedes[w]
             /\ \/ Published = {} /\ supersedes'[v] = supersedes[v]
                \/ supersedes'[v] \in Published
      BY <2>3, PublishFacts
    <3>2. v \notin Issued /\ supersedes[v] = None
      BY <2>0, <3>1 DEF Issued, RevisionsInv
    <3>3. \/ Issued = {} /\ supersedes'[v] = None
          \/ Published = {supersedes'[v]}
      BY <2>0, <3>1, <3>2 DEF RevisionsInv
    <3>4. \A w \in Revisions : revStatus[w] = "superseded" => revStatus'[w] = "superseded"
      BY <3>1 DEF Published
    <3>5. QED
      BY <3>1, <3>2, <3>3, <3>4 DEF HistoryExtended
  <2>4. QED
    BY <2>1, <2>2, <2>3, Writers
<1>2. QED
  BY <1>1, Invariant, PTL DEF Spec, HistoryOnlyGrows

\* No step changes the items of a revision that is, or is being, issued.
THEOREM PublishedItemsFixedCorrect == Spec => PublishedItemsFixed
<1>1. IInv /\ [Next]_vars => ItemsKept
  <2> SUFFICES ASSUME IInv, [Next]_vars PROVE ItemsKept
    OBVIOUS
  <2> USE DEF tableVars
  <2>1. CASE PatchContract
    BY <2>1 DEF PatchContract, ItemsKept
  <2>2. ASSUME NEW r \in Requests, Step(r) PROVE ItemsKept
    <3>1. CASE EditItems(r)
      BY <3>1 DEF EditItems, ItemsKept, Issued, IInv, TypeOK
    <3>2. CASE items' = items
      BY <3>2 DEF ItemsKept
    <3>3. QED
      BY <2>2, <3>1, <3>2
      DEF Step, ReadContract, ReadRevision, ReadTarget, LockContract, InsertNumbered, CommitInsert,
          PublishRow, Supersede, CommitPublish, CreateMeasurement, Abort
  <2>3. CASE UNCHANGED vars
    BY <2>3 DEF vars, ItemsKept
  <2>4. QED
    BY <2>1, <2>2, <2>3 DEF Next
<1>2. QED
  BY <1>1, Invariant, PTL DEF Spec, PublishedItemsFixed

\* A contract that is completed or terminated gains no published revision,
\* also when it ends while a publication runs.
THEOREM NoPublishAfterEndCorrect == Spec => NoPublishAfterEnd
<1>1. IInv /\ [Next]_vars => NothingIssued
  <2> SUFFICES ASSUME IInv, [Next]_vars, Blocked PROVE Issued' = Issued
    BY DEF NothingIssued
  <2>1. CASE UNCHANGED <<revStatus, number, supersedes>>
    BY <2>1 DEF Issued
  <2>2. ASSUME NEW r \in Requests, CommitInsert(r) PROVE Issued' = Issued
    BY <2>2, InsertStatus
  <2>3. ASSUME NEW r \in Requests, CommitPublish(r) PROVE FALSE
    BY <2>3, PublishFacts
  <2>4. QED
    BY <2>1, <2>2, <2>3, Writers
<1>2. QED
  BY <1>1, Invariant, PTL DEF Spec, NoPublishAfterEnd
=============================================================================
