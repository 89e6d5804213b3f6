------------------------- MODULE CertificationProofs -------------------------
(***************************************************************************)
(* Theorems about CertificationLedger, for every finite set of documents   *)
(* and items, every BOQ quantity and any number of concurrent requests.    *)
(***************************************************************************)
EXTENDS CertificationLedger, FiniteSetTheorems, WellFoundedInduction, TLAPS

-----------------------------------------------------------------------------
(* Sums of lines.                                                          *)

LEMMA UnitsFinite ==
  ASSUME NEW S \in SUBSET Documents, NEW i \in Items
  PROVE  IsFiniteSet(Units(S, i)) /\ Cardinality(Units(S, i)) \in Nat
<1>1. IsFiniteSet(S)
  <2>1. IsFiniteSet(Documents)
    BY DocumentsAssumption, FS_Union DEF Documents
  <2>2. QED
    BY <2>1, FS_Subset
<1>2. IsFiniteSet(1..MaxLines)
  BY BoundAssumption, FS_Interval
<1>3. IsFiniteSet(S \X (1..MaxLines))
  BY <1>1, <1>2, FS_Product
<1>4. Units(S, i) \in SUBSET (S \X (1..MaxLines))
  BY DEF Units
<1>5. IsFiniteSet(Units(S, i))
  BY <1>3, <1>4, FS_Subset
<1>6. QED
  BY <1>5, FS_CardinalityType

LEMMA SumsInNat ==
  ASSUME NEW i \in Items
  PROVE  sumApprovedQuantity(i) \in Nat /\ certifiedQuantity(i) \in Nat
<1>1. Approved \in SUBSET Documents /\ Certified \in SUBSET Documents
  BY DEF Approved, Certified, Documents
<1>2. QED
  BY <1>1, UnitsFinite DEF sumApprovedQuantity, certifiedQuantity

\* One more document adds its own lines to a sum.
LEMMA AddDocument ==
  ASSUME TypeOK, NEW S \in SUBSET Documents, NEW d \in Documents \ S, NEW i \in Items
  PROVE  Cardinality(Units(S \cup {d}, i)) = Cardinality(Units(S, i)) + lines[d][i]
<1> DEFINE n == lines[d][i]
           own == {d} \X (1..n)
<1>1. n \in 0..MaxLines
  BY DEF TypeOK, Documents
<1>2. Units(S \cup {d}, i) = Units(S, i) \cup own
  <2>1. \A u : u \in Units(S \cup {d}, i) <=> u \in Units(S, i) \/ u \in own
    BY <1>1, BoundAssumption DEF Units
  <2>2. QED
    BY <2>1
<1>3. Units(S, i) \cap own = {}
  BY DEF Units
<1>4. IsFiniteSet(own) /\ Cardinality(own) = n
  <2>1. IsFiniteSet({d}) /\ Cardinality({d}) = 1
    BY FS_Singleton
  <2>2. IsFiniteSet(1..n) /\ Cardinality(1..n) = n
    <3>1. n \in Nat
      BY <1>1, BoundAssumption
    <3> HIDE DEF n
    <3>2. n \in Int /\ 1 \in Int
      BY <3>1
    <3>3. IsFiniteSet(1..n) /\ Cardinality(1..n) = IF 1 > n THEN 0 ELSE n - 1 + 1
      BY <3>2, FS_Interval
    <3>4. QED
      BY <3>1, <3>3
  <2>3. IsFiniteSet(own) /\ Cardinality(own) = Cardinality({d}) * Cardinality(1..n)
    BY <2>1, <2>2, FS_Product
  <2>4. 1 * n = n
    BY <1>1, BoundAssumption
  <2>5. QED
    BY <2>1, <2>2, <2>3, <2>4
<1>5. IsFiniteSet(Units(S, i)) /\ Cardinality(Units(S, i)) \in Nat
  BY UnitsFinite
<1>6. Cardinality(Units(S, i) \cup own)
        = Cardinality(Units(S, i)) + Cardinality(own) - Cardinality({})
  BY <1>3, <1>4, <1>5, FS_Union
<1>7. Cardinality({}) = 0
  BY FS_EmptySet
<1>8. n \in Nat
  BY <1>1, BoundAssumption
<1> HIDE DEF own
<1>9. Cardinality(Units(S, i)) + n - 0 = Cardinality(Units(S, i)) + n
  BY <1>5, <1>8
<1>10. QED
  BY <1>2, <1>4, <1>6, <1>7, <1>9

-----------------------------------------------------------------------------
(* Types.                                                                  *)

LEMMA TypeInit == Init => TypeOK
BY BoundAssumption DEF Init, TypeOK, EDITABLE_STATUSES

\* What the request r remembers and holds is gone when its transaction ends.
LEMMA LeaveFacts ==
  ASSUME TypeOK, NEW r \in Requests, Leave(r)
  PROVE  /\ rpc' \in [Requests -> {"idle", "lock", "insert"} \cup Deciding]
         /\ doc' \in [Requests -> Documents \cup {None}]
         /\ todo' \in [Requests -> SUBSET Items]
         /\ before' \in [Requests -> [Items -> Nat]]
         /\ rate' \in [Requests -> Retentions \cup {None}]
         /\ item' \in [Requests -> Items \cup {None}]
         /\ rpc'[r] = "idle"
         /\ \A q \in Requests \ {r} :
              /\ rpc'[q] = rpc[q] /\ doc'[q] = doc[q] /\ todo'[q] = todo[q]
              /\ before'[q] = before[q] /\ rate'[q] = rate[q] /\ item'[q] = item[q]
BY DEF TypeOK, Leave, Goto

LEMMA EndFacts ==
  ASSUME TypeOK, NEW r \in Requests, EndTransaction(r)
  PROVE  /\ docLock' \in [Documents -> Requests \cup {None}]
         /\ contractLock' \in Requests \cup {None}
         /\ itemLock' \in [Items -> Requests \cup {None}]
         /\ contractLock' # r
         /\ \A d \in Documents : docLock'[d] # r
         /\ \A i \in Items : itemLock'[i] # r
         /\ \A q \in Requests \ {r} :
              /\ contractLock' = q <=> contractLock = q
              /\ \A d \in Documents : docLock'[d] = q <=> docLock[d] = q
              /\ \A i \in Items : itemLock'[i] = q <=> itemLock[i] = q
BY NoneAssumption DEF TypeOK, EndTransaction

LEMMA TypeStep == ASSUME TypeOK, LedgerLocks, [Next]_vars PROVE TypeOK'
<1> USE BoundAssumption
<1> USE DEF TypeOK, docVars, lockVars, reqVars, Goto, Deciding
<1>1. CASE DocumentStep
  <2>1. CASE \E m \in Measurements, i \in Items : AddMeasurementLine(m, i)
    BY <2>1 DEF AddMeasurementLine, Documents
  <2>2. CASE \E d \in Documents, i \in Items : DeleteLine(d, i)
    BY <2>2 DEF DeleteLine
  <2>3. CASE \E d \in Documents : Submit(d) \/ Reject(d)
    BY <2>3 DEF Submit, Reject, SetStatus, EDITABLE_STATUSES
  <2>4. CASE \E c \in Ipcs : ApproveIpc(c)
    BY <2>4 DEF ApproveIpc, SetStatus, Documents
  <2>5. QED
    BY <1>1, <2>1, <2>2, <2>3, <2>4 DEF DocumentStep
<1>2. CASE PatchContract
  BY <1>2 DEF PatchContract
<1>3. ASSUME NEW r \in Requests, RequestStep(r) PROVE TypeOK'
  <2>1. CASE \E c \in Ipcs, i \in Items : CheckRemaining(r, c, i)
    BY <2>1 DEF CheckRemaining, Documents
  <2>2. CASE InsertIpcLine(r)
    BY <2>2, LeaveFacts DEF InsertIpcLine, LedgerLocks, HoldsItsRows
  <2>3. CASE \E d \in Documents : ReadDocument(r, d)
    BY <2>3 DEF ReadDocument
  <2>4. CASE LockDocument(r)
    <3>1. CASE status[doc[r]] = Awaited(doc[r])
      <4>1. /\ rpc' = [rpc EXCEPT ![r] = IF doc[r] \in Measurements THEN "items" ELSE "contract"]
            /\ docLock[doc[r]] = None /\ docLock' = [docLock EXCEPT ![doc[r]] = r]
            /\ todo' = [todo EXCEPT ![r] = {i \in Items : lines[doc[r]][i] > 0}]
            /\ UNCHANGED <<doc, before, rate, item, docVars, retention, contractLock, itemLock>>
            /\ rpc[r] = "lock"
        BY <2>4, <3>1 DEF LockDocument
      <4>2. QED
        BY <3>1, <4>1
    <3>2. CASE status[doc[r]] # Awaited(doc[r])
      <4>1. Leave(r) /\ UNCHANGED <<docVars, retention, lockVars>>
        BY <2>4, <3>2 DEF LockDocument
      <4>2. QED
        BY <4>1, LeaveFacts
    <3>3. QED
      BY <3>1, <3>2
  <2>5. CASE LockContract(r)
    BY <2>5 DEF LockContract
  <2>6. CASE LockItem(r)
    BY <2>6, SumsInNat DEF LockItem
  <2>7. CASE Overrun(r) \/ Abort(r)
    <3>1. EndTransaction(r) /\ UNCHANGED <<docVars, retention>>
      BY <2>7 DEF Overrun, Abort
    <3>2. Leave(r)
      BY <3>1 DEF EndTransaction
    <3>3. QED
      BY <3>1, <3>2, LeaveFacts, EndFacts
  <2>8. CASE Decide(r)
    <3>1. EndTransaction(r) /\ UNCHANGED <<lines, retention>>
      BY <2>8 DEF Decide
    <3>2. Leave(r)
      BY <3>1 DEF EndTransaction
    <3>3. /\ status' \in [Documents -> EDITABLE_STATUSES \cup {"submitted", "approved", "certified"}]
          /\ previous' \in [Ipcs -> [Items -> Nat]]
          /\ frozenRate' \in [Ipcs -> Retentions \cup {None}]
      BY <2>8 DEF Decide
    <3>4. QED
      BY <3>1, <3>2, <3>3, LeaveFacts, EndFacts
  <2>9. QED
    BY <1>3, <2>1, <2>2, <2>3, <2>4, <2>5, <2>6, <2>7, <2>8 DEF RequestStep
<1>4. CASE UNCHANGED vars
  BY <1>4 DEF vars
<1>5. QED
  BY <1>1, <1>2, <1>3, <1>4 DEF Next

-----------------------------------------------------------------------------
(* Locks.                                                                  *)

LEMMA LocksInit == Init => LedgerLocks
BY NoneAssumption DEF Init, LedgerLocks, HoldsItsRows, Deciding

\* A transaction that ends leaves no row locked, and the others hold theirs.
LEMMA EndKeepsLocks ==
  ASSUME TypeOK, LedgerLocks, NEW r \in Requests, EndTransaction(r), retention' = retention,
         rpc[r] \notin Deciding => status' = status,
         \A d \in Documents : d # doc[r] => status'[d] = status[d]
  PROVE  LedgerLocks'
<1> USE DEF HoldsItsRows, Deciding, Awaited, Documents
<1>1. Leave(r)
  BY DEF EndTransaction
<1>2. HoldsItsRows(r)'
  BY <1>1, LeaveFacts, EndFacts
<1>3. ASSUME NEW q \in Requests \ {r} PROVE HoldsItsRows(q)'
  <2>1. /\ rpc'[q] = rpc[q] /\ doc'[q] = doc[q] /\ todo'[q] = todo[q]
        /\ rate'[q] = rate[q] /\ item'[q] = item[q]
    BY <1>1, LeaveFacts
  <2>2. /\ contractLock' = q <=> contractLock = q
        /\ \A d \in Documents : docLock'[d] = q <=> docLock[d] = q
        /\ \A i \in Items : itemLock'[i] = q <=> itemLock[i] = q
    BY EndFacts
  <2>3. HoldsItsRows(q)
    BY DEF LedgerLocks
  <2>4. rpc[q] \in Deciding /\ rpc[r] \in Deciding => doc[q] # doc[r]
    BY <2>3 DEF LedgerLocks
  <2>5. rpc[q] \in Deciding => doc[q] \in Documents /\ status'[doc[q]] = status[doc[q]]
    BY <2>3, <2>4
  <2>6. QED
    BY <2>1, <2>2, <2>3, <2>5
<1>4. QED
  BY <1>2, <1>3 DEF LedgerLocks

LEMMA LocksStep == ASSUME TypeOK, LedgerLocks, [Next]_vars PROVE LedgerLocks'
<1> USE NoneAssumption, ItemsAssumption, DocumentsAssumption
<1> USE DEF TypeOK, LedgerLocks, HoldsItsRows, docVars, lockVars, reqVars, Goto, Deciding, Awaited, Documents
<1>1. CASE DocumentStep
  <2>1. UNCHANGED <<retention, lockVars, reqVars>>
    BY <1>1 DEF DocumentStep, AddMeasurementLine, DeleteLine, Submit, Reject, ApproveIpc, SetStatus
  <2>2. \A d \in Documents : docLock[d] # None => status'[d] = status[d]
    BY <1>1 DEF DocumentStep, AddMeasurementLine, DeleteLine, Submit, Reject, ApproveIpc, SetStatus, Editable
  <2>3. QED
    BY <2>1, <2>2
<1>2. CASE PatchContract
  BY <1>2 DEF PatchContract
<1>3. ASSUME NEW r \in Requests, RequestStep(r) PROVE LedgerLocks'
  <2>0. ASSUME Leave(r), UNCHANGED <<status, retention, lockVars>>,
               rpc[r] \in {"lock", "insert"}
        PROVE  LedgerLocks'
    <3>1. HoldsItsRows(r)'
      BY <2>0, LeaveFacts
    <3>2. ASSUME NEW q \in Requests \ {r} PROVE HoldsItsRows(q)'
      <4>1. /\ rpc'[q] = rpc[q] /\ doc'[q] = doc[q] /\ todo'[q] = todo[q]
            /\ rate'[q] = rate[q] /\ item'[q] = item[q]
        BY <2>0, LeaveFacts
      <4>2. UNCHANGED <<status, retention, docLock, contractLock, itemLock>>
        BY <2>0
      <4>3. HoldsItsRows(q)
        OBVIOUS
      <4>4. QED
        BY <4>1, <4>2, <4>3
    <3>3. QED
      BY <3>1, <3>2
  <2>1. CASE \E c \in Ipcs, i \in Items : CheckRemaining(r, c, i)
    BY <2>1 DEF CheckRemaining
  <2>2. CASE InsertIpcLine(r)
    BY <2>0, <2>2 DEF InsertIpcLine
  <2>3. CASE \E d \in Documents : ReadDocument(r, d)
    BY <2>3 DEF ReadDocument
  <2>4. CASE LockDocument(r)
    <3>1. CASE status[doc[r]] = Awaited(doc[r])
      <4>1. /\ rpc' = [rpc EXCEPT ![r] = IF doc[r] \in Measurements THEN "items" ELSE "contract"]
            /\ docLock[doc[r]] = None /\ docLock' = [docLock EXCEPT ![doc[r]] = r]
            /\ todo' = [todo EXCEPT ![r] = {i \in Items : lines[doc[r]][i] > 0}]
            /\ UNCHANGED <<doc, before, rate, item, docVars, retention, contractLock, itemLock>>
            /\ rpc[r] = "lock"
        BY <2>4, <3>1 DEF LockDocument
      <4>2. QED
        BY <3>1, <4>1
    <3>2. CASE status[doc[r]] # Awaited(doc[r])
      BY <2>0, <2>4, <3>2 DEF LockDocument
    <3>3. QED
      BY <3>1, <3>2
  <2>5. CASE LockContract(r)
    BY <2>5 DEF LockContract
  <2>6. CASE LockItem(r)
    BY <2>6 DEF LockItem, NextItem
  <2>7. CASE Overrun(r) \/ Abort(r)
    <3>1. EndTransaction(r) /\ UNCHANGED <<docVars, retention>>
      BY <2>7 DEF Overrun, Abort
    <3>2. status' = status /\ retention' = retention
      BY <3>1
    <3>3. QED
      BY <3>1, <3>2, EndKeepsLocks
  <2>8. CASE Decide(r)
    <3>1. EndTransaction(r) /\ retention' = retention
      BY <2>8 DEF Decide
    <3>2. \A d \in Documents : d # doc[r] => status'[d] = status[d]
      BY <2>8 DEF Decide
    <3>3. rpc[r] \in Deciding
      BY <2>8 DEF Decide
    <3>4. QED
      BY <3>1, <3>2, <3>3, EndKeepsLocks
  <2>9. QED
    BY <1>3, <2>1, <2>2, <2>3, <2>4, <2>5, <2>6, <2>7, <2>8 DEF RequestStep
<1>4. CASE UNCHANGED vars
  BY <1>4 DEF vars
<1>5. QED
  BY <1>1, <1>2, <1>3, <1>4 DEF Next

\* Type correctness, and that a row is locked by the request that holds it,
\* in every reachable state of the two routers.
THEOREM TypeCorrect == Spec => [](TypeOK /\ LedgerLocks)
<1>1. Init => TypeOK /\ LedgerLocks
  BY TypeInit, LocksInit
<1>2. TypeOK /\ LedgerLocks /\ [Next]_vars => (TypeOK /\ LedgerLocks)'
  BY TypeStep, LocksStep
<1>3. QED
  BY <1>1, <1>2, PTL DEF Spec

-----------------------------------------------------------------------------
(* How the steps change the sums.                                          *)

\* Only a decision changes what is approved or certified.
LEMMA Frame ==
  ASSUME TypeOK, LedgerLocks, [Next]_vars, \A r \in Requests : ~Decide(r)
  PROVE  /\ Approved' = Approved /\ Certified' = Certified
         /\ \A d \in Approved \cup Certified : lines'[d] = lines[d]
         /\ previous' = previous
<1> USE DocumentsAssumption
<1> USE DEF TypeOK, docVars, Approved, Certified, Documents, EDITABLE_STATUSES
<1>1. CASE DocumentStep
  <2>1. CASE \E m \in Measurements, i \in Items : AddMeasurementLine(m, i)
    BY <2>1 DEF AddMeasurementLine, Editable
  <2>2. CASE \E d \in Documents, i \in Items : DeleteLine(d, i)
    BY <2>2 DEF DeleteLine, Editable
  <2>3. CASE \E d \in Documents : Submit(d) \/ Reject(d)
    BY <2>3 DEF Submit, Reject, SetStatus, Editable
  <2>4. CASE \E c \in Ipcs : ApproveIpc(c)
    BY <2>4 DEF ApproveIpc, SetStatus
  <2>5. QED
    BY <1>1, <2>1, <2>2, <2>3, <2>4 DEF DocumentStep
<1>2. CASE PatchContract
  BY <1>2 DEF PatchContract
<1>3. ASSUME NEW r \in Requests, InsertIpcLine(r)
      PROVE  /\ status' = status /\ previous' = previous
             /\ \A d \in Approved \cup Certified : lines'[d] = lines[d]
  BY <1>3 DEF InsertIpcLine, LedgerLocks, HoldsItsRows
<1>4. ASSUME NEW r \in Requests, RequestStep(r), ~InsertIpcLine(r)
      PROVE  UNCHANGED docVars
  BY <1>4 DEF RequestStep, CheckRemaining, ReadDocument, LockDocument, LockContract, LockItem, Overrun, Abort
<1>5. CASE UNCHANGED vars
  BY <1>5 DEF vars
<1>6. QED
  BY <1>1, <1>2, <1>3, <1>4, <1>5 DEF Next

LEMMA SameApproved ==
  ASSUME Approved' = Approved, \A d \in Approved : lines'[d] = lines[d]
  PROVE  \A i \in Items : sumApprovedQuantity(i)' = sumApprovedQuantity(i)
<1>1. \A i \in Items, u \in Approved \X (1..MaxLines) : lines'[u[1]][i] = lines[u[1]][i]
  OBVIOUS
<1>2. \A i \in Items : Units(Approved, i)' = Units(Approved, i)
  BY <1>1 DEF Units
<1>3. QED
  BY <1>2 DEF sumApprovedQuantity

LEMMA SameCertified ==
  ASSUME Certified' = Certified, \A d \in Certified : lines'[d] = lines[d]
  PROVE  \A i \in Items : certifiedQuantity(i)' = certifiedQuantity(i)
<1>1. \A i \in Items, u \in Certified \X (1..MaxLines) : lines'[u[1]][i] = lines[u[1]][i]
  OBVIOUS
<1>2. \A i \in Items : Units(Certified, i)' = Units(Certified, i)
  BY <1>1 DEF Units
<1>3. QED
  BY <1>2 DEF certifiedQuantity

\* The approval of a measurement adds its lines to the approved quantities.
LEMMA ApproveAdds ==
  ASSUME TypeOK, LedgerLocks, NEW r \in Requests, Decide(r), doc[r] \in Measurements
  PROVE  /\ lines' = lines /\ previous' = previous /\ Certified' = Certified
         /\ \A i \in Items :
              /\ sumApprovedQuantity(i)' = sumApprovedQuantity(i) + lines[doc[r]][i]
              /\ certifiedQuantity(i)' = certifiedQuantity(i)
<1>1. /\ status[doc[r]] = "submitted" /\ status' = [status EXCEPT ![doc[r]] = "approved"]
      /\ lines' = lines /\ previous' = previous
  BY DocumentsAssumption DEF Decide, LedgerLocks, HoldsItsRows, Deciding, Awaited
<1>2. Approved' = Approved \cup {doc[r]} /\ doc[r] \notin Approved /\ Certified' = Certified
  BY <1>1, DocumentsAssumption DEF TypeOK, Approved, Certified, Documents
<1>3. ASSUME NEW i \in Items
      PROVE  sumApprovedQuantity(i)' = sumApprovedQuantity(i) + lines[doc[r]][i]
  <2>1. Units(Approved, i)' = Units(Approved \cup {doc[r]}, i)
    BY <1>1, <1>2 DEF Units
  <2>2. Approved \in SUBSET Documents /\ doc[r] \in Documents \ Approved
    BY <1>2 DEF Approved, Documents
  <2>3. Cardinality(Units(Approved \cup {doc[r]}, i)) = Cardinality(Units(Approved, i)) + lines[doc[r]][i]
    BY <2>2, AddDocument
  <2>4. QED
    BY <2>1, <2>3 DEF sumApprovedQuantity
<1>4. QED
  BY <1>1, <1>2, <1>3, SameCertified

\* The certification of an IPC adds its lines to the certified quantities.
LEMMA CertifyAdds ==
  ASSUME TypeOK, LedgerLocks, NEW r \in Requests, Decide(r), doc[r] \in Ipcs
  PROVE  /\ lines' = lines /\ previous' = [previous EXCEPT ![doc[r]] = before[r]]
         /\ Certified' = Certified \cup {doc[r]} /\ doc[r] \notin Certified
         /\ \A i \in Items :
              /\ sumApprovedQuantity(i)' = sumApprovedQuantity(i)
              /\ certifiedQuantity(i)' = certifiedQuantity(i) + lines[doc[r]][i]
<1>1. /\ status[doc[r]] = "approved" /\ status' = [status EXCEPT ![doc[r]] = "certified"]
      /\ lines' = lines /\ previous' = [previous EXCEPT ![doc[r]] = before[r]]
  BY DocumentsAssumption DEF Decide, LedgerLocks, HoldsItsRows, Deciding, Awaited
<1>2. Certified' = Certified \cup {doc[r]} /\ doc[r] \notin Certified /\ Approved' = Approved
  BY <1>1, DocumentsAssumption DEF TypeOK, Approved, Certified, Documents
<1>3. ASSUME NEW i \in Items
      PROVE  certifiedQuantity(i)' = certifiedQuantity(i) + lines[doc[r]][i]
  <2>1. Units(Certified, i)' = Units(Certified \cup {doc[r]}, i)
    BY <1>1, <1>2 DEF Units
  <2>2. Certified \in SUBSET Documents /\ doc[r] \in Documents \ Certified
    BY <1>2 DEF Certified, Documents
  <2>3. Cardinality(Units(Certified \cup {doc[r]}, i)) = Cardinality(Units(Certified, i)) + lines[doc[r]][i]
    BY <2>2, AddDocument
  <2>4. QED
    BY <2>1, <2>3 DEF certifiedQuantity
<1>4. QED
  BY <1>1, <1>2, <1>3, SameApproved

-----------------------------------------------------------------------------
(* What a decision has compared stays true until it commits.               *)

LEMMA ComparedKept ==
  ASSUME TypeOK, LedgerLocks, NEW q \in Requests, Compared(q),
         rpc'[q] \in Deciding =>
           /\ rpc[q] \in Deciding /\ doc'[q] = doc[q] /\ todo'[q] = todo[q] /\ before'[q] = before[q]
           /\ lines'[doc[q]] = lines[doc[q]]
           /\ \A i \in Items : itemLock[i] = q =>
                /\ itemLock'[i] = q
                /\ sumApprovedQuantity(i)' = sumApprovedQuantity(i)
                /\ certifiedQuantity(i)' = certifiedQuantity(i)
  PROVE  Compared(q)'
BY DEF Compared, Fits

LEMMA CheckedInit == Init => Checked
BY DEF Init, Checked, Compared, Deciding

LEMMA CheckedByDecision ==
  ASSUME TypeOK, LedgerLocks, Checked, NEW r \in Requests, Decide(r)
  PROVE  /\ doc[r] \in Documents /\ lines[doc[r]] \in [Items -> 0..MaxLines]
         /\ \A i \in Items : lines[doc[r]][i] > 0 =>
              itemLock[i] = r /\ Fits(doc[r], i) /\ before[r][i] = certifiedQuantity(i)
BY DEF TypeOK, LedgerLocks, HoldsItsRows, Checked, Compared, Decide, Deciding

LEMMA CheckedStep ==
  ASSUME TypeOK, LedgerLocks, Checked, [Next]_vars
  PROVE  Checked'
<1> USE NoneAssumption
<1> USE DEF docVars, lockVars, reqVars
<1>1. ASSUME NEW r \in Requests, Decide(r), NEW q \in Requests PROVE Compared(q)'
  <2>1. EndTransaction(r) /\ Leave(r) /\ lines' = lines
    BY <1>1 DEF Decide, EndTransaction
  <2>2. CASE q = r
    BY <2>1, <2>2, LeaveFacts DEF Compared, Deciding
  <2>3. CASE q # r
    <3>1. /\ rpc'[q] = rpc[q] /\ doc'[q] = doc[q] /\ todo'[q] = todo[q] /\ before'[q] = before[q]
      BY <2>1, <2>3, LeaveFacts
    <3>2. ASSUME NEW i \in Items, itemLock[i] = q
          PROVE  /\ itemLock'[i] = q
                 /\ sumApprovedQuantity(i)' = sumApprovedQuantity(i)
                 /\ certifiedQuantity(i)' = certifiedQuantity(i)
      <4>1. itemLock'[i] = q
        BY <2>1, <2>3, <3>2, EndFacts
      <4>2. doc[r] \in Documents /\ lines[doc[r]][i] = 0
        BY <1>1, <2>3, <3>2, CheckedByDecision, BoundAssumption
      <4>3. sumApprovedQuantity(i) \in Nat /\ certifiedQuantity(i) \in Nat
        BY SumsInNat
      <4>4. CASE doc[r] \in Measurements
        BY <1>1, <4>1, <4>2, <4>3, <4>4, ApproveAdds
      <4>5. CASE doc[r] \in Ipcs
        BY <1>1, <4>1, <4>2, <4>3, <4>5, CertifyAdds
      <4>6. QED
        BY <4>2, <4>4, <4>5 DEF Documents
    <3>3. QED
      BY <2>1, <3>1, <3>2, ComparedKept DEF Checked
  <2>4. QED
    BY <2>2, <2>3
<1>2. ASSUME \A r \in Requests : ~Decide(r), NEW q \in Requests PROVE Compared(q)'
  <2>1. \A i \in Items : /\ sumApprovedQuantity(i)' = sumApprovedQuantity(i)
                        /\ certifiedQuantity(i)' = certifiedQuantity(i)
    BY <1>2, Frame, SameApproved, SameCertified
  <2>2. Compared(q) /\ HoldsItsRows(q)
    BY DEF Checked, LedgerLocks
  <2>3. CASE DocumentStep
    <3>1. UNCHANGED <<lockVars, reqVars>>
      BY <2>3 DEF DocumentStep, AddMeasurementLine, DeleteLine, Submit, Reject, ApproveIpc, SetStatus
    <3>2. \A d \in Documents : docLock[d] # None => lines'[d] = lines[d]
      BY <2>3 DEF TypeOK, DocumentStep, AddMeasurementLine, DeleteLine, Submit, Reject, ApproveIpc,
                  SetStatus, Editable, Documents
    <3>3. rpc[q] \in Deciding => lines'[doc[q]] = lines[doc[q]]
      BY <2>2, <3>2 DEF HoldsItsRows, Deciding
    <3>4. QED
      BY <2>1, <2>2, <3>1, <3>3, ComparedKept
  <2>4. CASE PatchContract \/ UNCHANGED vars
    <3>1. UNCHANGED <<docVars, lockVars, reqVars>>
      BY <2>4 DEF PatchContract, vars
    <3>2. QED
      BY <2>1, <2>2, <3>1, ComparedKept
  <2>5. ASSUME NEW r \in Requests, RequestStep(r) PROVE Compared(q)'
    <3>1. rpc[q] \in Deciding => lines'[doc[q]] = lines[doc[q]]
      <4>1. CASE InsertIpcLine(r)
        BY <2>2, <4>1 DEF InsertIpcLine, TypeOK, HoldsItsRows, Deciding
      <4>2. CASE ~InsertIpcLine(r)
        BY <1>2, <2>5, <4>2 DEF RequestStep, CheckRemaining, ReadDocument, LockDocument, LockContract,
                                LockItem, Overrun, Abort
      <4>3. QED
        BY <4>1, <4>2
    <3>2. CASE q # r
      <4>1. /\ rpc'[q] = rpc[q] /\ doc'[q] = doc[q] /\ todo'[q] = todo[q] /\ before'[q] = before[q]
        BY <1>2, <2>5, <3>2 DEF TypeOK, RequestStep, CheckRemaining, ReadDocument, LockDocument,
             LockContract, LockItem, Overrun, Abort, InsertIpcLine, EndTransaction, Leave, Goto
      <4>2. \A i \in Items : itemLock[i] = q => itemLock'[i] = q
        BY <1>2, <2>5, <3>2 DEF TypeOK, RequestStep, CheckRemaining, ReadDocument, LockDocument,
             LockContract, LockItem, Overrun, Abort, InsertIpcLine, EndTransaction
      <4>3. QED
        BY <2>1, <2>2, <3>1, <4>1, <4>2, ComparedKept
    <3>3. CASE q = r
      <4>1. CASE LockContract(r)
        <5>1. /\ rpc[r] = "contract" /\ itemLock' = itemLock
              /\ doc' = doc /\ todo' = todo /\ before' = before
          BY <4>1 DEF LockContract
        <5>2. QED
          BY <2>1, <2>2, <3>1, <3>3, <5>1, ComparedKept DEF Deciding
      <4>2. CASE LockItem(r)
        <5>1. PICK i \in Items :
                /\ itemLock[i] = None /\ Fits(doc[r], i)
                /\ itemLock' = [itemLock EXCEPT ![i] = r]
                /\ todo' = [todo EXCEPT ![r] = @ \ {i}]
                /\ before' = [before EXCEPT ![r][i] = certifiedQuantity(i)]
          BY <4>2 DEF LockItem
        <5>2. rpc[r] = "items" /\ rpc' = rpc /\ doc' = doc /\ lines' = lines
          BY <4>2 DEF LockItem
        <5>3. ASSUME NEW j \in Items, lines'[doc'[r]][j] > 0, j \notin todo'[r]
              PROVE  /\ itemLock'[j] = r /\ before'[r][j] = certifiedQuantity(j)
                     /\ Fits(doc[r], j)
          <6>1. CASE j = i
            BY <5>1, <6>1 DEF TypeOK
          <6>2. CASE j # i
            BY <2>2, <3>3, <5>1, <5>2, <5>3, <6>2 DEF TypeOK, Compared, Deciding
          <6>3. QED
            BY <6>1, <6>2
        <5>4. QED
          BY <2>1, <3>3, <5>2, <5>3 DEF Compared, Fits
      <4>3. CASE LockDocument(r)
        <5>1. CASE status[doc[r]] = Awaited(doc[r])
          BY <3>3, <4>3, <5>1 DEF LockDocument, TypeOK, Compared
        <5>2. CASE status[doc[r]] # Awaited(doc[r])
          BY <3>3, <4>3, <5>2, LeaveFacts DEF LockDocument, Compared, Deciding
        <5>3. QED
          BY <5>1, <5>2
      <4>4. CASE ~LockContract(r) /\ ~LockItem(r) /\ ~LockDocument(r)
        <5>1. rpc'[r] \notin Deciding
          BY <1>2, <2>5, <4>4, LeaveFacts DEF TypeOK, RequestStep, CheckRemaining, ReadDocument, Overrun,
               Abort, InsertIpcLine, EndTransaction, Goto, Deciding
        <5>2. QED
          BY <3>3, <5>1 DEF Compared
      <4>5. QED
        BY <4>1, <4>2, <4>3, <4>4
    <3>4. QED
      BY <3>2, <3>3
  <2>6. QED
    BY <2>3, <2>4, <2>5 DEF Next
<1>3. QED
  BY <1>1, <1>2 DEF Checked

-----------------------------------------------------------------------------
(* The ledger.                                                             *)

Ledger == ApprovedWithinBoq /\ CertifiedWithinApproved /\ SnapshotsStack

LedgerInv == TypeOK /\ LedgerLocks /\ Checked /\ Ledger

LEMMA LedgerInit == Init => Ledger
<1> SUFFICES ASSUME Init PROVE Ledger
  OBVIOUS
<1>1. Approved = {} /\ Certified = {}
  BY DEF Init, Approved, Certified, Documents
<1>2. ASSUME NEW i \in Items PROVE sumApprovedQuantity(i) = 0 /\ certifiedQuantity(i) = 0
  <2>1. Units(Approved, i) = {} /\ Units(Certified, i) = {}
    BY <1>1 DEF Units
  <2>2. QED
    BY <2>1, FS_EmptySet DEF sumApprovedQuantity, certifiedQuantity
<1>3. QED
  BY <1>1, <1>2, QuantityAssumption DEF Ledger, ApprovedWithinBoq, CertifiedWithinApproved, SnapshotsStack

LEMMA LedgerStep == ASSUME LedgerInv, [Next]_vars PROVE Ledger'
<1> USE DEF LedgerInv, Ledger, ApprovedWithinBoq, CertifiedWithinApproved, SnapshotsStack
<1>0. \A i \in Items : sumApprovedQuantity(i) \in Nat /\ certifiedQuantity(i) \in Nat /\ Quantity[i] \in Nat
  BY SumsInNat, QuantityAssumption
<1>1. CASE \A r \in Requests : ~Decide(r)
  <2>1. /\ Certified' = Certified /\ previous' = previous
        /\ \A d \in Certified : lines'[d] = lines[d]
        /\ \A i \in Items : /\ sumApprovedQuantity(i)' = sumApprovedQuantity(i)
                            /\ certifiedQuantity(i)' = certifiedQuantity(i)
    BY <1>1, Frame, SameApproved, SameCertified
  <2>2. QED
    BY <2>1
<1>2. ASSUME NEW r \in Requests, Decide(r) PROVE Ledger'
  <2>1. /\ doc[r] \in Documents
        /\ \A i \in Items : lines[doc[r]][i] \in Nat
        /\ \A i \in Items : lines[doc[r]][i] > 0 =>
             Fits(doc[r], i) /\ before[r][i] = certifiedQuantity(i)
    BY <1>2, CheckedByDecision, BoundAssumption
  <2>2. CASE doc[r] \in Measurements
    <3>1. /\ lines' = lines /\ previous' = previous /\ Certified' = Certified
          /\ \A i \in Items :
               /\ sumApprovedQuantity(i)' = sumApprovedQuantity(i) + lines[doc[r]][i]
               /\ certifiedQuantity(i)' = certifiedQuantity(i)
      BY <1>2, <2>2, ApproveAdds
    <3>2. ApprovedWithinBoq'
      BY <1>0, <2>1, <2>2, <3>1 DEF Fits
    <3>3. CertifiedWithinApproved'
      BY <1>0, <2>1, <3>1
    <3>4. SnapshotsStack'
      BY <3>1
    <3>5. QED
      BY <3>2, <3>3, <3>4
  <2>3. CASE doc[r] \in Ipcs
    <3>1. /\ lines' = lines /\ previous' = [previous EXCEPT ![doc[r]] = before[r]]
          /\ Certified' = Certified \cup {doc[r]} /\ doc[r] \notin Certified
          /\ \A i \in Items :
               /\ sumApprovedQuantity(i)' = sumApprovedQuantity(i)
               /\ certifiedQuantity(i)' = certifiedQuantity(i) + lines[doc[r]][i]
      BY <1>2, <2>3, CertifyAdds
    <3>2. ApprovedWithinBoq'
      BY <3>1
    <3>3. CertifiedWithinApproved'
      <4>1. doc[r] \notin Measurements
        BY <2>3, DocumentsAssumption
      <4>2. QED
        BY <1>0, <2>1, <3>1, <4>1 DEF Fits
    <3>4. ASSUME NEW i \in Items, NEW c \in Certified', NEW d \in Certified', lines[c][i] > 0, lines[d][i] > 0
          PROVE  /\ previous'[c][i] + lines[c][i] <= certifiedQuantity(i) + lines[doc[r]][i]
                 /\ c # d => \/ previous'[c][i] + lines[c][i] <= previous'[d][i]
                             \/ previous'[d][i] + lines[d][i] <= previous'[c][i]
      <4>1. \A x \in Certified : previous'[x] = previous[x]
        BY <3>1 DEF TypeOK, Certified
      <4>2. previous'[doc[r]] = before[r]
        BY <2>3, <3>1 DEF TypeOK
      <4>3. \A x \in Certified : lines[x][i] > 0 => previous[x][i] + lines[x][i] <= certifiedQuantity(i)
        OBVIOUS
      <4>4. /\ previous[c][i] \in Nat /\ previous[d][i] \in Nat
            /\ lines[c][i] \in Nat /\ lines[d][i] \in Nat
        BY <2>3, <3>1, BoundAssumption DEF TypeOK, Certified, Documents
      <4>5. CASE c = doc[r] /\ d = doc[r]
        BY <1>0, <2>1, <3>4, <4>2, <4>4, <4>5
      <4>6. CASE c = doc[r] /\ d \in Certified
        BY <1>0, <2>1, <3>4, <4>1, <4>2, <4>3, <4>4, <4>6
      <4>7. CASE c \in Certified /\ d = doc[r]
        BY <1>0, <2>1, <3>4, <4>1, <4>2, <4>3, <4>4, <4>7
      <4>8. CASE c \in Certified /\ d \in Certified
        BY <1>0, <2>1, <3>4, <4>1, <4>3, <4>4, <4>8
      <4>9. QED
        BY <3>1, <4>5, <4>6, <4>7, <4>8
    <3>5. SnapshotsStack'
      BY <3>1, <3>4
    <3>6. QED
      BY <3>2, <3>3, <3>5
  <2>4. QED
    BY <2>1, <2>2, <2>3 DEF Documents
<1>3. QED
  BY <1>1, <1>2

LEMMA LedgerInductive == Spec => []LedgerInv
<1>1. Init => LedgerInv
  BY TypeInit, LocksInit, CheckedInit, LedgerInit DEF LedgerInv
<1>2. LedgerInv /\ [Next]_vars => LedgerInv'
  BY TypeStep, LocksStep, CheckedStep, LedgerStep DEF LedgerInv
<1>3. QED
  BY <1>1, <1>2, PTL DEF Spec

\* POST /measurements/:id/approve never lets the approved quantity of an item
\* pass its BOQ quantity, whatever other requests do at the same time.
THEOREM ApprovedWithinBoqCorrect == Spec => []ApprovedWithinBoq
<1>1. LedgerInv => ApprovedWithinBoq
  BY DEF LedgerInv, Ledger
<1>2. QED
  BY <1>1, LedgerInductive, PTL

\* POST /ipcs/:id/certify never certifies more of an item than was approved.
THEOREM CertifiedWithinApprovedCorrect == Spec => []CertifiedWithinApproved
<1>1. LedgerInv => CertifiedWithinApproved
  BY DEF LedgerInv, Ledger
<1>2. QED
  BY <1>1, LedgerInductive, PTL

\* The frozen previous and cumulative quantities of the certified IPCs of an
\* item never overlap and never pass what is certified of it.
THEOREM SnapshotsStackCorrect == Spec => []SnapshotsStack
<1>1. LedgerInv => SnapshotsStack
  BY DEF LedgerInv, Ledger
<1>2. QED
  BY <1>1, LedgerInductive, PTL

-----------------------------------------------------------------------------
(* What the steps may not do.                                              *)

\* The retention a certification freezes is the contract's rate of that very
\* moment, whatever PATCH requests run (IPC-002).
THEOREM RetentionIsCurrentCorrect == Spec => RetentionIsCurrent
<1>1. ASSUME TypeOK, LedgerLocks, [Next]_vars, NEW c \in Ipcs,
             status[c] # "certified", status'[c] = "certified"
      PROVE  frozenRate'[c] = retention
  <2>1. PICK r \in Requests : Decide(r)
    <3>1. ASSUME \A r \in Requests : ~Decide(r) PROVE FALSE
      <4>1. Certified' = Certified
        BY <1>1, <3>1, Frame
      <4>2. QED
        BY <1>1, <4>1 DEF Certified
    <3>2. QED
      BY <3>1
  <2>2. /\ doc[r] = c
        /\ frozenRate' = [frozenRate EXCEPT ![c] = rate[r]]
        /\ rpc[r] = "items"
    BY <1>1, <2>1, DocumentsAssumption DEF Decide, TypeOK, Documents
  <2>3. rate[r] = retention
    BY <1>1, <2>2 DEF LedgerLocks, HoldsItsRows
  <2>4. QED
    BY <1>1, <2>2, <2>3 DEF TypeOK
<1>2. TypeOK /\ LedgerLocks /\ [Next]_vars => [CertifiedAtCurrentRate]_vars
  BY <1>1 DEF CertifiedAtCurrentRate
<1>3. QED
  BY <1>2, TypeCorrect, PTL DEF Spec, RetentionIsCurrent

\* No step changes the lines or the snapshot of an approved measurement or of
\* a certified IPC.
THEOREM DecidedIsFinalCorrect == Spec => DecidedIsFinal
<1>1. ASSUME TypeOK, LedgerLocks, [Next]_vars, NEW d \in Documents,
             status[d] = (IF d \in Measurements THEN "approved" ELSE "certified")
      PROVE  /\ status'[d] = status[d] /\ lines'[d] = lines[d]
             /\ d \in Ipcs => previous'[d] = previous[d] /\ frozenRate'[d] = frozenRate[d]
  <2> USE DocumentsAssumption
  <2> USE DEF TypeOK, docVars, Documents, EDITABLE_STATUSES
  <2>1. CASE DocumentStep
    BY <1>1, <2>1 DEF DocumentStep, AddMeasurementLine, DeleteLine, Submit, Reject, ApproveIpc,
                      SetStatus, Editable
  <2>2. CASE PatchContract \/ UNCHANGED vars
    BY <2>2 DEF PatchContract, vars
  <2>3. ASSUME NEW r \in Requests, RequestStep(r)
        PROVE  /\ status'[d] = status[d] /\ lines'[d] = lines[d]
               /\ d \in Ipcs => previous'[d] = previous[d] /\ frozenRate'[d] = frozenRate[d]
    <3>1. CASE Decide(r)
      <4>1. doc[r] \in Documents /\ status[doc[r]] = Awaited(doc[r])
        BY <1>1, <3>1 DEF Decide, LedgerLocks, HoldsItsRows, Deciding
      <4>2. doc[r] # d
        BY <1>1, <4>1 DEF Awaited
      <4>3. QED
        <5>1. /\ status' \in {[status EXCEPT ![doc[r]] = "approved"], [status EXCEPT ![doc[r]] = "certified"]}
              /\ lines' = lines
              /\ previous' \in {previous, [previous EXCEPT ![doc[r]] = before[r]]}
              /\ frozenRate' \in {frozenRate, [frozenRate EXCEPT ![doc[r]] = rate[r]]}
          BY <3>1 DEF Decide
        <5>2. QED
          BY <1>1, <4>2, <5>1
    <3>2. CASE InsertIpcLine(r)
      BY <1>1, <3>2 DEF InsertIpcLine, LedgerLocks, HoldsItsRows
    <3>3. CASE ~Decide(r) /\ ~InsertIpcLine(r)
      BY <2>3, <3>3 DEF RequestStep, CheckRemaining, ReadDocument, LockDocument, LockContract,
                        LockItem, Overrun, Abort
    <3>4. QED
      BY <3>1, <3>2, <3>3
  <2>4. QED
    BY <1>1, <2>1, <2>2, <2>3 DEF Next
<1>2. TypeOK /\ LedgerLocks /\ [Next]_vars => [DecidedKept]_vars
  BY <1>1 DEF DecidedKept
<1>3. QED
  BY <1>2, TypeCorrect, PTL DEF Spec, DecidedIsFinal

-----------------------------------------------------------------------------
(* Deadlock.  In a circle of waiting decisions, take one whose awaited     *)
(* item has the fewest items above it: the decision that holds that item   *)
(* waits for an item further up.                                           *)

Above(i) == {k \in Items : i < k}

LEMMA FewerAbove ==
  ASSUME NEW i \in Items, NEW k \in Items, i < k
  PROVE  Cardinality(Above(k)) < Cardinality(Above(i))
<1>1. \A j \in Items : Above(j) \in SUBSET Items /\ IsFiniteSet(Above(j)) /\ Cardinality(Above(j)) \in Nat
  <2>1. \A j \in Items : Above(j) \in SUBSET Items
    BY DEF Above
  <2>2. QED
    BY <2>1, ItemsAssumption, FS_Subset, FS_CardinalityType
<1>2. Above(k) \in SUBSET Above(i) /\ k \in Above(i) /\ k \notin Above(k)
  <2>1. Items \subseteq Nat
    BY ItemsAssumption
  <2>2. \A x, y, z \in Nat : x < y /\ y < z => x < z
    OBVIOUS
  <2>3. \A x \in Nat : ~(x < x)
    OBVIOUS
  <2>4. \A j \in Above(k) : j \in Above(i)
    BY <2>1, <2>2 DEF Above
  <2>5. QED
    BY <2>1, <2>3, <2>4 DEF Above
<1>3. Cardinality(Above(k)) <= Cardinality(Above(i)) /\ Cardinality(Above(k)) # Cardinality(Above(i))
  BY <1>1, <1>2, FS_Subset
<1>4. QED
  BY <1>1, <1>3

LEMMA NoCircle == ASSUME TypeOK, LedgerLocks PROVE NoDeadlock
<1> SUFFICES ASSUME NEW S \in SUBSET Requests, S # {}
             PROVE  \E r \in S : \A s \in S : ~WaitsFor(r, s)
  BY DEF NoDeadlock
<1> SUFFICES ASSUME \A r \in S : \E s \in S : WaitsFor(r, s)
             PROVE  FALSE
  OBVIOUS
<1>0. S \subseteq Requests /\ S # {}
  OBVIOUS
<1> USE ItemsAssumption, NoneAssumption
<1> DEFINE Waited == {i \in Items : \E r \in S : rpc[r] = "items" /\ NextItem(r, i)}
           Sizes == {Cardinality(Above(i)) : i \in Waited}
<1>1. \A r \in S, s \in S : WaitsFor(r, s) => rpc[s] \in Deciding
  BY DEF WaitsFor, LedgerLocks, HoldsItsRows, TypeOK, NextItem, Deciding
<1>2. \A r \in S, s \in S : rpc[r] = "contract" /\ WaitsFor(r, s) => rpc[s] = "items"
  BY DEF WaitsFor, LedgerLocks, HoldsItsRows
<1>3. \E r \in S : rpc[r] = "items"
  <2>0. PICK r \in S : TRUE
    BY <1>0
  <2>1. PICK s \in S : WaitsFor(r, s)
    OBVIOUS
  <2>2. rpc[s] \in {"contract", "items"}
    BY <1>1, <2>1 DEF Deciding
  <2>3. PICK t \in S : WaitsFor(s, t)
    OBVIOUS
  <2>4. QED
    BY <1>2, <2>2, <2>3
<1>4. \A r \in S : rpc[r] = "items" => \E i \in Items, s \in S : NextItem(r, i) /\ itemLock[i] = s
  BY DEF WaitsFor
<1>5. Waited # {}
  BY <1>3, <1>4
<1>6. \A i \in Waited : \E k \in Waited : i < k
  <2>1. SUFFICES ASSUME NEW i \in Waited PROVE \E k \in Waited : i < k
    OBVIOUS
  <2>2. PICK r \in S : rpc[r] = "items" /\ NextItem(r, i)
    OBVIOUS
  <2>3. PICK j \in Items, s \in S : NextItem(r, j) /\ itemLock[j] = s
    BY <1>4, <2>2
  <2>4. i = j
    BY <2>2, <2>3 DEF NextItem, TypeOK
  <2>5. rpc[s] = "items" /\ \A k \in todo[s] : i < k
    BY <2>3, <2>4 DEF LedgerLocks, HoldsItsRows
  <2>6. PICK k \in Items : NextItem(s, k)
    BY <1>4, <2>5
  <2>7. QED
    BY <2>5, <2>6 DEF NextItem
<1>7. Sizes \in SUBSET Nat /\ Sizes # {}
  <2>1. \A i \in Items : Cardinality(Above(i)) \in Nat
    <3>1. \A j \in Items : Above(j) \in SUBSET Items
      BY DEF Above
    <3>2. QED
      BY <3>1, FS_Subset, FS_CardinalityType
  <2>2. QED
    BY <1>5, <2>1
<1>8. PICK n \in Sizes : \A m \in Sizes : ~(<<m, n>> \in OpToRel(<, Nat))
  <2> HIDE DEF Sizes
  <2>1. QED
    BY <1>7, NatLessThanWellFounded, WFMin
<1>9. \A m \in Sizes : ~(m < n)
  <2> HIDE DEF Sizes
  <2>1. QED
    BY <1>7, <1>8 DEF OpToRel
<1>10. PICK i \in Waited : n = Cardinality(Above(i))
  OBVIOUS
<1>11. PICK k \in Waited : i < k
  BY <1>6
<1>12. QED
  BY <1>9, <1>10, <1>11, FewerAbove

\* approve() and certify() lock in an order in which no circle of waiting
\* decisions can arise.
THEOREM NoDeadlockCorrect == Spec => []NoDeadlock
BY TypeCorrect, NoCircle, PTL

=============================================================================
