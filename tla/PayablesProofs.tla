---------------------------- MODULE PayablesProofs ----------------------------
(***************************************************************************)
(* Theorems about Payables, for any finite supply of commitments, lines    *)
(* and IPCs, every amount and ceiling and any number of requests.          *)
(***************************************************************************)
EXTENDS Payables, FiniteSetTheorems, TLAPS

-----------------------------------------------------------------------------
(* Numbers.                                                                *)

LEMMA NextIsNext ==
  ASSUME NEW k \in Nat
  PROVE  NextNumber(1..k) = k + 1
<1>1. k \in (1..k) \cup {0} /\ \A m \in 1..k : m <= k
  OBVIOUS
<1>2. \A n \in (1..k) \cup {0} : (\A m \in 1..k : m <= n) => n = k
  BY <1>1
<1>3. (CHOOSE n \in (1..k) \cup {0} : \A m \in 1..k : m <= n) = k
  BY <1>1, <1>2
<1>4. NextNumber(1..k) = 1 + k
  BY <1>3 DEF NextNumber
<1>5. QED
  BY <1>4

LEMMA UpToNext ==
  ASSUME NEW k \in Nat
  PROVE  (1..k) \cup {k + 1} = 1..(k + 1)
OBVIOUS

LEMMA CountsInNat ==
  /\ IsFiniteSet(NumberedCommitments) /\ Cardinality(NumberedCommitments) \in Nat
  /\ \A c \in Commitments : IsFiniteSet(IpcsOf(c)) /\ Cardinality(IpcsOf(c)) \in Nat
<1>1. IsFiniteSet(NumberedCommitments)
  BY RowsAssumption, FS_Subset DEF NumberedCommitments
<1>2. \A c \in Commitments : IsFiniteSet(IpcsOf(c))
  BY RowsAssumption, FS_Subset DEF IpcsOf
<1>3. QED
  BY <1>1, <1>2, FS_CardinalityType

-----------------------------------------------------------------------------
(* Sums.                                                                   *)

LEMMA TotalInNat ==
  ASSUME NEW S \in SUBSET Lines
  PROVE  Total(S) \in Nat
<1> DEFINE U == {u \in S \X (1..MaxAmount) : u[2] <= Amount[u[1]]}
<1>1. IsFiniteSet(S) /\ IsFiniteSet(1..MaxAmount)
  BY RowsAssumption, BoundAssumption, FS_Subset, FS_Interval
<1>2. IsFiniteSet(S \X (1..MaxAmount))
  BY <1>1, FS_Product
<1>3. IsFiniteSet(U)
  BY <1>2, FS_Subset
<1>4. Cardinality(U) \in Nat
  BY <1>3, FS_CardinalityType
<1>5. QED
  BY <1>4 DEF Total

\* The units of l that the IPCs of S claim.
Units(S, l) == {u \in S \X (1..MaxClaim) : u[2] <= claimed[u[1]][l]}

LEMMA UnitsFinite ==
  ASSUME NEW S \in SUBSET Ipcs, NEW l \in Lines
  PROVE  IsFiniteSet(Units(S, l)) /\ Cardinality(Units(S, l)) \in Nat
<1>1. IsFiniteSet(S) /\ IsFiniteSet(1..MaxClaim)
  BY RowsAssumption, BoundAssumption, FS_Subset, FS_Interval
<1>2. IsFiniteSet(S \X (1..MaxClaim))
  BY <1>1, FS_Product
<1>3. Units(S, l) \in SUBSET (S \X (1..MaxClaim))
  BY DEF Units
<1>4. IsFiniteSet(Units(S, l))
  BY <1>2, <1>3, FS_Subset
<1>5. QED
  BY <1>4, FS_CardinalityType

\* One more IPC adds what it claims.
LEMMA AddIpc ==
  ASSUME TypeOK, NEW S \in SUBSET Ipcs, NEW i \in Ipcs \ S, NEW l \in Lines
  PROVE  Cardinality(Units(S \cup {i}, l)) = Cardinality(Units(S, l)) + claimed[i][l]
<1> DEFINE n == claimed[i][l]
           own == {i} \X (1..n)
<1>1. n \in 0..MaxClaim /\ n \in Nat /\ n \in Int
  BY BoundAssumption DEF TypeOK
<1>2. Units(S \cup {i}, l) = Units(S, l) \cup own
  <2>1. \A u : u \in Units(S \cup {i}, l) <=> u \in Units(S, l) \/ u \in own
    BY <1>1, BoundAssumption DEF Units
  <2>2. QED
    BY <2>1
<1>3. Units(S, l) \cap own = {}
  BY DEF Units
<1>4. IsFiniteSet({i}) /\ Cardinality({i}) = 1
  BY FS_Singleton
<1> HIDE DEF n
<1>5. IsFiniteSet(1..n) /\ Cardinality(1..n) = IF 1 > n THEN 0 ELSE n - 1 + 1
  BY <1>1, FS_Interval
<1>6. Cardinality(1..n) = n
  BY <1>1, <1>5
<1>7. IsFiniteSet(own) /\ Cardinality(own) = Cardinality({i}) * Cardinality(1..n)
  BY <1>4, <1>5, FS_Product
<1>8. Cardinality(own) = n
  BY <1>1, <1>4, <1>6, <1>7
<1>9. IsFiniteSet(Units(S, l)) /\ Cardinality(Units(S, l)) \in Nat
  BY UnitsFinite
<1> HIDE DEF own
<1>10. Cardinality(Units(S, l) \cup own) = Cardinality(Units(S, l)) + Cardinality(own) - Cardinality({})
  BY <1>3, <1>7, <1>9, FS_Union
<1>11. Cardinality({}) = 0
  BY FS_EmptySet
<1>12. Cardinality(Units(S, l) \cup own) = Cardinality(Units(S, l)) + n
  BY <1>1, <1>8, <1>9, <1>10, <1>11
<1>13. QED
  BY <1>2, <1>12 DEF n

LEMMA SoFarInNat ==
  ASSUME NEW l \in Lines
  PROVE  certifiedSoFar(l) = Cardinality(Units(Certified, l)) /\ certifiedSoFar(l) \in Nat
<1>1. Certified \in SUBSET Ipcs
  BY DEF Certified
<1>2. certifiedSoFar(l) = Cardinality(Units(Certified, l))
  BY DEF certifiedSoFar, Units
<1>3. QED
  BY <1>1, <1>2, UnitsFinite

\* The sums do not change with what IPCs that are not certified claim.
LEMMA SoFarKept ==
  ASSUME Certified' = Certified, \A i \in Certified : claimed'[i] = claimed[i]
  PROVE  \A l \in Lines : certifiedSoFar(l)' = certifiedSoFar(l)
<1>1. ASSUME NEW l \in Lines PROVE certifiedSoFar(l)' = certifiedSoFar(l)
  <2>1. {u \in Certified \X (1..MaxClaim) : u[2] <= claimed'[u[1]][l]}
          = {u \in Certified \X (1..MaxClaim) : u[2] <= claimed[u[1]][l]}
    OBVIOUS
  <2>2. QED
    BY <2>1 DEF certifiedSoFar
<1>2. QED
  BY <1>1

LEMMA SoFarGrows ==
  ASSUME TypeOK, NEW i \in Ipcs \ Certified, Certified' = Certified \cup {i}, claimed' = claimed
  PROVE  \A l \in Lines : certifiedSoFar(l)' = certifiedSoFar(l) + claimed[i][l]
<1>1. ASSUME NEW l \in Lines PROVE certifiedSoFar(l)' = certifiedSoFar(l) + claimed[i][l]
  <2>1. Certified \in SUBSET Ipcs
    BY DEF Certified
  <2>2. Cardinality(Units(Certified \cup {i}, l)) = Cardinality(Units(Certified, l)) + claimed[i][l]
    BY <2>1, AddIpc
  <2>3. certifiedSoFar(l)' = Cardinality({u \in (Certified \cup {i}) \X (1..MaxClaim) : u[2] <= claimed[u[1]][l]})
    BY DEF certifiedSoFar
  <2>4. certifiedSoFar(l)' = Cardinality(Units(Certified \cup {i}, l))
    BY <2>3 DEF Units
  <2>5. QED
    BY <2>2, <2>4, SoFarInNat
<1>2. QED
  BY <1>1

-----------------------------------------------------------------------------
(* What a step leaves alone.                                               *)

\* Rows never go back.
Monotone ==
  /\ \A c \in Commitments : status[c] # "absent" => status'[c] # "absent"
  /\ \A c \in Commitments : status[c] = "active" => status'[c] = "active" /\ lines[c] \subseteq lines'[c]
  /\ \A i \in Ipcs : of[i] # None => of'[i] = of[i]

\* A step of others: it changes nothing of q, and no row that q has locked.
Undisturbed(q) ==
  /\ pc'[q] = pc[q] /\ kind'[q] = kind[q] /\ com'[q] = com[q] /\ ipc'[q] = ipc[q] /\ line'[q] = line[q]
  /\ next'[q] = next[q] /\ seen'[q] = seen[q] /\ rate'[q] = rate[q]
  /\ kind[q] = "create" => status'[com[q]] = status[com[q]]
  /\ kind[q] \in Ordering /\ com[q] \in Linked => contractLock' = contractLock /\ ended' = ended
  /\ Commits(q, "create") => companyLock' = companyLock /\ NumberedCommitments' = NumberedCommitments
  /\ pc[q] = "commit" /\ kind[q] \in Locking =>
       /\ commitmentLock'[com[q]] = commitmentLock[com[q]]
       /\ status'[com[q]] = status[com[q]] /\ lines'[com[q]] = lines[com[q]]
       /\ retention'[com[q]] = retention[com[q]]
       /\ \A i \in Ipcs : of'[i] = com[q] <=> of[i] = com[q]
  /\ kind[q] = "certify" =>
       /\ ipcLock'[ipc[q]] = ipcLock[ipc[q]]
       /\ ipcStatus'[ipc[q]] = ipcStatus[ipc[q]] /\ claimed'[ipc[q]] = claimed[ipc[q]]
  /\ Commits(q, "certify") =>
       \A l \in Lines : claimed[ipc[q]][l] > 0 => certifiedSoFar(l)' = certifiedSoFar(l)

LEMMA OthersRely ==
  ASSUME TypeOK, IpcsInv, NEW q \in Requests, Relies(q), Holds(q), Monotone, Undisturbed(q)
  PROVE  Relies(q)' /\ Holds(q)'
<1>1. /\ pc'[q] = pc[q] /\ kind'[q] = kind[q] /\ com'[q] = com[q] /\ ipc'[q] = ipc[q] /\ line'[q] = line[q]
      /\ next'[q] = next[q] /\ seen'[q] = seen[q] /\ rate'[q] = rate[q]
  BY DEF Undisturbed
<1>2. Relies(q)'
  <2>1. kind[q] = "certify" => ipcStatus'[ipc[q]] = ipcStatus[ipc[q]] /\ of'[ipc[q]] = of[ipc[q]]
    BY NoneAssumption DEF Undisturbed, Monotone, Relies, Holds, Locking
  <2>2. kind[q] \in Locking \cup {"edit"} => status'[com[q]] # "absent"
    BY DEF Monotone, Relies
  <2>3. kind[q] = "createIpc" => status'[com[q]] = "active"
    BY DEF Monotone, Relies, Locking
  <2>4. kind[q] = "create" => status'[com[q]] = "absent"
    BY DEF Undisturbed, Relies
  <2>5. pc[q] = "claim" => of'[ipc[q]] # None /\ line[q] \in lines'[of'[ipc[q]]]
    <3>1. pc[q] = "claim" => of[ipc[q]] \in Commitments /\ of'[ipc[q]] = of[ipc[q]]
      BY DEF Relies, Monotone, TypeOK
    <3>2. pc[q] = "claim" => status[of[ipc[q]]] = "active"
      BY DEF Relies, IpcsInv
    <3>3. QED
      BY <3>1, <3>2 DEF Relies, Monotone
  <2>6. QED
    BY <1>1, <2>1, <2>2, <2>3, <2>4, <2>5 DEF Relies
<1>3. Holds(q)'
  <2>1. kind[q] \in Ordering /\ com[q] \in Linked => contractLock' = q /\ ~ended'
    BY DEF Undisturbed, Holds
  <2>2. kind[q] = "certify" => ipcLock'[ipc[q]] = q
    BY DEF Undisturbed, Holds, Relies
  <2>3. Commits(q, "create") => companyLock' = q /\ next[q] = Cardinality(NumberedCommitments') + 1
    BY DEF Undisturbed, Holds
  <2>4. pc[q] = "commit" /\ kind[q] \in Locking =>
          /\ com[q] \in Commitments /\ commitmentLock[com[q]] = q
          /\ commitmentLock'[com[q]] = q
          /\ status'[com[q]] = status[com[q]] /\ lines'[com[q]] = lines[com[q]]
          /\ retention'[com[q]] = retention[com[q]]
          /\ IpcsOf(com[q])' = IpcsOf(com[q])
    <3>1. SUFFICES ASSUME pc[q] = "commit", kind[q] \in Locking
                   PROVE  /\ com[q] \in Commitments /\ commitmentLock[com[q]] = q
                          /\ commitmentLock'[com[q]] = q
                          /\ status'[com[q]] = status[com[q]] /\ lines'[com[q]] = lines[com[q]]
                          /\ retention'[com[q]] = retention[com[q]]
                          /\ IpcsOf(com[q])' = IpcsOf(com[q])
      OBVIOUS
    <3>2. com[q] \in Commitments /\ commitmentLock[com[q]] = q
      BY <3>1 DEF Relies, Holds
    <3>3. /\ commitmentLock'[com[q]] = q
          /\ status'[com[q]] = status[com[q]] /\ lines'[com[q]] = lines[com[q]]
          /\ retention'[com[q]] = retention[com[q]]
      BY <3>1, <3>2 DEF Undisturbed
    <3>4. {i \in Ipcs : of'[i] = com[q]} = {i \in Ipcs : of[i] = com[q]}
      BY <3>1 DEF Undisturbed
    <3>5. QED
      BY <1>1, <3>2, <3>3, <3>4 DEF IpcsOf
  <2>5. pc[q] = "commit" /\ kind[q] \in Locking => Admitted(q)'
    <3>1. SUFFICES ASSUME pc[q] = "commit", kind[q] \in Locking PROVE Admitted(q)'
      OBVIOUS
    <3>2. Admitted(q)
      BY <3>1 DEF Holds
    <3>3. CASE kind[q] = "certify"
      <4>1. claimed'[ipc[q]] = claimed[ipc[q]]
        BY <3>3 DEF Undisturbed, Holds, Relies
      <4>2. \A l \in Lines : claimed[ipc[q]][l] > 0 => certifiedSoFar(l)' = certifiedSoFar(l)
        BY <3>1, <3>3 DEF Undisturbed, Commits
      <4>3. \A l \in Lines : claimed[ipc[q]][l] > 0 => certifiedSoFar(l) + claimed[ipc[q]][l] <= Ceiling[l]
        BY <3>2, <3>3 DEF Admitted
      <4>4. QED
        BY <1>1, <3>3, <4>1, <4>2, <4>3 DEF Admitted
    <3>4. CASE kind[q] # "certify"
      BY <1>1, <2>4, <3>1, <3>2, <3>4 DEF Admitted
    <3>5. QED
      BY <3>3, <3>4
  <2>6. Commits(q, "create")' => companyLock' = q /\ next'[q] = Cardinality(NumberedCommitments)' + 1
    BY <1>1, <2>3 DEF Commits
  <2>7. Commits(q, "createIpc")' => next'[q] = Cardinality(IpcsOf(com[q]))' + 1
    <3>1. Commits(q, "createIpc") => next[q] = Cardinality(IpcsOf(com[q])) + 1
      BY DEF Holds
    <3>2. Commits(q, "createIpc") => Cardinality(IpcsOf(com[q]))' = Cardinality(IpcsOf(com[q]))
      BY <2>4 DEF Commits, Locking
    <3>3. Commits(q, "createIpc")' <=> Commits(q, "createIpc")
      BY <1>1 DEF Commits
    <3>4. QED
      BY <1>1, <3>1, <3>2, <3>3
  <2>8. pc'[q] = "commit" /\ kind'[q] \in {"submit", "amend"} => seen'[q] = lines'[com'[q]]
    BY <1>1, <2>4 DEF Holds, Locking, Ordering
  <2>9. Commits(q, "certify")' => rate'[q] = retention'[com'[q]]
    BY <1>1, <2>4 DEF Holds, Commits, Locking
  <2>10. QED
    BY <1>1, <2>1, <2>2, <2>4, <2>5, <2>6, <2>7, <2>8, <2>9 DEF Holds
<1>4. QED
  BY <1>2, <1>3

LEMMA IdleRelies ==
  ASSUME NEW r \in Requests, pc'[r] = "idle", kind'[r] = None
  PROVE  Relies(r)' /\ Holds(r)'
<1>1. None \notin Locking \cup {"create", "edit"}
  BY NoneAssumption DEF Locking, Ordering, Kinds
<1>2. Relies(r)'
  BY <1>1 DEF Relies, Locking, Ordering
<1>3. Holds(r)'
  BY <1>1 DEF Holds, Commits, Locking, Ordering
<1>4. QED
  BY <1>2, <1>3

\* Nothing of q changes.
SameRequest(q) ==
  /\ pc'[q] = pc[q] /\ kind'[q] = kind[q] /\ com'[q] = com[q] /\ ipc'[q] = ipc[q] /\ line'[q] = line[q]
  /\ next'[q] = next[q] /\ seen'[q] = seen[q] /\ rate'[q] = rate[q]

\* q keeps the rows it has locked.
KeepsLocks(q) ==
  /\ companyLock = q => companyLock' = q
  /\ contractLock = q => contractLock' = q
  /\ \A c \in Commitments : commitmentLock[c] = q => commitmentLock'[c] = q
  /\ \A i \in Ipcs : ipcLock[i] = q => ipcLock'[i] = q

LEMMA BeginFacts ==
  ASSUME TypeOK, NEW r \in Requests, NEW k, NEW c, NEW i, NEW l, NEW label, Begin(r, k, c, i, l, label)
  PROVE  /\ pc[r] = "idle" /\ pc'[r] = label /\ kind'[r] = k /\ com'[r] = c /\ ipc'[r] = i /\ line'[r] = l
         /\ \A q \in Requests \ {r} : SameRequest(q)
         /\ UNCHANGED tableVars
BY DEF Begin, Goto, TypeOK, SameRequest

LEMMA LeaveFacts ==
  ASSUME TypeOK, NEW r \in Requests, Leave(r)
  PROVE  /\ pc'[r] = "idle" /\ kind'[r] = None /\ com'[r] = None
         /\ \A q \in Requests \ {r} : SameRequest(q)
BY DEF Leave, Goto, TypeOK, SameRequest

LEMMA EndFacts ==
  ASSUME TypeOK, NEW r \in Requests, EndTransaction(r)
  PROVE  /\ Leave(r)
         /\ \A q \in Requests \ {r} : KeepsLocks(q)
<1>1. Leave(r)
  BY DEF EndTransaction
<1>2. ASSUME NEW q \in Requests \ {r} PROVE KeepsLocks(q)
  <2>1. \A c \in Commitments : commitmentLock[c] = q => commitmentLock'[c] = q
    BY DEF EndTransaction
  <2>2. \A i \in Ipcs : ipcLock[i] = q => ipcLock'[i] = q
    BY DEF EndTransaction
  <2>3. (companyLock = q => companyLock' = q) /\ (contractLock = q => contractLock' = q)
    BY DEF EndTransaction
  <2>4. QED
    BY <2>1, <2>2, <2>3 DEF KeepsLocks
<1>3. QED
  BY <1>1, <1>2

\* A step that only locks, unlocks or reads.
LEMMA TablesKept ==
  ASSUME UNCHANGED tableVars
  PROVE  /\ Monotone
         /\ NumberedCommitments' = NumberedCommitments
         /\ Certified' = Certified
         /\ \A l \in Lines : certifiedSoFar(l)' = certifiedSoFar(l)
<1> USE DEF tableVars, comVars, ipcVars
<1>1. Monotone
  BY DEF Monotone
<1>2. NumberedCommitments' = NumberedCommitments
  BY DEF NumberedCommitments
<1>3. Certified' = Certified
  BY DEF Certified
<1>4. \A l \in Lines : certifiedSoFar(l)' = certifiedSoFar(l)
  BY <1>3, SoFarKept
<1>5. QED
  BY <1>1, <1>2, <1>3, <1>4

LEMMA QuietUndisturbed ==
  ASSUME NEW q \in Requests, UNCHANGED tableVars, SameRequest(q), KeepsLocks(q), Relies(q), Holds(q)
  PROVE  Undisturbed(q)
<1>1. NumberedCommitments' = NumberedCommitments /\ \A l \in Lines : certifiedSoFar(l)' = certifiedSoFar(l)
  BY TablesKept
<1>2. kind[q] \in Ordering /\ com[q] \in Linked => contractLock' = contractLock /\ ended' = ended
  BY DEF tableVars, KeepsLocks, Holds
<1>3. Commits(q, "create") => companyLock' = companyLock
  BY DEF KeepsLocks, Holds
<1>4. pc[q] = "commit" /\ kind[q] \in Locking => commitmentLock'[com[q]] = commitmentLock[com[q]]
  BY DEF KeepsLocks, Holds, Relies
<1>5. kind[q] = "certify" => ipcLock'[ipc[q]] = ipcLock[ipc[q]]
  BY DEF KeepsLocks, Holds, Relies
<1>6. QED
  BY <1>1, <1>2, <1>3, <1>4, <1>5 DEF Undisturbed, SameRequest, tableVars, comVars, ipcVars

\* A step of one request keeps RequestsInv if it disturbs no other.
LEMMA RequestsKept ==
  ASSUME TypeOK, IpcsInv, RequestsInv, NEW r \in Requests, Monotone,
         \A q \in Requests \ {r} : Undisturbed(q),
         Relies(r)' /\ Holds(r)',
         kind'[r] = "create" =>
           \/ kind[r] = "create" /\ com'[r] = com[r]
           \/ \A q \in Requests : com[q] # com'[r]
  PROVE  RequestsInv'
<1>1. \A q \in Requests : Relies(q)' /\ Holds(q)'
  BY OthersRely DEF RequestsInv
<1>2. \A q \in Requests \ {r} : kind'[q] = kind[q] /\ com'[q] = com[q]
  BY DEF Undisturbed
<1>3. \A q, s \in Requests : kind'[q] = "create" /\ kind'[s] = "create" /\ com'[q] = com'[s] => q = s
  BY <1>2 DEF RequestsInv
<1>4. QED
  BY <1>1, <1>3 DEF RequestsInv

LEMMA RequestsKeptByAll ==
  ASSUME TypeOK, IpcsInv, RequestsInv, Monotone, \A q \in Requests : Undisturbed(q)
  PROVE  RequestsInv'
<1>1. \A q \in Requests : Relies(q)' /\ Holds(q)'
  BY OthersRely DEF RequestsInv
<1>2. \A q \in Requests : kind'[q] = kind[q] /\ com'[q] = com[q]
  BY DEF Undisturbed
<1>3. QED
  BY <1>1, <1>2 DEF RequestsInv

-----------------------------------------------------------------------------
(* Steps of the requests that change no table.                             *)

LEMMA ReadKeepsRequests ==
  ASSUME TypeOK, IpcsInv, RequestsInv, NEW r \in Requests, Read(r)
  PROVE  RequestsInv'
<1>1. /\ UNCHANGED <<tableVars, lockVars>>
      /\ pc[r] = "idle"
      /\ \A q \in Requests \ {r} : SameRequest(q)
  <2>1. \A k, c, i, l, label : Begin(r, k, c, i, l, label) =>
          pc[r] = "idle" /\ (\A q \in Requests \ {r} : SameRequest(q)) /\ UNCHANGED tableVars
    BY BeginFacts
  <2>2. QED
    BY <2>1 DEF Read, ReadForCreate, ReadDraft, findEligibleSubcontractCommitment, BeginUnlinked, ReadForClaim
<1>2. Monotone
  BY <1>1, TablesKept
<1>3. \A q \in Requests \ {r} : Undisturbed(q)
  <2>1. \A q \in Requests \ {r} : KeepsLocks(q)
    BY <1>1 DEF lockVars, KeepsLocks
  <2>2. QED
    BY <1>1, <2>1, QuietUndisturbed DEF RequestsInv
<1>4. /\ Relies(r)' /\ Holds(r)'
      /\ kind'[r] = "create" => \A q \in Requests : com[q] # com'[r]
  <2>1. CASE \E c \in Commitments : ReadForCreate(r, c)
    <3>1. PICK c \in Commitments : ReadForCreate(r, c)
      BY <2>1
    <3>2. pc'[r] = "company" /\ kind'[r] = "create" /\ com'[r] = c
      BY <3>1, BeginFacts DEF ReadForCreate
    <3>3. status'[c] = "absent" /\ \A q \in Requests : com[q] # c
      BY <1>1, <3>1 DEF ReadForCreate, tableVars, comVars
    <3>4. QED
      BY <3>2, <3>3 DEF Relies, Holds, Commits, Locking, Ordering
  <2>2. CASE \E c \in Commitments : ReadDraft(r, c)
    <3>1. PICK c \in Commitments : ReadDraft(r, c)
      BY <2>2
    <3>2. pc'[r] = "edit" /\ kind'[r] = "edit" /\ com'[r] = c
      BY <3>1, BeginFacts DEF ReadDraft
    <3>3. status'[c] = "draft"
      BY <1>1, <3>1 DEF ReadDraft, tableVars, comVars
    <3>4. QED
      BY <3>2, <3>3 DEF Relies, Holds, Commits, Locking, Ordering
  <2>3. CASE \E c \in Commitments : findEligibleSubcontractCommitment(r, c)
    <3>1. PICK c \in Commitments : findEligibleSubcontractCommitment(r, c)
      BY <2>3
    <3>2. pc'[r] = "commitment" /\ kind'[r] = "createIpc" /\ com'[r] = c
      BY <3>1, BeginFacts DEF findEligibleSubcontractCommitment
    <3>3. status'[c] = "active"
      BY <1>1, <3>1 DEF findEligibleSubcontractCommitment, tableVars, comVars
    <3>4. QED
      BY <3>2, <3>3 DEF Relies, Holds, Commits, Locking, Ordering
  <2>4. CASE \E c \in Commitments, k \in Ordering : BeginUnlinked(r, k, c)
    <3>1. PICK c \in Commitments, k \in Ordering : BeginUnlinked(r, k, c)
      BY <2>4
    <3>2. pc'[r] = "commitment" /\ kind'[r] = k /\ com'[r] = c
      BY <3>1, BeginFacts DEF BeginUnlinked
    <3>3. status'[c] # "absent" /\ c \notin Linked
      BY <1>1, <3>1 DEF BeginUnlinked, tableVars, comVars
    <3>4. QED
      BY <3>2, <3>3 DEF Relies, Holds, Commits, Locking, Ordering
  <2>5. CASE \E i \in Ipcs, l \in Lines : ReadForClaim(r, i, l)
    <3>1. PICK i \in Ipcs, l \in Lines : ReadForClaim(r, i, l)
      BY <2>5
    <3>2. pc'[r] = "claim" /\ kind'[r] = "claim" /\ ipc'[r] = i /\ line'[r] = l
      BY <3>1, BeginFacts DEF ReadForClaim
    <3>3. of'[i] # None /\ l \in lines'[of'[i]]
      BY <1>1, <3>1 DEF ReadForClaim, tableVars, comVars, ipcVars, IpcsInv, EDITABLE_STATUSES
    <3>4. QED
      BY <3>2, <3>3 DEF Relies, Holds, Commits, Locking, Ordering
  <2>6. QED
    BY <2>1, <2>2, <2>3, <2>4, <2>5 DEF Read, Ordering
<1>5. QED
  BY <1>2, <1>3, <1>4, RequestsKept

LEMMA LockKeepsRequests ==
  ASSUME TypeOK, IpcsInv, NumbersInv, RequestsInv, NEW r \in Requests, Lock(r)
  PROVE  RequestsInv'
<1> r # None
  BY NoneAssumption
<1>1. CASE LockCompany(r)
  <2>1. /\ UNCHANGED tableVars
        /\ pc[r] = "company" /\ companyLock = None /\ companyLock' = r
        /\ pc'[r] = "commit" /\ kind'[r] = kind[r] /\ com'[r] = com[r] /\ ipc'[r] = ipc[r] /\ line'[r] = line[r]
        /\ next'[r] = NextNumber(CommitmentNumbers)
        /\ \A q \in Requests \ {r} : SameRequest(q)
    BY <1>1 DEF LockCompany, Goto, TypeOK, SameRequest
  <2>2. \A q \in Requests \ {r} : KeepsLocks(q)
    BY <1>1, NoneAssumption DEF LockCompany, KeepsLocks
  <2>3. \A q \in Requests \ {r} : Undisturbed(q)
    BY <2>1, <2>2, QuietUndisturbed DEF RequestsInv
  <2>4. kind[r] = "create" /\ com[r] \in Commitments /\ status[com[r]] = "absent"
    BY <2>1 DEF RequestsInv, Relies
  <2>5. next'[r] = Cardinality(NumberedCommitments)' + 1
    BY <2>1, TablesKept, CountsInNat, NextIsNext DEF NumbersInv, NumbersSequential
  <2>6. Relies(r)' /\ Holds(r)'
    BY <2>1, <2>4, <2>5 DEF Relies, Holds, Commits, Locking, Ordering, tableVars, comVars
  <2>7. QED
    BY <2>1, <2>3, <2>4, <2>6, TablesKept, RequestsKept
<1>2. CASE LockCommitment(r) /\ EndTransaction(r)
  <2>1. UNCHANGED tableVars
    BY <1>2 DEF LockCommitment
  <2>2. /\ pc'[r] = "idle" /\ kind'[r] = None
        /\ \A q \in Requests \ {r} : SameRequest(q) /\ KeepsLocks(q)
    BY <1>2, EndFacts, LeaveFacts
  <2>3. \A q \in Requests \ {r} : Undisturbed(q)
    BY <2>1, <2>2, QuietUndisturbed DEF RequestsInv
  <2>4. Relies(r)' /\ Holds(r)' /\ kind'[r] # "create"
    BY <2>2, IdleRelies, NoneAssumption DEF Kinds
  <2>5. QED
    BY <2>1, <2>3, <2>4, TablesKept, RequestsKept
<1>3. CASE LockCommitment(r) /\ Admitted(r) /\ ReadUnderLock(r) /\ commitmentLock' = [commitmentLock EXCEPT ![com[r]] = r]
             /\ UNCHANGED <<companyLock, contractLock, ipcLock>>
  <2>1. /\ UNCHANGED tableVars
        /\ pc[r] = "commitment" /\ commitmentLock[com[r]] = None
        /\ pc'[r] = "commit" /\ kind'[r] = kind[r] /\ com'[r] = com[r] /\ ipc'[r] = ipc[r] /\ line'[r] = line[r]
        /\ seen'[r] = lines[com[r]] /\ rate'[r] = retention[com[r]]
        /\ next'[r] = IF kind[r] = "createIpc" THEN NextNumber(IpcNumbers(com[r])) ELSE 0
        /\ \A q \in Requests \ {r} : SameRequest(q)
    BY <1>3 DEF LockCommitment, ReadUnderLock, Goto, TypeOK, SameRequest
  <2>2. kind[r] \in Locking /\ com[r] \in Commitments
    BY <2>1 DEF RequestsInv, Relies
  <2>3. commitmentLock'[com[r]] = r
    BY <1>3, <2>2 DEF TypeOK
  <2>4. \A q \in Requests \ {r} : KeepsLocks(q)
    BY <1>3, <2>1, <2>2, NoneAssumption DEF KeepsLocks, TypeOK
  <2>5. \A q \in Requests \ {r} : Undisturbed(q)
    BY <2>1, <2>4, QuietUndisturbed DEF RequestsInv
  <2>6. kind[r] = "createIpc" => next'[r] = Cardinality(IpcsOf(com[r]))' + 1
    <3>1. NextNumber(IpcNumbers(com[r])) = Cardinality(IpcsOf(com[r])) + 1
      BY <2>2, CountsInNat, NextIsNext DEF NumbersInv, NumbersSequential
    <3>2. IpcsOf(com[r])' = IpcsOf(com[r])
      BY <2>1 DEF IpcsOf, tableVars, ipcVars
    <3>3. QED
      BY <2>1, <3>1, <3>2
  <2>7. Admitted(r)'
    <3>1. \A l \in Lines : certifiedSoFar(l)' = certifiedSoFar(l)
      BY <2>1, TablesKept
    <3>2. QED
      BY <1>3, <2>1, <3>1 DEF Admitted, tableVars, comVars, ipcVars
  <2>8. Relies(r) /\ Holds(r)
    BY DEF RequestsInv
  <2>9. Relies(r)'
    BY <2>1, <2>2, <2>8 DEF Relies, tableVars, comVars, ipcVars
  <2>10. Holds(r)'
    <3>1. /\ kind[r] \in Ordering /\ com[r] \in Linked => contractLock' = r /\ ~ended'
          /\ kind[r] = "certify" => ipcLock'[ipc[r]] = r
      BY <1>3, <2>1, <2>8 DEF Holds, tableVars
    <3>2. kind[r] # "create"
      BY <2>2 DEF Locking, Ordering
    <3>3. QED
      BY <2>1, <2>3, <2>6, <2>7, <3>1, <3>2 DEF Holds, Commits, tableVars, comVars
  <2>11. QED
    BY <2>1, <2>2, <2>5, <2>9, <2>10, TablesKept, RequestsKept DEF Locking, Ordering
<1>4. CASE \E c \in Commitments, k \in Ordering : LockContract(r, k, c)
  <2>1. PICK c \in Commitments, k \in Ordering : LockContract(r, k, c)
    BY <1>4
  <2>2. /\ UNCHANGED tableVars
        /\ pc'[r] = "commitment" /\ kind'[r] = k /\ com'[r] = c
        /\ contractLock = None /\ ~ended /\ contractLock' = r /\ status[c] # "absent"
        /\ UNCHANGED <<companyLock, commitmentLock, ipcLock>>
        /\ \A q \in Requests \ {r} : SameRequest(q)
    BY <2>1, BeginFacts DEF LockContract
  <2>3. \A q \in Requests \ {r} : KeepsLocks(q)
    BY <2>2, NoneAssumption DEF KeepsLocks
  <2>4. \A q \in Requests \ {r} : Undisturbed(q)
    BY <2>2, <2>3, QuietUndisturbed DEF RequestsInv
  <2>5. Relies(r)' /\ Holds(r)' /\ kind'[r] # "create"
    BY <2>2 DEF Relies, Holds, Commits, Locking, Ordering, tableVars, comVars
  <2>6. QED
    BY <2>2, <2>4, <2>5, TablesKept, RequestsKept
<1>5. CASE \E i \in Ipcs : LockIpc(r, i)
  <2>1. PICK i \in Ipcs : LockIpc(r, i)
    BY <1>5
  <2>2. /\ UNCHANGED tableVars
        /\ pc'[r] = "commitment" /\ kind'[r] = "certify" /\ com'[r] = of[i] /\ ipc'[r] = i
        /\ ipcLock[i] = None /\ ipcStatus[i] = "approved" /\ ipcLock' = [ipcLock EXCEPT ![i] = r]
        /\ UNCHANGED <<companyLock, contractLock, commitmentLock>>
        /\ \A q \in Requests \ {r} : SameRequest(q)
    BY <2>1, BeginFacts DEF LockIpc
  <2>3. \A q \in Requests \ {r} : KeepsLocks(q)
    BY <2>2, NoneAssumption DEF KeepsLocks, TypeOK
  <2>4. \A q \in Requests \ {r} : Undisturbed(q)
    BY <2>2, <2>3, QuietUndisturbed DEF RequestsInv
  <2>5. of[i] \in Commitments /\ status[of[i]] = "active" /\ ipcLock'[i] = r
    BY <2>2 DEF IpcsInv, TypeOK
  <2>6. Relies(r)' /\ Holds(r)' /\ kind'[r] # "create"
    BY <2>2, <2>5 DEF Relies, Holds, Commits, Locking, Ordering, tableVars, comVars, ipcVars
  <2>7. QED
    BY <2>2, <2>4, <2>6, TablesKept, RequestsKept
<1>6. QED
  BY <1>1, <1>2, <1>3, <1>4, <1>5 DEF Lock, LockCommitment, Ordering

-----------------------------------------------------------------------------
(* Steps of the requests that write.                                       *)

\* A step that writes no row that matters to q.
Spares(q) ==
  /\ kind[q] = "create" => status'[com[q]] = status[com[q]]
  /\ kind[q] \in Ordering /\ com[q] \in Linked => ended' = ended
  /\ Commits(q, "create") => NumberedCommitments' = NumberedCommitments
  /\ pc[q] = "commit" /\ kind[q] \in Locking =>
       /\ status'[com[q]] = status[com[q]] /\ lines'[com[q]] = lines[com[q]]
       /\ retention'[com[q]] = retention[com[q]]
       /\ \A i \in Ipcs : of'[i] = com[q] <=> of[i] = com[q]
  /\ kind[q] = "certify" => ipcStatus'[ipc[q]] = ipcStatus[ipc[q]] /\ claimed'[ipc[q]] = claimed[ipc[q]]
  /\ Commits(q, "certify") =>
       \A l \in Lines : claimed[ipc[q]][l] > 0 => certifiedSoFar(l)' = certifiedSoFar(l)

LEMMA SparedUndisturbed ==
  ASSUME NEW q \in Requests, SameRequest(q), KeepsLocks(q), Relies(q), Holds(q), Spares(q)
  PROVE  Undisturbed(q)
<1>1. kind[q] \in Ordering /\ com[q] \in Linked => contractLock' = contractLock
  BY DEF KeepsLocks, Holds
<1>2. Commits(q, "create") => companyLock' = companyLock
  BY DEF KeepsLocks, Holds
<1>3. pc[q] = "commit" /\ kind[q] \in Locking => commitmentLock'[com[q]] = commitmentLock[com[q]]
  BY DEF KeepsLocks, Holds, Relies
<1>4. kind[q] = "certify" => ipcLock'[ipc[q]] = ipcLock[ipc[q]]
  BY DEF KeepsLocks, Holds, Relies
<1>5. QED
  BY <1>1, <1>2, <1>3, <1>4 DEF Undisturbed, SameRequest, Spares

\* What a request that ends its transaction leaves to show.
LEMMA EndKeepsRequests ==
  ASSUME TypeOK, IpcsInv, RequestsInv, NEW r \in Requests, EndTransaction(r), Monotone,
         \A q \in Requests \ {r} : Spares(q)
  PROVE  RequestsInv'
<1>1. /\ pc'[r] = "idle" /\ kind'[r] = None
      /\ \A q \in Requests \ {r} : SameRequest(q) /\ KeepsLocks(q)
  BY EndFacts, LeaveFacts
<1>2. \A q \in Requests \ {r} : Undisturbed(q)
  BY <1>1, SparedUndisturbed DEF RequestsInv
<1>3. Relies(r)' /\ Holds(r)' /\ kind'[r] # "create"
  BY <1>1, IdleRelies, NoneAssumption DEF Kinds
<1>4. QED
  BY <1>2, <1>3, RequestsKept

\* The same when it has locked nothing, and so leaves the locks alone.
LEMMA LeaveKeepsRequests ==
  ASSUME TypeOK, IpcsInv, RequestsInv, NEW r \in Requests, Leave(r), UNCHANGED lockVars, Monotone,
         \A q \in Requests \ {r} : Spares(q)
  PROVE  RequestsInv'
<1>1. /\ pc'[r] = "idle" /\ kind'[r] = None
      /\ \A q \in Requests \ {r} : SameRequest(q) /\ KeepsLocks(q)
  BY LeaveFacts DEF lockVars, KeepsLocks
<1>2. \A q \in Requests \ {r} : Undisturbed(q)
  BY <1>1, SparedUndisturbed DEF RequestsInv
<1>3. Relies(r)' /\ Holds(r)' /\ kind'[r] # "create"
  BY <1>1, IdleRelies, NoneAssumption DEF Kinds
<1>4. QED
  BY <1>2, <1>3, RequestsKept

LEMMA createCommitmentKeepsRequests ==
  ASSUME TypeOK, IpcsInv, RequestsInv, NEW r \in Requests, createCommitment(r)
  PROVE  RequestsInv'
<1>1. pc[r] = "commit" /\ kind[r] = "create" /\ companyLock = r /\ com[r] \in Commitments /\ status[com[r]] = "absent"
  BY DEF createCommitment, Commits, RequestsInv, Relies, Holds
<1>2. /\ status' = [status EXCEPT ![com[r]] = "draft"]
      /\ \A c \in Commitments : c # com[r] => retention'[c] = retention[c]
      /\ EndTransaction(r)
      /\ UNCHANGED <<ended, original, revised, lines, ipcVars>>
  BY DEF createCommitment, TypeOK
<1>3. Monotone
  BY <1>1, <1>2 DEF Monotone, TypeOK, ipcVars
<1>4. \A l \in Lines : certifiedSoFar(l)' = certifiedSoFar(l)
  BY <1>2, SoFarKept DEF Certified, ipcVars
<1>5. ASSUME NEW q \in Requests \ {r} PROVE Spares(q)
  <2>1. Relies(q) /\ Holds(q) /\ (kind[q] = "create" => com[q] # com[r])
    BY <1>1 DEF RequestsInv
  <2>2. ~Commits(q, "create")
    BY <1>1, <2>1 DEF Holds
  <2>3. kind[q] \in Locking => com[q] \in Commitments /\ com[q] # com[r]
    BY <1>1, <2>1 DEF Relies
  <2>4. kind[q] = "create" => com[q] \in Commitments
    BY <2>1 DEF Relies
  <2>5. QED
    BY <1>2, <1>4, <2>1, <2>2, <2>3, <2>4 DEF Spares, TypeOK, ipcVars
<1>6. QED
  BY <1>2, <1>3, <1>5, EndKeepsRequests

\* submit, approve and amend write one commitment, whose row they hold.
LEMMA OrderKeepsRequests ==
  ASSUME TypeOK, IpcsInv, RequestsInv, NEW r \in Requests, kind[r] \in Ordering, pc[r] = "commit",
         EndTransaction(r),
         \A c \in Commitments : c # com[r] => status'[c] = status[c] /\ lines'[c] = lines[c],
         status'[com[r]] # "absent",
         status[com[r]] = "active" => status'[com[r]] = "active" /\ lines[com[r]] \subseteq lines'[com[r]],
         UNCHANGED <<ended, number, retention, ipcVars>>
  PROVE  RequestsInv'
<1>1. com[r] \in Commitments /\ commitmentLock[com[r]] = r /\ status[com[r]] # "absent"
  BY DEF RequestsInv, Relies, Holds, Locking
<1>2. Monotone
  BY <1>1 DEF Monotone, ipcVars
<1>3. \A l \in Lines : certifiedSoFar(l)' = certifiedSoFar(l)
  BY SoFarKept DEF Certified, ipcVars
<1>4. NumberedCommitments' = NumberedCommitments
  BY DEF NumberedCommitments
<1>5. ASSUME NEW q \in Requests \ {r} PROVE Spares(q)
  <2>1. Relies(q) /\ Holds(q)
    BY DEF RequestsInv
  <2>2. kind[q] = "create" => com[q] \in Commitments /\ com[q] # com[r]
    BY <1>1, <2>1 DEF Relies
  <2>3. pc[q] = "commit" /\ kind[q] \in Locking => com[q] \in Commitments /\ com[q] # com[r]
    BY <1>1, <2>1 DEF Relies, Holds
  <2>4. QED
    BY <1>3, <1>4, <2>2, <2>3 DEF Spares, ipcVars
<1>6. QED
  BY <1>2, <1>5, EndKeepsRequests

LEMMA CreateIpcKeepsRequests ==
  ASSUME TypeOK, IpcsInv, RequestsInv, NEW r \in Requests, CreateIpc(r)
  PROVE  RequestsInv'
<1>1. com[r] \in Commitments /\ commitmentLock[com[r]] = r
  BY DEF CreateIpc, Commits, RequestsInv, Relies, Holds, Locking
<1>2. PICK i \in Ipcs : /\ of[i] = None
                        /\ of' = [of EXCEPT ![i] = com[r]]
                        /\ ipcStatus' = [ipcStatus EXCEPT ![i] = "draft"]
  BY DEF CreateIpc
<1>3. EndTransaction(r) /\ UNCHANGED <<ended, comVars, claimed, ipcRate>>
  BY DEF CreateIpc
<1>4. ipcStatus[i] = "absent"
  BY <1>2 DEF IpcsInv
<1>5. Certified' = Certified
  BY <1>2, <1>4 DEF Certified, TypeOK
<1>6. \A l \in Lines : certifiedSoFar(l)' = certifiedSoFar(l)
  BY <1>3, <1>5, SoFarKept
<1>7. Monotone
  BY <1>2, <1>3 DEF Monotone, comVars, TypeOK
<1>8. NumberedCommitments' = NumberedCommitments
  BY <1>3 DEF NumberedCommitments, comVars
<1>9. ASSUME NEW q \in Requests \ {r} PROVE Spares(q)
  <2>1. Relies(q) /\ Holds(q)
    BY DEF RequestsInv
  <2>2. pc[q] = "commit" /\ kind[q] \in Locking => com[q] \in Commitments /\ com[q] # com[r]
    BY <1>1, <2>1 DEF Relies, Holds
  <2>3. pc[q] = "commit" /\ kind[q] \in Locking => \A j \in Ipcs : of'[j] = com[q] <=> of[j] = com[q]
    BY <1>2, <2>2, NoneAssumption DEF TypeOK
  <2>4. kind[q] = "certify" => ipc[q] \in Ipcs /\ ipc[q] # i
    BY <1>4, <2>1 DEF Relies
  <2>5. QED
    BY <1>2, <1>3, <1>6, <1>8, <2>3, <2>4 DEF Spares, TypeOK, comVars
<1>10. QED
  BY <1>3, <1>7, <1>9, EndKeepsRequests

LEMMA certifyKeepsRequests ==
  ASSUME TypeOK, LinesInv, IpcsInv, RequestsInv, NEW r \in Requests, certifySubcontractIpc(r)
  PROVE  RequestsInv'
<1>1. /\ com[r] \in Commitments /\ commitmentLock[com[r]] = r
      /\ ipc[r] \in Ipcs /\ of[ipc[r]] = com[r] /\ ipcLock[ipc[r]] = r /\ ipcStatus[ipc[r]] = "approved"
  BY DEF certifySubcontractIpc, Commits, RequestsInv, Relies, Holds, Locking
<1>2. /\ ipcStatus' = [ipcStatus EXCEPT ![ipc[r]] = "certified"]
      /\ EndTransaction(r)
      /\ UNCHANGED <<ended, comVars, of, ipcNumber, claimed>>
  BY DEF certifySubcontractIpc
<1>3. Certified' = Certified \cup {ipc[r]} /\ ipc[r] \in Ipcs \ Certified
  BY <1>1, <1>2 DEF Certified, TypeOK
<1>4. \A l \in Lines : certifiedSoFar(l)' = certifiedSoFar(l) + claimed[ipc[r]][l]
  BY <1>2, <1>3, SoFarGrows
<1>5. Monotone
  BY <1>2 DEF Monotone, comVars
<1>6. NumberedCommitments' = NumberedCommitments
  BY <1>2 DEF NumberedCommitments, comVars
<1>7. ASSUME NEW q \in Requests \ {r} PROVE Spares(q)
  <2>1. Relies(q) /\ Holds(q)
    BY DEF RequestsInv
  <2>2. kind[q] = "certify" => ipc[q] \in Ipcs /\ ipc[q] # ipc[r]
    BY <1>1, <2>1 DEF Relies, Holds
  <2>3. ASSUME Commits(q, "certify"), NEW l \in Lines, claimed[ipc[q]][l] > 0
        PROVE  certifiedSoFar(l)' = certifiedSoFar(l)
    <3>1. /\ ipc[q] \in Ipcs /\ of[ipc[q]] = com[q]
          /\ com[q] \in Commitments /\ com[q] # com[r]
      BY <1>1, <2>1, <2>3 DEF Commits, Relies, Holds, Locking
    <3>2. l \in lines[com[q]]
      BY <2>3, <3>1 DEF IpcsInv
    <3>3. l \notin lines[com[r]]
      BY <1>1, <3>1, <3>2 DEF LinesInv
    <3>4. claimed[ipc[r]][l] \in Nat /\ ~(claimed[ipc[r]][l] > 0)
      BY <1>1, <3>3, BoundAssumption DEF IpcsInv, TypeOK
    <3>5. certifiedSoFar(l) \in Nat
      BY SoFarInNat
    <3>6. QED
      BY <1>4, <3>4, <3>5
  <2>4. QED
    BY <1>2, <1>6, <2>2, <2>3 DEF Spares, TypeOK, comVars
<1>8. QED
  BY <1>2, <1>5, <1>7, EndKeepsRequests

LEMMA CommitKeepsRequests ==
  ASSUME TypeOK, LinesInv, IpcsInv, RequestsInv, NEW r \in Requests, Commit(r)
  PROVE  RequestsInv'
<1>1. CASE SubmitCommitment(r) \/ ApproveCommitment(r) \/ AmendCommitment(r)
  <2>1. pc[r] = "commit" /\ kind[r] \in Ordering /\ com[r] \in Commitments /\ Admitted(r)
    BY <1>1 DEF SubmitCommitment, ApproveCommitment, AmendCommitment, Commits, RequestsInv, Relies, Holds,
                Locking, Ordering
  <2>2. kind[r] = "amend" => status[com[r]] = "active"
    BY <2>1 DEF Admitted
  <2>3. kind[r] \in {"submit", "approve"} => status[com[r]] # "active"
    BY <2>1 DEF Admitted
  <2>4. EndTransaction(r) /\ UNCHANGED <<ended, number, retention, ipcVars>>
    BY <1>1 DEF SubmitCommitment, ApproveCommitment, AmendCommitment
  <2>5. \A c \in Commitments : c # com[r] => status'[c] = status[c] /\ lines'[c] = lines[c]
    BY <1>1 DEF SubmitCommitment, ApproveCommitment, AmendCommitment, TypeOK
  <2>6. status'[com[r]] # "absent"
    BY <1>1, <2>1, <2>2 DEF SubmitCommitment, ApproveCommitment, AmendCommitment, TypeOK, Commits
  <2>7. status[com[r]] = "active" => status'[com[r]] = "active" /\ lines[com[r]] \subseteq lines'[com[r]]
    <3>1. CASE AmendCommitment(r)
      BY <2>1, <3>1 DEF AmendCommitment, TypeOK
    <3>2. CASE SubmitCommitment(r) \/ ApproveCommitment(r)
      BY <2>3, <3>2 DEF SubmitCommitment, ApproveCommitment, Commits
    <3>3. QED
      BY <1>1, <3>1, <3>2
  <2>8. QED
    BY <2>1, <2>4, <2>5, <2>6, <2>7, OrderKeepsRequests
<1>2. QED
  BY <1>1, createCommitmentKeepsRequests, CreateIpcKeepsRequests, certifyKeepsRequests DEF Commit

LEMMA EditKeepsRequests ==
  ASSUME TypeOK, IpcsInv, RequestsInv, NEW r \in Requests, EditDraft(r)
  PROVE  RequestsInv'
<1>1. /\ commitmentLock[com[r]] = None
      /\ Leave(r) /\ UNCHANGED <<ended, status, number, original, revised, ipcVars, lockVars>>
      /\ com[r] \in Commitments
  BY DEF EditDraft, RequestsInv, Relies
<1>2. /\ \A c \in Commitments : c # com[r] => retention'[c] = retention[c] /\ lines'[c] = lines[c]
      /\ status[com[r]] # "draft" => retention' = retention /\ lines' = lines
  BY DEF EditDraft, Edit, TypeOK
<1>3. Monotone
  BY <1>1, <1>2 DEF Monotone, ipcVars
<1>4. \A l \in Lines : certifiedSoFar(l)' = certifiedSoFar(l)
  BY <1>1, SoFarKept DEF Certified, ipcVars
<1>5. NumberedCommitments' = NumberedCommitments
  BY <1>1 DEF NumberedCommitments
<1>6. ASSUME NEW q \in Requests \ {r} PROVE Spares(q)
  <2>1. Relies(q) /\ Holds(q) /\ q # None
    BY NoneAssumption DEF RequestsInv
  <2>2. pc[q] = "commit" /\ kind[q] \in Locking => com[q] \in Commitments /\ com[q] # com[r]
    BY <1>1, <2>1 DEF Relies, Holds
  <2>3. QED
    BY <1>1, <1>2, <1>4, <1>5, <2>2 DEF Spares, ipcVars
<1>7. QED
  BY <1>1, <1>3, <1>6, LeaveKeepsRequests

LEMMA AddClaimKeepsRequests ==
  ASSUME TypeOK, IpcsInv, RequestsInv, NEW r \in Requests, AddClaim(r)
  PROVE  RequestsInv'
<1>1. /\ ipcLock[ipc[r]] = None
      /\ Leave(r) /\ UNCHANGED <<ended, comVars, of, ipcNumber, ipcStatus, ipcRate, lockVars>>
      /\ ipc[r] \in Ipcs
  BY DEF AddClaim, RequestsInv, Relies
<1>2. /\ \A i \in Ipcs : i # ipc[r] => claimed'[i] = claimed[i]
      /\ ipcStatus[ipc[r]] = "certified" => claimed' = claimed
  BY DEF AddClaim, TypeOK, EDITABLE_STATUSES
<1>3. Monotone
  BY <1>1 DEF Monotone, comVars
<1>4. \A l \in Lines : certifiedSoFar(l)' = certifiedSoFar(l)
  BY <1>1, <1>2, SoFarKept DEF Certified
<1>5. NumberedCommitments' = NumberedCommitments
  BY <1>1 DEF NumberedCommitments, comVars
<1>6. ASSUME NEW q \in Requests \ {r} PROVE Spares(q)
  <2>1. Relies(q) /\ Holds(q) /\ q # None
    BY NoneAssumption DEF RequestsInv
  <2>2. kind[q] = "certify" => ipc[q] \in Ipcs /\ ipc[q] # ipc[r]
    BY <1>1, <2>1 DEF Relies, Holds
  <2>3. QED
    BY <1>1, <1>2, <1>4, <1>5, <2>2 DEF Spares, comVars
<1>7. QED
  BY <1>1, <1>3, <1>6, LeaveKeepsRequests

\* A transaction of one row and no request: it finds the row unlocked.
LEMMA OneRowKeepsRequests ==
  ASSUME TypeOK, IpcsInv, RequestsInv, UNCHANGED <<lockVars, reqVars>>, Monotone, \A q \in Requests : Spares(q)
  PROVE  RequestsInv'
<1>1. \A q \in Requests : SameRequest(q) /\ KeepsLocks(q)
  BY DEF SameRequest, KeepsLocks, lockVars, reqVars
<1>2. \A q \in Requests : Undisturbed(q)
  BY <1>1, SparedUndisturbed DEF RequestsInv
<1>3. QED
  BY <1>2, RequestsKeptByAll

LEMMA EndContractKeepsRequests ==
  ASSUME TypeOK, IpcsInv, RequestsInv, EndContract
  PROVE  RequestsInv'
<1>1. contractLock = None /\ UNCHANGED <<comVars, ipcVars, lockVars, reqVars>>
  BY DEF EndContract
<1>2. Monotone
  BY <1>1 DEF Monotone, comVars, ipcVars
<1>3. \A l \in Lines : certifiedSoFar(l)' = certifiedSoFar(l)
  BY <1>1, SoFarKept DEF Certified, ipcVars
<1>4. NumberedCommitments' = NumberedCommitments
  BY <1>1 DEF NumberedCommitments, comVars
<1>5. ASSUME NEW q \in Requests PROVE Spares(q)
  <2>1. Holds(q) /\ q # None
    BY NoneAssumption DEF RequestsInv
  <2>2. ~(kind[q] \in Ordering /\ com[q] \in Linked)
    BY <1>1, <2>1 DEF Holds
  <2>3. QED
    BY <1>1, <1>3, <1>4, <2>2 DEF Spares, comVars, ipcVars
<1>6. QED
  BY <1>1, <1>2, <1>5, OneRowKeepsRequests

LEMMA CancelKeepsRequests ==
  ASSUME TypeOK, IpcsInv, RequestsInv, NEW c \in Commitments, CancelCommitment(c)
  PROVE  RequestsInv'
<1>1. /\ status[c] \in {"draft", "pending_approval"} /\ commitmentLock[c] = None
      /\ status' = [status EXCEPT ![c] = "cancelled"]
      /\ UNCHANGED <<ended, number, original, revised, retention, lines, ipcVars, lockVars, reqVars>>
  BY DEF CancelCommitment
<1>2. Monotone
  BY <1>1 DEF Monotone, TypeOK, ipcVars
<1>3. \A l \in Lines : certifiedSoFar(l)' = certifiedSoFar(l)
  BY <1>1, SoFarKept DEF Certified, ipcVars
<1>4. NumberedCommitments' = NumberedCommitments
  BY <1>1 DEF NumberedCommitments
<1>5. ASSUME NEW q \in Requests PROVE Spares(q)
  <2>1. Relies(q) /\ Holds(q) /\ q # None
    BY NoneAssumption DEF RequestsInv
  <2>2. pc[q] = "commit" /\ kind[q] \in Locking => com[q] \in Commitments /\ com[q] # c
    BY <1>1, <2>1 DEF Relies, Holds
  <2>3. kind[q] = "create" => com[q] \in Commitments /\ com[q] # c
    BY <1>1, <2>1 DEF Relies
  <2>4. QED
    BY <1>1, <1>3, <1>4, <2>2, <2>3 DEF Spares, TypeOK, ipcVars
<1>6. QED
  BY <1>1, <1>2, <1>5, OneRowKeepsRequests

\* What a step of an IPC that is not certified writes.
LEMMA IpcStepFacts ==
  ASSUME TypeOK, NEW i \in Ipcs, IpcStep(i)
  PROVE  /\ ipcLock[i] = None /\ ipcStatus[i] \in {"submitted"} \cup EDITABLE_STATUSES
         /\ ipcStatus'[i] \in {"submitted", "approved"} \cup EDITABLE_STATUSES
         /\ \A j \in Ipcs : j # i => ipcStatus'[j] = ipcStatus[j] /\ claimed'[j] = claimed[j]
         /\ \A l \in Lines : claimed'[i][l] \in 0..claimed[i][l]
         /\ ipcStatus' \in [Ipcs -> {"absent", "submitted", "approved", "certified"} \cup EDITABLE_STATUSES]
         /\ claimed' \in [Ipcs -> [Lines -> 0..MaxClaim]]
         /\ UNCHANGED <<ended, comVars, of, ipcNumber, ipcRate, lockVars, reqVars>>
<1>1. CASE \E from \in {EDITABLE_STATUSES, {"submitted"}}, to \in {"submitted", "approved", "rejected"} : MoveIpc(i, from, to)
  <2>1. PICK from \in {EDITABLE_STATUSES, {"submitted"}}, to \in {"submitted", "approved", "rejected"} : MoveIpc(i, from, to)
    BY <1>1
  <2>2. \A l \in Lines : claimed[i][l] \in 0..claimed[i][l]
    BY BoundAssumption DEF TypeOK
  <2>3. QED
    BY <2>1, <2>2 DEF MoveIpc, TypeOK, EDITABLE_STATUSES
<1>2. CASE \E l \in Lines : DeleteClaim(i, l)
  <2>1. PICK l \in Lines : DeleteClaim(i, l)
    BY <1>2
  <2>2. claimed[i] \in [Lines -> 0..MaxClaim] /\ claimed[i][l] > 0
    BY <2>1 DEF TypeOK, DeleteClaim
  <2>3. claimed[i][l] - 1 \in 0..MaxClaim /\ claimed[i][l] - 1 \in 0..claimed[i][l]
    BY <2>2, BoundAssumption
  <2>4. claimed' = [claimed EXCEPT ![i] = [claimed[i] EXCEPT ![l] = claimed[i][l] - 1]]
    BY <2>1 DEF DeleteClaim
  <2>5. claimed' \in [Ipcs -> [Lines -> 0..MaxClaim]]
    BY <2>2, <2>3, <2>4 DEF TypeOK
  <2>6. \A m \in Lines : claimed'[i][m] \in 0..claimed[i][m]
    <3>1. \A m \in Lines : claimed[i][m] \in 0..claimed[i][m]
      BY <2>2, BoundAssumption
    <3>2. claimed'[i] = [claimed[i] EXCEPT ![l] = claimed[i][l] - 1]
      BY <2>4 DEF TypeOK
    <3>3. QED
      BY <2>2, <2>3, <3>1, <3>2
  <2>7. QED
    BY <2>1, <2>4, <2>5, <2>6 DEF DeleteClaim, TypeOK, EDITABLE_STATUSES
<1>3. QED
  BY <1>1, <1>2 DEF IpcStep, SubmitIpc, ApproveIpc, RejectIpc

LEMMA IpcStepKeepsRequests ==
  ASSUME TypeOK, IpcsInv, RequestsInv, NEW i \in Ipcs, IpcStep(i)
  PROVE  RequestsInv' /\ Certified' = Certified
<1>1. /\ ipcLock[i] = None /\ ipcStatus[i] # "certified" /\ ipcStatus'[i] # "certified"
      /\ \A j \in Ipcs : j # i => ipcStatus'[j] = ipcStatus[j] /\ claimed'[j] = claimed[j]
      /\ UNCHANGED <<ended, comVars, of, ipcNumber, ipcRate, lockVars, reqVars>>
  BY IpcStepFacts DEF EDITABLE_STATUSES
<1>2. Monotone
  BY <1>1 DEF Monotone, comVars
<1>3. Certified' = Certified
  BY <1>1 DEF Certified
<1>4. \A l \in Lines : certifiedSoFar(l)' = certifiedSoFar(l)
  BY <1>1, <1>3, SoFarKept DEF Certified
<1>5. NumberedCommitments' = NumberedCommitments
  BY <1>1 DEF NumberedCommitments, comVars
<1>6. ASSUME NEW q \in Requests PROVE Spares(q)
  <2>1. Relies(q) /\ Holds(q) /\ q # None
    BY NoneAssumption DEF RequestsInv
  <2>2. kind[q] = "certify" => ipc[q] \in Ipcs /\ ipc[q] # i
    BY <1>1, <2>1 DEF Relies, Holds
  <2>3. QED
    BY <1>1, <1>4, <1>5, <2>2 DEF Spares, comVars
<1>7. QED
  BY <1>1, <1>2, <1>3, <1>6, OneRowKeepsRequests

LEMMA AbortKeepsRequests ==
  ASSUME TypeOK, IpcsInv, RequestsInv, NEW r \in Requests, Abort(r)
  PROVE  RequestsInv'
<1>1. EndTransaction(r) /\ UNCHANGED tableVars
  BY DEF Abort
<1>2. \A q \in Requests \ {r} : Spares(q)
  BY <1>1, TablesKept DEF Spares, tableVars, comVars, ipcVars
<1>3. QED
  BY <1>1, <1>2, TablesKept, EndKeepsRequests

LEMMA StutterKeepsRequests ==
  ASSUME TypeOK, IpcsInv, RequestsInv, UNCHANGED vars
  PROVE  RequestsInv'
<1>1. UNCHANGED tableVars /\ UNCHANGED <<lockVars, reqVars>>
  BY DEF vars, tableVars, comVars, ipcVars, lockVars, reqVars
<1>2. \A q \in Requests : Spares(q)
  BY <1>1, TablesKept DEF Spares, tableVars, comVars, ipcVars
<1>3. QED
  BY <1>1, <1>2, TablesKept, OneRowKeepsRequests

LEMMA RequestsStep ==
  ASSUME TypeOK, LinesInv, IpcsInv, NumbersInv, RequestsInv, [Next]_vars
  PROVE  RequestsInv'
BY ReadKeepsRequests, LockKeepsRequests, CommitKeepsRequests, EditKeepsRequests, AddClaimKeepsRequests,
   AbortKeepsRequests, EndContractKeepsRequests, CancelKeepsRequests, IpcStepKeepsRequests, StutterKeepsRequests
   DEF Next

-----------------------------------------------------------------------------
(* Types.                                                                  *)

TablesTyped ==
  /\ ended \in BOOLEAN
  /\ status \in [Commitments -> {"absent", "draft", "cancelled"} \cup Submitted]
  /\ number \in [Commitments -> Nat]
  /\ original \in [Commitments -> Nat \cup {None}]
  /\ revised \in [Commitments -> Nat \cup {None}]
  /\ retention \in [Commitments -> Rates \cup {None}]
  /\ lines \in [Commitments -> SUBSET Lines]
  /\ of \in [Ipcs -> Commitments \cup {None}]
  /\ ipcNumber \in [Ipcs -> Nat]
  /\ ipcStatus \in [Ipcs -> {"absent", "submitted", "approved", "certified"} \cup EDITABLE_STATUSES]
  /\ claimed \in [Ipcs -> [Lines -> 0..MaxClaim]]
  /\ ipcRate \in [Ipcs -> Rates \cup {None}]

LocksTyped ==
  /\ companyLock \in Requests \cup {None}
  /\ contractLock \in Requests \cup {None}
  /\ commitmentLock \in [Commitments -> Requests \cup {None}]
  /\ ipcLock \in [Ipcs -> Requests \cup {None}]

RequestsTyped ==
  /\ pc \in [Requests -> {"idle", "company", "commitment", "edit", "claim", "commit"}]
  /\ kind \in [Requests -> Kinds \cup {None}]
  /\ com \in [Requests -> Commitments \cup {None}]
  /\ ipc \in [Requests -> Ipcs \cup {None}]
  /\ line \in [Requests -> Lines \cup {None}]
  /\ next \in [Requests -> Nat]
  /\ seen \in [Requests -> SUBSET Lines]
  /\ rate \in [Requests -> Rates \cup {None}]

LEMMA Typed == TypeOK <=> TablesTyped /\ LocksTyped /\ RequestsTyped
BY DEF TypeOK, TablesTyped, LocksTyped, RequestsTyped

LEMMA TypedNext ==
  ASSUME TablesTyped', LocksTyped', RequestsTyped'
  PROVE  TypeOK'
BY DEF TypeOK, TablesTyped, LocksTyped, RequestsTyped

LEMMA LeaveTyped ==
  ASSUME RequestsTyped, NEW r \in Requests, Leave(r)
  PROVE  RequestsTyped'
BY DEF RequestsTyped, Leave, Goto

LEMMA EndTyped ==
  ASSUME LocksTyped, RequestsTyped, NEW r \in Requests, EndTransaction(r)
  PROVE  LocksTyped' /\ RequestsTyped'
<1>1. RequestsTyped'
  BY LeaveTyped DEF EndTransaction
<1>2. LocksTyped'
  BY DEF EndTransaction, LocksTyped
<1>3. QED
  BY <1>1, <1>2

LEMMA BeginTyped ==
  ASSUME RequestsTyped, NEW r \in Requests, NEW k \in Kinds, NEW c \in Commitments \cup {None},
         NEW i \in Ipcs \cup {None}, NEW l \in Lines \cup {None},
         NEW label \in {"company", "commitment", "edit", "claim"}, Begin(r, k, c, i, l, label)
  PROVE  RequestsTyped' /\ UNCHANGED tableVars
BY DEF RequestsTyped, Begin, Goto

LEMMA ReadTyped ==
  ASSUME TypeOK, NEW r \in Requests, Read(r)
  PROVE  TypeOK'
<1>1. UNCHANGED lockVars
  BY DEF Read, ReadForCreate, ReadDraft, findEligibleSubcontractCommitment, BeginUnlinked, ReadForClaim
<1>2. RequestsTyped' /\ UNCHANGED tableVars
  <2>1. RequestsTyped
    BY Typed
  <2>2. CASE \E c \in Commitments : ReadForCreate(r, c) \/ ReadDraft(r, c) \/ findEligibleSubcontractCommitment(r, c)
    BY <2>1, <2>2, BeginTyped DEF ReadForCreate, ReadDraft, findEligibleSubcontractCommitment, Kinds
  <2>3. CASE \E c \in Commitments, k \in {"submit", "approve", "amend"} : BeginUnlinked(r, k, c)
    BY <2>1, <2>3, BeginTyped DEF BeginUnlinked, Kinds
  <2>4. CASE \E i \in Ipcs, l \in Lines : ReadForClaim(r, i, l)
    BY <2>1, <2>4, BeginTyped DEF ReadForClaim, Kinds
  <2>5. QED
    BY <2>2, <2>3, <2>4 DEF Read
<1>3. TablesTyped' /\ LocksTyped'
  BY <1>1, <1>2, Typed DEF TablesTyped, LocksTyped, tableVars, comVars, ipcVars, lockVars
<1>4. QED
  BY <1>2, <1>3, TypedNext

LEMMA LockTyped ==
  ASSUME TypeOK, NumbersInv, RequestsInv, NEW r \in Requests, Lock(r)
  PROVE  TypeOK'
<1>1. RequestsTyped /\ LocksTyped /\ TablesTyped
  BY Typed
<1>2. CASE LockCompany(r)
  <2>1. NextNumber(CommitmentNumbers) \in Nat
    BY CountsInNat, NextIsNext DEF NumbersInv, NumbersSequential
  <2>2. RequestsTyped'
    BY <1>1, <1>2, <2>1 DEF LockCompany, Goto, RequestsTyped
  <2>3. LocksTyped' /\ TablesTyped'
    BY <1>1, <1>2 DEF LockCompany, LocksTyped, TablesTyped, tableVars, comVars, ipcVars
  <2>4. QED
    BY <2>2, <2>3, TypedNext
<1>3. CASE LockCommitment(r)
  <2>1. TablesTyped'
    BY <1>1, <1>3 DEF LockCommitment, TablesTyped, tableVars, comVars, ipcVars
  <2>2. com[r] \in Commitments
    BY <1>3 DEF LockCommitment, RequestsInv, Relies, Locking
  <2>3. CASE EndTransaction(r)
    BY <1>1, <2>1, <2>3, EndTyped, TypedNext
  <2>4. CASE ReadUnderLock(r) /\ commitmentLock' = [commitmentLock EXCEPT ![com[r]] = r]
               /\ UNCHANGED <<companyLock, contractLock, ipcLock>>
    <3>1. NextNumber(IpcNumbers(com[r])) \in Nat
      <4>1. Cardinality(IpcsOf(com[r])) \in Nat
        BY <2>2, CountsInNat
      <4>2. NextNumber(IpcNumbers(com[r])) = Cardinality(IpcsOf(com[r])) + 1
        BY <2>2, <4>1, NextIsNext DEF NumbersInv, NumbersSequential
      <4>3. QED
        BY <4>1, <4>2
    <3>2. lines[com[r]] \in SUBSET Lines /\ retention[com[r]] \in Rates \cup {None}
      BY <1>1, <2>2 DEF TablesTyped
    <3>3. RequestsTyped'
      BY <1>1, <2>4, <3>1, <3>2 DEF ReadUnderLock, Goto, RequestsTyped
    <3>4. LocksTyped'
      BY <1>1, <2>4 DEF LocksTyped
    <3>5. QED
      BY <2>1, <3>3, <3>4, TypedNext
  <2>5. QED
    BY <1>3, <2>3, <2>4 DEF LockCommitment
<1>4. CASE \E c \in Commitments, k \in {"submit", "approve", "amend"} : LockContract(r, k, c)
  <2>1. RequestsTyped' /\ UNCHANGED tableVars
    BY <1>1, <1>4, BeginTyped DEF LockContract, Kinds
  <2>2. LocksTyped' /\ TablesTyped'
    BY <1>1, <1>4, <2>1 DEF LockContract, LocksTyped, TablesTyped, tableVars, comVars, ipcVars
  <2>3. QED
    BY <2>1, <2>2, TypedNext
<1>5. CASE \E i \in Ipcs : LockIpc(r, i)
  <2>1. PICK i \in Ipcs : LockIpc(r, i)
    BY <1>5
  <2>2. of[i] \in Commitments \cup {None}
    BY <1>1 DEF TablesTyped
  <2>3. RequestsTyped' /\ UNCHANGED tableVars
    BY <1>1, <2>1, <2>2, BeginTyped DEF LockIpc, Kinds
  <2>4. LocksTyped' /\ TablesTyped'
    BY <1>1, <2>1, <2>3 DEF LockIpc, LocksTyped, TablesTyped, tableVars, comVars, ipcVars
  <2>5. QED
    BY <2>3, <2>4, TypedNext
<1>6. QED
  BY <1>2, <1>3, <1>4, <1>5 DEF Lock

LEMMA CommitTyped ==
  ASSUME TypeOK, RequestsInv, NEW r \in Requests, Commit(r)
  PROVE  TypeOK'
<1> USE DEF comVars, ipcVars
<1>1. RequestsTyped /\ LocksTyped /\ TablesTyped
  BY Typed
<1>2. EndTransaction(r)
  BY DEF Commit, createCommitment, SubmitCommitment, ApproveCommitment, AmendCommitment, CreateIpc, certifySubcontractIpc
<1>3. com[r] \in Commitments
  BY DEF Commit, createCommitment, SubmitCommitment, ApproveCommitment, AmendCommitment, CreateIpc, certifySubcontractIpc,
         Commits, RequestsInv, Relies, Locking, Ordering
<1>4. next[r] \in Nat /\ seen[r] \in SUBSET Lines /\ rate[r] \in Rates \cup {None}
  BY <1>1 DEF RequestsTyped
<1>5. CASE createCommitment(r)
  <2>1. \A x \in Terms[com[r]] : x \in Rates \cup {None}
    BY <1>3, BoundAssumption
  <2>2. retention' \in [Commitments -> Rates \cup {None}]
    BY <1>1, <1>5, <2>1 DEF createCommitment, TablesTyped
  <2>3. TablesTyped'
    BY <1>1, <1>4, <1>5, <2>2 DEF createCommitment, TablesTyped
  <2>4. QED
    BY <1>1, <1>2, <2>3, EndTyped, TypedNext
<1>6. CASE SubmitCommitment(r)
  <2>1. Total(seen[r]) \in Nat
    BY <1>4, TotalInNat
  <2>2. TablesTyped'
    BY <1>1, <1>6, <2>1 DEF SubmitCommitment, TablesTyped, Submitted
  <2>3. QED
    BY <1>1, <1>2, <2>2, EndTyped, TypedNext
<1>7. CASE ApproveCommitment(r)
  <2>1. TablesTyped'
    BY <1>1, <1>7 DEF ApproveCommitment, TablesTyped, Submitted
  <2>2. QED
    BY <1>1, <1>2, <2>1, EndTyped, TypedNext
<1>8. CASE AmendCommitment(r)
  <2>1. PICK added \in SUBSET Unused :
          /\ lines' = [lines EXCEPT ![com[r]] = @ \cup added]
          /\ revised' = [revised EXCEPT ![com[r]] = Total(seen[r] \cup added)]
    BY <1>8 DEF AmendCommitment
  <2>2. added \in SUBSET Lines
    BY DEF Unused
  <2>3. Total(seen[r] \cup added) \in Nat
    BY <1>4, <2>2, TotalInNat
  <2>4. UNCHANGED <<ended, status, number, original, retention, ipcVars>>
    BY <1>8 DEF AmendCommitment
  <2>5. TablesTyped'
    BY <1>1, <2>1, <2>2, <2>3, <2>4 DEF TablesTyped
  <2>6. QED
    BY <1>1, <1>2, <2>5, EndTyped, TypedNext
<1>9. CASE CreateIpc(r)
  <2>1. TablesTyped'
    BY <1>1, <1>3, <1>4, <1>9 DEF CreateIpc, TablesTyped, EDITABLE_STATUSES
  <2>2. QED
    BY <1>1, <1>2, <2>1, EndTyped, TypedNext
<1>10. CASE certifySubcontractIpc(r)
  <2>1. TablesTyped'
    BY <1>1, <1>4, <1>10 DEF certifySubcontractIpc, TablesTyped
  <2>2. QED
    BY <1>1, <1>2, <2>1, EndTyped, TypedNext
<1>11. QED
  BY <1>5, <1>6, <1>7, <1>8, <1>9, <1>10 DEF Commit

LEMMA TypeStep ==
  ASSUME TypeOK, NumbersInv, RequestsInv, [Next]_vars
  PROVE  TypeOK'
<1> USE DEF comVars, ipcVars
<1>1. RequestsTyped /\ LocksTyped /\ TablesTyped
  BY Typed
<1>2. CASE EndContract \/ \E c \in Commitments : CancelCommitment(c)
  <2>1. RequestsTyped' /\ LocksTyped'
    BY <1>1, <1>2 DEF EndContract, CancelCommitment, RequestsTyped, LocksTyped, reqVars, lockVars
  <2>2. TablesTyped'
    BY <1>1, <1>2 DEF EndContract, CancelCommitment, TablesTyped
  <2>3. QED
    BY <2>1, <2>2, TypedNext
<1>3. ASSUME NEW i \in Ipcs, IpcStep(i) PROVE TypeOK'
  <2>1. /\ ipcStatus' \in [Ipcs -> {"absent", "submitted", "approved", "certified"} \cup EDITABLE_STATUSES]
        /\ claimed' \in [Ipcs -> [Lines -> 0..MaxClaim]]
        /\ UNCHANGED <<ended, comVars, of, ipcNumber, ipcRate, lockVars, reqVars>>
    BY <1>3, IpcStepFacts
  <2>2. TablesTyped'
    BY <1>1, <2>1 DEF TablesTyped
  <2>3. RequestsTyped' /\ LocksTyped'
    BY <1>1, <2>1 DEF RequestsTyped, LocksTyped, reqVars, lockVars
  <2>4. QED
    BY <2>2, <2>3, TypedNext
<1>4. ASSUME NEW r \in Requests, EditDraft(r) PROVE TypeOK'
  <2>1. RequestsTyped' /\ LocksTyped'
    BY <1>1, <1>4, LeaveTyped DEF EditDraft, LocksTyped, lockVars
  <2>2. com[r] \in Commitments
    BY <1>4 DEF EditDraft, RequestsInv, Relies
  <2>3. \A x \in Terms[com[r]] : x \in Rates \cup {None}
    BY <2>2, BoundAssumption
  <2>4. retention' \in [Commitments -> Rates \cup {None}]
    BY <1>1, <1>4, <2>3 DEF EditDraft, Edit, TablesTyped
  <2>5. lines' \in [Commitments -> SUBSET Lines]
    BY <1>1, <1>4 DEF EditDraft, Edit, Unused, TablesTyped
  <2>6. TablesTyped'
    BY <1>1, <1>4, <2>4, <2>5 DEF EditDraft, TablesTyped
  <2>7. QED
    BY <2>1, <2>6, TypedNext
<1>5. ASSUME NEW r \in Requests, AddClaim(r) PROVE TypeOK'
  <2>1. RequestsTyped' /\ LocksTyped'
    BY <1>1, <1>5, LeaveTyped DEF AddClaim, LocksTyped, lockVars
  <2>2. claimed' \in [Ipcs -> [Lines -> 0..MaxClaim]]
    <3>1. ipc[r] \in Ipcs /\ line[r] \in Lines
      BY <1>5 DEF AddClaim, RequestsInv, Relies
    <3>2. claimed[ipc[r]] \in [Lines -> 0..MaxClaim]
      BY <1>1, <3>1 DEF TablesTyped
    <3>3. CASE claimed' = claimed
      BY <1>1, <3>3 DEF TablesTyped
    <3>4. CASE /\ claimed[ipc[r]][line[r]] < MaxClaim
               /\ claimed' = [claimed EXCEPT ![ipc[r]] = [claimed[ipc[r]] EXCEPT ![line[r]] = claimed[ipc[r]][line[r]] + 1]]
      <4>1. claimed[ipc[r]][line[r]] + 1 \in 0..MaxClaim
        BY <3>1, <3>2, <3>4, BoundAssumption
      <4>2. [claimed[ipc[r]] EXCEPT ![line[r]] = claimed[ipc[r]][line[r]] + 1] \in [Lines -> 0..MaxClaim]
        BY <3>2, <4>1
      <4>3. QED
        BY <1>1, <3>4, <4>2 DEF TablesTyped
    <3>5. QED
      BY <1>5, <3>3, <3>4 DEF AddClaim
  <2>3. TablesTyped'
    BY <1>1, <1>5, <2>2 DEF AddClaim, TablesTyped
  <2>4. QED
    BY <2>1, <2>3, TypedNext
<1>6. ASSUME NEW r \in Requests, Abort(r) PROVE TypeOK'
  <2>1. RequestsTyped' /\ LocksTyped'
    BY <1>1, <1>6, EndTyped DEF Abort
  <2>2. TablesTyped'
    BY <1>1, <1>6 DEF Abort, TablesTyped, tableVars
  <2>3. QED
    BY <2>1, <2>2, TypedNext
<1>7. CASE UNCHANGED vars
  BY <1>7 DEF TypeOK, vars
<1>8. QED
  BY <1>2, <1>3, <1>4, <1>5, <1>6, <1>7, ReadTyped, LockTyped, CommitTyped DEF Next

-----------------------------------------------------------------------------
(* Commitments that are placed.                                            *)

\* Which steps write commitments.
LEMMA CommitmentSteps ==
  ASSUME [Next]_vars
  PROVE  \/ UNCHANGED comVars
         \/ \E c \in Commitments : CancelCommitment(c)
         \/ \E r \in Requests : \/ createCommitment(r) \/ SubmitCommitment(r) \/ ApproveCommitment(r)
                                \/ AmendCommitment(r) \/ EditDraft(r)
<1>1. CASE EndContract \/ \E i \in Ipcs : IpcStep(i)
  BY <1>1 DEF EndContract, IpcStep, SubmitIpc, ApproveIpc, RejectIpc, MoveIpc, DeleteClaim
<1>2. ASSUME NEW r \in Requests, Read(r) \/ Lock(r) \/ CreateIpc(r) \/ certifySubcontractIpc(r) \/ AddClaim(r) \/ Abort(r)
      PROVE  UNCHANGED comVars
  <2>1. CASE Read(r)
    BY <2>1 DEF Read, ReadForCreate, ReadDraft, findEligibleSubcontractCommitment, BeginUnlinked, ReadForClaim, Begin, tableVars
  <2>2. CASE Lock(r)
    BY <2>2 DEF Lock, LockCompany, LockCommitment, LockContract, LockIpc, Begin, tableVars
  <2>3. CASE CreateIpc(r) \/ certifySubcontractIpc(r) \/ AddClaim(r) \/ Abort(r)
    BY <2>3 DEF CreateIpc, certifySubcontractIpc, AddClaim, Abort, tableVars
  <2>4. QED
    BY <1>2, <2>1, <2>2, <2>3
<1>3. CASE UNCHANGED vars
  BY <1>3 DEF vars, comVars
<1>4. QED
  BY <1>1, <1>2, <1>3 DEF Next, Commit

\* What the transactions that order something have seen under their lock.
LEMMA OrderFacts ==
  ASSUME TypeOK, RequestsInv, NEW r \in Requests,
         SubmitCommitment(r) \/ ApproveCommitment(r) \/ AmendCommitment(r)
  PROVE  /\ com[r] \in Commitments
         /\ com[r] \in Linked => ~ended
         /\ SubmitCommitment(r) => status[com[r]] = "draft" /\ seen[r] = lines[com[r]]
         /\ ApproveCommitment(r) => status[com[r]] = "pending_approval"
         /\ AmendCommitment(r) => status[com[r]] = "active" /\ seen[r] = lines[com[r]]
<1>1. pc[r] = "commit" /\ kind[r] \in Ordering
  BY DEF SubmitCommitment, ApproveCommitment, AmendCommitment, Commits, Ordering
<1>2. Relies(r) /\ Holds(r)
  BY DEF RequestsInv
<1>3. com[r] \in Commitments /\ Admitted(r) /\ (com[r] \in Linked => ~ended)
  BY <1>1, <1>2 DEF Relies, Holds, Locking
<1>4. kind[r] \in {"submit", "amend"} => seen[r] = lines[com[r]]
  BY <1>1, <1>2 DEF Holds
<1>5. QED
  BY <1>3, <1>4 DEF SubmitCommitment, ApproveCommitment, AmendCommitment, Commits, Admitted

LEMMA PlacedStep ==
  ASSUME TypeOK, RequestsInv, [Next]_vars
  PROVE  SubmittedKept /\ \A c \in Commitments : status[c] = "active" => status'[c] = "active"
<1>1. CASE UNCHANGED comVars
  BY <1>1 DEF comVars, SubmittedKept
<1>2. CASE \E c \in Commitments : CancelCommitment(c)
  BY <1>2 DEF CancelCommitment, SubmittedKept, TypeOK
<1>3. ASSUME NEW r \in Requests, createCommitment(r)
      PROVE  SubmittedKept /\ \A c \in Commitments : status[c] = "active" => status'[c] = "active"
  <2>1. com[r] \in Commitments /\ status[com[r]] = "absent"
    BY <1>3 DEF createCommitment, Commits, RequestsInv, Relies
  <2>2. /\ \A c \in Commitments : c # com[r] => status'[c] = status[c] /\ retention'[c] = retention[c]
        /\ UNCHANGED <<original, lines>>
    BY <1>3 DEF createCommitment, TypeOK
  <2>3. QED
    BY <2>1, <2>2 DEF SubmittedKept, Submitted
<1>4. ASSUME NEW r \in Requests, SubmitCommitment(r)
      PROVE  SubmittedKept /\ \A c \in Commitments : status[c] = "active" => status'[c] = "active"
  <2>1. com[r] \in Commitments /\ status[com[r]] = "draft"
    BY <1>4, OrderFacts
  <2>2. /\ \A c \in Commitments : c # com[r] => status'[c] = status[c] /\ original'[c] = original[c]
        /\ UNCHANGED <<retention, lines>>
    BY <1>4 DEF SubmitCommitment, TypeOK
  <2>3. QED
    BY <2>1, <2>2 DEF SubmittedKept, Submitted
<1>5. ASSUME NEW r \in Requests, ApproveCommitment(r)
      PROVE  SubmittedKept /\ \A c \in Commitments : status[c] = "active" => status'[c] = "active"
  BY <1>5, OrderFacts DEF ApproveCommitment, SubmittedKept, TypeOK
<1>6. ASSUME NEW r \in Requests, AmendCommitment(r)
      PROVE  SubmittedKept /\ \A c \in Commitments : status[c] = "active" => status'[c] = "active"
  <2>1. com[r] \in Commitments /\ status[com[r]] = "active"
    BY <1>6, OrderFacts
  <2>2. /\ \A c \in Commitments : lines[c] \subseteq lines'[c] /\ (c # com[r] => lines'[c] = lines[c])
        /\ UNCHANGED <<status, original, retention>>
    BY <1>6 DEF AmendCommitment, TypeOK
  <2>3. QED
    BY <2>1, <2>2 DEF SubmittedKept
<1>7. ASSUME NEW r \in Requests, EditDraft(r)
      PROVE  SubmittedKept /\ \A c \in Commitments : status[c] = "active" => status'[c] = "active"
  <2>1. /\ com[r] \in Commitments
        /\ \A c \in Commitments : c # com[r] => retention'[c] = retention[c] /\ lines'[c] = lines[c]
        /\ status[com[r]] # "draft" => UNCHANGED <<retention, lines>>
        /\ UNCHANGED <<status, original>>
    BY <1>7 DEF EditDraft, Edit, TypeOK, RequestsInv, Relies
  <2>2. QED
    BY <2>1 DEF SubmittedKept, Submitted
<1>8. QED
  BY <1>1, <1>2, <1>3, <1>4, <1>5, <1>6, <1>7, CommitmentSteps

LEMMA PlacementStep ==
  ASSUME TypeOK, RequestsInv, [Next]_vars
  PROVE  NothingPlaced
<1>1. CASE UNCHANGED comVars
  BY <1>1 DEF comVars, NothingPlaced
<1>2. CASE \E c \in Commitments : CancelCommitment(c)
  BY <1>2 DEF CancelCommitment, NothingPlaced, TypeOK, Submitted
<1>3. ASSUME NEW r \in Requests, createCommitment(r) PROVE NothingPlaced
  <2>1. com[r] \in Commitments
    BY <1>3 DEF createCommitment, Commits, RequestsInv, Relies
  <2>2. QED
    BY <1>3, <2>1, RowsAssumption DEF createCommitment, NothingPlaced, TypeOK, Submitted
<1>4. ASSUME NEW r \in Requests, SubmitCommitment(r) \/ ApproveCommitment(r) \/ AmendCommitment(r)
      PROVE  NothingPlaced
  <2>1. com[r] \in Linked => ~ended
    BY <1>4, OrderFacts
  <2>2. \A c \in Commitments : c # com[r] => status'[c] = status[c] /\ revised'[c] = revised[c]
    BY <1>4 DEF SubmitCommitment, ApproveCommitment, AmendCommitment, TypeOK
  <2>3. QED
    BY <2>1, <2>2, RowsAssumption DEF NothingPlaced
<1>5. ASSUME NEW r \in Requests, EditDraft(r) PROVE NothingPlaced
  BY <1>5 DEF EditDraft, NothingPlaced
<1>6. QED
  BY <1>1, <1>2, <1>3, <1>4, <1>5, CommitmentSteps

LEMMA LinesStep ==
  ASSUME TypeOK, RequestsInv, LinesInv, [Next]_vars
  PROVE  LinesInv'
<1> DEFINE Sums == \A c \in Commitments : status'[c] \in Submitted => revised'[c] = Total(lines'[c])
           Apart == \A c, d \in Commitments : c # d => lines'[c] \cap lines'[d] = {}
<1>1. SUFFICES Sums /\ Apart
  BY DEF LinesInv, RevisedIsSum, Total, Submitted
<1>2. \A c \in Commitments : status[c] \in Submitted => revised[c] = Total(lines[c])
  BY DEF LinesInv, RevisedIsSum
<1>3. \A c, d \in Commitments : c # d => lines[c] \cap lines[d] = {}
  BY DEF LinesInv
<1>4. CASE UNCHANGED comVars
  BY <1>2, <1>3, <1>4 DEF comVars
<1>5. CASE \E c \in Commitments : CancelCommitment(c)
  BY <1>2, <1>3, <1>5 DEF CancelCommitment, Submitted, TypeOK
<1>6. ASSUME NEW r \in Requests, createCommitment(r) PROVE Sums /\ Apart
  BY <1>2, <1>3, <1>6 DEF createCommitment, Submitted, TypeOK
<1>7. ASSUME NEW r \in Requests, SubmitCommitment(r) PROVE Sums /\ Apart
  BY <1>2, <1>3, <1>7, OrderFacts DEF SubmitCommitment, TypeOK
<1>8. ASSUME NEW r \in Requests, ApproveCommitment(r) PROVE Sums /\ Apart
  BY <1>2, <1>3, <1>8, OrderFacts DEF ApproveCommitment, Submitted, TypeOK
<1>9. ASSUME NEW r \in Requests, AmendCommitment(r) PROVE Sums /\ Apart
  <2>1. com[r] \in Commitments /\ seen[r] = lines[com[r]]
    BY <1>9, OrderFacts
  <2>2. PICK added \in SUBSET Unused :
          /\ lines' = [lines EXCEPT ![com[r]] = @ \cup added]
          /\ revised' = [revised EXCEPT ![com[r]] = Total(seen[r] \cup added)]
    BY <1>9 DEF AmendCommitment
  <2>3. status' = status
    BY <1>9 DEF AmendCommitment
  <2>4. \A c \in Commitments : lines'[c] = IF c = com[r] THEN lines[c] \cup added ELSE lines[c]
    BY <2>2 DEF TypeOK
  <2>5. \A c \in Commitments : added \cap lines[c] = {}
    BY DEF Unused
  <2>6. Apart
    BY <1>3, <2>4, <2>5
  <2>7. Sums
    BY <1>2, <2>1, <2>2, <2>3, <2>4 DEF TypeOK
  <2>8. QED
    BY <2>6, <2>7
<1>10. ASSUME NEW r \in Requests, EditDraft(r) PROVE Sums /\ Apart
  <2>1. com[r] \in Commitments /\ UNCHANGED <<status, revised>>
    BY <1>10 DEF EditDraft, RequestsInv, Relies
  <2>2. CASE UNCHANGED lines
    BY <1>2, <1>3, <2>1, <2>2
  <2>3. CASE /\ status[com[r]] = "draft"
             /\ \/ \E l \in Unused : lines' = [lines EXCEPT ![com[r]] = @ \cup {l}]
                \/ \E l \in lines[com[r]] : lines' = [lines EXCEPT ![com[r]] = @ \ {l}]
    <3>1. \A c \in Commitments : c # com[r] => lines'[c] = lines[c]
      BY <2>3 DEF TypeOK
    <3>2. Sums
      BY <1>2, <2>1, <2>3, <3>1 DEF Submitted
    <3>3. \A c \in Commitments : c # com[r] => lines'[com[r]] \cap lines[c] = {}
      <4>1. CASE \E l \in Unused : lines' = [lines EXCEPT ![com[r]] = @ \cup {l}]
        <5>1. PICK l \in Unused : lines' = [lines EXCEPT ![com[r]] = @ \cup {l}]
          BY <4>1
        <5>2. lines'[com[r]] = lines[com[r]] \cup {l} /\ \A c \in Commitments : l \notin lines[c]
          BY <2>1, <5>1 DEF TypeOK, Unused
        <5>3. QED
          BY <1>3, <2>1, <5>2
      <4>2. CASE \E l \in lines[com[r]] : lines' = [lines EXCEPT ![com[r]] = @ \ {l}]
        BY <1>3, <2>1, <4>2 DEF TypeOK
      <4>3. QED
        BY <2>3, <4>1, <4>2
    <3>4. Apart
      BY <1>3, <2>1, <3>1, <3>3
    <3>5. QED
      BY <3>2, <3>4
  <2>4. QED
    BY <1>10, <2>2, <2>3 DEF EditDraft, Edit
<1>11. QED
  BY <1>4, <1>5, <1>6, <1>7, <1>8, <1>9, <1>10, CommitmentSteps

-----------------------------------------------------------------------------
(* IPCs.                                                                   *)

\* Which steps write IPCs.
LEMMA IpcSteps ==
  ASSUME [Next]_vars
  PROVE  \/ UNCHANGED ipcVars
         \/ \E i \in Ipcs : IpcStep(i)
         \/ \E r \in Requests : CreateIpc(r) \/ certifySubcontractIpc(r) \/ AddClaim(r)
<1>1. CASE EndContract \/ \E c \in Commitments : CancelCommitment(c)
  BY <1>1 DEF EndContract, CancelCommitment
<1>2. ASSUME NEW r \in Requests, Read(r) \/ Lock(r) \/ Commit(r) \/ EditDraft(r) \/ Abort(r),
             ~CreateIpc(r), ~certifySubcontractIpc(r)
      PROVE  UNCHANGED ipcVars
  <2>1. CASE Read(r)
    BY <2>1 DEF Read, ReadForCreate, ReadDraft, findEligibleSubcontractCommitment, BeginUnlinked, ReadForClaim, Begin, tableVars
  <2>2. CASE Lock(r)
    BY <2>2 DEF Lock, LockCompany, LockCommitment, LockContract, LockIpc, Begin, tableVars
  <2>3. CASE Commit(r)
    BY <1>2, <2>3 DEF Commit, createCommitment, SubmitCommitment, ApproveCommitment, AmendCommitment
  <2>4. CASE EditDraft(r) \/ Abort(r)
    BY <2>4 DEF EditDraft, Abort, tableVars
  <2>5. QED
    BY <1>2, <2>1, <2>2, <2>3, <2>4
<1>3. CASE UNCHANGED vars
  BY <1>3 DEF vars, ipcVars
<1>4. QED
  BY <1>1, <1>2, <1>3 DEF Next

LEMMA CreateIpcFacts ==
  ASSUME TypeOK, IpcsInv, RequestsInv, NEW r \in Requests, CreateIpc(r)
  PROVE  /\ com[r] \in Commitments /\ status[com[r]] = "active"
         /\ next[r] = Cardinality(IpcsOf(com[r])) + 1
         /\ \E i \in Ipcs : /\ of[i] = None /\ ipcStatus[i] = "absent"
                            /\ of' = [of EXCEPT ![i] = com[r]]
                            /\ ipcNumber' = [ipcNumber EXCEPT ![i] = next[r]]
                            /\ ipcStatus' = [ipcStatus EXCEPT ![i] = "draft"]
                            /\ UNCHANGED <<comVars, claimed, ipcRate>>
BY DEF CreateIpc, Commits, RequestsInv, Relies, Holds, Locking, IpcsInv

LEMMA certifyFacts ==
  ASSUME TypeOK, RequestsInv, NEW r \in Requests, certifySubcontractIpc(r)
  PROVE  /\ ipc[r] \in Ipcs /\ ipcStatus[ipc[r]] = "approved" /\ of[ipc[r]] = com[r]
         /\ \A l \in Lines : claimed[ipc[r]][l] > 0 => certifiedSoFar(l) + claimed[ipc[r]][l] <= Ceiling[l]
         /\ ipcStatus' = [ipcStatus EXCEPT ![ipc[r]] = "certified"]
         /\ ipcRate' = [ipcRate EXCEPT ![ipc[r]] = retention[com[r]]]
         /\ UNCHANGED <<comVars, of, ipcNumber, claimed>>
<1>1. pc[r] = "commit" /\ kind[r] = "certify" /\ Relies(r) /\ Holds(r)
  BY DEF certifySubcontractIpc, Commits, RequestsInv
<1>2. Admitted(r) /\ rate[r] = retention[com[r]]
  BY <1>1 DEF Holds, Commits, Locking
<1>3. \A l \in Lines : claimed[ipc[r]][l] > 0 => certifiedSoFar(l) + claimed[ipc[r]][l] <= Ceiling[l]
  BY <1>1, <1>2 DEF Admitted
<1>4. QED
  BY <1>1, <1>2, <1>3 DEF certifySubcontractIpc, Relies

\* Whatever IPC i is, the four facts of IpcsInv.
IpcInv(i) ==
  /\ of[i] = None <=> ipcStatus[i] = "absent"
  /\ of[i] # None => status[of[i]] = "active"
  /\ \A l \in Lines : claimed[i][l] > 0 => of[i] # None /\ l \in lines[of[i]]
  /\ ipcStatus[i] = "certified" => ipcRate[i] = retention[of[i]]

LEMMA IpcsStep ==
  ASSUME TypeOK, RequestsInv, IpcsInv, [Next]_vars
  PROVE  IpcsInv'
<1>1. /\ \A c \in Commitments : status[c] = "active" =>
           status'[c] = "active" /\ lines[c] \subseteq lines'[c] /\ retention'[c] = retention[c]
  BY PlacedStep DEF SubmittedKept, Submitted
<1>2. \A i \in Ipcs : IpcInv(i) /\ of[i] \in Commitments \cup {None} /\ \A l \in Lines : claimed[i][l] \in 0..MaxClaim
  BY DEF IpcsInv, IpcInv, TypeOK
<1>3. ASSUME NEW i \in Ipcs, of'[i] = of[i], ipcStatus'[i] = ipcStatus[i], claimed'[i] = claimed[i], ipcRate'[i] = ipcRate[i]
      PROVE  IpcInv(i)'
  BY <1>1, <1>2, <1>3 DEF IpcInv
<1>4. CASE UNCHANGED ipcVars
  BY <1>3, <1>4 DEF ipcVars, IpcsInv, IpcInv
<1>5. ASSUME NEW j \in Ipcs, IpcStep(j) PROVE \A i \in Ipcs : IpcInv(i)'
  <2>1. /\ ipcStatus[j] \in {"submitted"} \cup EDITABLE_STATUSES
        /\ ipcStatus'[j] \in {"submitted", "approved"} \cup EDITABLE_STATUSES
        /\ \A i \in Ipcs : i # j => ipcStatus'[i] = ipcStatus[i] /\ claimed'[i] = claimed[i]
        /\ \A l \in Lines : claimed'[j][l] \in 0..claimed[j][l]
        /\ UNCHANGED <<of, ipcRate>>
    BY <1>5, IpcStepFacts
  <2>2. \A l \in Lines : claimed'[j][l] > 0 => claimed[j][l] > 0
    BY <1>2, <2>1, BoundAssumption
  <2>3. IpcInv(j)'
    BY <1>1, <1>2, <2>1, <2>2 DEF IpcInv, EDITABLE_STATUSES
  <2>4. QED
    BY <1>3, <2>1, <2>3
<1>6. ASSUME NEW r \in Requests, CreateIpc(r) PROVE \A i \in Ipcs : IpcInv(i)'
  <2>1. com[r] \in Commitments /\ status[com[r]] = "active" /\ com[r] # None
    BY <1>6, CreateIpcFacts, NoneAssumption
  <2>2. PICK j \in Ipcs : /\ of[j] = None /\ ipcStatus[j] = "absent"
                          /\ of' = [of EXCEPT ![j] = com[r]]
                          /\ ipcStatus' = [ipcStatus EXCEPT ![j] = "draft"]
                          /\ UNCHANGED <<comVars, claimed, ipcRate>>
    BY <1>6, CreateIpcFacts
  <2>3. \A i \in Ipcs : i # j => of'[i] = of[i] /\ ipcStatus'[i] = ipcStatus[i] /\ claimed'[i] = claimed[i]
                                 /\ ipcRate'[i] = ipcRate[i]
    BY <2>2 DEF TypeOK
  <2>4. of'[j] = com[r] /\ ipcStatus'[j] = "draft" /\ claimed' = claimed /\ \A l \in Lines : ~(claimed[j][l] > 0)
    BY <1>2, <2>2 DEF IpcInv, TypeOK
  <2>5. IpcInv(j)'
    BY <1>1, <2>1, <2>4 DEF IpcInv
  <2>6. QED
    BY <1>3, <2>3, <2>5
<1>7. ASSUME NEW r \in Requests, certifySubcontractIpc(r) PROVE \A i \in Ipcs : IpcInv(i)'
  <2>1. /\ ipc[r] \in Ipcs /\ ipcStatus[ipc[r]] = "approved" /\ of[ipc[r]] = com[r]
        /\ ipcStatus' = [ipcStatus EXCEPT ![ipc[r]] = "certified"]
        /\ ipcRate' = [ipcRate EXCEPT ![ipc[r]] = retention[com[r]]]
        /\ UNCHANGED <<comVars, of, ipcNumber, claimed>>
    BY <1>7, certifyFacts
  <2>2. \A i \in Ipcs : i # ipc[r] => ipcStatus'[i] = ipcStatus[i] /\ ipcRate'[i] = ipcRate[i]
    BY <2>1 DEF TypeOK
  <2>3. ipcStatus'[ipc[r]] = "certified" /\ ipcRate'[ipc[r]] = retention[of[ipc[r]]]
    BY <2>1 DEF TypeOK
  <2>4. PICK i \in Ipcs : i = ipc[r]
    BY <2>1
  <2>5. IpcInv(i)'
    BY <1>2, <2>1, <2>3, <2>4 DEF IpcInv, comVars
  <2>6. QED
    BY <1>3, <2>1, <2>2, <2>4, <2>5
<1>8. ASSUME NEW r \in Requests, AddClaim(r) PROVE \A i \in Ipcs : IpcInv(i)'
  <2>1. /\ ipc[r] \in Ipcs /\ line[r] \in Lines
        /\ of[ipc[r]] \in Commitments /\ of[ipc[r]] # None /\ line[r] \in lines[of[ipc[r]]]
        /\ UNCHANGED <<comVars, of, ipcNumber, ipcStatus, ipcRate>>
    BY <1>8, NoneAssumption DEF AddClaim, RequestsInv, Relies, TypeOK
  <2>2. /\ \A i \in Ipcs : i # ipc[r] => claimed'[i] = claimed[i]
        /\ \A l \in Lines : l # line[r] => claimed'[ipc[r]][l] = claimed[ipc[r]][l]
    BY <1>8, <2>1 DEF AddClaim, TypeOK
  <2>3. \A l \in Lines : claimed'[ipc[r]][l] > 0 => l \in lines[of[ipc[r]]]
    BY <1>2, <2>1, <2>2 DEF IpcInv
  <2>4. PICK i \in Ipcs : i = ipc[r]
    BY <2>1
  <2>5. IpcInv(i)'
    BY <1>2, <2>1, <2>3, <2>4 DEF IpcInv, comVars
  <2>6. QED
    BY <1>3, <2>1, <2>2, <2>4, <2>5
<1>9. QED
  BY <1>4, <1>5, <1>6, <1>7, <1>8, IpcSteps DEF IpcsInv, IpcInv

\* Certification compares the ceilings with the sums it then adds to.
LEMMA CeilingsStep ==
  ASSUME TypeOK, RequestsInv, IpcsInv, CeilingsInv, [Next]_vars
  PROVE  CeilingsInv'
<1>1. ASSUME Certified' = Certified, \A i \in Certified : claimed'[i] = claimed[i]
      PROVE  CeilingsInv'
  BY <1>1, SoFarKept DEF CeilingsInv
<1>2. CASE UNCHANGED ipcVars
  BY <1>1, <1>2 DEF ipcVars, Certified
<1>3. ASSUME NEW i \in Ipcs, IpcStep(i) PROVE CeilingsInv'
  <2>1. /\ ipcStatus[i] # "certified" /\ ipcStatus'[i] # "certified"
        /\ \A j \in Ipcs : j # i => ipcStatus'[j] = ipcStatus[j] /\ claimed'[j] = claimed[j]
    BY <1>3, IpcStepFacts DEF EDITABLE_STATUSES
  <2>2. Certified' = Certified /\ \A j \in Certified : claimed'[j] = claimed[j]
    BY <2>1 DEF Certified
  <2>3. QED
    BY <1>1, <2>2
<1>4. ASSUME NEW r \in Requests, CreateIpc(r) PROVE CeilingsInv'
  <2>1. PICK i \in Ipcs : ipcStatus[i] = "absent" /\ ipcStatus' = [ipcStatus EXCEPT ![i] = "draft"] /\ UNCHANGED claimed
    BY <1>4, CreateIpcFacts
  <2>2. Certified' = Certified
    BY <2>1 DEF Certified, TypeOK
  <2>3. QED
    BY <1>1, <2>1, <2>2
<1>5. ASSUME NEW r \in Requests, certifySubcontractIpc(r) PROVE CeilingsInv'
  <2>1. /\ ipc[r] \in Ipcs /\ ipcStatus[ipc[r]] = "approved"
        /\ \A l \in Lines : claimed[ipc[r]][l] > 0 => certifiedSoFar(l) + claimed[ipc[r]][l] <= Ceiling[l]
        /\ ipcStatus' = [ipcStatus EXCEPT ![ipc[r]] = "certified"]
        /\ claimed' = claimed
    BY <1>5, certifyFacts
  <2>2. Certified' = Certified \cup {ipc[r]} /\ ipc[r] \in Ipcs \ Certified
    BY <2>1 DEF Certified, TypeOK
  <2>3. ASSUME NEW l \in Lines PROVE certifiedSoFar(l)' <= Ceiling[l]
    <3>1. certifiedSoFar(l)' = certifiedSoFar(l) + claimed[ipc[r]][l]
      BY <2>1, <2>2, SoFarGrows
    <3>2. certifiedSoFar(l) \in Nat /\ claimed[ipc[r]][l] \in Nat /\ Ceiling[l] \in Nat
      BY <2>1, SoFarInNat, BoundAssumption, LinesAssumption DEF TypeOK
    <3>3. certifiedSoFar(l) <= Ceiling[l]
      BY DEF CeilingsInv
    <3>4. QED
      BY <2>1, <3>1, <3>2, <3>3
  <2>4. QED
    BY <2>3 DEF CeilingsInv
<1>6. ASSUME NEW r \in Requests, AddClaim(r) PROVE CeilingsInv'
  <2>1. Certified' = Certified
    BY <1>6 DEF AddClaim, Certified
  <2>2. \A i \in Certified : claimed'[i] = claimed[i]
    BY <1>6 DEF AddClaim, Certified, EDITABLE_STATUSES, TypeOK
  <2>3. QED
    BY <1>1, <2>1, <2>2
<1>7. QED
  BY <1>2, <1>3, <1>4, <1>5, <1>6, IpcSteps

-----------------------------------------------------------------------------
(* Numbers, again.                                                         *)

LEMMA AddNumber ==
  ASSUME NEW S, IsFiniteSet(S), NEW x, x \notin S
  PROVE  /\ Cardinality(S \cup {x}) = Cardinality(S) + 1
         /\ (1..Cardinality(S)) \cup {Cardinality(S) + 1} = 1..Cardinality(S \cup {x})
<1>1. Cardinality(S) \in Nat
  BY FS_CardinalityType
<1>2. Cardinality(S \cup {x}) = Cardinality(S) + 1
  BY FS_AddElement
<1>3. QED
  BY <1>1, <1>2, UpToNext

LEMMA CommitmentNumbersKept ==
  ASSUME NumbersInv, UNCHANGED number,
         \A c \in Commitments : status[c] = "absent" <=> status'[c] = "absent"
  PROVE  /\ CommitmentNumbers' = 1..Cardinality(NumberedCommitments')
         /\ \A c \in Commitments : number'[c] = 0 <=> status'[c] = "absent"
<1>1. NumberedCommitments' = NumberedCommitments
  BY DEF NumberedCommitments
<1>2. CommitmentNumbers' = CommitmentNumbers
  BY <1>1 DEF CommitmentNumbers
<1>3. QED
  BY <1>1, <1>2 DEF NumbersInv, NumbersSequential

LEMMA CommitmentNumbersStep ==
  ASSUME TypeOK, RequestsInv, NumbersInv, [Next]_vars
  PROVE  /\ CommitmentNumbers' = 1..Cardinality(NumberedCommitments')
         /\ \A c \in Commitments : number'[c] = 0 <=> status'[c] = "absent"
<1>1. CASE UNCHANGED comVars
  BY <1>1, CommitmentNumbersKept DEF comVars
<1>2. CASE \E c \in Commitments : CancelCommitment(c)
  BY <1>2, CommitmentNumbersKept DEF CancelCommitment, TypeOK
<1>3. ASSUME NEW r \in Requests, SubmitCommitment(r) \/ ApproveCommitment(r) \/ AmendCommitment(r) \/ EditDraft(r)
      PROVE  UNCHANGED number /\ \A c \in Commitments : status[c] = "absent" <=> status'[c] = "absent"
  <2>1. CASE SubmitCommitment(r)
    BY <2>1, OrderFacts DEF SubmitCommitment, TypeOK
  <2>2. CASE ApproveCommitment(r)
    BY <2>2, OrderFacts DEF ApproveCommitment, TypeOK
  <2>3. CASE AmendCommitment(r) \/ EditDraft(r)
    BY <2>3 DEF AmendCommitment, EditDraft
  <2>4. QED
    BY <1>3, <2>1, <2>2, <2>3
<1>4. ASSUME NEW r \in Requests, createCommitment(r)
      PROVE  /\ CommitmentNumbers' = 1..Cardinality(NumberedCommitments')
             /\ \A c \in Commitments : number'[c] = 0 <=> status'[c] = "absent"
  <2>1. /\ com[r] \in Commitments /\ status[com[r]] = "absent" /\ number[com[r]] = 0
        /\ next[r] = Cardinality(NumberedCommitments) + 1
    BY <1>4 DEF createCommitment, Commits, RequestsInv, Relies, Holds, NumbersInv
  <2>2. PICK c \in Commitments : c = com[r]
    BY <2>1
  <2>3. IsFiniteSet(NumberedCommitments) /\ Cardinality(NumberedCommitments) \in Nat
    BY CountsInNat
  <2>4. /\ \A d \in Commitments : d # c => number'[d] = number[d] /\ status'[d] = status[d]
        /\ number'[c] = Cardinality(NumberedCommitments) + 1 /\ status'[c] = "draft"
    BY <1>4, <2>1, <2>2 DEF createCommitment, TypeOK
  <2>5. NumberedCommitments' = NumberedCommitments \cup {c} /\ c \notin NumberedCommitments
    BY <2>1, <2>2, <2>3, <2>4 DEF NumberedCommitments
  <2>6. CommitmentNumbers' = CommitmentNumbers \cup {Cardinality(NumberedCommitments) + 1}
    <3>1. CommitmentNumbers' = {number'[d] : d \in NumberedCommitments \cup {c}}
      BY <2>5 DEF CommitmentNumbers
    <3>2. \A d \in NumberedCommitments : number'[d] = number[d]
      BY <2>4, <2>5 DEF NumberedCommitments
    <3>3. {number'[d] : d \in NumberedCommitments \cup {c}} = {number[d] : d \in NumberedCommitments} \cup {number'[c]}
      BY <3>2
    <3>4. QED
      BY <2>4, <3>1, <3>3 DEF CommitmentNumbers
  <2>7. CommitmentNumbers = 1..Cardinality(NumberedCommitments)
    BY DEF NumbersInv, NumbersSequential
  <2>8. CommitmentNumbers' = 1..Cardinality(NumberedCommitments')
    BY <2>3, <2>5, <2>6, <2>7, AddNumber
  <2>9. \A d \in Commitments : number'[d] = 0 <=> status'[d] = "absent"
    BY <2>3, <2>4 DEF NumbersInv
  <2>10. QED
    BY <2>8, <2>9
<1>5. QED
  BY <1>1, <1>2, <1>3, <1>4, CommitmentNumbersKept, CommitmentSteps

LEMMA IpcNumbersStep ==
  ASSUME TypeOK, IpcsInv, RequestsInv, NumbersInv, [Next]_vars, NEW c \in Commitments
  PROVE  IpcNumbers(c)' = 1..Cardinality(IpcsOf(c))'
<1>1. IpcNumbers(c) = 1..Cardinality(IpcsOf(c))
  BY DEF NumbersInv, NumbersSequential
<1>2. CASE UNCHANGED <<of, ipcNumber>>
  <2>1. IpcsOf(c)' = IpcsOf(c)
    BY <1>2 DEF IpcsOf
  <2>2. IpcNumbers(c)' = IpcNumbers(c)
    BY <1>2, <2>1 DEF IpcNumbers
  <2>3. QED
    BY <1>1, <2>1, <2>2
<1>3. ASSUME NEW r \in Requests, CreateIpc(r) PROVE IpcNumbers(c)' = 1..Cardinality(IpcsOf(c))'
  <2>1. com[r] \in Commitments /\ next[r] = Cardinality(IpcsOf(com[r])) + 1
    BY <1>3, CreateIpcFacts
  <2>2. PICK i \in Ipcs : /\ of[i] = None
                          /\ of' = [of EXCEPT ![i] = com[r]]
                          /\ ipcNumber' = [ipcNumber EXCEPT ![i] = next[r]]
    BY <1>3, CreateIpcFacts
  <2>3. /\ \A j \in Ipcs : j # i => of'[j] = of[j] /\ ipcNumber'[j] = ipcNumber[j]
        /\ of'[i] = com[r] /\ ipcNumber'[i] = next[r]
    BY <2>2 DEF TypeOK
  <2>4. i \notin IpcsOf(c) /\ \A j \in IpcsOf(c) : ipcNumber'[j] = ipcNumber[j]
    BY <2>2, <2>3, NoneAssumption DEF IpcsOf
  <2>5. CASE com[r] # c
    <3>1. IpcsOf(c)' = IpcsOf(c)
      BY <2>2, <2>3, <2>5, NoneAssumption DEF IpcsOf
    <3>2. IpcNumbers(c)' = IpcNumbers(c)
      BY <2>4, <3>1 DEF IpcNumbers
    <3>3. QED
      BY <1>1, <3>1, <3>2
  <2>6. CASE com[r] = c
    <3>1. IpcsOf(c)' = IpcsOf(c) \cup {i}
      BY <2>2, <2>3, <2>6 DEF IpcsOf
    <3>2. IpcNumbers(c)' = {ipcNumber'[j] : j \in IpcsOf(c) \cup {i}}
      BY <3>1 DEF IpcNumbers
    <3>3. {ipcNumber'[j] : j \in IpcsOf(c) \cup {i}} = {ipcNumber[j] : j \in IpcsOf(c)} \cup {ipcNumber'[i]}
      BY <2>4
    <3>4. IpcNumbers(c)' = IpcNumbers(c) \cup {Cardinality(IpcsOf(c)) + 1}
      BY <2>1, <2>3, <2>6, <3>2, <3>3 DEF IpcNumbers
    <3>5. IsFiniteSet(IpcsOf(c))
      BY CountsInNat
    <3>6. QED
      BY <1>1, <2>4, <3>1, <3>4, <3>5, AddNumber
  <2>7. QED
    BY <2>5, <2>6
<1>4. ASSUME NEW i \in Ipcs, IpcStep(i) PROVE UNCHANGED <<of, ipcNumber>>
  BY <1>4, IpcStepFacts
<1>5. ASSUME NEW r \in Requests, certifySubcontractIpc(r) \/ AddClaim(r) PROVE UNCHANGED <<of, ipcNumber>>
  BY <1>5 DEF certifySubcontractIpc, AddClaim
<1>6. QED
  BY <1>2, <1>3, <1>4, <1>5, IpcSteps DEF ipcVars

LEMMA NumbersStep ==
  ASSUME TypeOK, IpcsInv, RequestsInv, NumbersInv, [Next]_vars
  PROVE  NumbersInv'
BY CommitmentNumbersStep, IpcNumbersStep DEF NumbersInv, NumbersSequential

-----------------------------------------------------------------------------
(* The inductive invariant.                                                *)

IInv == TypeOK /\ RequestsInv /\ LinesInv /\ IpcsInv /\ CeilingsInv /\ NumbersInv

LEMMA InitIInv ==
  ASSUME Init
  PROVE  IInv
<1>1. TypeOK
  <2>1. [l \in Lines |-> 0] \in [Lines -> 0..MaxClaim]
    BY BoundAssumption
  <2>2. TablesTyped
    BY <2>1 DEF Init, TablesTyped
  <2>3. LocksTyped /\ RequestsTyped
    BY DEF Init, LocksTyped, RequestsTyped
  <2>4. QED
    BY <2>2, <2>3, Typed
<1>2. RequestsInv
  BY NoneAssumption DEF Init, RequestsInv, Relies, Holds, Commits, Kinds, Locking, Ordering
<1>3. LinesInv
  BY DEF Init, LinesInv, RevisedIsSum, Submitted
<1>4. IpcsInv
  BY DEF Init, IpcsInv
<1>5. ASSUME NEW l \in Lines PROVE certifiedSoFar(l) <= Ceiling[l]
  <2>1. Certified = {}
    BY DEF Init, Certified
  <2>2. {u \in {} \X (1..MaxClaim) : u[2] <= claimed[u[1]][l]} = {}
    OBVIOUS
  <2>3. certifiedSoFar(l) = 0
    BY <2>1, <2>2, FS_EmptySet DEF certifiedSoFar
  <2>4. QED
    BY <2>3, LinesAssumption
<1>6. NumbersInv
  <2>1. NumberedCommitments = {} /\ \A c \in Commitments : IpcsOf(c) = {}
    BY NoneAssumption DEF Init, NumberedCommitments, IpcsOf
  <2>2. CommitmentNumbers = {} /\ \A c \in Commitments : IpcNumbers(c) = {}
    BY <2>1 DEF CommitmentNumbers, IpcNumbers
  <2>3. Cardinality({}) = 0 /\ 1..0 = {}
    BY FS_EmptySet
  <2>4. NumbersSequential
    BY <2>1, <2>2, <2>3 DEF NumbersSequential
  <2>5. QED
    BY <2>4 DEF Init, NumbersInv
<1>7. QED
  BY <1>1, <1>2, <1>3, <1>4, <1>5, <1>6 DEF IInv, CeilingsInv

\* The invariant on which all theorems rest.
THEOREM Invariant == Spec => []IInv
<1>1. Init => IInv
  BY InitIInv
<1>2. IInv /\ [Next]_vars => IInv'
  BY TypeStep, RequestsStep, LinesStep, IpcsStep, CeilingsStep, NumbersStep DEF IInv
<1>3. QED
  BY <1>1, <1>2, PTL DEF Spec

\* Every variable keeps its type, for every instance.
THEOREM TypeCorrect == Spec => []TypeOK
<1>1. IInv => TypeOK
  BY DEF IInv
<1>2. QED
  BY <1>1, Invariant, PTL

\* The amount of a submitted commitment is the sum of its lines, whatever is
\* edited, submitted and amended at the same time.
THEOREM RevisedIsSumCorrect == Spec => []RevisedIsSum
<1>1. IInv => RevisedIsSum
  BY DEF IInv, LinesInv
<1>2. QED
  BY <1>1, Invariant, PTL

\* Certified IPCs claim no more than the lines of their commitment give.
THEOREM CertifiedWithinCommittedCorrect == Spec => []CertifiedWithinCommitted
<1>1. IInv => CertifiedWithinCommitted
  BY DEF IInv, CeilingsInv, IpcsInv, Certified, CertifiedWithinCommitted
<1>2. QED
  BY <1>1, Invariant, PTL

\* IPCs stand on placed commitments, and are certified at their rate.
THEOREM CertifiedAsPlacedCorrect == Spec => []CertifiedAsPlaced
<1>1. IInv => CertifiedAsPlaced
  BY DEF IInv, IpcsInv, Certified, CertifiedAsPlaced
<1>2. QED
  BY <1>1, Invariant, PTL

\* Commitments and IPCs are numbered without gap or duplicate.
THEOREM NumbersSequentialCorrect == Spec => []NumbersSequential
<1>1. IInv => NumbersSequential
  BY DEF IInv, NumbersInv
<1>2. QED
  BY <1>1, Invariant, PTL

\* No step changes the terms of a submitted commitment, nor its lines but by an
\* amendment that adds some.
THEOREM SubmittedIsFixedCorrect == Spec => SubmittedIsFixed
<1>1. IInv /\ [Next]_vars => SubmittedKept
  BY PlacedStep DEF IInv
<1>2. QED
  BY <1>1, Invariant, PTL DEF Spec, SubmittedIsFixed

\* Nothing is submitted, approved or amended under a contract that has ended.
THEOREM NoPlacementAfterEndCorrect == Spec => NoPlacementAfterEnd
<1>1. IInv /\ [Next]_vars => NothingPlaced
  BY PlacementStep DEF IInv
<1>2. QED
  BY <1>1, Invariant, PTL DEF Spec, NoPlacementAfterEnd

-----------------------------------------------------------------------------
(* Who waits for whom.                                                     *)

HeldBy(r) ==
  /\ companyLock = r => Commits(r, "create")
  /\ \A c \in Commitments : commitmentLock[c] = r => pc[r] = "commit" /\ kind[r] # "create"
  /\ \A i \in Ipcs : ipcLock[i] = r => kind[r] = "certify" /\ pc[r] \in {"commitment", "commit"}

LEMMA EndHeld ==
  ASSUME TypeOK, Held, NEW r \in Requests, EndTransaction(r)
  PROVE  Held'
<1>1. ASSUME NEW q \in Requests \ {r} PROVE HeldBy(q)'
  <2>1. SameRequest(q)
    BY EndFacts, LeaveFacts
  <2>2. /\ companyLock' = q => companyLock = q
        /\ \A c \in Commitments : commitmentLock'[c] = q => commitmentLock[c] = q
        /\ \A i \in Ipcs : ipcLock'[i] = q => ipcLock[i] = q
    BY NoneAssumption DEF EndTransaction
  <2>3. QED
    BY <2>1, <2>2 DEF SameRequest, Held, HeldBy, Commits
<1>2. HeldBy(r)'
  <2>1. /\ companyLock' # r
        /\ \A c \in Commitments : commitmentLock'[c] # r
        /\ \A i \in Ipcs : ipcLock'[i] # r
    BY NoneAssumption DEF EndTransaction
  <2>2. QED
    BY <2>1 DEF HeldBy
<1>3. QED
  BY <1>1, <1>2 DEF Held, HeldBy

\* A request that is at neither of the rows it would have locked has none.
LEMMA FreeHeld ==
  ASSUME Held, NEW r \in Requests, pc[r] \in {"idle", "edit", "claim"}, \A q \in Requests \ {r} : SameRequest(q),
         UNCHANGED <<companyLock, commitmentLock, ipcLock>>
  PROVE  Held'
<1>1. ASSUME NEW q \in Requests \ {r} PROVE HeldBy(q)'
  BY <1>1 DEF Held, HeldBy, SameRequest, Commits
<1>2. HeldBy(r)'
  BY DEF Held, HeldBy, Commits
<1>3. QED
  BY <1>1, <1>2 DEF Held, HeldBy

LEMMA LockHeld ==
  ASSUME TypeOK, RequestsInv, Held, NEW r \in Requests, Lock(r)
  PROVE  Held'
<1> r # None
  BY NoneAssumption
<1>1. CASE LockCompany(r)
  <2>1. /\ pc[r] = "company" /\ pc'[r] = "commit" /\ kind'[r] = kind[r]
        /\ \A q \in Requests \ {r} : SameRequest(q)
        /\ companyLock = None /\ companyLock' = r /\ UNCHANGED <<commitmentLock, ipcLock>>
    BY <1>1 DEF LockCompany, Goto, TypeOK, SameRequest
  <2>2. kind[r] = "create"
    BY <2>1 DEF RequestsInv, Relies
  <2>3. ASSUME NEW q \in Requests PROVE HeldBy(q)'
    BY <2>1, <2>2 DEF Held, HeldBy, SameRequest, Commits
  <2>4. QED
    BY <2>3 DEF Held, HeldBy
<1>2. CASE LockCommitment(r) /\ EndTransaction(r)
  BY <1>2, EndHeld
<1>3. CASE LockCommitment(r) /\ ReadUnderLock(r) /\ commitmentLock' = [commitmentLock EXCEPT ![com[r]] = r]
             /\ UNCHANGED <<companyLock, contractLock, ipcLock>>
  <2>1. /\ pc[r] = "commitment" /\ pc'[r] = "commit" /\ kind'[r] = kind[r]
        /\ \A q \in Requests \ {r} : SameRequest(q)
    BY <1>3 DEF LockCommitment, ReadUnderLock, Goto, TypeOK, SameRequest
  <2>2. kind[r] \in Locking
    BY <2>1 DEF RequestsInv, Relies
  <2>3. kind[r] # "create"
    BY <2>2 DEF Locking, Ordering
  <2>4. \A q \in Requests \ {r} : \A c \in Commitments : commitmentLock'[c] = q => commitmentLock[c] = q
    BY <1>3 DEF TypeOK
  <2>5. ASSUME NEW q \in Requests \ {r} PROVE HeldBy(q)'
    BY <1>3, <2>1, <2>4 DEF Held, HeldBy, SameRequest, Commits
  <2>6. HeldBy(r)'
    BY <1>3, <2>1, <2>3 DEF Held, HeldBy, Commits
  <2>7. QED
    BY <2>5, <2>6 DEF Held, HeldBy
<1>4. CASE \E c \in Commitments, k \in Ordering : LockContract(r, k, c)
  <2>1. PICK c \in Commitments, k \in Ordering : LockContract(r, k, c)
    BY <1>4
  <2>2. /\ pc[r] = "idle" /\ \A q \in Requests \ {r} : SameRequest(q)
        /\ UNCHANGED <<companyLock, commitmentLock, ipcLock>>
    BY <2>1, BeginFacts DEF LockContract
  <2>3. QED
    BY <2>2, FreeHeld
<1>5. CASE \E i \in Ipcs : LockIpc(r, i)
  <2>1. PICK i \in Ipcs : LockIpc(r, i)
    BY <1>5
  <2>2. /\ pc[r] = "idle" /\ pc'[r] = "commitment" /\ kind'[r] = "certify"
        /\ \A q \in Requests \ {r} : SameRequest(q)
        /\ ipcLock' = [ipcLock EXCEPT ![i] = r] /\ UNCHANGED <<companyLock, commitmentLock>>
    BY <2>1, BeginFacts DEF LockIpc
  <2>3. \A q \in Requests \ {r} : \A j \in Ipcs : ipcLock'[j] = q => ipcLock[j] = q
    BY <2>2 DEF TypeOK
  <2>4. ASSUME NEW q \in Requests \ {r} PROVE HeldBy(q)'
    BY <2>2, <2>3 DEF Held, HeldBy, SameRequest, Commits
  <2>5. HeldBy(r)'
    BY <2>2 DEF Held, HeldBy, Commits
  <2>6. QED
    BY <2>4, <2>5 DEF Held, HeldBy
<1>6. QED
  BY <1>1, <1>2, <1>3, <1>4, <1>5 DEF Lock, LockCommitment, Ordering

LEMMA HeldStep ==
  ASSUME TypeOK, RequestsInv, Held, [Next]_vars
  PROVE  Held'
<1>1. CASE UNCHANGED <<lockVars, reqVars>>
  BY <1>1 DEF lockVars, reqVars, Held, Commits
<1>2. ASSUME NEW r \in Requests, Read(r) PROVE Held'
  <2>1. pc[r] = "idle" /\ \A q \in Requests \ {r} : SameRequest(q)
    <3>1. \A k, c, i, l, label : Begin(r, k, c, i, l, label) =>
            pc[r] = "idle" /\ \A q \in Requests \ {r} : SameRequest(q)
      BY BeginFacts
    <3>2. QED
      BY <1>2, <3>1 DEF Read, ReadForCreate, ReadDraft, findEligibleSubcontractCommitment, BeginUnlinked, ReadForClaim
  <2>2. UNCHANGED lockVars
    BY <1>2 DEF Read, ReadForCreate, ReadDraft, findEligibleSubcontractCommitment, BeginUnlinked, ReadForClaim
  <2>3. QED
    BY <2>1, <2>2, FreeHeld DEF lockVars
<1>3. ASSUME NEW r \in Requests, Commit(r) \/ Abort(r) PROVE Held'
  <2>1. EndTransaction(r)
    BY <1>3 DEF Commit, Abort, createCommitment, SubmitCommitment, ApproveCommitment, AmendCommitment, CreateIpc,
                certifySubcontractIpc
  <2>2. QED
    BY <2>1, EndHeld
<1>4. ASSUME NEW r \in Requests, EditDraft(r) \/ AddClaim(r) PROVE Held'
  <2>1. pc[r] \in {"edit", "claim"} /\ Leave(r) /\ UNCHANGED lockVars
    BY <1>4 DEF EditDraft, AddClaim
  <2>2. \A q \in Requests \ {r} : SameRequest(q)
    BY <2>1, LeaveFacts
  <2>3. QED
    BY <2>1, <2>2, FreeHeld DEF lockVars
<1>5. ASSUME EndContract \/ (\E c \in Commitments : CancelCommitment(c)) \/ (\E i \in Ipcs : IpcStep(i))
      PROVE  UNCHANGED <<lockVars, reqVars>>
  <2>1. CASE EndContract \/ \E c \in Commitments : CancelCommitment(c)
    BY <2>1 DEF EndContract, CancelCommitment
  <2>2. CASE \E i \in Ipcs : IpcStep(i)
    BY <2>2, IpcStepFacts
  <2>3. QED
    BY <1>5, <2>1, <2>2
<1>6. CASE UNCHANGED vars
  BY <1>1, <1>6 DEF vars, lockVars, reqVars
<1>7. QED
  BY <1>1, <1>2, <1>3, <1>4, <1>5, <1>6, LockHeld DEF Next

\* The order in which the rows are locked.
Rank(r) == IF pc[r] = "commit" THEN (IF kind[r] = "create" THEN 0 ELSE 1) ELSE IF pc[r] = "claim" THEN 3 ELSE 2

LEMMA WaitsDown ==
  ASSUME RequestsInv, Held, Linked = {}, NEW r \in Requests, NEW s \in Requests, WaitsFor(r, s)
  PROVE  Rank(s) < Rank(r)
<1>1. Relies(r)
  BY DEF RequestsInv
<1>2. companyLock = s => Rank(s) = 0
  BY DEF Held, Commits, Rank
<1>3. CASE pc[r] \in {"company", "edit", "claim"} /\ companyLock = s
  BY <1>2, <1>3 DEF Rank
<1>4. CASE pc[r] \in {"commitment", "edit"} /\ commitmentLock[com[r]] = s
  <2>1. com[r] \in Commitments
    BY <1>1, <1>4 DEF Relies
  <2>2. pc[s] = "commit" /\ kind[s] # "create"
    BY <1>4, <2>1 DEF Held
  <2>3. QED
    BY <1>4, <2>2 DEF Rank
<1>5. CASE pc[r] = "claim" /\ ipcLock[ipc[r]] = s
  <2>1. pc[s] \in {"commitment", "commit"}
    BY <1>1, <1>5 DEF Relies, Held
  <2>2. QED
    BY <1>5, <2>1 DEF Rank
<1>6. CASE pc[r] = "commit" /\ kind[r] # "create" /\ companyLock = s
  BY <1>2, <1>6 DEF Rank
<1>7. QED
  BY <1>3, <1>4, <1>5, <1>6 DEF WaitsFor

\* Where no commitment belongs to a contract, no circle of requests that wait
\* for each other can arise: the foreign key of createCommitment is the only
\* cause of the deadlock.
THEOREM NoDeadlockWithoutContract ==
  ASSUME Linked = {}
  PROVE  Spec => []NoDeadlock
<1>1. Init => Held
  BY NoneAssumption DEF Init, Held
<1>2. IInv /\ Held /\ [Next]_vars => Held'
  BY HeldStep DEF IInv
<1>3. IInv /\ Held => NoDeadlock
  <2>1. SUFFICES ASSUME IInv, Held, NEW S \in SUBSET Requests, S # {}
                 PROVE  \E r \in S : \A s \in S : ~WaitsFor(r, s)
    BY DEF NoDeadlock
  <2>2. \A r, s \in Requests : WaitsFor(r, s) => Rank(s) < Rank(r)
    BY <2>1, WaitsDown DEF IInv
  <2>3. \A r \in Requests : Rank(r) \in 0..3
    BY DEF Rank
  <2>4. \E r \in S : \A s \in S : Rank(r) <= Rank(s)
    <3>1. CASE \E r \in S : Rank(r) = 0
      BY <2>3, <3>1
    <3>2. CASE (\A s \in S : Rank(s) # 0) /\ \E r \in S : Rank(r) = 1
      BY <2>3, <3>2
    <3>3. CASE (\A s \in S : Rank(s) \notin {0, 1}) /\ \E r \in S : Rank(r) = 2
      BY <2>3, <3>3
    <3>4. CASE \A s \in S : Rank(s) = 3
      BY <2>1, <3>4
    <3>5. QED
      BY <2>3, <3>1, <3>2, <3>3, <3>4
  <2>5. PICK r \in S : \A s \in S : Rank(r) <= Rank(s)
    BY <2>4
  <2>6. \A s \in S : ~WaitsFor(r, s)
    BY <2>2, <2>3, <2>5
  <2>7. QED
    BY <2>6
<1>4. QED
  BY <1>1, <1>2, <1>3, Invariant, PTL DEF Spec

=============================================================================
