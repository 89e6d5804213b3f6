--------------------------- MODULE ZatcaOnboarding ---------------------------
(***************************************************************************)
(* Bringing one invoicing unit (EGS) of a company into ZATCA's service:    *)
(* routes/zatca.ts and lib/zatca/domain/{csr, csrInstances, complianceCsid,*)
(* complianceInvoice, productionCsid, egsUnits}.ts.                        *)
(*                                                                         *)
(* Keys and certificates live in a secret store that no transaction of the *)
(* database covers; the rows hold references into it.  Every request reads *)
(* the unit's row first and goes on with what it read.  A reference, a key *)
(* and a CSR bear the name of the request that made them: no request makes *)
(* two.  What a request refuses by looking at its body alone leaves        *)
(* nothing behind and is left out.                                         *)
(***************************************************************************)
EXTENDS FatooraGateway, Sequences, FiniteSets, Absent

CONSTANTS
  Officers,  \* requests of the company's owner
  Asked      \* the kinds of requests in this instance

Kinds == {"csr", "confirm_compliance", "confirm_production", "credential", "clear", "deactivate",
          "verify", "compliance_csid", "invoice", "onboard", "renew"}
ASSUME AskedKinds == Asked \subseteq Kinds
ASSUME AbsentIsNobody == None \notin Officers

Confirmations == {"confirm_compliance", "confirm_production"}
\* Operations that call the provider, and those of them that leave a row for every answer of the provider.
Calls == {"verify", "compliance_csid", "invoice", "onboard", "renew"}
Recorded == {"invoice", "onboard", "renew"}

\* The verdict on an answer of ZATCA, by operation.
Verdict(k, w) == CASE k = "compliance_csid" -> ComplianceCsid(w)
                   [] k = "invoice" -> ComplianceInvoice(w)
                   [] k = "onboard" -> ProductionCsid(w)
                   [] k = "renew" -> RenewedCsid(w)
                   [] OTHER -> CheckConnection(w)

NoSecret == [key |-> None, certificate |-> None, comparable |-> FALSE]

VARIABLES
  egsStatus, csidStatus, secretRef,  \* the unit's row
  secrets,      \* the secret store: what each reference leads to, NoSecret for nothing
  begun,        \* the CSR transactions in the order of generated_at
  csrRows,      \* "none", "generated" or "superseded", of each CSR
  lifecycles,   \* <<CSR, reference>>: compliance certificates that were issued
  operations,   \* <<request, verdict>>: provider operations and compliance attempts
  phase, kind,  \* of a request
  seen,         \* the unit's row, and the CSR that was current, as the request read them
  verdict,      \* on the answer that the request got from ZATCA
  fate,         \* what the request was told
  cleared       \* references that an owner cleared

unitvars == <<egsStatus, csidStatus, secretRef>>
rowvars == <<begun, csrRows, lifecycles, operations>>
officevars == <<phase, kind, seen, verdict, fate>>
onboardingVars == <<unitvars, secrets, rowvars, officevars, cleared>>

Phases == {"idle", "put", "open", "rows", "drop", "point", "status", "call", "record", "audit", "done"}
Unseen == [status |-> None, csid |-> None, ref |-> None, csr |-> None]

OnboardingTypeOK ==
    /\ egsStatus \in {"not_onboarded", "onboarding", "active", "deactivated"}
    /\ csidStatus \in {"none", "compliance_pending", "compliance_issued", "production_issued"}
    /\ secretRef \in Officers \cup {None}
    /\ secrets \in [Officers -> [key : Officers \cup {None}, certificate : Officers \cup {None}, comparable : BOOLEAN]]
    /\ begun \in Seq(Officers)
    /\ csrRows \in [Officers -> {"none", "generated", "superseded"}]
    /\ lifecycles \subseteq Officers \X Officers
    /\ operations \subseteq Officers \X (ErrorCategories \cup Results)
    /\ phase \in [Officers -> Phases]
    /\ kind \in [Officers -> Kinds \cup {None}]
    /\ verdict \in [Officers -> ErrorCategories \cup Results \cup {None}]
    /\ fate \in [Officers -> {"nothing", "ok", "refused", "error", "lost"}]
    /\ cleared \subseteq Officers

OnboardingInit ==
    /\ egsStatus = "not_onboarded" /\ csidStatus = "none" /\ secretRef = None
    /\ secrets = [o \in Officers |-> NoSecret]
    /\ begun = <<>> /\ csrRows = [o \in Officers |-> "none"]
    /\ lifecycles = {} /\ operations = {}
    /\ phase = [o \in Officers |-> "idle"] /\ kind = [o \in Officers |-> None]
    /\ seen = [o \in Officers |-> Unseen]
    /\ verdict = [o \in Officers |-> None] /\ fate = [o \in Officers |-> "nothing"]
    /\ cleared = {}

-----------------------------------------------------------------------------
Goto(o, p) == phase' = [phase EXCEPT ![o] = p] /\ UNCHANGED fate
Conclusion(o, f) == phase' = [phase EXCEPT ![o] = "done"] /\ fate' = [fate EXCEPT ![o] = f]
Same(o) == UNCHANGED <<kind, seen, verdict>>
Resolves(ref) == ref # None /\ secrets[ref] # NoSecret

\* findCurrentCsrInstance: the latest generated_at among the rows that are not superseded.
Live(n) == csrRows[begun[n]] = "generated"
LatestCsr == {begun[n] : n \in {m \in DOMAIN begun : Live(m) /\ \A later \in DOMAIN begun : later > m => ~Live(later)}}
CurrentCsr == IF LatestCsr = {} THEN None ELSE CHOOSE o \in LatestCsr : TRUE
LifecyclesOf(csr) == {l \in lifecycles : l[1] = csr}

\* What refuses a request when it has read the unit and the rows.
CanConfirm(k) ==
    secretRef # None /\ csidStatus = IF k = "confirm_compliance" THEN "compliance_pending" ELSE "compliance_issued"
CanVerify == Resolves(secretRef)
CanRequestCompliance == CurrentCsr # None /\ LifecyclesOf(CurrentCsr) = {}
UsesLifecycle == CurrentCsr # None /\ \E l \in LifecyclesOf(CurrentCsr) : Resolves(l[2])
CanSubmitInvoice == UsesLifecycle
CanOnboard == UsesLifecycle

Admissible(k) ==
    CASE k \in Confirmations -> CanConfirm(k)
      [] k = "verify" -> CanVerify
      [] k = "compliance_csid" -> CanRequestCompliance
      [] k = "invoice" -> CanSubmitInvoice
      [] k = "onboard" -> CanOnboard
      [] OTHER -> TRUE

FirstPhase(k) ==
    CASE k \in {"csr", "credential"} \cup Confirmations -> "put"
      [] k = "clear" -> "drop" [] k = "deactivate" -> "status" [] OTHER -> "call"

Begin(o, k) ==
    /\ phase[o] = "idle" /\ Admissible(k)
    /\ kind' = [kind EXCEPT ![o] = k]
    /\ seen' = [seen EXCEPT ![o] = [status |-> egsStatus, csid |-> csidStatus, ref |-> secretRef, csr |-> CurrentCsr]]
    /\ Goto(o, FirstPhase(k))
    /\ UNCHANGED <<unitvars, secrets, rowvars, verdict, cleared>>

-----------------------------------------------------------------------------
\* The keys for which the owner may hold a certificate.
KeysMade == {s \in Officers : kind[s] = "csr"}

\* Mutant: the public key of the certificate is not compared.
PutUnchecked(o) ==
    /\ phase[o] = "put" /\ kind[o] \in Confirmations
    /\ LET pending == secrets[seen[o].ref] IN
       \E k \in KeysMade :
           IF pending.comparable
           THEN /\ secrets' = [secrets EXCEPT ![o] = [key |-> pending.key, certificate |-> k,
                                                      comparable |-> kind[o] = "confirm_compliance"]]
                /\ Goto(o, "drop")
           ELSE Conclusion(o, "refused") /\ UNCHANGED secrets
    /\ UNCHANGED <<unitvars, rowvars, kind, seen, verdict, cleared>>

\* confirmCsidForEgsUnit: the pending key pair, against whose public key the certificate the owner
\* brought is compared, and the new secret.
PutCertificate(o) ==
    /\ phase[o] = "put" /\ kind[o] \in Confirmations
    /\ LET pending == secrets[seen[o].ref] IN
       \E k \in KeysMade :
           IF pending.comparable /\ k = pending.key
           THEN /\ secrets' = [secrets EXCEPT ![o] = [key |-> pending.key, certificate |-> k,
                                                      comparable |-> kind[o] = "confirm_compliance"]]
                /\ Goto(o, "drop")
           ELSE Conclusion(o, "refused") /\ UNCHANGED secrets
    /\ UNCHANGED <<unitvars, rowvars, kind, seen, verdict, cleared>>

\* ZatcaSecretStore.put, of a new key pair for a CSR,
PutKeyPair(o) ==
    /\ phase[o] = "put" /\ kind[o] = "csr"
    /\ secrets' = [secrets EXCEPT ![o] = [key |-> o, certificate |-> None, comparable |-> TRUE]]
    /\ Goto(o, "open")
    /\ Same(o) /\ UNCHANGED <<unitvars, rowvars, cleared>>

\* of a credential that the owner typed in, and of a certificate that ZATCA issued.
PutToken(o, next) ==
    /\ phase[o] = "put"
    /\ secrets' = [secrets EXCEPT ![o] = [key |-> None, certificate |-> o, comparable |-> FALSE]]
    /\ Goto(o, next)
    /\ Same(o) /\ UNCHANGED <<unitvars, rowvars, cleared>>
PutCredential(o) == kind[o] = "credential" /\ PutToken(o, "point")
PutIssued(o) == kind[o] \in Calls /\ PutToken(o, "record")

\* generateCsrForEgsUnit: BEGIN, whose time is generated_at, and the read of the prior instance;
OpenCsr(o) ==
    /\ phase[o] = "open"
    /\ begun' = Append(begun, o)
    /\ seen' = [seen EXCEPT ![o].csr = CurrentCsr]
    /\ Goto(o, "rows")
    /\ UNCHANGED <<unitvars, secrets, csrRows, lifecycles, operations, kind, verdict, cleared>>

\* the new row, the prior one superseded, and the two columns of the unit; COMMIT.
CommitCsr(o) ==
    /\ phase[o] = "rows"
    /\ csrRows' = [s \in Officers |-> IF s = o THEN "generated"
                                      ELSE IF s = seen[o].csr THEN "superseded" ELSE csrRows[s]]
    /\ secretRef' = o /\ csidStatus' = "compliance_pending"
    /\ Goto(o, "audit")
    /\ Same(o) /\ UNCHANGED <<egsStatus, secrets, begun, lifecycles, operations, cleared>>

Drop(o, refs) ==
    /\ secrets' = [s \in Officers |-> IF s \in refs THEN NoSecret ELSE secrets[s]]
    /\ Goto(o, "point")
    /\ Same(o) /\ UNCHANGED <<unitvars, rowvars>>

\* Mutant: what is deleted is what the unit points to by now.
DropCurrent(o) ==
    /\ phase[o] = "drop" /\ kind[o] \in Confirmations
    /\ Drop(o, {s \in Officers : s = secretRef /\ csrRows[s] = "none"}) /\ UNCHANGED cleared

\* A confirmation deletes the secret that the unit held, unless a CSR owns it;
DropOld(o) ==
    /\ phase[o] = "drop" /\ kind[o] \in Confirmations
    /\ Drop(o, {s \in Officers : s = seen[o].ref /\ csrRows[s] = "none"}) /\ UNCHANGED cleared

\* DELETE /credential deletes it in any case.
DropCleared(o) ==
    /\ phase[o] = "drop" /\ kind[o] = "clear"
    /\ Drop(o, {seen[o].ref})
    /\ cleared' = cleared \cup ({seen[o].ref} \ {None})

\* setEgsUnitSecretRef, by the unit's id.
PointUnit(o) ==
    /\ phase[o] = "point"
    /\ secretRef' = IF kind[o] = "clear" THEN None ELSE o
    /\ Goto(o, IF kind[o] \in Confirmations \/ (kind[o] = "credential" /\ seen[o].status = "not_onboarded")
               THEN "status" ELSE "audit")
    /\ Same(o) /\ UNCHANGED <<egsStatus, csidStatus, secrets, rowvars, cleared>>

\* updateEgsUnitCsidStatus, by the unit's id too.
WriteCsidStatus(o) ==
    /\ phase[o] = "status" /\ kind[o] \in Confirmations
    /\ csidStatus' = IF kind[o] = "confirm_compliance" THEN "compliance_issued" ELSE "production_issued"
    /\ Goto(o, "audit")
    /\ Same(o) /\ UNCHANGED <<egsStatus, secretRef, secrets, rowvars, cleared>>

\* updateEgsUnitStatus: whatever the status is by now.
WriteEgsStatus(o, s) ==
    /\ phase[o] = "status"
    /\ egsStatus' = s
    /\ Goto(o, "audit")
    /\ Same(o) /\ UNCHANGED <<csidStatus, secretRef, secrets, rowvars, cleared>>
LeaveNotOnboarded(o) == kind[o] = "credential" /\ WriteEgsStatus(o, "onboarding")
Deactivate(o) == kind[o] = "deactivate" /\ WriteEgsStatus(o, "deactivated")
MarkActive(o) == kind[o] = "verify" /\ WriteEgsStatus(o, "active")

-----------------------------------------------------------------------------
\* The call of the provider.  A certificate is stored before its row is written; what failed is
\* recorded too where the operation has rows for that.
CallProvider(o) ==
    /\ phase[o] = "call"
    /\ \E w \in Answers :
        LET v == Verdict(kind[o], w) IN
        /\ verdict' = [verdict EXCEPT ![o] = v]
        /\ CASE v \in {"issued", "not_compliant"} -> Goto(o, "put")
             [] v = "connected" -> Goto(o, "status")
             [] kind[o] \in Recorded -> Goto(o, "record")
             [] kind[o] = "verify" -> Goto(o, "audit")
             [] OTHER -> Conclusion(o, "error")
    /\ UNCHANGED <<unitvars, secrets, rowvars, kind, seen, cleared>>

\* createProviderOperation, createComplianceAttempt; then the error is thrown again.
RecordOperation(o) ==
    /\ phase[o] = "record" /\ kind[o] \in Recorded
    /\ operations' = operations \cup {<<o, verdict[o]>>}
    /\ IF verdict[o] \in Results THEN Goto(o, "audit") ELSE Conclusion(o, "error")
    /\ Same(o) /\ UNCHANGED <<unitvars, secrets, begun, csrRows, lifecycles, cleared>>

\* createComplianceLifecycle: a CSR has one at most, by a unique index.
RecordLifecycle(o) ==
    /\ phase[o] = "record" /\ kind[o] = "compliance_csid"
    /\ IF LifecyclesOf(seen[o].csr) = {}
       THEN lifecycles' = lifecycles \cup {<<seen[o].csr, o>>} /\ Goto(o, "audit")
       ELSE UNCHANGED lifecycles /\ Conclusion(o, "refused")
    /\ Same(o) /\ UNCHANGED <<unitvars, secrets, begun, csrRows, operations, cleared>>

\* recordAuditEvent and the answer; a connection that could not be checked is answered with the error.
AuditStep(o) ==
    /\ phase[o] = "audit"
    /\ Conclusion(o, IF verdict[o] \in ErrorCategories THEN "error" ELSE "ok")
    /\ Same(o) /\ UNCHANGED <<unitvars, secrets, rowvars, cleared>>

\* A statement or the secret store fails, or the process dies; a transaction rolls back.
AbandonStep(o) ==
    /\ phase[o] \notin {"idle", "done"}
    /\ Conclusion(o, "lost")
    /\ Same(o) /\ UNCHANGED <<unitvars, secrets, rowvars, cleared>>

OfficeContinue(o) ==
    \/ PutCertificate(o) \/ PutKeyPair(o) \/ PutCredential(o) \/ PutIssued(o) \/ OpenCsr(o) \/ CommitCsr(o)
    \/ DropOld(o) \/ DropCleared(o) \/ PointUnit(o)
    \/ WriteCsidStatus(o) \/ LeaveNotOnboarded(o) \/ Deactivate(o) \/ MarkActive(o)
    \/ CallProvider(o) \/ RecordOperation(o) \/ RecordLifecycle(o) \/ AuditStep(o)

OnboardingNext ==
    \E o \in Officers :
        \/ \E k \in Asked : Begin(o, k)
        \/ OfficeContinue(o)
        \/ AbandonStep(o)

OnboardingSpec == OnboardingInit /\ [][OnboardingNext]_onboardingVars

-----------------------------------------------------------------------------
(***************************************************************************)
(* The key pair of every CSR, also of one that was superseded, and the     *)
(* certificate of every compliance lifecycle can be resolved for ever,     *)
(* unless an owner cleared just that one: neither a new CSR nor a          *)
(* confirmation takes them away (csr.ts:145-153 and 270-287).              *)
(***************************************************************************)
OwnedSecretsStay ==
    /\ \A o \in Officers : csrRows[o] # "none" /\ o \notin cleared => Resolves(o)
    /\ \A l \in lifecycles : Resolves(l[2])

(***************************************************************************)
(* The secret that the unit points to can be resolved, except between the  *)
(* deletion of an old secret and the update of the pointer by the same     *)
(* request, or for good if that request died in between.                   *)
(***************************************************************************)
PointerResolves ==
    Resolves(secretRef) \/ secretRef = None
    \/ \E o \in Officers : /\ kind[o] \in Confirmations \cup {"clear"} /\ seen[o].ref = secretRef
                           /\ phase[o] = "point" \/ fate[o] = "lost"

(***************************************************************************)
(* A certificate is only ever stored with the private key it was issued    *)
(* for, whatever CSRs were generated while the confirmation was under way. *)
(***************************************************************************)
CertificateFitsKey ==
    \A o \in Officers : secrets[o].key # None /\ secrets[o].certificate # None
                            => secrets[o].certificate = secrets[o].key

(***************************************************************************)
(* Every call of the provider for a compliance invoice or a production     *)
(* certificate that was answered to the owner left a row with what came of *)
(* it, also when it failed (complianceInvoice.ts:28-58).                   *)
(***************************************************************************)
EveryCallRecorded ==
    \A o \in Officers : kind[o] \in Recorded /\ fate[o] \in {"ok", "error"} => <<o, verdict[o]>> \in operations

(***************************************************************************)
(* csr.ts:207-213 says that a confirmation only ever advances the status   *)
(* of the certificate forward by exactly one step.                         *)
(***************************************************************************)
OnlyForward ==
    [][/\ csidStatus' = "compliance_issued" => csidStatus \in {"compliance_pending", "compliance_issued"}
       /\ csidStatus' = "production_issued" => csidStatus \in {"compliance_issued", "production_issued"}]_onboardingVars

=============================================================================
