--------------------------- MODULE ZatcaSubmission ---------------------------
(***************************************************************************)
(* The documents of one EGS unit: POST .../prepare, which gives an invoice *)
(* its place in the unit's hash chain, and POST .../submit, which sends it *)
(* to ZATCA (server/src/routes/zatca.ts, lib/zatca/domain/{icv, pih,       *)
(* submissions}.ts).                                                       *)
(*                                                                         *)
(* PostgreSQL runs at READ COMMITTED: a transaction's writes appear when   *)
(* it commits, a row it has written or selected FOR UPDATE stays locked    *)
(* until then.  Every action is one statement, one call to ZATCA or one    *)
(* transaction whose statements touch rows that it holds locked.           *)
(*                                                                         *)
(* A document is determined by the uuid of the request that prepared it    *)
(* (which fixes its ICV and its previous hash too), the company's tax      *)
(* identity and the issue time, so these three stand for its hash.  The    *)
(* items of an invoice never change after it is created.  "cleared" and    *)
(* "reported" are the two names, by subtype, of one outcome.               *)
(***************************************************************************)
EXTENDS Naturals

CONSTANTS
  Invoices,
  Preparers,     \* POST .../prepare requests, each with its own zatcaUuid
  Submitters,    \* POST .../submit requests
  Identities,    \* contents of the company's tax identity
  Faults,        \* subset of FaultKinds that the environment may produce
  MaxEdits,      \* changes of the tax identity
  MaxClock,      \* seconds that pass
  None

\* "crash": the process of a request dies; "db": a statement of an outcome
\* transaction fails; "network": an answer of ZATCA is lost.
FaultKinds == {"crash", "db", "network"}

ASSUME FaultsAssumption == Faults \subseteq FaultKinds
ASSUME BoundsAssumption == MaxEdits \in Nat /\ MaxClock \in Nat
ASSUME NoneAssumption == None \notin Preparers \cup Submitters \cup Invoices \cup Identities

Digests == [uuid : Preparers, identity : Identities, time : 0..MaxClock]

Digest(u, id, t) == [uuid |-> u, identity |-> id, time |-> t]

GENESIS_PREVIOUS_INVOICE_HASH == [genesis |-> TRUE]

Times == 0..MaxClock

VARIABLES
  counter,     \* zatca_icv_counters.value of the unit
  pointer,     \* zatca_egs_units.last_document_hash of the unit
  unitLock,    \* transaction that holds the unit's row
  counterLock, \* transaction that holds the counter's row
  state,       \* zatca_submissions.state of each invoice; "none": no row
  uuid, icv, pih, hash, createdAt,   \* its other columns
  identity,    \* the company's tax identity now
  edits,       \* how often it was changed
  clock,       \* the second the clocks show
  ppc,         \* where each prepare request is
  invoice,     \* the invoice it prepares
  seenId,      \* the identity it read
  issueTime,   \* its issueTime
  begun,       \* now() of its transaction
  prev,        \* previousHash
  number,      \* its claimed ICV
  spc,         \* where each submit request is
  about,       \* the submission it submits
  doc,         \* the hash of the document it rebuilt
  verdict,     \* what the provider call gave
  received,    \* documents that reached ZATCA
  accepted     \* how often ZATCA cleared or reported each invoice

unitVars == <<counter, pointer, unitLock, counterLock>>
rowVars == <<state, uuid, icv, pih, hash, createdAt>>
worldVars == <<identity, edits, clock>>
prepVars == <<ppc, invoice, seenId, issueTime, begun, prev, number>>
subVars == <<spc, about, doc, verdict>>
zatcaVars == <<received, accepted>>
vars == <<counter, pointer, unitLock, counterLock, state, uuid, icv, pih, hash, createdAt, identity, edits, clock,
          ppc, invoice, seenId, issueTime, begun, prev, number, spc, about, doc, verdict, received, accepted>>

Pointers == Digests \cup {GENESIS_PREVIOUS_INVOICE_HASH}

\* Mutant: a submission that is being sent is not excluded.
TerminalOnly == {"accepted", "rejected"}
SUBMISSION_TERMINAL_OR_INFLIGHT_STATES == {"submitting", "accepted", "rejected"}

SubmissionStates ==
  SUBMISSION_TERMINAL_OR_INFLIGHT_STATES
    \cup {"none", "ready_for_submission", "retry_required", "compliance_failed"}

Verdicts == {"none", "accepted", "rejected", "retryable", "fatal"}

TypeOK ==
  /\ counter \in Nat
  /\ pointer \in Pointers
  /\ unitLock \in Preparers \cup {None} /\ counterLock \in Preparers \cup {None}
  /\ state \in [Invoices -> SubmissionStates]
  /\ uuid \in [Invoices -> Preparers \cup {None}]
  /\ icv \in [Invoices -> Nat]
  /\ pih \in [Invoices -> Pointers]
  /\ hash \in [Invoices -> Pointers]
  /\ createdAt \in [Invoices -> Times]
  /\ identity \in Identities /\ edits \in 0..MaxEdits /\ clock \in Times
  /\ ppc \in [Preparers -> {"idle", "build", "begin", "lock", "claim", "insert", "done"}]
  /\ invoice \in [Preparers -> Invoices \cup {None}]
  /\ seenId \in [Preparers -> Identities \cup {None}]
  /\ issueTime \in [Preparers -> Times]
  /\ begun \in [Preparers -> Times]
  /\ prev \in [Preparers -> Pointers]
  /\ number \in [Preparers -> Nat]
  /\ spc \in [Submitters -> {"idle", "rebuild", "mismatch", "claim", "sign", "call", "record", "recover", "done"}]
  /\ about \in [Submitters -> Invoices \cup {None}]
  /\ doc \in [Submitters -> Pointers]
  /\ verdict \in [Submitters -> Verdicts]
  /\ received \subseteq Digests
  /\ accepted \in [Invoices -> Nat]

Init ==
  /\ counter = 0 /\ pointer = GENESIS_PREVIOUS_INVOICE_HASH
  /\ unitLock = None /\ counterLock = None
  /\ state = [i \in Invoices |-> "none"]
  /\ uuid = [i \in Invoices |-> None]
  /\ icv = [i \in Invoices |-> 0]
  /\ pih = [i \in Invoices |-> GENESIS_PREVIOUS_INVOICE_HASH]
  /\ hash = [i \in Invoices |-> GENESIS_PREVIOUS_INVOICE_HASH]
  /\ createdAt = [i \in Invoices |-> 0]
  /\ identity \in Identities /\ edits = 0 /\ clock = 0
  /\ ppc = [p \in Preparers |-> "idle"]
  /\ invoice = [p \in Preparers |-> None]
  /\ seenId = [p \in Preparers |-> None]
  /\ issueTime = [p \in Preparers |-> 0]
  /\ begun = [p \in Preparers |-> 0]
  /\ prev = [p \in Preparers |-> GENESIS_PREVIOUS_INVOICE_HASH]
  /\ number = [p \in Preparers |-> 0]
  /\ spc = [s \in Submitters |-> "idle"]
  /\ about = [s \in Submitters |-> None]
  /\ doc = [s \in Submitters |-> GENESIS_PREVIOUS_INVOICE_HASH]
  /\ verdict = [s \in Submitters |-> "none"]
  /\ received = {}
  /\ accepted = [i \in Invoices |-> 0]

-----------------------------------------------------------------------------
(* POST /egs-units/:id/invoices/:invoiceId/prepare                         *)

PGoto(p, label) == ppc' = [ppc EXCEPT ![p] = label]

\* findSubmissionForInvoice, before anything is claimed.
LookUp(p) ==
  /\ ppc[p] = "idle"
  /\ \E i \in Invoices :
       /\ invoice' = [invoice EXCEPT ![p] = i]
       /\ PGoto(p, IF state[i] = "none" THEN "build" ELSE "done")
  /\ UNCHANGED <<unitVars, rowVars, worldVars, seenId, issueTime, begun, prev, number, subVars, zatcaVars>>

\* getZatcaTenantIdentity, then the clock of the application.
ReadIdentity(p) ==
  /\ ppc[p] = "build"
  /\ seenId' = [seenId EXCEPT ![p] = identity]
  /\ issueTime' = [issueTime EXCEPT ![p] = clock]
  /\ PGoto(p, "begin")
  /\ UNCHANGED <<unitVars, rowVars, worldVars, invoice, begun, prev, number, subVars, zatcaVars>>

\* BEGIN, once the pool gives a connection: it fixes the now() of created_at.
Begin(p) ==
  /\ ppc[p] = "begin"
  /\ begun' = [begun EXCEPT ![p] = clock]
  /\ PGoto(p, "lock")
  /\ UNCHANGED <<unitVars, rowVars, worldVars, invoice, seenId, issueTime, prev, number, subVars, zatcaVars>>

\* Mutant: the pointer is read without FOR UPDATE.
ReadPihPointerUnlocked(p) ==
  /\ ppc[p] = "lock"
  /\ prev' = [prev EXCEPT ![p] = pointer]
  /\ PGoto(p, "claim")
  /\ UNCHANGED <<unitVars, rowVars, worldVars, invoice, seenId, issueTime, begun, number, subVars, zatcaVars>>

lockAndReadPihPointer(p) ==
  /\ ppc[p] = "lock"
  /\ unitLock = None
  /\ unitLock' = p
  /\ prev' = [prev EXCEPT ![p] = pointer]
  /\ PGoto(p, "claim")
  /\ UNCHANGED <<counter, pointer, counterLock, rowVars, worldVars>>
  /\ UNCHANGED <<invoice, seenId, issueTime, begun, number, subVars, zatcaVars>>

\* INSERT ... ON CONFLICT DO UPDATE ... RETURNING value.
claimNextIcv(p) ==
  /\ ppc[p] = "claim"
  /\ counterLock = None
  /\ counterLock' = p
  /\ number' = [number EXCEPT ![p] = counter + 1]
  /\ PGoto(p, "insert")
  /\ UNCHANGED <<counter, pointer, unitLock, rowVars, worldVars, invoice, seenId, issueTime, begun, prev, subVars, zatcaVars>>

EndTx(p) ==
  /\ unitLock' = (IF unitLock = p THEN None ELSE unitLock)
  /\ counterLock' = (IF counterLock = p THEN None ELSE counterLock)

documentHash(p) == Digest(p, seenId[p], issueTime[p])

\* updatePihPointer, createSubmission and COMMIT.
createSubmission(p) ==
  LET i == invoice[p] IN
  /\ ppc[p] = "insert"
  /\ state[i] = "none"
  /\ counter' = number[p] /\ pointer' = documentHash(p)
  /\ state' = [state EXCEPT ![i] = "ready_for_submission"]
  /\ uuid' = [uuid EXCEPT ![i] = p]
  /\ icv' = [icv EXCEPT ![i] = number[p]]
  /\ pih' = [pih EXCEPT ![i] = prev[p]]
  /\ hash' = [hash EXCEPT ![i] = documentHash(p)]
  /\ createdAt' = [createdAt EXCEPT ![i] = begun[p]]
  /\ EndTx(p)
  /\ PGoto(p, "done")
  /\ UNCHANGED <<worldVars, invoice, seenId, issueTime, begun, prev, number, subVars, zatcaVars>>

\* Mutant: the handler starts the transaction again after a lost race.
DuplicateRetries(p) ==
  /\ ppc[p] = "insert"
  /\ state[invoice[p]] # "none"
  /\ EndTx(p)
  /\ PGoto(p, "lock")
  /\ UNCHANGED <<counter, pointer, rowVars, worldVars, invoice, seenId, issueTime, begun, prev, number, subVars, zatcaVars>>

\* zatca_submissions_egs_unit_invoice_unique refuses the row and the whole
\* transaction is rolled back.
DuplicateRace(p) ==
  /\ ppc[p] = "insert"
  /\ state[invoice[p]] # "none"
  /\ EndTx(p)
  /\ PGoto(p, "done")
  /\ UNCHANGED <<counter, pointer, rowVars, worldVars, invoice, seenId, issueTime, begun, prev, number, subVars, zatcaVars>>

\* The process dies or a statement fails: PostgreSQL rolls back.
PrepareFails(p) ==
  /\ "crash" \in Faults
  /\ ppc[p] \notin {"idle", "done"}
  /\ EndTx(p)
  /\ PGoto(p, "done")
  /\ UNCHANGED <<counter, pointer, rowVars, worldVars, invoice, seenId, issueTime, begun, prev, number, subVars, zatcaVars>>

-----------------------------------------------------------------------------
(* POST /submissions/:id/submit                                            *)

SGoto(s, label) == spc' = [spc EXCEPT ![s] = label]

\* getSubmission and the check of its state.
ReadSubmission(s) ==
  /\ spc[s] = "idle"
  /\ \E i \in Invoices :
       /\ state[i] # "none"
       /\ about' = [about EXCEPT ![s] = i]
       /\ SGoto(s, IF state[i] \in SUBMISSION_TERMINAL_OR_INFLIGHT_STATES
                     THEN "done" ELSE "rebuild")
  /\ UNCHANGED <<unitVars, rowVars, worldVars, prepVars, doc, verdict, zatcaVars>>

\* The document is built again from the row, with createdAt for issueTime,
\* and from the identity of this moment.
Rebuild(s) ==
  LET i == about[s]
      d == Digest(uuid[i], identity, createdAt[i]) IN
  /\ spc[s] = "rebuild"
  /\ doc' = [doc EXCEPT ![s] = d]
  /\ SGoto(s, IF d = hash[i] THEN "claim" ELSE "mismatch")
  /\ UNCHANGED <<unitVars, rowVars, worldVars, prepVars, about, verdict, zatcaVars>>

\* recordSubmissionOutcome: its UPDATE has no condition on the state.
Outcome(s, st) == state' = [state EXCEPT ![about[s]] = st]

RecordMismatch(s) ==
  /\ spc[s] = "mismatch"
  /\ Outcome(s, "compliance_failed")
  /\ SGoto(s, "done")
  /\ UNCHANGED <<unitVars, uuid, icv, pih, hash, createdAt, worldVars, prepVars, about, doc, verdict, zatcaVars>>

\* Mutant: the claim is not conditioned on the state.
ClaimUnconditionally(s) ==
  /\ spc[s] = "claim"
  /\ Outcome(s, "submitting")
  /\ SGoto(s, "sign")
  /\ UNCHANGED <<unitVars, uuid, icv, pih, hash, createdAt, worldVars, prepVars, about, doc, verdict, zatcaVars>>

claimSubmissionForSubmit(s) ==
  /\ spc[s] = "claim"
  /\ \/ /\ state[about[s]] \notin SUBMISSION_TERMINAL_OR_INFLIGHT_STATES
        /\ Outcome(s, "submitting")
        /\ SGoto(s, "sign")
     \/ /\ state[about[s]] \in SUBMISSION_TERMINAL_OR_INFLIGHT_STATES
        /\ SGoto(s, "done")
        /\ UNCHANGED state
  /\ UNCHANGED <<unitVars, uuid, icv, pih, hash, createdAt, worldVars, prepVars, about, doc, verdict, zatcaVars>>

\* Signing and the local check of the signature; a failure is a ZatcaError
\* that is not retryable, or an unexpected one.
Sign(s) ==
  /\ spc[s] = "sign"
  /\ \/ SGoto(s, "call") /\ UNCHANGED verdict
     \/ SGoto(s, "record") /\ verdict' = [verdict EXCEPT ![s] = "fatal"]
     \/ SGoto(s, "recover") /\ UNCHANGED verdict
  /\ UNCHANGED <<unitVars, rowVars, worldVars, prepVars, about, doc, zatcaVars>>

Answered(s, v) ==
  /\ verdict' = [verdict EXCEPT ![s] = v]
  /\ SGoto(s, "record")
  /\ UNCHANGED <<unitVars, rowVars, worldVars, prepVars, about, doc>>

\* ZATCA clears or reports the document; its answer may be lost or unreadable.
ZatcaAccepts(s) ==
  /\ spc[s] = "call"
  /\ received' = received \cup {doc[s]}
  /\ accepted' = [accepted EXCEPT ![about[s]] = @ + 1]
  /\ \/ Answered(s, "accepted")
     \/ "network" \in Faults /\ Answered(s, "retryable")

ZatcaRejects(s) ==
  /\ spc[s] = "call"
  /\ received' = received \cup {doc[s]}
  /\ UNCHANGED accepted
  /\ \/ Answered(s, "rejected")
     \/ "network" \in Faults /\ Answered(s, "retryable")

\* The request does not reach ZATCA, or is refused before it is processed.
CallFails(s) ==
  /\ spc[s] = "call"
  /\ \E v \in {"retryable", "fatal"} : Answered(s, v)
  /\ UNCHANGED zatcaVars

StateFor(v) ==
  CASE v = "retryable" -> "retry_required"
    [] v = "fatal"     -> "compliance_failed"
    [] OTHER           -> v

\* The outcome and its audit event, in one transaction.  When it fails after
\* an answer of ZATCA the catch block records an unexpected error; when it
\* fails in the catch block nothing is written.
RecordOutcome(s) ==
  /\ spc[s] = "record"
  /\ \/ /\ Outcome(s, StateFor(verdict[s]))
        /\ SGoto(s, "done")
     \/ /\ "db" \in Faults
        /\ UNCHANGED state
        /\ SGoto(s, IF verdict[s] \in {"accepted", "rejected"} THEN "recover" ELSE "done")
  /\ UNCHANGED <<unitVars, uuid, icv, pih, hash, createdAt, worldVars, prepVars, about, doc, verdict, zatcaVars>>

RecordUnexpectedError(s) ==
  /\ spc[s] = "recover"
  /\ \/ Outcome(s, "retry_required")
     \/ "db" \in Faults /\ UNCHANGED state
  /\ SGoto(s, "done")
  /\ UNCHANGED <<unitVars, uuid, icv, pih, hash, createdAt, worldVars, prepVars, about, doc, verdict, zatcaVars>>

SubmitCrashes(s) ==
  /\ "crash" \in Faults
  /\ spc[s] \notin {"idle", "done"}
  /\ SGoto(s, "done")
  /\ UNCHANGED <<unitVars, rowVars, worldVars, prepVars, about, doc, verdict, zatcaVars>>

-----------------------------------------------------------------------------
(* The world.                                                              *)

\* PATCH /zatca/config or PATCH /company/settings.
EditIdentity ==
  /\ edits < MaxEdits
  /\ edits' = edits + 1
  /\ \E id \in Identities \ {identity} : identity' = id
  /\ UNCHANGED <<unitVars, rowVars, clock, prepVars, subVars, zatcaVars>>

Tick ==
  /\ clock < MaxClock
  /\ clock' = clock + 1
  /\ UNCHANGED <<unitVars, rowVars, identity, edits, prepVars, subVars, zatcaVars>>

PrepareStep(p) ==
  \/ LookUp(p) \/ ReadIdentity(p) \/ Begin(p) \/ lockAndReadPihPointer(p)
  \/ claimNextIcv(p) \/ createSubmission(p) \/ DuplicateRace(p)

SubmitStep(s) ==
  \/ ReadSubmission(s) \/ Rebuild(s) \/ RecordMismatch(s) \/ claimSubmissionForSubmit(s)
  \/ Sign(s) \/ ZatcaAccepts(s) \/ ZatcaRejects(s) \/ CallFails(s)
  \/ RecordOutcome(s) \/ RecordUnexpectedError(s)

Next ==
  \/ \E p \in Preparers : PrepareStep(p) \/ PrepareFails(p)
  \/ \E s \in Submitters : SubmitStep(s) \/ SubmitCrashes(s)
  \/ EditIdentity \/ Tick

Spec == Init /\ [][Next]_vars

\* A request that has started goes on until it is answered; one that has not
\* need never come.
Fairness ==
  /\ \A p \in Preparers : WF_vars(ppc[p] # "idle" /\ PrepareStep(p))
  /\ \A s \in Submitters : WF_vars(spc[s] # "idle" /\ SubmitStep(s))

FairSpec == Spec /\ Fairness

-----------------------------------------------------------------------------
(* Properties.                                                             *)

Prepared == {i \in Invoices : state[i] # "none"}

\* icv.ts, pih.ts and the prepare transaction: the counter values of the
\* prepared documents are 1, 2, ... with no gap and no value twice, each
\* document carries the hash of its predecessor (the first one the genesis
\* hash), and the pointer is at the last one, under every interleaving of
\* prepare requests, races lost on the unique index and crashes.
ChainIntact ==
  /\ \A i \in Prepared : icv[i] \in 1..counter
  /\ \A n \in 1..counter : \E i \in Prepared : icv[i] = n
  /\ \A i, j \in Prepared : icv[i] = icv[j] => i = j
  /\ \A i \in Prepared : icv[i] = 1 => pih[i] = GENESIS_PREVIOUS_INVOICE_HASH
  /\ \A i, j \in Prepared : icv[j] = icv[i] + 1 => pih[j] = hash[i]
  /\ \A i \in Prepared : icv[i] = counter => pointer = hash[i]

\* The chain that the rows of zatca_submissions make up.
AtIcv(n) == CHOOSE i \in Prepared : icv[i] = n

Chain == INSTANCE HashChain
  WITH Hashes <- Digests, Genesis <- GENESIS_PREVIOUS_INVOICE_HASH,
       chain <- [n \in 1..counter |-> [prev |-> pih[AtIcv(n)], hash |-> hash[AtIcv(n)]]]

\* The rows of zatca_submissions implement the append-only chain of HashChain:
\* a document that has its place never moves and never changes.
ImplementsChain == Chain!Spec

InFlight(s) == spc[s] \in {"sign", "call", "record", "recover"}

\* claimSubmissionForSubmit: two submit requests are never past the claim of
\* the same submission at the same time, so the document is not sent twice
\* concurrently.
OneCallInFlight ==
  \A s, t \in Submitters :
    InFlight(s) /\ InFlight(t) /\ about[s] = about[t] => s = t

\* The documents that some submit request has rebuilt differently from what
\* was chained.
FoundToDiffer == {i \in Invoices : \E s \in Submitters : about[s] = i /\ doc[s] \in Digests \ {hash[i]}}

\* claimSubmissionForSubmit, and the UPDATE of the mismatch branch that has no
\* condition on the state: a document is not sent twice concurrently as long
\* as no request has found that it rebuilds differently.
OneCallUntilMismatch ==
  \A s, t \in Submitters :
    InFlight(s) /\ InFlight(t) /\ about[s] = about[t] /\ about[s] \notin FoundToDiffer => s = t

\* The submit route refuses a document that is not the one it prepared: what
\* ZATCA receives is the document whose hash the next one carries, even when
\* the tax identity changes between the two requests.
OnlyChainedSent == received \subseteq {hash[i] : i \in Prepared}

\* "Never claims more than ZATCA's own response says": a submission recorded
\* as cleared or reported was.
NeverClaimsMore == \A i \in Invoices : state[i] = "accepted" => accepted[i] > 0

\* "/submit is idempotent": ZATCA clears or reports a document once.
AcceptedOnce == \A i \in Invoices : accepted[i] <= 1

\* A submission that was claimed is always left in a state from which a retry
\* or a human can go on.
NeverStuck == \A i \in Invoices : (state[i] = "submitting") ~> (state[i] # "submitting")

\* Every prepare request that has begun is answered: none waits forever for
\* the unit's row.
EveryPrepareEnds == \A p \in Preparers : (ppc[p] # "idle") ~> (ppc[p] = "done")

\* documentBuilder.ts: "the regenerated XML hashes identically to what was
\* already chained", as long as nobody edits the invoice or the identity.
RebuildMatches == (edits = 0) => \A s \in Submitters : spc[s] # "mismatch"

\* What is left of it where the clocks of the application and the database
\* differ: only a document whose issueTime and created_at are in two seconds
\* is rebuilt differently.
RebuildMatchesInOneSecond ==
  (edits = 0) =>
    \A s \in Submitters : spc[s] = "mismatch" => hash[about[s]].time # createdAt[about[s]]

-----------------------------------------------------------------------------
(* Inductive invariants, for the proofs.                                   *)

WellFormed ==
  /\ \A p \in Preparers :
       /\ ppc[p] \notin {"idle", "done"} => invoice[p] \in Invoices
       /\ ppc[p] \in {"begin", "lock", "claim", "insert"} => seenId[p] \in Identities
  /\ \A s \in Submitters :
       /\ spc[s] \notin {"idle", "done"} => about[s] \in Prepared
       /\ spc[s] \in {"claim", "sign", "call"} => doc[s] \in Digests
       /\ spc[s] = "record" => verdict[s] # "none"
  /\ \A i \in Prepared : uuid[i] \in Preparers

\* A transaction that holds the unit's row has read what is in it.
LockInv ==
  \A p \in Preparers :
    /\ ppc[p] \in {"claim", "insert"} <=> unitLock = p
    /\ ppc[p] = "insert" <=> counterLock = p
    /\ ppc[p] \in {"claim", "insert"} => prev[p] = pointer
    /\ ppc[p] = "insert" => number[p] = counter + 1

GenesisInv == counter = 0 => pointer = GENESIS_PREVIOUS_INVOICE_HASH

\* A request past the comparison sends the prepared document.
SentInv ==
  \A s \in Submitters :
    spc[s] \in {"claim", "sign", "call"} => doc[s] = hash[about[s]]

VerdictInv ==
  \A s \in Submitters :
    spc[s] = "record" /\ verdict[s] = "accepted" => accepted[about[s]] > 0

\* A document in flight is claimed, until a request that has found a mismatch
\* overwrites the claim.
ClaimInv ==
  \A s \in Submitters :
    /\ spc[s] = "mismatch" => about[s] \in FoundToDiffer
    /\ InFlight(s) /\ about[s] \notin FoundToDiffer => state[about[s]] = "submitting"

\* A request rebuilds its document once, after it has chosen the submission.
RebuiltInv ==
  \A s \in Submitters :
    /\ spc[s] # "idle" => about[s] \in Prepared
    /\ spc[s] \in {"idle", "rebuild"} => doc[s] = GENESIS_PREVIOUS_INVOICE_HASH

\* While the tax identity stays, every request rebuilds the same document.
SteadyInv ==
  \A s \in Submitters :
    /\ doc[s] \in Digests => doc[s] = Digest(uuid[about[s]], identity, createdAt[about[s]])
    /\ spc[s] = "claim" \/ InFlight(s) => doc[s] \in Digests /\ doc[s] = hash[about[s]]

\* Until the first edit there is one identity, the one in every document.
UneditedInv ==
  edits = 0 =>
    /\ \A p \in Preparers : seenId[p] \in Identities => seenId[p] = identity
    /\ \A i \in Prepared : hash[i] = Digest(uuid[i], identity, hash[i].time)
    /\ RebuildMatchesInOneSecond

=============================================================================
