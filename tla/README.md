# MIDAD: a verification project

MIDAD is a multi-tenant ERP for construction companies: an Express server over PostgreSQL (`server/src`), and a
React client that keeps no authoritative state (`client/src`). This project specifies the parts of it where requests
meet: numbering, approval and certification, the idempotency keys, the chain of e-invoices sent to ZATCA (the Saudi
tax authority) and the certificates they need, taxes, budgets, payroll, accounts, documents, the platform's console,
the move of a company between deployments, and what the client makes of all this. The specifications are TLA+
modules translated from the source; TLC checks them on small instances, and the TLA+ proof system proves their main
properties for every instance.

Run a check with `tlc -config X.cfg M` and the proofs of a module with `tlapm M.tla`, in this directory.
`PROJECT.json` lists the components, the runs, the mutants that show each property can be broken, the source lines
of every definition, the hazards and the theorems.

1. Inventory 2. Modules 3. Runs 4. Findings 5. Proofs 6. What is not modelled 7. Plan

## 1. Inventory

Paths are under `server/src` unless they begin with `client`. All state of the server is in PostgreSQL, used at READ
COMMITTED: a statement sees what is committed when it starts, a row that a transaction has written or selected `FOR
UPDATE` is locked until it ends, and a row inserted with a foreign key waits for its parent if that is locked `FOR
UPDATE`. Nothing else synchronises requests, so what can go wrong lies between two statements. Outside the database
are the bytes of documents, the secrets of the e-invoicing units and ZATCA itself; no transaction covers them.

### Requests, numbers and e-invoices

| component | state | operations | hard behaviour | correct when |
|---|---|---|---|---|
| Idempotency keys (`lib/idempotency.ts`) | a row per (company, operation, key): status, owner token, fingerprint, lease, response | `withIdempotency`: claim, poll, steal an expired claim, heartbeat, complete, release | crash between the handler's commit and the completion; a frozen event loop whose lease expires; lost acknowledgements | every success told of a key is the recorded document; a leader that runs keeps its claim; every request is answered |
| Quotes, invoices (`routes/quotes.ts`, `invoices.ts`, `lib/numbering.ts`) | documents, two counters per company, the pool of connections | create, send, delete, accept, reject, mark paid, the public link | a number is claimed on a second connection while the transaction holds the first; conditional UPDATEs that race | numbers unique; what a client saw stays; of two competing decisions one succeeds; no creation waits for ever |
| ZATCA documents (`routes/zatca.ts`, `lib/zatca/domain`) | submissions, the counter (ICV) and hash pointer (PIH) of each EGS unit | prepare, submit | racing prepares, an identity edited between prepare and submit, lost answers, failed local writes | one unbroken hash chain; one call in flight; nothing recorded that ZATCA did not say |
| ZATCA onboarding (`lib/zatca/domain/{csr,csrInstances,complianceCsid,complianceInvoice,productionCsid,egsUnits}.ts`) | the unit's two statuses and pointer, CSRs, lifecycles, operations, secrets | CSR, compliance CSID, compliance invoices, production CSID and renewal, confirmations, credential, verify, deactivate | several writes, secrets and provider calls without a lock | a pointer leads to its secret; a certificate is stored with the key it was issued for |
| ZATCA provider (`lib/zatca/provider`) | none | six calls; what each status and body means | answers that are late, cut off or of an unexpected form | every call leaves a row; what may be retried is what failed for a while |
| Tax rules (`lib/compliance`) | versions, profile, overrides as intervals of days | publish, switch the country, override, reset, calculate | overrides created at once; a calculation that reads piece by piece | a calculation uses one country; one open override of a country |

### Contracts and what is paid for them

| component | state | operations | hard behaviour | correct when |
|---|---|---|---|---|
| Contracts (`routes/contracts.ts`) | status, terms | create, PATCH with a locked re-check of the status | reads before the transaction | an ended contract gains nothing |
| BOQ revisions (`routes/boq.ts`) | revisions, items | create, add and delete items, publish | two drafts published at once; MAX + 1 numbering | one published revision, a chain that only grows |
| Measurements (`routes/measurements.ts`) | documents and lines | create, lines, submit, approve, reject | two approvals of one item | approved <= BOQ quantity |
| Owner IPCs (`routes/ipcs.ts`) | documents, lines, frozen snapshots | create, lines, submit, approve, reject, certify | two certifications of one item; rate changed meanwhile | certified <= approved; snapshots stack up |
| Commitments (`routes/commitments.ts`) | orders, lines, frozen amounts | create, terms, lines, submit, approve, amend, cancel | edits during submission; the end of the contract; the order of locks | amount = sum of lines; terms fixed once submitted |
| Subcontractor IPCs (`routes/subcontractIpcs.ts`) | documents, lines, snapshots | create, lines, submit, approve, reject, certify | two certifications of one line | certified <= committed, at one rate |

### A project and its people

| component | state | operations | hard behaviour | correct when |
|---|---|---|---|---|
| Budgets, change orders (`routes/budget.ts`, `budgetRevisions.ts`, `changeOrders.ts`) | items, expenses, revisions, orders, the project's total | edit, assign, approve, reject, delete | a decision races a deletion; items move while their revision is approved | total = base + approved changes |
| Alerts, forecast, cash flow (`budgetAlerts.ts`, `forecast.ts`, `cashflow.ts`) | alerts of rules and tiers, snapshots | evaluate, acknowledge, resolve, take a snapshot | evaluations at once; a snapshot read in pieces | one unresolved alert of a rule and tier |
| Projects (`routes/projects.ts`) | the row everything cascades from | delete, with its checks | a certification or an approval between check and deletion | certified history is never destroyed |
| Site work (`projectSchedule.ts`, `punchItems.ts`, `tasks.ts`, `dailyLogs.ts`) | tasks, their parents and dependencies, punch items, logs | create, move, delete, depend, assign, decide | each change is judged on the rows it finds | no cycle in either graph; closed is closed |
| Payroll, labour cost (`payrollPeriods.ts`, `payrollRecords.ts`, `laborAllocations.ts`, `laborCostPostings.ts`) | periods, records, shares, postings | edit, submit, decide, post, reverse | edits during submission; posting twice | what the reviewer saw is what is posted, once |
| Workforce compliance (`workforceCompliance.ts`) | periods, head counts, Nitaqat and GOSI reports, evidence, exceptions | record, amend, attach, verify, resolve | patches judged on a row that another has changed | head counts add up |
| Directories (`customers.ts`, `suppliers.ts`, `employees.ts`, `costCodes.ts`) | single rows with a status | create, edit, deactivate | none of their own | an action that is offered is accepted |

### Around the company

| component | state | operations | hard behaviour | correct when |
|---|---|---|---|---|
| Accounts (`routes/auth.ts`, `company.ts`, `platformOrganizations.ts`, `middleware/auth.ts`) | users with role and status, sessions, tokens, invitations | register, log in and out, reset, invite, accept, change members from two surfaces | counts read before the transaction; a token used twice; a session made during a reset | the lock keeps an owner; a reset ends the sessions before it; withdrawn invitations bring nobody |
| Documents, client portal (`lib/storage`, `routes/documents.ts`, `clientPortal*.ts`) | bytes, rows, the logo, grants, sessions of clients | upload, share, delete, download | bytes and rows are two stores; a download is several reads | a row has bytes; only what is shared is served |
| Backup and restore (`db/backup.ts`, `restore.ts`) | dump, counts, archive | take, restore | the parts are taken one after the other while uploads go on | a restored document has its bytes |
| Platform console (`platformOwnershipTransfer.ts`, `platformSupportSessions.ts`, `platformFeatureFlags.ts`, `platformPlans.ts`, `platformIncidents.ts`) | operators, support sessions, flags, plans, incidents | transfer, support, override, change, resolve | two transfers, two writers of one override | exactly one owner |
| Tenant data (`lib/tenantExport.ts`, `tenantImport.ts`, `tenantDataTables.ts`, over `db/schema.ts`) | 61 tables and their foreign keys | export, validate, import | the export is not one snapshot; one order of tables against every foreign key | what arrives is whole; imports fail for known reasons only |
| Web client (`client/src`) | what a page last read; the key of a form | offer, click, read again, submit, retry | stale pages, answers out of order, lost answers | an up-to-date offer is accepted; one record per attempt |
| Audit trail (`lib/audit.ts`) | append-only rows | record | its foreign key waits for the company | read by nobody to decide anything: not modelled but for the wait |
| Process and HTTP shell (`index.ts`, `app.ts`, `middleware`) | configuration, the pool | start, stop, routes | shutdown cuts requests off | a cut-off request is a crash of the models |
| Money (`lib/money.ts`) | none | rounding of decimal strings | cents | arithmetic over data: not modelled |

**How they interact.** The routes that create or certify budget lines, change orders, commitments, invoices, IPCs,
payroll periods, quotes and subcontractor IPCs accept an optional Idempotency-Key and, given one, run under
`withIdempotency`; the client's forms draw the keys. Measurements and owner IPCs refer to the published BOQ revision
of a contract, subcontractor IPCs to the lines of an active commitment, commitments to a contract (optionally); an
invoice takes its rate from the tax rules and, once sent, is prepared and submitted to ZATCA with the credential
that onboarding left. Posting labour cost writes expenses, which budgets, alerts and forecasts read. Deleting a
project cascades to all of it. Nearly every transaction ends with an audit row whose foreign key needs the company's
row. Locks are taken parent before child: company or contract, document, commitment, then items in the order of
their ids.

## 2. Modules

| module | models | composes |
|---|---|---|
| `Absent` | `None`, the value of a column that is null | extended by the newer modules |
| `IdempotentOperation` | the promise of a key, with no rows, leases or owners | |
| `Idempotency` | `lib/idempotency.ts`, statement by statement, with crashes, frozen event loops and failing statements | implements `IdempotentOperation` |
| `SalesDocuments` | quotes, invoices, their counters and the pool of connections with its time-out | |
| `HashChain` | the promise of an EGS unit: an append-only chain | |
| `ZatcaSubmission` | prepare and submit | implements `HashChain` |
| `FatooraGateway` | the verdict on every answer of ZATCA, per operation: pure operators | |
| `ZatcaOnboarding` | CSR, certificates, credential and secrets of one unit | extends `FatooraGateway` |
| `CountryPacks` | the seed versions of seven countries: pure data | |
| `TaxRules` | profile, versions, overrides and calculations of one company | extends `CountryPacks` |
| `ContractExecution` | status of a contract, revisions, items, publication, creation of IPCs and measurements | |
| `CertificationLedger` | lines, approval and certification of measurements and owner IPCs over the items of one revision | |
| `Payables` | commitments and the subcontractor IPCs on them, with foreign keys as locks | |
| `ProjectControls` | budget items, expenses, revisions, change orders, alerts, forecast snapshots and the deletion of a project | |
| `SiteRecords` | schedule, punch list, check list and daily logs | |
| `Payroll` | periods, records, allocations, posting and reversal | |
| `WorkforceCompliance` | head counts, reports, evidence, verification, exceptions | |
| `Accounts` | users, sessions, resets, invitations, changes of members | |
| `DocumentStore` | bytes and rows of files, client portal, backup and restoration | |
| `PlatformConsole` | operators and ownership, support sessions, flags, plans, incidents | |
| `TenantSchema` | the foreign keys of `db/schema.ts`: pure data | |
| `TenantTransfer` | export, validation and import of a company | extends `TenantSchema` |
| `ScreenOffers` | what each page offers, in which status, to whom: pure data | |
| `ClientScreens` | a page on one record, the routes it calls and the other users | extends `ScreenOffers` |
| `ClientForms` | forms that hold an idempotency key, with the server's claim, commit and completion of each call | |
| `MC*` | constants, definitions and symmetry for TLC; several modules side by side | extend the modules |
| `*Proofs` | lemmas and theorems | extend the modules |

**State and actions.** A variable is a column, a lock or what a request holds in local variables; the comment beside
each names it. An action is one statement, or a whole transaction when all that the transaction waits for is one row
(what it does is then atomic for everybody else, who can only wait or look before and after). A request that locks
several rows takes one action for each, so the interleavings of its locks with those of others are all there. The
early returns of a route are the guards of its actions where they decide anything; a refused request that changes
nothing is not an action. Reads made before `BEGIN` are actions of their own (`Read...`) whenever the transaction
relies on them, because that is where stale state comes from. `Abort` (or `crash`, `db`, `Abandon`) stands for a
dead process, a failed statement and a deadlock that PostgreSQL breaks: a ROLLBACK.

**Data.** Documents, requests and identities are model values. Quantities and money are counted in whole units:
`CertificationLedger` and `Payables` represent a line of n units by n claims of one unit, and a sum by the
cardinality of a set of units, so that sums need no recursion and can be proved about. In `ProjectControls` each
change order adds 1. A document sent to ZATCA is represented by what determines its bytes (`Digest`: uuid, tax
identity, second of issue), so two documents have the same hash when these agree; an answer of ZATCA is a status
with a kind of body. `Submitted` in `Payables` holds `pending_approval` and `active`; the enum's
`partially_fulfilled` and `closed` are set by no route.

**Tables as data.** Where the code is a table, so is the model: `CountryPacks` is the packs, `TenantSchema` the
foreign keys by what a deletion does to them, `ScreenOffers` the conditions in the components, the routes of
`ClientScreens` the permissions and statuses the handlers accept, `FatooraGateway` the branches on an answer's
status. The properties are about what two tables make of each other: an order of insertion against every foreign
key, an offer against the route it calls.

**In `Payables`,** a transaction that holds no other row while it waits (EditDraft, CancelCommitment, AddClaim, the
IPC's own decisions) is one action; those that hold the company, the contract or an IPC while they wait for the
commitment are not. `Audited` is the foreign key of the audit row: the company must not be locked by another
transaction. `createCommitment` writes its audit row after its transaction, but the commitment's own foreign key
waits for the contract.

**In `ZatcaOnboarding`,** a reference, a key and a CSR bear the name of the request that made them (no request makes
two), and the secret store is a function from references to a key and a certificate. **In `TenantTransfer`,** a
behaviour follows one pair of rows, the second referencing the first, for any foreign key of the schema: whether an
import succeeds is decided by such pairs.

**In `ClientForms`,** a call is claimed, its handler commits, and its answer is recorded, in three steps
(`idempotency.ts:203`, 155, 161). With `ClaimsLost` the leader may lose its claim between any two of them, because it
died, threw after its commit or froze beyond its lease, and another call may claim the key again; the clock, the
heartbeat and the steal behind that are those of `Idempotency`. Each form is described by how long it keeps its key,
whether its button is disabled while a call is under way, whether a success closes it, and whether it stands in what
a reload of the list replaces by a skeleton (`redrawn`: the rows of quotes, the form of expenses). `Redraw` draws such
a form a fresh key and a fresh busy flag while the user is still at the same thing, and a call may be under way;
`Reopen` is the user's own decision to record something else.

**In `ClientScreens`,** most successes are followed by a reload of the record. Three are not: a call that adds a file
reads the list of files only, the page of documents takes the row from the answer, and a reversal of a posting reads
the postings again without blanking the page.

Definitions whose comment begins with `Mutant:` are plausible bugs of the code. They are used by no specification;
each is named in PROJECT.json with the property that it breaks.

## 3. Runs

| run | instance | what it shows |
|---|---|---|
| `idempotency_faults` | 3 requests of one key, one with another body; lease 3, heartbeat 1, 1 missed renewal, 2 claims, 1 poll; crash, freeze, failed statements | a leader that never froze keeps its claim, two undisturbed requests never both insert, `IdempotentOperation` is implemented |
| `answers` | theme *key*: 2 requests under the same faults; theme *sales*: 2 quotes, an invoice, 4 requests, a pool of 2, failures anywhere; fair | numbers unique, what was shown stays, one decision, every request of either theme is answered |
| `zatca` | *calm*: a prepare, 3 submits, an edit of the identity; *stormy*: 2 prepares of 2 invoices, 2 submits, crashes, failed statements, lost answers; in both a tick of the clock; fair | one call in flight, and accepted once where nothing fails, each until a request finds a mismatch; `HashChain` is implemented, prepares end |
| `zatca_mismatch` | 3 submits, an identity edited and edited back | **violated**: the mismatch branch reopens a claimed submission (finding 1) |
| `certification` | 2 measurements, 2 IPCs, 2 items, 2 requests, 2 rates | no over-certification, stacked snapshots, no deadlock, the current retention |
| `contract_execution` | 3 revisions, an IPC, a measurement, an item, 2 requests | one published revision with fixed items, nothing published after the end |
| `contract_ended` | the same with 2 IPCs | **violated**: an ended contract gains activity (finding 2) |
| `payables` | an order under a contract, a subcontract, 2 lines, 2 IPCs, 2 rates, 2 requests | sums, ceilings, fixed terms |
| `projects` | 12 themes over `ProjectControls`, `SiteRecords`, `Payroll`, `WorkforceCompliance`: 2 of whatever races, 2 requests, 3 tasks; theme *onboarding* of `ZatcaOnboarding`: 3 requests of any of the 11 kinds | the total, certified history, acyclic schedules, reviewed pay, head counts; pointers resolve, certificates fit their keys |
| `administration` | 6 parts over `Accounts` (2 users, 2 changes of members, a reset, an invitation), `DocumentStore` (a file, a download, a backup) and `PlatformConsole` (3 operators, 2 transfers); part *tax* of `TaxRules`: 2 overrides, 2 countries, 3 days, 2 switches, a calculation | the lock keeps an owner, a reset ends sessions, restored rows have bytes, one platform owner; countries are not mixed, overrides of the other country stay |
| `office` | themes *transfer*: a pair of rows for every foreign key, 2 confirmations; *forms*: 3 sends of 2 bodies through every form, 2 attempts, 2 keys for each, lost claims; *screens*: 2 clicks on every page and status, a change elsewhere | imports are whole and fail for known reasons, an attempt is recorded twice for two known reasons only, offers are accepted, pages show what they did |
| `conversion_redrawn` | the conversion of a quote, 3 sends, no lost claim | **violated**: two invoices of one attempt (finding 3) |

**Themes.** Several runs check modules that share no state. A behaviour of such a run moves one of them, its theme,
and the others stay as they began: interleaving them would multiply the states and show nothing. Some themes also
leave out what their properties cannot tell apart, which the comments of the MC module name (in *tax*, calculations
of other rates than the standard one come before there are overrides, which they do not read). Within `projects`
the themes are operations of one module that act on different rows; where they do meet (an alert reads the items, a
deletion everything) they are in one theme.

**Why the bounds are enough to see something.** Two requests that act and a third row to act on make every
read-then-write race: each property of a passing run is broken by a mutant of the code within the same bounds (a
missing lock, a check without re-check, an unconditional update), which PROJECT.json lists and which shows that the
instance reaches the situation. `contract_execution` has three revisions because supersession needs a predecessor and
two rivals; `certification` has an item with room for two documents and one with room for one, so that some pairs of
decisions fit and some must not, and two items because a deadlock needs two orders. In `payables` each line gives one
unit and is worth two: two IPCs that claim the same line must not both be certified. In `answers` the pool has two
connections and four requests, so that two quotes can hold both while each waits for a second; *onboarding* has three
requests because a certificate goes wrong when a second CSR and a confirmation overtake a first. The schedule has
three tasks because the search for a cycle must follow more than one edge. `MaxLines`, `MaxClaim`, `MaxAmount`,
`MaxEdits`, `MaxClock`, `MaxSwitches`, `MaxSignups`, `MaxAttempts`, `MaxKeys`, `MaxElsewhere` and the supply of ids
are bounds of the model, not of the code; the theorems hold for all of them unless section 5 says otherwise. Symmetry is used in
runs without liveness only, over values that nothing distinguishes; in `answers`, where there is liveness, the four
requests begin in one order instead, since nothing distinguishes them before they begin.

`Together` in `projects` is the number of requests of the site that are under way at a time. With 1 the schedule
stays acyclic; with 2 it does not, which section 4 tells. `ScheduleAcyclic` is checked, and proved, for the first
(`OneAtATime`). The walk over a task's parents ends after a thousand steps (`projectSchedule.ts:129`); the model looks
at all of them, and the assumption `WalkSuffices` says that there are no more tasks than the walk can pass.

`CHECK_DEADLOCK FALSE` stands in the runs in which the system may stop, because requests are used up or everything
is decided. A circle of transactions that wait for each other is not a TLC deadlock, since PostgreSQL breaks it
(`Abort`); it is the property `NoDeadlock`.

**Fairness.** `Idempotency!Fairness`: a request that has arrived runs on (Express has no queue in front of a
handler), and a frozen event loop resumes; clients need not arrive, time need not pass, and heartbeats need not
fire. `KeyFairness` is the same, in the behaviours of `answers` that move the key. `ZatcaSubmission!Fairness`: a
request that has begun goes on; weak fairness of each request suffices since the row locks are held by one request
at a time that itself goes on. `SalesFairness`: a request that has begun sends its next statement, and a wait for a
connection ends, at the latest by the pool's time-out of five seconds (`connectionTimeoutMillis`): the time-out is
what makes `EveryRequestEnds` true, since two quotes may hold the pool and wait for each other. All three are what a
running process gives; crashes are steps and take the fairness with them.

## 4. Findings

Three are runs that violate one property stated by a comment of the repository, with the reading of the code in
PROJECT.json.

1. `routes/zatca.ts:1101`: the write of a mismatch has no condition on the state and reopens a submission in flight.
   One submit has rebuilt the document under an edited identity and found the hash to differ; the identity is edited
   back, a second submit claims the row (`submitting`) and calls ZATCA; the first writes `compliance_failed`, which
   a third submit may claim and send again. This is the only way: until a request has found a document to differ
   (`FoundToDiffer`) one call is in flight (`OneCallUntilMismatch`) and, where nothing fails, ZATCA accepts it once
   (`AcceptedOnceUntilMismatch`), for every instance.
2. `routes/boq.ts:56` (also `ipcs.ts:60`, `measurements.ts:55`): the contract's status is read before the
   transaction and not looked at again under its lock; a contract that ends in between gains a revision, an IPC or a
   measurement.
3. `client/src/pages/Quotes.tsx:214`: the key of a conversion is kept in the row of the quote, which the comment
   above it calls stable across reloads of the list. `load()` sets the list to null (60), `FinancialTable.tsx:64`
   draws a skeleton instead of the rows, and every row is mounted anew with a fresh key. After a lost answer, any
   reload (another quote is sent or created) and a second click make a second invoice of the same quote, which
   `invoices.ts:208-213` does not refuse; the busy flag (206) is redrawn too, so the first call may still be under
   way. The trace needs no failure of the server. What is left is `OneRecordUnlessRedrawn`: a form records an attempt
   twice only in this way, or when the server has lost the claim between commit and completion; and what is done once
   per record (certifications, postings, decisions on change orders) not even then, because its handler refuses it.

**Shown by the model, without a run of their own.** Each is a property of a module that fails when it is added to
the module's run (or with the change of a constant named here); the modules keep the statements so that a reader can
repeat it.

| property | trace |
|---|---|
| `SuccessesAgree` in `Idempotency`, with `"ack"` in `Faults` | the acknowledgement of the completion UPDATE is lost; the catch block deletes the row, which is completed (`idempotency.ts:176`); the next request with the key runs the handler again |
| `RebuildMatches` in `ZatcaSubmission`, `MaxClock` at least 1 | issueTime and created_at are two clocks (`zatca.ts:1096`); when they straddle a second the rebuilt document differs and can never be submitted |
| `NoDeadlock` in `Payables`, both commitments in `Linked` | createCommitment locks the company `FOR UPDATE` and then waits for the contract by the foreign key (`commitments.ts:113`), while a request under the contract holds it and waits for the company by its audit row; creations of revisions and IPCs hold the contract and wait for the company in the same way (`boq.ts:69`, `ipcs.ts:77`). `docs/MIDAD_CONCURRENCY_HARDENING.md`:91 says that requests of different scopes never contend for the same lock; PostgreSQL breaks the circle and one request fails |
| `ScheduleAcyclic` in `SiteRecords`, `Together` 2 | two moves, or two dependencies, are each judged on the rows before the other and close a cycle together (`projectSchedule.ts:107`, 300) |
| `SnapshotConsistent` in `ProjectControls` | the forecast snapshot's REPEATABLE READ transaction (`forecast.ts:217`) does not cover the reads it stores, although the comment at 198-202 speaks of one boundary |
| `ApprovedItemsFixed` in `ProjectControls` | an item of an approved budget revision is assigned to another (`budgetRevisions.ts:207`, against 188) |
| `ClosedIsTerminal` in `SiteRecords`, `Together` 2 | a punch item is reopened by a request that read it before it was closed (`punchItems.ts:344`, against 281); with one request at a time it holds |
| `AllocatedWithinWhole` in `Payroll` | a PATCH of an allocation that changes another field writes back the percentage it read (`laborAllocations.ts:256`, against 15) |
| `VerifiedIsSupported` in `WorkforceCompliance` | a verified report stays verified when its reference is cleared (`workforceCompliance.ts:31`) |
| `OneRecordPerAttempt` in `ClientForms`, `InUse` the form of expenses | the section sets its summary to null on each load (`ActualCostSection.tsx:30`) and draws a skeleton (45-52), so the form is mounted anew with another key, although the comment at 113-115 calls it permanently mounted; after a lost answer, deleting another expense (88, 222) reloads, and the same expense entered again is recorded again |
| `OneRecordPerAttempt` in `ClientForms`, `ClaimsLost` and any form whose handler does not refuse a second record | the leader dies between the handler's commit and the completion UPDATE (`idempotency.ts:155`), and a retry runs the handler again under the same key |
| `OwnerRemains` in `Accounts` | an operator's PATCH of a user's status does not count the owners (`platformOrganizations.ts:341`, against 317) |
| `PastRatesFixed` in `TaxRules` | creating an override writes the end of the one before anew (`overrides.ts:102`), which stretches a window that had closed |
| `OnlyForward` in `ZatcaOnboarding`, 4 officers | a confirmation writes the status of the row it read before a new CSR put it back (`csr.ts:294`, against 207-213) |
| `RestingTenantImports` in `TenantTransfer` | rows of a table that references itself are inserted in the order of random ids (`tenantImport.ts:97`, against `tenantDataTables.ts:5-12`) |

**Read in the code, without a property.**

- Idempotency and e-invoices: a crash between the handler's commit and the completion UPDATE makes the next request
  with the key run the handler again (`Idempotency` has the behaviour, and `OneDocument` excludes exactly it); a
  document that ZATCA has cleared is reopened as `retry_required` when the outcome transaction fails
  (`routes/zatca.ts:1270`, against the comment at 1010-1014), and stays in `submitting` when the outcome transaction
  of the error branch fails (1208); a change order whose approval lost its answer is refused with 409 when the user
  refuses it.
- Onboarding: DELETE /credential (`zatca.ts:265`) deletes the key pair of a CSR that `csr.ts:145-153` says stays
  resolvable; PATCH /config may change the VAT number after a CSR was made for it; a replaced credential of an
  active unit leaves it active and unverified (`zatca.ts:199-203`, 243-248); verify-connection makes a deactivated
  unit active; two CSRs at once leave two rows in `generated`; a body that breaks off after the headers is no
  ZatcaError and leaves no row; checkConnection counts a 5xx as connected.
- Contracts: the audit row's `beforeValue` is read before the transaction; an IPC or a measurement can be created on
  a revision that was superseded a moment before; certificates of fractions of a line with quantity and rate can
  exceed its amount by cents.
- Project and people: deleting a project cascades to labour cost that was posted; cash flow of a past day counts an
  invoice that was paid later neither as received nor as receivable; a closed exception is overwritten by a request
  that read it open; a rejected payroll period does not count as overlapping; the status "closed" of a compliance
  period is looked at by nobody.
- Client: loads are never cancelled; members see buttons to send, mark paid or approve that the server refuses
  (`client/src/auth/permissions.ts:3-8`); a recorded refusal locks a form that keeps its key until it is mounted
  again; creations without a key are doubled after a lost answer.
- `publishNewRuleVersion` (`lib/compliance/publish.ts:76`) has no caller.

## 5. Proofs

All theorems are proved with tlapm to the last leaf, from the named assumptions of each module: finite supplies of
ids, bounds and amounts that are numbers, and `None` outside the sets it is put beside. The timing assumption of
`Idempotency`, `(MaxMissed + 1) * HeartbeatTicks < LeaseTicks`, is what the comment on `HEARTBEAT_INTERVAL_MS` says.
Every invariant was first checked by TLC as it stands in the last section of its module or in its module of proofs.

- **`AnswersProofs`,** keys and sales documents. `SuccessIsRecorded` is not inductive: nothing in it says that a
  leader which is about to complete owns the row. `RecordInv` adds that the columns of the row agree and that the
  owner of a completed row has finished; `LeaseInv` accounts for each tick since the last renewal by the heartbeat
  and the missed renewals, which gives `LiveLeaderKeepsClaim`; `DocumentsInv` ties documents to leaders for
  `OneDocument`. `KeepsPromiseCorrect` maps every step to a step or stutter of `IdempotentOperation`.
  `SuccessRecorded` and what follows from it, `SuccessesAgreeCorrect` too, assume that the completion's
  acknowledgement is not lost, the case in which the property fails. `SalesInv` is per request. `NumbersUnique` needs what the counter says of claims that
  are on no document yet: a number that a creation has claimed differs from every document's (`ClaimFree`) and from
  every other claim (`ClaimsDiffer`), and nothing exceeds the counter. `OneDecision` needs that a document a request
  was told it decided has moved on for good (`MovedOn`, `AloneDeciding`): the WHERE clause of the next UPDATE finds
  nothing. `NumbersAccounted` needs besides that a document has no number before it is inserted, or an insertion
  could take the place of a number that was accounted for.
- **`ZatcaProofs`.** `ChainInv`: whoever is between lock and commit holds the unit's row, has read the pointer that is
  there and claimed the next value. `SendInv`: a request past the comparison carries the prepared hash, a recorded
  verdict was given. `ImplementsChainCorrect` is the refinement of `HashChain`. `OneCallInFlight` is false (finding
  1), and `CallInv` is about what is left of it: a request in flight whose document nobody has found to differ holds a
  row that is `submitting`, and the write of a mismatch makes its document one of `FoundToDiffer`; so
  `OneCallUntilMismatch` holds for every instance, with edits, crashes and clocks, and `OneCallInFlightCorrect`
  assumes only `MaxEdits = 0` (the two clocks alone do not help a second request: every request rebuilds the same
  document, `SteadyInv`). `AcceptedOnceCorrect` is about behaviours in which no answer of ZATCA is lost and every
  outcome is written (`LuckyNext`; a request may still crash, and its row stays claimed): by `AcceptedInv` a document
  that was accepted is still claimed, or recorded, and whoever holds it has only the acceptance to write.
  `AcceptedOnceWhenCalmCorrect` is the same for the calm behaviours of the run. `RebuildMatches` fails with two clocks;
  `UneditedInv` says what every document bears until the first edit, and gives that two seconds are the only cause
  (`RebuildMatchesInOneSecondCorrect`), so that with one second the property holds (`RebuildMatchesCorrect`).
- **`CertificationProofs`.** `LedgerInv`: who holds which row (`LedgerLocks`), that what a decision compared under
  an item's lock still holds (`Checked`), and the sums. Sums are cardinalities; `AddDocument` says what one more
  document adds. `NoDeadlockCorrect` follows from the order of the items' ids.
- **`ContractProofs`.** `IInv`: the holder of the contract's row has computed a number that is still the next, and
  replaces what is still published.
- **`PayablesProofs`.** `IInv`: `RequestsInv` says what each transaction may rely on, from its reads of rows that
  never go back (`Relies`) and from the rows it has locked (`Holds`); `LinesInv`, `IpcsInv`, `CeilingsInv` and
  `NumbersInv` are about the tables alone. A step of one request is shown to leave every other `Undisturbed`:
  `Spares` for the tables, `KeepsLocks` for the locks; from this `OthersRely` gives the invariant of the others once
  for all actions. That lines of two commitments are disjoint is needed so that a certification under one commitment
  leaves the sums of another alone. `NoDeadlockWithoutContract` ranks requests by the rows they wait for: without a
  contract every request waits for one of lower rank.
- **`AdministrationProofs`.** `OwnerInv`: exactly one operator is owner, and a transfer about to write names two
  different operators. `FlagInv` and `PortalInv` follow what one request reads row by row while others write: it has
  noticed whatever holds now, and each SELECT that let it pass found what it had noticed, which gives
  `ServedWhileOn` and `ServedWhileShared`. `IncidentInv`: an update that resolves was let through with notes, its
  own or those of its copy. `FilesInv`, `LogoInv` and `BackupInv`: a row has its bytes, no operation of the code
  takes bytes or rows away, and so an archive taken after the dump holds those of every row of the dump.
  `AccountsInv`: to whom sessions, invitations and the requests that present them belong, that an open session was
  opened with the current password (`Current`), and that an invitation that is used is neither withdrawn nor ever
  will be (`Spent`); it has one lemma per action. `WorkInv`: what a patch is going to write was judged as a whole,
  which gives `CountsAddUp` although the row may have changed since.
- **`RecordsProofs`.** `ControlsInv`: the locks that the deletion of a project holds are a prefix of their order,
  and nothing that it has locked is history, which gives `HistoryNeverDestroyed`; the change orders that are counted
  in the total are those whose row says so. `PayInv`: a request that read an allocation finds it still of that
  record, or gone for good (`AtDesk`). `LabourInv`: what was posted is of a posted period, so no request that read
  the allocation before may still write its amount, which gives `LabourCounted`. `ScheduleInv`: the request that is
  under way, if there is one, would close no cycle (`Harmless`). What is reachable is defined by closed sets, so no
  induction is needed: an edge whose start is not reached from its end adds no cycle (`NoNewCycle`), because what is
  reached from the end is closed under the new edge too; taking edges away adds nothing (`FewerEdges`); a new task
  is a leaf (`NewLeaf`). `PunchInv` says in the same way that the request under way has not judged a closed item.
  Both are theorems under `OneAtATime` and false without it (section 4). `TaxInv`: a creation closes only an
  override of its own country (`Closes`), a calculation uses only overrides of the country it resolved (`Used`);
  with `OpenInv` the unique index or the closing of the one before leaves one override without an end.
  `OnboardingInv`: a reference bears the name of the request that made it, and a secret that is stored but not
  pointed to was seen by nobody, so no other request can delete it. `OwnedInv` adds that nothing but the key pair of
  a CSR or a credential is ever pointed to (a compliance certificate is not), so a replacement takes no key away
  that a row still names but that of a cleared one: `OwnedSecretsStay`. `CallInv`: a recorded operation ends only
  over its row, `EveryCallRecorded`.
- **`OfficeProofs`.** `SchemaOrdered`, a lemma per group of tables: no foreign key leads from an exported table to
  one that is left out or inserted later; the places in the order of insertion are read off the list once
  (`Places`). `TransferInv` follows the pair of rows of an arbitrary foreign key: the rows that the export began
  with and that still live are in the file once their table is read, and a child in the file has its parent there;
  `SchemaOrdered` is what makes the import insert the parent first. `FormsInv`: a call whose
  handler has begun owns the row of its key unless that claim was lost (`OwnsItsKey`), a record is behind an answer
  that is kept or about to be (`Accounted`), and a form that is not redrawn has one key for each attempt
  (`OneKeyPerAttempt`); so two records of one attempt have one of the two causes. `OneRecordPerAttemptCorrect` is the
  case without either. `OffersInv` needs that an offer of an up-to-date
  page is `Granted` by a route, for each of the 32 pages (`...Honoured`), and that the status a click was sent from
  is still there while nothing else has changed it. `ShowsInv`: a page whose last call succeeded has read the record
  since (`Followed`), unless calls overlapped; for the row that a document's page takes from the answer it needs that
  the answer is what was written (`AsGranted`) and that a document never becomes more or less complete
  (`DocumentsFull`).

What the proofs need of types is proved with the safety invariants (`TypeCorrect`, `SalesTypeCorrect`, or the first
conjuncts of the invariants named above). The conditions of the theorems that have one (`"ack" \notin Faults`,
`MaxEdits = 0`, `MaxClock = 0`, `LuckyNext`, `[]OneAtATime`, no commitment under the contract, `~ClaimsLost` and no
form redrawn) exclude the cases of
section 4 in which the property fails, and behaviours of the runs satisfy them.

**Model-checked only.** Liveness (`EveryRequestAnswered`, `EveryRequestEnds`, `EveryPrepareEnds`), which is beyond
the prover, and the three findings, which are false. Every other property of a run is proved.

**Stated without a run.** Some properties are in no run because a theorem settles them:

- of keys and e-invoices `SuccessIsRecorded`, `SuccessesAgree` and `FingerprintMatchesResponse` where no
  acknowledgement is lost, `ChainIntact`, `OnlyChainedSent`, `NeverClaimsMore`, `AcceptedOnceUntilMismatch`,
  `RebuildMatchesInOneSecond`;
- of contracts and payables `ApprovedWithinBoq`, `DecidedIsFinal`, `NumbersSequential` (twice), `HistoryOnlyGrows`,
  `CertifiedAsPlaced`, `NoPlacementAfterEnd`;
- of the company `NumbersAccounted`, `OneOpenOverride`, `OwnedSecretsStay`, `EveryCallRecorded`,
  `OneUnresolvedAlert`, `LabourCounted`, `ClosedIsTerminal`, `WithdrawnBringsNobody`, `RowsHaveBytes`,
  `ServedWhileShared`, `ServedWhileOn`, `ResolvedIsExplained`; TLC finds each to hold when it is added to the run of
  its module.

`NeverStuck`, a liveness property of `ZatcaSubmission`, holds under `FairSpec` with `Faults` empty and one invoice;
`AcceptedOnce`, which makes no exception of documents found to differ, holds for two submits of one invoice, and in
the instance of `zatca_mismatch`, which has three, TLC finds finding 1 to break it. What else TLC refutes is in the
table of section 4.

## 6. What is not modelled

- **Arithmetic of money and quantities.** Rounding to cents and decimal strings (`lib/money.ts`), the formulae of
  forecast, cash flow and the parts of a net salary. The models count whole units. Rounding matters in
  the comparisons of quantities with a tolerance (`measurements.ts:362`, `ipcs.ts`) and where a claim's value is
  rounded on its own (`subcontractIpcs.ts:196`); nothing here speaks of either.
- **Content.** XML, signatures, QR codes and hashes of e-invoices (a hash is an injective value of what determines
  the bytes), PDF and HTML, the subject of a CSR, audit rows and notifications, references to suppliers, cost codes
  and projects, translations and layout.
- **Tables of permissions and entitlements** (`lib/permissions.ts`, `lib/entitlements.ts`), except where a page's
  offers are compared with them.
- **ZATCA:** the tax identity and its validation (`lib/zatca/domain/config.ts`) beyond the fact that it may change,
  rate limits and the configuration of endpoints.
- **Single rows** that nothing else can refer to yet or that no condition guards: creation of a contract, a project
  or a directory entry, the company's own profile, verification of e-mail addresses, notifications.
- **Platform:** the organisation's own row, the security and backup views (they show rows), the handover checklist;
  the script that records backups, and the checksums of dumps.
- **Web client:** the pages of the portal and of the platform, charts, and the overview, which shows and changes
  nothing.
- **Process and HTTP shell:** wiring and configuration. A request that a shutdown cuts off is a crash of the models.
  The pool of connections is part of `SalesDocuments`, the only place where a request needs two.

PROJECT.json gives the status of each component, with what is left out of it.

## 7. Plan

What was planned first is done: the promise of a key and of the chain with their implementations, contracts and what
is certified and paid under them, numbered documents, tax rules, budgets, payroll, accounts, onboarding, documents,
the platform's console, the transfer of a company and the client. What would add most next:

1. **Composition** of `ContractExecution` with `CertificationLedger` over one revision, in which the published items
   are those measured, and an abstract specification of the whole life of a quantity (BOQ, measured, certified) that
   both implement. It would make a property of what is now read only: an IPC that is created on a revision
   superseded a moment before.
2. **Composition** of `SalesDocuments` with `ZatcaSubmission`: an invoice is prepared while it is sent or paid.
3. **Money** in cents, with a bounded check of `lib/money.ts` against a reference definition, and `Payables` over
   fractions.
4. **Deletion** of a project from `ProjectControls` against the graph of `TenantSchema`: which rows go with it, for
   every table.
5. **Portal and platform pages** in `ScreenOffers`, and larger instances of `office` (three clicks, two records).
6. **Proofs.** Every invariant and action property of a passing run is proved. What could be added are more of the
   refuted properties under the condition that saves them (`OwnerRemains` without the operators' PATCH,
   `RestingTenantImports` for tables that do not reference themselves), and refinements of the compositions of
   items 1 and 2.
