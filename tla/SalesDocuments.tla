--------------------------- MODULE SalesDocuments ---------------------------
(***************************************************************************)
(* Quotes and invoices of one company: their numbers, which are claimed    *)
(* from two counters in the company's row (lib/numbering.ts), the pool of  *)
(* connections their creation needs (db/client.ts), and the conditional    *)
(* UPDATEs that send, delete, accept, reject and pay them                  *)
(* (routes/quotes.ts, routes/invoices.ts).                                 *)
(*                                                                         *)
(* createQuote holds a connection, with its transaction open, while        *)
(* nextQuoteNumber takes a second one; createInvoice resolves the tax rate *)
(* (module TaxRules) and may refuse before it claims its number.           *)
(***************************************************************************)
EXTENDS Naturals, FiniteSets, Absent

CONSTANTS Quotes, Invoices,   \* supplies of document ids
          SalesRequests,
          PoolSize,           \* max connections of the pool (10 in the code)
          SalesFaults         \* may statements fail and the process die?

ASSUME SalesAssumptions ==
    /\ Quotes \cap Invoices = {} /\ PoolSize \in Nat
    /\ None \notin Quotes \cup Invoices \cup Nat \cup SalesRequests \cup {"ok"}

Documents == Quotes \cup Invoices
DocKinds == {"quote", "invoice"}
KindOf(d) == IF d \in Quotes THEN "quote" ELSE "invoice"

Decisions == {"send", "delete", "accept", "reject", "pay"}

\* The status the WHERE clause of an UPDATE names, and the one it sets.
FromStatus(o) == IF o \in {"send", "delete"} THEN "draft" ELSE "sent"
IntoStatus(o) == CASE o = "send" -> "sent" [] o = "delete" -> "deleted" [] o = "accept" -> "accepted"
                     [] o = "reject" -> "rejected" [] OTHER -> "paid"

Applies(o, d) == IF d \in Quotes THEN o # "pay" ELSE o \in {"send", "pay"}

VARIABLES
  counter,      \* companies.next_quote_number, next_invoice_number
  docStatus,    \* of each document; "none" before it is inserted
  docNumber,    \* quote_number, invoice_number
  connections,  \* requests whose transaction holds a connection
  step, aim, about, claim,  \* what a request is doing, to what, with what
  outcome,      \* the answer each request gave
  shown,        \* documents a client has opened through the public link
  lostNumbers   \* <<kind, number>> claimed by requests that failed

docvars == <<counter, docStatus, docNumber>>
salesreqvars == <<connections, step, aim, about, claim, outcome>>
salesVars == <<docvars, salesreqvars, shown, lostNumbers>>

DocStatuses == {"none", "draft", "sent", "deleted", "accepted", "rejected", "paid"}
SalesSteps == {"idle", "begin", "number", "insert", "write", "audit", "done"}

SalesTypeOK ==
    /\ counter \in [DocKinds -> Nat]
    /\ docStatus \in [Documents -> DocStatuses]
    /\ docNumber \in [Documents -> Nat \cup {None}]
    /\ connections \in SUBSET SalesRequests
    /\ step \in [SalesRequests -> SalesSteps]
    /\ aim \in [SalesRequests -> Decisions \cup {"create", None}]
    /\ about \in [SalesRequests -> Documents \cup {None}]
    /\ claim \in [SalesRequests -> Nat \cup {None}]
    /\ outcome \in [SalesRequests -> {"ok", "conflict", "failed", None}]
    /\ shown \in SUBSET Documents
    /\ lostNumbers \in SUBSET (DocKinds \X Nat)

SalesInit ==
    /\ counter = [k \in DocKinds |-> 0]
    /\ docStatus = [d \in Documents |-> "none"]
    /\ docNumber = [d \in Documents |-> None]
    /\ connections = {}
    /\ step = [r \in SalesRequests |-> "idle"]
    /\ aim = [r \in SalesRequests |-> None]
    /\ about = [r \in SalesRequests |-> None]
    /\ claim = [r \in SalesRequests |-> None]
    /\ outcome = [r \in SalesRequests |-> None]
    /\ shown = {}
    /\ lostNumbers = {}

-----------------------------------------------------------------------------
FreeConnection == Cardinality(connections) < PoolSize

Conclude(r, a) == step' = [step EXCEPT ![r] = "done"] /\ outcome' = [outcome EXCEPT ![r] = a]

\* createQuote, createInvoice up to the number.  What they refuse until then leaves nothing behind.
StartCreate(r, d) ==
    /\ step[r] = "idle" /\ docStatus[d] = "none" /\ \A q \in SalesRequests : about[q] # d
    /\ step' = [step EXCEPT ![r] = IF d \in Quotes THEN "begin" ELSE "number"]
    /\ aim' = [aim EXCEPT ![r] = "create"]
    /\ about' = [about EXCEPT ![r] = d]
    /\ UNCHANGED <<docvars, connections, claim, outcome, shown, lostNumbers>>

\* db.transaction of createQuote takes the first connection.
BeginQuote(r) ==
    /\ step[r] = "begin" /\ FreeConnection
    /\ connections' = connections \cup {r}
    /\ step' = [step EXCEPT ![r] = "number"]
    /\ UNCHANGED <<docvars, aim, about, claim, outcome, shown, lostNumbers>>

\* Mutant: SELECT the counter, and UPDATE it in a statement of its own.
ClaimWithoutUpdate(r) ==
    LET k == KindOf(about[r]) IN
    /\ step[r] = "number" /\ FreeConnection
    /\ \E n \in {counter[k], counter[k] + 1} : claim' = [claim EXCEPT ![r] = n + 1] /\ counter' = [counter EXCEPT ![k] = n]
    /\ step' = [step EXCEPT ![r] = "insert"]
    /\ UNCHANGED <<docStatus, docNumber, connections, aim, about, outcome, shown, lostNumbers>>

\* claimNextNumber: one UPDATE ... RETURNING, on a connection of its own that it returns at once.
ClaimNumber(r) ==
    LET k == KindOf(about[r]) IN
    /\ step[r] = "number" /\ FreeConnection
    /\ counter' = [counter EXCEPT ![k] = counter[k] + 1]
    /\ claim' = [claim EXCEPT ![r] = counter[k] + 1]
    /\ step' = [step EXCEPT ![r] = "insert"]
    /\ UNCHANGED <<docStatus, docNumber, connections, aim, about, outcome, shown, lostNumbers>>

\* The document and its items, and COMMIT.  A quote's transaction is open already.
InsertDocument(r) ==
    LET d == about[r] IN
    /\ step[r] = "insert" /\ (d \in Invoices => FreeConnection)
    /\ docStatus' = [docStatus EXCEPT ![d] = "draft"]
    /\ docNumber' = [docNumber EXCEPT ![d] = claim[r]]
    /\ connections' = connections \ {r}
    /\ Conclude(r, "ok")
    /\ UNCHANGED <<counter, aim, about, claim, shown, lostNumbers>>

\* A request that ends without its document gives back its connection and loses its number.
FailRequest(r) ==
    /\ connections' = connections \ {r}
    /\ lostNumbers' = lostNumbers \cup (IF step[r] = "insert" THEN {<<KindOf(about[r]), claim[r]>>} ELSE {})
    /\ Conclude(r, "failed")
    /\ UNCHANGED <<docvars, aim, about, claim, shown>>

WaitsForConnection(r) == step[r] \in {"begin", "number"} \/ (step[r] = "insert" /\ about[r] \in Invoices)

\* Mutant: pg's default for connectionTimeoutMillis, which is to wait for ever.
WaitForever(r) == FALSE /\ UNCHANGED salesVars

\* connectionTimeoutMillis: no connection became free for five seconds.
PoolTimeout(r) == WaitsForConnection(r) /\ ~FreeConnection /\ FailRequest(r)

\* A statement fails, the connection is lost or the process dies.
AbortRequest(r) == SalesFaults /\ step[r] \notin {"idle", "done"} /\ FailRequest(r)

-----------------------------------------------------------------------------
\* The routes that decide about a document: the read before, with its early return.  accept and
\* reject find the quote by its token and look at nothing else.
ReadDocument(r, o, d) ==
    /\ step[r] = "idle" /\ Applies(o, d) /\ docStatus[d] \notin {"none", "deleted"}
    /\ o \in {"send", "delete", "pay"} => docStatus[d] = FromStatus(o)
    /\ step' = [step EXCEPT ![r] = "write"]
    /\ aim' = [aim EXCEPT ![r] = o]
    /\ about' = [about EXCEPT ![r] = d]
    /\ UNCHANGED <<docvars, connections, claim, outcome, shown, lostNumbers>>

\* Mutant: the UPDATE names the id only.
DecideById(r) ==
    LET d == about[r] o == aim[r] IN
    /\ step[r] = "write" /\ docStatus[d] # "deleted"
    /\ docStatus' = [docStatus EXCEPT ![d] = IntoStatus(o)]
    /\ IF o \in {"send", "pay"} THEN step' = [step EXCEPT ![r] = "audit"] /\ outcome' = outcome
                                ELSE Conclude(r, "ok")
    /\ UNCHANGED <<counter, docNumber, connections, aim, about, claim, shown, lostNumbers>>

\* UPDATE (or, under the row's lock, DELETE) ... WHERE status = From(o).  accept, reject and delete
\* write their audit row in the same transaction, send and mark-paid after it.
Decide(r) ==
    LET d == about[r] o == aim[r] IN
    /\ step[r] = "write" /\ docStatus[d] = FromStatus(o)
    /\ docStatus' = [docStatus EXCEPT ![d] = IntoStatus(o)]
    /\ IF o \in {"send", "pay"} THEN step' = [step EXCEPT ![r] = "audit"] /\ outcome' = outcome
                                ELSE Conclude(r, "ok")
    /\ UNCHANGED <<counter, docNumber, connections, aim, about, claim, shown, lostNumbers>>

\* No row was updated: 409.
RefuseDecision(r) ==
    /\ step[r] = "write" /\ docStatus[about[r]] # FromStatus(aim[r])
    /\ Conclude(r, "conflict")
    /\ UNCHANGED <<docvars, connections, aim, about, claim, shown, lostNumbers>>

\* recordAuditEvent(db, ...) of send and mark-paid, a statement of its own.
AuditDecision(r) ==
    /\ step[r] = "audit"
    /\ Conclude(r, "ok")
    /\ UNCHANGED <<docvars, connections, aim, about, claim, shown, lostNumbers>>

\* GET /public/.../:token answers 404 for a draft.
ViewPublic(d) ==
    /\ docStatus[d] \notin {"none", "deleted", "draft"} /\ d \notin shown
    /\ shown' = shown \cup {d}
    /\ UNCHANGED <<docvars, salesreqvars, lostNumbers>>

\* No request is under way: the system may rest.
SalesRest == (\A r \in SalesRequests : step[r] \in {"idle", "done"}) /\ UNCHANGED salesVars

SalesContinue(r) ==
    \/ BeginQuote(r) \/ ClaimNumber(r) \/ InsertDocument(r) \/ PoolTimeout(r)
    \/ Decide(r) \/ RefuseDecision(r) \/ AuditDecision(r)

SalesNext ==
    \/ \E r \in SalesRequests :
        \/ \E d \in Documents : StartCreate(r, d)
        \/ \E d \in Documents, o \in Decisions : ReadDocument(r, o, d)
        \/ SalesContinue(r)
        \/ AbortRequest(r)
    \/ \E d \in Documents : ViewPublic(d)
    \/ SalesRest

SalesSpec == SalesInit /\ [][SalesNext]_salesVars

\* Every statement of a request that has begun is sent, and a wait for a connection is timed.
SalesFairness == \A r \in SalesRequests : WF_salesVars(SalesContinue(r))
SalesFairSpec == SalesSpec /\ SalesFairness

-----------------------------------------------------------------------------
Inserting(r) == step[r] = "insert"

(***************************************************************************)
(* No two documents of a kind ever have the same number, also when one is  *)
(* still being inserted: the claim is a single UPDATE ... RETURNING.       *)
(***************************************************************************)
NumbersUnique ==
    /\ \A d, e \in Documents :
           docNumber[d] # None /\ docNumber[d] = docNumber[e] /\ KindOf(d) = KindOf(e) => d = e
    /\ \A r \in SalesRequests, d \in Documents :
           Inserting(r) /\ KindOf(about[r]) = KindOf(d) => claim[r] # docNumber[d]

(***************************************************************************)
(* A gap in the numbers is always explained: every number up to the        *)
(* counter is on a document (perhaps a deleted quote), about to be, or was *)
(* claimed by a creation that failed after its claim (invoices.ts: a       *)
(* refused invoice must not burn a number).                                *)
(***************************************************************************)
NumbersAccounted ==
    \A k \in DocKinds : \A n \in 1..counter[k] :
        \/ \E d \in Documents : KindOf(d) = k /\ docNumber[d] = n
        \/ \E r \in SalesRequests : Inserting(r) /\ KindOf(about[r]) = k /\ claim[r] = n
        \/ <<k, n>> \in lostNumbers

(***************************************************************************)
(* What a client has opened through the link stays: a document that was    *)
(* shown is never a draft again and never deleted, whatever the race       *)
(* between sending and deleting it.                                        *)
(***************************************************************************)
ShownStays == \A d \in shown : docStatus[d] \in {"sent", "accepted", "rejected", "paid"}

(***************************************************************************)
(* Of all requests that decide the same question about a document (send or *)
(* delete a draft; accept, reject or pay what was sent) one at most is     *)
(* told that it succeeded.                                                 *)
(***************************************************************************)
OneDecision ==
    \A r, q \in SalesRequests :
        /\ outcome[r] = "ok" /\ outcome[q] = "ok" /\ about[r] = about[q]
        /\ aim[r] \in Decisions /\ aim[q] \in Decisions /\ FromStatus(aim[r]) = FromStatus(aim[q])
        => r = q

(***************************************************************************)
(* Every request that has begun is answered, although a quote holds one    *)
(* connection of the pool while it waits for a second.                     *)
(***************************************************************************)
EveryRequestEnds == \A r \in SalesRequests : step[r] # "idle" ~> step[r] = "done"

=============================================================================
