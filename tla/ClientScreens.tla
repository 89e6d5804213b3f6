--------------------------- MODULE ClientScreens ---------------------------
(***************************************************************************)
(* One page of the web client on one record, beside the server and the     *)
(* other users of the company.  The page shows what it last read; a click  *)
(* sends a call; when the call succeeds the page reads again (the page of  *)
(* documents takes the record from the answer instead, and a call that     *)
(* adds a file reads the list of files only), when it is refused it shows  *)
(* the error and goes on showing what it had.  Nothing cancels a read      *)
(* under way.                                                              *)
(*                                                                         *)
(* The server's side is the table of the routes of each kind of record:    *)
(* the permission they require, the statuses they accept and whether they  *)
(* refuse an incomplete record.  What a route checks about other records   *)
(* (the bounds of a BOQ, the end of a contract) is in the other modules;   *)
(* a payroll period that has records has them allocated, and a posted one  *)
(* stands for one posting.                                                 *)
(***************************************************************************)
EXTENDS ScreenOffers, Naturals, Absent

CONSTANTS
  Clicks,        \* the calls the page sends
  MaxElsewhere   \* how often other users change the record or the user's role

ASSUME NoneIsNoClick == None \notin Clicks

-----------------------------------------------------------------------------
(* The server.                                                             *)

Route(gate, deeds, from, into) ==
    {[does |-> d, from |-> from, into |-> into, needs |-> FALSE, gate |-> gate] : d \in deeds}
Checked(routes) == {[r EXCEPT !.needs = TRUE] : r \in routes}
Keep == "the status it has"

Reviewed(gate, approval) ==
    Route(gate, {"create"}, {"none"}, "draft") \cup Route(gate, {"addLine"}, Editable, Keep)
    \cup Checked(Route(gate, {"deleteLine"}, Editable, Keep) \cup Route(gate, {"submit"}, Editable, "submitted"))
    \cup Route(approval, {"approve"}, {"submitted"}, "approved") \cup Route(approval, {"reject"}, {"submitted"}, "rejected")

MeasurementRoutes == Reviewed("open", "measurement.approve")
IpcRoutes == Reviewed("ipc.manage", "ipc.manage") \cup Route("ipc.manage", {"certify"}, {"approved"}, "certified")
SubIpcRoutes ==
    Reviewed("subcontractIpc.manage", "subcontractIpc.manage")
    \cup Route("subcontractIpc.manage", {"certify"}, {"approved"}, "certified")
    \cup Route("subcontractIpc.manage", {"upload"}, {"draft", "submitted", "rejected", "approved", "certified"}, Keep)
CommitmentRoutes == LET g == "commitment.manage" IN
    Route(g, {"create"}, {"none"}, "draft") \cup Route(g, {"addLine", "changeTerms"}, {"draft"}, Keep)
    \cup Checked(Route(g, {"deleteLine"}, {"draft"}, Keep) \cup Route(g, {"submit"}, {"draft"}, "pending_approval"))
    \cup Route(g, {"approve"}, {"pending_approval"}, "active")
    \cup Route(g, {"cancel"}, {"draft", "pending_approval"}, "cancelled")
    \cup Route(g, {"amend"}, {"active", "partially_fulfilled"}, Keep)
BoqRoutes == LET g == "boq.manage" IN
    Route(g, {"create"}, {"none"}, "draft") \cup Route(g, {"addLine"}, {"draft"}, Keep)
    \cup Checked(Route(g, {"deleteLine"}, {"draft"}, Keep))
    \cup Route(g, {"publish"}, {"draft"}, "published") \cup Route(g, {"supersede"}, {"published"}, "superseded")
ContractRoutes ==
    Route("contract.manage", {"create"}, {"none"}, "main") \cup Route("contract.manage", {"amend"}, {"main"}, Keep)
BudgetItemRoutes ==
    Route("budget.manage", {"create"}, {"none"}, "free") \cup Route("budget.manage", {"edit"}, {"free"}, Keep)
    \cup Route("budget.manage", {"delete"}, {"free"}, "gone")
    \cup Route("budgetRevision.manage", {"approveRevision"}, {"free"}, "approved")
BudgetRevisionRoutes == LET g == "budgetRevision.manage" IN
    Route(g, {"create"}, {"none"}, "draft") \cup Route(g, {"assign"}, {"draft"}, Keep)
    \cup Route(g, {"approve"}, {"draft"}, "approved")
ExpenseRoutes ==
    Route("budget.manage", {"create"}, {"none"}, "entered") \cup Route("budget.manage", {"delete"}, {"entered"}, "gone")
    \cup Route("payroll.post", {"postLabour"}, {"none"}, "posted")
ChangeOrderRoutes ==
    Route("open", {"create"}, {"none"}, "pending")
    \cup Route("changeOrder.approve", {"approve"}, {"pending"}, "approved")
    \cup Route("changeOrder.approve", {"reject"}, {"pending"}, "rejected")
ForecastRoutes == Route("forecast.manage", {"create"}, {"none"}, "there")
AlertRoutes ==
    Route("open", {"create"}, {"none"}, "open") \cup Route("budgetAlert.manage", {"acknowledge"}, {"open"}, "acknowledged")
    \cup Route("budgetAlert.manage", {"resolve"}, {"open", "acknowledged"}, "resolved")
QuoteRoutes ==
    Route("open", {"create"}, {"none"}, "draft") \cup Route("quote.send", {"send"}, {"draft"}, "sent")
    \cup Route("quote.send", {"delete"}, {"draft"}, "gone") \cup Route("open", {"convert"}, {"accepted"}, Keep)
    \cup Route("open", {"accept"}, {"sent"}, "accepted") \cup Route("open", {"refuse"}, {"sent"}, "rejected")
InvoiceRoutes ==
    Route("open", {"create"}, {"none"}, "draft") \cup Route("invoice.send", {"send"}, {"draft"}, "sent")
    \cup Route("invoice.markPaid", {"pay"}, {"sent"}, "paid")
PayrollRoutes == LET g == "payroll.manage" IN
    Reviewed(g, g) \cup Checked(Route(g, {"editLine", "allocate", "reallocate", "unallocate"}, Editable, Keep))
    \cup Checked(Route("payroll.post", {"post"}, {"approved"}, "posted"))
    \cup Route("payroll.post", {"reverse"}, {"posted"}, "reversed")
PunchRoutes ==
    Route("open", {"create"}, {"none"}, "open") \cup Route("open", {"edit"}, PunchStatuses, Keep)
    \cup Route("open", {"start"}, {"open", "assigned"}, "in_progress")
    \cup Route("open", {"reopen"}, {"resolved", "verified"}, "in_progress")
    \cup Checked(Route("open", {"assign"}, {"open"}, "assigned"))
    \cup Route("open", {"unassign"}, {"assigned", "in_progress"}, "open")
    \cup Route("open", {"resolve"}, {"in_progress"}, "resolved") \cup Route("open", {"verify"}, {"resolved"}, "verified")
    \cup Route("open", {"close"}, {"verified"}, "closed") \cup Route("punchItem.delete", {"delete"}, PunchStatuses, "gone")
Entries(deletion) ==
    Route("open", {"create"}, {"none"}, "there") \cup Route("open", {"edit", "link"}, {"there"}, Keep)
    \cup Route(deletion, {"delete"}, {"there"}, "gone")
ScheduleRoutes == Entries("projectTask.delete") \cup Checked(Route("projectTask.delete", {"unlink"}, {"there"}, Keep))
TaskRoutes == Entries("task.delete")
DailyLogRoutes == Entries("dailyLog.delete")
DocumentRoutes ==
    Route("open", {"create"}, {"none"}, "hidden") \cup Route("clientPortal.manage", {"show"}, {"hidden"}, "visible")
    \cup Route("clientPortal.manage", {"hide"}, {"visible"}, "hidden")
Directory(gate) ==
    Route(gate, {"create"}, {"none"}, "active") \cup Route(gate, {"edit"}, {"active", "inactive"}, Keep)
    \cup Route(gate, {"deactivate"}, {"active"}, "inactive") \cup Route(gate, {"reactivate"}, {"inactive"}, "active")
CustomerRoutes == Directory("customer.manage")
SupplierRoutes == Directory("supplier.manage")
EmployeeRoutes == Directory("workforce.manage")
MemberRoutes == Directory("company.manage")
ProfileRoutes == Route("compliance.manage", {"configure"}, {"none", "configured"}, "configured")
OverrideRoutes ==
    Route("compliance.manage", {"create"}, {"none"}, "active") \cup Route("compliance.manage", {"reset"}, {"active"}, "reset")
EgsRoutes == LET g == "zatca.configure" IN
    Route(g, {"create"}, {"none"}, "not_onboarded") \cup Route(g, {"deactivate"}, EgsStatuses, "deactivated")
    \cup Route(g, {"setCredential"}, {"not_onboarded"}, "onboarding")
    \cup Route(g, {"setCredential"}, EgsStatuses \ {"not_onboarded"}, Keep)
    \cup Route(g, {"clearCredential"}, EgsStatuses, Keep)
Verifiable ==
    Route("laborCompliance.manage", {"create"}, {"none"}, "unverified")
    \cup Route("laborCompliance.manage", {"edit", "attach"}, {"unverified", "verified"}, Keep)
    \cup Checked(Route("laborCompliance.verify", {"verify"}, {"unverified", "verified"}, "verified"))
ExceptionRoutes == LET g == "laborCompliance.manage" IN
    Route(g, {"create"}, {"none"}, "open") \cup Route(g, {"edit"}, {"open"}, "in_progress")
    \cup Route(g, {"resolve"}, {"open", "in_progress"}, "resolved") \cup Route(g, {"close"}, {"resolved"}, "closed")

RoutesOf == [
    ipc |-> IpcRoutes, subIpc |-> SubIpcRoutes, measurement |-> MeasurementRoutes, commitment |-> CommitmentRoutes,
    boq |-> BoqRoutes, contract |-> ContractRoutes, budgetItem |-> BudgetItemRoutes,
    budgetRevision |-> BudgetRevisionRoutes, expense |-> ExpenseRoutes, budgetPanel |-> ExpenseRoutes,
    changeOrder |-> ChangeOrderRoutes, forecast |-> ForecastRoutes, alert |-> AlertRoutes, quote |-> QuoteRoutes,
    invoice |-> InvoiceRoutes, projectInvoice |-> InvoiceRoutes, payroll |-> PayrollRoutes, punch |-> PunchRoutes,
    schedule |-> ScheduleRoutes, task |-> TaskRoutes, dailyLog |-> DailyLogRoutes, document |-> DocumentRoutes,
    customer |-> CustomerRoutes, supplier |-> SupplierRoutes, employee |-> EmployeeRoutes, member |-> MemberRoutes,
    profile |-> ProfileRoutes, override |-> OverrideRoutes, egsUnit |-> EgsRoutes, nitaqat |-> Verifiable,
    gosi |-> Verifiable, exception |-> ExceptionRoutes]

\* Every permission of PERMISSIONS is the owner's.
Permitted(gate, r) == gate = "open" \/ r = "owner"

-----------------------------------------------------------------------------
VARIABLES
  screen,
  state, full,   \* the record on the server: its status, and whether it is complete
  rank,          \* the user's role in the database
  knownRank,       \* the role the client read with /auth/me
  view,          \* what the page shows, <<status, complete>>, or None
  asked,         \* reads sent that the server has not answered
  replies,       \* answers to reads on their way to the page
  deed, phase,   \* each call
  fresh,         \* of each call: has nothing changed between what its page showed and the server's answer?
  lastBy,        \* the call that changed the record last, or None
  muddled,       \* whether calls or reads of the page have overlapped, or a read was lost
  elsewhere      \* changes made by others

record == <<state, full, lastBy>>
page == <<knownRank, view, asked, replies, muddled>>
clickVars == <<deed, phase, fresh>>
screenVars == <<screen, record, rank, page, clickVars, elsewhere>>

Shown == <<state, full>>
RecordStatuses(s) == UNION {r.from : r \in RoutesOf[s]} \cup ({r.into : r \in RoutesOf[s]} \ {Keep})
\* Pages whose load() first empties what they show.
Blanking == Screens \ {"alert", "changeOrder", "budgetPanel", "member", "egsUnit", "profile", "override",
                       "nitaqat", "gosi", "exception", "task", "dailyLog"}

ScreensTypeOK ==
    /\ screen \in Screens /\ state \in RecordStatuses(screen) /\ full \in BOOLEAN
    /\ rank \in {"owner", "member"} /\ knownRank \in {"owner", "member"}
    /\ view \in {None} \cup (RecordStatuses(screen) \X BOOLEAN)
    /\ asked \in Nat /\ replies \subseteq RecordStatuses(screen) \X BOOLEAN
    /\ phase \in [Clicks -> {"idle", "sent", "granted", "refused", "ok", "failed", "lost"}]
    /\ fresh \in [Clicks -> BOOLEAN] /\ lastBy \in Clicks \cup {None}
    /\ muddled \in BOOLEAN /\ elsewhere \in 0..MaxElsewhere

\* The page has just been opened on a record in any status.
ScreensInit ==
    /\ screen \in Screens
    /\ state \in RecordStatuses(screen)
    /\ full = (state \notin {"none", "not_onboarded"})
    /\ rank \in {"owner", "member"} /\ knownRank = rank
    /\ view = None /\ asked = 1 /\ replies = {}
    /\ deed = [c \in Clicks |-> None] /\ phase = [c \in Clicks |-> "idle"] /\ fresh = [c \in Clicks |-> TRUE]
    /\ lastBy = None /\ muddled = FALSE /\ elsewhere = 0

UnderWay == {c \in Clicks : phase[c] \in {"sent", "granted", "refused"}}
Loading == asked > 0 \/ replies # {}

\* Which of the offers of the page can be clicked as it is shown.
Offered == {o \in OffersOf[screen] :
                /\ view # None /\ view[1] \in o.when /\ Permitted(o.gate, knownRank)
                /\ (o.needs => view[2]) /\ (o.lacks => ~view[2])}

Click(c, o) ==
    /\ phase[c] = "idle" /\ o \in Offered
    /\ deed' = [deed EXCEPT ![c] = o.does]
    /\ phase' = [phase EXCEPT ![c] = "sent"]
    /\ fresh' = [fresh EXCEPT ![c] = (view = Shown /\ knownRank = rank)]
    /\ muddled' = (muddled \/ UnderWay # {} \/ Loading)
    /\ UNCHANGED <<screen, record, rank, knownRank, view, asked, replies, elsewhere>>

Grants(d, who) == {r \in RoutesOf[screen] :
    r.does = d /\ state \in r.from /\ (r.needs => full) /\ Permitted(r.gate, who)}

\* What a granted deed does to the record.
Apply(r) ==
    /\ state' = IF r.into = Keep THEN state ELSE r.into
    /\ full' \in CASE r.does \in {"addLine", "attach", "setCredential", "link"} -> {TRUE}
                   [] r.does \in {"deleteLine", "unlink"} -> BOOLEAN
                   [] r.does = "clearCredential" -> {FALSE}
                   [] r.does = "edit" /\ screen \in {"punch", "nitaqat", "gosi"} -> BOOLEAN
                   [] r.does = "create" /\ screen \in {"punch", "nitaqat", "gosi"} -> BOOLEAN
                   [] OTHER -> {full}

Stale(calls) == [c \in Clicks |-> fresh[c] /\ c \notin calls]

Serve(c) ==
    /\ phase[c] = "sent"
    /\ IF Grants(deed[c], rank) = {}
       THEN phase' = [phase EXCEPT ![c] = "refused"] /\ UNCHANGED <<record, fresh>>
       ELSE /\ \E r \in Grants(deed[c], rank) : Apply(r)
            /\ phase' = [phase EXCEPT ![c] = "granted"]
            /\ lastBy' = c
            /\ fresh' = Stale({b \in Clicks : b # c /\ phase[b] = "sent"})
    /\ UNCHANGED <<screen, rank, page, deed, elsewhere>>

\* Calls that add a file to the record: the page reads its list of files, not the record.
AddsFile(c) == deed[c] \in {"attach", "upload"}

\* onToggleVisibility: the document's row becomes what the call answered.
PatchRow(c) ==
    /\ view' = IF view = None THEN None
               ELSE <<IF deed[c] = "show" THEN "visible" ELSE "hidden", view[2]>>
    /\ asked' = asked

\* A reversal reads the postings of the period again, and empties nothing.
Load(c) ==
    /\ asked' = asked + 1
    /\ view' = IF screen \in Blanking /\ deed[c] # "reverse" THEN None ELSE view

\* Mutant: the page does not read again.
SucceedWithoutLoad(c) ==
    /\ phase[c] = "granted"
    /\ phase' = [phase EXCEPT ![c] = "ok"]
    /\ UNCHANGED <<screen, record, rank, page, deed, fresh, elsewhere>>

Succeed(c) ==
    /\ phase[c] = "granted"
    /\ phase' = [phase EXCEPT ![c] = "ok"]
    /\ muddled' = (muddled \/ Loading)
    /\ CASE AddsFile(c) -> UNCHANGED <<view, asked>>
         [] screen = "document" /\ deed[c] \in {"show", "hide"} -> PatchRow(c)
         [] OTHER -> Load(c)
    /\ UNCHANGED <<screen, record, rank, knownRank, replies, deed, fresh, elsewhere>>

\* setError: the page goes on showing what it had.
ShowRefusal(c) ==
    /\ phase[c] = "refused"
    /\ phase' = [phase EXCEPT ![c] = "failed"]
    /\ UNCHANGED <<screen, record, rank, page, deed, fresh, elsewhere>>

\* The answer is lost, which the page shows as an error like any other.
LoseAnswer(c) ==
    /\ phase[c] \in {"granted", "refused"}
    /\ phase' = [phase EXCEPT ![c] = "lost"]
    /\ UNCHANGED <<screen, record, rank, page, deed, fresh, elsewhere>>

AnswerRead ==
    /\ asked > 0
    /\ asked' = asked - 1
    /\ replies' = replies \cup {Shown}
    /\ UNCHANGED <<screen, record, rank, knownRank, view, muddled, clickVars, elsewhere>>

ReceiveRead(v) ==
    /\ v \in replies
    /\ replies' = replies \ {v}
    /\ view' = v
    /\ UNCHANGED <<screen, record, rank, knownRank, asked, muddled, clickVars, elsewhere>>

LoseRead ==
    /\ asked > 0
    /\ asked' = asked - 1
    /\ muddled' = TRUE
    /\ UNCHANGED <<screen, record, rank, knownRank, view, replies, clickVars, elsewhere>>

\* The user opens the page anew: the client reads /auth/me and the record.
OpenPage ==
    /\ UnderWay = {} /\ ~Loading
    /\ knownRank' = rank /\ view' = None /\ asked' = 1 /\ muddled' = FALSE
    /\ UNCHANGED <<screen, record, rank, replies, clickVars, elsewhere>>

\* Another owner, another page or a public link acts on the record.
OtherActs(r) ==
    /\ elsewhere < MaxElsewhere /\ r \in Grants(r.does, "owner")
    /\ Apply(r)
    /\ lastBy' = None
    /\ fresh' = Stale({c \in Clicks : phase[c] = "sent"})
    /\ elsewhere' = elsewhere + 1
    /\ UNCHANGED <<screen, rank, page, deed, phase>>

ChangeRank ==
    /\ elsewhere < MaxElsewhere
    /\ rank' = IF rank = "owner" THEN "member" ELSE "owner"
    /\ fresh' = Stale({c \in Clicks : phase[c] = "sent"})
    /\ elsewhere' = elsewhere + 1
    /\ UNCHANGED <<screen, record, page, deed, phase>>

ScreensNext ==
    \/ \E c \in Clicks : \/ \E o \in OffersOf[screen] : Click(c, o)
                         \/ Serve(c) \/ Succeed(c) \/ ShowRefusal(c) \/ LoseAnswer(c)
    \/ AnswerRead \/ LoseRead \/ OpenPage \/ ChangeRank
    \/ \E v \in replies : ReceiveRead(v)
    \/ \E r \in RoutesOf[screen] : OtherActs(r)

ScreensSpec == ScreensInit /\ [][ScreensNext]_screenVars

-----------------------------------------------------------------------------
\* What a page offers without looking at what the route looks at: a permission (the page of all
\* invoices, the quotes, the change orders, the documents, the assignment of budget items, the GOSI
\* fields), an incomplete record, or a status (an item of an approved budget, a posted expense).
Careless == {<<"invoice", "send">>, <<"invoice", "pay">>, <<"quote", "send">>,
             <<"changeOrder", "approve">>, <<"changeOrder", "reject">>,
             <<"document", "show">>, <<"document", "hide">>, <<"budgetRevision", "assign">>,
             <<"gosi", "edit">>, <<"commitment", "submit">>, <<"payroll", "submit">>, <<"punch", "assign">>,
             <<"nitaqat", "verify">>, <<"gosi", "verify">>, <<"budgetItem", "edit">>,
             <<"budgetItem", "delete">>, <<"expense", "delete">>}

(***************************************************************************)
(* The pages offer what the server grants: a call is refused only if the   *)
(* record or the user's role changed after the page read them, except for  *)
(* the controls listed in Careless (auth/permissions.ts: hiding an action  *)
(* avoids showing a control the backend would reject anyway).              *)
(***************************************************************************)
UpToDateOffersAccepted ==
    \A c \in Clicks : phase[c] \in {"refused", "failed"} /\ fresh[c] => <<screen, deed[c]>> \in Careless

(***************************************************************************)
(* A page that does one thing at a time shows what it did: when nothing is *)
(* under way and the last change of the record was a call of this page     *)
(* that it was told succeeded, it shows the record as it is, unless that   *)
(* call has added a file.                                                  *)
(***************************************************************************)
ShowsWhatItDid ==
    \A c \in Clicks :
        lastBy = c /\ phase[c] = "ok" /\ ~AddsFile(c) /\ UnderWay = {} /\ ~Loading /\ ~muddled /\ view # None =>
            view = Shown

=============================================================================
