---------------------------- MODULE ScreenOffers ----------------------------
(***************************************************************************)
(* What the pages of the web client offer their user about one record      *)
(* (client/src/pages, project/sections, components): each component gives  *)
(* the statuses in which it shows a control, whether the control waits for *)
(* the record to be complete (to have lines) or goes when it is (has its   *)
(* credential), and the permission of the <Can> around it, "open" when     *)
(* there is none.  A "none" record is not there yet; how a component lays  *)
(* out the record is left out.                                             *)
(***************************************************************************)

Offer(gate, deeds, when) ==
    {[does |-> d, when |-> when, needs |-> FALSE, lacks |-> FALSE, gate |-> gate] : d \in deeds}
Completed(offers) == {[o EXCEPT !.needs = TRUE] : o \in offers}
Lacking(offers) == {[o EXCEPT !.lacks = TRUE] : o \in offers}

Editable == {"draft", "rejected"}
NotThere == {"none"}

-----------------------------------------------------------------------------
(* A project's certificates, measurements and commitments.                 *)

IpcCreate == Offer("ipc.manage", {"create"}, NotThere)
\* Mutant: approving is offered as soon as the certificate is a draft.
IpcDetailTooEarly ==
    Completed(Offer("ipc.manage", {"submit"}, Editable))
    \cup Offer("ipc.manage", {"approve"}, {"draft", "submitted"}) \cup Offer("ipc.manage", {"certify"}, {"approved"})
IpcDetail ==
    Completed(Offer("ipc.manage", {"submit"}, Editable))
    \cup Offer("ipc.manage", {"approve"}, {"submitted"}) \cup Offer("ipc.manage", {"certify"}, {"approved"})
IpcForms ==
    Offer("ipc.manage", {"addLine"}, Editable) \cup Completed(Offer("ipc.manage", {"deleteLine"}, Editable))
    \cup Offer("ipc.manage", {"reject"}, {"submitted"})

SubIpcCreate == Offer("subcontractIpc.manage", {"create"}, NotThere)
SubIpcDetail ==
    Completed(Offer("subcontractIpc.manage", {"submit"}, Editable))
    \cup Offer("subcontractIpc.manage", {"approve"}, {"submitted"})
    \cup Offer("subcontractIpc.manage", {"certify"}, {"approved"})
SubIpcForms ==
    Offer("subcontractIpc.manage", {"addLine"}, Editable)
    \cup Completed(Offer("subcontractIpc.manage", {"deleteLine"}, Editable))
    \cup Offer("subcontractIpc.manage", {"reject"}, {"submitted"})
SubIpcEvidence ==
    Offer("subcontractIpc.manage", {"upload"}, {"draft", "submitted", "rejected", "approved", "certified"})

MeasurementCreate == Offer("open", {"create"}, NotThere)
MeasurementDetail ==
    Completed(Offer("open", {"submit"}, Editable)) \cup Offer("measurement.approve", {"approve"}, {"submitted"})
MeasurementForms ==
    Offer("open", {"addLine"}, Editable) \cup Completed(Offer("open", {"deleteLine"}, Editable))
    \cup Offer("measurement.approve", {"reject"}, {"submitted"})

CommitmentCreate == Offer("commitment.manage", {"create"}, NotThere)
CommitmentDetail ==
    Offer("commitment.manage", {"submit"}, {"draft"}) \cup Offer("commitment.manage", {"approve"}, {"pending_approval"})
    \cup Offer("commitment.manage", {"cancel"}, {"draft", "pending_approval"})
CommitmentTerms ==
    Offer("commitment.manage", {"changeTerms"}, {"draft"}) \cup Completed(Offer("commitment.manage", {"deleteLine"}, {"draft"}))
CommitmentLine == Offer("commitment.manage", {"addLine"}, {"draft"})
CommitmentAmend == Offer("commitment.manage", {"amend"}, {"active", "partially_fulfilled"})

BoqCreate == Offer("boq.manage", {"create"}, NotThere)
BoqDetail ==
    Offer("boq.manage", {"publish"}, {"draft"}) \cup Completed(Offer("boq.manage", {"deleteLine"}, {"draft"}))
BoqItem == Offer("boq.manage", {"addLine"}, {"draft"})

ContractList == Offer("contract.manage", {"create"}, NotThere)
ContractDetail == Offer("contract.manage", {"amend"}, {"main"})

-----------------------------------------------------------------------------
(* Budgets, costs and change orders.                                       *)

BudgetItemNew == Offer("budget.manage", {"create"}, NotThere)
BudgetItemRow == Offer("budget.manage", {"edit", "delete"}, {"free", "approved"})
BudgetRevisions == Offer("budgetRevision.manage", {"create"}, NotThere)
BudgetRevision == Offer("budgetRevision.manage", {"approve"}, {"draft"})
AssignItem == Offer("open", {"assign"}, {"draft"})
ExpenseNew == Offer("budget.manage", {"create"}, NotThere)
ExpenseRow == Offer("budget.manage", {"delete"}, {"entered", "posted"})
BudgetPanel == Offer("budget.manage", {"create"}, NotThere)
ChangeOrdersPanel == Offer("open", {"create"}, NotThere) \cup Offer("open", {"approve", "reject"}, {"pending"})
ForecastSnapshot == Offer("forecast.manage", {"create"}, NotThere)
AlertList == Offer("open", {"create"}, NotThere)
AlertDetail ==
    Offer("budgetAlert.manage", {"acknowledge"}, {"open"})
    \cup Offer("budgetAlert.manage", {"resolve"}, {"open", "acknowledged"})

-----------------------------------------------------------------------------
(* Quotes and invoices; the page of all invoices and a project's.          *)

QuotesPage == Offer("open", {"create"}, NotThere)
QuoteRow == Offer("open", {"send"}, {"draft"}) \cup Offer("open", {"convert"}, {"accepted"})
InvoicesPage ==
    Offer("open", {"create"}, NotThere) \cup Offer("open", {"send"}, {"draft"}) \cup Offer("open", {"pay"}, {"sent"})
ProjectInvoices ==
    Offer("open", {"create"}, NotThere) \cup Offer("invoice.send", {"send"}, {"draft"})
    \cup Offer("invoice.markPaid", {"pay"}, {"sent"})

-----------------------------------------------------------------------------
(* Payroll.                                                                *)

PayrollList == Offer("payroll.manage", {"create"}, NotThere)
PeriodHeader ==
    Offer("payroll.manage", {"submit"}, Editable) \cup Offer("payroll.manage", {"approve", "reject"}, {"submitted"})
PeriodRecords == Offer("payroll.manage", {"addLine"}, Editable)
RecordRow == Completed(Offer("payroll.manage", {"editLine"}, Editable))
PostAction == Completed(Offer("payroll.post", {"post"}, {"approved"}))
PostedSummary == Offer("payroll.post", {"reverse"}, {"posted"})
LaborAllocationPage == Completed(Offer("payroll.manage", {"allocate"}, Editable))
AllocationRow == Completed(Offer("payroll.manage", {"reallocate", "unallocate"}, Editable))

-----------------------------------------------------------------------------
(* The site.                                                               *)

PunchList == Offer("open", {"create"}, NotThere)
StatusActions ==
    Offer("open", {"start"}, {"open", "assigned"}) \cup Offer("open", {"assign"}, {"open"})
    \cup Offer("open", {"resolve"}, {"in_progress"}) \cup Offer("open", {"verify"}, {"resolved"})
    \cup Offer("open", {"close"}, {"verified"}) \cup Offer("open", {"reopen"}, {"resolved", "verified"})
PunchStatuses == {"open", "assigned", "in_progress", "resolved", "verified", "closed"}
PunchDetail == Offer("punchItem.delete", {"delete"}, PunchStatuses)
PunchForm == Offer("open", {"edit"}, PunchStatuses)
GanttChart == Offer("open", {"edit"}, {"there"}) \cup Offer("projectTask.delete", {"delete"}, {"there"})
ScheduleTaskForm == Offer("open", {"create"}, NotThere)
DependenciesPanel == Offer("open", {"link"}, {"there"}) \cup Completed(Offer("projectTask.delete", {"unlink"}, {"there"}))
TaskPanel ==
    Offer("open", {"create"}, NotThere) \cup Offer("open", {"edit"}, {"there"})
    \cup Offer("task.delete", {"delete"}, {"there"})
DailyLogsPanel == Offer("open", {"create"}, NotThere) \cup Offer("dailyLog.delete", {"delete"}, {"there"})
DocumentsPage == Offer("open", {"create"}, NotThere) \cup Offer("open", {"show"}, {"hidden"}) \cup Offer("open", {"hide"}, {"visible"})

-----------------------------------------------------------------------------
(* The directories, the team and the settings.                             *)

Switch(gate) ==
    Offer(gate, {"edit"}, {"active", "inactive"}) \cup Offer(gate, {"deactivate"}, {"active"})
    \cup Offer(gate, {"reactivate"}, {"inactive"})
CustomerForm == Offer("customer.manage", {"create"}, NotThere)
CustomerRow == Switch("customer.manage")
SupplierForm == Offer("supplier.manage", {"create"}, NotThere)
SupplierRow == Switch("supplier.manage")
EmployeeForm == Offer("workforce.manage", {"create"}, NotThere)
EmployeeRow == Switch("workforce.manage")
MemberRow == Switch("company.manage")
ProfileTab == Offer("compliance.manage", {"configure"}, {"none", "configured"})
OverrideForm == Offer("compliance.manage", {"create"}, NotThere)
OverridesTab == Offer("compliance.manage", {"reset"}, {"active"})
EgsUnitForm == Offer("zatca.configure", {"create"}, NotThere)
EgsStatuses == {"not_onboarded", "onboarding", "active", "deactivated"}
EgsUnitRow ==
    Offer("zatca.configure", {"deactivate"}, EgsStatuses \ {"deactivated"})
    \cup Completed(Offer("zatca.configure", {"clearCredential"}, EgsStatuses))
CredentialModal == Lacking(Offer("zatca.configure", {"setCredential"}, EgsStatuses))

-----------------------------------------------------------------------------
(* Labour compliance.                                                      *)

Unverified == {"unverified"}
NitaqatTab == Offer("laborCompliance.manage", {"create"}, NotThere)
NitaqatDetail ==
    Offer("laborCompliance.verify", {"verify"}, Unverified)
    \cup Offer("laborCompliance.manage", {"attach"}, {"unverified", "verified"})
GosiTab == Offer("laborCompliance.manage", {"create"}, NotThere)
GosiDetail == NitaqatDetail \cup Offer("open", {"edit"}, Unverified)
ExceptionsTab ==
    Offer("laborCompliance.manage", {"create"}, NotThere)
    \cup Offer("laborCompliance.manage", {"resolve"}, {"open", "in_progress"})
    \cup Offer("laborCompliance.manage", {"close"}, {"resolved"})

-----------------------------------------------------------------------------
\* The screens, and what each offers.
OffersOf == [
    ipc |-> IpcCreate \cup IpcDetail \cup IpcForms,
    subIpc |-> SubIpcCreate \cup SubIpcDetail \cup SubIpcForms \cup SubIpcEvidence,
    measurement |-> MeasurementCreate \cup MeasurementDetail \cup MeasurementForms,
    commitment |-> CommitmentCreate \cup CommitmentDetail \cup CommitmentTerms \cup CommitmentLine \cup CommitmentAmend,
    boq |-> BoqCreate \cup BoqDetail \cup BoqItem,
    contract |-> ContractList \cup ContractDetail,
    budgetItem |-> BudgetItemNew \cup BudgetItemRow,
    budgetRevision |-> BudgetRevisions \cup BudgetRevision \cup AssignItem,
    expense |-> ExpenseNew \cup ExpenseRow,
    budgetPanel |-> BudgetPanel,
    changeOrder |-> ChangeOrdersPanel,
    forecast |-> ForecastSnapshot,
    alert |-> AlertList \cup AlertDetail,
    quote |-> QuotesPage \cup QuoteRow,
    invoice |-> InvoicesPage,
    projectInvoice |-> ProjectInvoices,
    payroll |-> PayrollList \cup PeriodHeader \cup PeriodRecords \cup RecordRow \cup PostAction \cup PostedSummary
                \cup LaborAllocationPage \cup AllocationRow,
    punch |-> PunchList \cup StatusActions \cup PunchDetail \cup PunchForm,
    schedule |-> GanttChart \cup ScheduleTaskForm \cup DependenciesPanel,
    task |-> TaskPanel,
    dailyLog |-> DailyLogsPanel,
    document |-> DocumentsPage,
    customer |-> CustomerForm \cup CustomerRow,
    supplier |-> SupplierForm \cup SupplierRow,
    employee |-> EmployeeForm \cup EmployeeRow,
    member |-> MemberRow,
    profile |-> ProfileTab,
    override |-> OverrideForm \cup OverridesTab,
    egsUnit |-> EgsUnitForm \cup EgsUnitRow \cup CredentialModal,
    nitaqat |-> NitaqatTab \cup NitaqatDetail,
    gosi |-> GosiTab \cup GosiDetail,
    exception |-> ExceptionsTab]


Screens == DOMAIN OffersOf
=============================================================================
