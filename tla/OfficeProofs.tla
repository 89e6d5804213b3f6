---------------------------- MODULE OfficeProofs ----------------------------
(***************************************************************************)
(* Proofs about TenantTransfer, ClientForms and ClientScreens, for every   *)
(* foreign key of the schema, every form and every page, and any number of *)
(* requests, calls, attempts and bodies.                                   *)
(*                                                                         *)
(* The tables of the code (the order of the tables of a company, what the  *)
(* pages offer and what the routes accept) are long constants: the lemmas  *)
(* about them go through them group by group and page by page.             *)
(***************************************************************************)
EXTENDS TenantTransfer, ClientForms, ClientScreens, FiniteSetTheorems, TLAPS

-----------------------------------------------------------------------------
(* The order of the tables.                                                *)

\* The sixty-one tables stand once each in the list, the company's not at all.
LEMMA ListedOnce ==
  /\ DOMAIN TableOrder = 1..61 /\ TableCount = 61
  /\ \A i, j \in 1..61 : TableOrder[i] = TableOrder[j] => i = j
  /\ \A i \in 1..61 : TableOrder[i] # "companies"
<1>1. DOMAIN TableOrder = 1..61 /\ TableCount = 61
  BY DEF TableOrder, TableCount
<1>2. \A i, j \in 1..61 : TableOrder[i] = TableOrder[j] => i = j
  BY DEF TableOrder
<1>3. \A i \in 1..61 : TableOrder[i] # "companies"
  BY DEF TableOrder
<1> QED  BY <1>1, <1>2, <1>3

\* A table's place in the list.
LEMMA PlacedByList ==
  /\ DOMAIN Place = Exported /\ Place["companies"] = 0
  /\ \A i \in 1..61 : TableOrder[i] \in Exported /\ Place[TableOrder[i]] = i
  /\ \A t \in Exported \ {"companies"} : Place[t] \in 1..61 /\ TableOrder[Place[t]] = t
<1>1. Exported = {TableOrder[i] : i \in 1..61} \cup {"companies"}
  BY ListedOnce DEF Exported, Range
<1>2. \A i \in 1..61 : Place[TableOrder[i]] = i
  <2> SUFFICES ASSUME NEW i \in 1..61 PROVE Place[TableOrder[i]] = i
    OBVIOUS
  <2>1. Place[TableOrder[i]] = CHOOSE j \in 1..61 : TableOrder[j] = TableOrder[i]
    BY <1>1, ListedOnce DEF Place
  <2> QED  BY <2>1, ListedOnce
<1> QED  BY <1>1, <1>2 DEF Place

\* All of them.
LEMMA Places ==
  /\ "companies" \in Exported /\ Place["companies"] = 0
  /\ "users" \in Exported /\ Place["users"] = 1
  /\ "audit_events" \in Exported /\ Place["audit_events"] = 2
  /\ "customers" \in Exported /\ Place["customers"] = 3
  /\ "projects" \in Exported /\ Place["projects"] = 4
  /\ "cost_codes" \in Exported /\ Place["cost_codes"] = 5
  /\ "contracts" \in Exported /\ Place["contracts"] = 6
  /\ "boq_revisions" \in Exported /\ Place["boq_revisions"] = 7
  /\ "boq_items" \in Exported /\ Place["boq_items"] = 8
  /\ "budget_alerts" \in Exported /\ Place["budget_alerts"] = 9
  /\ "budget_revisions" \in Exported /\ Place["budget_revisions"] = 10
  /\ "budget_items" \in Exported /\ Place["budget_items"] = 11
  /\ "change_orders" \in Exported /\ Place["change_orders"] = 12
  /\ "client_portal_users" \in Exported /\ Place["client_portal_users"] = 13
  /\ "client_project_access" \in Exported /\ Place["client_project_access"] = 14
  /\ "suppliers" \in Exported /\ Place["suppliers"] = 15
  /\ "commitments" \in Exported /\ Place["commitments"] = 16
  /\ "commitment_lines" \in Exported /\ Place["commitment_lines"] = 17
  /\ "company_compliance_profiles" \in Exported /\ Place["company_compliance_profiles"] = 18
  /\ "company_feature_flag_overrides" \in Exported /\ Place["company_feature_flag_overrides"] = 19
  /\ "company_invites" \in Exported /\ Place["company_invites"] = 20
  /\ "company_tax_identifiers" \in Exported /\ Place["company_tax_identifiers"] = 21
  /\ "company_tax_overrides" \in Exported /\ Place["company_tax_overrides"] = 22
  /\ "compliance_audit_events" \in Exported /\ Place["compliance_audit_events"] = 23
  /\ "compliance_periods" \in Exported /\ Place["compliance_periods"] = 24
  /\ "compliance_exceptions" \in Exported /\ Place["compliance_exceptions"] = 25
  /\ "compliance_workforce_snapshots" \in Exported /\ Place["compliance_workforce_snapshots"] = 26
  /\ "daily_logs" \in Exported /\ Place["daily_logs"] = 27
  /\ "employees" \in Exported /\ Place["employees"] = 28
  /\ "expenses" \in Exported /\ Place["expenses"] = 29
  /\ "files" \in Exported /\ Place["files"] = 30
  /\ "forecast_snapshots" \in Exported /\ Place["forecast_snapshots"] = 31
  /\ "gosi_compliance_records" \in Exported /\ Place["gosi_compliance_records"] = 32
  /\ "quotes" \in Exported /\ Place["quotes"] = 33
  /\ "invoices" \in Exported /\ Place["invoices"] = 34
  /\ "invoice_items" \in Exported /\ Place["invoice_items"] = 35
  /\ "ipcs" \in Exported /\ Place["ipcs"] = 36
  /\ "ipc_lines" \in Exported /\ Place["ipc_lines"] = 37
  /\ "payroll_periods" \in Exported /\ Place["payroll_periods"] = 38
  /\ "payroll_import_batches" \in Exported /\ Place["payroll_import_batches"] = 39
  /\ "payroll_records" \in Exported /\ Place["payroll_records"] = 40
  /\ "labor_allocations" \in Exported /\ Place["labor_allocations"] = 41
  /\ "labor_cost_postings" \in Exported /\ Place["labor_cost_postings"] = 42
  /\ "measurements" \in Exported /\ Place["measurements"] = 43
  /\ "measurement_lines" \in Exported /\ Place["measurement_lines"] = 44
  /\ "nitaqat_compliance_records" \in Exported /\ Place["nitaqat_compliance_records"] = 45
  /\ "notifications" \in Exported /\ Place["notifications"] = 46
  /\ "payroll_import_rows" \in Exported /\ Place["payroll_import_rows"] = 47
  /\ "project_punch_items" \in Exported /\ Place["project_punch_items"] = 48
  /\ "project_tasks" \in Exported /\ Place["project_tasks"] = 49
  /\ "project_task_dependencies" \in Exported /\ Place["project_task_dependencies"] = 50
  /\ "quote_items" \in Exported /\ Place["quote_items"] = 51
  /\ "subcontract_ipcs" \in Exported /\ Place["subcontract_ipcs"] = 52
  /\ "subcontract_ipc_lines" \in Exported /\ Place["subcontract_ipc_lines"] = 53
  /\ "tasks" \in Exported /\ Place["tasks"] = 54
  /\ "zatca_egs_units" \in Exported /\ Place["zatca_egs_units"] = 55
  /\ "zatca_csr_instances" \in Exported /\ Place["zatca_csr_instances"] = 56
  /\ "zatca_compliance_lifecycles" \in Exported /\ Place["zatca_compliance_lifecycles"] = 57
  /\ "zatca_compliance_attempts" \in Exported /\ Place["zatca_compliance_attempts"] = 58
  /\ "zatca_icv_counters" \in Exported /\ Place["zatca_icv_counters"] = 59
  /\ "zatca_provider_operations" \in Exported /\ Place["zatca_provider_operations"] = 60
  /\ "zatca_submissions" \in Exported /\ Place["zatca_submissions"] = 61
<1>1. "companies" \in Exported
  BY DEF Exported
<1> QED  BY <1>1, PlacedByList DEF TableOrder

\* A reference that the order of the tables lets through: to a table of the platform, or to an earlier one.
Earlier(r, t) == r \in Platform \/ (r \in Exported /\ (r = t \/ Place[r] < Place[t]))
RowOrdered(row, t) == \A r \in row.owners \cup row.cites \cup row.detaches : Earlier(r, t)
Ordered(tables) == \A t \in DOMAIN tables \cap Exported : RowOrdered(tables[t], t)

\* What a row of the schema references.
LEMMA RowReferences ==
  ASSUME NEW O, NEW C, NEW D
  PROVE  /\ Row(O, C, D).owners = O /\ Row(O, C, D).cites = C /\ Row(O, C, D).detaches = D
         /\ Keyed(Row(O, C, D)).owners = O /\ Keyed(Row(O, C, D)).cites = C /\ Keyed(Row(O, C, D)).detaches = D
  BY DEF Row, Keyed

\* What is not exported.
LEMMA NotExported == Exported \cap {"plans", "user_sessions", "password_reset_tokens",
    "compliance_rule_versions", "idempotency_keys", "client_portal_sessions", "platform_operators",
    "platform_operator_sessions", "feature_flags", "support_sessions", "incidents"} = {}
  BY ListedOnce DEF Exported, Range, TableOrder

\* AccountTables.
LEMMA AccountTablesOrdered == Ordered(AccountTables)
<1>1. /\ Earlier("plans", "companies")
      /\ Earlier("companies", "users")
      /\ Earlier("companies", "projects")
      /\ Earlier("customers", "projects")
  BY Places DEF Earlier, Platform
<1>2. /\ RowOrdered(AccountTables["companies"], "companies")
      /\ RowOrdered(AccountTables["users"], "users")
      /\ RowOrdered(AccountTables["projects"], "projects")
  BY <1>1, RowReferences DEF AccountTables, RowOrdered
<1> QED  BY <1>2, NotExported DEF AccountTables, Ordered

\* SiteTables.
LEMMA SiteTablesOrdered == Ordered(SiteTables)
<1>1. /\ Earlier("projects", "budget_items")
      /\ Earlier("cost_codes", "budget_items")
      /\ Earlier("boq_items", "budget_items")
      /\ Earlier("budget_revisions", "budget_items")
      /\ Earlier("projects", "expenses")
      /\ Earlier("cost_codes", "expenses")
      /\ Earlier("budget_items", "expenses")
      /\ Earlier("projects", "tasks")
      /\ Earlier("projects", "change_orders")
      /\ Earlier("projects", "daily_logs")
  BY Places DEF Earlier, Platform
<1>2. /\ RowOrdered(SiteTables["budget_items"], "budget_items")
      /\ RowOrdered(SiteTables["expenses"], "expenses")
      /\ RowOrdered(SiteTables["tasks"], "tasks")
      /\ RowOrdered(SiteTables["change_orders"], "change_orders")
      /\ RowOrdered(SiteTables["daily_logs"], "daily_logs")
  BY <1>1, RowReferences DEF SiteTables, RowOrdered
<1> QED  BY <1>2, NotExported DEF SiteTables, Ordered

\* SalesTables.
LEMMA SalesTablesOrdered == Ordered(SalesTables)
<1>1. /\ Earlier("companies", "company_invites")
      /\ Earlier("companies", "quotes")
      /\ Earlier("compliance_rule_versions", "quotes")
      /\ Earlier("company_tax_overrides", "quotes")
      /\ Earlier("quotes", "quote_items")
      /\ Earlier("companies", "invoices")
      /\ Earlier("compliance_rule_versions", "invoices")
      /\ Earlier("company_tax_overrides", "invoices")
      /\ Earlier("quotes", "invoices")
      /\ Earlier("projects", "invoices")
      /\ Earlier("contracts", "invoices")
  BY Places DEF Earlier, Platform
<1>2. /\ RowOrdered(SalesTables["company_invites"], "company_invites")
      /\ RowOrdered(SalesTables["quotes"], "quotes")
      /\ RowOrdered(SalesTables["quote_items"], "quote_items")
      /\ RowOrdered(SalesTables["invoices"], "invoices")
  BY <1>1, RowReferences DEF SalesTables, RowOrdered
<1> QED  BY <1>2 DEF SalesTables, Ordered

\* TaxTables.
LEMMA TaxTablesOrdered == Ordered(TaxTables)
<1>1. /\ Earlier("invoices", "invoice_items")
      /\ Earlier("companies", "company_compliance_profiles")
      /\ Earlier("compliance_rule_versions", "company_compliance_profiles")
      /\ Earlier("companies", "company_tax_overrides")
      /\ Earlier("compliance_rule_versions", "company_tax_overrides")
      /\ Earlier("users", "company_tax_overrides")
  BY Places DEF Earlier, Platform
<1>2. /\ RowOrdered(TaxTables["invoice_items"], "invoice_items")
      /\ RowOrdered(TaxTables["company_compliance_profiles"], "company_compliance_profiles")
      /\ RowOrdered(TaxTables["company_tax_overrides"], "company_tax_overrides")
  BY <1>1, RowReferences DEF TaxTables, RowOrdered
<1> QED  BY <1>2, NotExported DEF TaxTables, Ordered

\* TaxRecordTables.
LEMMA TaxRecordTablesOrdered == Ordered(TaxRecordTables)
<1>1. /\ Earlier("companies", "compliance_audit_events")
      /\ Earlier("compliance_rule_versions", "compliance_audit_events")
      /\ Earlier("users", "compliance_audit_events")
      /\ Earlier("companies", "company_tax_identifiers")
  BY Places DEF Earlier, Platform
<1>2. /\ RowOrdered(TaxRecordTables["compliance_audit_events"], "compliance_audit_events")
      /\ RowOrdered(TaxRecordTables["company_tax_identifiers"], "company_tax_identifiers")
  BY <1>1, RowReferences DEF TaxRecordTables, RowOrdered
<1> QED  BY <1>2 DEF TaxRecordTables, Ordered

\* ContractTables.
LEMMA ContractTablesOrdered == Ordered(ContractTables)
<1>1. /\ Earlier("companies", "cost_codes")
      /\ Earlier("projects", "cost_codes")
      /\ Earlier("cost_codes", "cost_codes")
      /\ Earlier("companies", "contracts")
      /\ Earlier("projects", "contracts")
      /\ Earlier("contracts", "contracts")
      /\ Earlier("users", "contracts")
      /\ Earlier("companies", "boq_revisions")
      /\ Earlier("projects", "boq_revisions")
      /\ Earlier("contracts", "boq_revisions")
      /\ Earlier("boq_revisions", "boq_revisions")
      /\ Earlier("users", "boq_revisions")
  BY Places DEF Earlier, Platform
<1>2. /\ RowOrdered(ContractTables["cost_codes"], "cost_codes")
      /\ RowOrdered(ContractTables["contracts"], "contracts")
      /\ RowOrdered(ContractTables["boq_revisions"], "boq_revisions")
  BY <1>1, RowReferences DEF ContractTables, RowOrdered
<1> QED  BY <1>2 DEF ContractTables, Ordered

\* BoqTables.
LEMMA BoqTablesOrdered == Ordered(BoqTables)
<1>1. /\ Earlier("boq_revisions", "boq_items")
      /\ Earlier("boq_items", "boq_items")
      /\ Earlier("cost_codes", "boq_items")
      /\ Earlier("companies", "budget_revisions")
      /\ Earlier("projects", "budget_revisions")
      /\ Earlier("users", "budget_revisions")
      /\ Earlier("companies", "audit_events")
      /\ Earlier("users", "audit_events")
  BY Places DEF Earlier, Platform
<1>2. /\ RowOrdered(BoqTables["boq_items"], "boq_items")
      /\ RowOrdered(BoqTables["budget_revisions"], "budget_revisions")
      /\ RowOrdered(BoqTables["audit_events"], "audit_events")
  BY <1>1, RowReferences DEF BoqTables, RowOrdered
<1> QED  BY <1>2 DEF BoqTables, Ordered

\* FileTables.
LEMMA FileTablesOrdered == Ordered(FileTables)
<1>1. /\ Earlier("companies", "files")
      /\ Earlier("users", "files")
      /\ Earlier("files", "files")
  BY Places DEF Earlier, Platform
<1>2. /\ RowOrdered(FileTables["files"], "files")
  BY <1>1, RowReferences DEF FileTables, RowOrdered
<1> QED  BY <1>2, NotExported DEF FileTables, Ordered

\* DirectoryTables.
LEMMA DirectoryTablesOrdered == Ordered(DirectoryTables)
<1>1. /\ Earlier("companies", "notifications")
      /\ Earlier("users", "notifications")
      /\ Earlier("companies", "suppliers")
      /\ Earlier("users", "suppliers")
  BY Places DEF Earlier, Platform
<1>2. /\ RowOrdered(DirectoryTables["notifications"], "notifications")
      /\ RowOrdered(DirectoryTables["suppliers"], "suppliers")
  BY <1>1, RowReferences DEF DirectoryTables, RowOrdered
<1> QED  BY <1>2 DEF DirectoryTables, Ordered

\* CommitmentTables.
LEMMA CommitmentTablesOrdered == Ordered(CommitmentTables)
<1>1. /\ Earlier("companies", "commitments")
      /\ Earlier("projects", "commitments")
      /\ Earlier("contracts", "commitments")
      /\ Earlier("suppliers", "commitments")
      /\ Earlier("users", "commitments")
      /\ Earlier("companies", "commitment_lines")
      /\ Earlier("commitments", "commitment_lines")
      /\ Earlier("cost_codes", "commitment_lines")
      /\ Earlier("boq_items", "commitment_lines")
      /\ Earlier("companies", "customers")
      /\ Earlier("users", "customers")
  BY Places DEF Earlier, Platform
<1>2. /\ RowOrdered(CommitmentTables["commitments"], "commitments")
      /\ RowOrdered(CommitmentTables["commitment_lines"], "commitment_lines")
      /\ RowOrdered(CommitmentTables["customers"], "customers")
  BY <1>1, RowReferences DEF CommitmentTables, RowOrdered
<1> QED  BY <1>2 DEF CommitmentTables, Ordered

\* PortalTables.
LEMMA PortalTablesOrdered == Ordered(PortalTables)
<1>1. /\ Earlier("companies", "client_portal_users")
      /\ Earlier("users", "client_portal_users")
      /\ Earlier("customers", "client_portal_users")
      /\ Earlier("companies", "client_project_access")
      /\ Earlier("client_portal_users", "client_project_access")
      /\ Earlier("projects", "client_project_access")
      /\ Earlier("users", "client_project_access")
  BY Places DEF Earlier, Platform
<1>2. /\ RowOrdered(PortalTables["client_portal_users"], "client_portal_users")
      /\ RowOrdered(PortalTables["client_project_access"], "client_project_access")
  BY <1>1, RowReferences DEF PortalTables, RowOrdered
<1> QED  BY <1>2, NotExported DEF PortalTables, Ordered

\* MeasurementTables.
LEMMA MeasurementTablesOrdered == Ordered(MeasurementTables)
<1>1. /\ Earlier("companies", "measurements")
      /\ Earlier("projects", "measurements")
      /\ Earlier("contracts", "measurements")
      /\ Earlier("boq_revisions", "measurements")
      /\ Earlier("users", "measurements")
      /\ Earlier("companies", "measurement_lines")
      /\ Earlier("measurements", "measurement_lines")
      /\ Earlier("boq_items", "measurement_lines")
  BY Places DEF Earlier, Platform
<1>2. /\ RowOrdered(MeasurementTables["measurements"], "measurements")
      /\ RowOrdered(MeasurementTables["measurement_lines"], "measurement_lines")
  BY <1>1, RowReferences DEF MeasurementTables, RowOrdered
<1> QED  BY <1>2 DEF MeasurementTables, Ordered

\* IpcTables.
LEMMA IpcTablesOrdered == Ordered(IpcTables)
<1>1. /\ Earlier("companies", "ipcs")
      /\ Earlier("projects", "ipcs")
      /\ Earlier("contracts", "ipcs")
      /\ Earlier("boq_revisions", "ipcs")
      /\ Earlier("users", "ipcs")
      /\ Earlier("companies", "ipc_lines")
      /\ Earlier("ipcs", "ipc_lines")
      /\ Earlier("boq_items", "ipc_lines")
  BY Places DEF Earlier, Platform
<1>2. /\ RowOrdered(IpcTables["ipcs"], "ipcs")
      /\ RowOrdered(IpcTables["ipc_lines"], "ipc_lines")
  BY <1>1, RowReferences DEF IpcTables, RowOrdered
<1> QED  BY <1>2 DEF IpcTables, Ordered

\* SubcontractIpcTables.
LEMMA SubcontractIpcTablesOrdered == Ordered(SubcontractIpcTables)
<1>1. /\ Earlier("companies", "subcontract_ipcs")
      /\ Earlier("projects", "subcontract_ipcs")
      /\ Earlier("commitments", "subcontract_ipcs")
      /\ Earlier("users", "subcontract_ipcs")
      /\ Earlier("companies", "subcontract_ipc_lines")
      /\ Earlier("subcontract_ipcs", "subcontract_ipc_lines")
      /\ Earlier("commitment_lines", "subcontract_ipc_lines")
  BY Places DEF Earlier, Platform
<1>2. /\ RowOrdered(SubcontractIpcTables["subcontract_ipcs"], "subcontract_ipcs")
      /\ RowOrdered(SubcontractIpcTables["subcontract_ipc_lines"], "subcontract_ipc_lines")
  BY <1>1, RowReferences DEF SubcontractIpcTables, RowOrdered
<1> QED  BY <1>2 DEF SubcontractIpcTables, Ordered

\* OperatorTables.
LEMMA OperatorTablesOrdered == Ordered(OperatorTables)
<1>1. /\ Earlier("companies", "forecast_snapshots")
      /\ Earlier("projects", "forecast_snapshots")
      /\ Earlier("users", "forecast_snapshots")
  BY Places DEF Earlier, Platform
<1>2. /\ RowOrdered(OperatorTables["forecast_snapshots"], "forecast_snapshots")
  BY <1>1, RowReferences DEF OperatorTables, RowOrdered
<1> QED  BY <1>2, NotExported DEF OperatorTables, Ordered

\* FlagTables.
LEMMA FlagTablesOrdered == Ordered(FlagTables)
<1>1. /\ Earlier("companies", "company_feature_flag_overrides")
      /\ Earlier("feature_flags", "company_feature_flag_overrides")
      /\ Earlier("platform_operators", "company_feature_flag_overrides")
  BY Places DEF Earlier, Platform
<1>2. /\ RowOrdered(FlagTables["company_feature_flag_overrides"], "company_feature_flag_overrides")
  BY <1>1, RowReferences DEF FlagTables, RowOrdered
<1> QED  BY <1>2, NotExported DEF FlagTables, Ordered

\* EgsTables.
LEMMA EgsTablesOrdered == Ordered(EgsTables)
<1>1. /\ Earlier("companies", "zatca_egs_units")
      /\ Earlier("companies", "zatca_csr_instances")
      /\ Earlier("zatca_egs_units", "zatca_csr_instances")
      /\ Earlier("zatca_csr_instances", "zatca_csr_instances")
  BY Places DEF Earlier, Platform
<1>2. /\ RowOrdered(EgsTables["zatca_egs_units"], "zatca_egs_units")
      /\ RowOrdered(EgsTables["zatca_csr_instances"], "zatca_csr_instances")
  BY <1>1, RowReferences DEF EgsTables, RowOrdered
<1> QED  BY <1>2 DEF EgsTables, Ordered

\* ComplianceRunTables.
LEMMA ComplianceRunTablesOrdered == Ordered(ComplianceRunTables)
<1>1. /\ Earlier("companies", "zatca_compliance_lifecycles")
      /\ Earlier("zatca_csr_instances", "zatca_compliance_lifecycles")
      /\ Earlier("companies", "zatca_compliance_attempts")
      /\ Earlier("zatca_compliance_lifecycles", "zatca_compliance_attempts")
      /\ Earlier("zatca_compliance_attempts", "zatca_compliance_attempts")
  BY Places DEF Earlier, Platform
<1>2. /\ RowOrdered(ComplianceRunTables["zatca_compliance_lifecycles"], "zatca_compliance_lifecycles")
      /\ RowOrdered(ComplianceRunTables["zatca_compliance_attempts"], "zatca_compliance_attempts")
  BY <1>1, RowReferences DEF ComplianceRunTables, RowOrdered
<1> QED  BY <1>2 DEF ComplianceRunTables, Ordered

\* ZatcaDocumentTables.
LEMMA ZatcaDocumentTablesOrdered == Ordered(ZatcaDocumentTables)
<1>1. /\ Earlier("companies", "zatca_provider_operations")
      /\ Earlier("zatca_egs_units", "zatca_provider_operations")
      /\ Earlier("companies", "zatca_icv_counters")
      /\ Earlier("zatca_egs_units", "zatca_icv_counters")
      /\ Earlier("companies", "zatca_submissions")
      /\ Earlier("zatca_egs_units", "zatca_submissions")
      /\ Earlier("invoices", "zatca_submissions")
  BY Places DEF Earlier, Platform
<1>2. /\ RowOrdered(ZatcaDocumentTables["zatca_provider_operations"], "zatca_provider_operations")
      /\ RowOrdered(ZatcaDocumentTables["zatca_icv_counters"], "zatca_icv_counters")
      /\ RowOrdered(ZatcaDocumentTables["zatca_submissions"], "zatca_submissions")
  BY <1>1, RowReferences DEF ZatcaDocumentTables, RowOrdered
<1> QED  BY <1>2 DEF ZatcaDocumentTables, Ordered

\* PayrollTables.
LEMMA PayrollTablesOrdered == Ordered(PayrollTables)
<1>1. /\ Earlier("companies", "employees")
      /\ Earlier("users", "employees")
      /\ Earlier("companies", "payroll_periods")
      /\ Earlier("users", "payroll_periods")
  BY Places DEF Earlier, Platform
<1>2. /\ RowOrdered(PayrollTables["employees"], "employees")
      /\ RowOrdered(PayrollTables["payroll_periods"], "payroll_periods")
  BY <1>1, RowReferences DEF PayrollTables, RowOrdered
<1> QED  BY <1>2 DEF PayrollTables, Ordered

\* LabourTables.
LEMMA LabourTablesOrdered == Ordered(LabourTables)
<1>1. /\ Earlier("companies", "payroll_records")
      /\ Earlier("payroll_periods", "payroll_records")
      /\ Earlier("employees", "payroll_records")
      /\ Earlier("payroll_import_batches", "payroll_records")
      /\ Earlier("users", "payroll_records")
      /\ Earlier("companies", "labor_allocations")
      /\ Earlier("payroll_records", "labor_allocations")
      /\ Earlier("projects", "labor_allocations")
      /\ Earlier("cost_codes", "labor_allocations")
      /\ Earlier("users", "labor_allocations")
      /\ Earlier("companies", "labor_cost_postings")
      /\ Earlier("payroll_periods", "labor_cost_postings")
      /\ Earlier("labor_allocations", "labor_cost_postings")
      /\ Earlier("expenses", "labor_cost_postings")
      /\ Earlier("labor_cost_postings", "labor_cost_postings")
      /\ Earlier("users", "labor_cost_postings")
  BY Places DEF Earlier, Platform
<1>2. /\ RowOrdered(LabourTables["payroll_records"], "payroll_records")
      /\ RowOrdered(LabourTables["labor_allocations"], "labor_allocations")
      /\ RowOrdered(LabourTables["labor_cost_postings"], "labor_cost_postings")
  BY <1>1, RowReferences DEF LabourTables, RowOrdered
<1> QED  BY <1>2 DEF LabourTables, Ordered

\* PayrollImportTables.
LEMMA PayrollImportTablesOrdered == Ordered(PayrollImportTables)
<1>1. /\ Earlier("companies", "payroll_import_batches")
      /\ Earlier("payroll_periods", "payroll_import_batches")
      /\ Earlier("files", "payroll_import_batches")
      /\ Earlier("users", "payroll_import_batches")
      /\ Earlier("companies", "payroll_import_rows")
      /\ Earlier("payroll_import_batches", "payroll_import_rows")
      /\ Earlier("payroll_records", "payroll_import_rows")
  BY Places DEF Earlier, Platform
<1>2. /\ RowOrdered(PayrollImportTables["payroll_import_batches"], "payroll_import_batches")
      /\ RowOrdered(PayrollImportTables["payroll_import_rows"], "payroll_import_rows")
  BY <1>1, RowReferences DEF PayrollImportTables, RowOrdered
<1> QED  BY <1>2 DEF PayrollImportTables, Ordered

\* ScheduleTables.
LEMMA ScheduleTablesOrdered == Ordered(ScheduleTables)
<1>1. /\ Earlier("companies", "project_tasks")
      /\ Earlier("projects", "project_tasks")
      /\ Earlier("users", "project_tasks")
      /\ Earlier("project_tasks", "project_tasks")
      /\ Earlier("companies", "project_task_dependencies")
      /\ Earlier("projects", "project_task_dependencies")
      /\ Earlier("project_tasks", "project_task_dependencies")
      /\ Earlier("users", "project_task_dependencies")
  BY Places DEF Earlier, Platform
<1>2. /\ RowOrdered(ScheduleTables["project_tasks"], "project_tasks")
      /\ RowOrdered(ScheduleTables["project_task_dependencies"], "project_task_dependencies")
  BY <1>1, RowReferences DEF ScheduleTables, RowOrdered
<1> QED  BY <1>2 DEF ScheduleTables, Ordered

\* PunchTables.
LEMMA PunchTablesOrdered == Ordered(PunchTables)
<1>1. /\ Earlier("companies", "project_punch_items")
      /\ Earlier("projects", "project_punch_items")
      /\ Earlier("users", "project_punch_items")
      /\ Earlier("companies", "compliance_periods")
      /\ Earlier("users", "compliance_periods")
  BY Places DEF Earlier, Platform
<1>2. /\ RowOrdered(PunchTables["project_punch_items"], "project_punch_items")
      /\ RowOrdered(PunchTables["compliance_periods"], "compliance_periods")
  BY <1>1, RowReferences DEF PunchTables, RowOrdered
<1> QED  BY <1>2 DEF PunchTables, Ordered

\* WorkforceTables.
LEMMA WorkforceTablesOrdered == Ordered(WorkforceTables)
<1>1. /\ Earlier("companies", "compliance_workforce_snapshots")
      /\ Earlier("compliance_periods", "compliance_workforce_snapshots")
      /\ Earlier("users", "compliance_workforce_snapshots")
      /\ Earlier("companies", "nitaqat_compliance_records")
      /\ Earlier("compliance_periods", "nitaqat_compliance_records")
      /\ Earlier("users", "nitaqat_compliance_records")
      /\ Earlier("companies", "gosi_compliance_records")
      /\ Earlier("compliance_periods", "gosi_compliance_records")
      /\ Earlier("users", "gosi_compliance_records")
  BY Places DEF Earlier, Platform
<1>2. /\ RowOrdered(WorkforceTables["compliance_workforce_snapshots"], "compliance_workforce_snapshots")
      /\ RowOrdered(WorkforceTables["nitaqat_compliance_records"], "nitaqat_compliance_records")
      /\ RowOrdered(WorkforceTables["gosi_compliance_records"], "gosi_compliance_records")
  BY <1>1, RowReferences DEF WorkforceTables, RowOrdered
<1> QED  BY <1>2 DEF WorkforceTables, Ordered

\* ExceptionTables.
LEMMA ExceptionTablesOrdered == Ordered(ExceptionTables)
<1>1. /\ Earlier("companies", "compliance_exceptions")
      /\ Earlier("users", "compliance_exceptions")
      /\ Earlier("compliance_periods", "compliance_exceptions")
  BY Places DEF Earlier, Platform
<1>2. /\ RowOrdered(ExceptionTables["compliance_exceptions"], "compliance_exceptions")
  BY <1>1, RowReferences DEF ExceptionTables, RowOrdered
<1> QED  BY <1>2 DEF ExceptionTables, Ordered

\* AlertTables.
LEMMA AlertTablesOrdered == Ordered(AlertTables)
<1>1. /\ Earlier("companies", "budget_alerts")
      /\ Earlier("projects", "budget_alerts")
      /\ Earlier("cost_codes", "budget_alerts")
      /\ Earlier("users", "budget_alerts")
  BY Places DEF Earlier, Platform
<1>2. /\ RowOrdered(AlertTables["budget_alerts"], "budget_alerts")
  BY <1>1, RowReferences DEF AlertTables, RowOrdered
<1> QED  BY <1>2, NotExported DEF AlertTables, Ordered

(***************************************************************************)
(* No foreign key of the schema leads from a table that is exported to one *)
(* that is not, and none to a table that comes later.                      *)
(***************************************************************************)
THEOREM SchemaOrdered == \A e \in Pairs : Earlier(e[2], e[1])
<1>1. \A g \in Groups : Ordered(g)
  BY AccountTablesOrdered, SiteTablesOrdered, SalesTablesOrdered, TaxTablesOrdered, TaxRecordTablesOrdered,
     ContractTablesOrdered, BoqTablesOrdered, FileTablesOrdered, DirectoryTablesOrdered,
     CommitmentTablesOrdered, PortalTablesOrdered, MeasurementTablesOrdered, IpcTablesOrdered,
     SubcontractIpcTablesOrdered, OperatorTablesOrdered, FlagTablesOrdered, EgsTablesOrdered,
     ComplianceRunTablesOrdered, ZatcaDocumentTablesOrdered, PayrollTablesOrdered, LabourTablesOrdered,
     PayrollImportTablesOrdered, ScheduleTablesOrdered, PunchTablesOrdered, WorkforceTablesOrdered,
     ExceptionTablesOrdered, AlertTablesOrdered DEF Groups
<1>2. ASSUME NEW t \in Tables PROVE \E g \in Groups : t \in DOMAIN g /\ Schema[t] = g[t]
  <2>1. \E g \in Groups : t \in DOMAIN g
    BY DEF Tables
  <2> QED  BY <2>1 DEF Schema
<1>3. ASSUME NEW t \in Tables \cap Exported PROVE RowOrdered(Schema[t], t)
  BY <1>1, <1>2 DEF Ordered
<1> QED  BY <1>3 DEF RowOrdered, Pairs, ForeignKeys, Refs

-----------------------------------------------------------------------------
(* The transfer of a company.                                              *)

\* The smaller of two, or the only one.
LEMMA MinOfTwo ==
  ASSUME NEW a \in Nat, NEW b \in Nat, NEW S \in SUBSET {a, b}, S # {}
  PROVE  Min(S) \in S /\ \A y \in S : Min(S) <= y
<1>1. \E x \in S : \A y \in S : x <= y
  <2>1. CASE a \in S /\ (b \in S => a <= b)
    BY <2>1
  <2>2. CASE ~(a \in S /\ (b \in S => a <= b))
    <3>1. b \in S
      <4>1. PICK y \in S : TRUE
        OBVIOUS
      <4> QED  BY <2>2, <4>1
    <3>2. a \in S => b <= a
      BY <2>2, <3>1
    <3> QED  BY <3>1, <3>2
  <2> QED  BY <2>1, <2>2
<1> QED  BY <1>1 DEF Min

\* The places of the two tables that the export has still to read, and the one it reads next.
StillMet == {i \in nextTable..TableCount : TableOrder[i] \in {Child, Parent}}
NextMet == IF StillMet = {} THEN TableCount ELSE Min(StillMet)

\* The table that is read next, and the rows of the pair that it holds: none is passed over.
LEMMA NoneSkipped ==
  ASSUME Child \in Exported, nextTable \in 1..TableCount
  PROVE  /\ NextMet \in nextTable..TableCount
         /\ \A x \in Two : Table(x) = TableOrder[NextMet] <=> (Table(x) \in Exported /\ Place[Table(x)] = NextMet)
         /\ \A x \in Two : Table(x) \in Exported /\ Place[Table(x)] >= nextTable => Place[Table(x)] >= NextMet
<1>0. TableCount = 61 /\ nextTable \in 1..61
  BY ListedOnce
<1>1. /\ \A i \in 1..61 : TableOrder[i] \in Exported /\ Place[TableOrder[i]] = i
      /\ \A t \in Exported : Place[t] \in 0..61 /\ (Place[t] # 0 => TableOrder[Place[t]] = t)
  BY PlacedByList
<1>2. PICK a \in Nat, b \in Nat : StillMet \in SUBSET {a, b}
  <2>1. ASSUME NEW i \in StillMet PROVE i \in 1..61 /\ TableOrder[i] \in {Child, Parent}
    BY <1>0, <2>1 DEF StillMet
  <2>2. \A i \in StillMet : i = Place[Child] \/ (i = Place[Parent] /\ Parent \in Exported)
    <3> SUFFICES ASSUME NEW i \in StillMet PROVE i = Place[Child] \/ (i = Place[Parent] /\ Parent \in Exported)
      OBVIOUS
    <3>1. i = Place[TableOrder[i]] /\ TableOrder[i] \in Exported
      BY <1>1, <2>1
    <3>2. TableOrder[i] = Child \/ TableOrder[i] = Parent
      BY <2>1
    <3> QED  BY <3>1, <3>2
  <2>3. Place[Child] \in Nat
    BY <1>1
  <2>4. CASE Parent \in Exported
    <3>1. Place[Parent] \in Nat
      BY <1>1, <2>4
    <3>2. StillMet \in SUBSET {Place[Child], Place[Parent]}
      BY <2>2
    <3> QED  BY <2>3, <3>1, <3>2
  <2>5. CASE Parent \notin Exported
    <3>1. StillMet \in SUBSET {Place[Child], Place[Child]}
      BY <2>2, <2>5
    <3> QED  BY <2>3, <3>1
  <2> QED  BY <2>4, <2>5
<1>3. StillMet # {} => NextMet \in StillMet /\ \A i \in StillMet : NextMet <= i
  BY <1>2, MinOfTwo DEF NextMet
<1>4. NextMet \in nextTable..61
  BY <1>0, <1>3 DEF NextMet, StillMet
<1>5. \A x \in Two : Table(x) \in {Child, Parent}
  BY DEF Table
<1>6. ASSUME NEW x \in Two, Table(x) \in Exported, Place[Table(x)] >= nextTable PROVE Place[Table(x)] >= NextMet
  <2>1. Place[Table(x)] \in StillMet
    BY <1>0, <1>1, <1>5, <1>6 DEF StillMet
  <2> QED  BY <1>0, <1>3, <1>4, <2>1 DEF StillMet
<1>7. ASSUME NEW x \in Two
      PROVE  Table(x) = TableOrder[NextMet] <=> (Table(x) \in Exported /\ Place[Table(x)] = NextMet)
  <2>1. NextMet \in 1..61
    BY <1>0, <1>4
  <2>2. TableOrder[NextMet] \in Exported /\ Place[TableOrder[NextMet]] = NextMet
    BY <1>1, <2>1
  <2>3. Table(x) \in Exported /\ Place[Table(x)] = NextMet => TableOrder[Place[Table(x)]] = Table(x)
    BY <1>1, <2>1
  <2> QED  BY <2>2, <2>3
<1> QED  BY <1>0, <1>4, <1>6, <1>7

(***************************************************************************)
(* The export and the imports.  What was read is in the file unless it was *)
(* deleted or the file was damaged; a damaged file is not imported; what   *)
(* was committed before the export began was there when it was read.       *)
(***************************************************************************)
Readable == nextTable = TableCount + 1 /\ ~damaged
Importing(r) == progress[r] \in {"begin", "rows", "commit"}
AlreadyRead(x) == nextTable > 0 /\ Table(x) \in Exported /\ Place[Table(x)] < nextTable

TransferInv ==
    /\ Child \in Exported /\ (OfPlatform(Parent) \/ Parent \in Exported)
    /\ Parent \in Refs(Child)
    /\ Parent \in Exported => Parent = Child \/ Place[Parent] < Place[Child]
    /\ source \in [Two -> {"none", "live", "gone"}] /\ DOMAIN progress = Requests /\ DOMAIN told = Requests
    /\ source["parent"] = "none" => source["child"] = "none"
    /\ source["parent"] = "gone" /\ source["child"] = "live" => ~cites
    /\ nextTable \in 0..TableCount + 1 /\ damaged \in BOOLEAN
    /\ start \subseteq Two /\ file \subseteq Two
    /\ \A x \in start : source[x] # "none"
    /\ nextTable = 0 => start = {}
    /\ \A x \in file : AlreadyRead(x)
    /\ ~damaged => \A x \in start : source[x] = "live" /\ AlreadyRead(x) => x \in file
    /\ ~damaged /\ "child" \in file /\ fileCites /\ "parent" \in start /\ Parent \in Exported => "parent" \in file
    /\ \A r \in Requests : /\ Importing(r) => Readable
                           /\ progress[r] = "commit" => ReferenceHolds
    /\ arrived # {} => /\ arrived = {"company"} \cup file /\ Readable /\ ReferenceHolds
                       /\ \E r \in Requests : progress[r] # "idle"
    /\ KnownFailures
    /\ (\E r \in Requests : told[r] = "failed") => nextTable = TableCount + 1

\* The initial state.
LEMMA TransferInvInit == TransferInit => TransferInv
<1> SUFFICES ASSUME TransferInit PROVE TransferInv
  OBVIOUS
<1>1. Child \in Exported /\ Parent \in Refs(Child) /\ Earlier(Parent, Child)
  BY SchemaOrdered DEF TransferInit, Pairs, ForeignKeys, Child, Parent
<1>2. TableCount = 61 /\ (Parent \in Exported => Parent \notin Platform)
  BY ListedOnce, NotExported DEF Platform
<1>3. source["parent"] = "none" => source["child"] = "none"
  BY DEF TransferInit, Two
<1>4. source["parent"] # "gone" /\ source \in [Two -> {"none", "live", "gone"}]
  BY DEF TransferInit, Two
<1>5. /\ OfPlatform(Parent) \/ Parent \in Exported
      /\ Parent \in Exported => Parent = Child \/ Place[Parent] < Place[Child]
  BY <1>1, <1>2 DEF Earlier, OfPlatform
<1>6. /\ nextTable = 0 /\ start = {} /\ file = {} /\ damaged = FALSE /\ arrived = {}
      /\ progress = [r \in Requests |-> "idle"] /\ told = [r \in Requests |-> "nothing"]
  BY DEF TransferInit
<1> HIDE DEF TransferInit
<1>7. nextTable \in 0..TableCount + 1
  BY <1>2, <1>6
<1>8. KnownFailures
  BY <1>6 DEF KnownFailures
<1> QED  BY <1>1, <1>3, <1>4, <1>5, <1>6, <1>7, <1>8 DEF TransferInv, Importing

\* The company at work: a row is written.
LEMMA WriteRowKeeps ==
  ASSUME TransferInv, NEW x \in Two, WriteRow(x)
  PROVE  TransferInv'
<1>1. /\ source[x] = "none" /\ source' \in [Two -> {"none", "live", "gone"}]
      /\ source'[x] = "live" /\ \A y \in Two : y # x => source'[y] = source[y]
      /\ x = "child" => source["parent"] = "live"
  BY DEF WriteRow, TransferInv
<1>2. UNCHANGED <<fixed, cites, export, import>>
  BY DEF WriteRow
<1>3. /\ source'["parent"] = "none" => source'["child"] = "none"
      /\ source'["parent"] = "gone" /\ source'["child"] = "live" => ~cites
  BY <1>1 DEF TransferInv, Two
<1>4. x \notin start
  BY <1>1 DEF TransferInv
<1>5. /\ \A y \in start : source'[y] # "none"
      /\ ~damaged => \A y \in start : source'[y] = "live" /\ AlreadyRead(y) => y \in file
  BY <1>1, <1>4 DEF TransferInv
<1> QED  BY <1>1, <1>2, <1>3, <1>5 DEF TransferInv, fixed, export, import, Child, Parent, Table, AlreadyRead,
          Importing, Readable,
            ReferenceHolds, KnownFailures

\* A row is deleted; a child whose parent goes away goes with it or cites it no longer.
LEMMA DeleteRowKeeps ==
  ASSUME TransferInv, NEW x \in Two, DeleteRow(x)
  PROVE  TransferInv'
<1> DEFINE held == x = "parent" /\ source["child"] = "live" /\ cites
<1>1. /\ source[x] = "live"
      /\ held => Parent \notin Schema[Child].cites
      /\ source' = [y \in Two |-> IF y = x \/ (held /\ y = "child" /\ Parent \in Schema[Child].owners)
                                   THEN "gone" ELSE source[y]]
      /\ cites' = (cites /\ ~(held /\ Parent \in Schema[Child].detaches))
  BY DEF DeleteRow
<1>2. UNCHANGED <<fixed, export, import>>
  BY DEF DeleteRow
<1>3. /\ source' \in [Two -> {"none", "live", "gone"}] /\ source'[x] = "gone"
      /\ \A y \in Two : source'[y] = source[y] \/ source'[y] = "gone"
  BY <1>1 DEF TransferInv
<1>4. source'["parent"] = "none" => source'["child"] = "none"
  <2>1. source["parent"] = source'["parent"] \/ source'["parent"] = "gone"
    BY <1>3 DEF Two
  <2>2. source["child"] = "none" => source'["child"] = "none"
    BY <1>1, <1>3 DEF Two
  <2> QED  BY <2>1, <2>2 DEF TransferInv
<1>5. source'["parent"] = "gone" /\ source'["child"] = "live" => ~cites'
  <2>1. CASE held
    <3>1. Parent \in Schema[Child].owners \/ Parent \in Schema[Child].detaches
      BY <1>1, <2>1 DEF TransferInv, Refs
    <3>2. Parent \in Schema[Child].owners => source'["child"] = "gone"
      BY <1>1, <2>1 DEF Two
    <3> QED  BY <1>1, <2>1, <3>1, <3>2
  <2>2. CASE ~held
    <3> HIDE DEF held
    <3>1. \A y \in Two : source'[y] = (IF y = x THEN "gone" ELSE source[y])
      BY <1>1, <2>2
    <3>2. CASE x = "parent"
      <4>1. source'["child"] = source["child"]
        BY <3>1, <3>2 DEF Two
      <4> QED  BY <1>1, <2>2, <3>2, <4>1 DEF held
    <3>3. CASE x = "child"
      BY <3>1, <3>3 DEF Two
    <3> QED  BY <3>2, <3>3 DEF Two
  <2> QED  BY <2>1, <2>2
<1>6. /\ \A y \in start : source'[y] # "none"
      /\ ~damaged => \A y \in start : source'[y] = "live" /\ AlreadyRead(y) => y \in file
  BY <1>3 DEF TransferInv
<1> HIDE DEF held
<1> QED  BY <1>2, <1>3, <1>4, <1>5, <1>6 DEF TransferInv, fixed, export, import, Child, Parent, Table,
          AlreadyRead, Importing, Readable,
            ReferenceHolds, KnownFailures

\* Nothing is being imported while the export is not complete.
LEMMA NoImportYet ==
  ASSUME TransferInv, nextTable # TableCount + 1
  PROVE  (\A r \in Requests : ~Importing(r) /\ told[r] # "failed") /\ arrived = {}
  BY DEF TransferInv, Readable

\* The export begins.
LEMMA BeginExportKeeps == TransferInv /\ BeginExport => TransferInv'
<1> SUFFICES ASSUME TransferInv, BeginExport PROVE TransferInv'
  OBVIOUS
<1>0. TableCount = 61
  BY ListedOnce
<1>1. /\ nextTable = 0 /\ nextTable' = 1 /\ start' = Live /\ file' = {x \in Live : Table(x) = "companies"}
      /\ UNCHANGED <<fixed, tenant, fileCites, damaged, import>>
  BY DEF BeginExport
<1>2. \A t \in Exported : Place[t] \in Nat /\ (Place[t] < 1 <=> t = "companies")
  BY PlacedByList
<1>3. "companies" \in Exported
  BY DEF Exported
<1>4. \A x \in Two : AlreadyRead(x)' <=> Table(x) = "companies"
  BY <1>1, <1>2, <1>3 DEF AlreadyRead, Table, Child, Parent, fixed
<1>5. /\ \A x \in file' : AlreadyRead(x)'
      /\ \A x \in start' : source'[x] # "none"
      /\ \A x \in start' : source'[x] = "live" /\ AlreadyRead(x)' => x \in file'
  BY <1>1, <1>4 DEF Live, tenant
<1>6. "child" \in file' /\ "parent" \in start' /\ Parent \in Exported => "parent" \in file'
  <2> SUFFICES ASSUME "child" \in file', "parent" \in start', Parent \in Exported PROVE "parent" \in file'
    OBVIOUS
  <2>1. Child = "companies"
    BY <1>1 DEF Table
  <2>2. Parent = "companies"
    BY <1>2, <1>3, <2>1 DEF TransferInv
  <2> QED  BY <1>1, <2>2 DEF Table
<1>7. (\A r \in Requests : ~Importing(r) /\ told[r] # "failed") /\ arrived = {}
  BY <1>0, <1>1, NoImportYet
<1>8. start' \subseteq Two /\ file' \subseteq Two /\ nextTable' \in 0..TableCount + 1 /\ nextTable' # 0
  BY <1>0, <1>1 DEF Live
<1> QED  BY <1>1, <1>5, <1>6, <1>7, <1>8 DEF TransferInv, fixed, tenant, import, Child, Parent, Importing,
          KnownFailures

\* A table is read.
LEMMA ReadTableKeeps == TransferInv /\ ReadTable => TransferInv'
<1> SUFFICES ASSUME TransferInv, ReadTable PROVE TransferInv'
  OBVIOUS
<1> DEFINE i == NextMet
           t == TableOrder[i]
<1>0. TableCount = 61
  BY ListedOnce
<1>1. /\ nextTable \in 1..TableCount
      /\ file' = file \cup {x \in Live : Table(x) = t}
      /\ fileCites' = IF Child = t THEN cites ELSE fileCites
      /\ nextTable' = i + 1
      /\ UNCHANGED <<fixed, tenant, start, damaged, import>>
  BY DEF ReadTable, NextMet, StillMet
<1>2. /\ i \in nextTable..TableCount
      /\ \A x \in Two : Table(x) = t <=> (Table(x) \in Exported /\ Place[Table(x)] = i)
      /\ \A x \in Two : Table(x) \in Exported /\ Place[Table(x)] >= nextTable => Place[Table(x)] >= i
  BY <1>1, NoneSkipped DEF TransferInv
<1>3. \A e \in Exported : Place[e] \in Nat
  BY PlacedByList
<1> HIDE DEF i, t
<1>4. \A x \in Two : AlreadyRead(x)' <=> (AlreadyRead(x) \/ Table(x) = t)
  <2> SUFFICES ASSUME NEW x \in Two PROVE AlreadyRead(x)' <=> (AlreadyRead(x) \/ Table(x) = t)
    OBVIOUS
  <2>1. AlreadyRead(x)' <=> (Table(x) \in Exported /\ Place[Table(x)] < i + 1)
    BY <1>0, <1>1, <1>2 DEF AlreadyRead, Table, Child, Parent, fixed
  <2>2. CASE Table(x) \in Exported
    BY <1>0, <1>1, <1>2, <1>3, <2>1, <2>2 DEF AlreadyRead
  <2>3. CASE Table(x) \notin Exported
    BY <1>2, <2>1, <2>3 DEF AlreadyRead
  <2> QED  BY <2>2, <2>3
<1>5. \A x \in Two : Table(x) = t => ~AlreadyRead(x)
  BY <1>0, <1>1, <1>2, <1>3 DEF AlreadyRead
<1>6. /\ \A x \in file' : AlreadyRead(x)'
      /\ ~damaged => \A x \in start : source[x] = "live" /\ AlreadyRead(x)' => x \in file'
  BY <1>1, <1>4 DEF TransferInv, Live
<1>7. ~damaged /\ "child" \in file' /\ fileCites' /\ "parent" \in start /\ Parent \in Exported => "parent" \in file'
  <2> SUFFICES ASSUME ~damaged, "child" \in file', fileCites', "parent" \in start, Parent \in Exported
               PROVE  "parent" \in file'
    OBVIOUS
  <2>1. CASE Child # t
    BY <1>1, <2>1 DEF TransferInv, Table
  <2>2. CASE Child = t
    <3>1. ~AlreadyRead("child") /\ "child" \notin file
      BY <1>5, <2>2 DEF TransferInv, Table, Two
    <3>2. source["child"] = "live" /\ cites
      BY <1>1, <2>2, <3>1 DEF Live
    <3>3. source["parent"] = "live"
      <4>1. source["parent"] # "none" /\ source["parent"] # "gone"
        BY <3>2 DEF TransferInv
      <4>2. source["parent"] \in {"none", "live", "gone"}
        BY DEF TransferInv
      <4> QED  BY <4>1, <4>2
    <3>4. AlreadyRead("parent")'
      BY <1>1, <1>2, <1>3, <2>2 DEF TransferInv, AlreadyRead, Table, Two, Child, Parent, fixed
    <3> QED  BY <1>6, <3>3, <3>4 DEF Two
  <2> QED  BY <2>1, <2>2
<1>8. (\A r \in Requests : ~Importing(r) /\ told[r] # "failed") /\ arrived = {}
  BY <1>0, <1>1, NoImportYet
<1>9. file' \subseteq Two /\ nextTable' \in 0..TableCount + 1 /\ nextTable' # 0
  BY <1>0, <1>1, <1>2 DEF Live, TransferInv
<1> QED  BY <1>1, <1>6, <1>7, <1>8, <1>9 DEF TransferInv, fixed, tenant, import, Child, Parent, Importing,
          KnownFailures

\* The file is damaged before it is confirmed.
LEMMA DamageKeeps == TransferInv /\ Damage => TransferInv'
<1> SUFFICES ASSUME TransferInv, Damage PROVE TransferInv'
  OBVIOUS
<1>1. /\ nextTable = TableCount + 1 /\ \A r \in Requests : progress[r] = "idle"
      /\ file' \subseteq file /\ damaged' = TRUE
      /\ UNCHANGED <<fixed, tenant, nextTable, start, fileCites, import>>
  BY DEF Damage
<1>2. arrived = {}
  BY <1>1 DEF TransferInv
<1>3. \A r \in Requests : ~Importing(r) /\ ~Importing(r)'
  BY <1>1 DEF Importing, import
<1>4. \A x \in file' : AlreadyRead(x)'
  BY <1>1 DEF TransferInv, AlreadyRead, Table, Child, Parent, fixed
<1> QED  BY <1>1, <1>2, <1>3, <1>4 DEF TransferInv, fixed, tenant, import, Child, Parent, KnownFailures,
          Importing

\* What a step of the import leaves in place.
Untouched == UNCHANGED <<fixed, tenant, export>>

\* A step of one import that changes nothing but where it is and what it answers.
ImportMoves(r) ==
    /\ Untouched /\ UNCHANGED <<taken, arrived>>
    /\ DOMAIN progress' = Requests /\ DOMAIN told' = Requests
    /\ \A q \in Requests \ {r} : progress'[q] = progress[q] /\ told'[q] = told[q]

\* A step of one import keeps the invariant, if it goes on only with a readable file and fails only for a
\* known reason.
LEMMA MovesOn ==
  ASSUME TransferInv, NEW r \in Requests, ImportMoves(r), progress'[r] # "idle",
         progress'[r] \in {"begin", "rows", "commit"} => Readable,
         progress'[r] = "commit" => ReferenceHolds,
         told'[r] = "failed" => \/ told[r] = "failed"
                                \/ /\ nextTable = TableCount + 1
                                   /\ \/ Parent \in Exported /\ "parent" \notin start
                                      \/ OfPlatform(Parent) /\ ~platform
                                      \/ taken
                                      \/ "company" \in arrived
                                      \/ Child = Parent /\ childFirst
  PROVE  TransferInv'
<1>0. UNCHANGED <<fixed, tenant, export, taken, arrived>>
  BY DEF ImportMoves, Untouched
<1>1. DOMAIN progress' = Requests /\ DOMAIN told' = Requests
  BY DEF ImportMoves
<1>2. ASSUME NEW q \in Requests
      PROVE  (Importing(q)' => Readable') /\ (progress'[q] = "commit" => ReferenceHolds')
  <2>1. progress'[q] \in {"begin", "rows", "commit"} => Readable
    BY DEF TransferInv, Importing, ImportMoves
  <2>2. progress'[q] = "commit" => ReferenceHolds
    BY DEF TransferInv, ImportMoves
  <2>3. Readable' = Readable /\ ReferenceHolds' = ReferenceHolds
    BY <1>0 DEF Readable, ReferenceHolds, fixed, export, Child, Parent
  <2> QED  BY <2>1, <2>2, <2>3 DEF Importing
<1>3. KnownFailures'
  BY <1>0 DEF TransferInv, ImportMoves, KnownFailures, fixed, export, Child, Parent
<1>4. arrived' # {} => /\ arrived' = {"company"} \cup file' /\ Readable' /\ ReferenceHolds'
                       /\ \E q \in Requests : progress'[q] # "idle"
  BY <1>0 DEF TransferInv, ImportMoves, Readable, ReferenceHolds, fixed, export, Child, Parent
<1>5. (\E q \in Requests : told'[q] = "failed") => nextTable' = TableCount + 1
  BY <1>0 DEF TransferInv, ImportMoves, export
<1> QED  BY <1>0, <1>1, <1>2, <1>3, <1>4, <1>5 DEF TransferInv, fixed, tenant, export, Child, Parent, Table,
          AlreadyRead

\* A file is confirmed, if it is complete and nothing speaks against it.
LEMMA ConfirmKeeps ==
  ASSUME TransferInv, NEW r \in Requests, Confirm(r)
  PROVE  TransferInv'
<1>1. nextTable = TableCount + 1 /\ ImportMoves(r)
  BY DEF Confirm, Answer, ImportMoves, Untouched, TransferInv
<1>2. CASE Blockers = {}
  <2>1. Readable
    BY <1>1, <1>2 DEF Blockers, Readable
  <2>2. progress'[r] = "begin" /\ told'[r] = told[r]
    BY <1>2 DEF Confirm, TransferInv
  <2> QED  BY <1>1, <2>1, <2>2, MovesOn
<1>3. CASE Blockers # {}
  <2>1. progress'[r] = "done" /\ told'[r] = "refused"
    BY <1>3 DEF Confirm, Answer, TransferInv
  <2> QED  BY <1>1, <2>1, MovesOn
<1> QED  BY <1>2, <1>3

\* The company's row is inserted, or was there already.
LEMMA InsertCompanyKeeps ==
  ASSUME TransferInv, NEW r \in Requests, InsertCompany(r)
  PROVE  TransferInv'
<1>1. Readable /\ nextTable = TableCount + 1
  BY DEF InsertCompany, TransferInv, Importing, Readable
<1>2. ImportMoves(r)
  BY DEF InsertCompany, Answer, ImportMoves, Untouched, TransferInv
<1>3. CASE "company" \in arrived
  <2>1. progress'[r] = "done"
    BY <1>3 DEF InsertCompany, Answer, TransferInv
  <2> QED  BY <1>1, <1>2, <1>3, <2>1, MovesOn
<1>4. CASE "company" \notin arrived
  <2>1. progress'[r] = "rows" /\ told'[r] = told[r]
    BY <1>4 DEF InsertCompany, TransferInv
  <2> QED  BY <1>1, <1>2, <2>1, MovesOn
<1> QED  BY <1>3, <1>4

\* The rows are inserted, or one is refused for a reason that is known.
LEMMA InsertTablesKeeps ==
  ASSUME TransferInv, NEW r \in Requests, InsertTables(r)
  PROVE  TransferInv'
<1>1. Readable /\ nextTable = TableCount + 1
  BY DEF InsertTables, TransferInv, Importing, Readable
<1>2. ImportMoves(r)
  BY DEF InsertTables, Answer, ImportMoves, Untouched, TransferInv
<1>3. CASE ReferenceHolds /\ ~(taken /\ "child" \in file)
  <2>1. progress'[r] = "commit" /\ told'[r] = told[r]
    BY <1>3 DEF InsertTables, TransferInv
  <2> QED  BY <1>1, <1>2, <1>3, <2>1, MovesOn
<1>4. CASE ~(ReferenceHolds /\ ~(taken /\ "child" \in file))
  <2>1. progress'[r] = "done"
    BY <1>4 DEF InsertTables, Answer, TransferInv
  <2>2. \/ Parent \in Exported /\ "parent" \notin start
        \/ OfPlatform(Parent) /\ ~platform
        \/ taken
        \/ Child = Parent /\ childFirst
    BY <1>1, <1>4 DEF ReferenceHolds, TransferInv, Readable
  <2> QED  BY <1>1, <1>2, <2>1, <2>2, MovesOn
<1> QED  BY <1>3, <1>4

\* The import commits.
LEMMA CommitKeeps ==
  ASSUME TransferInv, NEW r \in Requests, Commit(r)
  PROVE  TransferInv'
<1>1. /\ Readable /\ ReferenceHolds /\ UNCHANGED <<fixed, tenant, export, taken>> /\ arrived' = {"company"} \cup file
      /\ progress' = [progress EXCEPT ![r] = "done"]
      /\ \E a \in {"imported", "lost"} : told' = [told EXCEPT ![r] = a]
  BY DEF Commit, Answer, TransferInv, Importing
<1>2. \A q \in Requests : /\ progress'[q] = IF q = r THEN "done" ELSE progress[q]
                          /\ told'[q] = "failed" => told[q] = "failed"
  BY <1>1 DEF TransferInv
<1>3. Readable' /\ ReferenceHolds'
  BY <1>1 DEF Readable, ReferenceHolds, fixed, export, Child, Parent
<1>4. DOMAIN progress' = Requests /\ DOMAIN told' = Requests
  BY <1>1 DEF TransferInv
<1>5. KnownFailures'
  BY <1>1, <1>2 DEF TransferInv, KnownFailures, fixed, export, Child, Parent
<1>6. arrived' = {"company"} \cup file' /\ \E q \in Requests : progress'[q] # "idle"
  BY <1>1, <1>2 DEF export
<1>7. (\E q \in Requests : told'[q] = "failed") => nextTable' = TableCount + 1
  BY <1>1, <1>2 DEF TransferInv, export
<1> QED  BY <1>1, <1>3, <1>4, <1>5, <1>6, <1>7 DEF TransferInv, fixed, tenant, export, Child, Parent, Table,
          AlreadyRead, Importing

\* The process dies.
LEMMA CrashKeeps ==
  ASSUME TransferInv, NEW r \in Requests, Crash(r)
  PROVE  TransferInv'
<1>1. ImportMoves(r) /\ progress'[r] = "done" /\ told'[r] = "lost"
  BY DEF Crash, Answer, ImportMoves, Untouched, TransferInv
<1> QED  BY <1>1, MovesOn

\* A step that leaves the two rows, the file and the import in place, but may take a key.
LEMMA KeyTaken ==
  ASSUME TransferInv, Untouched, UNCHANGED <<arrived, progress, told>>, taken => taken'
  PROVE  TransferInv'
  BY DEF TransferInv, Untouched, fixed, tenant, export, Child, Parent, Table, AlreadyRead, Importing,
     Readable, ReferenceHolds,
         KnownFailures

\* Every step.
LEMMA TransferInvStep == TransferInv /\ [TransferNext]_transferVars => TransferInv'
<1> SUFFICES ASSUME TransferInv, [TransferNext]_transferVars PROVE TransferInv'
  OBVIOUS
<1>1. CASE TakeKey
  BY <1>1, KeyTaken DEF TakeKey, Untouched, export
<1>2. CASE UNCHANGED transferVars
  BY <1>2, KeyTaken DEF transferVars, import, Untouched
<1> QED  BY <1>1, <1>2, WriteRowKeeps, DeleteRowKeeps, BeginExportKeeps, ReadTableKeeps, DamageKeeps,
            ConfirmKeeps, InsertCompanyKeeps, InsertTablesKeeps, CommitKeeps, CrashKeeps DEF TransferNext

\* Always.
LEMMA TransferInvHolds == TransferSpec => []TransferInv
  BY TransferInvInit, TransferInvStep, PTL DEF TransferSpec

(***************************************************************************)
(* A company that has been imported has every row that was committed       *)
(* before the export began and has not been deleted since, and a child     *)
(* never comes without the row it references.                              *)
(***************************************************************************)
THEOREM ArrivesWholeCorrect == TransferSpec => []ArrivesWhole
<1>1. TransferInv => ArrivesWhole
  <2> SUFFICES ASSUME TransferInv, arrived # {} PROVE ArrivesWhole
    BY DEF ArrivesWhole
  <2>1. arrived = {"company"} \cup file /\ Readable /\ ReferenceHolds
    BY DEF TransferInv
  <2>2. \A t \in Exported : Place[t] < TableCount + 1 /\ TableCount + 1 > 0
    <3>1. TableCount = 61 /\ Place["companies"] = 0 /\ \A t \in Exported \ {"companies"} : Place[t] \in 1..61
      BY PlacedByList, ListedOnce
    <3> QED  BY <3>1
  <2>3. ASSUME NEW x \in start, Table(x) \in Exported, source[x] = "live" PROVE x \in arrived
    BY <2>1, <2>2, <2>3 DEF TransferInv, Readable, AlreadyRead
  <2> QED  BY <2>1, <2>3 DEF ArrivesWhole, ReferenceHolds
<1> QED  BY <1>1, TransferInvHolds, PTL

(***************************************************************************)
(* A validated file is refused by the database for one of the reasons that *)
(* are known, and the order of the tables is not one of them, for any key  *)
(* of the schema.                                                          *)
(***************************************************************************)
THEOREM KnownFailuresCorrect == TransferSpec => []KnownFailures
<1>1. TransferInv => KnownFailures
  BY DEF TransferInv
<1> QED  BY <1>1, TransferInvHolds, PTL

-----------------------------------------------------------------------------
(* The forms.                                                              *)

\* A call whose handler has begun owns the row of its key, unless its claim has been lost.
OwnsItsKey(s) == At(s, InHandler) => claim[sent[s].key] = s \/ sent[s].key \in orphaned

\* A record was created by a call whose answer is kept or about to be, unless its claim has been lost.
Accounted(s) ==
    /\ sent[s] # None /\ sent[s].fate \notin {"asked", "running"}
    /\ \/ sent[s].key \in orphaned \/ kept[sent[s].key] # None
       \/ claim[sent[s].key] = s /\ sent[s].fate = "inserted"

\* Two records are no deeds on one record, and were made under two keys or under one that was lost.
TwiceExplained(s, t) ==
    s # t => ~OncePerRecord(form) /\ (sent[s].key = sent[t].key => sent[s].key \in orphaned)

\* A form that is not drawn anew has one key for what the user is at.
OneKeyPerAttempt ==
    \/ OncePerRecord(form) \/ form.redrawn
    \/ /\ key = <<attempt, 1>>
       /\ \A s \in Sends : sent[s] # None => sent[s].key = <<sent[s].attempt, 1>>

FormsInv ==
    /\ FormsTypeOK
    /\ \A k \in Keys : claim[k] # None => kept[k] = None
    /\ \A s \in Sends : OwnsItsKey(s)
    /\ \A s \in made : Accounted(s)
    /\ \A s, t \in made : TwiceExplained(s, t)
    /\ OneKeyPerAttempt
    /\ ClaimsLost \/ orphaned = {}

Fates == {"asked", "over"} \cup InHandler \cup Answers

\* The forms that decide about a record draw their key when they send; those that keep it until
\* their call succeeds are drawn anew.
LEMMA KeptForTheMount ==
  ASSUME NEW f \in Forms, ~OncePerRecord(f), ~f.redrawn
  PROVE  f.keeps = "mount"
  BY DEF Forms, OncePerRecord, NewInvoiceForm, InvoiceCreateForm, NewQuoteForm, QuoteConversion,
     CommitmentCreateForm, CertifyIpc, CertifySubIpc, PostPeriod, ExpenseForm, ChangeOrderDecision, FormOf

\* A key that is drawn is one of the attempt's, and the first of the next attempt's.
LEMMA DrawnKeys ==
  ASSUME FormsTypeOK
  PROVE  /\ FreshKey => key' \in Keys /\ attempt' = attempt /\ drawn' \in 0..MaxKeys
         /\ NextAttempt => key' \in Keys /\ attempt' \in 1..MaxAttempts /\ drawn' \in 0..MaxKeys
                           /\ key' = <<attempt', 1>>
<1>1. attempt \in 1..MaxAttempts /\ drawn \in 0..MaxKeys /\ MaxAttempts \in Nat \ {0} /\ MaxKeys \in Nat \ {0}
  BY FormsAssumption DEF FormsTypeOK
<1>2. FreshKey => drawn + 1 \in 1..MaxKeys /\ drawn' = drawn + 1
  BY <1>1 DEF FreshKey
<1>3. NextAttempt => attempt + 1 \in 1..MaxAttempts /\ 1 \in 1..MaxKeys /\ attempt' = attempt + 1 /\ drawn' = 1
  BY <1>1 DEF NextAttempt
<1>4. FreshKey => key' \in Keys /\ attempt' = attempt /\ drawn' \in 0..MaxKeys
  BY <1>1, <1>2 DEF FreshKey, Keys
<1>5. NextAttempt => key' \in Keys /\ key' = <<attempt', 1>>
  BY <1>3 DEF NextAttempt, Keys
<1>6. NextAttempt => attempt' \in 1..MaxAttempts /\ drawn' \in 0..MaxKeys
  BY <1>3
<1> QED  BY <1>4, <1>5, <1>6

\* What is known of a call.
LEMMA TypeOfCall ==
  ASSUME FormsTypeOK, NEW s \in Sends, sent[s] # None
  PROVE  /\ sent[s] \in Calls /\ sent[s].key \in Keys /\ sent[s].body \in Bodies
         /\ sent[s].attempt \in 1..MaxAttempts /\ sent[s].fate \in Fates
<1>1. sent[s] \in Calls
  BY DEF FormsTypeOK
<1> QED  BY <1>1 DEF Calls, Fates

\* A call moves on, and is still the same call.
LEMMA MovesOnly ==
  ASSUME FormsTypeOK, NEW s \in Sends, sent[s] # None, NEW fate \in Fates, Moves(s, fate)
  PROVE  /\ sent' \in [Sends -> Calls \cup {None}]
         /\ \A r \in Sends \ {s} : sent'[r] = sent[r]
         /\ sent'[s] # None /\ sent'[s].fate = fate
         /\ sent'[s].key = sent[s].key /\ sent'[s].attempt = sent[s].attempt
<1>1. sent[s] \in Calls /\ sent \in [Sends -> Calls \cup {None}] /\ sent' = [sent EXCEPT ![s].fate = fate]
  BY TypeOfCall DEF FormsTypeOK, Moves
<1>2. sent'[s] = [sent[s] EXCEPT !.fate = fate] /\ \A r \in Sends \ {s} : sent'[r] = sent[r]
  BY <1>1
<1> DEFINE c == [sent[s] EXCEPT !.fate = fate]
<1>3. c \in Calls /\ c.fate = fate /\ c.key = sent[s].key /\ c.attempt = sent[s].attempt
  BY <1>1 DEF Calls, Fates
<1> HIDE DEF c
<1>4. sent' = [sent EXCEPT ![s] = c]
  BY <1>1 DEF c
<1>5. sent' \in [Sends -> Calls \cup {None}] /\ sent'[s] = c
  BY <1>1, <1>3, <1>4
<1> QED  BY <1>2, <1>3, <1>5, NoneIsNoCall

\* The initial state.
LEMMA FormsInvInit == FormsInit => FormsInv
<1> SUFFICES ASSUME FormsInit PROVE FormsInv
  OBVIOUS
<1>1. 1 \in 1..MaxAttempts /\ 1 \in 1..MaxKeys /\ 0 \in 0..MaxKeys /\ 1 \in 0..MaxKeys
  BY FormsAssumption
<1>2. FormsTypeOK
  BY <1>1 DEF FormsInit, FormsTypeOK, Keys
<1>3. \A s \in Sends : OwnsItsKey(s)
  BY DEF FormsInit, OwnsItsKey, At
<1>4. OneKeyPerAttempt
  <2>1. CASE form.keeps = "record"
    BY <2>1, KeptForTheMount, FormsAssumption DEF FormsInit, OneKeyPerAttempt
  <2>2. CASE form.keeps # "record"
    BY <2>2 DEF FormsInit, OneKeyPerAttempt
  <2> QED  BY <2>1, <2>2
<1> QED  BY <1>2, <1>3, <1>4 DEF FormsInit, FormsInv

\* A step of a call that leaves what is on the screen, the claims and the records alone.
LEMMA MovesKeeps ==
  ASSUME FormsInv, NEW s \in Sends, sent[s] # None, NEW fate \in Fates, Moves(s, fate),
         UNCHANGED <<form, serverSide>>, FormsTypeOK', OneKeyPerAttempt',
         fate \notin InHandler \cup {"asked"}, sent[s].fate \notin InHandler
  PROVE  FormsInv'
<1>1. /\ \A r \in Sends \ {s} : sent'[r] = sent[r]
      /\ sent'[s] # None /\ sent'[s].fate = fate
      /\ sent'[s].key = sent[s].key /\ sent'[s].attempt = sent[s].attempt
  BY MovesOnly DEF FormsInv
<1>2. UNCHANGED <<form, claim, kept, orphaned, made>>
  BY DEF serverSide
<1>3. \A r \in Sends : OwnsItsKey(r)'
  BY <1>1, <1>2 DEF FormsInv, OwnsItsKey, At
<1>4. \A r \in made : Accounted(r)'
  BY <1>1, <1>2 DEF FormsInv, FormsTypeOK, Accounted, InHandler
<1>5. \A r, t \in made : TwiceExplained(r, t)'
  BY <1>1, <1>2 DEF FormsInv, FormsTypeOK, TwiceExplained
<1> QED  BY <1>2, <1>3, <1>4, <1>5 DEF FormsInv

\* A call is sent.
LEMMA SubmitKeeps ==
  ASSUME FormsInv, NEW s \in Sends, NEW b \in Bodies, Submit(s, b)
  PROVE  FormsInv'
<1> DEFINE c == [attempt |-> attempt, key |-> key', body |-> b, fate |-> "asked"]
<1>1. sent[s] = None /\ sent' = [sent EXCEPT ![s] = c] /\ UNCHANGED <<form, mounted, claim, kept, orphaned, made>>
  BY DEF Submit, serverSide
<1>2. key' \in Keys /\ attempt' = attempt /\ drawn' \in 0..MaxKeys /\ (key # None => key' = key)
  BY DrawnKeys DEF Submit, FormsInv, FormsTypeOK
<1>3. c \in Calls /\ c.key = key' /\ c.attempt = attempt /\ c.fate = "asked"
  BY <1>2 DEF FormsInv, FormsTypeOK, Calls
<1> HIDE DEF c
<1>4. sent' \in [Sends -> Calls \cup {None}] /\ sent'[s] = c /\ \A r \in Sends \ {s} : sent'[r] = sent[r]
  BY <1>1, <1>3 DEF FormsInv, FormsTypeOK
<1>5. FormsTypeOK'
  BY <1>1, <1>2, <1>4 DEF FormsInv, FormsTypeOK, Keys, Kept, Calls
<1>6. \A r \in Sends : OwnsItsKey(r)'
  BY <1>1, <1>3, <1>4 DEF FormsInv, OwnsItsKey, At, InHandler
<1>7. s \notin made
  BY <1>1 DEF FormsInv, Accounted
<1>8. \A r \in made : Accounted(r)'
  BY <1>1, <1>4, <1>7 DEF FormsInv, FormsTypeOK, Accounted
<1>9. \A r, t \in made : TwiceExplained(r, t)'
  BY <1>1, <1>4, <1>7 DEF FormsInv, FormsTypeOK, TwiceExplained
<1>10. OneKeyPerAttempt'
  <2>1. CASE OncePerRecord(form) \/ form.redrawn
    <3>1. OncePerRecord(form)' \/ form'.redrawn
      BY <1>1, <2>1 DEF OncePerRecord
    <3> QED  BY <3>1 DEF OneKeyPerAttempt
  <2>2. CASE ~(OncePerRecord(form) \/ form.redrawn)
    <3>1. key = <<attempt, 1>> /\ \A r \in Sends : sent[r] # None => sent[r].key = <<sent[r].attempt, 1>>
      BY <2>2 DEF FormsInv, OneKeyPerAttempt
    <3>2. key # None
      <4>1. <<attempt, 1>> \in Keys
        BY FormsAssumption DEF FormsInv, FormsTypeOK, Keys
      <4> QED  BY <3>1, <4>1, NoneIsNoCall
    <3> QED  BY <1>2, <1>3, <1>4, <3>1, <3>2 DEF OneKeyPerAttempt
  <2> QED  BY <2>1, <2>2
<1> QED  BY <1>1, <1>5, <1>6, <1>8, <1>9, <1>10 DEF FormsInv, OncePerRecord

\* The row of the key is claimed.
LEMMA ClaimKeeps ==
  ASSUME FormsInv, NEW s \in Sends, Claim(s)
  PROVE  FormsInv'
<1> DEFINE k == sent[s].key
<1>1. /\ sent[s] # None /\ sent[s].fate = "asked" /\ claim[k] = None /\ kept[k] = None
      /\ claim' = [claim EXCEPT ![k] = s] /\ Moves(s, "running")
      /\ UNCHANGED <<form, mounted, attempt, drawn, key, kept, orphaned, made>>
  BY DEF Claim, At, screenSide
<1>2. /\ sent' \in [Sends -> Calls \cup {None}] /\ \A r \in Sends \ {s} : sent'[r] = sent[r]
      /\ sent'[s] # None /\ sent'[s].fate = "running" /\ sent'[s].key = k /\ sent'[s].attempt = sent[s].attempt
  BY <1>1, MovesOnly DEF FormsInv, Fates, InHandler
<1>3. k \in Keys
  BY <1>1, TypeOfCall DEF FormsInv
<1> HIDE DEF k
<1>4. claim' \in [Keys -> Sends \cup {None}] /\ claim'[k] = s /\ \A j \in Keys \ {k} : claim'[j] = claim[j]
  BY <1>1, <1>3 DEF FormsInv, FormsTypeOK
<1>5. FormsTypeOK'
  BY <1>1, <1>2, <1>4 DEF FormsInv, FormsTypeOK, Keys, Kept, Calls
<1>6. s \notin made /\ s # None
  BY <1>1, NoneIsNoCall DEF FormsInv, Accounted
<1>7. ASSUME NEW r \in Sends \ {s} PROVE OwnsItsKey(r)'
  <2>1. CASE sent[r] = None
    BY <1>2, <2>1 DEF OwnsItsKey, At
  <2>2. CASE sent[r] # None
    <3>1. sent[r].key \in Keys /\ (sent[r].key = k => claim[sent[r].key] # r)
      BY <1>1, <2>2, TypeOfCall, NoneIsNoCall DEF FormsInv
    <3> QED  BY <1>1, <1>2, <1>4, <2>2, <3>1 DEF FormsInv, OwnsItsKey, At
  <2> QED  BY <2>1, <2>2
<1>8. OwnsItsKey(s)'
  BY <1>2, <1>4 DEF OwnsItsKey
<1>9. ASSUME NEW r \in made PROVE Accounted(r)'
  <2>1. sent'[r] = sent[r] /\ r \in Sends /\ sent[r] # None /\ Accounted(r)
    BY <1>2, <1>6 DEF FormsInv, FormsTypeOK, Accounted
  <2>2. sent[r].key \in Keys /\ (sent[r].key = k => claim[sent[r].key] # r)
    BY <1>1, <2>1, TypeOfCall, NoneIsNoCall DEF FormsInv
  <2> QED  BY <1>1, <1>4, <2>1, <2>2 DEF Accounted
<1>10. \A r, t \in made : TwiceExplained(r, t)'
  BY <1>1, <1>2, <1>6 DEF FormsInv, FormsTypeOK, TwiceExplained, OncePerRecord
<1>11. OneKeyPerAttempt'
  BY <1>1, <1>2 DEF FormsInv, FormsTypeOK, OneKeyPerAttempt, OncePerRecord, k
<1>12. \A j \in Keys : claim'[j] # None => kept'[j] = None
  BY <1>1, <1>4 DEF FormsInv
<1> QED  BY <1>1, <1>5, <1>7, <1>8, <1>9, <1>10, <1>11, <1>12 DEF FormsInv

\* The handler commits a record, or refuses.
LEMMA RunHandlerKeeps ==
  ASSUME FormsInv, NEW s \in Sends, RunHandler(s)
  PROVE  FormsInv'
<1> DEFINE k == sent[s].key
<1>1. /\ sent[s] # None /\ sent[s].fate = "running"
      /\ UNCHANGED <<form, mounted, attempt, drawn, key, claim, kept, orphaned>>
  BY DEF RunHandler, At, screenSide
<1>2. PICK fate \in {"inserted", "declined"} :
          /\ Moves(s, fate)
          /\ fate = "inserted" => ~(OncePerRecord(form) /\ made # {}) /\ made' = made \cup {s}
          /\ fate = "declined" => made' = made
  BY DEF RunHandler
<1>3. /\ sent' \in [Sends -> Calls \cup {None}] /\ \A r \in Sends \ {s} : sent'[r] = sent[r]
      /\ sent'[s] # None /\ sent'[s].fate = fate /\ sent'[s].key = k /\ sent'[s].attempt = sent[s].attempt
  BY <1>1, <1>2, MovesOnly DEF FormsInv, Fates, InHandler
<1>4. k \in Keys /\ (claim[k] = s \/ k \in orphaned) /\ (claim[k] = s => kept[k] = None)
  BY <1>1, TypeOfCall, NoneIsNoCall DEF FormsInv, OwnsItsKey, At, InHandler
<1> HIDE DEF k
<1>5. FormsTypeOK'
  BY <1>1, <1>2, <1>3 DEF FormsInv, FormsTypeOK, Keys, Kept, Calls
<1>6. s \notin made /\ made \subseteq Sends
  BY <1>1 DEF FormsInv, FormsTypeOK, Accounted
<1>7. \A r \in Sends : OwnsItsKey(r)'
  BY <1>1, <1>3, <1>4 DEF FormsInv, OwnsItsKey, At
<1>8. \A r \in made : Accounted(r)'
  BY <1>1, <1>3, <1>6 DEF FormsInv, Accounted
<1>9. fate = "inserted" => Accounted(s)'
  BY <1>1, <1>3, <1>4 DEF Accounted
<1>10. ASSUME NEW r \in made, sent[r].key = k PROVE k \in orphaned
  <2>1. r # s /\ Accounted(r)
    BY <1>6 DEF FormsInv
  <2> QED  BY <1>4, <1>10, <2>1 DEF Accounted
<1>11. \A r, t \in made' : TwiceExplained(r, t)'
  <2>1. \A r, t \in made : TwiceExplained(r, t)'
    BY <1>1, <1>3, <1>6 DEF FormsInv, TwiceExplained, OncePerRecord
  <2>2. fate = "inserted" => \A r \in made : TwiceExplained(r, s)' /\ TwiceExplained(s, r)'
    BY <1>1, <1>2, <1>3, <1>6, <1>10 DEF TwiceExplained, OncePerRecord
  <2>3. TwiceExplained(s, s)'
    BY DEF TwiceExplained
  <2> QED  BY <1>2, <2>1, <2>2, <2>3
<1>12. OneKeyPerAttempt'
  BY <1>1, <1>3 DEF FormsInv, FormsTypeOK, OneKeyPerAttempt, OncePerRecord, k
<1> QED  BY <1>1, <1>2, <1>5, <1>7, <1>8, <1>9, <1>11, <1>12 DEF FormsInv

\* The answer is recorded, if the row is still the call's.
LEMMA CompleteKeeps ==
  ASSUME FormsInv, NEW s \in Sends, Complete(s)
  PROVE  FormsInv'
<1> DEFINE k == sent[s].key
           answer == IF sent[s].fate = "inserted" THEN "created" ELSE "refused"
           row == [body |-> sent[s].body, fate |-> answer]
<1>1. /\ sent[s] # None /\ sent[s].fate \in {"inserted", "declined"}
      /\ UNCHANGED <<form, mounted, attempt, drawn, key, orphaned, made>>
  BY DEF Complete, At, screenSide
<1>2. k \in Keys /\ sent[s].body \in Bodies /\ answer \in {"created", "refused"}
  BY <1>1, TypeOfCall DEF FormsInv
<1>3. row \in Kept /\ row # None
  BY <1>2, NoneIsNoCall DEF Kept
<1>4. PICK fate \in {"created", "refused", "error"} : Moves(s, fate)
  BY DEF Complete
<1>5. /\ sent' \in [Sends -> Calls \cup {None}] /\ \A r \in Sends \ {s} : sent'[r] = sent[r]
      /\ sent'[s] # None /\ sent'[s].fate = fate /\ sent'[s].key = k /\ sent'[s].attempt = sent[s].attempt
  BY <1>1, <1>4, MovesOnly DEF FormsInv, Fates, Answers
<1>6. \/ claim[k] = s /\ kept' = [kept EXCEPT ![k] = row] /\ claim' = [claim EXCEPT ![k] = None]
      \/ claim[k] # s /\ UNCHANGED <<claim, kept>>
  BY DEF Complete
<1> HIDE DEF row, answer
<1>7. /\ claim' \in [Keys -> Sends \cup {None}] /\ kept' \in [Keys -> Kept \cup {None}]
      /\ \A j \in Keys : \/ claim'[j] = claim[j] /\ kept'[j] = kept[j]
                         \/ j = k /\ claim[j] = s /\ claim'[j] = None /\ kept'[j] # None
  BY <1>2, <1>3, <1>6 DEF FormsInv, FormsTypeOK
<1>8. FormsTypeOK'
  BY <1>1, <1>5, <1>7 DEF FormsInv, FormsTypeOK, Keys, Kept, Calls
<1>9. ASSUME NEW r \in Sends PROVE OwnsItsKey(r)'
  <2>1. CASE r = s
    BY <1>5, <2>1 DEF OwnsItsKey, At, InHandler
  <2>2. CASE sent[r] = None /\ r # s
    BY <1>5, <2>2 DEF OwnsItsKey, At
  <2>3. CASE sent[r] # None /\ r # s
    <3>1. sent[r].key \in Keys /\ OwnsItsKey(r)
      BY <2>3, TypeOfCall DEF FormsInv
    <3> QED  BY <1>1, <1>5, <1>7, <2>3, <3>1 DEF OwnsItsKey, At
  <2> QED  BY <2>1, <2>2, <2>3
<1>10. ASSUME NEW r \in made PROVE Accounted(r)'
  <2>1. r \in Sends /\ sent[r] # None /\ Accounted(r)
    BY DEF FormsInv, FormsTypeOK, Accounted
  <2>2. sent[r].key \in Keys
    BY <2>1, TypeOfCall DEF FormsInv
  <2>3. sent'[r] # None /\ sent'[r].key = sent[r].key /\ (r # s => sent'[r] = sent[r])
    BY <1>5, <2>1 DEF k
  <2>4. CASE r = s
    <3>1. k \in orphaned \/ kept[k] # None \/ claim[k] = s
      BY <2>1, <2>4 DEF Accounted, k
    <3>2. k \in orphaned \/ kept'[k] # None
      BY <1>2, <1>3, <1>6, <3>1 DEF FormsInv, FormsTypeOK
    <3> QED  BY <1>1, <1>5, <2>4, <3>2 DEF Accounted
  <2>5. CASE r # s
    BY <1>1, <1>7, <2>1, <2>2, <2>3, <2>5 DEF Accounted
  <2> QED  BY <2>4, <2>5
<1> HIDE DEF k
<1>11. \A r, t \in made : TwiceExplained(r, t)'
  BY <1>1, <1>5 DEF FormsInv, FormsTypeOK, TwiceExplained, OncePerRecord, k
<1>12. OneKeyPerAttempt'
  BY <1>1, <1>5 DEF FormsInv, FormsTypeOK, OneKeyPerAttempt, OncePerRecord, k
<1>13. \A j \in Keys : claim'[j] # None => kept'[j] = None
  BY <1>7 DEF FormsInv
<1> QED  BY <1>1, <1>8, <1>9, <1>10, <1>11, <1>12, <1>13 DEF FormsInv

\* A claim is given up: the handler throws before its commit, or the claim is lost.
LEMMA UnclaimKeeps ==
  ASSUME FormsInv, NEW s \in Sends, HandlerThrows(s) \/ LoseClaim(s)
  PROVE  FormsInv'
<1> DEFINE k == sent[s].key
<1>1. /\ sent[s] # None /\ sent[s].fate \in InHandler
      /\ UNCHANGED <<form, mounted, attempt, drawn, key, kept, made>>
      /\ claim' = claim \/ (claim[k] = s /\ claim' = [claim EXCEPT ![k] = None])
      /\ \/ orphaned' = orphaned \cup {k} /\ ClaimsLost
         \/ orphaned' = orphaned /\ sent[s].fate = "running"
  <2>1. CASE HandlerThrows(s)
    BY <2>1 DEF HandlerThrows, At, InHandler, screenSide
  <2>2. CASE LoseClaim(s)
    BY <2>2 DEF LoseClaim, At, screenSide
  <2> QED  BY <2>1, <2>2
<1>2. k \in Keys /\ sent[s].fate \in Fates
  BY <1>1, TypeOfCall DEF FormsInv
<1>3. PICK fate \in Fates : /\ Moves(s, fate) /\ (fate = sent[s].fate \/ fate = "error")
                            /\ fate \in InHandler => k \in orphaned'
  BY <1>2 DEF HandlerThrows, LoseClaim, Fates, Answers, InHandler
<1>4. /\ sent' \in [Sends -> Calls \cup {None}] /\ \A r \in Sends \ {s} : sent'[r] = sent[r]
      /\ sent'[s] # None /\ sent'[s].fate = fate /\ sent'[s].key = k /\ sent'[s].attempt = sent[s].attempt
  BY <1>1, <1>3, MovesOnly DEF FormsInv
<1>5. /\ claim' \in [Keys -> Sends \cup {None}] /\ orphaned' \subseteq Keys /\ orphaned \subseteq orphaned'
      /\ \A j \in Keys : claim'[j] = claim[j] \/ (j = k /\ claim[j] = s /\ claim'[j] = None)
  BY <1>1, <1>2 DEF FormsInv, FormsTypeOK
<1>6. FormsTypeOK'
  BY <1>1, <1>4, <1>5 DEF FormsInv, FormsTypeOK, Keys, Kept, Calls
<1>7. ASSUME NEW r \in Sends PROVE OwnsItsKey(r)'
  <2>1. CASE r = s
    BY <1>3, <1>4, <2>1 DEF OwnsItsKey, At
  <2>2. CASE sent[r] = None /\ r # s
    BY <1>4, <2>2 DEF OwnsItsKey, At
  <2>3. CASE sent[r] # None /\ r # s
    <3>1. sent[r].key \in Keys /\ OwnsItsKey(r)
      BY <2>3, TypeOfCall DEF FormsInv
    <3> QED  BY <1>4, <1>5, <2>3, <3>1 DEF OwnsItsKey, At
  <2> QED  BY <2>1, <2>2, <2>3
<1>8. ASSUME NEW r \in made PROVE Accounted(r)'
  <2>1. r \in Sends /\ sent[r] # None /\ Accounted(r)
    BY DEF FormsInv, FormsTypeOK, Accounted
  <2>2. sent[r].key \in Keys
    BY <2>1, TypeOfCall DEF FormsInv
  <2>3. CASE r = s
    <3>1. sent[s].fate # "running"
      BY <2>1, <2>3 DEF Accounted
    <3> QED  BY <1>1, <1>3, <1>4, <2>1, <2>3, <3>1 DEF Accounted
  <2>4. CASE r # s
    BY <1>1, <1>4, <1>5, <2>1, <2>2, <2>4 DEF Accounted
  <2> QED  BY <2>3, <2>4
<1> HIDE DEF k
<1>9. \A r, t \in made : TwiceExplained(r, t)'
  BY <1>1, <1>4, <1>5 DEF FormsInv, FormsTypeOK, TwiceExplained, OncePerRecord, k
<1>10. OneKeyPerAttempt'
  BY <1>1, <1>4 DEF FormsInv, FormsTypeOK, OneKeyPerAttempt, OncePerRecord, k
<1>11. \A j \in Keys : claim'[j] # None => kept'[j] = None
  BY <1>1, <1>5 DEF FormsInv
<1> QED  BY <1>1, <1>6, <1>7, <1>8, <1>9, <1>10, <1>11 DEF FormsInv

\* A call is answered from what is kept, gives up, or its answer is lost.
LEMMA AnswerKeeps ==
  ASSUME FormsInv, NEW s \in Sends, ReplayKept(s) \/ GiveUp(s) \/ LoseTold(s)
  PROVE  FormsInv'
<1>1. /\ sent[s] # None /\ sent[s].fate \in {"asked"} \cup Answers /\ UNCHANGED <<form, screenSide, serverSide>>
  BY DEF ReplayKept, GiveUp, LoseTold, At
<1>2. PICK fate \in Answers \cup {"over"} : Moves(s, fate)
  <2>1. CASE ReplayKept(s)
    <3>1. sent[s].key \in Keys /\ kept[sent[s].key] # None
      BY <1>1, <2>1, TypeOfCall DEF FormsInv, ReplayKept
    <3>2. kept[sent[s].key].fate \in {"created", "refused"}
      BY <3>1 DEF FormsInv, FormsTypeOK, Kept
    <3> QED  BY <2>1, <3>2 DEF ReplayKept, Answers
  <2>2. CASE GiveUp(s) \/ LoseTold(s)
    BY <2>2 DEF GiveUp, LoseTold, Answers
  <2> QED  BY <2>1, <2>2
<1>3. fate \in Fates /\ fate \notin InHandler \cup {"asked"} /\ sent[s].fate \notin InHandler
  BY <1>1 DEF Fates, Answers, InHandler
<1>4. /\ sent' \in [Sends -> Calls \cup {None}] /\ \A r \in Sends \ {s} : sent'[r] = sent[r]
      /\ sent'[s].key = sent[s].key /\ sent'[s].attempt = sent[s].attempt
  BY <1>1, <1>2, <1>3, MovesOnly DEF FormsInv
<1>5. UNCHANGED <<form, mounted, attempt, drawn, key, claim, kept, orphaned, made>>
  BY <1>1 DEF screenSide, serverSide
<1>6. FormsTypeOK'
  BY <1>4, <1>5 DEF FormsInv, FormsTypeOK, Keys, Kept, Calls
<1>7. OneKeyPerAttempt'
  BY <1>1, <1>4, <1>5 DEF FormsInv, FormsTypeOK, OneKeyPerAttempt, OncePerRecord
<1> QED  BY <1>1, <1>2, <1>3, <1>6, <1>7, MovesKeeps

\* An answer reaches the form.
LEMMA ToldKeeps ==
  ASSUME FormsInv, NEW s \in Sends, Told(s)
  PROVE  FormsInv'
<1>1. /\ sent[s] # None /\ sent[s].fate \in Answers /\ Moves(s, "over") /\ UNCHANGED <<form, serverSide>>
  BY DEF Told, At
<1>2. "over" \in Fates /\ "over" \notin InHandler \cup {"asked"} /\ sent[s].fate \notin InHandler
  BY <1>1 DEF Fates, InHandler, Answers
<1>3. /\ sent' \in [Sends -> Calls \cup {None}] /\ \A r \in Sends \ {s} : sent'[r] = sent[r]
      /\ sent'[s].key = sent[s].key /\ sent'[s].attempt = sent[s].attempt
  BY <1>1, <1>2, MovesOnly DEF FormsInv
<1>4. mounted' \in BOOLEAN
  BY DEF Told, CloseAfter, screenSide, FormsInv, FormsTypeOK
<1>5. \/ UNCHANGED <<attempt, drawn, key>>
      \/ form.keeps = "success" /\ (NextAttempt \/ FreshKey)
      \/ form.keeps = "record" /\ key' = None /\ UNCHANGED <<attempt, drawn>>
  BY DEF Told, KeyAfter, screenSide
<1>6. attempt' \in 1..MaxAttempts /\ drawn' \in 0..MaxKeys /\ key' \in Keys \cup {None}
  BY <1>5, DrawnKeys DEF FormsInv, FormsTypeOK
<1>7. FormsTypeOK'
  BY <1>1, <1>3, <1>4, <1>6 DEF serverSide, FormsInv, FormsTypeOK, Keys, Kept, Calls
<1>8. OneKeyPerAttempt'
  <2>1. CASE OncePerRecord(form) \/ form.redrawn
    <3>1. OncePerRecord(form)' \/ form'.redrawn
      BY <1>1, <2>1 DEF OncePerRecord
    <3> QED  BY <3>1 DEF OneKeyPerAttempt
  <2>2. CASE ~(OncePerRecord(form) \/ form.redrawn)
    <3>1. form.keeps = "mount"
      BY <2>2, KeptForTheMount, FormsAssumption DEF FormsInv, FormsTypeOK
    <3> QED  BY <1>1, <1>3, <1>5, <2>2, <3>1 DEF FormsInv, FormsTypeOK, OneKeyPerAttempt
  <2> QED  BY <2>1, <2>2
<1> QED  BY <1>1, <1>2, <1>7, <1>8, MovesKeeps

\* The form is drawn anew, or left and opened again.
LEMMA RemountKeeps ==
  ASSUME FormsInv, Redraw \/ Reopen
  PROVE  FormsInv'
<1>1. UNCHANGED <<form, claim, kept, orphaned, made, sent>> /\ mounted' \in BOOLEAN
  BY DEF Redraw, Reopen, serverSide, FormsInv, FormsTypeOK
<1>2. \/ form.redrawn /\ FreshKey
      \/ NextAttempt
      \/ form.keeps = "record" /\ attempt < MaxAttempts /\ attempt' = attempt + 1 /\ drawn' = 0 /\ key' = None
  BY DEF Redraw, Reopen
<1>3. attempt' \in 1..MaxAttempts /\ drawn' \in 0..MaxKeys /\ key' \in Keys \cup {None}
  <2>1. CASE FreshKey \/ NextAttempt
    BY <2>1, DrawnKeys DEF FormsInv, FormsTypeOK
  <2>2. CASE attempt < MaxAttempts /\ attempt' = attempt + 1 /\ drawn' = 0 /\ key' = None
    BY <2>2, FormsAssumption DEF FormsInv, FormsTypeOK
  <2> QED  BY <1>2, <2>1, <2>2
<1>4. FormsTypeOK'
  BY <1>1, <1>3 DEF FormsInv, FormsTypeOK, Keys, Kept, Calls
<1>5. OneKeyPerAttempt'
  <2>1. CASE OncePerRecord(form) \/ form.redrawn
    <3>1. OncePerRecord(form)' \/ form'.redrawn
      BY <1>1, <2>1 DEF OncePerRecord
    <3> QED  BY <3>1 DEF OneKeyPerAttempt
  <2>2. CASE ~(OncePerRecord(form) \/ form.redrawn)
    <3>1. form.keeps = "mount"
      BY <2>2, KeptForTheMount, FormsAssumption DEF FormsInv, FormsTypeOK
    <3>2. key' = <<attempt', 1>>
      BY <1>2, <2>2, <3>1, DrawnKeys DEF FormsInv
    <3> QED  BY <1>1, <2>2, <3>2 DEF FormsInv, OneKeyPerAttempt
  <2> QED  BY <2>1, <2>2
<1> QED
  BY <1>1, <1>4, <1>5 DEF FormsInv, OwnsItsKey, At, Accounted, TwiceExplained, OncePerRecord, Keys

\* Every step.
LEMMA FormsInvStep == FormsInv /\ [FormsNext]_formVars => FormsInv'
<1> SUFFICES ASSUME FormsInv, [FormsNext]_formVars PROVE FormsInv'
  OBVIOUS
<1>1. ASSUME NEW s \in Sends, CallNext(s) PROVE FormsInv'
  BY <1>1, SubmitKeeps, ClaimKeeps, RunHandlerKeeps, CompleteKeeps, UnclaimKeeps, AnswerKeeps, ToldKeeps
     DEF CallNext
<1>2. CASE UNCHANGED formVars
  BY <1>2 DEF formVars, screenSide, serverSide, FormsInv, FormsTypeOK, Keys, Kept, Calls, OwnsItsKey, At,
     Accounted, TwiceExplained, OneKeyPerAttempt, OncePerRecord
<1> QED  BY <1>1, <1>2, RemountKeeps DEF FormsNext

\* The invariant holds.
LEMMA FormsInvHolds == FormsSpec => []FormsInv
  BY FormsInvInit, FormsInvStep, PTL DEF FormsSpec

(***************************************************************************)
(* What the user wants to record once is recorded twice only if the claim  *)
(* of its key was lost or its form was drawn anew, and a deed on one       *)
(* record never, for any number of calls, attempts, keys and bodies.       *)
(***************************************************************************)
THEOREM OneRecordUnlessRedrawnCorrect == FormsSpec => []OneRecordUnlessRedrawn
<1>1. ASSUME FormsInv PROVE OneRecordUnlessRedrawn
  <2> SUFFICES ASSUME NEW s \in made, NEW t \in made, sent[s].attempt = sent[t].attempt, s # t
               PROVE  /\ ~OncePerRecord(form)
                      /\ IF sent[s].key = sent[t].key THEN sent[s].key \in orphaned ELSE form.redrawn
    BY DEF OneRecordUnlessRedrawn
  <2>1. ~OncePerRecord(form) /\ (sent[s].key = sent[t].key => sent[s].key \in orphaned)
    BY <1>1 DEF FormsInv, TwiceExplained
  <2>2. s \in Sends /\ t \in Sends /\ sent[s] # None /\ sent[t] # None
    BY <1>1 DEF FormsInv, FormsTypeOK, Accounted
  <2> QED  BY <1>1, <2>1, <2>2 DEF FormsInv, OneKeyPerAttempt
<1> QED  BY <1>1, FormsInvHolds, PTL

(***************************************************************************)
(* Where no form is drawn anew and no claim lost, it is recorded once.     *)
(***************************************************************************)
THEOREM OneRecordPerAttemptCorrect ==
  ASSUME ~ClaimsLost, \A f \in InUse : ~f.redrawn
  PROVE  FormsSpec => []OneRecordPerAttempt
<1>1. FormsInv /\ OneRecordUnlessRedrawn => OneRecordPerAttempt
  BY DEF FormsInv, FormsTypeOK, OneRecordUnlessRedrawn, OneRecordPerAttempt
<1> QED  BY <1>1, FormsInvHolds, OneRecordUnlessRedrawnCorrect, PTL

-----------------------------------------------------------------------------
(* What the pages offer and what the routes accept.                        *)

\* Some route grants deed d in status s to whoever passes gate, on an incomplete record too unless full.
Granted(routes, d, s, complete, gate) ==
    \E r \in routes : r.does = d /\ s \in r.from /\ (r.needs => complete) /\ (r.gate = "open" \/ gate # "open")

\* Whatever is offered is granted, or known not to be.
Honoured(p, offers, routes) ==
    \A o \in offers : <<p, o.does>> \in Careless \/ \A s \in o.when :
              Granted(routes, o.does, s, o.needs, o.gate)

\* What one of two sets of routes grants, both grant.
LEMMA GrantedByEither ==
  ASSUME NEW A, NEW B, NEW d, NEW s, NEW n, NEW g, Granted(A, d, s, n, g) \/ Granted(B, d, s, n, g)
  PROVE  Granted(A \cup B, d, s, n, g)
  BY DEF Granted

\* What a route grants.
LEMMA GrantedByRoute ==
  ASSUME NEW h, NEW D, NEW F, NEW i, NEW d \in D, NEW s \in F, NEW n, NEW g, h = "open" \/ g # "open"
  PROVE  Granted(Route(h, D, F, i), d, s, n, g)
<1> DEFINE r == [does |-> d, from |-> F, into |-> i, needs |-> FALSE, gate |-> h]
<1>1. r \in Route(h, D, F, i)
  BY DEF Route
<1>2. r.does = d /\ r.from = F /\ ~r.needs /\ r.gate = h
  OBVIOUS
<1> HIDE DEF r
<1> QED  BY <1>1, <1>2 DEF Granted

\* The same of routes that refuse an incomplete record.
LEMMA GrantedByCheckedEither ==
  ASSUME NEW A, NEW B, NEW d, NEW s, NEW n, NEW g, Granted(Checked(A), d, s, n, g) \/ Granted(Checked(B), d, s, n, g)
  PROVE  Granted(Checked(A \cup B), d, s, n, g)
  BY DEF Granted, Checked

\* What such a route grants, on a complete record.
LEMMA GrantedByChecked ==
  ASSUME NEW h, NEW D, NEW F, NEW i, NEW d \in D, NEW s \in F, NEW g, h = "open" \/ g # "open"
  PROVE  Granted(Checked(Route(h, D, F, i)), d, s, TRUE, g)
<1> DEFINE r == [does |-> d, from |-> F, into |-> i, needs |-> FALSE, gate |-> h]
           c == [r EXCEPT !.needs = TRUE]
<1>1. r \in Route(h, D, F, i)
  BY DEF Route
<1>2. c.does = d /\ c.from = F /\ c.gate = h
  OBVIOUS
<1> HIDE DEF r
<1>3. c \in Checked(Route(h, D, F, i))
  BY <1>1 DEF Checked
<1> HIDE DEF c
<1> QED  BY <1>2, <1>3 DEF Granted

\* Offers that are honoured one by one are honoured together.
LEMMA EitherHonoured ==
  ASSUME NEW p, NEW A, NEW B, NEW R, Honoured(p, A, R), Honoured(p, B, R)
  PROVE  Honoured(p, A \cup B, R)
  BY DEF Honoured

\* One offer.
LEMMA OfferHonoured ==
  ASSUME NEW p, NEW g, NEW D, NEW W, NEW R,
         \A d \in D : <<p, d>> \in Careless \/ \A s \in W : Granted(R, d, s, FALSE, g)
  PROVE  Honoured(p, Offer(g, D, W), R)
<1> SUFFICES ASSUME NEW o \in Offer(g, D, W)
             PROVE  <<p, o.does>> \in Careless \/ \A s \in o.when : Granted(R, o.does, s, o.needs, o.gate)
  BY DEF Honoured
<1>1. PICK d \in D : o = [does |-> d, when |-> W, needs |-> FALSE, lacks |-> FALSE, gate |-> g]
  BY DEF Offer
<1>2. o.does = d /\ o.when = W /\ o.needs = FALSE /\ o.gate = g
  BY <1>1
<1> QED  BY <1>2

\* One that waits for the record to be complete.
LEMMA CompletedHonoured ==
  ASSUME NEW p, NEW g, NEW D, NEW W, NEW R,
         \A d \in D : <<p, d>> \in Careless \/ \A s \in W : Granted(R, d, s, TRUE, g)
  PROVE  Honoured(p, Completed(Offer(g, D, W)), R)
<1> SUFFICES ASSUME NEW o \in Completed(Offer(g, D, W))
             PROVE  <<p, o.does>> \in Careless \/ \A s \in o.when : Granted(R, o.does, s, o.needs, o.gate)
  BY DEF Honoured
<1>1. PICK d \in D : o = [[does |-> d, when |-> W, needs |-> FALSE, lacks |-> FALSE, gate |-> g] EXCEPT !.needs = TRUE]
  BY DEF Completed, Offer
<1>2. o.does = d /\ o.when = W /\ o.needs = TRUE /\ o.gate = g
  BY <1>1
<1> QED  BY <1>2

\* One that goes when the record is complete.
LEMMA LackingHonoured ==
  ASSUME NEW p, NEW g, NEW D, NEW W, NEW R,
         \A d \in D : <<p, d>> \in Careless \/ \A s \in W : Granted(R, d, s, FALSE, g)
  PROVE  Honoured(p, Lacking(Offer(g, D, W)), R)
<1> SUFFICES ASSUME NEW o \in Lacking(Offer(g, D, W))
             PROVE  <<p, o.does>> \in Careless \/ \A s \in o.when : Granted(R, o.does, s, o.needs, o.gate)
  BY DEF Honoured
<1>1. PICK d \in D : o = [[does |-> d, when |-> W, needs |-> FALSE, lacks |-> FALSE, gate |-> g] EXCEPT !.lacks = TRUE]
  BY DEF Lacking, Offer
<1>2. o.does = d /\ o.when = W /\ o.needs = FALSE /\ o.gate = g
  BY <1>1
<1> QED  BY <1>2

\* What is reviewed: a measurement, a certificate, a payroll period.
LEMMA GrantedByReviewed ==
  ASSUME NEW g, NEW a
  PROVE  /\ Granted(Reviewed(g, a), "create", "none", FALSE, g)
         /\ \A s \in Editable : /\ Granted(Reviewed(g, a), "addLine", s, FALSE, g)
                                             /\ Granted(Reviewed(g, a), "deleteLine", s, TRUE, g)
                                             /\ Granted(Reviewed(g, a), "submit", s, TRUE, g)
         /\ Granted(Reviewed(g, a), "approve", "submitted", FALSE, a)
         /\ Granted(Reviewed(g, a), "reject", "submitted", FALSE, a)
<1>1. Granted(Reviewed(g, a), "create", "none", FALSE, g)
  BY GrantedByEither, GrantedByRoute DEF Reviewed
<1>2. \A s \in Editable : Granted(Reviewed(g, a), "addLine", s, FALSE, g)
  BY GrantedByEither, GrantedByRoute DEF Reviewed
<1>3. \A s \in Editable : Granted(Reviewed(g, a), "deleteLine", s, TRUE, g)
  BY GrantedByEither, GrantedByCheckedEither, GrantedByChecked DEF Reviewed
<1>4. \A s \in Editable : Granted(Reviewed(g, a), "submit", s, TRUE, g)
  BY GrantedByEither, GrantedByCheckedEither, GrantedByChecked DEF Reviewed
<1>5. Granted(Reviewed(g, a), "approve", "submitted", FALSE, a)
  BY GrantedByEither, GrantedByRoute DEF Reviewed
<1>6. Granted(Reviewed(g, a), "reject", "submitted", FALSE, a)
  BY GrantedByEither, GrantedByRoute DEF Reviewed
<1> QED  BY <1>1, <1>2, <1>3, <1>4, <1>5, <1>6

\* What is never deleted: a customer, a supplier, an employee, a member.
LEMMA GrantedByDirectory ==
  ASSUME NEW g
  PROVE  /\ Granted(Directory(g), "create", "none", FALSE, g)
         /\ \A s \in {"active", "inactive"} : Granted(Directory(g), "edit", s, FALSE, g)
         /\ Granted(Directory(g), "deactivate", "active", FALSE, g)
         /\ Granted(Directory(g), "reactivate", "inactive", FALSE, g)
<1>1. Granted(Directory(g), "create", "none", FALSE, g)
  BY GrantedByEither, GrantedByRoute DEF Directory
<1>2. \A s \in {"active", "inactive"} : Granted(Directory(g), "edit", s, FALSE, g)
  <2>1. Granted(Directory(g), "edit", "active", FALSE, g)
    BY GrantedByEither, GrantedByRoute DEF Directory
  <2>2. Granted(Directory(g), "edit", "inactive", FALSE, g)
    BY GrantedByEither, GrantedByRoute DEF Directory
  <2> QED  BY <2>1, <2>2
<1>3. Granted(Directory(g), "deactivate", "active", FALSE, g)
  BY GrantedByEither, GrantedByRoute DEF Directory
<1>4. Granted(Directory(g), "reactivate", "inactive", FALSE, g)
  BY GrantedByEither, GrantedByRoute DEF Directory
<1> QED  BY <1>1, <1>2, <1>3, <1>4

\* The page of ipc.
LEMMA IpcHonoured == Honoured("ipc", OffersOf.ipc, RoutesOf.ipc)
<1>1. Granted(IpcRoutes, "create", "none", FALSE, "ipc.manage")
  BY GrantedByEither, GrantedByRoute, GrantedByReviewed DEF IpcRoutes
<1>2. \A s \in Editable : Granted(IpcRoutes, "submit", s, TRUE, "ipc.manage")
  BY GrantedByEither, GrantedByRoute, GrantedByCheckedEither, GrantedByChecked, GrantedByReviewed DEF IpcRoutes
<1>3. Granted(IpcRoutes, "approve", "submitted", FALSE, "ipc.manage")
  BY GrantedByEither, GrantedByRoute, GrantedByReviewed DEF IpcRoutes
<1>4. Granted(IpcRoutes, "certify", "approved", FALSE, "ipc.manage")
  BY GrantedByEither, GrantedByRoute, GrantedByReviewed DEF IpcRoutes
<1>5. \A s \in Editable : Granted(IpcRoutes, "addLine", s, FALSE, "ipc.manage")
  BY GrantedByEither, GrantedByRoute, GrantedByReviewed DEF IpcRoutes
<1>6. \A s \in Editable : Granted(IpcRoutes, "deleteLine", s, TRUE, "ipc.manage")
  BY GrantedByEither, GrantedByRoute, GrantedByCheckedEither, GrantedByChecked, GrantedByReviewed DEF IpcRoutes
<1>7. Granted(IpcRoutes, "reject", "submitted", FALSE, "ipc.manage")
  BY GrantedByEither, GrantedByRoute, GrantedByReviewed DEF IpcRoutes
<1>8. Honoured("ipc", IpcCreate, IpcRoutes)
  BY <1>1, OfferHonoured DEF IpcCreate, NotThere
<1>9. Honoured("ipc", IpcDetail, IpcRoutes)
  BY <1>2, <1>3, <1>4, EitherHonoured, OfferHonoured, CompletedHonoured DEF IpcDetail
<1>10. Honoured("ipc", IpcForms, IpcRoutes)
  BY <1>5, <1>6, <1>7, EitherHonoured, OfferHonoured, CompletedHonoured DEF IpcForms
<1>11. Honoured("ipc", IpcCreate \cup IpcDetail \cup IpcForms, IpcRoutes)
  BY <1>8, <1>9, <1>10, EitherHonoured
<1> QED  BY <1>11 DEF OffersOf, RoutesOf

\* The page of subIpc.
LEMMA SubIpcHonoured == Honoured("subIpc", OffersOf.subIpc, RoutesOf.subIpc)
<1>1. Granted(SubIpcRoutes, "create", "none", FALSE, "subcontractIpc.manage")
  BY GrantedByEither, GrantedByRoute, GrantedByReviewed DEF SubIpcRoutes
<1>2. \A s \in Editable : Granted(SubIpcRoutes, "submit", s, TRUE, "subcontractIpc.manage")
  BY GrantedByEither, GrantedByRoute, GrantedByCheckedEither, GrantedByChecked, GrantedByReviewed DEF
     SubIpcRoutes
<1>3. Granted(SubIpcRoutes, "approve", "submitted", FALSE, "subcontractIpc.manage")
  BY GrantedByEither, GrantedByRoute, GrantedByReviewed DEF SubIpcRoutes
<1>4. Granted(SubIpcRoutes, "certify", "approved", FALSE, "subcontractIpc.manage")
  BY GrantedByEither, GrantedByRoute, GrantedByReviewed DEF SubIpcRoutes
<1>5. \A s \in Editable : Granted(SubIpcRoutes, "addLine", s, FALSE, "subcontractIpc.manage")
  BY GrantedByEither, GrantedByRoute, GrantedByReviewed DEF SubIpcRoutes
<1>6. \A s \in Editable : Granted(SubIpcRoutes, "deleteLine", s, TRUE, "subcontractIpc.manage")
  BY GrantedByEither, GrantedByRoute, GrantedByCheckedEither, GrantedByChecked, GrantedByReviewed DEF
     SubIpcRoutes
<1>7. Granted(SubIpcRoutes, "reject", "submitted", FALSE, "subcontractIpc.manage")
  BY GrantedByEither, GrantedByRoute, GrantedByReviewed DEF SubIpcRoutes
<1>8. \A s \in {"draft", "submitted", "rejected", "approved", "certified"} :
          Granted(SubIpcRoutes, "upload", s, FALSE, "subcontractIpc.manage")
  <2>1. Granted(SubIpcRoutes, "upload", "draft", FALSE, "subcontractIpc.manage")
    BY GrantedByEither, GrantedByRoute, GrantedByReviewed DEF SubIpcRoutes
  <2>2. Granted(SubIpcRoutes, "upload", "submitted", FALSE, "subcontractIpc.manage")
    BY GrantedByEither, GrantedByRoute, GrantedByReviewed DEF SubIpcRoutes
  <2>3. Granted(SubIpcRoutes, "upload", "rejected", FALSE, "subcontractIpc.manage")
    BY GrantedByEither, GrantedByRoute, GrantedByReviewed DEF SubIpcRoutes
  <2>4. Granted(SubIpcRoutes, "upload", "approved", FALSE, "subcontractIpc.manage")
    BY GrantedByEither, GrantedByRoute, GrantedByReviewed DEF SubIpcRoutes
  <2>5. Granted(SubIpcRoutes, "upload", "certified", FALSE, "subcontractIpc.manage")
    BY GrantedByEither, GrantedByRoute, GrantedByReviewed DEF SubIpcRoutes
  <2> QED  BY <2>1, <2>2, <2>3, <2>4, <2>5
<1>9. Honoured("subIpc", SubIpcCreate, SubIpcRoutes)
  BY <1>1, OfferHonoured DEF SubIpcCreate, NotThere
<1>10. Honoured("subIpc", SubIpcDetail, SubIpcRoutes)
  BY <1>2, <1>3, <1>4, EitherHonoured, OfferHonoured, CompletedHonoured DEF SubIpcDetail
<1>11. Honoured("subIpc", SubIpcForms, SubIpcRoutes)
  BY <1>5, <1>6, <1>7, EitherHonoured, OfferHonoured, CompletedHonoured DEF SubIpcForms
<1>12. Honoured("subIpc", SubIpcEvidence, SubIpcRoutes)
  BY <1>8, OfferHonoured DEF SubIpcEvidence
<1>13. Honoured("subIpc", SubIpcCreate \cup SubIpcDetail \cup SubIpcForms \cup SubIpcEvidence, SubIpcRoutes)
  BY <1>9, <1>10, <1>11, <1>12, EitherHonoured
<1> QED  BY <1>13 DEF OffersOf, RoutesOf

\* The page of measurement.
LEMMA MeasurementHonoured == Honoured("measurement", OffersOf.measurement, RoutesOf.measurement)
<1>1. Granted(MeasurementRoutes, "create", "none", FALSE, "open")
  BY GrantedByEither, GrantedByRoute, GrantedByReviewed DEF MeasurementRoutes
<1>2. \A s \in Editable : Granted(MeasurementRoutes, "submit", s, TRUE, "open")
  BY GrantedByEither, GrantedByRoute, GrantedByCheckedEither, GrantedByChecked, GrantedByReviewed DEF
     MeasurementRoutes
<1>3. Granted(MeasurementRoutes, "approve", "submitted", FALSE, "measurement.approve")
  BY GrantedByEither, GrantedByRoute, GrantedByReviewed DEF MeasurementRoutes
<1>4. \A s \in Editable : Granted(MeasurementRoutes, "addLine", s, FALSE, "open")
  BY GrantedByEither, GrantedByRoute, GrantedByReviewed DEF MeasurementRoutes
<1>5. \A s \in Editable : Granted(MeasurementRoutes, "deleteLine", s, TRUE, "open")
  BY GrantedByEither, GrantedByRoute, GrantedByCheckedEither, GrantedByChecked, GrantedByReviewed DEF
     MeasurementRoutes
<1>6. Granted(MeasurementRoutes, "reject", "submitted", FALSE, "measurement.approve")
  BY GrantedByEither, GrantedByRoute, GrantedByReviewed DEF MeasurementRoutes
<1>7. Honoured("measurement", MeasurementCreate, MeasurementRoutes)
  BY <1>1, OfferHonoured DEF MeasurementCreate, NotThere
<1>8. Honoured("measurement", MeasurementDetail, MeasurementRoutes)
  BY <1>2, <1>3, EitherHonoured, OfferHonoured, CompletedHonoured DEF MeasurementDetail
<1>9. Honoured("measurement", MeasurementForms, MeasurementRoutes)
  BY <1>4, <1>5, <1>6, EitherHonoured, OfferHonoured, CompletedHonoured DEF MeasurementForms
<1>10. Honoured("measurement", MeasurementCreate \cup MeasurementDetail
                  \cup MeasurementForms, MeasurementRoutes)
  BY <1>7, <1>8, <1>9, EitherHonoured
<1> QED  BY <1>10 DEF OffersOf, RoutesOf

\* The page of commitment.
LEMMA CommitmentHonoured == Honoured("commitment", OffersOf.commitment, RoutesOf.commitment)
<1>1. Granted(CommitmentRoutes, "create", "none", FALSE, "commitment.manage")
  BY GrantedByEither, GrantedByRoute DEF CommitmentRoutes
<1>2. Granted(CommitmentRoutes, "approve", "pending_approval", FALSE, "commitment.manage")
  BY GrantedByEither, GrantedByRoute DEF CommitmentRoutes
<1>3. \A s \in {"draft", "pending_approval"} :
          Granted(CommitmentRoutes, "cancel", s, FALSE, "commitment.manage")
  <2>1. Granted(CommitmentRoutes, "cancel", "draft", FALSE, "commitment.manage")
    BY GrantedByEither, GrantedByRoute DEF CommitmentRoutes
  <2>2. Granted(CommitmentRoutes, "cancel", "pending_approval", FALSE, "commitment.manage")
    BY GrantedByEither, GrantedByRoute DEF CommitmentRoutes
  <2> QED  BY <2>1, <2>2
<1>4. Granted(CommitmentRoutes, "changeTerms", "draft", FALSE, "commitment.manage")
  BY GrantedByEither, GrantedByRoute DEF CommitmentRoutes
<1>5. Granted(CommitmentRoutes, "deleteLine", "draft", TRUE, "commitment.manage")
  BY GrantedByEither, GrantedByRoute, GrantedByCheckedEither, GrantedByChecked DEF CommitmentRoutes
<1>6. Granted(CommitmentRoutes, "addLine", "draft", FALSE, "commitment.manage")
  BY GrantedByEither, GrantedByRoute DEF CommitmentRoutes
<1>7. \A s \in {"active", "partially_fulfilled"} :
          Granted(CommitmentRoutes, "amend", s, FALSE, "commitment.manage")
  <2>1. Granted(CommitmentRoutes, "amend", "active", FALSE, "commitment.manage")
    BY GrantedByEither, GrantedByRoute DEF CommitmentRoutes
  <2>2. Granted(CommitmentRoutes, "amend", "partially_fulfilled", FALSE, "commitment.manage")
    BY GrantedByEither, GrantedByRoute DEF CommitmentRoutes
  <2> QED  BY <2>1, <2>2
<1>8. <<"commitment", "submit">> \in Careless
  BY DEF Careless
<1>9. Honoured("commitment", CommitmentCreate, CommitmentRoutes)
  BY <1>1, OfferHonoured DEF CommitmentCreate, NotThere
<1>10. Honoured("commitment", CommitmentDetail, CommitmentRoutes)
  BY <1>2, <1>3, <1>8, EitherHonoured, OfferHonoured DEF CommitmentDetail
<1>11. Honoured("commitment", CommitmentTerms, CommitmentRoutes)
  BY <1>4, <1>5, EitherHonoured, OfferHonoured, CompletedHonoured DEF CommitmentTerms
<1>12. Honoured("commitment", CommitmentLine, CommitmentRoutes)
  BY <1>6, OfferHonoured DEF CommitmentLine
<1>13. Honoured("commitment", CommitmentAmend, CommitmentRoutes)
  BY <1>7, OfferHonoured DEF CommitmentAmend
<1>14. Honoured("commitment", CommitmentCreate \cup CommitmentDetail \cup CommitmentTerms
                  \cup CommitmentLine \cup CommitmentAmend, CommitmentRoutes)
  BY <1>9, <1>10, <1>11, <1>12, <1>13, EitherHonoured
<1> QED  BY <1>14 DEF OffersOf, RoutesOf

\* The page of boq.
LEMMA BoqHonoured == Honoured("boq", OffersOf.boq, RoutesOf.boq)
<1>1. /\ Granted(BoqRoutes, "create", "none", FALSE, "boq.manage")
      /\ Granted(BoqRoutes, "publish", "draft", FALSE, "boq.manage")
      /\ Granted(BoqRoutes, "deleteLine", "draft", TRUE, "boq.manage")
      /\ Granted(BoqRoutes, "addLine", "draft", FALSE, "boq.manage")
  BY GrantedByEither, GrantedByRoute, GrantedByCheckedEither, GrantedByChecked DEF BoqRoutes
<1>2. Honoured("boq", BoqCreate \cup BoqDetail \cup BoqItem, BoqRoutes)
  BY <1>1, EitherHonoured, OfferHonoured, CompletedHonoured DEF BoqCreate, NotThere, BoqDetail, BoqItem
<1> QED  BY <1>2 DEF OffersOf, RoutesOf

\* The page of contract.
LEMMA ContractHonoured == Honoured("contract", OffersOf.contract, RoutesOf.contract)
<1>1. /\ Granted(ContractRoutes, "create", "none", FALSE, "contract.manage")
      /\ Granted(ContractRoutes, "amend", "main", FALSE, "contract.manage")
  BY GrantedByEither, GrantedByRoute DEF ContractRoutes
<1>2. Honoured("contract", ContractList \cup ContractDetail, ContractRoutes)
  BY <1>1, EitherHonoured, OfferHonoured DEF ContractList, NotThere, ContractDetail
<1> QED  BY <1>2 DEF OffersOf, RoutesOf

\* The page of budgetItem.
LEMMA BudgetItemHonoured == Honoured("budgetItem", OffersOf.budgetItem, RoutesOf.budgetItem)
<1>1. /\ Granted(BudgetItemRoutes, "create", "none", FALSE, "budget.manage")
  BY GrantedByEither, GrantedByRoute DEF BudgetItemRoutes
<1>2. <<"budgetItem", "edit">> \in Careless /\ <<"budgetItem", "delete">> \in Careless
  BY DEF Careless
<1>3. Honoured("budgetItem", BudgetItemNew \cup BudgetItemRow, BudgetItemRoutes)
  BY <1>1, <1>2, EitherHonoured, OfferHonoured DEF BudgetItemNew, NotThere, BudgetItemRow
<1> QED  BY <1>3 DEF OffersOf, RoutesOf

\* The page of budgetRevision.
LEMMA BudgetRevisionHonoured == Honoured("budgetRevision", OffersOf.budgetRevision, RoutesOf.budgetRevision)
<1>1. /\ Granted(BudgetRevisionRoutes, "create", "none", FALSE, "budgetRevision.manage")
      /\ Granted(BudgetRevisionRoutes, "approve", "draft", FALSE, "budgetRevision.manage")
  BY GrantedByEither, GrantedByRoute DEF BudgetRevisionRoutes
<1>2. <<"budgetRevision", "assign">> \in Careless
  BY DEF Careless
<1>3. Honoured("budgetRevision", BudgetRevisions \cup BudgetRevision \cup AssignItem, BudgetRevisionRoutes)
  BY <1>1, <1>2, EitherHonoured, OfferHonoured DEF BudgetRevisions, NotThere, BudgetRevision, AssignItem
<1> QED  BY <1>3 DEF OffersOf, RoutesOf

\* The page of expense.
LEMMA ExpenseHonoured == Honoured("expense", OffersOf.expense, RoutesOf.expense)
<1>1. /\ Granted(ExpenseRoutes, "create", "none", FALSE, "budget.manage")
  BY GrantedByEither, GrantedByRoute DEF ExpenseRoutes
<1>2. <<"expense", "delete">> \in Careless
  BY DEF Careless
<1>3. Honoured("expense", ExpenseNew \cup ExpenseRow, ExpenseRoutes)
  BY <1>1, <1>2, EitherHonoured, OfferHonoured DEF ExpenseNew, NotThere, ExpenseRow
<1> QED  BY <1>3 DEF OffersOf, RoutesOf

\* The page of budgetPanel.
LEMMA BudgetPanelHonoured == Honoured("budgetPanel", OffersOf.budgetPanel, RoutesOf.budgetPanel)
<1>1. /\ Granted(ExpenseRoutes, "create", "none", FALSE, "budget.manage")
  BY GrantedByEither, GrantedByRoute DEF ExpenseRoutes
<1>2. Honoured("budgetPanel", BudgetPanel, ExpenseRoutes)
  BY <1>1, OfferHonoured DEF BudgetPanel, NotThere
<1> QED  BY <1>2 DEF OffersOf, RoutesOf

\* The page of changeOrder.
LEMMA ChangeOrderHonoured == Honoured("changeOrder", OffersOf.changeOrder, RoutesOf.changeOrder)
<1>1. /\ Granted(ChangeOrderRoutes, "create", "none", FALSE, "open")
  BY GrantedByEither, GrantedByRoute DEF ChangeOrderRoutes
<1>2. <<"changeOrder", "approve">> \in Careless /\ <<"changeOrder", "reject">> \in Careless
  BY DEF Careless
<1>3. Honoured("changeOrder", ChangeOrdersPanel, ChangeOrderRoutes)
  BY <1>1, <1>2, EitherHonoured, OfferHonoured DEF ChangeOrdersPanel, NotThere
<1> QED  BY <1>3 DEF OffersOf, RoutesOf

\* The page of forecast.
LEMMA ForecastHonoured == Honoured("forecast", OffersOf.forecast, RoutesOf.forecast)
<1>1. /\ Granted(ForecastRoutes, "create", "none", FALSE, "forecast.manage")
  BY GrantedByEither, GrantedByRoute DEF ForecastRoutes
<1>2. Honoured("forecast", ForecastSnapshot, ForecastRoutes)
  BY <1>1, OfferHonoured DEF ForecastSnapshot, NotThere
<1> QED  BY <1>2 DEF OffersOf, RoutesOf

\* The page of alert.
LEMMA AlertHonoured == Honoured("alert", OffersOf.alert, RoutesOf.alert)
<1>1. /\ Granted(AlertRoutes, "create", "none", FALSE, "open")
      /\ Granted(AlertRoutes, "acknowledge", "open", FALSE, "budgetAlert.manage")
      /\ \A s \in {"open", "acknowledged"} : Granted(AlertRoutes, "resolve", s, FALSE, "budgetAlert.manage")
  BY GrantedByEither, GrantedByRoute DEF AlertRoutes
<1>2. Honoured("alert", AlertList \cup AlertDetail, AlertRoutes)
  BY <1>1, EitherHonoured, OfferHonoured DEF AlertList, NotThere, AlertDetail
<1> QED  BY <1>2 DEF OffersOf, RoutesOf

\* The page of quote.
LEMMA QuoteHonoured == Honoured("quote", OffersOf.quote, RoutesOf.quote)
<1>1. /\ Granted(QuoteRoutes, "create", "none", FALSE, "open")
      /\ Granted(QuoteRoutes, "convert", "accepted", FALSE, "open")
  BY GrantedByEither, GrantedByRoute DEF QuoteRoutes
<1>2. <<"quote", "send">> \in Careless
  BY DEF Careless
<1>3. Honoured("quote", QuotesPage \cup QuoteRow, QuoteRoutes)
  BY <1>1, <1>2, EitherHonoured, OfferHonoured DEF QuotesPage, NotThere, QuoteRow
<1> QED  BY <1>3 DEF OffersOf, RoutesOf

\* The page of invoice.
LEMMA InvoiceHonoured == Honoured("invoice", OffersOf.invoice, RoutesOf.invoice)
<1>1. /\ Granted(InvoiceRoutes, "create", "none", FALSE, "open")
  BY GrantedByEither, GrantedByRoute DEF InvoiceRoutes
<1>2. <<"invoice", "send">> \in Careless /\ <<"invoice", "pay">> \in Careless
  BY DEF Careless
<1>3. Honoured("invoice", InvoicesPage, InvoiceRoutes)
  BY <1>1, <1>2, EitherHonoured, OfferHonoured DEF InvoicesPage, NotThere
<1> QED  BY <1>3 DEF OffersOf, RoutesOf

\* The page of projectInvoice.
LEMMA ProjectInvoiceHonoured == Honoured("projectInvoice", OffersOf.projectInvoice, RoutesOf.projectInvoice)
<1>1. /\ Granted(InvoiceRoutes, "create", "none", FALSE, "open")
      /\ Granted(InvoiceRoutes, "send", "draft", FALSE, "invoice.send")
      /\ Granted(InvoiceRoutes, "pay", "sent", FALSE, "invoice.markPaid")
  BY GrantedByEither, GrantedByRoute DEF InvoiceRoutes
<1>2. Honoured("projectInvoice", ProjectInvoices, InvoiceRoutes)
  BY <1>1, EitherHonoured, OfferHonoured DEF ProjectInvoices, NotThere
<1> QED  BY <1>2 DEF OffersOf, RoutesOf

\* The page of payroll.
LEMMA PayrollHonoured == Honoured("payroll", OffersOf.payroll, RoutesOf.payroll)
<1>1. Granted(PayrollRoutes, "create", "none", FALSE, "payroll.manage")
  BY GrantedByEither, GrantedByRoute, GrantedByReviewed DEF PayrollRoutes
<1>2. Granted(PayrollRoutes, "approve", "submitted", FALSE, "payroll.manage")
  BY GrantedByEither, GrantedByRoute, GrantedByReviewed DEF PayrollRoutes
<1>3. Granted(PayrollRoutes, "reject", "submitted", FALSE, "payroll.manage")
  BY GrantedByEither, GrantedByRoute, GrantedByReviewed DEF PayrollRoutes
<1>4. \A s \in Editable : Granted(PayrollRoutes, "addLine", s, FALSE, "payroll.manage")
  BY GrantedByEither, GrantedByRoute, GrantedByReviewed DEF PayrollRoutes
<1>5. \A s \in Editable : Granted(PayrollRoutes, "editLine", s, TRUE, "payroll.manage")
  BY GrantedByEither, GrantedByRoute, GrantedByCheckedEither, GrantedByChecked, GrantedByReviewed DEF
     PayrollRoutes
<1>6. Granted(PayrollRoutes, "post", "approved", TRUE, "payroll.post")
  BY GrantedByEither, GrantedByRoute, GrantedByCheckedEither, GrantedByChecked, GrantedByReviewed DEF
     PayrollRoutes
<1>7. Granted(PayrollRoutes, "reverse", "posted", FALSE, "payroll.post")
  BY GrantedByEither, GrantedByRoute, GrantedByReviewed DEF PayrollRoutes
<1>8. \A s \in Editable : Granted(PayrollRoutes, "allocate", s, TRUE, "payroll.manage")
  BY GrantedByEither, GrantedByRoute, GrantedByCheckedEither, GrantedByChecked, GrantedByReviewed DEF
     PayrollRoutes
<1>9. \A s \in Editable : Granted(PayrollRoutes, "reallocate", s, TRUE, "payroll.manage")
  BY GrantedByEither, GrantedByRoute, GrantedByCheckedEither, GrantedByChecked, GrantedByReviewed DEF
     PayrollRoutes
<1>10. \A s \in Editable : Granted(PayrollRoutes, "unallocate", s, TRUE, "payroll.manage")
  BY GrantedByEither, GrantedByRoute, GrantedByCheckedEither, GrantedByChecked, GrantedByReviewed DEF
     PayrollRoutes
<1>11. <<"payroll", "submit">> \in Careless
  BY DEF Careless
<1>12. Honoured("payroll", PayrollList, PayrollRoutes)
  BY <1>1, OfferHonoured DEF PayrollList, NotThere
<1>13. Honoured("payroll", PeriodHeader, PayrollRoutes)
  BY <1>2, <1>3, <1>11, EitherHonoured, OfferHonoured DEF PeriodHeader
<1>14. Honoured("payroll", PeriodRecords, PayrollRoutes)
  BY <1>4, OfferHonoured DEF PeriodRecords
<1>15. Honoured("payroll", RecordRow, PayrollRoutes)
  BY <1>5, CompletedHonoured DEF RecordRow
<1>16. Honoured("payroll", PostAction, PayrollRoutes)
  BY <1>6, CompletedHonoured DEF PostAction
<1>17. Honoured("payroll", PostedSummary, PayrollRoutes)
  BY <1>7, OfferHonoured DEF PostedSummary
<1>18. Honoured("payroll", LaborAllocationPage, PayrollRoutes)
  BY <1>8, CompletedHonoured DEF LaborAllocationPage
<1>19. Honoured("payroll", AllocationRow, PayrollRoutes)
  BY <1>9, <1>10, CompletedHonoured DEF AllocationRow
<1>20. Honoured("payroll", PayrollList \cup PeriodHeader \cup PeriodRecords \cup RecordRow \cup PostAction
                  \cup PostedSummary \cup LaborAllocationPage \cup AllocationRow, PayrollRoutes)
  BY <1>12, <1>13, <1>14, <1>15, <1>16, <1>17, <1>18, <1>19, EitherHonoured
<1> QED  BY <1>20 DEF OffersOf, RoutesOf

\* The page of punch.
LEMMA PunchHonoured == Honoured("punch", OffersOf.punch, RoutesOf.punch)
<1>1. Granted(PunchRoutes, "create", "none", FALSE, "open")
  BY ZenonT(40), GrantedByEither, GrantedByRoute DEF PunchRoutes, PunchStatuses
<1>2. \A s \in {"open", "assigned"} : Granted(PunchRoutes, "start", s, FALSE, "open")
  <2>1. Granted(PunchRoutes, "start", "open", FALSE, "open")
    BY ZenonT(40), GrantedByEither, GrantedByRoute DEF PunchRoutes, PunchStatuses
  <2>2. Granted(PunchRoutes, "start", "assigned", FALSE, "open")
    BY ZenonT(40), GrantedByEither, GrantedByRoute DEF PunchRoutes, PunchStatuses
  <2> QED  BY <2>1, <2>2
<1>3. Granted(PunchRoutes, "resolve", "in_progress", FALSE, "open")
  BY ZenonT(40), GrantedByEither, GrantedByRoute DEF PunchRoutes, PunchStatuses
<1>4. Granted(PunchRoutes, "verify", "resolved", FALSE, "open")
  BY ZenonT(40), GrantedByEither, GrantedByRoute DEF PunchRoutes, PunchStatuses
<1>5. Granted(PunchRoutes, "close", "verified", FALSE, "open")
  BY ZenonT(40), GrantedByEither, GrantedByRoute DEF PunchRoutes, PunchStatuses
<1>6. \A s \in {"resolved", "verified"} : Granted(PunchRoutes, "reopen", s, FALSE, "open")
  <2>1. Granted(PunchRoutes, "reopen", "resolved", FALSE, "open")
    BY ZenonT(40), GrantedByEither, GrantedByRoute DEF PunchRoutes, PunchStatuses
  <2>2. Granted(PunchRoutes, "reopen", "verified", FALSE, "open")
    BY ZenonT(40), GrantedByEither, GrantedByRoute DEF PunchRoutes, PunchStatuses
  <2> QED  BY <2>1, <2>2
<1>7. \A s \in PunchStatuses : Granted(PunchRoutes, "delete", s, FALSE, "punchItem.delete")
  BY ZenonT(40), GrantedByEither, GrantedByRoute DEF PunchRoutes
<1>8. \A s \in PunchStatuses : Granted(PunchRoutes, "edit", s, FALSE, "open")
  BY ZenonT(40), GrantedByEither, GrantedByRoute DEF PunchRoutes
<1>9. <<"punch", "assign">> \in Careless
  BY DEF Careless
<1>10. Honoured("punch", PunchList, PunchRoutes)
  BY <1>1, OfferHonoured DEF PunchList, NotThere
<1>11. Honoured("punch", StatusActions, PunchRoutes)
  BY <1>2, <1>3, <1>4, <1>5, <1>6, <1>9, ZenonT(40), EitherHonoured, OfferHonoured DEF StatusActions
<1>12. Honoured("punch", PunchDetail, PunchRoutes)
  BY <1>7, OfferHonoured DEF PunchDetail
<1>13. Honoured("punch", PunchForm, PunchRoutes)
  BY <1>8, OfferHonoured DEF PunchForm
<1>14. Honoured("punch", PunchList \cup StatusActions \cup PunchDetail \cup PunchForm, PunchRoutes)
  BY <1>10, <1>11, <1>12, <1>13, EitherHonoured
<1> QED  BY <1>14 DEF OffersOf, RoutesOf

\* The page of schedule.
LEMMA ScheduleHonoured == Honoured("schedule", OffersOf.schedule, RoutesOf.schedule)
<1>1. /\ Granted(ScheduleRoutes, "edit", "there", FALSE, "open")
      /\ Granted(ScheduleRoutes, "delete", "there", FALSE, "projectTask.delete")
      /\ Granted(ScheduleRoutes, "create", "none", FALSE, "open")
      /\ Granted(ScheduleRoutes, "link", "there", FALSE, "open")
      /\ Granted(ScheduleRoutes, "unlink", "there", TRUE, "projectTask.delete")
  BY GrantedByEither, GrantedByRoute, GrantedByCheckedEither, GrantedByChecked DEF ScheduleRoutes, Entries
<1>2. Honoured("schedule", GanttChart \cup ScheduleTaskForm \cup DependenciesPanel, ScheduleRoutes)
  BY <1>1, EitherHonoured, OfferHonoured, CompletedHonoured DEF GanttChart, ScheduleTaskForm, NotThere,
     DependenciesPanel
<1> QED  BY <1>2 DEF OffersOf, RoutesOf

\* The page of task.
LEMMA TaskHonoured == Honoured("task", OffersOf.task, RoutesOf.task)
<1>1. /\ Granted(TaskRoutes, "create", "none", FALSE, "open")
      /\ Granted(TaskRoutes, "edit", "there", FALSE, "open")
      /\ Granted(TaskRoutes, "delete", "there", FALSE, "task.delete")
  BY GrantedByEither, GrantedByRoute DEF TaskRoutes, Entries
<1>2. Honoured("task", TaskPanel, TaskRoutes)
  BY <1>1, EitherHonoured, OfferHonoured DEF TaskPanel, NotThere
<1> QED  BY <1>2 DEF OffersOf, RoutesOf

\* The page of dailyLog.
LEMMA DailyLogHonoured == Honoured("dailyLog", OffersOf.dailyLog, RoutesOf.dailyLog)
<1>1. /\ Granted(DailyLogRoutes, "create", "none", FALSE, "open")
      /\ Granted(DailyLogRoutes, "delete", "there", FALSE, "dailyLog.delete")
  BY GrantedByEither, GrantedByRoute DEF DailyLogRoutes, Entries
<1>2. Honoured("dailyLog", DailyLogsPanel, DailyLogRoutes)
  BY <1>1, EitherHonoured, OfferHonoured DEF DailyLogsPanel, NotThere
<1> QED  BY <1>2 DEF OffersOf, RoutesOf

\* The page of document.
LEMMA DocumentHonoured == Honoured("document", OffersOf.document, RoutesOf.document)
<1>1. /\ Granted(DocumentRoutes, "create", "none", FALSE, "open")
  BY GrantedByEither, GrantedByRoute DEF DocumentRoutes
<1>2. <<"document", "show">> \in Careless /\ <<"document", "hide">> \in Careless
  BY DEF Careless
<1>3. Honoured("document", DocumentsPage, DocumentRoutes)
  BY <1>1, <1>2, EitherHonoured, OfferHonoured DEF DocumentsPage, NotThere
<1> QED  BY <1>3 DEF OffersOf, RoutesOf

\* The page of customer.
LEMMA CustomerHonoured == Honoured("customer", OffersOf.customer, RoutesOf.customer)
<1>1. /\ Granted(CustomerRoutes, "create", "none", FALSE, "customer.manage")
      /\ \A s \in {"active", "inactive"} : Granted(CustomerRoutes, "edit", s, FALSE, "customer.manage")
      /\ Granted(CustomerRoutes, "deactivate", "active", FALSE, "customer.manage")
      /\ Granted(CustomerRoutes, "reactivate", "inactive", FALSE, "customer.manage")
  BY GrantedByEither, GrantedByRoute, GrantedByDirectory DEF CustomerRoutes
<1>2. Honoured("customer", CustomerForm \cup CustomerRow, CustomerRoutes)
  BY <1>1, EitherHonoured, OfferHonoured DEF CustomerForm, NotThere, CustomerRow, Switch
<1> QED  BY <1>2 DEF OffersOf, RoutesOf

\* The page of supplier.
LEMMA SupplierHonoured == Honoured("supplier", OffersOf.supplier, RoutesOf.supplier)
<1>1. /\ Granted(SupplierRoutes, "create", "none", FALSE, "supplier.manage")
      /\ \A s \in {"active", "inactive"} : Granted(SupplierRoutes, "edit", s, FALSE, "supplier.manage")
      /\ Granted(SupplierRoutes, "deactivate", "active", FALSE, "supplier.manage")
      /\ Granted(SupplierRoutes, "reactivate", "inactive", FALSE, "supplier.manage")
  BY GrantedByEither, GrantedByRoute, GrantedByDirectory DEF SupplierRoutes
<1>2. Honoured("supplier", SupplierForm \cup SupplierRow, SupplierRoutes)
  BY <1>1, EitherHonoured, OfferHonoured DEF SupplierForm, NotThere, SupplierRow, Switch
<1> QED  BY <1>2 DEF OffersOf, RoutesOf

\* The page of employee.
LEMMA EmployeeHonoured == Honoured("employee", OffersOf.employee, RoutesOf.employee)
<1>1. /\ Granted(EmployeeRoutes, "create", "none", FALSE, "workforce.manage")
      /\ \A s \in {"active", "inactive"} : Granted(EmployeeRoutes, "edit", s, FALSE, "workforce.manage")
      /\ Granted(EmployeeRoutes, "deactivate", "active", FALSE, "workforce.manage")
      /\ Granted(EmployeeRoutes, "reactivate", "inactive", FALSE, "workforce.manage")
  BY GrantedByEither, GrantedByRoute, GrantedByDirectory DEF EmployeeRoutes
<1>2. Honoured("employee", EmployeeForm \cup EmployeeRow, EmployeeRoutes)
  BY <1>1, EitherHonoured, OfferHonoured DEF EmployeeForm, NotThere, EmployeeRow, Switch
<1> QED  BY <1>2 DEF OffersOf, RoutesOf

\* The page of member.
LEMMA MemberHonoured == Honoured("member", OffersOf.member, RoutesOf.member)
<1>1. /\ \A s \in {"active", "inactive"} : Granted(MemberRoutes, "edit", s, FALSE, "company.manage")
      /\ Granted(MemberRoutes, "deactivate", "active", FALSE, "company.manage")
      /\ Granted(MemberRoutes, "reactivate", "inactive", FALSE, "company.manage")
  BY GrantedByEither, GrantedByRoute, GrantedByDirectory DEF MemberRoutes
<1>2. Honoured("member", MemberRow, MemberRoutes)
  BY <1>1, EitherHonoured, OfferHonoured DEF MemberRow, Switch
<1> QED  BY <1>2 DEF OffersOf, RoutesOf

\* The page of profile.
LEMMA ProfileHonoured == Honoured("profile", OffersOf.profile, RoutesOf.profile)
<1>1. /\ \A s \in {"none", "configured"} : Granted(ProfileRoutes, "configure", s, FALSE, "compliance.manage")
  BY GrantedByEither, GrantedByRoute DEF ProfileRoutes
<1>2. Honoured("profile", ProfileTab, ProfileRoutes)
  BY <1>1, OfferHonoured DEF ProfileTab
<1> QED  BY <1>2 DEF OffersOf, RoutesOf

\* The page of override.
LEMMA OverrideHonoured == Honoured("override", OffersOf.override, RoutesOf.override)
<1>1. /\ Granted(OverrideRoutes, "create", "none", FALSE, "compliance.manage")
      /\ Granted(OverrideRoutes, "reset", "active", FALSE, "compliance.manage")
  BY GrantedByEither, GrantedByRoute DEF OverrideRoutes
<1>2. Honoured("override", OverrideForm \cup OverridesTab, OverrideRoutes)
  BY <1>1, EitherHonoured, OfferHonoured DEF OverrideForm, NotThere, OverridesTab
<1> QED  BY <1>2 DEF OffersOf, RoutesOf

\* The page of egsUnit.
LEMMA EgsUnitHonoured == Honoured("egsUnit", OffersOf.egsUnit, RoutesOf.egsUnit)
<1>1. Granted(EgsRoutes, "create", "none", FALSE, "zatca.configure")
  BY GrantedByEither, GrantedByRoute DEF EgsRoutes, EgsStatuses
<1>2. \A s \in {"not_onboarded", "onboarding", "active"} :
          Granted(EgsRoutes, "deactivate", s, FALSE, "zatca.configure")
  <2>1. Granted(EgsRoutes, "deactivate", "not_onboarded", FALSE, "zatca.configure")
    BY GrantedByEither, GrantedByRoute DEF EgsRoutes, EgsStatuses
  <2>2. Granted(EgsRoutes, "deactivate", "onboarding", FALSE, "zatca.configure")
    BY GrantedByEither, GrantedByRoute DEF EgsRoutes, EgsStatuses
  <2>3. Granted(EgsRoutes, "deactivate", "active", FALSE, "zatca.configure")
    BY GrantedByEither, GrantedByRoute DEF EgsRoutes, EgsStatuses
  <2> QED  BY <2>1, <2>2, <2>3
<1>3. \A s \in EgsStatuses : Granted(EgsRoutes, "clearCredential", s, TRUE, "zatca.configure")
  BY GrantedByEither, GrantedByRoute DEF EgsRoutes
<1>4. \A s \in EgsStatuses : Granted(EgsRoutes, "setCredential", s, FALSE, "zatca.configure")
  <2>1. Granted(EgsRoutes, "setCredential", "not_onboarded", FALSE, "zatca.configure")
    BY GrantedByEither, GrantedByRoute DEF EgsRoutes, EgsStatuses
  <2>2. \A s \in EgsStatuses \ {"not_onboarded"} :
            Granted(EgsRoutes, "setCredential", s, FALSE, "zatca.configure")
    BY GrantedByEither, GrantedByRoute DEF EgsRoutes
  <2> QED  BY <2>1, <2>2
<1>5. Honoured("egsUnit", EgsUnitForm, EgsRoutes)
  BY <1>1, OfferHonoured DEF EgsUnitForm, NotThere
<1>6. Honoured("egsUnit", EgsUnitRow, EgsRoutes)
  BY <1>2, <1>3, EitherHonoured, OfferHonoured, CompletedHonoured DEF EgsUnitRow, EgsStatuses
<1>7. Honoured("egsUnit", CredentialModal, EgsRoutes)
  BY <1>4, LackingHonoured DEF CredentialModal, EgsStatuses
<1>8. Honoured("egsUnit", EgsUnitForm \cup EgsUnitRow \cup CredentialModal, EgsRoutes)
  BY <1>5, <1>6, <1>7, EitherHonoured
<1> QED  BY <1>8 DEF OffersOf, RoutesOf

\* The page of nitaqat.
LEMMA NitaqatHonoured == Honoured("nitaqat", OffersOf.nitaqat, RoutesOf.nitaqat)
<1>1. /\ Granted(Verifiable, "create", "none", FALSE, "laborCompliance.manage")
      /\ \A s \in {"unverified", "verified"} : Granted(Verifiable, "attach", s, FALSE, "laborCompliance.manage")
  BY GrantedByEither, GrantedByRoute DEF Verifiable
<1>2. <<"nitaqat", "verify">> \in Careless
  BY DEF Careless
<1>3. Honoured("nitaqat", NitaqatTab \cup NitaqatDetail, Verifiable)
  BY <1>1, <1>2, EitherHonoured, OfferHonoured DEF NitaqatTab, NotThere, NitaqatDetail, Unverified
<1> QED  BY <1>3 DEF OffersOf, RoutesOf

\* The page of gosi.
LEMMA GosiHonoured == Honoured("gosi", OffersOf.gosi, RoutesOf.gosi)
<1>1. /\ Granted(Verifiable, "create", "none", FALSE, "laborCompliance.manage")
      /\ \A s \in {"unverified", "verified"} : Granted(Verifiable, "attach", s, FALSE, "laborCompliance.manage")
  BY GrantedByEither, GrantedByRoute DEF Verifiable
<1>2. <<"gosi", "verify">> \in Careless /\ <<"gosi", "edit">> \in Careless
  BY DEF Careless
<1>3. Honoured("gosi", GosiTab \cup GosiDetail, Verifiable)
  BY <1>1, <1>2, EitherHonoured, OfferHonoured DEF GosiTab, NotThere, GosiDetail, NitaqatDetail, Unverified
<1> QED  BY <1>3 DEF OffersOf, RoutesOf

\* The page of exception.
LEMMA ExceptionHonoured == Honoured("exception", OffersOf.exception, RoutesOf.exception)
<1> DEFINE g == "laborCompliance.manage"
<1>1. Granted(ExceptionRoutes, "create", "none", FALSE, g)
  BY ZenonT(40), GrantedByEither, GrantedByRoute DEF ExceptionRoutes
<1>2. \A s \in {"open", "in_progress"} : Granted(ExceptionRoutes, "resolve", s, FALSE, g)
  BY ZenonT(40), GrantedByEither, GrantedByRoute DEF ExceptionRoutes
<1>3. Granted(ExceptionRoutes, "close", "resolved", FALSE, g)
  BY ZenonT(40), GrantedByEither, GrantedByRoute DEF ExceptionRoutes
<1>4. Honoured("exception", ExceptionsTab, ExceptionRoutes)
  BY <1>1, <1>2, <1>3, EitherHonoured, OfferHonoured DEF ExceptionsTab, NotThere
<1> QED  BY <1>4 DEF OffersOf, RoutesOf

\* What every page offers is granted, or known not to be.
LEMMA OffersHonoured == \A s \in Screens : Honoured(s, OffersOf[s], RoutesOf[s])
<1>1. Screens = {"ipc", "subIpc", "measurement", "commitment", "boq", "contract",
                 "budgetItem", "budgetRevision", "expense",
                 "budgetPanel", "changeOrder", "forecast", "alert",
                 "quote", "invoice", "projectInvoice", "payroll",
                 "punch", "schedule", "task", "dailyLog", "document",
                 "customer", "supplier", "employee", "member",
                 "profile", "override", "egsUnit", "nitaqat", "gosi",
                 "exception"}
  BY DEF Screens, OffersOf
<1> QED
  BY <1>1, IpcHonoured, SubIpcHonoured, MeasurementHonoured, CommitmentHonoured,
     BoqHonoured, ContractHonoured, BudgetItemHonoured,
     BudgetRevisionHonoured, ExpenseHonoured, BudgetPanelHonoured,
     ChangeOrderHonoured, ForecastHonoured, AlertHonoured, QuoteHonoured,
     InvoiceHonoured, ProjectInvoiceHonoured, PayrollHonoured,
     PunchHonoured, ScheduleHonoured, TaskHonoured, DailyLogHonoured,
     DocumentHonoured, CustomerHonoured, SupplierHonoured,
     EmployeeHonoured, MemberHonoured, ProfileHonoured, OverrideHonoured,
     EgsUnitHonoured, NitaqatHonoured, GosiHonoured, ExceptionHonoured

\* A call sent from a page that shows what is there was offered for what is there.
OfferedForThis(c) ==
    \E o \in OffersOf[screen] :
        o.does = deed[c] /\ state \in o.when /\ (o.needs => full) /\ Permitted(o.gate, rank)

\* Nothing fresh was refused but what is offered carelessly.
OffersInv ==
    /\ screen \in Screens
    /\ DOMAIN deed = Clicks /\ DOMAIN phase = Clicks /\ DOMAIN fresh = Clicks
    /\ \A c \in Clicks : phase[c] = "sent" /\ fresh[c] => OfferedForThis(c)
    /\ UpToDateOffersAccepted

\* The initial state.
LEMMA OffersInvInit ==
  ASSUME ScreensInit
  PROVE  OffersInv
  BY DEF ScreensInit, OffersInv, UpToDateOffersAccepted

\* A click.
LEMMA ClickKeepsOffersInv ==
  ASSUME OffersInv, NEW c \in Clicks, NEW o, Click(c, o)
  PROVE  OffersInv'
<1>1. o \in OffersOf[screen] /\ view[1] \in o.when /\ (o.needs => view[2]) /\ Permitted(o.gate, knownRank)
  BY DEF Click, Offered
<1>2. /\ deed' = [deed EXCEPT ![c] = o.does] /\ phase' = [phase EXCEPT ![c] = "sent"]
      /\ fresh' = [fresh EXCEPT ![c] = (view = Shown /\ knownRank = rank)]
      /\ UNCHANGED <<screen, state, full, rank>>
  BY DEF Click, record
<1>3. view = Shown => view[1] = state /\ view[2] = full
  BY DEF Shown
<1>4. fresh'[c] => OfferedForThis(c)'
  BY <1>1, <1>2, <1>3 DEF OfferedForThis, OffersInv
<1>5. ASSUME NEW b \in Clicks \ {c}
      PROVE  phase'[b] = phase[b] /\ fresh'[b] = fresh[b] /\ deed'[b] = deed[b]
  BY <1>2 DEF OffersInv
<1>6. ASSUME NEW b \in Clicks \ {c}, OfferedForThis(b)
      PROVE  OfferedForThis(b)'
  BY <1>2, <1>5, <1>6 DEF OfferedForThis
<1>7. \A b \in Clicks : phase'[b] = "sent" /\ fresh'[b] => OfferedForThis(b)'
  BY <1>4, <1>5, <1>6 DEF OffersInv
<1>8. phase'[c] = "sent"
  BY <1>2 DEF OffersInv
<1>9. UpToDateOffersAccepted'
  BY <1>2, <1>5, <1>8 DEF UpToDateOffersAccepted, OffersInv
<1> QED  BY <1>2, <1>7, <1>9 DEF OffersInv

\* A call offered for what is there is refused only where the page is known to be careless.
LEMMA RefusedIsCareless ==
  ASSUME screen \in Screens, NEW c, OfferedForThis(c), Grants(deed[c], rank) = {}
  PROVE  <<screen, deed[c]>> \in Careless
<1>1. PICK o \in OffersOf[screen] :
          o.does = deed[c] /\ state \in o.when /\ (o.needs => full) /\ Permitted(o.gate, rank)
  BY DEF OfferedForThis
<1>2. CASE <<screen, o.does>> \in Careless
  BY <1>1, <1>2
<1>3. CASE Granted(RoutesOf[screen], o.does, state, o.needs, o.gate)
  <2>1. PICK r \in RoutesOf[screen] :
            r.does = deed[c] /\ state \in r.from /\ (r.needs => o.needs) /\ (r.gate = "open" \/ o.gate # "open")
    BY <1>1, <1>3 DEF Granted
  <2>2. Permitted(r.gate, rank)
    BY <1>1, <2>1 DEF Permitted
  <2> QED  BY <1>1, <2>1, <2>2 DEF Grants
<1> QED  BY <1>1, <1>2, <1>3, OffersHonoured DEF Honoured

\* The server serves a call.
LEMMA ServeKeepsOffersInv ==
  ASSUME OffersInv, NEW c \in Clicks, Serve(c)
  PROVE  OffersInv'
<1>1. phase[c] = "sent" /\ UNCHANGED <<screen, rank, deed>>
  BY DEF Serve
<1>2. CASE Grants(deed[c], rank) = {}
  <2>1. phase' = [phase EXCEPT ![c] = "refused"] /\ UNCHANGED <<state, full, fresh>>
    BY <1>2 DEF Serve, record
  <2>2. \A b \in Clicks : phase'[b] = IF b = c THEN "refused" ELSE phase[b]
    BY <2>1 DEF OffersInv
  <2>3. fresh[c] => <<screen, deed[c]>> \in Careless
    BY <1>1, <1>2, RefusedIsCareless DEF OffersInv
  <2>4. UpToDateOffersAccepted'
    BY <1>1, <2>1, <2>2, <2>3 DEF UpToDateOffersAccepted, OffersInv
  <2>5. \A b \in Clicks : OfferedForThis(b) => OfferedForThis(b)'
    BY <1>1, <2>1 DEF OfferedForThis
  <2>6. \A b \in Clicks : phase'[b] = "sent" /\ fresh'[b] => OfferedForThis(b)'
    BY <2>1, <2>2, <2>5 DEF OffersInv
  <2> QED  BY <1>1, <2>1, <2>4, <2>6 DEF OffersInv
<1>3. CASE Grants(deed[c], rank) # {}
  <2>1. phase' = [phase EXCEPT ![c] = "granted"] /\ fresh' = Stale({b \in Clicks : b # c /\ phase[b] = "sent"})
    BY <1>3 DEF Serve
  <2>2. \A b \in Clicks : phase'[b] = IF b = c THEN "granted" ELSE phase[b]
    BY <2>1 DEF OffersInv
  <2>3. \A b \in Clicks : fresh'[b] <=> fresh[b] /\ (b = c \/ phase[b] # "sent")
    BY <2>1 DEF Stale
  <2>4. UpToDateOffersAccepted'
    BY <1>1, <2>2, <2>3 DEF UpToDateOffersAccepted, OffersInv
  <2>5. DOMAIN fresh' = Clicks /\ DOMAIN phase' = Clicks
    BY <2>1 DEF Stale, OffersInv
  <2> QED  BY <1>1, <2>2, <2>3, <2>4, <2>5 DEF OffersInv
<1> QED  BY <1>2, <1>3

\* An answer reaches the page.
LEMMA AnswerKeepsOffersInv ==
  ASSUME OffersInv, NEW c \in Clicks, Succeed(c) \/ ShowRefusal(c) \/ LoseAnswer(c)
  PROVE  OffersInv'
<1>1. /\ UNCHANGED <<screen, state, full, rank, deed, fresh>>
      /\ \E p \in {"ok", "failed", "lost"} : /\ phase' = [phase EXCEPT ![c] = p]
                                             /\ p = "failed" => phase[c] = "refused"
  BY DEF Succeed, ShowRefusal, LoseAnswer, record
<1>2. DOMAIN phase' = Clicks /\ \A b \in Clicks \ {c} : phase'[b] = phase[b]
  BY <1>1 DEF OffersInv
<1>3. phase'[c] \notin {"sent", "refused"} /\ (phase'[c] = "failed" => phase[c] = "refused")
  BY <1>1 DEF OffersInv
<1>4. \A b \in Clicks : OfferedForThis(b) => OfferedForThis(b)'
  BY <1>1 DEF OfferedForThis
<1>5. \A b \in Clicks : phase'[b] = "sent" /\ fresh'[b] => OfferedForThis(b)'
  BY <1>1, <1>2, <1>3, <1>4 DEF OffersInv
<1>6. UpToDateOffersAccepted'
  BY <1>1, <1>2, <1>3 DEF UpToDateOffersAccepted, OffersInv
<1> QED  BY <1>1, <1>2, <1>5, <1>6 DEF OffersInv

\* The page reads, or is opened anew.
LEMMA ReadKeepsOffersInv ==
  ASSUME OffersInv, UNCHANGED <<screen, record, rank, clickVars>>
  PROVE  OffersInv'
<1>1. UNCHANGED <<screen, state, full, rank, deed, phase, fresh>>
  BY DEF record, clickVars
<1>2. \A b \in Clicks : OfferedForThis(b) => OfferedForThis(b)'
  BY <1>1 DEF OfferedForThis
<1> QED  BY <1>1, <1>2 DEF OffersInv, UpToDateOffersAccepted

\* Someone else changes the record or the role: no call under way is fresh any more.
LEMMA ElsewhereKeepsOffersInv ==
  ASSUME OffersInv, (\E r : OtherActs(r)) \/ ChangeRank
  PROVE  OffersInv'
<1>1. UNCHANGED <<screen, deed, phase>> /\ fresh' = Stale({c \in Clicks : phase[c] = "sent"})
  BY DEF OtherActs, ChangeRank
<1>2. DOMAIN fresh' = Clicks /\ \A b \in Clicks : fresh'[b] <=> fresh[b] /\ phase[b] # "sent"
  BY <1>1 DEF Stale
<1> QED  BY <1>1, <1>2 DEF OffersInv, UpToDateOffersAccepted

\* Every step.
LEMMA OffersInvNext ==
  ASSUME OffersInv, [ScreensNext]_screenVars
  PROVE  OffersInv'
<1>1. ASSUME NEW c \in Clicks, NEW o, Click(c, o)
      PROVE  OffersInv'
  BY <1>1, ClickKeepsOffersInv
<1>2. ASSUME NEW c \in Clicks, Serve(c)
      PROVE  OffersInv'
  BY <1>2, ServeKeepsOffersInv
<1>3. ASSUME NEW c \in Clicks, Succeed(c) \/ ShowRefusal(c) \/ LoseAnswer(c)
      PROVE  OffersInv'
  BY <1>3, AnswerKeepsOffersInv
<1>4. CASE AnswerRead \/ LoseRead \/ OpenPage \/ \E v \in replies : ReceiveRead(v)
  BY <1>4, ReadKeepsOffersInv DEF AnswerRead, LoseRead, OpenPage, ReceiveRead
<1>5. CASE ChangeRank \/ \E r \in RoutesOf[screen] : OtherActs(r)
  BY <1>5, ElsewhereKeepsOffersInv
<1>6. CASE UNCHANGED screenVars
  BY <1>6, ReadKeepsOffersInv DEF screenVars
<1> QED  BY <1>1, <1>2, <1>3, <1>4, <1>5, <1>6 DEF ScreensNext

(***************************************************************************)
(* A call that is refused although nothing had changed since its page read *)
(* the record and the role is one of those known to be offered carelessly, *)
(* on every page, for any number of calls and of other users.              *)
(***************************************************************************)
THEOREM UpToDateOffersAcceptedCorrect == ScreensSpec => []UpToDateOffersAccepted
<1>1. OffersInv => UpToDateOffersAccepted
  BY DEF OffersInv
<1> QED  BY <1>1, OffersInvInit, OffersInvNext, PTL DEF ScreensSpec

\* What the page shows, or is about to show, was read after the last change.
ReadSince ==
    /\ \A v \in replies : v = Shown
    /\ ~Loading /\ view # None => view = Shown

\* Whether a document is complete never changes, and the page knows it.
DocumentsFull ==
    screen = "document" =>
        /\ \A v \in replies : v[2] = full
        /\ view # None => view[2] = full

\* What a document was last made visible or hidden by is what it is.
AsGranted(c) ==
    screen = "document" /\ lastBy = c /\ phase[c] = "granted" /\ deed[c] \in {"show", "hide"} =>
        state = IF deed[c] = "show" THEN "visible" ELSE "hidden"

\* A call that succeeded and is the last that changed the record was followed by a read, or by what
\* it answered.
Followed(c) == lastBy = c /\ phase[c] = "ok" /\ ~AddsFile(c) /\ ~muddled => ReadSince

\* A page that does one thing at a time has one call under way, and no later one is served before it.
OneAtATime ==
    ~muddled => \A b, c \in UnderWay : b = c /\ (phase[c] = "granted" => lastBy \in {c, None})

ShowsInv ==
    /\ DOMAIN phase = Clicks /\ DOMAIN deed = Clicks /\ asked \in Nat
    /\ DocumentsFull /\ OneAtATime
    /\ \A c \in Clicks : AsGranted(c) /\ Followed(c)

\* The routes of a document make it visible or hidden, and leave it as complete as it was.
LEMMA DocumentDeeds ==
  ASSUME screen = "document", NEW r \in RoutesOf[screen], Apply(r)
  PROVE  /\ full' = full
         /\ r.does = "show" => state' = "visible"
         /\ r.does = "hide" => state' = "hidden"
<1>1. RoutesOf[screen] = DocumentRoutes
  BY DEF RoutesOf
<1>2. /\ r.does \in {"create", "show", "hide"}
      /\ r.does = "show" => r.into = "visible"
      /\ r.does = "hide" => r.into = "hidden"
  BY <1>1 DEF DocumentRoutes, Route
<1>3. full' = full
  BY <1>2 DEF Apply
<1>4. r.into # Keep => state' = r.into
  BY DEF Apply
<1> QED  BY <1>2, <1>3, <1>4 DEF Keep

\* A step that leaves the record and the page alone, and moves one call c, no further than to p.
LEMMA CallMovesKeeps ==
  ASSUME ShowsInv, NEW c \in Clicks, NEW p, phase' = [phase EXCEPT ![c] = p], p \notin {"granted", "ok"},
         UNCHANGED <<screen, state, full, lastBy, view, asked, replies>>, muddled => muddled',
         muddled' \/ UnderWay = {} \/ c \in UnderWay,
         DOMAIN deed' = Clicks, \A b \in Clicks \ {c} : deed'[b] = deed[b]
  PROVE  ShowsInv'
<1>1. DOMAIN phase' = Clicks /\ phase'[c] = p /\ \A b \in Clicks \ {c} : phase'[b] = phase[b]
  BY DEF ShowsInv
<1>2. DocumentsFull'
  BY DEF ShowsInv, DocumentsFull
<1>3. ReadSince => ReadSince'
  BY DEF ReadSince, Loading, Shown
<1>4. ASSUME NEW b \in Clicks PROVE AsGranted(b)'
  BY <1>1 DEF ShowsInv, AsGranted
<1>5. ASSUME NEW b \in Clicks PROVE Followed(b)'
  BY <1>1, <1>3 DEF ShowsInv, Followed, AddsFile
<1>6. OneAtATime'
  BY <1>1 DEF ShowsInv, OneAtATime, UnderWay
<1> QED  BY <1>1, <1>2, <1>4, <1>5, <1>6 DEF ShowsInv

\* A step that moves no call and leaves the record alone.
LEMMA ReadKeeps ==
  ASSUME ShowsInv, UNCHANGED <<screen, state, full, lastBy, phase, deed>>, asked' \in Nat,
         DocumentsFull', ReadSince => ReadSince' \/ muddled',
         (muddled => muddled') \/ (UnderWay = {} /\ ReadSince')
  PROVE  ShowsInv'
<1>1. ASSUME NEW b \in Clicks PROVE AsGranted(b)' /\ Followed(b)'
  BY DEF ShowsInv, AsGranted, Followed, AddsFile
<1>2. OneAtATime'
  BY DEF ShowsInv, OneAtATime, UnderWay
<1> QED  BY <1>1, <1>2 DEF ShowsInv

\* A call is served.
LEMMA ServeKeepsShows ==
  ASSUME ShowsInv, NEW c \in Clicks, Serve(c)
  PROVE  ShowsInv'
<1>1. phase[c] = "sent" /\ UNCHANGED <<screen, view, asked, replies, muddled, deed>>
  BY DEF Serve, page
<1>2. CASE Grants(deed[c], rank) = {}
  <2>1. phase' = [phase EXCEPT ![c] = "refused"] /\ UNCHANGED <<state, full, lastBy>>
    BY <1>2 DEF Serve, record
  <2>2. c \in UnderWay
    BY <1>1 DEF UnderWay
  <2> QED  BY <1>1, <2>1, <2>2, CallMovesKeeps DEF ShowsInv
<1>3. CASE Grants(deed[c], rank) # {}
  <2>1. PICK r \in Grants(deed[c], rank) : Apply(r)
    BY <1>3 DEF Serve
  <2>2. r \in RoutesOf[screen] /\ r.does = deed[c]
    BY DEF Grants
  <2>3. phase' = [phase EXCEPT ![c] = "granted"] /\ lastBy' = c
    BY <1>3 DEF Serve
  <2>4. DOMAIN phase' = Clicks /\ phase'[c] = "granted"
    BY <2>3 DEF ShowsInv
  <2>5. DocumentsFull'
    BY <1>1, <2>1, <2>2, DocumentDeeds DEF ShowsInv, DocumentsFull
  <2>6. AsGranted(c)'
    BY <1>1, <2>1, <2>2, DocumentDeeds DEF AsGranted
  <2>7. \A b \in Clicks : AsGranted(b)' /\ Followed(b)'
    BY <2>3, <2>4, <2>6 DEF AsGranted, Followed
  <2>8. \A b \in Clicks \ {c} : phase'[b] = phase[b]
    BY <2>3 DEF ShowsInv
  <2>9. OneAtATime'
    BY <1>1, <2>3, <2>4, <2>8 DEF ShowsInv, OneAtATime, UnderWay
  <2> QED  BY <1>1, <2>4, <2>5, <2>7, <2>9 DEF ShowsInv
<1> QED  BY <1>2, <1>3

\* A success reaches the page.
LEMMA SucceedKeepsShows ==
  ASSUME ShowsInv, NEW c \in Clicks, Succeed(c)
  PROVE  ShowsInv'
<1>1. /\ phase[c] = "granted" /\ phase' = [phase EXCEPT ![c] = "ok"] /\ muddled' = (muddled \/ Loading)
      /\ UNCHANGED <<screen, state, full, lastBy, replies, deed>>
  BY DEF Succeed, record
<1>2. DOMAIN phase' = Clicks /\ phase'[c] = "ok" /\ \A b \in Clicks \ {c} : phase'[b] = phase[b]
  BY <1>1 DEF ShowsInv
<1>3. \A b \in Clicks : AsGranted(b)'
  BY <1>1, <1>2 DEF ShowsInv, AsGranted
<1>4. OneAtATime'
  BY <1>1, <1>2 DEF ShowsInv, OneAtATime, UnderWay
<1>5. CASE AddsFile(c)
  <2>1. UNCHANGED <<view, asked>>
    BY <1>5 DEF Succeed, AddsFile
  <2>2. DocumentsFull' /\ (ReadSince => ReadSince')
    BY <1>1, <2>1 DEF ShowsInv, DocumentsFull, ReadSince, Loading, Shown
  <2>3. \A b \in Clicks : Followed(b)'
    BY <1>1, <1>2, <1>5, <2>2 DEF ShowsInv, Followed, AddsFile
  <2> QED  BY <1>1, <1>2, <1>3, <1>4, <2>1, <2>2, <2>3 DEF ShowsInv
<1>6. CASE ~AddsFile(c) /\ screen = "document" /\ deed[c] \in {"show", "hide"}
  <2>1. asked' = asked /\ view' = IF view = None THEN None
                                  ELSE <<IF deed[c] = "show" THEN "visible" ELSE "hidden", view[2]>>
    BY <1>6 DEF Succeed, PatchRow
  <2>2. DocumentsFull'
    BY <1>1, <2>1 DEF ShowsInv, DocumentsFull
  <2>3. ASSUME NEW b \in Clicks, lastBy' = b, phase'[b] = "ok", ~AddsFile(b)', ~muddled' PROVE ReadSince'
    <3>1. ~Loading /\ ~muddled /\ lastBy = b
      BY <1>1, <2>3
    <3>2. CASE b = c
      <4>1. state = IF deed[c] = "show" THEN "visible" ELSE "hidden"
        BY <1>1, <1>6, <3>1, <3>2 DEF ShowsInv, AsGranted
      <4>2. view # None => view' = Shown
        BY <1>6, <2>1, <4>1 DEF ShowsInv, DocumentsFull, Shown
      <4> QED  BY <1>1, <2>1, <3>1, <4>2 DEF ReadSince, Loading, Shown
    <3>3. CASE b # c
      <4>1. lastBy \in {c, None}
        BY <1>1, <3>1 DEF ShowsInv, OneAtATime, UnderWay
      <4> QED  BY <3>1, <3>3, <4>1, NoneIsNoClick
    <3> QED  BY <3>2, <3>3
  <2> QED  BY <1>1, <1>2, <1>3, <1>4, <2>1, <2>2, <2>3 DEF ShowsInv, Followed
<1>7. CASE ~AddsFile(c) /\ ~(screen = "document" /\ deed[c] \in {"show", "hide"})
  <2>1. asked' = asked + 1 /\ (view' = None \/ view' = view)
    BY <1>7 DEF Succeed, Load
  <2>2. asked' \in Nat /\ asked' > 0 /\ DocumentsFull'
    BY <1>1, <2>1 DEF ShowsInv, DocumentsFull
  <2>3. ~muddled' => ReadSince'
    BY <1>1, <2>2 DEF ReadSince, Loading
  <2> QED  BY <1>1, <1>2, <1>3, <1>4, <2>2, <2>3 DEF ShowsInv, Followed
<1> QED  BY <1>5, <1>6, <1>7

\* Every step.
LEMMA ShowsInvNext ==
  ASSUME ShowsInv, [ScreensNext]_screenVars
  PROVE  ShowsInv'
<1>1. ASSUME NEW c \in Clicks, NEW o, Click(c, o)
      PROVE  ShowsInv'
  <2>1. UNCHANGED <<screen, state, full, lastBy, view, asked, replies>> /\ (muddled => muddled')
        /\ phase' = [phase EXCEPT ![c] = "sent"] /\ deed' = [deed EXCEPT ![c] = o.does]
    BY <1>1 DEF Click, record
  <2>2. DOMAIN deed' = Clicks /\ \A b \in Clicks \ {c} : deed'[b] = deed[b]
    BY <2>1 DEF ShowsInv
  <2>3. muddled' \/ UnderWay = {}
    BY <1>1 DEF Click
  <2> QED  BY <2>1, <2>2, <2>3, CallMovesKeeps
<1>2. ASSUME NEW c \in Clicks, ShowRefusal(c) \/ LoseAnswer(c)
      PROVE  ShowsInv'
  <2>1. /\ UNCHANGED <<screen, state, full, lastBy, view, asked, replies, muddled, deed>>
        /\ phase' = [phase EXCEPT ![c] = "failed"] \/ phase' = [phase EXCEPT ![c] = "lost"]
    BY <1>2 DEF ShowRefusal, LoseAnswer, record, page
  <2>2. c \in UnderWay
    BY <1>2 DEF ShowRefusal, LoseAnswer, UnderWay
  <2> QED  BY <2>1, <2>2, CallMovesKeeps DEF ShowsInv
<1>3. CASE AnswerRead
  <2>1. /\ asked \in Nat /\ asked > 0 /\ asked' = asked - 1 /\ replies' = replies \cup {Shown}
        /\ UNCHANGED <<screen, state, full, lastBy, view, muddled, phase, deed>>
    BY <1>3 DEF AnswerRead, record, clickVars, ShowsInv
  <2>2. asked' \in Nat
    BY <2>1
  <2>3. Shown[2] = full
    BY DEF Shown
  <2>4. DocumentsFull'
    BY <2>1, <2>3 DEF ShowsInv, DocumentsFull
  <2>5. ReadSince => ReadSince'
    BY <2>1 DEF ReadSince, Loading, Shown
  <2> QED  BY <2>1, <2>2, <2>4, <2>5, ReadKeeps
<1>4. ASSUME NEW v \in replies, ReceiveRead(v)
      PROVE  ShowsInv'
  <2>1. /\ replies' = replies \ {v} /\ view' = v
        /\ UNCHANGED <<screen, state, full, lastBy, asked, muddled, phase, deed>>
    BY <1>4 DEF ReceiveRead, record, clickVars
  <2>2. DocumentsFull'
    BY <2>1 DEF ShowsInv, DocumentsFull
  <2>3. ReadSince => ReadSince'
    BY <2>1 DEF ReadSince, Shown
  <2> QED  BY <2>1, <2>2, <2>3, ReadKeeps DEF ShowsInv
<1>5. CASE LoseRead
  <2>1. /\ asked \in Nat /\ asked > 0 /\ asked' = asked - 1 /\ muddled' = TRUE
        /\ UNCHANGED <<screen, state, full, lastBy, view, replies, phase, deed>>
    BY <1>5 DEF LoseRead, record, clickVars, ShowsInv
  <2>2. asked' \in Nat /\ DocumentsFull'
    BY <2>1 DEF ShowsInv, DocumentsFull
  <2> QED  BY <2>1, <2>2, ReadKeeps
<1>6. CASE OpenPage
  <2>1. /\ UnderWay = {} /\ replies = {} /\ replies' = {} /\ asked' = 1 /\ view' = None
        /\ UNCHANGED <<screen, state, full, lastBy, phase, deed>>
    BY <1>6 DEF OpenPage, Loading, record, clickVars
  <2>2. asked' \in Nat /\ DocumentsFull' /\ ReadSince'
    BY <2>1 DEF DocumentsFull, ReadSince, Loading
  <2> QED  BY <2>1, <2>2, ReadKeeps
<1>7. CASE ChangeRank \/ UNCHANGED screenVars
  <2>1. UNCHANGED <<screen, state, full, lastBy, view, asked, replies, muddled, phase, deed>>
    BY <1>7 DEF ChangeRank, screenVars, record, page, clickVars
  <2>2. DocumentsFull' /\ (ReadSince => ReadSince')
    BY <2>1 DEF ShowsInv, DocumentsFull, ReadSince, Loading, Shown
  <2> QED  BY <2>1, <2>2, ReadKeeps DEF ShowsInv
<1>8. ASSUME NEW r \in RoutesOf[screen], OtherActs(r)
      PROVE  ShowsInv'
  <2>1. lastBy' = None /\ Apply(r) /\ UNCHANGED <<screen, view, asked, replies, muddled, phase, deed>>
    BY <1>8 DEF OtherActs, page
  <2>2. DocumentsFull'
    BY <2>1, DocumentDeeds DEF ShowsInv, DocumentsFull
  <2>3. \A b \in Clicks : AsGranted(b)' /\ Followed(b)'
    BY <2>1, NoneIsNoClick DEF AsGranted, Followed
  <2>4. OneAtATime'
    BY <2>1 DEF ShowsInv, OneAtATime, UnderWay
  <2> QED  BY <2>1, <2>2, <2>3, <2>4 DEF ShowsInv
<1> QED
  BY <1>1, <1>2, <1>3, <1>4, <1>5, <1>6, <1>7, <1>8, ServeKeepsShows, SucceedKeepsShows DEF ScreensNext

(***************************************************************************)
(* A page that does one thing at a time shows what it did, whatever        *)
(* happens between the call, its answer and the read that follows.         *)
(***************************************************************************)
THEOREM ShowsWhatItDidCorrect == ScreensSpec => []ShowsWhatItDid
<1>1. ScreensInit => ShowsInv
  BY NoneIsNoClick DEF ScreensInit, ShowsInv, DocumentsFull, OneAtATime, UnderWay, AsGranted, Followed
<1>2. ShowsInv => ShowsWhatItDid
  BY DEF ShowsInv, Followed, ReadSince, ShowsWhatItDid
<1> QED  BY <1>1, <1>2, ShowsInvNext, PTL DEF ScreensSpec

=============================================================================
