---------------------------- MODULE TenantSchema ----------------------------
(***************************************************************************)
(* The tables of server/src/db/schema.ts as a graph.  A row names the      *)
(* tables its foreign keys reference, by what deleting the referenced row  *)
(* does: "cascade" deletes the row too (owners), no action refuses the     *)
(* deletion (cites), "set null" empties the column (detaches).  A keyed    *)
(* table has a column that is UNIQUE over all tenants (an e-mail address,  *)
(* a public token, a document's uuid).  Other columns and the keys that    *)
(* begin with a company, a project or a parent are left out.               *)
(***************************************************************************)
EXTENDS FiniteSets

Row(owners, cites, detaches) ==
    [owners |-> owners, cites |-> cites, detaches |-> detaches, key |-> FALSE]
Keyed(row) == [row EXCEPT !.key = TRUE]

AccountTables == [
  plans |-> Row({}, {}, {}),
  companies |-> Row({}, {}, {"plans"}),
  users |-> Keyed(Row({"companies"}, {}, {})),
  user_sessions |-> Row({"users"}, {}, {}),
  projects |-> Row({"companies"}, {}, {"customers"})]

SiteTables == [
  budget_items |-> Row({"projects"}, {"cost_codes", "boq_items", "budget_revisions"}, {}),
  expenses |-> Row({"projects"}, {"cost_codes"}, {"budget_items"}),
  tasks |-> Row({"projects"}, {}, {}),
  change_orders |-> Row({"projects"}, {}, {}),
  daily_logs |-> Row({"projects"}, {}, {}),
  password_reset_tokens |-> Row({"users"}, {}, {})]

SalesTables == [
  company_invites |-> Row({"companies"}, {}, {}),
  quotes |-> Keyed(Row({"companies"}, {"compliance_rule_versions", "company_tax_overrides"}, {})),
  quote_items |-> Row({"quotes"}, {}, {}),
  invoices |-> Keyed(Row({"companies"}, {"compliance_rule_versions", "company_tax_overrides"}, {"quotes", "projects", "contracts"}))]

TaxTables == [
  invoice_items |-> Row({"invoices"}, {}, {}),
  compliance_rule_versions |-> Row({}, {"users"}, {}),
  company_compliance_profiles |-> Row({"companies"}, {"compliance_rule_versions"}, {}),
  company_tax_overrides |-> Row({"companies"}, {"compliance_rule_versions", "users"}, {})]

TaxRecordTables == [
  compliance_audit_events |-> Row({"companies"}, {"compliance_rule_versions", "users"}, {}),
  company_tax_identifiers |-> Row({"companies"}, {}, {})]

ContractTables == [
  cost_codes |-> Row({"companies", "projects"}, {"cost_codes"}, {}),
  contracts |-> Row({"companies", "projects"}, {"contracts", "users"}, {}),
  boq_revisions |-> Row({"companies", "projects", "contracts"}, {"boq_revisions", "users"}, {})]

BoqTables == [
  boq_items |-> Row({"boq_revisions"}, {"boq_items", "cost_codes"}, {}),
  budget_revisions |-> Row({"companies", "projects"}, {"users"}, {}),
  audit_events |-> Row({"companies"}, {"users"}, {})]

FileTables == [
  files |-> Row({"companies"}, {"users", "files"}, {}),
  idempotency_keys |-> Row({"companies"}, {}, {})]

DirectoryTables == [
  notifications |-> Row({"companies", "users"}, {}, {}),
  suppliers |-> Row({"companies"}, {"users"}, {})]

CommitmentTables == [
  commitments |-> Row({"companies", "projects"}, {"contracts", "suppliers", "users"}, {}),
  commitment_lines |-> Row({"companies", "commitments"}, {"cost_codes", "boq_items"}, {}),
  customers |-> Row({"companies"}, {"users"}, {})]

PortalTables == [
  client_portal_users |-> Keyed(Row({"companies"}, {"users"}, {"customers"})),
  client_portal_sessions |-> Row({"client_portal_users"}, {}, {}),
  client_project_access |-> Row({"companies", "client_portal_users", "projects"}, {"users"}, {})]

MeasurementTables == [
  measurements |-> Row({"companies", "projects", "contracts"}, {"boq_revisions", "users"}, {}),
  measurement_lines |-> Row({"companies", "measurements"}, {"boq_items"}, {})]

IpcTables == [
  ipcs |-> Row({"companies", "projects", "contracts"}, {"boq_revisions", "users"}, {}),
  ipc_lines |-> Row({"companies", "ipcs"}, {"boq_items"}, {})]

SubcontractIpcTables == [
  subcontract_ipcs |-> Row({"companies", "projects", "commitments"}, {"users"}, {}),
  subcontract_ipc_lines |-> Row({"companies", "subcontract_ipcs"}, {"commitment_lines"}, {})]

OperatorTables == [
  forecast_snapshots |-> Row({"companies", "projects"}, {"users"}, {}),
  platform_operators |-> Keyed(Row({}, {}, {})),
  platform_operator_sessions |-> Row({"platform_operators"}, {}, {})]

FlagTables == [
  feature_flags |-> Row({}, {}, {}),
  company_feature_flag_overrides |-> Row({"companies", "feature_flags"}, {"platform_operators"}, {}),
  support_sessions |-> Row({}, {"platform_operators", "companies"}, {})]

EgsTables == [
  zatca_egs_units |-> Row({"companies"}, {}, {}),
  zatca_csr_instances |-> Row({"companies", "zatca_egs_units"}, {"zatca_csr_instances"}, {})]

ComplianceRunTables == [
  zatca_compliance_lifecycles |-> Row({"companies", "zatca_csr_instances"}, {}, {}),
  zatca_compliance_attempts |-> Row({"companies", "zatca_compliance_lifecycles"}, {"zatca_compliance_attempts"}, {})]

ZatcaDocumentTables == [
  zatca_provider_operations |-> Row({"companies", "zatca_egs_units"}, {}, {}),
  zatca_icv_counters |-> Row({"companies", "zatca_egs_units"}, {}, {}),
  zatca_submissions |-> Keyed(Row({"companies", "zatca_egs_units", "invoices"}, {}, {}))]

PayrollTables == [
  employees |-> Row({"companies"}, {"users"}, {}),
  payroll_periods |-> Row({"companies"}, {"users"}, {})]

LabourTables == [
  payroll_records |-> Row({"companies", "payroll_periods"}, {"employees", "payroll_import_batches", "users"}, {}),
  labor_allocations |-> Row({"companies", "payroll_records", "projects"}, {"cost_codes", "users"}, {}),
  labor_cost_postings |-> Row({"companies", "payroll_periods", "labor_allocations"}, {"expenses", "labor_cost_postings", "users"}, {})]

PayrollImportTables == [
  payroll_import_batches |-> Row({"companies", "payroll_periods"}, {"files", "users"}, {}),
  payroll_import_rows |-> Row({"companies", "payroll_import_batches"}, {"payroll_records"}, {})]

ScheduleTables == [
  project_tasks |-> Row({"companies", "projects"}, {"users"}, {"project_tasks"}),
  project_task_dependencies |-> Row({"companies", "projects", "project_tasks"}, {"users"}, {})]

PunchTables == [
  project_punch_items |-> Row({"companies", "projects"}, {"users"}, {}),
  compliance_periods |-> Row({"companies"}, {"users"}, {})]

WorkforceTables == [
  compliance_workforce_snapshots |-> Row({"companies", "compliance_periods"}, {"users"}, {}),
  nitaqat_compliance_records |-> Row({"companies", "compliance_periods"}, {"users"}, {}),
  gosi_compliance_records |-> Row({"companies", "compliance_periods"}, {"users"}, {})]

ExceptionTables == [
  compliance_exceptions |-> Row({"companies"}, {"users"}, {"compliance_periods"})]

AlertTables == [
  budget_alerts |-> Row({"companies", "projects"}, {"cost_codes", "users"}, {}),
  incidents |-> Row({}, {"platform_operators"}, {"companies"})]

Groups ==
  { AccountTables, SiteTables, SalesTables, TaxTables, TaxRecordTables, ContractTables, BoqTables, FileTables,
    DirectoryTables, CommitmentTables, PortalTables, MeasurementTables, IpcTables, SubcontractIpcTables, OperatorTables,
    FlagTables, EgsTables, ComplianceRunTables, ZatcaDocumentTables, PayrollTables, LabourTables, PayrollImportTables,
    ScheduleTables, PunchTables, WorkforceTables, ExceptionTables, AlertTables }

Tables == UNION {DOMAIN g : g \in Groups}
Schema == [t \in Tables |-> (CHOOSE g \in Groups : t \in DOMAIN g)[t]]
Refs(t) == Schema[t].owners \cup Schema[t].cites \cup Schema[t].detaches
\* Foreign keys, from the table that has the column to the table it references.
ForeignKeys == {e \in Tables \X Tables : e[2] \in Refs(e[1])}

=============================================================================
