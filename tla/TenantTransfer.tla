--------------------------- MODULE TenantTransfer ---------------------------
(***************************************************************************)
(* Moving a company from one deployment to another: the export             *)
(* (server/src/lib/tenantExport.ts) reads the tables one SELECT after      *)
(* another while the company goes on working; the file it returns is       *)
(* validated and imported in one transaction (lib/tenantImport.ts,         *)
(* routes/platformTenantData.ts).                                          *)
(*                                                                         *)
(* Whether the import succeeds is decided by pairs: a row and a row it     *)
(* references.  A behaviour follows one such pair, taken from any foreign  *)
(* key of the schema; the other rows of the company are not represented.   *)
(***************************************************************************)
EXTENDS TenantSchema, Sequences, SequencesExt, Naturals, Absent

CONSTANT Requests   \* confirmations of the import

TableOrder == <<
    "users", "audit_events", "customers", "projects", "cost_codes", "contracts",
    "boq_revisions", "boq_items", "budget_alerts", "budget_revisions", "budget_items",
    "change_orders", "client_portal_users", "client_project_access", "suppliers", "commitments",
    "commitment_lines", "company_compliance_profiles", "company_feature_flag_overrides",
    "company_invites", "company_tax_identifiers", "company_tax_overrides",
    "compliance_audit_events", "compliance_periods", "compliance_exceptions",
    "compliance_workforce_snapshots", "daily_logs", "employees", "expenses", "files",
    "forecast_snapshots", "gosi_compliance_records", "quotes", "invoices", "invoice_items",
    "ipcs", "ipc_lines", "payroll_periods", "payroll_import_batches", "payroll_records",
    "labor_allocations", "labor_cost_postings", "measurements", "measurement_lines",
    "nitaqat_compliance_records", "notifications", "payroll_import_rows", "project_punch_items",
    "project_tasks", "project_task_dependencies", "quote_items", "subcontract_ipcs",
    "subcontract_ipc_lines", "tasks", "zatca_egs_units", "zatca_csr_instances",
    "zatca_compliance_lifecycles", "zatca_compliance_attempts", "zatca_icv_counters",
    "zatca_provider_operations", "zatca_submissions">>

ProjectScoped == {"budget_items", "expenses", "tasks", "change_orders", "daily_logs"}
ParentScoped == [quote_items |-> "quotes", invoice_items |-> "invoices", boq_items |-> "boq_revisions"]
Platform == {"platform_operators", "platform_operator_sessions", "plans", "feature_flags",
             "compliance_rule_versions"}

TableCount == Len(TableOrder)
Exported == Range(TableOrder) \cup {"companies"}
\* The table whose id the SELECT of each table filters on.
Scope(t) == CASE t \in ProjectScoped -> "projects"
              [] t \in DOMAIN ParentScoped -> ParentScoped[t]
              [] OTHER -> "companies"
\* Mutant: the tables of each kind of scope one kind after the other.
PlaceByScope == [t \in Exported |-> IF t = "companies" THEN 0
    ELSE (CHOOSE i \in DOMAIN TableOrder : TableOrder[i] = t)
         + TableCount * (CASE Scope(t) = "companies" -> 0 [] t \in ProjectScoped -> 1 [] OTHER -> 2)]

\* Place in the order of the SELECTs and of the INSERTs; the company's row is first in both.
Place == [t \in Exported |-> IF t = "companies" THEN 0 ELSE CHOOSE i \in DOMAIN TableOrder : TableOrder[i] = t]

\* The tables from which a route deletes rows one at a time.
Deletable == {"projects", "budget_items", "expenses", "tasks", "change_orders", "daily_logs",
              "company_invites", "quotes", "boq_items", "commitment_lines", "ipc_lines", "subcontract_ipc_lines",
              "measurement_lines", "labor_allocations", "project_tasks", "project_task_dependencies",
              "project_punch_items", "company_feature_flag_overrides"}

Two == {"parent", "child"}
Pairs == {e \in ForeignKeys : e[1] \in Exported}

VARIABLES
  pair,       \* <<table of the child, table of the parent>>
  childFirst, \* whether the child's random id sorts before the parent's
  source,     \* "none", "live" or "gone": the two rows where the company works
  cites,      \* whether the child's column still holds the reference
  nextTable,    \* the next table of the export, TableCount + 1 when the file is complete
  start,      \* the rows that were committed when the export began
  file,       \* the rows in the file
  fileCites,  \* the child's column, as read
  damaged,    \* whether the file lost a row after its checksum was taken
  sameSchema, \* whether both deployments have run the same migrations
  platform,   \* whether the target has the platform row that the child references
  taken,      \* whether the target already holds a unique value of the child
  arrived,     \* what the target has of the company
  writer,     \* the import that has inserted the company's row and not committed
  progress, told    \* each confirmation

tenant == <<source, cites>>
export == <<nextTable, start, file, fileCites, damaged>>
fixed == <<pair, childFirst, sameSchema, platform>>
import == <<taken, arrived, writer, progress, told>>
transferVars == <<fixed, tenant, export, import>>

Child == pair[1]
Parent == pair[2]
Table(x) == IF x = "child" THEN Child ELSE Parent
OfPlatform(t) == t \in Platform

TransferTypeOK ==
    /\ Child \in Exported /\ Parent \in Refs(Child) /\ childFirst \in BOOLEAN
    /\ source \in [Two -> {"none", "live", "gone"}] /\ cites \in BOOLEAN
    /\ nextTable \in 0..TableCount + 1 /\ start \subseteq Two /\ file \subseteq Two
    /\ fileCites \in BOOLEAN /\ damaged \in BOOLEAN
    /\ sameSchema \in BOOLEAN /\ platform \in BOOLEAN /\ taken \in BOOLEAN
    /\ arrived \subseteq Two \cup {"company"} /\ writer \in Requests \cup {None}
    /\ progress \in [Requests -> {"idle", "begin", "rows", "commit", "done"}]
    /\ told \in [Requests -> {"nothing", "refused", "failed", "imported", "lost"}]

TransferInit ==
    /\ pair \in Pairs
    /\ childFirst \in (IF Child = Parent THEN BOOLEAN ELSE {FALSE})
    /\ source \in {s \in [Two -> {"none", "live"}] :
                    /\ s["child"] = "live" => s["parent"] = "live"
                    /\ Parent = "companies" \/ OfPlatform(Parent) => s["parent"] = "live"
                    /\ Child = "companies" => s["child"] = "live"}
    /\ cites = TRUE /\ nextTable = 0 /\ start = {} /\ file = {} /\ fileCites = TRUE /\ damaged = FALSE
    /\ sameSchema \in BOOLEAN
    /\ platform \in (IF OfPlatform(Parent) THEN BOOLEAN ELSE {TRUE})
    /\ taken = FALSE /\ arrived = {} /\ writer = None
    /\ progress = [r \in Requests |-> "idle"] /\ told = [r \in Requests |-> "nothing"]

-----------------------------------------------------------------------------
(* The company at work.                                                    *)

\* A request inserts the parent, or the child that references it.
WriteRow(x) ==
    /\ source[x] = "none"
    /\ x = "child" => source["parent"] = "live"
    /\ source' = [source EXCEPT ![x] = "live"]
    /\ UNCHANGED <<fixed, cites, export, import>>

\* The database refuses the deletion of a parent that is cited, deletes the child with its
\* owner and empties a detaching column.
DeleteRow(x) ==
    /\ source[x] = "live" /\ Table(x) \in Deletable
    /\ LET held == x = "parent" /\ source["child"] = "live" /\ cites IN
       /\ held => Parent \notin Schema[Child].cites
       /\ source' = [y \in Two |-> IF y = x \/ (held /\ y = "child" /\ Parent \in Schema[Child].owners)
                                   THEN "gone" ELSE source[y]]
       /\ cites' = (cites /\ ~(held /\ Parent \in Schema[Child].detaches))
    /\ UNCHANGED <<fixed, export, import>>

-----------------------------------------------------------------------------
(* The export.                                                             *)

Live == {x \in Two : source[x] = "live"}

BeginExport ==
    /\ nextTable = 0
    /\ nextTable' = 1
    /\ start' = Live
    /\ file' = {x \in Live : Table(x) = "companies"}
    /\ UNCHANGED <<fixed, tenant, fileCites, damaged, import>>

\* The SELECTs up to the next table that can hold a row of the pair, in the order of the list; the
\* others do not meet it.  A table without the column it is scoped by would be an error.
ReadTable ==
    /\ nextTable \in 1..TableCount
    /\ LET ahead == {i \in nextTable..TableCount : TableOrder[i] \in {Child, Parent}}
           i == IF ahead = {} THEN TableCount ELSE Min(ahead)
           t == TableOrder[i]
       IN /\ Scope(t) \in Schema[t].owners
          /\ file' = file \cup {x \in Live : Table(x) = t}
          /\ fileCites' = IF Child = t THEN cites ELSE fileCites
          /\ nextTable' = i + 1
    /\ UNCHANGED <<fixed, tenant, start, damaged, import>>

\* The file is edited or cut on its way.
Damage ==
    /\ nextTable = TableCount + 1 /\ ~damaged /\ \A r \in Requests : progress[r] = "idle"
    /\ \E x \in file : file' = file \ {x}
    /\ damaged' = TRUE
    /\ UNCHANGED <<fixed, tenant, nextTable, start, fileCites, import>>

-----------------------------------------------------------------------------
(* The import.                                                             *)

\* Mutant: the checksum is not a blocker.
BlockersWithoutChecksum ==
    (IF sameSchema THEN {} ELSE {"schema_version_mismatch"})
    \cup (IF "company" \in arrived THEN {"company_id_already_exists"} ELSE {})

Blockers ==
    (IF damaged THEN {"checksum_mismatch"} ELSE {})
    \cup (IF sameSchema THEN {} ELSE {"schema_version_mismatch"})
    \cup (IF "company" \in arrived THEN {"company_id_already_exists"} ELSE {})

Answer(r, a) == progress' = [progress EXCEPT ![r] = "done"] /\ told' = [told EXCEPT ![r] = a]

Confirm(r) ==
    /\ progress[r] = "idle" /\ nextTable = TableCount + 1
    /\ IF Blockers = {} THEN progress' = [progress EXCEPT ![r] = "begin"] /\ told' = told
                        ELSE Answer(r, "refused")
    /\ UNCHANGED <<fixed, tenant, export, taken, arrived, writer>>

\* The INSERT of the company waits for another import's uncommitted row of the same id.
InsertCompany(r) ==
    /\ progress[r] = "begin" /\ writer = None
    /\ IF "company" \in arrived THEN Answer(r, "failed") /\ writer' = writer
       ELSE /\ writer' = r
            /\ progress' = [progress EXCEPT ![r] = "rows"] /\ told' = told
    /\ UNCHANGED <<fixed, tenant, export, taken, arrived>>

\* When the child is inserted the row it references must be there: a platform row of the target,
\* or a row of the file that came earlier, of an earlier table or earlier in the order of ids.
ReferenceHolds ==
    "child" \in file /\ fileCites =>
        IF OfPlatform(Parent) THEN platform
        ELSE /\ "parent" \in file
             /\ IF Child = Parent THEN ~childFirst ELSE Place[Parent] < Place[Child]

InsertTables(r) ==
    /\ progress[r] = "rows"
    /\ IF ReferenceHolds /\ ~(taken /\ "child" \in file)
       THEN progress' = [progress EXCEPT ![r] = "commit"] /\ told' = told /\ writer' = writer
       ELSE Answer(r, "failed") /\ writer' = None
    /\ UNCHANGED <<fixed, tenant, export, taken, arrived>>

\* The answer may be lost after the COMMIT.
Commit(r) ==
    /\ progress[r] = "commit"
    /\ arrived' = {"company"} \cup file
    /\ writer' = None
    /\ \E a \in {"imported", "lost"} : Answer(r, a)
    /\ UNCHANGED <<fixed, tenant, export, taken>>

\* The process dies: the database rolls the transaction back.
Crash(r) ==
    /\ progress[r] \in {"begin", "rows", "commit"}
    /\ writer' = (IF writer = r THEN None ELSE writer)
    /\ Answer(r, "lost")
    /\ UNCHANGED <<fixed, tenant, export, taken, arrived>>

\* Somebody on the target takes a value that must be unique there.
TakeKey ==
    /\ ~taken /\ arrived = {} /\ writer = None /\ Schema[Child].key
    /\ taken' = TRUE
    /\ UNCHANGED <<fixed, tenant, export, arrived, writer, progress, told>>

TransferNext ==
    \/ \E x \in Two : WriteRow(x) \/ DeleteRow(x)
    \/ BeginExport \/ ReadTable \/ Damage \/ TakeKey
    \/ \E r \in Requests : Confirm(r) \/ InsertCompany(r) \/ InsertTables(r) \/ Commit(r) \/ Crash(r)

TransferSpec == TransferInit /\ [][TransferNext]_transferVars

-----------------------------------------------------------------------------
(* What the transfer promises.                                             *)

(***************************************************************************)
(* A company that has been imported has every row that was committed       *)
(* before the export began and has not been deleted since, and a child     *)
(* never comes without the row it references.                              *)
(***************************************************************************)
ArrivesWhole ==
    arrived # {} =>
        /\ \A x \in start : Table(x) \in Exported /\ source[x] = "live" => x \in arrived
        /\ "child" \in arrived /\ fileCites /\ ~OfPlatform(Parent) => "parent" \in arrived

(***************************************************************************)
(* A file that has been validated and is refused by the database all the   *)
(* same is refused for one of five reasons: the parent was written while   *)
(* the export ran, the platform row is missing on the target, a unique     *)
(* value is taken there, another import of the company came first, or the  *)
(* row references a row of its own table with a later id.  The order of    *)
(* the tables is never the reason.                                         *)
(***************************************************************************)
KnownFailures ==
    \A r \in Requests : told[r] = "failed" =>
        \/ Parent \in Exported /\ "parent" \notin start
        \/ OfPlatform(Parent) /\ ~platform
        \/ taken
        \/ "company" \in arrived
        \/ Child = Parent /\ childFirst

(***************************************************************************)
(* lib/tenantDataTables.ts:5-12 says that inserting the rows in this order *)
(* never violates a foreign key: an export of a company at rest, validated *)
(* and imported once where every platform row exists and no key is taken,  *)
(* succeeds.                                                               *)
(***************************************************************************)
RestingTenantImports ==
    \A r \in Requests :
        told[r] = "failed" =>
            \/ start # Two \/ source # [x \in Two |-> "live"]
            \/ ~platform \/ taken \/ "company" \in arrived

=============================================================================
