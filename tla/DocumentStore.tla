--------------------------- MODULE DocumentStore ---------------------------
(***************************************************************************)
(* Uploaded files: their bytes (server/src/lib/storage) and their rows     *)
(* (lib/storage/files.ts, routes/documents.ts,                             *)
(* routes/subcontractIpcDocuments.ts, the logo of routes/company.ts), who  *)
(* reads them through the client portal (middleware/clientPortalAuth.ts,   *)
(* middleware/requireClientProjectAccess.ts, routes/clientPortal*.ts), and *)
(* what a backup (db/backup.ts) and its restoration (db/restore.ts) keep.  *)
(*                                                                         *)
(* One company with one project.  Passwords and tokens are right; the      *)
(* rules for types, sizes and signatures of files decide before anything   *)
(* is stored and are left out.                                             *)
(***************************************************************************)
EXTENDS Naturals, FiniteSets, Absent

CONSTANTS
  Files,      \* rows of files, each with its storage key
  Clients,    \* client_portal_users
  PortalSessions, \* client_portal_sessions
  Readers,    \* downloads through the portal
  MaxSignups  \* bound on the rows of the key tables inserted while a backup runs

EntityTypes == {"project_document", "subcontract_ipc_document", "company_logo"}
\* What must hold for a client to read a document.
Conditions == {"session", "active", "grant", "visible"}

VARIABLES
  provider,  \* "local" or "s3"
  bytes,     \* the keys that storage holds
  row,       \* "none", "stored" (bytes saved, row not committed) or "live"
  entity,    \* entity_type of each row
  visible,   \* files.client_visible
  logo,      \* companies.logo_path
  account,   \* client_portal_users.status, "none" before the row exists
  granted,   \* the clients with a grant of the project that is not revoked
  session,   \* the client of each session, None before the login
  revoked,   \* the sessions that were ended
  pc, by, of,\* each download: where it is, its session and its file
  met,       \* the conditions that have held since each download began
  keyRows,   \* rows of the key tables, as a number
  backup     \* the backup and its restoration

stored == <<bytes, row, entity, visible, logo>>
portal == <<account, granted, session, revoked>>
reading == <<pc, by, of, met>>
storeVars == <<provider, stored, portal, reading, keyRows, backup>>

NoBackup == [at |-> "none", rows |-> {}, dumped |-> 0, counted |-> 0, archive |-> {}, verified |-> FALSE]

StoreInit ==
    /\ provider \in {"local", "s3"}
    /\ bytes = {} /\ row = [f \in Files |-> "none"] /\ entity \in [Files -> EntityTypes]
    /\ visible = {} /\ logo = None
    /\ account = [c \in Clients |-> "none"] /\ granted = {} /\ session = [s \in PortalSessions |-> None] /\ revoked = {}
    /\ pc = [r \in Readers |-> "idle"] /\ by = [r \in Readers |-> None] /\ of = [r \in Readers |-> None]
    /\ met = [r \in Readers |-> {}]
    /\ keyRows = 0 /\ backup = NoBackup

\* What is met now by a download of file f with session s, and by each running download after a step.
Met(s, f) ==
    (IF s \notin revoked THEN {"session"} ELSE {})
    \cup (IF account[session[s]] = "active" THEN {"active"} ELSE {})
    \cup (IF session[s] \in granted THEN {"grant"} ELSE {})
    \cup (IF f \in visible THEN {"visible"} ELSE {})
Observe ==
    /\ UNCHANGED <<pc, by, of>>
    /\ met' = [r \in Readers |-> IF pc[r] \in {"idle", "done", "refused"} THEN met[r]
                                 ELSE met[r] \cup Met(by[r], of[r])']

-----------------------------------------------------------------------------
(* Uploads.                                                                *)

\* The bytes are saved first, under a new key.
Save(f) ==
    /\ row[f] = "none"
    /\ bytes' = bytes \cup {f}
    /\ row' = [row EXCEPT ![f] = "stored"]
    /\ UNCHANGED <<provider, entity, visible, logo, portal, reading, keyRows, backup>>

\* Then the row: with its audit row for a project document, alone for the others.
InsertRow(f) ==
    /\ row[f] = "stored"
    /\ row' = [row EXCEPT ![f] = "live"]
    /\ UNCHANGED <<provider, bytes, entity, visible, logo, portal, reading, keyRows, backup>>

\* The process dies or the INSERT fails: the bytes stay, without a row, for good.
AbandonUpload(f) ==
    /\ row[f] = "stored"
    /\ row' = [row EXCEPT ![f] = "lost"]
    /\ UNCHANGED <<provider, bytes, entity, visible, logo, portal, reading, keyRows, backup>>

\* A logo's path is written by a transaction of its own.
SetLogo(f) ==
    /\ row[f] = "live" /\ entity[f] = "company_logo" /\ logo # f
    /\ logo' = f
    /\ UNCHANGED <<provider, bytes, row, entity, visible, portal, reading, keyRows, backup>>

SetVisible(f) ==
    /\ row[f] = "live" /\ entity[f] = "project_document"
    /\ visible' = IF f \in visible THEN visible \ {f} ELSE visible \cup {f}
    /\ UNCHANGED <<provider, bytes, row, entity, logo, portal, keyRows, backup>>
    /\ Observe

-----------------------------------------------------------------------------
(* The accounts of the portal.                                             *)

CreateClient(c) ==
    /\ account[c] = "none"
    /\ account' = [account EXCEPT ![c] = "active"]
    /\ UNCHANGED <<provider, stored, granted, session, revoked, keyRows, backup>>
    /\ Observe

SetStatus(c) ==
    /\ account[c] # "none"
    /\ account' = [account EXCEPT ![c] = IF @ = "active" THEN "deactivated" ELSE "active"]
    /\ UNCHANGED <<provider, stored, granted, session, revoked, keyRows, backup>>
    /\ Observe

\* The unique index admits one grant that is not revoked.
Grant(c) ==
    /\ account[c] # "none" /\ c \notin granted
    /\ granted' = granted \cup {c}
    /\ UNCHANGED <<provider, stored, account, session, revoked, keyRows, backup>>
    /\ Observe

Revoke(c) ==
    /\ c \in granted
    /\ granted' = granted \ {c}
    /\ UNCHANGED <<provider, stored, account, session, revoked, keyRows, backup>>
    /\ Observe

\* The status is read before the slow comparison of the password: the account may be deactivated
\* when the session is inserted.
PortalLogin(s, c) ==
    /\ session[s] = None /\ account[c] # "none"
    /\ session' = [session EXCEPT ![s] = c]
    /\ UNCHANGED <<provider, stored, account, granted, revoked, reading, keyRows, backup>>

PortalLogout(s) ==
    /\ session[s] # None /\ s \notin revoked
    /\ revoked' = revoked \cup {s}
    /\ UNCHANGED <<provider, stored, account, granted, session, keyRows, backup>>
    /\ Observe

-----------------------------------------------------------------------------
(* A download, one SELECT at a time.                                       *)

BeginDownload(r, s, f) ==
    /\ pc[r] = "idle" /\ session[s] # None
    /\ pc' = [pc EXCEPT ![r] = "session"]
    /\ by' = [by EXCEPT ![r] = s] /\ of' = [of EXCEPT ![r] = f]
    /\ met' = [met EXCEPT ![r] = Met(s, f)]
    /\ UNCHANGED <<provider, stored, portal, keyRows, backup>>

Refuse(r) == pc' = [pc EXCEPT ![r] = "refused"]
Proceed(r, at, then, condition) ==
    /\ pc[r] = at
    /\ IF condition THEN pc' = [pc EXCEPT ![r] = then] ELSE Refuse(r)
    /\ UNCHANGED <<provider, stored, portal, by, of, met, keyRows, backup>>

Client(r) == session[by[r]]
CheckSession(r) == Proceed(r, "session", "account", by[r] \notin revoked)
CheckAccount(r) == Proceed(r, "account", "grant", account[Client(r)] = "active")
CheckGrant(r) == Proceed(r, "grant", "row", Client(r) \in granted)
Shared(f) == row[f] = "live" /\ entity[f] = "project_document" /\ f \in visible
CheckRow(r) == Proceed(r, "row", "bytes", Shared(of[r]))
ReadBytes(r) == Proceed(r, "bytes", "done", of[r] \in bytes)

-----------------------------------------------------------------------------
(* Backup and restoration.                                                 *)

\* pg_dump: one snapshot of the database.
Dump ==
    /\ backup.at = "none"
    /\ backup' = [backup EXCEPT !.at = "dumped", !.rows = {f \in Files : row[f] = "live"}, !.dumped = keyRows]
    /\ UNCHANGED <<provider, stored, portal, reading, keyRows>>

\* The counts are taken by a connection of their own, after the dump.
CountRows ==
    /\ backup.at = "dumped"
    /\ backup' = [backup EXCEPT !.at = "counted", !.counted = keyRows]
    /\ UNCHANGED <<provider, stored, portal, reading, keyRows>>

\* Mutant: the public directory only.
ArchivePublic ==
    /\ backup.at = "counted"
    /\ backup' = [backup EXCEPT !.at = "made", !.archive = {f \in bytes : entity[f] = "company_logo"}]
    /\ UNCHANGED <<provider, stored, portal, reading, keyRows>>

\* tar of uploads and private-uploads; objects in S3 are not copied.
Archive ==
    /\ backup.at = "counted"
    /\ backup' = [backup EXCEPT !.at = "made", !.archive = IF provider = "local" THEN bytes ELSE {}]
    /\ UNCHANGED <<provider, stored, portal, reading, keyRows>>

\* Somebody registers while the backup runs.
Signup ==
    /\ keyRows < MaxSignups
    /\ keyRows' = keyRows + 1
    /\ UNCHANGED <<provider, stored, portal, reading, backup>>

\* pg_restore into an empty database, the archive unpacked, the key tables counted again.
Restore ==
    /\ backup.at = "made"
    /\ backup' = [backup EXCEPT !.at = "restored", !.verified = (backup.counted = backup.dumped)]
    /\ UNCHANGED <<provider, stored, portal, reading, keyRows>>

-----------------------------------------------------------------------------
StoreNext ==
    \/ \E f \in Files : Save(f) \/ InsertRow(f) \/ AbandonUpload(f) \/ SetLogo(f) \/ SetVisible(f)
    \/ \E c \in Clients : CreateClient(c) \/ SetStatus(c) \/ Grant(c) \/ Revoke(c)
    \/ \E s \in PortalSessions : PortalLogout(s) \/ \E c \in Clients : PortalLogin(s, c)
    \/ \E r \in Readers :
         \/ \E s \in PortalSessions, f \in Files : BeginDownload(r, s, f)
         \/ CheckSession(r) \/ CheckAccount(r) \/ CheckGrant(r) \/ CheckRow(r) \/ ReadBytes(r)
    \/ Dump \/ CountRows \/ Archive \/ Restore \/ Signup

StoreSpec == StoreInit /\ [][StoreNext]_storeVars

-----------------------------------------------------------------------------

(***************************************************************************)
(* Whatever uploads fail half way, every row has its bytes and a logo in   *)
(* use has a row.                                                          *)
(***************************************************************************)
RowsHaveBytes ==
    /\ \A f \in Files : row[f] = "live" => f \in bytes
    /\ logo # None => row[logo] = "live"

(***************************************************************************)
(* After the restoration of a backup with an archive every row that came   *)
(* back has its bytes, although the dump and the archive are taken at      *)
(* different moments of a running system.                                  *)
(***************************************************************************)
RestoredRowsHaveBytes == backup.at = "restored" /\ provider = "local" => backup.rows \subseteq backup.archive

(***************************************************************************)
(* A document reaches a client only if it is a project document and since  *)
(* the download began the session was open, the account active, the grant  *)
(* not revoked and the document marked visible, each at some moment.       *)
(***************************************************************************)
ServedWhileShared ==
    \A r \in Readers : pc[r] = "done" => met[r] = Conditions /\ entity[of[r]] = "project_document"

=============================================================================
