------------------------ MODULE AdministrationProofs ------------------------
(***************************************************************************)
(* Proofs about Accounts, DocumentStore, PlatformConsole and               *)
(* WorkforceCompliance: owners, the feature flag, the incident, files and  *)
(* downloads, sessions and head counts.                                    *)
(***************************************************************************)
EXTENDS Accounts, DocumentStore, PlatformConsole, WorkforceCompliance, FiniteSetTheorems, TLAPS

-----------------------------------------------------------------------------
(* The platform's owner.                                                   *)

TransferSound(t) == tpc[t] = "write" => giver[t] \in Operators /\ taker[t] \in Operators /\ giver[t] # taker[t]
IsOwner(o) == \A p \in Operators : oprole[p] = "platform_owner" <=> p = o

OwnerInv ==
    /\ oprole \in [Operators -> OperatorRoles]
    /\ tpc \in [Transfers -> {"idle", "write", "refused", "done"}]
    /\ giver \in [Transfers -> Operators \cup {None}] /\ taker \in [Transfers -> Operators \cup {None}]
    /\ \A t \in Transfers : TransferSound(t)
    /\ \E o \in Operators : IsOwner(o)

\* One owner, counted and named.
LEMMA OneIsNamed ==
  ASSUME oprole \in [Operators -> OperatorRoles]
  PROVE  OneOwner <=> \E o \in Operators : IsOwner(o)
<1> DEFINE Owners == {o \in Operators : oprole[o] = "platform_owner"}
<1>1. IsFiniteSet(Owners)
  BY FiniteOperators, FS_Subset
<1>2. Cardinality(Owners) = 1 <=> \E o : Owners = {o}
  BY <1>1, FS_Singleton
<1>3. (\E o : Owners = {o}) <=> \E o \in Operators : IsOwner(o)
  <2>1. ASSUME NEW o, Owners = {o} PROVE o \in Operators /\ IsOwner(o)
    BY <2>1 DEF IsOwner
  <2>2. ASSUME NEW o \in Operators, IsOwner(o) PROVE Owners = {o}
    BY <2>2 DEF IsOwner
  <2> QED  BY <2>1, <2>2
<1> QED  BY <1>2, <1>3 DEF OneOwner

\* The initial state.
LEMMA OwnerInit == ConsoleInit => OwnerInv
<1> SUFFICES ASSUME ConsoleInit PROVE OwnerInv
  OBVIOUS
<1>1. OneOwner /\ oprole \in [Operators -> OperatorRoles]
  BY DEF ConsoleInit, OneOwner
<1>2. \E o \in Operators : IsOwner(o)
  BY <1>1, OneIsNamed
<1> QED  BY <1>1, <1>2 DEF ConsoleInit, OwnerInv, TransferSound

\* A transfer that is written promotes one operator and demotes the owner, or does nothing.
LEMMA TransferKeeps ==
  ASSUME NEW t \in Transfers, OwnerInv, Transfer(t)
  PROVE  OwnerInv'
<1>1. CASE oprole[giver[t]] = "platform_owner"
  <2>1. giver[t] \in Operators /\ taker[t] \in Operators /\ giver[t] # taker[t] /\ HandOver(t)
    BY <1>1 DEF OwnerInv, TransferSound, Transfer
  <2>2. IsOwner(giver[t])
    BY <1>1, <2>1 DEF OwnerInv, IsOwner
  <2>3. oprole' \in [Operators -> OperatorRoles]
    BY <2>1 DEF HandOver, OwnerInv, OperatorRoles
  <2>4. IsOwner(taker[t])'
    BY <2>1, <2>2 DEF HandOver, OwnerInv, IsOwner, Transfer
  <2>5. \A s \in Transfers : TransferSound(s)'
    BY <2>1 DEF OwnerInv, TransferSound, HandOver, Transfer
  <2> QED  BY <2>1, <2>3, <2>4, <2>5 DEF OwnerInv, HandOver, Transfer
<1>2. CASE oprole[giver[t]] # "platform_owner"
  BY <1>2 DEF OwnerInv, Transfer, TransferSound, IsOwner
<1> QED  BY <1>1, <1>2

\* Every step keeps the invariant.
LEMMA OwnerStep == OwnerInv /\ [ConsoleNext]_consoleVars => OwnerInv'
<1> SUFFICES ASSUME OwnerInv, [ConsoleNext]_consoleVars PROVE OwnerInv'
  OBVIOUS
<1>1. CASE \E t \in Transfers : Transfer(t)
  BY <1>1, TransferKeeps
<1>2. CASE \E t \in Transfers, a, b \in Operators : ReadTransfer(t, a, b)
  BY <1>2 DEF OwnerInv, ReadTransfer, TransferSound, IsOwner
<1>3. CASE UNCHANGED <<oprole, tpc, giver, taker>>
  BY <1>3 DEF OwnerInv, TransferSound, IsOwner
<1>4. FlagSteps \/ IncidentSteps \/ PlanSteps \/ UNCHANGED consoleVars => UNCHANGED staff
  BY DEF FlagSteps, SetFlag, FindOverride, SetOverride, ClearOverride, Use, ReadFlag, ReadOverride, IncidentSteps,
      WriteIncident, UpdateIncident, ReadIncident, PlanSteps, ReadPlan, WritePlan, AssignPlan, consoleVars
<1>5. CASE OperatorSteps
  BY <1>1, <1>2, <1>3, <1>5 DEF OperatorSteps, OperatorLogin, OperatorLogout, GrantSupport, ExpireSupport, RevokeSupport,
      Look, ListActivity, staff
<1> QED  BY <1>3, <1>4, <1>5 DEF ConsoleNext, staff

(***************************************************************************)
(* There is exactly one platform owner, for any number of operators and    *)
(* of transfers that run at once.                                          *)
(***************************************************************************)
THEOREM OneOwnerCorrect == ConsoleSpec => []OneOwner
<1>1. OwnerInv => OneOwner
  BY OneIsNamed DEF OwnerInv
<1> QED  BY <1>1, OwnerInit, OwnerStep, PTL DEF ConsoleSpec

-----------------------------------------------------------------------------
(* A use of the feature flag.                                              *)

\* A use has seen the flag as it is now, and what it has read of it so far.
Looked(u) ==
    /\ upc[u] \in {"flag", "default", "plain"} => FlagView \subseteq seen[u]
    /\ upc[u] \in {"default", "plain", "served"} => "global" \in seen[u]
    /\ upc[u] = "default" => "default" \in seen[u]
    /\ upc[u] = "served" => "on" \in seen[u] \/ {"none", "default"} \subseteq seen[u]

FlagInv ==
    /\ upc \in [Uses -> {"idle", "flag", "default", "plain", "served", "hidden"}] /\ DOMAIN seen = Uses
    /\ \A u \in Uses : Looked(u)

\* The initial state.
LEMMA FlagInvInit == ConsoleInit => FlagInv
  BY DEF ConsoleInit, FlagInv, Looked

\* The flag or its override changes, and the uses under way see it.
LEMMA NoticeLooks ==
  ASSUME FlagInv, Notice, UNCHANGED upc
  PROVE  FlagInv'
<1>1. ASSUME NEW u \in Uses PROVE Looked(u)'
  BY DEF FlagInv, Looked, Notice
<1> QED  BY <1>1 DEF FlagInv, Notice

\* What a view says of the flag and of the override.
LEMMA ViewSays ==
  /\ global <=> "global" \in FlagView
  /\ byDefault <=> "default" \in FlagView
  /\ override = None => "none" \in FlagView
  /\ override = TRUE => "on" \in FlagView
<1>1. ASSUME override = TRUE PROVE override # None
  BY <1>1, NoneIsNoFlag
<1> QED  BY <1>1 DEF FlagView

\* A use begins, and reads the flag and its override.
LEMMA UseLooks ==
  ASSUME NEW u \in Uses, FlagInv, Use(u) \/ ReadFlag(u) \/ ReadOverride(u)
  PROVE  FlagInv'
<1>1. UNCHANGED <<global, byDefault, override>>
  BY DEF Use, ReadFlag, ReadOverride
<1>2. FlagView' = FlagView
  BY <1>1 DEF FlagView
<1>3. /\ upc' \in [Uses -> {"idle", "flag", "default", "plain", "served", "hidden"}] /\ DOMAIN seen' = Uses
      /\ \A v \in Uses : v # u => upc'[v] = upc[v] /\ seen'[v] = seen[v]
  BY DEF Use, ReadFlag, ReadOverride, FlagInv
<1>4. Looked(u)'
  <2>1. CASE Use(u)
    BY <1>2, <2>1 DEF Use, FlagInv, Looked
  <2>2. CASE ReadFlag(u)
    BY <1>2, <2>2, ViewSays DEF ReadFlag, FlagInv, Looked
  <2>3. CASE ReadOverride(u)
    BY <1>2, <2>3, ViewSays DEF ReadOverride, FlagInv, Looked
  <2> QED  BY <2>1, <2>2, <2>3
<1>5. ASSUME NEW v \in Uses, v # u PROVE Looked(v)'
  BY <1>2, <1>3, <1>5 DEF FlagInv, Looked
<1> QED  BY <1>3, <1>4, <1>5 DEF FlagInv

\* Every step keeps the invariant.
LEMMA FlagInvStep == FlagInv /\ [ConsoleNext]_consoleVars => FlagInv'
<1> SUFFICES ASSUME FlagInv, [ConsoleNext]_consoleVars PROVE FlagInv'
  OBVIOUS
<1>1. CASE \/ \E g, d \in BOOLEAN : SetFlag(g, d)
           \/ \E v \in Overrides, b \in BOOLEAN : SetOverride(v, b)
           \/ ClearOverride
  BY <1>1, NoticeLooks DEF SetFlag, SetOverride, ClearOverride
<1>2. CASE \E u \in Uses : Use(u) \/ ReadFlag(u) \/ ReadOverride(u)
  BY <1>2, UseLooks
<1>3. CASE UNCHANGED <<global, byDefault, override, upc, seen>>
  BY <1>3 DEF FlagInv, Looked, FlagView
<1>4. CASE \E v \in Overrides : FindOverride(v)
  BY <1>3, <1>4 DEF FindOverride
<1>5. CASE OperatorSteps \/ IncidentSteps \/ PlanSteps \/ UNCHANGED consoleVars
  <2>1. UNCHANGED flags
    BY <1>5 DEF OperatorSteps, OperatorLogout, OperatorLogin, Transfer, ReadTransfer, ExpireSupport, RevokeSupport,
        GrantSupport, ListActivity, Look, IncidentSteps, WriteIncident, UpdateIncident, ReadIncident, PlanSteps,
        ReadPlan, WritePlan, AssignPlan, consoleVars
  <2> QED  BY <1>3, <2>1 DEF flags
<1> QED  BY <1>1, <1>2, <1>4, <1>5 DEF ConsoleNext, FlagSteps

(***************************************************************************)
(* A feature is served only if since the request asked the flag was on for *)
(* everybody, and the company's override on or absent and the default on.  *)
(***************************************************************************)
THEOREM ServedWhileOnCorrect == ConsoleSpec => []ServedWhileOn
<1>1. FlagInv => ServedWhileOn
  BY DEF FlagInv, Looked, ServedWhileOn
<1> QED  BY <1>1, FlagInvInit, FlagInvStep, PTL DEF ConsoleSpec

-----------------------------------------------------------------------------
(* The incident.                                                           *)

IncidentInv ==
    /\ DOMAIN ipc = Reports /\ DOMAIN wants = Reports /\ note \in [Reports -> BOOLEAN] /\ DOMAIN copy = Reports
    /\ \A r \in Reports : ipc[r] = "write" /\ wants[r] = "resolved" => note[r] \/ copy[r].notes
    /\ ResolvedIsExplained

\* An update that resolves the incident was let through with notes, its own or those it has read.
LEMMA IncidentInvStep == IncidentInv /\ [ConsoleNext]_consoleVars => IncidentInv'
<1> SUFFICES ASSUME IncidentInv, [ConsoleNext]_consoleVars PROVE IncidentInv'
  OBVIOUS
<1> USE DEF IncidentInv, ResolvedIsExplained
<1>1. CASE \E r \in Reports, s \in {"open", "investigating", "resolved"}, n \in BOOLEAN : ReadIncident(r, s, n)
  BY <1>1 DEF ReadIncident
<1>2. CASE \E r \in Reports : WriteIncident(r)
  <2>1. PICK r \in Reports : WriteIncident(r)
    BY <1>2
  <2>2. /\ UNCHANGED <<wants, note, copy>> /\ ipc' = [ipc EXCEPT ![r] = "done"]
        /\ incident'.status = wants[r] /\ (incident'.notes <=> note[r] \/ copy[r].notes)
        /\ wants[r] = "resolved" => incident'.by /\ incident'.at
    BY <2>1 DEF WriteIncident, UpdateIncident
  <2>3. wants[r] = "resolved" => note[r] \/ copy[r].notes
    BY <2>1 DEF WriteIncident, UpdateIncident
  <2> QED  BY <2>2, <2>3
<1>3. CASE OperatorSteps \/ FlagSteps \/ PlanSteps \/ UNCHANGED consoleVars
  <2>1. UNCHANGED incidents
    BY <1>3 DEF OperatorSteps, OperatorLogout, OperatorLogin, Transfer, ReadTransfer, ExpireSupport, RevokeSupport,
        GrantSupport, ListActivity, Look, FlagSteps, SetFlag, FindOverride, SetOverride, ClearOverride, Use, ReadFlag,
        ReadOverride, PlanSteps, ReadPlan, WritePlan, AssignPlan, consoleVars
  <2> QED  BY <2>1 DEF incidents
<1> QED  BY <1>1, <1>2, <1>3 DEF ConsoleNext, IncidentSteps

(***************************************************************************)
(* A resolved incident says how, by whom and when, although an update      *)
(* writes what it read before its transaction.                             *)
(***************************************************************************)
THEOREM ResolvedIsExplainedCorrect == ConsoleSpec => []ResolvedIsExplained
<1>1. ConsoleInit => IncidentInv
  BY DEF ConsoleInit, IncidentInv, ResolvedIsExplained, NewIncident
<1>2. IncidentInv => ResolvedIsExplained
  BY DEF IncidentInv
<1> QED  BY <1>1, <1>2, IncidentInvStep, PTL DEF ConsoleSpec

-----------------------------------------------------------------------------
(* Files.                                                                  *)

FilesInv ==
    /\ bytes \in SUBSET Files
    /\ row \in [Files -> {"none", "stored", "live", "lost"}]
    /\ \A f \in Files : row[f] \in {"stored", "live"} => f \in bytes

BackupInv ==
    /\ backup \in [at : {"none", "dumped", "counted", "made", "restored"}, rows : SUBSET Files, dumped : Nat,
                   counted : Nat, archive : SUBSET Files, verified : BOOLEAN]
    /\ keyRows \in Nat
    /\ backup.at \in {"dumped", "counted"} => backup.rows \subseteq bytes
    /\ backup.at \in {"made", "restored"} /\ provider = "local" => backup.rows \subseteq backup.archive

\* Steps of the portal leave the files and the backup alone.
PortalStep ==
    \/ \E c \in Clients : CreateClient(c) \/ SetStatus(c) \/ Grant(c) \/ Revoke(c)
    \/ \E s \in PortalSessions : PortalLogout(s) \/ \E c \in Clients : PortalLogin(s, c)
    \/ \E r \in Readers :
         \/ \E s \in PortalSessions, f \in Files : BeginDownload(r, s, f)
         \/ CheckSession(r) \/ CheckAccount(r) \/ CheckGrant(r) \/ CheckRow(r) \/ ReadBytes(r)

\* See PortalStep.
LEMMA PortalSpares == PortalStep => UNCHANGED <<provider, stored, keyRows, backup>>
  BY DEF PortalStep, CreateClient, SetStatus, Grant, Revoke, PortalLogout, PortalLogin, BeginDownload, CheckSession,
      CheckAccount, CheckGrant, CheckRow, ReadBytes, Proceed

\* Files and backup in the initial state.
LEMMA StoreInvInit == StoreInit => FilesInv /\ BackupInv
  BY DEF StoreInit, FilesInv, BackupInv, NoBackup

\* Every step keeps them.
LEMMA StoreInvStep == FilesInv /\ BackupInv /\ [StoreNext]_storeVars => (FilesInv /\ BackupInv)'
<1> SUFFICES ASSUME FilesInv, BackupInv, [StoreNext]_storeVars PROVE FilesInv' /\ BackupInv'
  OBVIOUS
<1>1. CASE \E f \in Files : Save(f) \/ InsertRow(f) \/ AbandonUpload(f)
  BY <1>1 DEF FilesInv, BackupInv, Save, InsertRow, AbandonUpload
<1>2. CASE \E f \in Files : SetLogo(f) \/ SetVisible(f)
  BY <1>2 DEF FilesInv, BackupInv, SetLogo, SetVisible
<1>3. CASE PortalStep
  BY <1>3, PortalSpares DEF FilesInv, BackupInv, stored
<1>4. CASE Dump
  BY <1>4 DEF FilesInv, BackupInv, Dump, stored
<1>5. CASE CountRows
  BY <1>5 DEF FilesInv, BackupInv, CountRows, stored
<1>6. CASE Archive
  BY <1>6 DEF FilesInv, BackupInv, Archive, stored
<1>7. CASE Restore
  BY <1>7 DEF FilesInv, BackupInv, Restore, stored
<1>8. CASE Signup
  BY <1>8 DEF FilesInv, BackupInv, Signup, stored
<1>9. CASE UNCHANGED storeVars
  BY <1>9 DEF FilesInv, BackupInv, storeVars, stored
<1> QED  BY <1>1, <1>2, <1>3, <1>4, <1>5, <1>6, <1>7, <1>8, <1>9 DEF StoreNext, PortalStep

(***************************************************************************)
(* A backup with an archive restores every row with its bytes, however     *)
(* many uploads run while it is made.                                      *)
(***************************************************************************)
THEOREM RestoredRowsHaveBytesCorrect == StoreSpec => []RestoredRowsHaveBytes
<1>1. BackupInv => RestoredRowsHaveBytes
  BY DEF BackupInv, RestoredRowsHaveBytes
<1> QED  BY <1>1, StoreInvInit, StoreInvStep, PTL DEF StoreSpec

\* The logo in use has a row.
LogoInv == logo # None => logo \in Files /\ row[logo] = "live"

\* No row is taken back once it is there.
LEMMA LogoInvStep == FilesInv /\ LogoInv /\ [StoreNext]_storeVars => LogoInv'
<1> SUFFICES ASSUME FilesInv, LogoInv, [StoreNext]_storeVars PROVE LogoInv'
  OBVIOUS
<1>1. CASE \E f \in Files : Save(f) \/ InsertRow(f) \/ AbandonUpload(f) \/ SetLogo(f) \/ SetVisible(f)
  BY <1>1 DEF FilesInv, LogoInv, Save, InsertRow, AbandonUpload, SetLogo, SetVisible
<1>2. CASE PortalStep \/ Dump \/ CountRows \/ Archive \/ Restore \/ Signup \/ UNCHANGED storeVars
  BY <1>2, PortalSpares DEF LogoInv, Dump, CountRows, Archive, Restore, Signup, storeVars, stored
<1> QED  BY <1>1, <1>2 DEF StoreNext, PortalStep

(***************************************************************************)
(* Every row has its bytes and a logo in use has a row, whatever uploads   *)
(* fail half way.                                                          *)
(***************************************************************************)
THEOREM RowsHaveBytesCorrect == StoreSpec => []RowsHaveBytes
<1>1. StoreInit => LogoInv
  BY DEF StoreInit, LogoInv
<1>2. FilesInv /\ BackupInv /\ LogoInv /\ [StoreNext]_storeVars => (FilesInv /\ BackupInv /\ LogoInv)'
  BY StoreInvStep, LogoInvStep
<1>3. FilesInv /\ LogoInv => RowsHaveBytes
  BY DEF FilesInv, LogoInv, RowsHaveBytes
<1> QED  BY <1>1, <1>2, <1>3, StoreInvInit, PTL DEF StoreSpec

-----------------------------------------------------------------------------
(* Downloads through the portal.                                           *)

Running(r) == pc[r] \in {"session", "account", "grant", "row", "bytes"}

\* A download has noticed whatever holds now, and what it has checked so far.
Noticed(r) ==
    /\ met[r] \subseteq Conditions
    /\ pc[r] \in {"idle", "session", "account", "grant", "row", "bytes", "done", "refused"}
    /\ Running(r) => by[r] \in PortalSessions /\ session[by[r]] # None /\ Met(by[r], of[r]) \subseteq met[r]
    /\ pc[r] \in {"account", "grant", "row", "bytes", "done"} => "session" \in met[r]
    /\ pc[r] \in {"grant", "row", "bytes", "done"} => "active" \in met[r]
    /\ pc[r] \in {"row", "bytes", "done"} => "grant" \in met[r]
    /\ pc[r] \in {"bytes", "done"} => "visible" \in met[r] /\ entity[of[r]] = "project_document"

PortalInv ==
    /\ DOMAIN session = PortalSessions
    /\ DOMAIN pc = Readers /\ DOMAIN by = Readers /\ DOMAIN of = Readers /\ DOMAIN met = Readers
    /\ \A r \in Readers : Noticed(r)

\* The initial state.
LEMMA PortalInvInit == StoreInit => PortalInv
  BY DEF StoreInit, PortalInv, Noticed, Running

\* What is met is among the conditions.
LEMMA MetConditions ==
  ASSUME NEW s, NEW f
  PROVE  Met(s, f) \subseteq Conditions /\ Met(s, f)' \subseteq Conditions
  BY DEF Met, Conditions

\* The world around the downloads changes, and they notice.
LEMMA ObserveNotices ==
  ASSUME PortalInv, Observe, UNCHANGED <<session, entity>>
  PROVE  PortalInv'
<1>1. ASSUME NEW r \in Readers PROVE Noticed(r)'
  <2>1. /\ UNCHANGED <<pc, by, of, session, entity>>
        /\ met'[r] = IF pc[r] \in {"idle", "done", "refused"} THEN met[r] ELSE met[r] \cup Met(by[r], of[r])'
    BY DEF Observe, PortalInv
  <2>2. CASE Running(r)
    BY <2>1, <2>2, MetConditions DEF PortalInv, Noticed, Running
  <2>3. CASE ~Running(r)
    BY <2>1, <2>3 DEF PortalInv, Noticed, Running
  <2> QED  BY <2>2, <2>3
<1> QED  BY <1>1 DEF PortalInv, Observe

\* A download reads one row after the other.
LEMMA CheckNotices ==
  ASSUME NEW r \in Readers, PortalInv,
         CheckSession(r) \/ CheckAccount(r) \/ CheckGrant(r) \/ CheckRow(r) \/ ReadBytes(r)
  PROVE  PortalInv'
<1>1. UNCHANGED <<account, granted, session, revoked, visible, entity, by, of, met>>
  BY DEF CheckSession, CheckAccount, CheckGrant, CheckRow, ReadBytes, Proceed, portal, stored
<1>2. \A s, f : Met(s, f)' = Met(s, f)
  BY <1>1 DEF Met
<1>3. Noticed(r)'
  <2>1. CASE CheckSession(r)
    BY <1>1, <1>2, <2>1 DEF CheckSession, Proceed, Refuse, PortalInv, Noticed, Running, Met
  <2>2. CASE CheckAccount(r)
    BY <1>1, <1>2, <2>2 DEF CheckAccount, Client, Proceed, Refuse, PortalInv, Noticed, Running, Met
  <2>3. CASE CheckGrant(r)
    BY <1>1, <1>2, <2>3 DEF CheckGrant, Client, Proceed, Refuse, PortalInv, Noticed, Running, Met
  <2>4. CASE CheckRow(r)
    BY <1>1, <1>2, <2>4 DEF CheckRow, Shared, Proceed, Refuse, PortalInv, Noticed, Running, Met
  <2>5. CASE ReadBytes(r)
    BY <1>1, <1>2, <2>5 DEF ReadBytes, Proceed, Refuse, PortalInv, Noticed, Running, Met
  <2> QED  BY <2>1, <2>2, <2>3, <2>4, <2>5
<1>4. DOMAIN pc' = Readers /\ \A q \in Readers : q # r => pc'[q] = pc[q]
  BY DEF CheckSession, CheckAccount, CheckGrant, CheckRow, ReadBytes, Proceed, Refuse, PortalInv
<1>5. ASSUME NEW q \in Readers, q # r PROVE Noticed(q)'
  BY <1>1, <1>2, <1>4, <1>5 DEF PortalInv, Noticed, Running
<1> QED  BY <1>1, <1>3, <1>4, <1>5 DEF PortalInv

\* Every step keeps the invariant.
LEMMA PortalInvStep == PortalInv /\ [StoreNext]_storeVars => PortalInv'
<1> SUFFICES ASSUME PortalInv, [StoreNext]_storeVars PROVE PortalInv'
  OBVIOUS
<1>1. CASE \/ \E c \in Clients : CreateClient(c) \/ SetStatus(c) \/ Grant(c) \/ Revoke(c)
           \/ \E s \in PortalSessions : PortalLogout(s)
           \/ \E f \in Files : SetVisible(f)
  <2>1. Observe
    BY <1>1 DEF CreateClient, SetStatus, Grant, Revoke, PortalLogout, SetVisible
  <2>2. UNCHANGED <<session, entity>>
    BY <1>1 DEF CreateClient, SetStatus, Grant, Revoke, PortalLogout, SetVisible, stored, portal
  <2> QED  BY <2>1, <2>2, ObserveNotices
<1>2. CASE \E r \in Readers : CheckSession(r) \/ CheckAccount(r) \/ CheckGrant(r) \/ CheckRow(r) \/ ReadBytes(r)
  BY <1>2, CheckNotices
<1>3. CASE \E s \in PortalSessions, c \in Clients : PortalLogin(s, c)
  <2>1. PICK s \in PortalSessions, c \in Clients : PortalLogin(s, c)
    BY <1>3
  <2>2. UNCHANGED <<account, granted, revoked, visible, entity, pc, by, of, met>> /\ DOMAIN session' = PortalSessions
    BY <2>1 DEF PortalLogin, stored, reading, PortalInv
  <2>3. \A r \in Readers : Running(r) => session'[by[r]] = session[by[r]]
    BY <2>1 DEF PortalLogin, PortalInv, Noticed
  <2>4. ASSUME NEW r \in Readers PROVE Noticed(r)'
    BY <2>2, <2>3 DEF PortalInv, Noticed, Running, Met
  <2> QED  BY <2>2, <2>4 DEF PortalInv
<1>4. CASE \E r \in Readers, s \in PortalSessions, f \in Files : BeginDownload(r, s, f)
  <2>1. PICK r \in Readers, s \in PortalSessions, f \in Files : BeginDownload(r, s, f)
    BY <1>4
  <2>2. UNCHANGED <<account, granted, session, revoked, visible, entity>>
    BY <2>1 DEF BeginDownload, stored, portal
  <2>3. \A t, g : Met(t, g)' = Met(t, g)
    BY <2>2 DEF Met
  <2>4. Noticed(r)'
    BY <2>1, <2>2, <2>3, MetConditions DEF BeginDownload, PortalInv, Noticed, Running
  <2>5. ASSUME NEW q \in Readers, q # r PROVE Noticed(q)'
    BY <2>1, <2>2, <2>3, <2>5 DEF BeginDownload, PortalInv, Noticed, Running
  <2> QED  BY <2>1, <2>2, <2>4, <2>5 DEF BeginDownload, PortalInv
<1>5. CASE UNCHANGED <<account, granted, session, revoked, visible, entity, reading>>
  <2>1. ASSUME NEW r \in Readers PROVE Noticed(r)'
    BY <1>5 DEF PortalInv, Noticed, Running, Met, reading
  <2> QED  BY <1>5, <2>1 DEF PortalInv, reading
<1>6. CASE \/ \E f \in Files : Save(f) \/ InsertRow(f) \/ AbandonUpload(f) \/ SetLogo(f)
           \/ Dump \/ CountRows \/ Archive \/ Restore \/ Signup \/ UNCHANGED storeVars
  BY <1>5, <1>6 DEF Save, InsertRow, AbandonUpload, SetLogo, Dump, CountRows, Archive, Restore, Signup, storeVars,
      stored, portal
<1> QED  BY <1>1, <1>2, <1>3, <1>4, <1>6 DEF StoreNext

(***************************************************************************)
(* A document reaches a client only if since the download began the        *)
(* session was open, the account active, the grant in force and the        *)
(* document shared, each at some moment, whatever is withdrawn meanwhile.  *)
(***************************************************************************)
THEOREM ServedWhileSharedCorrect == StoreSpec => []ServedWhileShared
<1>1. PortalInv => ServedWhileShared
  BY DEF PortalInv, Noticed, ServedWhileShared, Conditions
<1> QED  BY <1>1, PortalInvInit, PortalInvStep, PTL DEF StoreSpec

-----------------------------------------------------------------------------
(* Sessions and owners of a company.                                       *)

AccountsTypeOK ==
    /\ status \in [Users -> Statuses \cup {"none", "elsewhere"}] /\ role \in [Users -> Roles]
    /\ password \in [Users -> Nat]
    /\ stage \in [Sessions -> {"none", "verified", "open", "revoked"}]
    /\ holder \in [Sessions -> Users \cup {None}] /\ opened \in [Sessions -> Nat]
    /\ reset \in [Resets -> {"none", "open", "used"}] /\ resetOf \in [Resets -> Users \cup {None}]
    /\ invite \in [Invites -> {"none", "open", "accepted", "expired", "deleted"}]
    /\ invitee \in [Invites -> Users \cup {None}] /\ offered \in [Invites -> Roles \cup {None}]
    /\ withdrawn \in SUBSET Invites
    /\ cpc \in [Changes -> {"idle", "others", "write", "refused", "done"}]
    /\ surface \in [Changes -> {"tenant", "platform", None}] /\ target \in [Changes -> Users \cup {None}]
    /\ toRole \in [Changes -> Roles \cup {None}] /\ toStatus \in [Changes -> Statuses \cup {None}]
    /\ removes \in [Changes -> BOOLEAN]
    /\ jpc \in [Joins -> {"idle", "email", "claim", "insert", "refused", "done"}]
    /\ joining \in [Joins -> Invites \cup {None}] /\ joinedBy \in [Users -> Invites \cup {None}]

Changing(c) == cpc[c] \in {"others", "write"} => target[c] \in Users /\ surface[c] \in {"tenant", "platform"}
Invited(i) == invite[i] # "none" => invitee[i] \in Users /\ offered[i] \in Roles
Joining(j) == jpc[j] \in {"email", "claim", "insert"} => joining[j] \in Invites /\ invite[joining[j]] # "none"
Resetting(t) == reset[t] = "open" => resetOf[t] \in Users
Held(s) == stage[s] \in {"verified", "open"} => holder[s] \in Users
Current(s) == stage[s] = "open" => opened[s] = password[holder[s]]

\* Who has an accepted invitation, and who has lost one.
Spent(i) == invite[i] \in {"accepted", "deleted"} /\ i \notin withdrawn
Withdrawn(i) == i \in withdrawn => invite[i] = "deleted"
Inserting(j) == jpc[j] = "insert" => Spent(joining[j])
Joined(u) == joinedBy[u] # None => Spent(joinedBy[u])

AccountsInv ==
    /\ AccountsTypeOK
    /\ \A c \in Changes : Changing(c)
    /\ \A i \in Invites : Invited(i)
    /\ \A j \in Joins : Joining(j)
    /\ \A t \in Resets : Resetting(t)
    /\ \A s \in Sessions : Held(s)
    /\ \A s \in Sessions : Current(s)
    /\ \A i \in Invites : Withdrawn(i)
    /\ \A j \in Joins : Inserting(j)
    /\ \A u \in Users : Joined(u)
    /\ CheckedKeepsOwner

\* The initial state.
LEMMA AccountsInvInit == AccountsInit => AccountsInv
  BY AbsentIsNoReason DEF AccountsInit, AccountsInv, AccountsTypeOK, Changing, Invited, Joining, Resetting, Held, Current,
      Withdrawn, Inserting, Joined, Spent, CheckedKeepsOwner, Statuses, Roles

-----------------------------------------------------------------------------
(* One lemma for each action: what it disturbs, conjunct by conjunct.      *)

USE AbsentIsNoReason DEF people, sessions, tokens, invitations, changing, joiningvars

\* An address is taken by another company.
LEMMA RegisterElsewhereKeeps ==
  ASSUME NEW u \in Users, AccountsInv, RegisterElsewhere(u)
  PROVE  AccountsInv'
<1>0. AccountsTypeOK'
  BY DEF AccountsInv, AccountsTypeOK, RegisterElsewhere, Statuses, Roles, Members, Joining, Invited, Changing,
      Resetting, Held
<1>1. \A c \in Changes : Changing(c)'
  BY <1>0 DEF AccountsInv, AccountsTypeOK, RegisterElsewhere, Changing
<1>2. \A i \in Invites : Invited(i)'
  BY <1>0 DEF AccountsInv, AccountsTypeOK, RegisterElsewhere, Invited
<1>3. \A j \in Joins : Joining(j)'
  BY <1>0 DEF AccountsInv, AccountsTypeOK, RegisterElsewhere, Joining, Invited
<1>4. \A t \in Resets : Resetting(t)'
  BY <1>0 DEF AccountsInv, AccountsTypeOK, RegisterElsewhere, Resetting
<1>5. \A s \in Sessions : Held(s)'
  BY <1>0 DEF AccountsInv, AccountsTypeOK, RegisterElsewhere, Held, Joining, Invited
<1>6. \A s \in Sessions : Current(s)'
  BY <1>0 DEF AccountsInv, AccountsTypeOK, RegisterElsewhere, Current, Held, Resetting
<1>7. \A i \in Invites : Withdrawn(i)'
  BY <1>0 DEF AccountsInv, AccountsTypeOK, RegisterElsewhere, Withdrawn, Inserting, Spent
<1>8. \A j \in Joins : Inserting(j)'
  BY <1>0 DEF AccountsInv, AccountsTypeOK, RegisterElsewhere, Inserting, Spent, Joining, Withdrawn
<1>9. \A k \in Users : Joined(k)'
  BY <1>0 DEF AccountsInv, AccountsTypeOK, RegisterElsewhere, Joined, Spent, Inserting, Joining, Invited, Withdrawn
<1>10. CheckedKeepsOwner'
  BY <1>0 DEF AccountsInv, AccountsTypeOK, RegisterElsewhere, CheckedKeepsOwner, ActiveOwners, OthersThan, Changing
<1> QED  BY <1>0, <1>1, <1>2, <1>3, <1>4, <1>5, <1>6, <1>7, <1>8, <1>9, <1>10 DEF AccountsInv

\* A password is accepted.
LEMMA LoginKeeps ==
  ASSUME NEW s \in Sessions, NEW u \in Users, AccountsInv, Login(s, u)
  PROVE  AccountsInv'
<1>0. AccountsTypeOK'
  BY DEF AccountsInv, AccountsTypeOK, Login, Verify, Statuses, Roles, Members, Joining, Invited, Changing, Resetting,
      Held
<1>1. \A c \in Changes : Changing(c)'
  BY <1>0 DEF AccountsInv, AccountsTypeOK, Login, Verify, Changing
<1>2. \A i \in Invites : Invited(i)'
  BY <1>0 DEF AccountsInv, AccountsTypeOK, Login, Verify, Invited
<1>3. \A j \in Joins : Joining(j)'
  BY <1>0 DEF AccountsInv, AccountsTypeOK, Login, Verify, Joining, Invited
<1>4. \A t \in Resets : Resetting(t)'
  BY <1>0 DEF AccountsInv, AccountsTypeOK, Login, Verify, Resetting
<1>5. \A k \in Sessions : Held(k)'
  BY <1>0 DEF AccountsInv, AccountsTypeOK, Login, Verify, Held, Joining, Invited
<1>6. \A k \in Sessions : Current(k)'
  BY <1>0 DEF AccountsInv, AccountsTypeOK, Login, Verify, Current, Held, Resetting
<1>7. \A i \in Invites : Withdrawn(i)'
  BY <1>0 DEF AccountsInv, AccountsTypeOK, Login, Verify, Withdrawn, Inserting, Spent
<1>8. \A j \in Joins : Inserting(j)'
  BY <1>0 DEF AccountsInv, AccountsTypeOK, Login, Verify, Inserting, Spent, Joining, Withdrawn
<1>9. \A k \in Users : Joined(k)'
  BY <1>0 DEF AccountsInv, AccountsTypeOK, Login, Verify, Joined, Spent, Inserting, Joining, Invited, Withdrawn
<1>10. CheckedKeepsOwner'
  BY <1>0 DEF AccountsInv, AccountsTypeOK, Login, Verify, CheckedKeepsOwner, ActiveOwners, OthersThan, Changing
<1> QED  BY <1>0, <1>1, <1>2, <1>3, <1>4, <1>5, <1>6, <1>7, <1>8, <1>9, <1>10 DEF AccountsInv

\* A session opens under the password it was verified with, or a newer one.
LEMMA OpenSessionKeeps ==
  ASSUME NEW s \in Sessions, AccountsInv, OpenSession(s)
  PROVE  AccountsInv'
<1>0. AccountsTypeOK'
  BY DEF AccountsInv, AccountsTypeOK, OpenSession, Statuses, Roles, Members, Joining, Invited, Changing, Resetting,
      Held
<1>1. \A c \in Changes : Changing(c)'
  BY <1>0 DEF AccountsInv, AccountsTypeOK, OpenSession, Changing
<1>2. \A i \in Invites : Invited(i)'
  BY <1>0 DEF AccountsInv, AccountsTypeOK, OpenSession, Invited
<1>3. \A j \in Joins : Joining(j)'
  BY <1>0 DEF AccountsInv, AccountsTypeOK, OpenSession, Joining, Invited
<1>4. \A t \in Resets : Resetting(t)'
  BY <1>0 DEF AccountsInv, AccountsTypeOK, OpenSession, Resetting
<1>5. \A k \in Sessions : Held(k)'
  BY <1>0 DEF AccountsInv, AccountsTypeOK, OpenSession, Held, Joining, Invited
<1>6. \A k \in Sessions : Current(k)'
  BY <1>0 DEF AccountsInv, AccountsTypeOK, OpenSession, Current, Held, Resetting
<1>7. \A i \in Invites : Withdrawn(i)'
  BY <1>0 DEF AccountsInv, AccountsTypeOK, OpenSession, Withdrawn, Inserting, Spent
<1>8. \A j \in Joins : Inserting(j)'
  BY <1>0 DEF AccountsInv, AccountsTypeOK, OpenSession, Inserting, Spent, Joining, Withdrawn
<1>9. \A u \in Users : Joined(u)'
  BY <1>0 DEF AccountsInv, AccountsTypeOK, OpenSession, Joined, Spent, Inserting, Joining, Invited, Withdrawn
<1>10. CheckedKeepsOwner'
  BY <1>0 DEF AccountsInv, AccountsTypeOK, OpenSession, CheckedKeepsOwner, ActiveOwners, OthersThan, Changing
<1> QED  BY <1>0, <1>1, <1>2, <1>3, <1>4, <1>5, <1>6, <1>7, <1>8, <1>9, <1>10 DEF AccountsInv

\* Sessions are revoked, and nothing else changes but the company.
LEMMA RevocationKeeps ==
  ASSUME NEW S \in SUBSET Sessions, RevokeSessions(S), UNCHANGED <<people, holder, opened, tokens, invitations,
      changing, joiningvars>>, AccountsInv
  PROVE  AccountsInv'
<1>0. AccountsTypeOK'
  BY DEF AccountsInv, AccountsTypeOK, RevokeSessions, Statuses, Roles, Members, Joining, Invited, Changing, Resetting,
      Held
<1>1. \A c \in Changes : Changing(c)'
  BY <1>0 DEF AccountsInv, AccountsTypeOK, RevokeSessions, Changing
<1>2. \A i \in Invites : Invited(i)'
  BY <1>0 DEF AccountsInv, AccountsTypeOK, RevokeSessions, Invited
<1>3. \A j \in Joins : Joining(j)'
  BY <1>0 DEF AccountsInv, AccountsTypeOK, RevokeSessions, Joining, Invited
<1>4. \A t \in Resets : Resetting(t)'
  BY <1>0 DEF AccountsInv, AccountsTypeOK, RevokeSessions, Resetting
<1>5. \A s \in Sessions : Held(s)'
  BY <1>0 DEF AccountsInv, AccountsTypeOK, RevokeSessions, Held, Joining, Invited
<1>6. \A s \in Sessions : Current(s)'
  BY <1>0 DEF AccountsInv, AccountsTypeOK, RevokeSessions, Current, Held, Resetting
<1>7. \A i \in Invites : Withdrawn(i)'
  BY <1>0 DEF AccountsInv, AccountsTypeOK, RevokeSessions, Withdrawn, Inserting, Spent
<1>8. \A j \in Joins : Inserting(j)'
  BY <1>0 DEF AccountsInv, AccountsTypeOK, RevokeSessions, Inserting, Spent, Joining, Withdrawn
<1>9. \A u \in Users : Joined(u)'
  BY <1>0 DEF AccountsInv, AccountsTypeOK, RevokeSessions, Joined, Spent, Inserting, Joining, Invited, Withdrawn
<1>10. CheckedKeepsOwner'
  BY <1>0 DEF AccountsInv, AccountsTypeOK, RevokeSessions, CheckedKeepsOwner, ActiveOwners, OthersThan, Changing
<1> QED  BY <1>0, <1>1, <1>2, <1>3, <1>4, <1>5, <1>6, <1>7, <1>8, <1>9, <1>10 DEF AccountsInv

\* A reset is asked for.
LEMMA RequestResetKeeps ==
  ASSUME NEW t \in Resets, NEW u \in Users, AccountsInv, RequestReset(t, u)
  PROVE  AccountsInv'
<1>0. AccountsTypeOK'
  BY DEF AccountsInv, AccountsTypeOK, RequestReset, Members, Statuses, Roles, Members, Joining, Invited, Changing,
      Resetting, Held
<1>1. \A c \in Changes : Changing(c)'
  BY <1>0 DEF AccountsInv, AccountsTypeOK, RequestReset, Members, Changing
<1>2. \A i \in Invites : Invited(i)'
  BY <1>0 DEF AccountsInv, AccountsTypeOK, RequestReset, Members, Invited
<1>3. \A j \in Joins : Joining(j)'
  BY <1>0 DEF AccountsInv, AccountsTypeOK, RequestReset, Members, Joining, Invited
<1>4. \A k \in Resets : Resetting(k)'
  BY <1>0 DEF AccountsInv, AccountsTypeOK, RequestReset, Members, Resetting
<1>5. \A s \in Sessions : Held(s)'
  BY <1>0 DEF AccountsInv, AccountsTypeOK, RequestReset, Members, Held, Joining, Invited
<1>6. \A s \in Sessions : Current(s)'
  BY <1>0 DEF AccountsInv, AccountsTypeOK, RequestReset, Members, Current, Held, Resetting
<1>7. \A i \in Invites : Withdrawn(i)'
  BY <1>0 DEF AccountsInv, AccountsTypeOK, RequestReset, Members, Withdrawn, Inserting, Spent
<1>8. \A j \in Joins : Inserting(j)'
  BY <1>0 DEF AccountsInv, AccountsTypeOK, RequestReset, Members, Inserting, Spent, Joining, Withdrawn
<1>9. \A k \in Users : Joined(k)'
  BY <1>0 DEF AccountsInv, AccountsTypeOK, RequestReset, Members, Joined, Spent, Inserting, Joining, Invited,
      Withdrawn
<1>10. CheckedKeepsOwner'
  BY <1>0 DEF AccountsInv, AccountsTypeOK, RequestReset, Members, CheckedKeepsOwner, ActiveOwners, OthersThan,
      Changing
<1> QED  BY <1>0, <1>1, <1>2, <1>3, <1>4, <1>5, <1>6, <1>7, <1>8, <1>9, <1>10 DEF AccountsInv

\* The password changes and every open session under the old one is revoked.
LEMMA ResetPasswordKeeps ==
  ASSUME NEW t \in Resets, AccountsInv, ResetPassword(t)
  PROVE  AccountsInv'
<1>0. AccountsTypeOK'
  BY DEF AccountsInv, AccountsTypeOK, ResetPassword, RevokeSessions, SessionsOf, Statuses, Roles, Members, Joining,
      Invited, Changing, Resetting, Held
<1>1. \A c \in Changes : Changing(c)'
  BY <1>0 DEF AccountsInv, AccountsTypeOK, ResetPassword, RevokeSessions, SessionsOf, Changing
<1>2. \A i \in Invites : Invited(i)'
  BY <1>0 DEF AccountsInv, AccountsTypeOK, ResetPassword, RevokeSessions, SessionsOf, Invited
<1>3. \A j \in Joins : Joining(j)'
  BY <1>0 DEF AccountsInv, AccountsTypeOK, ResetPassword, RevokeSessions, SessionsOf, Joining, Invited
<1>4. \A k \in Resets : Resetting(k)'
  BY <1>0 DEF AccountsInv, AccountsTypeOK, ResetPassword, RevokeSessions, SessionsOf, Resetting
<1>5. \A s \in Sessions : Held(s)'
  BY <1>0 DEF AccountsInv, AccountsTypeOK, ResetPassword, RevokeSessions, SessionsOf, Held, Joining, Invited
<1>6. \A s \in Sessions : Current(s)'
  BY <1>0 DEF AccountsInv, AccountsTypeOK, ResetPassword, RevokeSessions, SessionsOf, Current, Held, Resetting
<1>7. \A i \in Invites : Withdrawn(i)'
  BY <1>0 DEF AccountsInv, AccountsTypeOK, ResetPassword, RevokeSessions, SessionsOf, Withdrawn, Inserting, Spent
<1>8. \A j \in Joins : Inserting(j)'
  BY <1>0 DEF AccountsInv, AccountsTypeOK, ResetPassword, RevokeSessions, SessionsOf, Inserting, Spent, Joining,
      Withdrawn
<1>9. \A u \in Users : Joined(u)'
  BY <1>0 DEF AccountsInv, AccountsTypeOK, ResetPassword, RevokeSessions, SessionsOf, Joined, Spent, Inserting,
      Joining, Invited, Withdrawn
<1>10. CheckedKeepsOwner'
  BY <1>0 DEF AccountsInv, AccountsTypeOK, ResetPassword, RevokeSessions, SessionsOf, CheckedKeepsOwner, ActiveOwners,
      OthersThan, Changing
<1> QED  BY <1>0, <1>1, <1>2, <1>3, <1>4, <1>5, <1>6, <1>7, <1>8, <1>9, <1>10 DEF AccountsInv

\* An invitation is sent.
LEMMA InviteKeeps ==
  ASSUME NEW i \in Invites, NEW u \in Users, NEW r \in Roles, AccountsInv, Invite(i, u, r)
  PROVE  AccountsInv'
<1>0. AccountsTypeOK'
  BY DEF AccountsInv, AccountsTypeOK, Invite, Statuses, Roles, Members, Joining, Invited, Changing, Resetting, Held
<1>1. \A c \in Changes : Changing(c)'
  BY <1>0 DEF AccountsInv, AccountsTypeOK, Invite, Changing
<1>2. \A k \in Invites : Invited(k)'
  BY <1>0 DEF AccountsInv, AccountsTypeOK, Invite, Invited
<1>3. \A j \in Joins : Joining(j)'
  BY <1>0 DEF AccountsInv, AccountsTypeOK, Invite, Joining, Invited
<1>4. \A t \in Resets : Resetting(t)'
  BY <1>0 DEF AccountsInv, AccountsTypeOK, Invite, Resetting
<1>5. \A s \in Sessions : Held(s)'
  BY <1>0 DEF AccountsInv, AccountsTypeOK, Invite, Held, Joining, Invited
<1>6. \A s \in Sessions : Current(s)'
  BY <1>0 DEF AccountsInv, AccountsTypeOK, Invite, Current, Held, Resetting
<1>7. \A k \in Invites : Withdrawn(k)'
  BY <1>0 DEF AccountsInv, AccountsTypeOK, Invite, Withdrawn, Inserting, Spent
<1>8. \A j \in Joins : Inserting(j)'
  BY <1>0 DEF AccountsInv, AccountsTypeOK, Invite, Inserting, Spent, Joining, Withdrawn
<1>9. \A k \in Users : Joined(k)'
  BY <1>0 DEF AccountsInv, AccountsTypeOK, Invite, Joined, Spent, Inserting, Joining, Invited, Withdrawn
<1>10. CheckedKeepsOwner'
  BY <1>0 DEF AccountsInv, AccountsTypeOK, Invite, CheckedKeepsOwner, ActiveOwners, OthersThan, Changing
<1> QED  BY <1>0, <1>1, <1>2, <1>3, <1>4, <1>5, <1>6, <1>7, <1>8, <1>9, <1>10 DEF AccountsInv

\* An invitation is deleted: withdrawn only if nobody had accepted it.
LEMMA DeleteInviteKeeps ==
  ASSUME NEW i \in Invites, AccountsInv, DeleteInvite(i)
  PROVE  AccountsInv'
<1>0. AccountsTypeOK'
  BY DEF AccountsInv, AccountsTypeOK, DeleteInvite, Statuses, Roles, Members, Joining, Invited, Changing, Resetting,
      Held
<1>1. \A c \in Changes : Changing(c)'
  BY <1>0 DEF AccountsInv, AccountsTypeOK, DeleteInvite, Changing
<1>2. \A k \in Invites : Invited(k)'
  BY <1>0 DEF AccountsInv, AccountsTypeOK, DeleteInvite, Invited
<1>3. \A j \in Joins : Joining(j)'
  BY <1>0 DEF AccountsInv, AccountsTypeOK, DeleteInvite, Joining, Invited
<1>4. \A t \in Resets : Resetting(t)'
  BY <1>0 DEF AccountsInv, AccountsTypeOK, DeleteInvite, Resetting
<1>5. \A s \in Sessions : Held(s)'
  BY <1>0 DEF AccountsInv, AccountsTypeOK, DeleteInvite, Held, Joining, Invited
<1>6. \A s \in Sessions : Current(s)'
  BY <1>0 DEF AccountsInv, AccountsTypeOK, DeleteInvite, Current, Held, Resetting
<1>7. \A k \in Invites : Withdrawn(k)'
  BY <1>0 DEF AccountsInv, AccountsTypeOK, DeleteInvite, Withdrawn, Inserting, Spent
<1>8. \A j \in Joins : Inserting(j)'
  BY <1>0 DEF AccountsInv, AccountsTypeOK, DeleteInvite, Inserting, Spent, Joining, Withdrawn
<1>9. \A u \in Users : Joined(u)'
  BY <1>0 DEF AccountsInv, AccountsTypeOK, DeleteInvite, Joined, Spent, Inserting, Joining, Invited, Withdrawn
<1>10. CheckedKeepsOwner'
  BY <1>0 DEF AccountsInv, AccountsTypeOK, DeleteInvite, CheckedKeepsOwner, ActiveOwners, OthersThan, Changing
<1> QED  BY <1>0, <1>1, <1>2, <1>3, <1>4, <1>5, <1>6, <1>7, <1>8, <1>9, <1>10 DEF AccountsInv

\* An invitation runs out.
LEMMA ExpireKeeps ==
  ASSUME NEW i \in Invites, AccountsInv, Expire(i)
  PROVE  AccountsInv'
<1>0. AccountsTypeOK'
  BY DEF AccountsInv, AccountsTypeOK, Expire, Statuses, Roles, Members, Joining, Invited, Changing, Resetting, Held
<1>1. \A c \in Changes : Changing(c)'
  BY <1>0 DEF AccountsInv, AccountsTypeOK, Expire, Changing
<1>2. \A k \in Invites : Invited(k)'
  BY <1>0 DEF AccountsInv, AccountsTypeOK, Expire, Invited
<1>3. \A j \in Joins : Joining(j)'
  BY <1>0 DEF AccountsInv, AccountsTypeOK, Expire, Joining, Invited
<1>4. \A t \in Resets : Resetting(t)'
  BY <1>0 DEF AccountsInv, AccountsTypeOK, Expire, Resetting
<1>5. \A s \in Sessions : Held(s)'
  BY <1>0 DEF AccountsInv, AccountsTypeOK, Expire, Held, Joining, Invited
<1>6. \A s \in Sessions : Current(s)'
  BY <1>0 DEF AccountsInv, AccountsTypeOK, Expire, Current, Held, Resetting
<1>7. \A k \in Invites : Withdrawn(k)'
  BY <1>0 DEF AccountsInv, AccountsTypeOK, Expire, Withdrawn, Inserting, Spent
<1>8. \A j \in Joins : Inserting(j)'
  BY <1>0 DEF AccountsInv, AccountsTypeOK, Expire, Inserting, Spent, Joining, Withdrawn
<1>9. \A u \in Users : Joined(u)'
  BY <1>0 DEF AccountsInv, AccountsTypeOK, Expire, Joined, Spent, Inserting, Joining, Invited, Withdrawn
<1>10. CheckedKeepsOwner'
  BY <1>0 DEF AccountsInv, AccountsTypeOK, Expire, CheckedKeepsOwner, ActiveOwners, OthersThan, Changing
<1> QED  BY <1>0, <1>1, <1>2, <1>3, <1>4, <1>5, <1>6, <1>7, <1>8, <1>9, <1>10 DEF AccountsInv

\* Somebody begins to accept an open invitation.
LEMMA ReadInviteKeeps ==
  ASSUME NEW j \in Joins, NEW i \in Invites, AccountsInv, ReadInvite(j, i)
  PROVE  AccountsInv'
<1>0. AccountsTypeOK'
  BY DEF AccountsInv, AccountsTypeOK, ReadInvite, Statuses, Roles, Members, Joining, Invited, Changing, Resetting,
      Held
<1>1. \A c \in Changes : Changing(c)'
  BY <1>0 DEF AccountsInv, AccountsTypeOK, ReadInvite, Changing
<1>2. \A k \in Invites : Invited(k)'
  BY <1>0 DEF AccountsInv, AccountsTypeOK, ReadInvite, Invited
<1>3. \A k \in Joins : Joining(k)'
  BY <1>0 DEF AccountsInv, AccountsTypeOK, ReadInvite, Joining, Invited
<1>4. \A t \in Resets : Resetting(t)'
  BY <1>0 DEF AccountsInv, AccountsTypeOK, ReadInvite, Resetting
<1>5. \A s \in Sessions : Held(s)'
  BY <1>0 DEF AccountsInv, AccountsTypeOK, ReadInvite, Held, Joining, Invited
<1>6. \A s \in Sessions : Current(s)'
  BY <1>0 DEF AccountsInv, AccountsTypeOK, ReadInvite, Current, Held, Resetting
<1>7. \A k \in Invites : Withdrawn(k)'
  BY <1>0 DEF AccountsInv, AccountsTypeOK, ReadInvite, Withdrawn, Inserting, Spent
<1>8. \A k \in Joins : Inserting(k)'
  BY <1>0 DEF AccountsInv, AccountsTypeOK, ReadInvite, Inserting, Spent, Joining, Withdrawn
<1>9. \A u \in Users : Joined(u)'
  BY <1>0 DEF AccountsInv, AccountsTypeOK, ReadInvite, Joined, Spent, Inserting, Joining, Invited, Withdrawn
<1>10. CheckedKeepsOwner'
  BY <1>0 DEF AccountsInv, AccountsTypeOK, ReadInvite, CheckedKeepsOwner, ActiveOwners, OthersThan, Changing
<1> QED  BY <1>0, <1>1, <1>2, <1>3, <1>4, <1>5, <1>6, <1>7, <1>8, <1>9, <1>10 DEF AccountsInv

\* The address is looked at.
LEMMA CheckEmailKeeps ==
  ASSUME NEW j \in Joins, AccountsInv, CheckEmail(j)
  PROVE  AccountsInv'
<1>0. AccountsTypeOK'
  BY DEF AccountsInv, AccountsTypeOK, CheckEmail, Statuses, Roles, Members, Joining, Invited, Changing, Resetting,
      Held
<1>1. \A c \in Changes : Changing(c)'
  BY <1>0 DEF AccountsInv, AccountsTypeOK, CheckEmail, Changing
<1>2. \A i \in Invites : Invited(i)'
  BY <1>0 DEF AccountsInv, AccountsTypeOK, CheckEmail, Invited
<1>3. \A k \in Joins : Joining(k)'
  BY <1>0 DEF AccountsInv, AccountsTypeOK, CheckEmail, Joining, Invited
<1>4. \A t \in Resets : Resetting(t)'
  BY <1>0 DEF AccountsInv, AccountsTypeOK, CheckEmail, Resetting
<1>5. \A s \in Sessions : Held(s)'
  BY <1>0 DEF AccountsInv, AccountsTypeOK, CheckEmail, Held, Joining, Invited
<1>6. \A s \in Sessions : Current(s)'
  BY <1>0 DEF AccountsInv, AccountsTypeOK, CheckEmail, Current, Held, Resetting
<1>7. \A i \in Invites : Withdrawn(i)'
  BY <1>0 DEF AccountsInv, AccountsTypeOK, CheckEmail, Withdrawn, Inserting, Spent
<1>8. \A k \in Joins : Inserting(k)'
  BY <1>0 DEF AccountsInv, AccountsTypeOK, CheckEmail, Inserting, Spent, Joining, Withdrawn
<1>9. \A u \in Users : Joined(u)'
  BY <1>0 DEF AccountsInv, AccountsTypeOK, CheckEmail, Joined, Spent, Inserting, Joining, Invited, Withdrawn
<1>10. CheckedKeepsOwner'
  BY <1>0 DEF AccountsInv, AccountsTypeOK, CheckEmail, CheckedKeepsOwner, ActiveOwners, OthersThan, Changing
<1> QED  BY <1>0, <1>1, <1>2, <1>3, <1>4, <1>5, <1>6, <1>7, <1>8, <1>9, <1>10 DEF AccountsInv

\* The invitation is claimed: it was open, so it was not withdrawn.
LEMMA ClaimInviteKeeps ==
  ASSUME NEW j \in Joins, AccountsInv, ClaimInvite(j)
  PROVE  AccountsInv'
<1>0. AccountsTypeOK'
  BY DEF AccountsInv, AccountsTypeOK, ClaimInvite, Statuses, Roles, Members, Joining, Invited, Changing, Resetting,
      Held
<1>1. \A c \in Changes : Changing(c)'
  BY <1>0 DEF AccountsInv, AccountsTypeOK, ClaimInvite, Changing
<1>2. \A i \in Invites : Invited(i)'
  BY <1>0 DEF AccountsInv, AccountsTypeOK, ClaimInvite, Invited
<1>3. \A k \in Joins : Joining(k)'
  BY <1>0 DEF AccountsInv, AccountsTypeOK, ClaimInvite, Joining, Invited
<1>4. \A t \in Resets : Resetting(t)'
  BY <1>0 DEF AccountsInv, AccountsTypeOK, ClaimInvite, Resetting
<1>5. \A s \in Sessions : Held(s)'
  BY <1>0 DEF AccountsInv, AccountsTypeOK, ClaimInvite, Held, Joining, Invited
<1>6. \A s \in Sessions : Current(s)'
  BY <1>0 DEF AccountsInv, AccountsTypeOK, ClaimInvite, Current, Held, Resetting
<1>7. \A i \in Invites : Withdrawn(i)'
  BY <1>0 DEF AccountsInv, AccountsTypeOK, ClaimInvite, Withdrawn, Inserting, Spent
<1>8. \A k \in Joins : Inserting(k)'
  BY <1>0 DEF AccountsInv, AccountsTypeOK, ClaimInvite, Inserting, Spent, Joining, Withdrawn
<1>9. \A u \in Users : Joined(u)'
  BY <1>0 DEF AccountsInv, AccountsTypeOK, ClaimInvite, Joined, Spent, Inserting, Joining, Invited, Withdrawn
<1>10. CheckedKeepsOwner'
  BY <1>0 DEF AccountsInv, AccountsTypeOK, ClaimInvite, CheckedKeepsOwner, ActiveOwners, OthersThan, Changing
<1> QED  BY <1>0, <1>1, <1>2, <1>3, <1>4, <1>5, <1>6, <1>7, <1>8, <1>9, <1>10 DEF AccountsInv

\* The claimed invitation brings its user in.
LEMMA InsertUserKeeps ==
  ASSUME NEW j \in Joins, AccountsInv, InsertUser(j)
  PROVE  AccountsInv'
<1>0. AccountsTypeOK'
  <2>1. joining[j] \in Invites /\ invitee[joining[j]] \in Users /\ offered[joining[j]] \in Roles
    BY DEF AccountsInv, InsertUser, Joining, Invited
  <2>2. /\ status' \in [Users -> Statuses \cup {"none", "elsewhere"}] /\ role' \in [Users -> Roles]
        /\ joinedBy' \in [Users -> Invites \cup {None}]
        /\ jpc' \in [Joins -> {"idle", "email", "claim", "insert", "refused", "done"}]
    BY <2>1 DEF AccountsInv, AccountsTypeOK, InsertUser, Statuses
  <2>3. stage' \in [Sessions -> {"none", "verified", "open", "revoked"}] /\ holder' \in [Sessions -> Users \cup {None}]
    BY <2>1 DEF AccountsInv, AccountsTypeOK, InsertUser, Verify
  <2>4. UNCHANGED <<password, company, opened, tokens, invitations, changing, joining>>
    BY DEF InsertUser
  <2> QED  BY <2>2, <2>3, <2>4 DEF AccountsInv, AccountsTypeOK, tokens, invitations, changing
<1>1. \A c \in Changes : Changing(c)'
  BY <1>0 DEF AccountsInv, AccountsTypeOK, InsertUser, Verify, Changing
<1>2. \A i \in Invites : Invited(i)'
  BY <1>0 DEF AccountsInv, AccountsTypeOK, InsertUser, Verify, Invited
<1>3. \A k \in Joins : Joining(k)'
  BY <1>0 DEF AccountsInv, AccountsTypeOK, InsertUser, Verify, Joining, Invited
<1>4. \A t \in Resets : Resetting(t)'
  BY <1>0 DEF AccountsInv, AccountsTypeOK, InsertUser, Verify, Resetting
<1>5. \A s \in Sessions : Held(s)'
  BY <1>0 DEF AccountsInv, AccountsTypeOK, InsertUser, Verify, Held, Joining, Invited
<1>6. \A s \in Sessions : Current(s)'
  BY <1>0 DEF AccountsInv, AccountsTypeOK, InsertUser, Verify, Current, Held, Resetting
<1>7. \A i \in Invites : Withdrawn(i)'
  BY <1>0 DEF AccountsInv, AccountsTypeOK, InsertUser, Verify, Withdrawn, Inserting, Spent
<1>8. \A k \in Joins : Inserting(k)'
  BY <1>0 DEF AccountsInv, AccountsTypeOK, InsertUser, Verify, Inserting, Spent, Joining, Withdrawn
<1>9. \A u \in Users : Joined(u)'
  BY <1>0 DEF AccountsInv, AccountsTypeOK, InsertUser, Verify, Joined, Spent, Inserting, Joining, Invited, Withdrawn
<1>10. CheckedKeepsOwner'
  BY <1>0 DEF AccountsInv, AccountsTypeOK, InsertUser, Verify, CheckedKeepsOwner, ActiveOwners, OthersThan, Changing
<1> QED  BY <1>0, <1>1, <1>2, <1>3, <1>4, <1>5, <1>6, <1>7, <1>8, <1>9, <1>10 DEF AccountsInv

\* The address was taken meanwhile.
LEMMA DuplicateEmailKeeps ==
  ASSUME NEW j \in Joins, AccountsInv, DuplicateEmail(j)
  PROVE  AccountsInv'
<1>0. AccountsTypeOK'
  BY DEF AccountsInv, AccountsTypeOK, DuplicateEmail, Statuses, Roles, Members, Joining, Invited, Changing, Resetting,
      Held
<1>1. \A c \in Changes : Changing(c)'
  BY <1>0 DEF AccountsInv, AccountsTypeOK, DuplicateEmail, Changing
<1>2. \A i \in Invites : Invited(i)'
  BY <1>0 DEF AccountsInv, AccountsTypeOK, DuplicateEmail, Invited
<1>3. \A k \in Joins : Joining(k)'
  BY <1>0 DEF AccountsInv, AccountsTypeOK, DuplicateEmail, Joining, Invited
<1>4. \A t \in Resets : Resetting(t)'
  BY <1>0 DEF AccountsInv, AccountsTypeOK, DuplicateEmail, Resetting
<1>5. \A s \in Sessions : Held(s)'
  BY <1>0 DEF AccountsInv, AccountsTypeOK, DuplicateEmail, Held, Joining, Invited
<1>6. \A s \in Sessions : Current(s)'
  BY <1>0 DEF AccountsInv, AccountsTypeOK, DuplicateEmail, Current, Held, Resetting
<1>7. \A i \in Invites : Withdrawn(i)'
  BY <1>0 DEF AccountsInv, AccountsTypeOK, DuplicateEmail, Withdrawn, Inserting, Spent
<1>8. \A k \in Joins : Inserting(k)'
  BY <1>0 DEF AccountsInv, AccountsTypeOK, DuplicateEmail, Inserting, Spent, Joining, Withdrawn
<1>9. \A u \in Users : Joined(u)'
  BY <1>0 DEF AccountsInv, AccountsTypeOK, DuplicateEmail, Joined, Spent, Inserting, Joining, Invited, Withdrawn
<1>10. CheckedKeepsOwner'
  BY <1>0 DEF AccountsInv, AccountsTypeOK, DuplicateEmail, CheckedKeepsOwner, ActiveOwners, OthersThan, Changing
<1> QED  BY <1>0, <1>1, <1>2, <1>3, <1>4, <1>5, <1>6, <1>7, <1>8, <1>9, <1>10 DEF AccountsInv

\* A change is judged.
LEMMA ReadMemberKeeps ==
  ASSUME NEW c \in Changes, NEW from \in {"tenant", "platform"}, NEW u \in Users, NEW r \in Roles \cup {None},
      NEW t \in Statuses \cup {None}, AccountsInv, ReadMember(c, from, u, r, t)
  PROVE  AccountsInv'
<1>0. AccountsTypeOK'
  <2>1. removes' \in [Changes -> BOOLEAN]
    <3>1. Removes(u, r, t) \in BOOLEAN
      BY Zenon DEF Removes
    <3>2. removes' = [removes EXCEPT ![c] = Removes(u, r, t)] /\ removes \in [Changes -> BOOLEAN]
      BY DEF ReadMember, AccountsInv, AccountsTypeOK
    <3> QED  BY <3>1, <3>2, Zenon
  <2> QED
    BY <2>1 DEF AccountsInv, AccountsTypeOK, ReadMember, Members
<1>1. \A k \in Changes : Changing(k)'
  BY <1>0 DEF AccountsInv, AccountsTypeOK, ReadMember, Changing
<1>2. \A i \in Invites : Invited(i)'
  BY <1>0 DEF AccountsInv, AccountsTypeOK, ReadMember, Invited
<1>3. \A j \in Joins : Joining(j)'
  BY <1>0 DEF AccountsInv, AccountsTypeOK, ReadMember, Joining, Invited
<1>4. \A k \in Resets : Resetting(k)'
  BY <1>0 DEF AccountsInv, AccountsTypeOK, ReadMember, Resetting
<1>5. \A s \in Sessions : Held(s)'
  BY <1>0 DEF AccountsInv, AccountsTypeOK, ReadMember, Held, Joining, Invited
<1>6. \A s \in Sessions : Current(s)'
  BY <1>0 DEF AccountsInv, AccountsTypeOK, ReadMember, Current, Held, Resetting
<1>7. \A i \in Invites : Withdrawn(i)'
  BY <1>0 DEF AccountsInv, AccountsTypeOK, ReadMember, Withdrawn, Inserting, Spent
<1>8. \A j \in Joins : Inserting(j)'
  BY <1>0 DEF AccountsInv, AccountsTypeOK, ReadMember, Inserting, Spent, Joining, Withdrawn
<1>9. \A k \in Users : Joined(k)'
  BY <1>0 DEF AccountsInv, AccountsTypeOK, ReadMember, Joined, Spent, Inserting, Joining, Invited, Withdrawn
<1>10. CheckedKeepsOwner'
  BY <1>0 DEF AccountsInv, AccountsTypeOK, ReadMember, CheckedKeepsOwner, ActiveOwners, OthersThan, Changing
<1> QED  BY <1>0, <1>1, <1>2, <1>3, <1>4, <1>5, <1>6, <1>7, <1>8, <1>9, <1>10 DEF AccountsInv

\* The other owners are looked at.
LEMMA CheckOthersKeeps ==
  ASSUME NEW c \in Changes, AccountsInv, CheckOthers(c)
  PROVE  AccountsInv'
<1>0. AccountsTypeOK'
  BY DEF AccountsInv, AccountsTypeOK, CheckOthers, Statuses, Roles, Members, Joining, Invited, Changing, Resetting,
      Held
<1>1. \A k \in Changes : Changing(k)'
  BY <1>0 DEF AccountsInv, AccountsTypeOK, CheckOthers, Changing
<1>2. \A i \in Invites : Invited(i)'
  BY <1>0 DEF AccountsInv, AccountsTypeOK, CheckOthers, Invited
<1>3. \A j \in Joins : Joining(j)'
  BY <1>0 DEF AccountsInv, AccountsTypeOK, CheckOthers, Joining, Invited
<1>4. \A t \in Resets : Resetting(t)'
  BY <1>0 DEF AccountsInv, AccountsTypeOK, CheckOthers, Resetting
<1>5. \A s \in Sessions : Held(s)'
  BY <1>0 DEF AccountsInv, AccountsTypeOK, CheckOthers, Held, Joining, Invited
<1>6. \A s \in Sessions : Current(s)'
  BY <1>0 DEF AccountsInv, AccountsTypeOK, CheckOthers, Current, Held, Resetting
<1>7. \A i \in Invites : Withdrawn(i)'
  BY <1>0 DEF AccountsInv, AccountsTypeOK, CheckOthers, Withdrawn, Inserting, Spent
<1>8. \A j \in Joins : Inserting(j)'
  BY <1>0 DEF AccountsInv, AccountsTypeOK, CheckOthers, Inserting, Spent, Joining, Withdrawn
<1>9. \A u \in Users : Joined(u)'
  BY <1>0 DEF AccountsInv, AccountsTypeOK, CheckOthers, Joined, Spent, Inserting, Joining, Invited, Withdrawn
<1>10. CheckedKeepsOwner'
  BY <1>0 DEF AccountsInv, AccountsTypeOK, CheckOthers, CheckedKeepsOwner, ActiveOwners, OthersThan, Changing
<1> QED  BY <1>0, <1>1, <1>2, <1>3, <1>4, <1>5, <1>6, <1>7, <1>8, <1>9, <1>10 DEF AccountsInv

\* A change is written: with the locks held another owner is left, or it is refused.
LEMMA WriteMemberKeeps ==
  ASSUME NEW c \in Changes, AccountsInv, WriteMember(c)
  PROVE  AccountsInv'
<1>0. AccountsTypeOK'
  BY DEF AccountsInv, AccountsTypeOK, WriteMember, Update, Statuses, Roles, Members, Joining, Invited, Changing,
      Resetting, Held
<1>1. \A k \in Changes : Changing(k)'
  BY <1>0 DEF AccountsInv, AccountsTypeOK, WriteMember, Update, Changing
<1>2. \A i \in Invites : Invited(i)'
  BY <1>0 DEF AccountsInv, AccountsTypeOK, WriteMember, Update, Invited
<1>3. \A j \in Joins : Joining(j)'
  BY <1>0 DEF AccountsInv, AccountsTypeOK, WriteMember, Update, Joining, Invited
<1>4. \A t \in Resets : Resetting(t)'
  BY <1>0 DEF AccountsInv, AccountsTypeOK, WriteMember, Update, Resetting
<1>5. \A s \in Sessions : Held(s)'
  BY <1>0 DEF AccountsInv, AccountsTypeOK, WriteMember, Update, Held, Joining, Invited
<1>6. \A s \in Sessions : Current(s)'
  BY <1>0 DEF AccountsInv, AccountsTypeOK, WriteMember, Update, Current, Held, Resetting
<1>7. \A i \in Invites : Withdrawn(i)'
  BY <1>0 DEF AccountsInv, AccountsTypeOK, WriteMember, Update, Withdrawn, Inserting, Spent
<1>8. \A j \in Joins : Inserting(j)'
  BY <1>0 DEF AccountsInv, AccountsTypeOK, WriteMember, Update, Inserting, Spent, Joining, Withdrawn
<1>9. \A u \in Users : Joined(u)'
  BY <1>0 DEF AccountsInv, AccountsTypeOK, WriteMember, Update, Joined, Spent, Inserting, Joining, Invited, Withdrawn
<1>10. CheckedKeepsOwner'
  BY <1>0 DEF AccountsInv, AccountsTypeOK, WriteMember, Update, CheckedKeepsOwner, ActiveOwners, OthersThan, Changing
<1> QED  BY <1>0, <1>1, <1>2, <1>3, <1>4, <1>5, <1>6, <1>7, <1>8, <1>9, <1>10 DEF AccountsInv

\* Every step keeps the invariant.
LEMMA AccountsInvStep == AccountsInv /\ [AccountsNext]_accountsVars => AccountsInv'
<1> SUFFICES ASSUME AccountsInv, [AccountsNext]_accountsVars PROVE AccountsInv'
  OBVIOUS
<1>1. CASE \E u \in Users : RegisterElsewhere(u)
  BY <1>1, RegisterElsewhereKeeps
<1>2. CASE \E s \in Sessions : OpenSession(s) \/ \E u \in Users : Login(s, u)
  BY <1>2, OpenSessionKeeps, LoginKeeps
<1>3. CASE \E t \in Resets : ResetPassword(t) \/ \E u \in Users : RequestReset(t, u)
  BY <1>3, ResetPasswordKeeps, RequestResetKeeps
<1>4. CASE \E i \in Invites : DeleteInvite(i) \/ Expire(i) \/ \E u \in Users, r \in Roles : Invite(i, u, r)
  BY <1>4, DeleteInviteKeeps, ExpireKeeps, InviteKeeps
<1>5. CASE \E j \in Joins : \E i \in Invites : ReadInvite(j, i)
  BY <1>5, ReadInviteKeeps
<1>6. CASE \E j \in Joins : CheckEmail(j) \/ ClaimInvite(j) \/ InsertUser(j) \/ DuplicateEmail(j)
  BY <1>6, CheckEmailKeeps, ClaimInviteKeeps, InsertUserKeeps, DuplicateEmailKeeps
<1>7. CASE \E c \in Changes, from \in {"tenant", "platform"}, u \in Users, r \in Roles \cup {None},
              t \in Statuses \cup {None} : ReadMember(c, from, u, r, t)
  BY <1>7, ReadMemberKeeps
<1>8. CASE \E c \in Changes : CheckOthers(c) \/ WriteMember(c)
  BY <1>8, CheckOthersKeeps, WriteMemberKeeps
<1>9. CASE (\E s \in Sessions : Logout(s)) \/ Suspend \/ RevokeByPlatform
  <2>1. CASE \E s \in Sessions : Logout(s)
    BY <2>1, RevocationKeeps DEF Logout
  <2>2. CASE Suspend
    <3>1. UNION {SessionsOf(u) : u \in Members} \in SUBSET Sessions
      BY DEF SessionsOf
    <3> QED  BY <2>2, <3>1, RevocationKeeps DEF Suspend
  <2>3. CASE RevokeByPlatform
    <3>1. PICK U \in {Members} \cup {{u} : u \in Members} : RevokeSessions(UNION {SessionsOf(u) : u \in U})
      BY <2>3 DEF RevokeByPlatform
    <3>2. UNION {SessionsOf(u) : u \in U} \in SUBSET Sessions
      BY DEF SessionsOf
    <3> QED  BY <2>3, <3>1, <3>2, RevocationKeeps DEF RevokeByPlatform
  <2> QED  BY <1>9, <2>1, <2>2, <2>3
<1>10. CASE Reactivate \/ UNCHANGED accountsVars
  <2>1. UNCHANGED <<status, role, password, stage, holder, opened, reset, resetOf, invite, invitee, offered,
                    withdrawn, cpc, surface, target, toRole, toStatus, removes, ownersLost, jpc, joining, joinedBy>>
    BY <1>10 DEF Reactivate, accountsVars
  <2> QED
    BY <2>1 DEF AccountsInv, AccountsTypeOK, Changing, Invited, Joining, Resetting, Held, Current, Withdrawn,
        Inserting, Joined, Spent, CheckedKeepsOwner
<1> QED
  BY <1>1, <1>2, <1>3, <1>4, <1>5, <1>6, <1>7, <1>8, <1>9, <1>10 DEF AccountsNext

(***************************************************************************)
(* A tenant request that was judged to remove an active owner never takes  *)
(* the last one: its transaction locks the owners and looks again.         *)
(***************************************************************************)
THEOREM CheckedKeepsOwnerCorrect == AccountsSpec => []CheckedKeepsOwner
<1>1. AccountsInv => CheckedKeepsOwner
  BY DEF AccountsInv
<1> QED  BY <1>1, AccountsInvInit, AccountsInvStep, PTL DEF AccountsSpec

(***************************************************************************)
(* A session that was inserted before a reset of the password is not open  *)
(* after it.                                                               *)
(***************************************************************************)
THEOREM ResetEndsSessionsCorrect == AccountsSpec => []ResetEndsSessions
<1>1. AccountsInv => ResetEndsSessions
  BY DEF AccountsInv, Current, ResetEndsSessions
<1> QED  BY <1>1, AccountsInvInit, AccountsInvStep, PTL DEF AccountsSpec

(***************************************************************************)
(* An invitation withdrawn before it was accepted brings nobody in.        *)
(***************************************************************************)
THEOREM WithdrawnBringsNobodyCorrect == AccountsSpec => []WithdrawnBringsNobody
<1>1. AccountsInv => WithdrawnBringsNobody
  BY DEF AccountsInv, Joined, Spent, WithdrawnBringsNobody
<1> QED  BY <1>1, AccountsInvInit, AccountsInvStep, PTL DEF AccountsSpec

-----------------------------------------------------------------------------
(* Head counts.                                                            *)

Judged(q) ==
    bench[q] # None /\ bench[q].op = "patch" =>
      bench[q].report \in ReportKinds /\ (bench[q].report \in Counted => CountsConsistent(bench[q].counts))

WorkInv ==
    /\ DOMAIN counts = ReportKinds /\ DOMAIN bench = ReportRequests
    /\ \A q \in ReportRequests : Judged(q)
    /\ CountsAddUp

\* The initial state.
LEMMA WorkInvInit == WorkInit => WorkInv
  BY DEF WorkInit, WorkInv, Judged, CountsAddUp, ReportKinds, Counted

\* Whatever is written was judged as a whole.
LEMMA WorkInvStep == WorkInv /\ [WorkNext]_workVars => WorkInv'
<1> SUFFICES ASSUME WorkInv, [WorkNext]_workVars PROVE WorkInv'
  OBVIOUS
<1> USE DEF Judged, CountsAddUp, WorkInv, reportvars
<1>1. CASE \E r \in ReportKinds, c \in CountRecords, named \in BOOLEAN : CreateReport(r, c, named)
  BY <1>1 DEF CreateReport
<1>2. CASE \E r \in ReportKinds, c \in CountRecords, q \in ReportRequests : \E given, named : ReadReport(q, r, given, c, named)
  BY <1>2 DEF ReadReport, Lay
<1>3. CASE \E q \in ReportRequests : PatchReport(q)
  BY <1>3 DEF PatchReport, Lies, WriteAll, Clear, ReportKinds, Counted
<1>4. CASE \E q \in ReportRequests : \/ \E r \in ReportKinds : ReadForVerification(q, r)
                              \/ \E x \in Exceptions : \E s : ReadException(q, x, s)
  BY <1>4 DEF ReadForVerification, ReadException, Lay
<1>5. CASE \E q \in ReportRequests : VerifyReport(q) \/ WriteException(q)
  BY <1>5 DEF VerifyReport, WriteException, Clear
<1>6. CASE \/ \E p \in WorkPeriods : CreateWorkPeriod(p) \/ \E s \in {"open", "closed"} : SetWorkPeriod(p, s)
           \/ \E r \in ReportKinds : AddEvidence(r)
           \/ \E x \in Exceptions : CreateException(x)
           \/ UNCHANGED workVars
  BY <1>6 DEF CreateWorkPeriod, SetWorkPeriod, AddEvidence, CreateException, workVars
<1> QED  BY <1>1, <1>2, <1>3, <1>4, <1>5, <1>6 DEF WorkNext

(***************************************************************************)
(* The head counts of a report add up.                                     *)
(***************************************************************************)
THEOREM CountsAddUpCorrect == WorkSpec => []CountsAddUp
<1>1. WorkInv => CountsAddUp
  BY DEF WorkInv
<1> QED  BY <1>1, WorkInvInit, WorkInvStep, PTL DEF WorkSpec

=============================================================================
