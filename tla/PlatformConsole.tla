--------------------------- MODULE PlatformConsole ---------------------------
(***************************************************************************)
(* What the platform's operators keep: their own roles and sessions        *)
(* (routes/platformAuth.ts, routes/platformOwnershipTransfer.ts), support  *)
(* sessions (routes/platformSupportSessions.ts), one feature flag and its  *)
(* override for one company (routes/platformFeatureFlags.ts,               *)
(* lib/featureFlags.ts), one plan (routes/platformPlans.ts,                *)
(* lib/entitlements.ts) and one incident (routes/platformIncidents.ts).    *)
(*                                                                         *)
(* Each handler reads before it writes; the steps here are its reads, and  *)
(* its transaction, which takes the locks it needs when it writes.         *)
(***************************************************************************)
EXTENDS Naturals, FiniteSets, Absent

CONSTANTS
  Operators, Logins,  \* platform_operators, platform_operator_sessions
  Transfers,          \* POST /ownership-transfer
  Support,            \* support_sessions
  Looks,              \* GET /:supportSessionId/activity
  Uses,               \* requests behind requireFeatureFlag
  Overrides,          \* PUT /:key/overrides/:companyId
  Reports,            \* PATCH /incidents/:id/status
  Patches,            \* PATCH /plans/:key
  Limits              \* values of a limit, None for unlimited

ASSUME FiniteOperators == IsFiniteSet(Operators)
ASSUME NoneIsNoFlag == None \notin BOOLEAN

ManagesOwnership == {"platform_operator", "platform_owner"}
OperatorRoles == {"platform_operator", "platform_owner", "platform_admin", "support", "compliance", "auditor"}

VARIABLES
  oprole, login, operator,             \* operators; sessions "none", "open", "revoked" and whose they are
  tpc, giver, taker,                   \* ownership transfers
  support, supporter, spc, looksAt,    \* support sessions "none", "open", "expired", "revoked"; their uses
  global, byDefault, override, upc, seen,  \* the flag, its override (None, TRUE, FALSE) and its uses
  overrideRow, opc, found,             \* its row, named for who inserted it; requests to set it
  incident, ipc, wants, note, copy,    \* the incident as status, notes, resolver and time; its updates
  limits, onPlan, ppc, patch, base     \* the plan's limits, the company's plan; its updates

staff == <<oprole, login, operator, tpc, giver, taker>>
helping == <<support, supporter, spc, looksAt>>
flags == <<global, byDefault, override, upc, seen, overrideRow, opc, found>>
incidents == <<incident, ipc, wants, note, copy>>
plans == <<limits, onPlan, ppc, patch, base>>
consoleVars == <<staff, helping, flags, incidents, plans>>

LimitKeys == {"maxUsers", "maxProjects"}
NewIncident == [status |-> "open", notes |-> FALSE, by |-> FALSE, at |-> FALSE]

\* The seed script makes operators of any role; here it made one owner.
ConsoleInit ==
    /\ oprole \in [Operators -> OperatorRoles]
    /\ Cardinality({o \in Operators : oprole[o] = "platform_owner"}) = 1
    /\ login = [l \in Logins |-> "none"] /\ operator = [l \in Logins |-> None]
    /\ tpc = [t \in Transfers |-> "idle"] /\ giver = [t \in Transfers |-> None] /\ taker = [t \in Transfers |-> None]
    /\ support = [s \in Support |-> "none"] /\ supporter = [s \in Support |-> None]
    /\ spc = [k \in Looks |-> "idle"] /\ looksAt = [k \in Looks |-> None]
    /\ global \in BOOLEAN /\ byDefault \in BOOLEAN /\ override = None
    /\ upc = [u \in Uses |-> "idle"] /\ seen = [u \in Uses |-> {}]
    /\ opc = [v \in Overrides |-> "idle"] /\ overrideRow = None /\ found = [v \in Overrides |-> None]
    /\ incident = NewIncident
    /\ ipc = [r \in Reports |-> "idle"] /\ wants = [r \in Reports |-> None] /\ note = [r \in Reports |-> FALSE]
    /\ copy = [r \in Reports |-> NewIncident]
    /\ limits = [k \in LimitKeys |-> None] /\ onPlan \in BOOLEAN
    /\ ppc = [p \in Patches |-> "idle"] /\ patch = [p \in Patches |-> {}] /\ base = [p \in Patches |-> limits]

-----------------------------------------------------------------------------
(* Operators.                                                              *)

OperatorLogin(l, o) ==
    /\ login[l] = "none"
    /\ login' = [login EXCEPT ![l] = "open"] /\ operator' = [operator EXCEPT ![l] = o]
    /\ UNCHANGED <<oprole, tpc, giver, taker, helping, flags, incidents, plans>>

\* platformAuth: the operator's role and the session are read for every request.
As(o) == \E l \in Logins : login[l] = "open" /\ operator[l] = o

OperatorLogout(l) ==
    /\ login[l] = "open"
    /\ login' = [login EXCEPT ![l] = "revoked"]
    /\ UNCHANGED <<oprole, operator, tpc, giver, taker, helping, flags, incidents, plans>>

\* The reads of a transfer: both operators, and that the caller is the owner.
ReadTransfer(t, a, b) ==
    /\ tpc[t] = "idle" /\ a # b /\ As(a) /\ oprole[a] \in ManagesOwnership
    /\ tpc' = [tpc EXCEPT ![t] = IF oprole[a] = "platform_owner" THEN "write" ELSE "refused"]
    /\ giver' = [giver EXCEPT ![t] = a] /\ taker' = [taker EXCEPT ![t] = b]
    /\ UNCHANGED <<oprole, login, operator, helping, flags, incidents, plans>>

HandOver(t) ==
    /\ oprole' = [oprole EXCEPT ![taker[t]] = "platform_owner", ![giver[t]] = "platform_admin"]
    /\ login' = [l \in Logins |-> IF operator[l] = giver[t] /\ login[l] = "open" THEN "revoked" ELSE login[l]]
    /\ tpc' = [tpc EXCEPT ![t] = "done"]

\* Mutant: the demotion does not look at the role again.
TransferAnyway(t) ==
    /\ tpc[t] = "write" /\ HandOver(t)
    /\ UNCHANGED <<operator, giver, taker, helping, flags, incidents, plans>>

\* The transaction: promote, demote WHERE role = 'platform_owner', revoke; no row demoted, nothing done.
Transfer(t) ==
    /\ tpc[t] = "write"
    /\ IF oprole[giver[t]] = "platform_owner" THEN HandOver(t)
       ELSE tpc' = [tpc EXCEPT ![t] = "refused"] /\ UNCHANGED <<oprole, login>>
    /\ UNCHANGED <<operator, giver, taker, helping, flags, incidents, plans>>

-----------------------------------------------------------------------------
(* Support sessions.                                                       *)

CanSupport(o) == As(o) /\ oprole[o] \in OperatorRoles \ {"compliance", "auditor"}

GrantSupport(s, o) ==
    /\ support[s] = "none" /\ CanSupport(o)
    /\ support' = [support EXCEPT ![s] = "open"] /\ supporter' = [supporter EXCEPT ![s] = o]
    /\ UNCHANGED <<staff, spc, looksAt, flags, incidents, plans>>

\* Thirty minutes.
ExpireSupport(s) ==
    /\ support[s] = "open"
    /\ support' = [support EXCEPT ![s] = "expired"]
    /\ UNCHANGED <<staff, supporter, spc, looksAt, flags, incidents, plans>>

\* Conditional on revoked_at only: an expired session can be revoked.
RevokeSupport(s) ==
    /\ support[s] \in {"open", "expired"} /\ CanSupport(supporter[s])
    /\ support' = [support EXCEPT ![s] = "revoked"]
    /\ UNCHANGED <<staff, supporter, spc, looksAt, flags, incidents, plans>>

\* requireSupportSession, and then the company's activity.
Look(k, s) ==
    /\ spc[k] = "idle" /\ support[s] # "none" /\ CanSupport(supporter[s])
    /\ spc' = [spc EXCEPT ![k] = IF support[s] = "open" THEN "list" ELSE "refused"]
    /\ looksAt' = [looksAt EXCEPT ![k] = s]
    /\ UNCHANGED <<staff, support, supporter, flags, incidents, plans>>

ListActivity(k) ==
    /\ spc[k] = "list"
    /\ spc' = [spc EXCEPT ![k] = "done"]
    /\ UNCHANGED <<staff, support, supporter, looksAt, flags, incidents, plans>>

-----------------------------------------------------------------------------
(* The feature flag.                                                       *)

\* What could be seen of the flag now, and by every running use after a step.
FlagView == (IF global THEN {"global"} ELSE {}) \cup (IF byDefault THEN {"default"} ELSE {})
        \cup {CASE override = None -> "none" [] override = TRUE -> "on" [] OTHER -> "off"}
Notice == seen' = [u \in Uses |-> IF upc[u] \in {"idle", "served", "hidden"} THEN seen[u] ELSE seen[u] \cup FlagView']

SetFlag(g, d) ==
    /\ global' = g /\ byDefault' = d /\ <<g, d>> # <<global, byDefault>>
    /\ UNCHANGED <<staff, helping, override, upc, overrideRow, opc, found, incidents, plans>>
    /\ Notice

\* The transaction selects the override first ...
FindOverride(v) ==
    /\ opc[v] = "idle"
    /\ opc' = [opc EXCEPT ![v] = "write"]
    /\ found' = [found EXCEPT ![v] = overrideRow]
    /\ UNCHANGED <<staff, helping, global, byDefault, override, upc, seen, overrideRow, incidents, plans>>

\* ... and then updates it by the id it found, or inserts one.  That row went meanwhile (nothing to
\* audit), or one came meanwhile (the unique index): the transaction fails.
SetOverride(v, b) ==
    /\ opc[v] = "write"
    /\ IF found[v] = overrideRow
       THEN override' = b /\ overrideRow' = IF overrideRow = None THEN v ELSE overrideRow
       ELSE UNCHANGED <<override, overrideRow>>
    /\ opc' = [opc EXCEPT ![v] = IF found[v] = overrideRow THEN "done" ELSE "failed"]
    /\ UNCHANGED <<staff, helping, global, byDefault, upc, found, incidents, plans>>
    /\ Notice

ClearOverride ==
    /\ override # None
    /\ override' = None /\ overrideRow' = None
    /\ UNCHANGED <<staff, helping, global, byDefault, upc, opc, found, incidents, plans>>
    /\ Notice

Use(u) ==
    /\ upc[u] = "idle"
    /\ upc' = [upc EXCEPT ![u] = "flag"]
    /\ seen' = [seen EXCEPT ![u] = FlagView]
    /\ UNCHANGED <<staff, helping, global, byDefault, override, overrideRow, opc, found, incidents, plans>>

\* isFeatureEnabled: the flag's row, which ends it when the flag is off for everybody ...
ReadFlag(u) ==
    /\ upc[u] = "flag"
    /\ upc' = [upc EXCEPT ![u] = IF ~global THEN "hidden" ELSE IF byDefault THEN "default" ELSE "plain"]
    /\ UNCHANGED <<staff, helping, global, byDefault, override, seen, overrideRow, opc, found, incidents, plans>>

\* ... and then the company's override, if there is one.
ReadOverride(u) ==
    /\ upc[u] \in {"default", "plain"}
    /\ upc' = [upc EXCEPT ![u] = IF override = TRUE \/ (override = None /\ upc[u] = "default") THEN "served" ELSE "hidden"]
    /\ UNCHANGED <<staff, helping, global, byDefault, override, seen, overrideRow, opc, found, incidents, plans>>

-----------------------------------------------------------------------------
(* The incident.                                                           *)

\* The incident is read and the notes are required before the transaction.
ReadIncident(r, s, n) ==
    /\ ipc[r] = "idle"
    /\ wants' = [wants EXCEPT ![r] = s] /\ note' = [note EXCEPT ![r] = n]
    /\ copy' = [copy EXCEPT ![r] = incident]
    /\ ipc' = [ipc EXCEPT ![r] = IF s = "resolved" /\ ~n /\ ~incident.notes THEN "refused" ELSE "write"]
    /\ UNCHANGED <<staff, helping, flags, incident, plans>>

UpdateIncident(r, notes) ==
    /\ ipc[r] = "write"
    /\ incident' = [status |-> wants[r],
                    notes |-> notes,
                    by |-> wants[r] = "resolved" \/ copy[r].by,
                    at |-> wants[r] = "resolved" \/ (copy[r].status = "resolved" /\ copy[r].at)]
    /\ ipc' = [ipc EXCEPT ![r] = "done"]
    /\ UNCHANGED <<staff, helping, flags, wants, note, copy, plans>>

\* The UPDATE writes every column, from the request and from the copy.
WriteIncident(r) == UpdateIncident(r, note[r] \/ copy[r].notes)

-----------------------------------------------------------------------------
(* The plan.                                                               *)

\* The limits are read, and merged with the given ones.
ReadPlan(p, given) ==
    /\ ppc[p] = "idle"
    /\ ppc' = [ppc EXCEPT ![p] = "write"]
    /\ patch' = [patch EXCEPT ![p] = given]
    /\ base' = [base EXCEPT ![p] = limits]
    /\ UNCHANGED <<staff, helping, flags, incidents, limits, onPlan>>

WritePlan(p, n) ==
    /\ ppc[p] = "write"
    /\ limits' = [k \in LimitKeys |-> IF k \in patch[p] THEN n ELSE base[p][k]]
    /\ ppc' = [ppc EXCEPT ![p] = "done"]
    /\ UNCHANGED <<staff, helping, flags, incidents, onPlan, patch, base>>

AssignPlan ==
    /\ onPlan' = ~onPlan
    /\ UNCHANGED <<staff, helping, flags, incidents, limits, ppc, patch, base>>

\* checkLimit
Allows(k, count) == ~onPlan \/ limits[k] = None \/ count < limits[k]

-----------------------------------------------------------------------------
OperatorSteps ==
    \/ \E l \in Logins : OperatorLogout(l) \/ \E o \in Operators : OperatorLogin(l, o)
    \/ \E t \in Transfers : Transfer(t) \/ \E a, b \in Operators : ReadTransfer(t, a, b)
    \/ \E s \in Support : ExpireSupport(s) \/ RevokeSupport(s) \/ \E o \in Operators : GrantSupport(s, o)
    \/ \E k \in Looks : ListActivity(k) \/ \E s \in Support : Look(k, s)
FlagSteps ==
    \/ \E g, d \in BOOLEAN : SetFlag(g, d)
    \/ \E v \in Overrides : FindOverride(v) \/ \E b \in BOOLEAN : SetOverride(v, b)
    \/ ClearOverride
    \/ \E u \in Uses : Use(u) \/ ReadFlag(u) \/ ReadOverride(u)
IncidentSteps ==
    \E r \in Reports : WriteIncident(r)
        \/ \E s \in {"open", "investigating", "resolved"}, n \in BOOLEAN : ReadIncident(r, s, n)
PlanSteps ==
    \/ \E p \in Patches : (\E given \in SUBSET LimitKeys : ReadPlan(p, given)) \/ \E n \in Limits : WritePlan(p, n)
    \/ AssignPlan

ConsoleNext == OperatorSteps \/ FlagSteps \/ IncidentSteps \/ PlanSteps
ConsoleSpec == ConsoleInit /\ [][ConsoleNext]_consoleVars

-----------------------------------------------------------------------------
(***************************************************************************)
(* However many transfers of the ownership run at once, from the same or   *)
(* from successive owners, there is exactly one platform owner.            *)
(***************************************************************************)
OneOwner == Cardinality({o \in Operators : oprole[o] = "platform_owner"}) = 1

(***************************************************************************)
(* A feature is served only if, since the request asked, the flag has been *)
(* on for everybody, and the company's override on, or absent and the      *)
(* default on; an override never brings back what is off for everybody.    *)
(***************************************************************************)
ServedWhileOn ==
    \A u \in Uses : upc[u] = "served" =>
        /\ "global" \in seen[u]
        /\ "on" \in seen[u] \/ {"none", "default"} \subseteq seen[u]

(***************************************************************************)
(* A resolved incident says how, by whom and when, although an update      *)
(* writes what it read before its transaction.                             *)
(***************************************************************************)
ResolvedIsExplained ==
    incident.status = "resolved" => incident.notes /\ incident.by /\ incident.at

=============================================================================
