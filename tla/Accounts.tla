------------------------------- MODULE Accounts -------------------------------
(***************************************************************************)
(* The accounts of one company: registration, logins, password resets and  *)
(* invitations (routes/auth.ts), the members' roles and statuses as the    *)
(* company's owners change them (routes/company.ts) and as a platform      *)
(* operator does (routes/platformOrganizations.ts), and the session check  *)
(* of every other request (middleware/auth.ts).                            *)
(*                                                                         *)
(* A user is an e-mail address: the unique index on users.email makes the  *)
(* two the same.  Passwords and tokens that are presented are right.  A    *)
(* PATCH of a member is three steps, because its reads come before its     *)
(* transaction; the transaction is one, because of its row locks.          *)
(***************************************************************************)
EXTENDS Naturals, FiniteSets, Absent

CONSTANTS Users, Sessions, Resets, Invites,
          Changes,  \* PATCH requests on a member
          Joins     \* POST /accept-invite requests

ASSUME AbsentIsNoReason == None # "checked"

Roles == {"owner", "member"}
Statuses == {"active", "deactivated"}

VARIABLES
  status, role,      \* users: "none" before there is a row, "elsewhere" in another company
  password,          \* the password of each user, as the number of resets it went through
  company,           \* companies.status
  stage, holder,     \* user_sessions: "none", "verified" (password accepted), "open", "revoked"
  opened,            \* the user's password when the session was inserted
  reset, resetOf,    \* password_reset_tokens
  invite, invitee, offered,  \* company_invites
  withdrawn,         \* invites deleted before anybody accepted them
  cpc, surface, target, toRole, toStatus, removes,  \* PATCH requests
  jpc, joining,      \* accept-invite requests
  joinedBy,          \* the invite each user joined by
  ownersLost         \* how the last active owner went, None while there is one

people == <<status, role, password>>
sessions == <<stage, holder, opened>>
tokens == <<reset, resetOf>>
invitations == <<invite, invitee, offered, withdrawn>>
changing == <<cpc, surface, target, toRole, toStatus, removes, ownersLost>>
joiningvars == <<jpc, joining, joinedBy>>
accountsVars == <<people, company, sessions, tokens, invitations, changing, joiningvars>>

Members == {u \in Users : status[u] \in Statuses}
ActiveOwners == {u \in Users : status[u] = "active" /\ role[u] = "owner"}

\* The company has just been registered by its first owner.
AccountsInit ==
    /\ \E u \in Users : status = [v \in Users |-> IF v = u THEN "active" ELSE "none"]
    /\ role = [u \in Users |-> IF status[u] = "active" THEN "owner" ELSE "member"]
    /\ password = [u \in Users |-> 0]
    /\ company = "active"
    /\ stage = [s \in Sessions |-> "none"] /\ holder = [s \in Sessions |-> None] /\ opened = [s \in Sessions |-> 0]
    /\ reset = [t \in Resets |-> "none"] /\ resetOf = [t \in Resets |-> None]
    /\ invite = [i \in Invites |-> "none"] /\ invitee = [i \in Invites |-> None]
    /\ offered = [i \in Invites |-> None] /\ withdrawn = {}
    /\ cpc = [c \in Changes |-> "idle"] /\ surface = [c \in Changes |-> None] /\ target = [c \in Changes |-> None]
    /\ toRole = [c \in Changes |-> None] /\ toStatus = [c \in Changes |-> None]
    /\ removes = [c \in Changes |-> FALSE]
    /\ jpc = [j \in Joins |-> "idle"] /\ joining = [j \in Joins |-> None]
    /\ joinedBy = [u \in Users |-> None]
    /\ ownersLost = None

-----------------------------------------------------------------------------
(* Sessions.                                                               *)

\* requireAuth: the three rows are read again for every request.
Authorized(s) == stage[s] = "open" /\ status[holder[s]] = "active" /\ company = "active"
ByOwner == \E s \in Sessions : Authorized(s) /\ role[holder[s]] = "owner"

\* Somebody opens a company of their own: the address is taken from then on.
RegisterElsewhere(u) ==
    /\ status[u] = "none"
    /\ status' = [status EXCEPT ![u] = "elsewhere"]
    /\ UNCHANGED <<role, password, company, sessions, tokens, invitations, changing, joiningvars>>

Verify(s, u) ==
    /\ stage' = [stage EXCEPT ![s] = "verified"]
    /\ holder' = [holder EXCEPT ![s] = u]

\* POST /login reads the user and compares the password; neither status is looked at.
Login(s, u) ==
    /\ stage[s] = "none" /\ u \in Members
    /\ Verify(s, u)
    /\ UNCHANGED <<people, company, opened, tokens, invitations, changing, joiningvars>>

\* issueSessionToken
OpenSession(s) ==
    /\ stage[s] = "verified"
    /\ stage' = [stage EXCEPT ![s] = "open"]
    /\ opened' = [opened EXCEPT ![s] = password[holder[s]]]
    /\ UNCHANGED <<people, company, holder, tokens, invitations, changing, joiningvars>>

RevokeSessions(S) == stage' = [s \in Sessions |-> IF s \in S /\ stage[s] = "open" THEN "revoked" ELSE stage[s]]
SessionsOf(u) == {s \in Sessions : holder[s] = u}

Logout(s) ==
    /\ Authorized(s)
    /\ RevokeSessions({s})
    /\ UNCHANGED <<people, company, holder, opened, tokens, invitations, changing, joiningvars>>

-----------------------------------------------------------------------------
(* Password resets.                                                        *)

RequestReset(t, u) ==
    /\ reset[t] = "none" /\ u \in Members
    /\ reset' = [reset EXCEPT ![t] = "open"]
    /\ resetOf' = [resetOf EXCEPT ![t] = u]
    /\ UNCHANGED <<people, company, sessions, invitations, changing, joiningvars>>

\* Mutant: the sessions stay.
ResetOnly(t) ==
    /\ reset[t] = "open"
    /\ reset' = [reset EXCEPT ![t] = "used"]
    /\ password' = [password EXCEPT ![resetOf[t]] = @ + 1]
    /\ UNCHANGED <<status, role, company, sessions, resetOf, invitations, changing, joiningvars>>

\* POST /reset-password: the token, the password and the sessions in one transaction.
ResetPassword(t) ==
    /\ reset[t] = "open"
    /\ reset' = [reset EXCEPT ![t] = "used"]
    /\ password' = [password EXCEPT ![resetOf[t]] = @ + 1]
    /\ RevokeSessions(SessionsOf(resetOf[t]))
    /\ UNCHANGED <<status, role, company, holder, opened, resetOf, invitations, changing, joiningvars>>

-----------------------------------------------------------------------------
(* Invitations.                                                            *)

\* The address must be free when the owner invites it.
Invite(i, u, r) ==
    /\ invite[i] = "none" /\ status[u] = "none" /\ ByOwner
    /\ invite' = [invite EXCEPT ![i] = "open"]
    /\ invitee' = [invitee EXCEPT ![i] = u]
    /\ offered' = [offered EXCEPT ![i] = r]
    /\ UNCHANGED <<people, company, sessions, tokens, withdrawn, changing, joiningvars>>

\* DELETE /invites/:id, whatever its state.
DeleteInvite(i) ==
    /\ invite[i] \in {"open", "accepted", "expired"} /\ ByOwner
    /\ invite' = [invite EXCEPT ![i] = "deleted"]
    /\ withdrawn' = IF invite[i] = "accepted" THEN withdrawn ELSE withdrawn \cup {i}
    /\ UNCHANGED <<people, company, sessions, tokens, invitee, offered, changing, joiningvars>>

Expire(i) ==
    /\ invite[i] = "open"
    /\ invite' = [invite EXCEPT ![i] = "expired"]
    /\ UNCHANGED <<people, company, sessions, tokens, invitee, offered, withdrawn, changing, joiningvars>>

ReadInvite(j, i) ==
    /\ jpc[j] = "idle" /\ invite[i] = "open"
    /\ jpc' = [jpc EXCEPT ![j] = "email"]
    /\ joining' = [joining EXCEPT ![j] = i]
    /\ UNCHANGED <<people, company, sessions, tokens, invitations, changing, joinedBy>>

CheckEmail(j) ==
    /\ jpc[j] = "email"
    /\ jpc' = [jpc EXCEPT ![j] = IF status[invitee[joining[j]]] = "none" THEN "claim" ELSE "refused"]
    /\ UNCHANGED <<people, company, sessions, tokens, invitations, changing, joining, joinedBy>>

\* UPDATE ... WHERE accepted_at IS NULL AND expires_at > now: no row, no user.
ClaimInvite(j) ==
    /\ jpc[j] = "claim"
    /\ IF invite[joining[j]] = "open"
       THEN /\ invite' = [invite EXCEPT ![joining[j]] = "accepted"]
            /\ jpc' = [jpc EXCEPT ![j] = "insert"]
       ELSE /\ jpc' = [jpc EXCEPT ![j] = "refused"]
            /\ invite' = invite
    /\ UNCHANGED <<people, company, sessions, tokens, invitee, offered, withdrawn, changing, joining, joinedBy>>

\* The row, and then the session, unless the process dies before it.
InsertUser(j) ==
    LET u == invitee[joining[j]] IN
    /\ jpc[j] = "insert" /\ status[u] = "none"
    /\ status' = [status EXCEPT ![u] = "active"]
    /\ role' = [role EXCEPT ![u] = offered[joining[j]]]
    /\ joinedBy' = [joinedBy EXCEPT ![u] = joining[j]]
    /\ \/ \E s \in Sessions : stage[s] = "none" /\ Verify(s, u)
       \/ UNCHANGED <<stage, holder>>
    /\ jpc' = [jpc EXCEPT ![j] = "done"]
    /\ UNCHANGED <<password, company, opened, tokens, invitations, changing, joining>>

\* The address was registered meanwhile (23505): the invitation is spent for nothing.
DuplicateEmail(j) ==
    /\ jpc[j] = "insert" /\ status[invitee[joining[j]]] # "none"
    /\ jpc' = [jpc EXCEPT ![j] = "refused"]
    /\ UNCHANGED <<people, company, sessions, tokens, invitations, changing, joining, joinedBy>>

-----------------------------------------------------------------------------
(* Roles and statuses of members.                                          *)

Removes(u, r, s) == u \in ActiveOwners /\ (r = "member" \/ s = "deactivated")
OthersThan(u) == ActiveOwners \ {u}

\* What both handlers read before their transaction.
ReadMember(c, from, u, r, s) ==
    /\ cpc[c] = "idle" /\ u \in Members /\ ~(r = None /\ s = None)
    /\ from = "tenant" => ByOwner
    /\ from = "platform" => r = None /\ s # status[u]
    /\ surface' = [surface EXCEPT ![c] = from] /\ target' = [target EXCEPT ![c] = u]
    /\ toRole' = [toRole EXCEPT ![c] = r] /\ toStatus' = [toStatus EXCEPT ![c] = s]
    /\ removes' = [removes EXCEPT ![c] = Removes(u, r, s)]
    /\ cpc' = [cpc EXCEPT ![c] = IF Removes(u, r, s) \/ (from = "platform" /\ u \in ActiveOwners)
                                 THEN "others" ELSE "write"]
    /\ UNCHANGED <<people, company, sessions, tokens, invitations, ownersLost, joiningvars>>

CheckOthers(c) ==
    /\ cpc[c] = "others"
    /\ cpc' = [cpc EXCEPT ![c] = IF OthersThan(target[c]) = {} THEN "refused" ELSE "write"]
    /\ UNCHANGED <<people, company, sessions, tokens, invitations, surface, target, toRole, toStatus, removes, ownersLost,
                   joiningvars>>

Update(c) ==
    LET u == target[c] IN
    /\ role' = IF toRole[c] = None THEN role ELSE [role EXCEPT ![u] = toRole[c]]
    /\ status' = IF toStatus[c] = None THEN status ELSE [status EXCEPT ![u] = toStatus[c]]
    /\ ownersLost' = IF ActiveOwners' # {} THEN None
                     ELSE IF ownersLost # None THEN ownersLost
                     ELSE IF surface[c] = "platform" THEN "platform"
                     ELSE IF removes[c] THEN "checked" ELSE "misjudged"
    /\ cpc' = [cpc EXCEPT ![c] = "done"]

\* Mutant: the tenant's transaction without the lock and the second look at the owners.
WriteUnlocked(c) ==
    /\ cpc[c] = "write"
    /\ Update(c)
    /\ UNCHANGED <<password, company, sessions, tokens, invitations, surface, target, toRole, toStatus, removes, joiningvars>>

\* The tenant's transaction locks the active owners and looks again, if the request was judged to
\* remove one; the platform's only writes.
WriteMember(c) ==
    /\ cpc[c] = "write"
    /\ IF surface[c] = "tenant" /\ removes[c] /\ OthersThan(target[c]) = {}
       THEN /\ cpc' = [cpc EXCEPT ![c] = "refused"]
            /\ UNCHANGED <<role, status, ownersLost>>
       ELSE Update(c)
    /\ UNCHANGED <<password, company, sessions, tokens, invitations, surface, target, toRole, toStatus, removes, joiningvars>>

-----------------------------------------------------------------------------
(* The platform operator.                                                  *)

Suspend ==
    /\ company = "active"
    /\ company' = "suspended"
    /\ RevokeSessions(UNION {SessionsOf(u) : u \in Members})
    /\ UNCHANGED <<people, holder, opened, tokens, invitations, changing, joiningvars>>

Reactivate ==
    /\ company = "suspended"
    /\ company' = "active"
    /\ UNCHANGED <<people, sessions, tokens, invitations, changing, joiningvars>>

\* Of the whole company, or of one of its users.
RevokeByPlatform ==
    /\ \E U \in {Members} \cup {{u} : u \in Members} : RevokeSessions(UNION {SessionsOf(u) : u \in U})
    /\ UNCHANGED <<people, company, holder, opened, tokens, invitations, changing, joiningvars>>

-----------------------------------------------------------------------------
AccountsNext ==
    \/ \E u \in Users : RegisterElsewhere(u)
    \/ \E s \in Sessions : OpenSession(s) \/ Logout(s) \/ \E u \in Users : Login(s, u)
    \/ \E t \in Resets : ResetPassword(t) \/ \E u \in Users : RequestReset(t, u)
    \/ \E i \in Invites : DeleteInvite(i) \/ Expire(i) \/ \E u \in Users, r \in Roles : Invite(i, u, r)
    \/ \E j \in Joins :
         \/ \E i \in Invites : ReadInvite(j, i)
         \/ CheckEmail(j) \/ ClaimInvite(j) \/ InsertUser(j) \/ DuplicateEmail(j)
    \/ \E c \in Changes :
         \/ \E from \in {"tenant", "platform"}, u \in Users, r \in Roles \cup {None}, s \in Statuses \cup {None} :
              ReadMember(c, from, u, r, s)
         \/ CheckOthers(c) \/ WriteMember(c)
    \/ Suspend \/ Reactivate \/ RevokeByPlatform

AccountsSpec == AccountsInit /\ [][AccountsNext]_accountsVars

-----------------------------------------------------------------------------
(***************************************************************************)
(* The lock in the tenant's transaction works: when the last active owner  *)
(* goes, it is never by a tenant request that was judged to remove an      *)
(* active owner.  What remains is the platform's handler, which does not   *)
(* lock, and a request judged before its target became an owner.           *)
(***************************************************************************)
CheckedKeepsOwner == ownersLost # "checked"

(***************************************************************************)
(* "A company can never be left with zero active owners through ANY        *)
(* administrative surface, platform-admin included"                        *)
(* (platformOrganizations.ts).                                             *)
(***************************************************************************)
OwnerRemains == ActiveOwners # {}

(***************************************************************************)
(* An invitation withdrawn before it was accepted brings nobody in, even   *)
(* if somebody had already begun to accept it.                             *)
(***************************************************************************)
WithdrawnBringsNobody == \A u \in Users : joinedBy[u] # None => joinedBy[u] \notin withdrawn

(***************************************************************************)
(* No session that was inserted before a reset of the password is still    *)
(* open after it.  (One whose password was compared before the reset and   *)
(* which is inserted after it stays open.)                                 *)
(***************************************************************************)
ResetEndsSessions ==
    \A s \in Sessions : stage[s] = "open" => opened[s] = password[holder[s]]

=============================================================================
