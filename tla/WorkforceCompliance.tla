------------------------- MODULE WorkforceCompliance -------------------------
(***************************************************************************)
(* What a company records of its workforce for the authorities (routes/    *)
(* workforceCompliance.ts): periods, head-count snapshots, Nitaqat and     *)
(* GOSI records with their evidence, and exceptions.  Every route reads    *)
(* the row, judges what it has read, and writes by the row's id in a       *)
(* transaction of its own.                                                 *)
(***************************************************************************)
EXTENDS Naturals, Absent

CONSTANTS WorkPeriods, Snapshots, Nitaqat, Gosi, Exceptions, ReportRequests, Heads

ReportKinds == Snapshots \cup Nitaqat \cup Gosi
Counted == Snapshots \cup Nitaqat

VARIABLES
  workPeriod,  \* of each period: "none", "open", "closed"; no other route looks at it
  counts,      \* of each report: None, or its head counts
  reference,   \* whether it names its source
  evidence,    \* whether a file is attached to it
  verified,
  exception,   \* of each exception: "none", "open", "in_progress", "resolved", "closed"
  bench        \* of each request: None, or what it is about and what it will write

reportvars == <<counts, reference, evidence, verified>>
workVars == <<workPeriod, reportvars, exception, bench>>

WorkInit ==
    /\ workPeriod = [p \in WorkPeriods |-> "none"] /\ counts = [r \in ReportKinds |-> None]
    /\ reference = {} /\ evidence = {} /\ verified = {}
    /\ exception = [x \in Exceptions |-> "none"]
    /\ bench = [q \in ReportRequests |-> None]

Lay(q, what) == bench[q] = None /\ bench' = [bench EXCEPT ![q] = what]
Lies(q, op) == bench[q] # None /\ bench[q].op = op
Clear(q) == bench' = [bench EXCEPT ![q] = None]

CountsConsistent(c) == c.saudi + c.nonSaudi = c.total
CountRecords == [saudi : Heads, nonSaudi : Heads, total : Heads]

-----------------------------------------------------------------------------
CreateWorkPeriod(p) ==
    /\ workPeriod[p] = "none" /\ workPeriod' = [workPeriod EXCEPT ![p] = "open"]
    /\ UNCHANGED <<reportvars, exception, bench>>
SetWorkPeriod(p, s) ==
    /\ workPeriod[p] # "none" /\ workPeriod' = [workPeriod EXCEPT ![p] = s]
    /\ UNCHANGED <<reportvars, exception, bench>>

ResolvePeriod == \E p \in WorkPeriods : workPeriod[p] # "none"

\* The GOSI record has one count, which nothing is compared with.
CreateReport(r, c, named) ==
    /\ ResolvePeriod /\ counts[r] = None /\ (r \in Counted => CountsConsistent(c))
    /\ counts' = [counts EXCEPT ![r] = c]
    /\ reference' = IF named THEN reference \cup {r} ELSE reference
    /\ UNCHANGED <<workPeriod, evidence, verified, exception, bench>>

\* Mutant: a PATCH writes the counts of its body only.
WriteGiven(old, q) == [k \in DOMAIN old |-> IF k \in bench[q].given THEN bench[q].counts[k] ELSE old[k]]

\* The counts of a PATCH: those of its body, and for the others those it has read.
WriteAll(old, q) == bench[q].counts

\* PATCH of a report gives some of the counts, and may set or clear the reference.
ReadReport(q, r, given, c, named) ==
    /\ counts[r] # None
    /\ LET next == [k \in DOMAIN c |-> IF k \in given THEN c[k] ELSE counts[r][k]] IN
       /\ r \in Counted => CountsConsistent(next)
       /\ Lay(q, [op |-> "patch", report |-> r, given |-> given, counts |-> next, named |-> named])
    /\ UNCHANGED <<workPeriod, reportvars, exception>>
PatchReport(q) ==
    /\ Lies(q, "patch")
    /\ LET r == bench[q].report IN
       /\ counts' = [counts EXCEPT ![r] = WriteAll(@, q)]
       /\ reference' = CASE bench[q].named = "set" -> reference \cup {r}
                         [] bench[q].named = "cleared" -> reference \ {r}
                         [] OTHER -> reference
    /\ Clear(q)
    /\ UNCHANGED <<workPeriod, evidence, verified, exception>>

\* POST /.../verify asks for a reference, or evidence where a report can have some.
ReadForVerification(q, r) ==
    /\ counts[r] # None /\ r \in reference \cup (IF r \in Snapshots THEN {} ELSE evidence)
    /\ Lay(q, [op |-> "verify", report |-> r])
    /\ UNCHANGED <<workPeriod, reportvars, exception>>
VerifyReport(q) ==
    /\ Lies(q, "verify")
    /\ verified' = verified \cup {bench[q].report}
    /\ Clear(q)
    /\ UNCHANGED <<workPeriod, counts, reference, evidence, exception>>

AddEvidence(r) ==
    /\ r \notin Snapshots /\ counts[r] # None
    /\ evidence' = evidence \cup {r}
    /\ UNCHANGED <<workPeriod, counts, reference, verified, exception, bench>>

-----------------------------------------------------------------------------
CreateException(x) ==
    /\ exception[x] = "none" /\ exception' = [exception EXCEPT ![x] = "open"]
    /\ UNCHANGED <<workPeriod, reportvars, bench>>

\* The statuses each route moves an exception on from.
MayBecome(s) == CASE s \in {"open", "in_progress"} -> {"open", "in_progress", "resolved"}
                  [] s = "resolved" -> {"closed"}
                  [] OTHER -> {}

ReadException(q, x, s) ==
    /\ s \in MayBecome(exception[x])
    /\ Lay(q, [op |-> "except", about |-> x, status |-> s])
    /\ UNCHANGED <<workPeriod, reportvars, exception>>
WriteException(q) ==
    /\ Lies(q, "except")
    /\ exception' = [exception EXCEPT ![bench[q].about] = bench[q].status]
    /\ Clear(q)
    /\ UNCHANGED <<workPeriod, reportvars>>

-----------------------------------------------------------------------------
WorkNext ==
    \/ \E p \in WorkPeriods : CreateWorkPeriod(p) \/ \E s \in {"open", "closed"} : SetWorkPeriod(p, s)
    \/ \E r \in ReportKinds :
         \/ \E c \in CountRecords :
              \/ \E named \in BOOLEAN : CreateReport(r, c, named)
              \/ \E q \in ReportRequests, given \in SUBSET DOMAIN c, named \in {"set", "cleared", "kept"} :
                   ReadReport(q, r, given, c, named)
         \/ AddEvidence(r)
         \/ \E q \in ReportRequests : ReadForVerification(q, r)
    \/ \E x \in Exceptions : CreateException(x)
                             \/ \E q \in ReportRequests, s \in {"open", "in_progress", "resolved", "closed"} : ReadException(q, x, s)
    \/ \E q \in ReportRequests : PatchReport(q) \/ VerifyReport(q) \/ WriteException(q)

WorkSpec == WorkInit /\ [][WorkNext]_workVars

-----------------------------------------------------------------------------
(***************************************************************************)
(* The head counts of a report add up, also after two changes of different *)
(* counts that were both judged on the same row.                           *)
(***************************************************************************)
CountsAddUp == \A r \in Counted : IF counts[r] = None THEN TRUE ELSE CountsConsistent(counts[r])

(***************************************************************************)
(* What is verified is still what somebody stood for "with supporting      *)
(* evidence/reference" (workforceCompliance.ts:31): a verified report has  *)
(* a reference or evidence.                                                *)
(***************************************************************************)
VerifiedIsSupported == \A r \in verified : r \in reference \cup evidence

=============================================================================
