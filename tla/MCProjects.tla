------------------------------ MODULE MCProjects ------------------------------
(***************************************************************************)
(* Instances of ProjectControls, SiteRecords, Payroll, WorkforceCompliance *)
(* and ZatcaOnboarding for TLC.  They share no state: a behaviour moves    *)
(* one theme, and the rest stays as it began.                              *)
(***************************************************************************)
EXTENDS ProjectControls, SiteRecords, Payroll, WorkforceCompliance, ZatcaOnboarding, TLC

CONSTANTS b1, b2, r1, r2, c1, c2, e1, a1, a2, q1, q2, t1, t2, t3, p1, x1, s1, s2,
  m1, m2, w1, n1, n2, h1, g1, i1, o1, o2, o3

CONSTANTS Themes, Together  \* the themes, and how many requests of SiteRecords there are at a time

VARIABLE theme

Only(ops) == \A q \in ControlRequests : IF asked[q] = None THEN TRUE ELSE asked[q].op \in ops

\* Two snapshots do not meet; labour cost is posted while one is taken; the second item has one amount.
Alone == \A p, q \in ControlRequests : asked[p] # None /\ asked[q] # None => p = q
NotPosted == \A e \in Expenses : expense[e] # "posted"
PatchesOther(q) == Asks(q, "patchItem") /\ asked[q].item = b2

Still == CASE theme = "orders" -> UNCHANGED <<budgetvars, costvars, alertvars, asked>>
           [] theme = "items" -> UNCHANGED <<ordervars, ipc, commitment, alertvars, holds>>
                                 /\ NotPosted' /\ Only({"patchItem", "deleteItem", "assign"})'
                                 /\ planned'[b2] # 6 /\ \A q \in ControlRequests : ~PatchesOther(q)'
           [] theme = "alerts" -> UNCHANGED <<revision, ordervars, ipc, spentOn, holds>>
                                  /\ belongs'[b2] = None /\ NotPosted' /\ Only({"evaluate"})'
           [] theme = "snapshots" -> UNCHANGED <<revision, ordervars, ipc, spentOn, alertvars, holds>>
                                     /\ belongs'[b2] = None /\ Alone' /\ Only({"snapshot"})'
           [] theme = "deletion" -> UNCHANGED <<belongs, planned, ordervars, expense, alertvars, asked>>

Pending == Cardinality({q \in SiteRequests : wants[q] # None}) <= Together
SiteStill == CASE theme = "schedule" -> UNCHANGED <<punchvars, entries>> [] theme = "punch" -> UNCHANGED schedulevars

\* Two days, and the windows of one day and of both.
TwoDays == {<<1, 1>>, <<2, 2>>, <<1, 2>>}

\* Payroll with any order of two requests, where a record begins with one amount; the dates of
\* periods, and what is paid in one of them.
PayStill == CASE theme = "pay" -> UNCHANGED active /\ review'[m2] = "none" /\ window'[m1] \in {None, <<1, 1>>}
                                  /\ \A q \in Clerks : IF desk'[q] = None THEN TRUE
                                       ELSE desk'[q].op # "redate" /\ (desk'[q].op = "record" => desk'[q].net = 1)
              [] theme = "dates" -> UNCHANGED allocationvars /\ active' \subseteq {w1}
                                    /\ \A q \in Clerks : IF desk'[q] = None THEN TRUE
                                       ELSE IF desk'[q].op \in {"record", "amend"} THEN desk'[q].net = 1
                                       ELSE desk'[q].op \in {"create", "redate"}

NoHeads == [saudi |-> 0, nonSaudi |-> 0, total |-> 0]

\* Head counts; verification; exceptions.
WorkStill == CASE theme = "counts" -> UNCHANGED <<reference, evidence, verified, exception>> /\ counts'[i1] = None
               [] theme = "verification" -> UNCHANGED exception /\ \A r \in ReportKinds : counts'[r] \in {None, NoHeads}
                                           /\ \A q \in ReportRequests : IF bench'[q] = None THEN TRUE
                                              ELSE IF bench'[q].op = "verify" THEN TRUE ELSE bench'[q].given = {}
               [] theme = "exceptions" -> UNCHANGED reportvars

\* Nothing distinguishes the requests of ZatcaOnboarding before they begin: they begin in this order.
InOrder == (phase[o2] = "idle" => phase[o3] = "idle") /\ (phase[o1] = "idle" => phase[o2] = "idle")

Controls == {"orders", "items", "alerts", "snapshots", "deletion"}
Site == {"schedule", "punch"}
Pay == {"pay", "dates"}
Work == {"counts", "verification", "exceptions"}
ProjectsInit == ControlsInit /\ SiteInit /\ PayInit /\ WorkInit /\ OnboardingInit /\ theme \in Themes
ProjectsNext ==
    /\ theme' = theme
    /\ \/ theme \in Controls /\ ControlsNext /\ Still /\ UNCHANGED <<siteVars, payVars, workVars, onboardingVars>>
       \/ theme \in Site /\ SiteNext /\ SiteStill /\ Pending' /\ UNCHANGED <<controlVars, payVars, workVars, onboardingVars>>
       \/ theme \in Pay /\ PayNext /\ PayStill /\ UNCHANGED <<controlVars, siteVars, workVars, onboardingVars>>
       \/ theme \in Work /\ WorkNext /\ WorkStill /\ UNCHANGED <<controlVars, siteVars, payVars, onboardingVars>>
       \/ theme = "onboarding" /\ OnboardingNext /\ InOrder' /\ UNCHANGED <<controlVars, siteVars, payVars, workVars>>
ProjectsSpec == ProjectsInit /\ [][ProjectsNext]_<<controlVars, siteVars, payVars, workVars, onboardingVars, theme>>

Symmetric == Permutations(ControlRequests)

=============================================================================
