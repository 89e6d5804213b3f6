-------------------------- MODULE MCAdministration --------------------------
(***************************************************************************)
(* Instances of Accounts, DocumentStore, PlatformConsole and TaxRules for  *)
(* TLC.  They share no state, so interleaving them would show nothing: a   *)
(* behaviour moves one part, chosen at the start, and the others stay in   *)
(* one of their initial states.  The console's own four groups share no    *)
(* state either and are parts of their own.                                *)
(***************************************************************************)
EXTENDS Accounts, DocumentStore, PlatformConsole, TaxRules, TLC

CONSTANT Parts
CONSTANTS u1, u2, s1, s2, t1, i1, c1, c2, j1
CONSTANTS f1, n1, n2, e1, e2, d1
CONSTANTS o1, o2, o3, l1, l2, x1, x2, g1, k1, h1, v1, v2, r1, r2, r3, p1, p2
CONSTANT q1

VARIABLE part

Init ==
    /\ part \in Parts
    /\ AccountsInit /\ StoreInit /\ ConsoleInit /\ TaxInit
    /\ part # "documents" => provider = "local" /\ \A f \in Files : entity[f] = "project_document"
    /\ status[u1] = "active" /\ oprole[o1] = "platform_owner"   \* which one is as good as another
    /\ \A o \in Operators \ {o1} : oprole[o] \in IF part = "operators" THEN {"platform_operator", "support", "compliance"}
                                                                      ELSE {"platform_admin"}
    /\ part # "flags" => global /\ byDefault
    /\ part # "plans" => onPlan

\* Only a calculation of the standard rate looks at overrides; the others are made before there are any.
OthersFirst ==
    \A q \in Calculations : kcategory[q] \notin {None, "standard_rate"} => \A i \in TaxOverrides : ostate[i] = "none"

Next ==
    /\ UNCHANGED part
    /\ \/ part = "accounts" /\ AccountsNext /\ UNCHANGED <<storeVars, consoleVars, taxVars>>
       \/ part = "documents" /\ StoreNext /\ UNCHANGED <<accountsVars, consoleVars, taxVars>>
       \/ part = "operators" /\ OperatorSteps /\ UNCHANGED <<accountsVars, storeVars, taxVars>>
       \/ part = "flags" /\ FlagSteps /\ UNCHANGED <<accountsVars, storeVars, taxVars>>
       \/ part = "incidents" /\ IncidentSteps /\ UNCHANGED <<accountsVars, storeVars, taxVars>>
       \/ part = "plans" /\ PlanSteps /\ UNCHANGED <<accountsVars, storeVars, taxVars>>
       \/ part = "tax" /\ TaxNext /\ OthersFirst' /\ UNCHANGED <<accountsVars, storeVars, consoleVars>>

Spec == Init /\ [][Next]_<<part, accountsVars, storeVars, consoleVars, taxVars>>

\* The overrides of TaxRules bear the names of the changes of Accounts: what permutes one permutes both.
Symmetric == Permutations(Changes) \cup Permutations(Sessions) \cup Permutations(PortalSessions)

=============================================================================
