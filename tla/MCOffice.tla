------------------------------ MODULE MCOffice ------------------------------
(***************************************************************************)
(* Instances of TenantTransfer, ClientForms and ClientScreens for TLC.     *)
(* They share no state: a behaviour moves one of them, its theme, and the  *)
(* others stay in one of their initial states.                             *)
(***************************************************************************)
EXTENDS TenantTransfer, ClientForms, ClientScreens, TLC

CONSTANTS Themes, r1, r2, b1, b2, s1, s2, s3, c1, c2

VARIABLE theme

Init ==
    /\ theme \in Themes
    /\ TransferInit
    /\ theme # "transfer" => pair = <<"users", "companies">> /\ source["child"] = "none" /\ sameSchema
    /\ FormsInit
    /\ theme # "forms" => form = CHOOSE f \in InUse : TRUE
    /\ ScreensInit
    /\ theme # "screens" => screen = "task" /\ state = "none" /\ rank = "owner"

AllForms == Forms
OnlyConversion == {QuoteConversion}

Symmetry == Permutations(Sends) \cup Permutations(Bodies)

Next ==
    /\ UNCHANGED theme
    /\ \/ theme = "transfer" /\ TransferNext /\ UNCHANGED <<formVars, screenVars>>
       \/ theme = "forms" /\ FormsNext /\ UNCHANGED <<transferVars, screenVars>>
       \/ theme = "screens" /\ ScreensNext /\ UNCHANGED <<transferVars, formVars>>

Spec == Init /\ [][Next]_<<theme, transferVars, formVars, screenVars>>

=============================================================================
