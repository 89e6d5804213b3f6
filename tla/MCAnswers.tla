------------------------------ MODULE MCAnswers ------------------------------
(***************************************************************************)
(* Requests that are answered whatever happens: Idempotency with two       *)
(* callers of one key, and SalesDocuments.  They share no state: a         *)
(* behaviour moves one of them, its theme.                                 *)
(***************************************************************************)
EXTENDS MCIdempotency, SalesDocuments

CONSTANTS qA, qB, iA, r1, r2, r3, r4

VARIABLE theme

AnswersInit == theme \in {"key", "sales"} /\ Init /\ SalesInit

\* Nothing distinguishes the requests before they begin: they begin in this order.
Order == <<r1, r2, r3, r4>>
InOrder == \A n \in 1..3 : step[Order[n]] = "idle" => step[Order[n + 1]] = "idle"

AnswersNext ==
    /\ UNCHANGED theme
    /\ \/ theme = "key" /\ Next /\ UNCHANGED salesVars
       \/ theme = "sales" /\ SalesNext /\ InOrder' /\ UNCHANGED vars

\* Fairness of Idempotency, in the behaviours that move it; no request of SalesDocuments can go on in
\* the others.
KeyFairness ==
    \A p \in Requests : WF_vars(theme = "key" /\ Step(p)) /\ WF_vars(theme = "key" /\ Thaw(p))

AnswersSpec == AnswersInit /\ [][AnswersNext]_<<theme, vars, salesVars>> /\ KeyFairness /\ SalesFairness

=============================================================================
