------------------------------- MODULE MCZatca -------------------------------
(***************************************************************************)
(* Instances of ZatcaSubmission for TLC.  A behaviour is calm (nothing     *)
(* fails, one prepare and three submit requests, and the tax identity is   *)
(* edited between and during them) or stormy (processes crash, statements  *)
(* fail and answers of ZATCA are lost, and the identity stays; two prepare *)
(* and two submit requests on two documents).                              *)
(***************************************************************************)
EXTENDS ZatcaSubmission, TLC

CONSTANTS i1, i2, p1, p2, p3, s1, s2, s3, id1, id2

VARIABLE calm

\* A lost answer of ZATCA, or a statement that failed.
Unlucky(s) ==
  \/ spc[s] = "call" /\ <<received, accepted>>' # <<received, accepted>> /\ verdict'[s] = "retryable"
  \/ spc[s] = "record" /\ state' # [state EXCEPT ![about[s]] = StateFor(verdict[s])]
  \/ spc[s] = "recover" /\ state'[about[s]] # "retry_required"

CalmInit == calm \in BOOLEAN /\ Init /\ (~calm => identity = id1)

CalmNext ==
  /\ UNCHANGED calm
  /\ \/ \E p \in Preparers : PrepareStep(p) /\ (calm => p = p1 /\ invoice'[p] \in {None, i1})
     \/ \E p \in Preparers : ~calm /\ PrepareFails(p)
     \/ \E s \in Submitters : SubmitStep(s) /\ (IF calm THEN ~Unlucky(s) ELSE s # s3)
     \/ \E s \in Submitters : ~calm /\ SubmitCrashes(s)
     \/ calm /\ EditIdentity
     \/ Tick

CalmSpec == CalmInit /\ [][CalmNext]_<<vars, calm>>
FairCalmSpec == CalmSpec /\ Fairness

\* "/submit is idempotent" (routes/zatca.ts): where no answer of ZATCA is lost and no outcome fails to be
\* written, ZATCA clears or reports a document once, however many requests submit it, until one of them
\* rebuilds it differently and overwrites what the others have recorded.
AcceptedOnceUntilMismatch == \A i \in Invoices \ FoundToDiffer : accepted[i] <= 1
AcceptedOnceWhenCalm == calm => AcceptedOnceUntilMismatch

\* For the proofs: a document that ZATCA accepted stays claimed, or is recorded, and every request that
\* still holds it has only the acceptance to record.
AcceptedInv ==
  \A i \in Invoices \ FoundToDiffer :
    \/ accepted[i] = 0
    \/ /\ accepted[i] = 1
       /\ state[i] \in {"submitting", "accepted"}
       /\ \A s \in Submitters :
            InFlight(s) /\ about[s] = i => spc[s] = "record" /\ verdict[s] = "accepted"

=============================================================================
