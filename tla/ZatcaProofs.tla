---------------------------- MODULE ZatcaProofs ----------------------------
(***************************************************************************)
(* Theorems about ZatcaSubmission, for every number of invoices, requests, *)
(* identities, edits and seconds.                                          *)
(***************************************************************************)
EXTENDS MCZatca, SequenceTheorems, TLAPS

LEMMA DigestType ==
  ASSUME NEW u \in Preparers, NEW id \in Identities, NEW t \in Times
  PROVE  Digest(u, id, t) \in Digests
BY DEF Digest, Digests, Times

LEMMA ClockNat == MaxClock \in Nat /\ MaxEdits \in Nat
BY BoundsAssumption

LEMMA TypeInit == Init => TypeOK /\ WellFormed
BY ClockNat DEF Init, TypeOK, WellFormed, Prepared, Pointers, Times, SubmissionStates, Verdicts,
   SUBMISSION_TERMINAL_OR_INFLIGHT_STATES

LEMMA TypeStep == ASSUME TypeOK, WellFormed, [Next]_vars PROVE TypeOK' /\ WellFormed'
<1> USE ClockNat, NoneAssumption
<1> USE DEF TypeOK, WellFormed, Prepared, Pointers, Times, SubmissionStates, Verdicts,
            SUBMISSION_TERMINAL_OR_INFLIGHT_STATES, PGoto, SGoto, EndTx, Outcome,
            unitVars, rowVars, worldVars, prepVars, subVars, zatcaVars
<1>1. ASSUME NEW p \in Preparers, PrepareStep(p) \/ PrepareFails(p)
      PROVE  TypeOK' /\ WellFormed'
  <2>1. CASE LookUp(p)
    BY <2>1 DEF LookUp
  <2>2. CASE ReadIdentity(p) \/ Begin(p)
    BY <2>2 DEF ReadIdentity, Begin
  <2>3. CASE lockAndReadPihPointer(p) \/ claimNextIcv(p)
    BY <2>3 DEF lockAndReadPihPointer, claimNextIcv
  <2>4. CASE createSubmission(p)
    <3>1. documentHash(p) \in Digests
      BY <2>4, DigestType DEF documentHash, createSubmission
    <3>2. QED
      BY <2>4, <3>1 DEF createSubmission
  <2>5. CASE DuplicateRace(p) \/ PrepareFails(p)
    BY <2>5 DEF DuplicateRace, PrepareFails
  <2>6. QED
    BY <1>1, <2>1, <2>2, <2>3, <2>4, <2>5 DEF PrepareStep
<1>2. ASSUME NEW s \in Submitters, SubmitStep(s) \/ SubmitCrashes(s)
      PROVE  TypeOK' /\ WellFormed'
  <2>1. CASE ReadSubmission(s)
    BY <2>1 DEF ReadSubmission
  <2>2. CASE Rebuild(s)
    <3>1. Digest(uuid[about[s]], identity, createdAt[about[s]]) \in Digests
      BY <2>2, DigestType DEF Rebuild
    <3>2. QED
      BY <2>2, <3>1 DEF Rebuild
  <2>3. CASE RecordMismatch(s) \/ claimSubmissionForSubmit(s)
    BY <2>3 DEF RecordMismatch, claimSubmissionForSubmit
  <2>4. CASE Sign(s)
    BY <2>4 DEF Sign
  <2>5. CASE ZatcaAccepts(s) \/ ZatcaRejects(s) \/ CallFails(s)
    <3>1. doc[s] \in Digests
      BY <2>5 DEF ZatcaAccepts, ZatcaRejects, CallFails
    <3>2. CASE ZatcaAccepts(s)
      BY <3>1, <3>2 DEF ZatcaAccepts, Answered
    <3>3. CASE ZatcaRejects(s)
      BY <3>1, <3>3 DEF ZatcaRejects, Answered
    <3>4. CASE CallFails(s)
      BY <3>1, <3>4 DEF CallFails, Answered
    <3>5. QED
      BY <2>5, <3>2, <3>3, <3>4
  <2>6. CASE RecordOutcome(s)
    <3>1. StateFor(verdict[s]) \in SubmissionStates \ {"none"}
      BY <2>6 DEF StateFor, RecordOutcome
    <3>2. QED
      BY <2>6, <3>1 DEF RecordOutcome
  <2>7. CASE RecordUnexpectedError(s) \/ SubmitCrashes(s)
    BY <2>7 DEF RecordUnexpectedError, SubmitCrashes
  <2>8. QED
    BY <1>2, <2>1, <2>2, <2>3, <2>4, <2>5, <2>6, <2>7 DEF SubmitStep
<1>3. CASE EditIdentity \/ Tick
  BY <1>3 DEF EditIdentity, Tick
<1>4. CASE UNCHANGED vars
  BY <1>4 DEF vars
<1>5. QED
  BY <1>1, <1>2, <1>3, <1>4 DEF Next

\* The variables keep their types, for every instance.
THEOREM TypeCorrect == Spec => []TypeOK
<1>1. TypeOK /\ WellFormed /\ [Next]_vars => (TypeOK /\ WellFormed)'
  BY TypeStep
<1>2. QED
  BY <1>1, TypeInit, PTL DEF Spec

-----------------------------------------------------------------------------
(* The chain.                                                              *)

ChainInv == LockInv /\ GenesisInv /\ ChainIntact

LEMMA ChainInit == Init => ChainInv
BY NoneAssumption DEF Init, ChainInv, LockInv, GenesisInv, ChainIntact, Prepared

\* Only createSubmission changes what ChainIntact reads.
LEMMA ChainStep ==
  ASSUME TypeOK, WellFormed, ChainInv, [Next]_vars
  PROVE  ChainInv'
<1> USE NoneAssumption
<1> USE DEF TypeOK, WellFormed, ChainInv, LockInv, GenesisInv, ChainIntact, Prepared, PGoto, SGoto,
            EndTx, Outcome, unitVars, rowVars, worldVars, prepVars, subVars, zatcaVars
<1>1. ASSUME NEW p \in Preparers, PrepareStep(p) \/ PrepareFails(p) PROVE ChainInv'
  <2>1. CASE LookUp(p) \/ ReadIdentity(p) \/ Begin(p)
    BY <2>1 DEF LookUp, ReadIdentity, Begin
  <2>2. CASE lockAndReadPihPointer(p) \/ claimNextIcv(p)
    BY <2>2 DEF lockAndReadPihPointer, claimNextIcv
  <2>3. CASE createSubmission(p)
    <3> DEFINE i == invoice[p]
    <3>1. /\ i \in Invoices /\ i \notin Prepared /\ Prepared' = Prepared \cup {i}
          /\ counter' = counter + 1 /\ pointer' = documentHash(p)
          /\ icv' = [icv EXCEPT ![i] = counter + 1]
          /\ pih' = [pih EXCEPT ![i] = pointer]
          /\ hash' = [hash EXCEPT ![i] = documentHash(p)]
      <4>1. i \in Invoices /\ i \notin Prepared /\ number[p] = counter + 1 /\ prev[p] = pointer
        BY <2>3 DEF createSubmission
      <4>2. Prepared' = Prepared \cup {i}
        BY <2>3, <4>1 DEF createSubmission
      <4>3. QED
        BY <2>3, <4>1, <4>2 DEF createSubmission
    <3>2. LockInv'
      BY <2>3 DEF createSubmission
    <3>3. GenesisInv'
      BY <3>1
    <3>4. ChainIntact'
      <4>1. \A j \in Prepared' : icv'[j] \in 1..counter'
        BY <3>1
      <4>2. \A n \in 1..counter' : \E j \in Prepared' : icv'[j] = n
        <5> TAKE n \in 1..counter'
        <5>1. CASE n = counter + 1
          BY <3>1, <5>1
        <5>2. CASE n # counter + 1
          <6>1. n \in 1..counter
            BY <3>1, <5>2
          <6>2. PICK j \in Prepared : icv[j] = n
            BY <6>1
          <6>3. QED
            BY <3>1, <6>2
        <5>3. QED
          BY <5>1, <5>2
      <4>3. \A j, k \in Prepared' : icv'[j] = icv'[k] => j = k
        BY <3>1
      <4>4. \A j \in Prepared' : icv'[j] = 1 => pih'[j] = GENESIS_PREVIOUS_INVOICE_HASH
        BY <3>1
      <4>5. \A j, k \in Prepared' : icv'[k] = icv'[j] + 1 => pih'[k] = hash'[j]
        BY <3>1
      <4>6. \A j \in Prepared' : icv'[j] = counter' => pointer' = hash'[j]
        BY <3>1
      <4>7. QED
        BY <4>1, <4>2, <4>3, <4>4, <4>5, <4>6
    <3>5. QED
      BY <3>2, <3>3, <3>4
  <2>4. CASE DuplicateRace(p) \/ PrepareFails(p)
    BY <2>4 DEF DuplicateRace, PrepareFails
  <2>5. QED
    BY <1>1, <2>1, <2>2, <2>3, <2>4 DEF PrepareStep
<1>2. ASSUME NEW s \in Submitters, SubmitStep(s) \/ SubmitCrashes(s) PROVE ChainInv'
  <2>1. Prepared' = Prepared
    <3>1. CASE RecordOutcome(s)
      <4>1. StateFor(verdict[s]) # "none"
        BY <3>1 DEF RecordOutcome, StateFor, Verdicts
      <4>2. QED
        BY <3>1, <4>1 DEF RecordOutcome
    <3>2. CASE ~RecordOutcome(s)
      BY <1>2, <3>2 DEF SubmitStep, ReadSubmission, Rebuild, RecordMismatch, claimSubmissionForSubmit, Sign,
         ZatcaAccepts, ZatcaRejects, CallFails, Answered, RecordUnexpectedError, SubmitCrashes
    <3>3. QED
      BY <3>1, <3>2
  <2>2. UNCHANGED <<counter, pointer, unitLock, counterLock, icv, pih, hash, ppc, prev, number>>
    BY <1>2 DEF SubmitStep, ReadSubmission, Rebuild, RecordMismatch, claimSubmissionForSubmit, Sign,
       ZatcaAccepts, ZatcaRejects, CallFails, Answered, RecordOutcome, RecordUnexpectedError, SubmitCrashes
  <2>3. QED
    BY <2>1, <2>2
<1>3. CASE EditIdentity \/ Tick
  BY <1>3 DEF EditIdentity, Tick
<1>4. CASE UNCHANGED vars
  BY <1>4 DEF vars
<1>5. QED
  BY <1>1, <1>2, <1>3, <1>4 DEF Next

\* The counter values have no gap and no duplicate and every document carries
\* the hash of its predecessor, through every race and crash.
THEOREM ChainCorrect == Spec => []ChainIntact
<1>1. TypeOK /\ WellFormed /\ ChainInv /\ [Next]_vars => (TypeOK /\ WellFormed /\ ChainInv)'
  BY TypeStep, ChainStep
<1>2. ChainInv => ChainIntact
  BY DEF ChainInv
<1>3. QED
  BY <1>1, <1>2, TypeInit, ChainInit, PTL DEF Spec

-----------------------------------------------------------------------------
(* What ZATCA receives, and what is recorded of its answers.               *)

SendInv == SentInv /\ VerdictInv /\ OnlyChainedSent /\ NeverClaimsMore

LEMMA SendInit == Init => SendInv
BY DEF Init, SendInv, SentInv, VerdictInv, OnlyChainedSent, NeverClaimsMore, Prepared

LEMMA SendStep == ASSUME TypeOK, WellFormed, SendInv, [Next]_vars PROVE SendInv'
<1> USE DEF TypeOK, WellFormed, SendInv, SentInv, VerdictInv, OnlyChainedSent, NeverClaimsMore,
            Prepared, PGoto, SGoto, EndTx, Outcome, unitVars, rowVars, worldVars, prepVars, subVars, zatcaVars
<1>1. ASSUME NEW p \in Preparers, PrepareStep(p) \/ PrepareFails(p) PROVE SendInv'
  <2>1. CASE createSubmission(p)
    BY <2>1 DEF createSubmission
  <2>2. CASE ~createSubmission(p)
    BY <1>1, <2>2 DEF PrepareStep, PrepareFails, LookUp, ReadIdentity, Begin, lockAndReadPihPointer,
       claimNextIcv, DuplicateRace
  <2>3. QED
    BY <2>1, <2>2
<1>2. ASSUME NEW s \in Submitters, SubmitStep(s) \/ SubmitCrashes(s) PROVE SendInv'
  <2>1. CASE ReadSubmission(s) \/ Rebuild(s)
    BY <2>1 DEF ReadSubmission, Rebuild
  <2>2. CASE RecordMismatch(s)
    BY <2>2 DEF RecordMismatch
  <2>3. CASE claimSubmissionForSubmit(s)
    BY <2>3 DEF claimSubmissionForSubmit
  <2>4. CASE Sign(s)
    BY <2>4 DEF Sign
  <2>5. CASE ZatcaAccepts(s) \/ ZatcaRejects(s) \/ CallFails(s)
    BY <2>5 DEF ZatcaAccepts, ZatcaRejects, CallFails, Answered
  <2>6. CASE RecordOutcome(s)
    <3>1. /\ StateFor(verdict[s]) # "none"
          /\ StateFor(verdict[s]) = "accepted" => verdict[s] = "accepted"
      BY <2>6 DEF RecordOutcome, StateFor, Verdicts
    <3>2. QED
      BY <2>6, <3>1 DEF RecordOutcome
  <2>7. CASE RecordUnexpectedError(s) \/ SubmitCrashes(s)
    BY <2>7 DEF RecordUnexpectedError, SubmitCrashes
  <2>8. QED
    BY <1>2, <2>1, <2>2, <2>3, <2>4, <2>5, <2>6, <2>7 DEF SubmitStep
<1>3. CASE EditIdentity \/ Tick
  BY <1>3 DEF EditIdentity, Tick
<1>4. CASE UNCHANGED vars
  BY <1>4 DEF vars
<1>5. QED
  BY <1>1, <1>2, <1>3, <1>4 DEF Next

\* ZATCA only ever receives the document that the chain holds.
THEOREM OnlyChainedSentCorrect == Spec => []OnlyChainedSent
<1>1. TypeOK /\ WellFormed /\ SendInv /\ [Next]_vars => (TypeOK /\ WellFormed /\ SendInv)'
  BY TypeStep, SendStep
<1>2. SendInv => OnlyChainedSent
  BY DEF SendInv
<1>3. QED
  BY <1>1, <1>2, TypeInit, SendInit, PTL DEF Spec

\* A submission recorded as cleared or reported was.
THEOREM NeverClaimsMoreCorrect == Spec => []NeverClaimsMore
<1>1. TypeOK /\ WellFormed /\ SendInv /\ [Next]_vars => (TypeOK /\ WellFormed /\ SendInv)'
  BY TypeStep, SendStep
<1>2. SendInv => NeverClaimsMore
  BY DEF SendInv
<1>3. QED
  BY <1>1, <1>2, TypeInit, SendInit, PTL DEF Spec

-----------------------------------------------------------------------------
(* One call at a time, until a request finds a mismatch.                   *)

LEMMA GenesisIsNoDigest == GENESIS_PREVIOUS_INVOICE_HASH \notin Digests
BY DEF GENESIS_PREVIOUS_INVOICE_HASH, Digests

LEMMA OutcomeIsKnown ==
  ASSUME TypeOK, WellFormed, NEW s \in Submitters, spc[s] = "record"
  PROVE  StateFor(verdict[s]) \notin {"none", "submitting"}
BY DEF TypeOK, WellFormed, StateFor, Verdicts

\* The hash of a prepared document is never written again.
LEMMA HashKept ==
  ASSUME TypeOK, WellFormed, [Next]_vars, NEW i \in Prepared
  PROVE  hash'[i] = hash[i]
<1> USE DEF unitVars, rowVars, worldVars, prepVars, subVars, zatcaVars
<1>1. CASE \E p \in Preparers : createSubmission(p)
  BY <1>1 DEF createSubmission, TypeOK, WellFormed, Prepared
<1>2. CASE ~\E p \in Preparers : createSubmission(p)
  BY <1>2 DEF Next, vars, PrepareStep, PrepareFails, LookUp, ReadIdentity, Begin, lockAndReadPihPointer,
     claimNextIcv, DuplicateRace, SubmitStep, SubmitCrashes, ReadSubmission, Rebuild, RecordMismatch,
     claimSubmissionForSubmit, Sign, ZatcaAccepts, ZatcaRejects, CallFails, Answered, RecordOutcome,
     RecordUnexpectedError, EditIdentity, Tick
<1>3. QED
  BY <1>1, <1>2

\* A request chooses its document once and rebuilds it once.
LEMMA ChoiceKept ==
  ASSUME TypeOK, [Next]_vars, NEW s \in Submitters
  PROVE  /\ spc[s] # "idle" => about'[s] = about[s]
         /\ spc[s] \notin {"idle", "rebuild"} => doc'[s] = doc[s]
         /\ spc[s] = "idle" => doc'[s] = doc[s]
         /\ spc'[s] = "idle" => spc[s] = "idle" /\ about'[s] = about[s]
         /\ spc'[s] = "rebuild" => spc[s] \in {"idle", "rebuild"} /\ doc'[s] = doc[s]
<1> USE DEF TypeOK, SGoto, unitVars, rowVars, worldVars, prepVars, subVars, zatcaVars
<1>1. CASE \E t \in Submitters : SubmitStep(t) \/ SubmitCrashes(t)
  BY <1>1 DEF SubmitStep, SubmitCrashes, ReadSubmission, Rebuild, RecordMismatch, claimSubmissionForSubmit, Sign,
     ZatcaAccepts, ZatcaRejects, CallFails, Answered, RecordOutcome, RecordUnexpectedError
<1>2. CASE ~\E t \in Submitters : SubmitStep(t) \/ SubmitCrashes(t)
  BY <1>2 DEF Next, vars, PrepareStep, PrepareFails, LookUp, ReadIdentity, Begin, lockAndReadPihPointer,
     claimNextIcv, createSubmission, DuplicateRace, EditIdentity, Tick
<1>3. QED
  BY <1>1, <1>2

\* A document that was found to differ stays so.
LEMMA DifferGrows ==
  ASSUME TypeOK, WellFormed, RebuiltInv, [Next]_vars
  PROVE  FoundToDiffer \subseteq FoundToDiffer'
<1> SUFFICES ASSUME NEW i \in FoundToDiffer PROVE i \in FoundToDiffer'
  OBVIOUS
<1>1. PICK s \in Submitters : about[s] = i /\ doc[s] \in Digests \ {hash[i]}
  BY DEF FoundToDiffer
<1>2. spc[s] \notin {"idle", "rebuild"} /\ i \in Prepared
  BY <1>1, GenesisIsNoDigest DEF RebuiltInv
<1>3. about'[s] = i /\ doc'[s] = doc[s] /\ hash'[i] = hash[i]
  BY <1>1, <1>2, ChoiceKept, HashKept
<1>4. QED
  BY <1>1, <1>3 DEF FoundToDiffer

CallInv == RebuiltInv /\ ClaimInv /\ OneCallUntilMismatch

LEMMA CallInit == Init => CallInv
BY DEF Init, CallInv, RebuiltInv, ClaimInv, OneCallUntilMismatch, InFlight

LEMMA CallStep ==
  ASSUME TypeOK, WellFormed, CallInv, [Next]_vars
  PROVE  CallInv'
<1>0. FoundToDiffer \subseteq FoundToDiffer'
  BY DifferGrows DEF CallInv
<1> USE DEF TypeOK, WellFormed, CallInv, RebuiltInv, ClaimInv, OneCallUntilMismatch, InFlight, Prepared,
            PGoto, SGoto, EndTx, Outcome, unitVars, rowVars, worldVars, prepVars, subVars, zatcaVars
<1>1. ASSUME NEW p \in Preparers, PrepareStep(p) \/ PrepareFails(p) PROVE CallInv'
  <2>1. CASE createSubmission(p)
    BY <1>0, <2>1 DEF createSubmission
  <2>2. CASE ~createSubmission(p)
    BY <1>0, <1>1, <2>2 DEF PrepareStep, PrepareFails, LookUp, ReadIdentity, Begin, lockAndReadPihPointer,
       claimNextIcv, DuplicateRace
  <2>3. QED
    BY <2>1, <2>2
<1>2. ASSUME NEW s \in Submitters, SubmitStep(s) \/ SubmitCrashes(s) PROVE CallInv'
  <2>1. CASE ReadSubmission(s)
    BY <1>0, <2>1 DEF ReadSubmission
  <2>2. CASE Rebuild(s)
    <3> DEFINE d == Digest(uuid[about[s]], identity, createdAt[about[s]])
    <3>1. d \in Digests
      BY <2>2, DigestType DEF Rebuild
    <3>2. d # hash[about[s]] => about[s] \in FoundToDiffer'
      BY <2>2, <3>1 DEF Rebuild, FoundToDiffer
    <3> HIDE DEF d
    <3>3. QED
      BY <1>0, <2>2, <3>2 DEF Rebuild, d
  <2>3. CASE RecordMismatch(s)
    BY <1>0, <2>3 DEF RecordMismatch
  <2>4. CASE claimSubmissionForSubmit(s)
    BY <1>0, <2>4 DEF claimSubmissionForSubmit, SUBMISSION_TERMINAL_OR_INFLIGHT_STATES
  <2>5. CASE Sign(s)
    BY <1>0, <2>5 DEF Sign
  <2>6. CASE ZatcaAccepts(s) \/ ZatcaRejects(s) \/ CallFails(s)
    BY <1>0, <2>6 DEF ZatcaAccepts, ZatcaRejects, CallFails, Answered
  <2>7. CASE RecordOutcome(s)
    <3>1. StateFor(verdict[s]) # "none"
      BY <2>7, OutcomeIsKnown DEF RecordOutcome
    <3>2. QED
      BY <1>0, <2>7, <3>1 DEF RecordOutcome
  <2>8. CASE RecordUnexpectedError(s) \/ SubmitCrashes(s)
    BY <1>0, <2>8 DEF RecordUnexpectedError, SubmitCrashes
  <2>9. QED
    BY <1>2, <2>1, <2>2, <2>3, <2>4, <2>5, <2>6, <2>7, <2>8 DEF SubmitStep
<1>3. CASE EditIdentity \/ Tick
  BY <1>0, <1>3 DEF EditIdentity, Tick
<1>4. CASE UNCHANGED vars
  BY <1>0, <1>4 DEF vars
<1>5. QED
  BY <1>1, <1>2, <1>3, <1>4 DEF Next

\* Two requests are past the claim of one document only after one of them has
\* found that it rebuilds differently: the unconditioned write of that branch
\* is the one way to take a claim away, in every instance.
THEOREM OneCallUntilMismatchCorrect == Spec => []OneCallUntilMismatch
<1>1. TypeOK /\ WellFormed /\ CallInv /\ [Next]_vars => (TypeOK /\ WellFormed /\ CallInv)'
  BY TypeStep, CallStep
<1>2. CallInv => OneCallUntilMismatch
  BY DEF CallInv
<1>3. QED
  BY <1>1, <1>2, TypeInit, CallInit, PTL DEF Spec

-----------------------------------------------------------------------------
(* Without edits of the tax identity no mismatch takes a claim away.       *)

LEMMA SteadyInit == Init => SteadyInv
BY GenesisIsNoDigest DEF Init, SteadyInv, InFlight

LEMMA SteadyStep ==
  ASSUME MaxEdits = 0, TypeOK, WellFormed, RebuiltInv, SteadyInv, [Next]_vars
  PROVE  SteadyInv'
<1>0. identity' = identity
  BY ClockNat DEF Next, vars, TypeOK, PrepareStep, PrepareFails, LookUp, ReadIdentity, Begin,
     lockAndReadPihPointer, claimNextIcv, createSubmission, DuplicateRace, SubmitStep, SubmitCrashes,
     ReadSubmission, Rebuild, RecordMismatch, claimSubmissionForSubmit, Sign, ZatcaAccepts, ZatcaRejects,
     CallFails, Answered, RecordOutcome, RecordUnexpectedError, EditIdentity, Tick, worldVars
<1> USE <1>0, GenesisIsNoDigest
<1> USE DEF TypeOK, WellFormed, RebuiltInv, SteadyInv, InFlight, Prepared, PGoto, SGoto, EndTx, Outcome,
            unitVars, rowVars, worldVars, prepVars, subVars, zatcaVars
<1>1. ASSUME NEW p \in Preparers, PrepareStep(p) \/ PrepareFails(p) PROVE SteadyInv'
  <2>1. CASE createSubmission(p)
    <3>1. \A s \in Submitters : doc[s] \in Digests \/ spc[s] = "claim" \/ InFlight(s) => about[s] # invoice[p]
      BY <2>1 DEF createSubmission
    <3>2. QED
      BY <2>1, <3>1 DEF createSubmission
  <2>2. CASE ~createSubmission(p)
    BY <1>1, <2>2 DEF PrepareStep, PrepareFails, LookUp, ReadIdentity, Begin, lockAndReadPihPointer,
       claimNextIcv, DuplicateRace
  <2>3. QED
    BY <2>1, <2>2
<1>2. ASSUME NEW s \in Submitters, SubmitStep(s) \/ SubmitCrashes(s) PROVE SteadyInv'
  <2>1. CASE ReadSubmission(s)
    BY <2>1 DEF ReadSubmission
  <2>2. CASE Rebuild(s)
    <3>1. Digest(uuid[about[s]], identity, createdAt[about[s]]) \in Digests
      BY <2>2, DigestType DEF Rebuild
    <3>2. QED
      BY <2>2, <3>1 DEF Rebuild
  <2>3. CASE ~ReadSubmission(s) /\ ~Rebuild(s)
    BY <1>2, <2>3 DEF SubmitStep, SubmitCrashes, RecordMismatch, claimSubmissionForSubmit, Sign, ZatcaAccepts,
       ZatcaRejects, CallFails, Answered, RecordOutcome, RecordUnexpectedError
  <2>4. QED
    BY <2>1, <2>2, <2>3
<1>3. CASE EditIdentity \/ Tick
  BY <1>3 DEF EditIdentity, Tick
<1>4. CASE UNCHANGED vars
  BY <1>4 DEF vars
<1>5. QED
  BY <1>1, <1>2, <1>3, <1>4 DEF Next

\* A document in flight is the chained one, and every other request rebuilds
\* the same document.
LEMMA SteadyMeansNoMismatch ==
  ASSUME SteadyInv, NEW s \in Submitters, InFlight(s)
  PROVE  about[s] \notin FoundToDiffer
BY DEF SteadyInv, FoundToDiffer

\* While the tax identity is not edited a document is never sent by two
\* requests at once, whatever the clocks do: a document whose issueTime and
\* created_at are in two seconds differs for every request, and none claims it.
THEOREM OneCallInFlightCorrect ==
  ASSUME MaxEdits = 0
  PROVE  Spec => []OneCallInFlight
<1> DEFINE IInv == TypeOK /\ WellFormed /\ CallInv /\ SteadyInv
<1>1. Init => IInv
  BY TypeInit, CallInit, SteadyInit
<1>2. IInv /\ [Next]_vars => IInv'
  BY TypeStep, CallStep, SteadyStep DEF CallInv
<1>3. IInv => OneCallInFlight
  BY SteadyMeansNoMismatch DEF CallInv, OneCallInFlight, OneCallUntilMismatch
<1> HIDE DEF IInv
<1>4. QED
  BY <1>1, <1>2, <1>3, PTL DEF Spec

-----------------------------------------------------------------------------
(* A document that nobody edited is rebuilt as it was.                     *)

LEMMA UneditedInit == Init => UneditedInv
BY NoneAssumption DEF Init, UneditedInv, RebuildMatchesInOneSecond, Prepared

LEMMA UneditedStep ==
  ASSUME TypeOK, WellFormed, UneditedInv, [Next]_vars
  PROVE  UneditedInv'
<1> USE ClockNat, NoneAssumption
<1> USE DEF TypeOK, WellFormed, UneditedInv, RebuildMatchesInOneSecond, Prepared, PGoto, SGoto, EndTx,
            Outcome, unitVars, rowVars, worldVars, prepVars, subVars, zatcaVars
<1>1. ASSUME NEW p \in Preparers, PrepareStep(p) \/ PrepareFails(p) PROVE UneditedInv'
  <2>1. CASE ReadIdentity(p)
    BY <2>1 DEF ReadIdentity
  <2>2. CASE createSubmission(p)
    <3>1. /\ documentHash(p) = Digest(p, seenId[p], documentHash(p).time)
          /\ edits = 0 => seenId[p] = identity
      BY <2>2 DEF createSubmission, documentHash, Digest
    <3>2. \A s \in Submitters : spc[s] = "mismatch" => about[s] # invoice[p]
      BY <2>2 DEF createSubmission
    <3>3. QED
      BY <2>2, <3>1, <3>2 DEF createSubmission
  <2>3. CASE ~ReadIdentity(p) /\ ~createSubmission(p)
    BY <1>1, <2>3 DEF PrepareStep, PrepareFails, LookUp, Begin, lockAndReadPihPointer, claimNextIcv,
       DuplicateRace
  <2>4. QED
    BY <2>1, <2>2, <2>3
<1>2. ASSUME NEW s \in Submitters, SubmitStep(s) \/ SubmitCrashes(s) PROVE UneditedInv'
  <2>1. CASE ReadSubmission(s)
    BY <2>1 DEF ReadSubmission
  <2>2. CASE Rebuild(s)
    BY <2>2 DEF Rebuild
  <2>3. CASE RecordOutcome(s)
    <3>1. StateFor(verdict[s]) # "none"
      BY <2>3, OutcomeIsKnown DEF RecordOutcome
    <3>2. QED
      BY <2>3, <3>1 DEF RecordOutcome
  <2>4. CASE ~ReadSubmission(s) /\ ~Rebuild(s) /\ ~RecordOutcome(s)
    BY <1>2, <2>4 DEF SubmitStep, SubmitCrashes, RecordMismatch, claimSubmissionForSubmit, Sign, ZatcaAccepts,
       ZatcaRejects, CallFails, Answered, RecordUnexpectedError
  <2>5. QED
    BY <2>1, <2>2, <2>3, <2>4
<1>3. CASE EditIdentity \/ Tick
  BY <1>3 DEF EditIdentity, Tick
<1>4. CASE UNCHANGED vars
  BY <1>4 DEF vars
<1>5. QED
  BY <1>1, <1>2, <1>3, <1>4 DEF Next

\* As long as nobody has edited the tax identity, the submit route finds a
\* document to differ only when its issueTime and its created_at were taken in
\* two seconds.
THEOREM RebuildMatchesInOneSecondCorrect == Spec => []RebuildMatchesInOneSecond
<1> DEFINE IInv == TypeOK /\ WellFormed /\ UneditedInv
<1>1. Init => IInv
  BY TypeInit, UneditedInit
<1>2. IInv /\ [Next]_vars => IInv'
  BY TypeStep, UneditedStep
<1>3. IInv => RebuildMatchesInOneSecond
  BY ClockNat DEF UneditedInv, RebuildMatchesInOneSecond
<1> HIDE DEF IInv
<1>4. QED
  BY <1>1, <1>2, <1>3, PTL DEF Spec

\* With one clock, or a single second, a document that nobody edited is always
\* rebuilt as it was chained.
THEOREM RebuildMatchesCorrect ==
  ASSUME MaxClock = 0
  PROVE  Spec => []RebuildMatches
<1> DEFINE IInv == TypeOK /\ WellFormed /\ UneditedInv
<1>1. Init => IInv
  BY TypeInit, UneditedInit
<1>2. IInv /\ [Next]_vars => IInv'
  BY TypeStep, UneditedStep
<1>3. IInv => RebuildMatches
  <2> SUFFICES ASSUME IInv, edits = 0, NEW s \in Submitters, spc[s] = "mismatch"
               PROVE  FALSE
    BY DEF RebuildMatches
  <2> DEFINE i == about[s]
  <2>1. i \in Prepared
    BY DEF WellFormed
  <2>2. hash[i] = Digest(uuid[i], identity, hash[i].time)
    BY <2>1 DEF UneditedInv
  <2>3. hash[i] \in Digests
    <3>1. "uuid" \in DOMAIN hash[i]
      BY <2>2 DEF Digest
    <3>2. "uuid" \notin DOMAIN GENESIS_PREVIOUS_INVOICE_HASH
      BY DEF GENESIS_PREVIOUS_INVOICE_HASH
    <3>3. QED
      BY <2>1, <3>1, <3>2 DEF TypeOK, Pointers, Prepared
  <2>4. hash[i].time = 0 /\ createdAt[i] = 0
    BY <2>1, <2>3 DEF TypeOK, Digests, Times, Prepared
  <2>5. QED
    BY <2>4 DEF UneditedInv, RebuildMatchesInOneSecond
<1> HIDE DEF IInv
<1>4. QED
  BY <1>1, <1>2, <1>3, PTL DEF Spec

-----------------------------------------------------------------------------
(* Accepted once.                                                          *)

\* Every step but a lost answer of ZATCA and an outcome that is not written.
LuckyNext ==
  \/ \E p \in Preparers : PrepareStep(p) \/ PrepareFails(p)
  \/ \E s \in Submitters : (SubmitStep(s) /\ ~Unlucky(s)) \/ SubmitCrashes(s)
  \/ EditIdentity \/ Tick

LEMMA AcceptedInit == Init => AcceptedInv
BY DEF Init, AcceptedInv

LEMMA AcceptedStep ==
  ASSUME TypeOK, WellFormed, CallInv, AcceptedInv, [LuckyNext]_vars
  PROVE  AcceptedInv'
<1>0. FoundToDiffer \subseteq FoundToDiffer'
  BY DifferGrows DEF CallInv, LuckyNext, Next
<1> USE DEF TypeOK, WellFormed, CallInv, ClaimInv, OneCallUntilMismatch, InFlight, Prepared, AcceptedInv,
            PGoto, SGoto, EndTx, Outcome, unitVars, rowVars, worldVars, prepVars, subVars, zatcaVars
<1>1. ASSUME NEW p \in Preparers, PrepareStep(p) \/ PrepareFails(p) PROVE AcceptedInv'
  <2>1. CASE createSubmission(p)
    BY <1>0, <2>1 DEF createSubmission
  <2>2. CASE ~createSubmission(p)
    BY <1>0, <1>1, <2>2 DEF PrepareStep, PrepareFails, LookUp, ReadIdentity, Begin, lockAndReadPihPointer,
       claimNextIcv, DuplicateRace
  <2>3. QED
    BY <2>1, <2>2
<1>2. ASSUME NEW s \in Submitters, SubmitStep(s), ~Unlucky(s) PROVE AcceptedInv'
  <2>1. CASE ReadSubmission(s) \/ Rebuild(s)
    BY <1>0, <2>1 DEF ReadSubmission, Rebuild
  <2>2. CASE RecordMismatch(s)
    BY <1>0, <2>2 DEF RecordMismatch
  <2>3. CASE claimSubmissionForSubmit(s)
    BY <1>0, <2>3 DEF claimSubmissionForSubmit, SUBMISSION_TERMINAL_OR_INFLIGHT_STATES
  <2>4. CASE Sign(s)
    BY <1>0, <2>4 DEF Sign
  <2>5. CASE ZatcaAccepts(s)
    BY <1>0, <1>2, <2>5 DEF ZatcaAccepts, Answered, Unlucky
  <2>6. CASE ZatcaRejects(s) \/ CallFails(s)
    BY <1>0, <2>6 DEF ZatcaRejects, CallFails, Answered
  <2>7. CASE RecordOutcome(s)
    BY <1>0, <1>2, <2>7, OutcomeIsKnown DEF RecordOutcome, Unlucky, StateFor
  <2>8. CASE RecordUnexpectedError(s)
    BY <1>0, <2>8 DEF RecordUnexpectedError
  <2>9. QED
    BY <1>2, <2>1, <2>2, <2>3, <2>4, <2>5, <2>6, <2>7, <2>8 DEF SubmitStep
<1>3. ASSUME NEW s \in Submitters, SubmitCrashes(s) PROVE AcceptedInv'
  BY <1>0, <1>3 DEF SubmitCrashes
<1>4. CASE EditIdentity \/ Tick
  BY <1>0, <1>4 DEF EditIdentity, Tick
<1>5. CASE UNCHANGED vars
  BY <1>0, <1>5 DEF vars
<1>6. QED
  BY <1>1, <1>2, <1>3, <1>4, <1>5 DEF LuckyNext

LEMMA AcceptedMeansOnce == AcceptedInv => AcceptedOnceUntilMismatch
<1> SUFFICES ASSUME AcceptedInv, NEW i \in Invoices \ FoundToDiffer PROVE accepted[i] <= 1
  BY DEF AcceptedOnceUntilMismatch
<1>1. accepted[i] = 0 \/ accepted[i] = 1
  BY DEF AcceptedInv
<1>2. QED
  BY <1>1

\* Crashes alone, of any number of requests, do not make ZATCA accept a
\* document twice: for that an answer has to be lost, or an outcome not
\* written, or a rebuilt document to differ.
THEOREM AcceptedOnceCorrect == Init /\ [][LuckyNext]_vars => []AcceptedOnceUntilMismatch
<1> DEFINE IInv == TypeOK /\ WellFormed /\ CallInv /\ AcceptedInv
<1>1. Init => IInv
  BY TypeInit, CallInit, AcceptedInit
<1>2. IInv /\ [LuckyNext]_vars => IInv'
  <2>1. [LuckyNext]_vars => [Next]_vars
    BY DEF LuckyNext, Next
  <2>2. QED
    BY <2>1, TypeStep, CallStep, AcceptedStep
<1> HIDE DEF IInv
<1>3. IInv => AcceptedOnceUntilMismatch
  BY AcceptedMeansOnce DEF IInv
<1>4. QED
  BY <1>1, <1>2, <1>3, PTL

\* The calm behaviours of the run, for any number of submit requests.
THEOREM AcceptedOnceWhenCalmCorrect == CalmSpec => []AcceptedOnceWhenCalm
<1> DEFINE IInv == TypeOK /\ WellFormed /\ CallInv /\ (calm => AcceptedInv)
<1>1. CalmInit => IInv
  BY TypeInit, CallInit, AcceptedInit DEF CalmInit
<1>2. IInv /\ [CalmNext]_<<vars, calm>> => IInv'
  <2> SUFFICES ASSUME IInv, [CalmNext]_<<vars, calm>> PROVE IInv'
    OBVIOUS
  <2>1. [Next]_vars /\ calm' = calm /\ (calm => [LuckyNext]_vars)
    BY DEF CalmNext, Next, LuckyNext
  <2>2. TypeOK' /\ WellFormed' /\ CallInv'
    BY <2>1, TypeStep, CallStep
  <2>3. calm => AcceptedInv'
    BY <2>1, AcceptedStep
  <2>4. QED
    BY <2>1, <2>2, <2>3
<1>3. IInv => AcceptedOnceWhenCalm
  BY AcceptedMeansOnce DEF AcceptedOnceWhenCalm
<1> HIDE DEF IInv
<1>4. QED
  BY <1>1, <1>2, <1>3, PTL DEF CalmSpec

-----------------------------------------------------------------------------
(* The rows implement the append-only chain.                               *)

ChainOf == [n \in 1..counter |-> [prev |-> pih[AtIcv(n)], hash |-> hash[AtIcv(n)]]]

LEMMA AtIcvCorrect ==
  ASSUME TypeOK, ChainIntact, NEW i \in Prepared
  PROVE  AtIcv(icv[i]) = i
BY DEF AtIcv, ChainIntact

LEMMA ChainOfSeq ==
  ASSUME TypeOK, ChainIntact
  PROVE  ChainOf \in Seq([prev : Pointers, hash : Pointers]) /\ Len(ChainOf) = counter
<1>1. ASSUME NEW n \in 1..counter
      PROVE  [prev |-> pih[AtIcv(n)], hash |-> hash[AtIcv(n)]] \in [prev : Pointers, hash : Pointers]
  <2>1. AtIcv(n) \in Invoices
    BY DEF AtIcv, ChainIntact, Prepared
  <2>2. QED
    BY <2>1 DEF TypeOK
<1>2. counter \in Nat
  BY DEF TypeOK
<1>3. QED
  BY <1>1, <1>2 DEF ChainOf

\* A step that leaves the rows' place in the chain alone leaves the chain.
LEMMA ChainOfSteady ==
  ASSUME UNCHANGED <<counter, icv, pih, hash>>, Prepared' = Prepared
  PROVE  UNCHANGED ChainOf
BY DEF ChainOf, AtIcv

LEMMA RefinementStep ==
  ASSUME TypeOK, WellFormed, ChainInv, [Next]_vars
  PROVE  Chain!Next \/ UNCHANGED ChainOf
<1> USE DEF PGoto, SGoto, EndTx, Outcome, unitVars, rowVars, worldVars, prepVars, subVars, zatcaVars
<1>1. ASSUME NEW p \in Preparers, createSubmission(p) PROVE Chain!Next
  <2> DEFINE i == invoice[p]
             d == documentHash(p)
             l == [prev |-> prev[p], hash |-> d]
  <2>1. /\ i \in Invoices /\ i \notin Prepared /\ Prepared' = Prepared \cup {i}
        /\ number[p] = counter + 1 /\ prev[p] = pointer /\ d \in Digests
    <3>1. d \in Digests
      BY <1>1, DigestType DEF createSubmission, documentHash, WellFormed, TypeOK
    <3>2. i \in Invoices /\ i \notin Prepared
      BY <1>1 DEF createSubmission, WellFormed, Prepared
    <3>3. number[p] = counter + 1 /\ prev[p] = pointer
      BY <1>1 DEF createSubmission, ChainInv, LockInv
    <3>4. Prepared' = Prepared \cup {i}
      BY <1>1, <3>2 DEF createSubmission, Prepared, TypeOK
    <3>5. QED
      BY <3>1, <3>2, <3>3, <3>4
  <2>2. /\ counter' = counter + 1 /\ icv' = [icv EXCEPT ![i] = counter + 1]
        /\ pih' = [pih EXCEPT ![i] = pointer] /\ hash' = [hash EXCEPT ![i] = d]
    BY <1>1, <2>1 DEF createSubmission
  <2>3. counter \in Nat /\ ChainIntact /\ ChainIntact' /\ TypeOK'
    BY ChainStep, TypeStep DEF ChainInv, TypeOK
  <2>4. \A n : n = counter + 1 => AtIcv(n)' = i
    BY <2>1, <2>2, <2>3 DEF AtIcv, ChainIntact, TypeOK
  <2>5. ASSUME NEW n \in 1..counter
        PROVE  AtIcv(n)' = AtIcv(n) /\ AtIcv(n) \in Invoices /\ AtIcv(n) # i
    <3>1. PICK j \in Prepared : icv[j] = n
      BY <2>3 DEF ChainIntact
    <3>2. j # i /\ j \in Invoices /\ j \in Prepared' /\ icv'[j] = n
      BY <2>1, <2>2, <3>1 DEF TypeOK, Prepared
    <3>3. AtIcv(n) = j
      BY <2>3, <3>1 DEF AtIcv, ChainIntact
    <3>4. AtIcv(n)' = j
      BY <2>3, <3>2 DEF AtIcv, ChainIntact
    <3>5. QED
      BY <3>2, <3>3, <3>4
  <2>6. ChainOf' = Append(ChainOf, l)
    <3>1. ChainOf \in Seq([prev : Pointers, hash : Pointers]) /\ Len(ChainOf) = counter
      BY <2>3, ChainOfSeq
    <3>2. ChainOf' = [n \in 1..(counter + 1) |-> [prev |-> pih'[AtIcv(n)'], hash |-> hash'[AtIcv(n)']]]
      BY <2>2 DEF ChainOf
    <3>3. ASSUME NEW n \in 1..counter
          PROVE  [prev |-> pih'[AtIcv(n)'], hash |-> hash'[AtIcv(n)']] = ChainOf[n]
      BY <2>2, <2>5 DEF ChainOf, TypeOK
    <3>4. \A n : n = counter + 1 => [prev |-> pih'[AtIcv(n)'], hash |-> hash'[AtIcv(n)']] = l
      BY <2>1, <2>2, <2>4 DEF TypeOK
    <3>5. Append(ChainOf, l) = [n \in 1..(counter + 1) |-> IF n = counter + 1 THEN l ELSE ChainOf[n]]
      BY <3>1
    <3> DEFINE link(n) == [prev |-> pih'[AtIcv(n)'], hash |-> hash'[AtIcv(n)']]
               appended(n) == IF n = counter + 1 THEN l ELSE ChainOf[n]
    <3>6. \A n \in 1..(counter + 1) : link(n) = appended(n)
      <4> TAKE n \in 1..(counter + 1)
      <4>1. CASE n = counter + 1
        BY <3>4, <4>1
      <4>2. CASE n # counter + 1
        <5>1. n \in 1..counter
          BY <2>3, <4>2
        <5>2. QED
          BY <3>3, <4>2, <5>1
      <4>3. QED
        BY <4>1, <4>2
    <3>7. ChainOf' = [n \in 1..(counter + 1) |-> link(n)]
      BY <3>2
    <3>8. Append(ChainOf, l) = [n \in 1..(counter + 1) |-> appended(n)]
      BY <3>5
    <3> HIDE DEF link, appended
    <3>9. QED
      BY <3>6, <3>7, <3>8
  <2>7. Chain!LastHash = pointer
    <3>1. CASE counter = 0
      <4>1. ChainOf = <<>>
        BY <3>1 DEF ChainOf
      <4>2. QED
        BY <3>1, <4>1 DEF Chain!LastHash, ChainOf, ChainInv, GenesisInv
    <3>2. CASE counter # 0
      <4>1. Len(ChainOf) = counter /\ ChainOf # <<>> /\ counter \in 1..counter
        BY <3>2, <2>3, ChainOfSeq
      <4>2. PICK j \in Prepared : icv[j] = counter
        BY <2>3, <3>2 DEF ChainIntact
      <4>3. AtIcv(counter) = j /\ hash[j] = pointer
        BY <2>3, <4>2 DEF AtIcv, ChainIntact
      <4>4. ChainOf[counter].hash = pointer
        BY <4>1, <4>3 DEF ChainOf
      <4>5. QED
        BY <4>1, <4>4 DEF Chain!LastHash, ChainOf
    <3>3. QED
      BY <3>1, <3>2
  <2>8. Chain!Link(d)
    BY <2>1, <2>6, <2>7 DEF Chain!Link, ChainOf
  <2>9. QED
    BY <2>1, <2>8 DEF Chain!Next
<1>2. ASSUME NEW p \in Preparers, PrepareStep(p) \/ PrepareFails(p), ~createSubmission(p)
      PROVE  UNCHANGED ChainOf
  <2>1. UNCHANGED <<counter, icv, pih, hash, state>>
    BY <1>2 DEF PrepareStep, PrepareFails, LookUp, ReadIdentity, Begin, lockAndReadPihPointer,
       claimNextIcv, DuplicateRace
  <2>2. QED
    BY <2>1, ChainOfSteady DEF Prepared
<1>3. ASSUME NEW s \in Submitters, SubmitStep(s) \/ SubmitCrashes(s) PROVE UNCHANGED ChainOf
  <2>1. UNCHANGED <<counter, icv, pih, hash>>
    BY <1>3 DEF SubmitStep, ReadSubmission, Rebuild, RecordMismatch, claimSubmissionForSubmit, Sign,
       ZatcaAccepts, ZatcaRejects, CallFails, Answered, RecordOutcome, RecordUnexpectedError, SubmitCrashes
  <2>2. Prepared' = Prepared
    <3>1. CASE RecordOutcome(s)
      <4>1. StateFor(verdict[s]) # "none"
        BY <3>1 DEF RecordOutcome, StateFor, Verdicts, WellFormed, TypeOK
      <4>2. QED
        BY <3>1, <4>1 DEF RecordOutcome, Prepared, WellFormed, TypeOK
    <3>2. CASE ~RecordOutcome(s)
      BY <1>3, <3>2 DEF SubmitStep, ReadSubmission, Rebuild, RecordMismatch, claimSubmissionForSubmit, Sign,
         ZatcaAccepts, ZatcaRejects, CallFails, Answered, RecordUnexpectedError, SubmitCrashes, Prepared,
         WellFormed, TypeOK
    <3>3. QED
      BY <3>1, <3>2
  <2>3. QED
    BY <2>1, <2>2, ChainOfSteady
<1>4. CASE EditIdentity \/ Tick \/ UNCHANGED vars
  <2>1. UNCHANGED <<counter, icv, pih, hash, state>>
    BY <1>4 DEF EditIdentity, Tick, vars
  <2>2. QED
    BY <2>1, ChainOfSteady DEF Prepared
<1>5. QED
  BY <1>1, <1>2, <1>3, <1>4 DEF Next

\* The rows of zatca_submissions implement the append-only chain.
THEOREM ImplementsChainCorrect == Spec => ImplementsChain
<1>1. Init => Chain!Init
  BY DEF Init, Chain!Init
<1>2. TypeOK /\ WellFormed /\ ChainInv /\ [Next]_vars => (TypeOK /\ WellFormed /\ ChainInv)'
  BY TypeStep, ChainStep
<1>3. TypeOK /\ WellFormed /\ ChainInv /\ [Next]_vars => [Chain!Next]_ChainOf
  BY RefinementStep
<1>4. QED
  BY <1>1, <1>2, <1>3, TypeInit, ChainInit, PTL DEF Spec, ImplementsChain, Chain!Spec, ChainOf

=============================================================================
