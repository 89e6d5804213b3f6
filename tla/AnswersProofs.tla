--------------------------- MODULE AnswersProofs ---------------------------
(***************************************************************************)
(* Theorems about Idempotency, for every number of requests, every         *)
(* assignment of bodies and every timing that satisfies TimingAssumption,  *)
(* and about SalesDocuments, for any number of documents and requests and  *)
(* any size of the pool.                                                   *)
(***************************************************************************)
EXTENDS Idempotency, SalesDocuments, TLAPS

-----------------------------------------------------------------------------
(* One key.                                                                *)

LEMMA Numbers ==
  /\ LeaseTicks \in Nat /\ HeartbeatTicks \in Nat \ {0} /\ MaxMissed \in Nat
  /\ ClaimAttempts \in Nat \ {0} /\ PollAttempts \in Nat \ {0}
BY AttemptsAssumption, TimingAssumption

LEMMA AnswerType ==
  ASSUME NEW kind \in Promise!Kinds, NEW doc \in Requests \cup {None}
  PROVE  Answer(kind, doc) \in Promise!Answers
BY DEF Answer, Promise!Answers

LEMMA TypeInit == Init => TypeOK /\ StealInv
BY Numbers, AnswerType DEF Init, StealInv, TypeOK, NoAnswer, LeaderPcs, Promise!Kinds

LEMMA TypeStep == ASSUME TypeOK, StealInv, [Next]_vars PROVE TypeOK'
<1> USE Numbers
<1> USE DEF TypeOK, LeaderPcs, At, Goto, Finish, LeaveLoop, ClearHeartbeat, StartLeading,
            InsertRow, DeleteRow, CompleteRow, rowVars, loopVars, timerVars
<1>1. CASE Tick
  <2>1. beat' \in [Requests -> 0..HeartbeatTicks]
    BY <1>1 DEF Tick, HeartbeatDue
  <2>2. QED
    BY <1>1, <2>1 DEF Tick
<1>2. ASSUME NEW p \in Requests, Arrive(p) PROVE TypeOK'
  BY <1>2 DEF Arrive
<1>3. ASSUME NEW p \in Requests, Step(p) PROVE TypeOK'
  <2>0. /\ Answer("failed", None) \in Promise!Answers
        /\ Answer("conflict", None) \in Promise!Answers
        /\ Answer("created", p) \in Promise!Answers
        /\ Answer("replayed", response) \in Promise!Answers
    BY AnswerType DEF Promise!Kinds
  <2>1. CASE Claim(p)
    BY <2>1 DEF Claim
  <2>2. CASE PollCompleted(p)
    BY <2>0, <2>2 DEF PollCompleted
  <2>3. CASE PollReleased(p) \/ PollWindowOver(p)
    BY <2>0, <2>3 DEF PollReleased, PollWindowOver, NextAttempt
  <2>4. CASE PollExpired(p)
    BY <2>4 DEF PollExpired
  <2>5. CASE PollPending(p)
    BY <2>5 DEF PollPending
  <2>6. CASE Steal(p)
    <3>1. polls' \in [Requests -> 0..PollAttempts]
      BY <2>6 DEF Steal, StealInv
    <3>2. QED
      BY <2>6, <3>1 DEF Steal
  <2>7. CASE HandlerCommits(p) \/ HandlerFails(p)
    BY <2>7 DEF HandlerCommits, HandlerFails
  <2>8. CASE Complete(p) \/ CompleteErrs(p)
    BY <2>0, <2>8 DEF Complete, CompleteErrs
  <2>9. CASE Release(p) \/ ReleaseErrs(p)
    BY <2>0, <2>9 DEF Release, ReleaseErrs
  <2>10. QED
    BY <1>3, <2>1, <2>2, <2>3, <2>4, <2>5, <2>6, <2>7, <2>8, <2>9 DEF Step
<1>4. ASSUME NEW p \in Requests, Timers(p) PROVE TypeOK'
  BY <1>4 DEF Timers, Renew, MissRenewal, Freeze, Thaw, Crash
<1>5. CASE UNCHANGED vars
  BY <1>5 DEF vars
<1>6. QED
  BY <1>1, <1>2, <1>3, <1>4, <1>5 DEF Next

LEMMA StealStep == ASSUME TypeOK, StealInv, [Next]_vars PROVE StealInv'
<1> USE Numbers
<1> USE DEF TypeOK, StealInv, At, Goto, Finish, LeaveLoop, StartLeading, rowVars, loopVars, timerVars
<1>1. CASE Tick
  BY <1>1 DEF Tick
<1>2. ASSUME NEW p \in Requests, Arrive(p) PROVE StealInv'
  BY <1>2 DEF Arrive
<1>3. ASSUME NEW p \in Requests, Step(p) PROVE StealInv'
  <2>1. CASE Claim(p) \/ Steal(p)
    BY <2>1 DEF Claim, Steal
  <2>2. CASE PollCompleted(p) \/ PollExpired(p) \/ PollPending(p)
    BY <2>2 DEF PollCompleted, PollExpired, PollPending
  <2>3. CASE PollReleased(p) \/ PollWindowOver(p)
    BY <2>3 DEF PollReleased, PollWindowOver, NextAttempt
  <2>4. CASE HandlerCommits(p) \/ HandlerFails(p) \/ Complete(p) \/ CompleteErrs(p)
    BY <2>4 DEF HandlerCommits, HandlerFails, Complete, CompleteErrs
  <2>5. CASE Release(p) \/ ReleaseErrs(p)
    BY <2>5 DEF Release, ReleaseErrs
  <2>6. QED
    BY <1>3, <2>1, <2>2, <2>3, <2>4, <2>5 DEF Step
<1>4. ASSUME NEW p \in Requests, Timers(p) PROVE StealInv'
  BY <1>4 DEF Timers, Renew, MissRenewal, Freeze, Thaw, Crash
<1>5. CASE UNCHANGED vars
  BY <1>5 DEF vars
<1>6. QED
  BY <1>1, <1>2, <1>3, <1>4, <1>5 DEF Next

\* The variables keep their types, for every instance.
THEOREM TypeCorrect == Spec => []TypeOK
<1>1. TypeOK /\ StealInv /\ [Next]_vars => (TypeOK /\ StealInv)'
  BY TypeStep, StealStep
<1>2. QED
  BY <1>1, TypeInit, PTL DEF Spec

-----------------------------------------------------------------------------
(* A recorded success is permanent.                                        *)

LEMMA RecordStep ==
  ASSUME "ack" \notin Faults, TypeOK, RecordInv, [Next]_vars
  PROVE  RecordInv'
<1> USE NoneAssumption
<1> USE DEF TypeOK, At, Goto, Finish, LeaveLoop, ClearHeartbeat, StartLeading,
            InsertRow, DeleteRow, CompleteRow, rowVars, loopVars, timerVars,
            RecordInv, RowConsistent, RequestsConsistent, SuccessIsRecorded,
            Exists, Owns, Expired, NoAnswer, Answer, LeaderPcs
<1>1. CASE Tick
  BY <1>1 DEF Tick
<1>2. ASSUME NEW p \in Requests, Arrive(p) PROVE RecordInv'
  BY <1>2 DEF Arrive
<1>3. ASSUME NEW p \in Requests, Step(p) PROVE RecordInv'
  <2>1. CASE Claim(p)
    BY <2>1 DEF Claim
  <2>2. CASE PollCompleted(p)
    BY <2>2 DEF PollCompleted
  <2>3. CASE PollReleased(p) \/ PollWindowOver(p)
    BY <2>3 DEF PollReleased, PollWindowOver, NextAttempt
  <2>4. CASE PollExpired(p) \/ PollPending(p)
    BY <2>4 DEF PollExpired, PollPending
  <2>5. CASE Steal(p)
    BY <2>5 DEF Steal
  <2>6. CASE HandlerCommits(p) \/ HandlerFails(p)
    BY <2>6 DEF HandlerCommits, HandlerFails
  <2>7. CASE Complete(p)
    BY <2>7 DEF Complete
  <2>8. CASE CompleteErrs(p)
    BY <2>8 DEF CompleteErrs
  <2>9. CASE Release(p) \/ ReleaseErrs(p)
    BY <2>9 DEF Release, ReleaseErrs
  <2>10. QED
    BY <1>3, <2>1, <2>2, <2>3, <2>4, <2>5, <2>6, <2>7, <2>8, <2>9 DEF Step
<1>4. ASSUME NEW p \in Requests, Timers(p) PROVE RecordInv'
  BY <1>4 DEF Timers, Renew, MissRenewal, Freeze, Thaw, Crash, HeartbeatDue, Leading, InFlight
<1>5. CASE UNCHANGED vars
  BY <1>5 DEF vars
<1>6. QED
  BY <1>1, <1>2, <1>3, <1>4, <1>5 DEF Next

LEMMA RecordInit == Init => RecordInv
BY NoneAssumption DEF Init, RecordInv, RowConsistent, RequestsConsistent, SuccessIsRecorded,
   Exists, NoAnswer, Answer

\* Unless the acknowledgement of the completion UPDATE itself can be lost,
\* every caller told of a success was told of the one document on record.
THEOREM SuccessRecorded ==
  ASSUME "ack" \notin Faults
  PROVE  Spec => []SuccessIsRecorded
<1>1. Init => RecordInv
  BY RecordInit
<1>2. TypeOK /\ RecordInv /\ [Next]_vars => RecordInv'
  BY RecordStep
<1>3. RecordInv => SuccessIsRecorded
  BY DEF RecordInv
<1>4. QED
  BY <1>1, <1>2, <1>3, TypeCorrect, PTL DEF Spec

\* So two callers that were told of a success were told of the same document.
THEOREM SuccessesAgreeCorrect ==
  ASSUME "ack" \notin Faults
  PROVE  Spec => []SuccessesAgree
<1>1. SuccessIsRecorded => SuccessesAgree
  BY DEF SuccessIsRecorded, SuccessesAgree
<1>2. QED
  BY <1>1, SuccessRecorded, PTL

\* Under the same condition the response on record came from the body whose
\* fingerprint is compared with that of later callers.
THEOREM FingerprintCorrect ==
  ASSUME "ack" \notin Faults
  PROVE  Spec => []FingerprintMatchesResponse
<1>1. Init => RecordInv
  BY RecordInit
<1>2. TypeOK /\ RecordInv /\ [Next]_vars => RecordInv'
  BY RecordStep
<1>3. RecordInv => FingerprintMatchesResponse
  BY DEF RecordInv, RowConsistent, FingerprintMatchesResponse, Exists
<1>4. QED
  BY <1>1, <1>2, <1>3, TypeCorrect, PTL DEF Spec

-----------------------------------------------------------------------------
(* The protocol implements IdempotentOperation.                            *)

LEMMA PromiseInit == Init => Promise!AbsInit
BY DEF Init, Promise!AbsInit, NoAnswer, Answer, Promise!NoAnswer, Promise!Answer

LEMMA PromiseStep ==
  ASSUME "ack" \notin Faults, TypeOK, RecordInv, [Next]_vars
  PROVE  [Promise!AbsNext]_(Promise!absVars)
<1> USE NoneAssumption
<1> USE DEF TypeOK, At, Goto, Finish, LeaveLoop, ClearHeartbeat, StartLeading,
            InsertRow, DeleteRow, CompleteRow, rowVars, loopVars, timerVars,
            RecordInv, RowConsistent, RequestsConsistent, Exists, Owns, Expired,
            NoAnswer, Answer, LeaderPcs, Promise!absVars, Promise!NoAnswer, Promise!Answer,
            Promise!Respond
<1>1. CASE Tick
  BY <1>1 DEF Tick
<1>2. ASSUME NEW p \in Requests, Arrive(p) PROVE UNCHANGED Promise!absVars
  BY <1>2 DEF Arrive
<1>3. ASSUME NEW p \in Requests, Step(p) PROVE [Promise!AbsNext]_(Promise!absVars)
  <2>1. CASE Claim(p)
    BY <2>1 DEF Claim
  <2>2. CASE PollCompleted(p)
    <3>1. Promise!Replay(p) \/ Promise!Conflict(p)
      BY <2>2 DEF PollCompleted, Promise!Replay, Promise!Conflict
    <3>2. QED
      BY <3>1 DEF Promise!AbsNext
  <2>3. CASE PollReleased(p) \/ PollWindowOver(p)
    <3>1. Promise!Fail(p) \/ UNCHANGED Promise!absVars
      BY <2>3 DEF PollReleased, PollWindowOver, NextAttempt, Promise!Fail
    <3>2. QED
      BY <3>1 DEF Promise!AbsNext
  <2>4. CASE PollExpired(p) \/ PollPending(p)
    BY <2>4 DEF PollExpired, PollPending
  <2>5. CASE Steal(p)
    BY <2>5 DEF Steal
  <2>6. CASE HandlerCommits(p) \/ HandlerFails(p)
    BY <2>6 DEF HandlerCommits, HandlerFails
  <2>7. CASE Complete(p)
    <3>1. Promise!Create(p) \/ UNCHANGED Promise!absVars
      BY <2>7 DEF Complete, Promise!Create
    <3>2. QED
      BY <3>1 DEF Promise!AbsNext
  <2>8. CASE CompleteErrs(p)
    BY <2>8 DEF CompleteErrs
  <2>9. CASE Release(p) \/ ReleaseErrs(p)
    <3>1. Promise!Fail(p)
      BY <2>9 DEF Release, ReleaseErrs, Promise!Fail
    <3>2. QED
      BY <3>1 DEF Promise!AbsNext
  <2>10. QED
    BY <1>3, <2>1, <2>2, <2>3, <2>4, <2>5, <2>6, <2>7, <2>8, <2>9 DEF Step
<1>4. ASSUME NEW p \in Requests, Timers(p) PROVE UNCHANGED Promise!absVars
  BY <1>4 DEF Timers, Renew, MissRenewal, Freeze, Thaw, Crash
<1>5. CASE UNCHANGED vars
  BY <1>5 DEF vars
<1>6. QED
  BY <1>1, <1>2, <1>3, <1>4, <1>5 DEF Next

\* Every behaviour of the protocol is one of the abstract specification's.
THEOREM KeepsPromiseCorrect ==
  ASSUME "ack" \notin Faults
  PROVE  Spec => KeepsPromise
<1>1. Init => RecordInv /\ Promise!AbsInit
  BY RecordInit, PromiseInit
<1>2. TypeOK /\ RecordInv /\ [Next]_vars => RecordInv' /\ [Promise!AbsNext]_(Promise!absVars)
  BY RecordStep, PromiseStep
<1>3. QED
  BY <1>1, <1>2, TypeCorrect, PTL DEF Spec, KeepsPromise, Promise!AbsSpec

-----------------------------------------------------------------------------
(* A leader that keeps running keeps its claim.                            *)

\* What the heartbeat accounts for never uses the lease up.
LEMMA LeaseOutlives ==
  ASSUME NEW m \in 0..MaxMissed, NEW b \in 0..HeartbeatTicks
  PROVE  m * HeartbeatTicks + b < LeaseTicks
<1>1. m * HeartbeatTicks <= MaxMissed * HeartbeatTicks
  BY Numbers
<1>2. (MaxMissed + 1) * HeartbeatTicks = MaxMissed * HeartbeatTicks + HeartbeatTicks
  BY Numbers
<1>3. MaxMissed * HeartbeatTicks \in Nat /\ m * HeartbeatTicks \in Nat
  BY Numbers
<1>4. QED
  BY <1>1, <1>2, <1>3, Numbers, TimingAssumption

LEMMA LeaseInit == Init => LeaseInv
BY DEF Init, LeaseInv, Leading, LeaderPcs

LEMMA LeaseStep == ASSUME TypeOK, LeaseInv, [Next]_vars PROVE LeaseInv'
<1> USE Numbers
<1> USE DEF TypeOK, At, Goto, Finish, LeaveLoop, ClearHeartbeat, StartLeading,
            InsertRow, DeleteRow, CompleteRow, rowVars, loopVars, timerVars,
            LeaseInv, Leading, LeaderPcs, Owns, Exists
<1>0. \A p \in Requests : Leading(p) /\ stall[p] = "never" => Owns(p) /\ ~Expired
  <2>1. SUFFICES ASSUME NEW p \in Requests, Leading(p), stall[p] = "never", Expired
                 PROVE  FALSE
    OBVIOUS
  <2>2. missed[p] * HeartbeatTicks + beat[p] < LeaseTicks
    BY LeaseOutlives
  <2>3. QED
    BY <2>1, <2>2 DEF Expired
<1>1. CASE Tick
  <2>1. SUFFICES ASSUME NEW p \in Requests, Leading(p), stall[p] = "never"
                 PROVE  lease' + missed'[p] * HeartbeatTicks + beat'[p] >= LeaseTicks
    BY <1>1 DEF Tick
  <2>2. lease' + missed'[p] * HeartbeatTicks + beat'[p] = lease + missed[p] * HeartbeatTicks + beat[p]
    <3>1. missed[p] * HeartbeatTicks \in Nat
      OBVIOUS
    <3>2. lease' = lease - 1 /\ beat'[p] = beat[p] + 1 /\ missed' = missed
      BY <1>1, <2>1 DEF Tick
    <3>3. QED
      BY <3>1, <3>2
  <2>3. QED
    BY <1>1, <2>1, <2>2 DEF Tick
<1>2. ASSUME NEW p \in Requests, Arrive(p) PROVE LeaseInv'
  BY <1>2 DEF Arrive
<1>3. ASSUME NEW p \in Requests, Step(p) PROVE LeaseInv'
  <2>1. CASE Claim(p)
    BY <2>1 DEF Claim
  <2>2. CASE PollCompleted(p) \/ PollExpired(p) \/ PollPending(p)
    BY <2>2 DEF PollCompleted, PollExpired, PollPending
  <2>3. CASE PollReleased(p) \/ PollWindowOver(p)
    BY <2>3 DEF PollReleased, PollWindowOver, NextAttempt
  <2>4. CASE Steal(p)
    <3>1. CASE Expired /\ rowId = seen[p]
      <4>1. \A q \in Requests \ {p} : ~(Leading(q) /\ stall[q] = "never")
        BY <1>0, <3>1
      <4>2. owner' = p /\ status' # "absent" /\ lease' = LeaseTicks
        BY <2>4, <3>1 DEF Steal, Expired
      <4>3. beat[p] = 0 /\ missed[p] = 0
        BY <2>4 DEF Steal
      <4>4. QED
        BY <2>4, <3>1, <4>1, <4>2, <4>3 DEF Steal
    <3>2. CASE ~(Expired /\ rowId = seen[p])
      BY <2>4, <3>2 DEF Steal
    <3>3. QED
      BY <3>1, <3>2
  <2>5. CASE HandlerCommits(p) \/ HandlerFails(p)
    BY <2>5 DEF HandlerCommits, HandlerFails
  <2>6. CASE Complete(p) \/ CompleteErrs(p)
    BY <2>6 DEF Complete, CompleteErrs
  <2>7. CASE Release(p)
    BY <2>7 DEF Release
  <2>8. CASE ReleaseErrs(p)
    BY <2>8 DEF ReleaseErrs
  <2>9. QED
    BY <1>3, <2>1, <2>2, <2>3, <2>4, <2>5, <2>6, <2>7, <2>8 DEF Step
<1>4. ASSUME NEW p \in Requests, Timers(p) PROVE LeaseInv'
  <2>1. CASE Renew(p)
    BY <2>1 DEF Renew, HeartbeatDue
  <2>2. CASE MissRenewal(p)
    <3>1. (missed[p] + 1) * HeartbeatTicks = missed[p] * HeartbeatTicks + beat[p]
      BY <2>2 DEF MissRenewal, HeartbeatDue
    <3>2. QED
      BY <2>2, <3>1 DEF MissRenewal, HeartbeatDue
  <2>3. CASE Freeze(p) \/ Thaw(p)
    BY <2>3 DEF Freeze, Thaw
  <2>4. CASE Crash(p)
    BY <2>4 DEF Crash, InFlight
  <2>5. QED
    BY <1>4, <2>1, <2>2, <2>3, <2>4 DEF Timers
<1>5. CASE UNCHANGED vars
  BY <1>5 DEF vars
<1>6. QED
  BY <1>1, <1>2, <1>3, <1>4, <1>5 DEF Next

\* Whatever else fails, a leader whose event loop never froze and that misses
\* at most MaxMissed renewals in a row still owns its claim.
THEOREM LiveLeaderCorrect == Spec => []LiveLeaderKeepsClaim
<1>1. Init => LeaseInv
  BY LeaseInit
<1>2. TypeOK /\ LeaseInv /\ [Next]_vars => LeaseInv'
  BY LeaseStep
<1>3. LeaseInv => LiveLeaderKeepsClaim
  BY DEF LeaseInv, LiveLeaderKeepsClaim
<1>4. QED
  BY <1>1, <1>2, <1>3, TypeCorrect, PTL DEF Spec

-----------------------------------------------------------------------------
(* One key, one document.                                                  *)

LEMMA DocumentsInit == Init => DocumentsInv
BY DEF Init, DocumentsInv

LEMMA DocumentsStep ==
  ASSUME TypeOK, DocumentsInv, [Next]_vars
  PROVE  DocumentsInv'
<1> USE DEF TypeOK, At, Goto, Finish, LeaveLoop, ClearHeartbeat, StartLeading,
            rowVars, loopVars, timerVars, DocumentsInv, Leading, LeaderPcs, Answer
<1>1. CASE Tick
  BY <1>1 DEF Tick
<1>2. ASSUME NEW p \in Requests, Arrive(p) PROVE DocumentsInv'
  BY <1>2 DEF Arrive
<1>3. ASSUME NEW p \in Requests, Step(p) PROVE DocumentsInv'
  <2>1. CASE Claim(p) \/ Steal(p)
    BY <2>1 DEF Claim, Steal
  <2>2. CASE PollCompleted(p) \/ PollExpired(p) \/ PollPending(p)
    BY <2>2 DEF PollCompleted, PollExpired, PollPending
  <2>3. CASE PollReleased(p) \/ PollWindowOver(p)
    BY <2>3 DEF PollReleased, PollWindowOver, NextAttempt
  <2>4. CASE HandlerCommits(p) \/ HandlerFails(p)
    BY <2>4 DEF HandlerCommits, HandlerFails
  <2>5. CASE Complete(p) \/ CompleteErrs(p)
    BY <2>5 DEF Complete, CompleteErrs
  <2>6. CASE Release(p) \/ ReleaseErrs(p)
    BY <2>6 DEF Release, ReleaseErrs
  <2>7. QED
    BY <1>3, <2>1, <2>2, <2>3, <2>4, <2>5, <2>6 DEF Step
<1>4. ASSUME NEW p \in Requests, Timers(p) PROVE DocumentsInv'
  BY <1>4 DEF Timers, Renew, MissRenewal, Freeze, Thaw, Crash, InFlight
<1>5. CASE UNCHANGED vars
  BY <1>5 DEF vars
<1>6. QED
  BY <1>1, <1>2, <1>3, <1>4, <1>5 DEF Next

\* An undisturbed request that committed its document owns the claim.
LEMMA UndisturbedOwns ==
  ASSUME TypeOK, RecordInv, LeaseInv, DocumentsInv, NEW p \in docs, Undisturbed(p)
  PROVE  p \in Requests /\ p = owner
<1>1. p \in Requests
  BY DEF TypeOK
<1>2. CASE Leading(p)
  BY <1>1, <1>2 DEF LeaseInv, Undisturbed, Owns
<1>3. CASE pc[p] = "done"
  <2>1. reply[p].kind = "created"
    BY <1>3 DEF DocumentsInv, Undisturbed
  <2>2. QED
    BY <1>1, <2>1 DEF RecordInv, RowConsistent, RequestsConsistent, SuccessIsRecorded
<1>4. QED
  BY <1>2, <1>3 DEF DocumentsInv, Undisturbed

\* Unless the acknowledgement of the completion UPDATE can be lost, two
\* requests that run undisturbed never both insert a document for the key,
\* whatever befalls the other requests.
THEOREM OneDocumentCorrect ==
  ASSUME "ack" \notin Faults
  PROVE  Spec => []OneDocument
<1>1. Init => RecordInv /\ LeaseInv /\ DocumentsInv
  BY RecordInit, LeaseInit, DocumentsInit
<1>2. TypeOK /\ RecordInv /\ LeaseInv /\ DocumentsInv /\ [Next]_vars
        => RecordInv' /\ LeaseInv' /\ DocumentsInv'
  BY RecordStep, LeaseStep, DocumentsStep
<1>3. TypeOK /\ RecordInv /\ LeaseInv /\ DocumentsInv => OneDocument
  BY UndisturbedOwns DEF OneDocument
<1>4. QED
  BY <1>1, <1>2, <1>3, TypeCorrect, PTL DEF Spec

LEMMA FaultFreeInit == Init => FaultFreeInv
BY DEF Init, FaultFreeInv

LEMMA FaultFreeStep ==
  ASSUME Faults = {}, TypeOK, LeaseInv, FaultFreeInv, [Next]_vars
  PROVE  FaultFreeInv'
<1> USE DEF TypeOK, At, Goto, Finish, LeaveLoop, ClearHeartbeat, StartLeading,
            rowVars, loopVars, timerVars, FaultFreeInv, LeaseInv, Leading, LeaderPcs
<1>1. CASE Tick
  BY <1>1 DEF Tick
<1>2. ASSUME NEW p \in Requests, Arrive(p) PROVE FaultFreeInv'
  BY <1>2 DEF Arrive
<1>3. ASSUME NEW p \in Requests, Step(p) PROVE FaultFreeInv'
  <2>1. CASE Claim(p) \/ Steal(p)
    BY <2>1 DEF Claim, Steal
  <2>2. CASE PollCompleted(p) \/ PollExpired(p) \/ PollPending(p)
    BY <2>2 DEF PollCompleted, PollExpired, PollPending
  <2>3. CASE PollReleased(p) \/ PollWindowOver(p)
    BY <2>3 DEF PollReleased, PollWindowOver, NextAttempt
  <2>4. CASE HandlerCommits(p) \/ HandlerFails(p)
    BY <2>4 DEF HandlerCommits, HandlerFails
  <2>5. CASE Complete(p) \/ CompleteErrs(p)
    BY <2>5 DEF Complete, CompleteErrs
  <2>6. CASE Release(p) \/ ReleaseErrs(p)
    BY <2>6 DEF Release, ReleaseErrs
  <2>7. QED
    BY <1>3, <2>1, <2>2, <2>3, <2>4, <2>5, <2>6 DEF Step
<1>4. ASSUME NEW p \in Requests, Timers(p) PROVE FaultFreeInv'
  BY <1>4 DEF Timers, Renew, MissRenewal, Freeze, Thaw, Crash
<1>5. CASE UNCHANGED vars
  BY <1>5 DEF vars
<1>6. QED
  BY <1>1, <1>2, <1>3, <1>4, <1>5 DEF Next

\* While nothing fails, one key yields at most one document in all, however
\* slow the handlers are.
THEOREM OneDocumentWithoutFaults ==
  ASSUME Faults = {}
  PROVE  Spec => [](\A p, q \in docs : p = q)
<1>1. Init => RecordInv /\ LeaseInv /\ FaultFreeInv
  BY RecordInit, LeaseInit, FaultFreeInit
<1>2. TypeOK /\ RecordInv /\ LeaseInv /\ FaultFreeInv /\ [Next]_vars
        => RecordInv' /\ LeaseInv' /\ FaultFreeInv'
  BY RecordStep, LeaseStep, FaultFreeStep
<1>3. TypeOK /\ RecordInv /\ FaultFreeInv => \A p \in docs : Undisturbed(p)
  <2> SUFFICES ASSUME TypeOK, RecordInv, FaultFreeInv, NEW p \in docs
               PROVE  Undisturbed(p)
    OBVIOUS
  <2>1. p \in Requests
    BY DEF TypeOK
  <2>2. CASE pc[p] = "committed"
    <3>1. reply[p].kind = "none"
      BY <2>1, <2>2 DEF RecordInv, RequestsConsistent, NoAnswer, Answer
    <3>2. stall[p] = "never"
      BY <2>1 DEF FaultFreeInv
    <3>3. QED
      BY <2>2, <3>1, <3>2 DEF Undisturbed
  <2>3. CASE pc[p] = "done" /\ reply[p] = Answer("created", p)
    BY <2>1, <2>3 DEF FaultFreeInv, Undisturbed, Answer
  <2>4. QED
    BY <2>1, <2>2, <2>3 DEF FaultFreeInv
<1>4. TypeOK /\ RecordInv /\ FaultFreeInv /\ OneDocument => \A p, q \in docs : p = q
  BY <1>3 DEF OneDocument
<1>5. "ack" \notin Faults
  OBVIOUS
<1>6. Spec => []OneDocument
  BY <1>5, OneDocumentCorrect
<1>7. QED
  BY <1>1, <1>2, <1>4, <1>6, TypeCorrect, PTL DEF Spec

-----------------------------------------------------------------------------
(***************************************************************************)
(* Quotes and invoices.  The inductive invariant adds to the properties    *)
(* what each request relies on: a creation is alone with its document, a   *)
(* number being inserted is no larger than the counter and nobody else's,  *)
(* and a decision that was made has moved its document beyond the status   *)
(* it started from.                                                        *)
(***************************************************************************)
Creating(r) == step[r] \in {"begin", "number", "insert"}

Busy(r) ==
    /\ step[r] # "idle" => about[r] \in Documents
    /\ step[r] \in {"write", "audit"} => aim[r] \in Decisions
    /\ Creating(r) => aim[r] = "create" /\ docStatus[about[r]] = "none"
    /\ outcome[r] # None => step[r] = "done"

Alone(r, q) == Creating(r) /\ about[q] = about[r] => q = r

Numbered(d) == docNumber[d] # None => docNumber[d] <= counter[KindOf(d)]
Claimed(r) == Inserting(r) => claim[r] \in Nat /\ claim[r] <= counter[KindOf(about[r])]
ClaimsDiffer(r, q) ==
    Inserting(r) /\ Inserting(q) /\ KindOf(about[r]) = KindOf(about[q]) /\ claim[r] = claim[q] => r = q
DocumentsDiffer(d, e) ==
    docNumber[d] # None /\ docNumber[d] = docNumber[e] /\ KindOf(d) = KindOf(e) => d = e
ClaimFree(r, d) == Inserting(r) /\ KindOf(about[r]) = KindOf(d) => claim[r] # docNumber[d]

\* The request has made its decision.
Decided(r) == aim[r] \in Decisions /\ (step[r] = "audit" \/ outcome[r] = "ok")
Beyond(o, s) == IF FromStatus(o) = "draft" THEN s \notin {"none", "draft"} ELSE s \notin {"none", "draft", "sent"}
MovedOn(r) == Decided(r) => about[r] \in Documents /\ Beyond(aim[r], docStatus[about[r]])
AloneDeciding(r, q) ==
    Decided(r) /\ Decided(q) /\ about[r] = about[q] /\ FromStatus(aim[r]) = FromStatus(aim[q]) => r = q

SalesInv ==
    /\ SalesTypeOK
    /\ \A r \in SalesRequests : Busy(r)
    /\ \A r, q \in SalesRequests : Alone(r, q)
    /\ \A d \in Documents : Numbered(d)
    /\ \A r \in SalesRequests : Claimed(r)
    /\ \A r, q \in SalesRequests : ClaimsDiffer(r, q)
    /\ \A d, e \in Documents : DocumentsDiffer(d, e)
    /\ \A r \in SalesRequests, d \in Documents : ClaimFree(r, d)
    /\ \A r \in SalesRequests : MovedOn(r)
    /\ \A r, q \in SalesRequests : AloneDeciding(r, q)
    /\ ShownStays

-----------------------------------------------------------------------------
(***************************************************************************)
(* A step of a request, or of the client who opens a link.                 *)
(***************************************************************************)
SalesStep ==
    \/ \E r \in SalesRequests, d \in Documents : StartCreate(r, d)
    \/ \E r \in SalesRequests : BeginQuote(r)
    \/ \E r \in SalesRequests : ClaimNumber(r)
    \/ \E r \in SalesRequests : InsertDocument(r)
    \/ \E r \in SalesRequests : step[r] \notin {"idle", "done"} /\ FailRequest(r)
    \/ \E r \in SalesRequests, d \in Documents, o \in Decisions : ReadDocument(r, o, d)
    \/ \E r \in SalesRequests : Decide(r)
    \/ \E r \in SalesRequests : RefuseDecision(r)
    \/ \E r \in SalesRequests : AuditDecision(r)
    \/ \E d \in Documents : ViewPublic(d)
    \/ UNCHANGED salesVars

\* Every step of the specification is one of these.
LEMMA StepCases == [SalesNext]_salesVars => SalesStep
  BY DEF SalesNext, SalesContinue, SalesStep, SalesRest, PoolTimeout, AbortRequest, WaitsForConnection

\* The initial state.
LEMMA InvInit == SalesInit => SalesInv
<1> SUFFICES ASSUME SalesInit PROVE SalesInv
  OBVIOUS
<1>1. SalesTypeOK
  BY SalesAssumptions DEF SalesInit, SalesTypeOK, DocKinds, DocStatuses, SalesSteps
<1>2. \A r \in SalesRequests : step[r] = "idle" /\ outcome[r] = None
  BY DEF SalesInit
<1>3. \A d \in Documents : docNumber[d] = None /\ docStatus[d] = "none"
  BY DEF SalesInit
<1>4. None # "ok"
  BY SalesAssumptions
<1>5. ShownStays
  BY DEF SalesInit, ShownStays
<1> QED  BY <1>1, <1>2, <1>3, <1>4, <1>5 DEF SalesInv, Busy, Creating, Alone, Numbered, Claimed, ClaimsDiffer,
            DocumentsDiffer, ClaimFree, Inserting, MovedOn, Decided, AloneDeciding

\* A creation begins on a document that nobody works on.
LEMMA StartCreateKeeps ==
  ASSUME NEW r \in SalesRequests, NEW d \in Documents, SalesInv, StartCreate(r, d)
  PROVE  SalesInv'
<1>0. SalesTypeOK'
  BY SalesAssumptions DEF SalesInv, Busy, SalesTypeOK, StartCreate, Documents, Decisions, Conclude, DocKinds,
      DocStatuses, SalesSteps, KindOf, FromStatus, IntoStatus, docvars, salesreqvars
<1>1. \A p \in SalesRequests : Busy(p)'
  BY <1>0, SalesAssumptions DEF SalesInv, SalesTypeOK, StartCreate, Conclude, docvars, salesreqvars, Busy, Creating
<1>2. \A p, q \in SalesRequests : Alone(p, q)'
  BY <1>0, SalesAssumptions DEF SalesInv, SalesTypeOK, StartCreate, Conclude, docvars, salesreqvars, Alone, Creating,
      Busy
<1>3. \A e \in Documents : Numbered(e)'
  BY <1>0, SalesAssumptions DEF SalesInv, SalesTypeOK, StartCreate, Conclude, docvars, salesreqvars, Numbered,
      Claimed, Inserting, KindOf, DocKinds
<1>4. \A p \in SalesRequests : Claimed(p)'
  BY <1>0, SalesAssumptions DEF SalesInv, SalesTypeOK, StartCreate, Conclude, docvars, salesreqvars, Claimed,
      Inserting, KindOf, DocKinds, Busy
<1>5. \A p, q \in SalesRequests : ClaimsDiffer(p, q)'
  BY <1>0, SalesAssumptions DEF SalesInv, SalesTypeOK, StartCreate, Conclude, docvars, salesreqvars, ClaimsDiffer,
      Claimed, Inserting, KindOf, DocKinds, Busy
<1>6. \A e, f \in Documents : DocumentsDiffer(e, f)'
  BY <1>0, SalesAssumptions DEF SalesInv, SalesTypeOK, StartCreate, Conclude, docvars, salesreqvars, DocumentsDiffer,
      ClaimFree, Inserting, KindOf, Busy
<1>7. \A p \in SalesRequests, e \in Documents : ClaimFree(p, e)'
  BY <1>0, SalesAssumptions DEF SalesInv, SalesTypeOK, StartCreate, Conclude, docvars, salesreqvars, ClaimFree,
      ClaimsDiffer, Claimed, Numbered, Inserting, KindOf, DocKinds, Busy
<1>8. \A p \in SalesRequests : MovedOn(p)'
  BY <1>0, SalesAssumptions DEF SalesInv, SalesTypeOK, StartCreate, Conclude, docvars, salesreqvars, MovedOn, Decided,
      Beyond, Busy, Creating, Decisions, FromStatus, IntoStatus
<1>9. \A p, q \in SalesRequests : AloneDeciding(p, q)'
  BY <1>0, SalesAssumptions DEF SalesInv, SalesTypeOK, StartCreate, Conclude, docvars, salesreqvars, AloneDeciding,
      MovedOn, Decided, Beyond, Busy, Creating, Decisions, FromStatus, IntoStatus
<1>10. ShownStays'
  BY <1>0, SalesAssumptions DEF SalesInv, SalesTypeOK, StartCreate, Conclude, docvars, salesreqvars, ShownStays, Busy,
      Creating, Decisions, FromStatus, IntoStatus
<1> QED  BY <1>0, <1>1, <1>2, <1>3, <1>4, <1>5, <1>6, <1>7, <1>8, <1>9, <1>10 DEF SalesInv

\* A quote's transaction begins.
LEMMA BeginQuoteKeeps ==
  ASSUME NEW r \in SalesRequests, SalesInv, BeginQuote(r)
  PROVE  SalesInv'
<1>0. SalesTypeOK'
  BY SalesAssumptions DEF SalesInv, Busy, SalesTypeOK, BeginQuote, Documents, Decisions, Conclude, DocKinds,
      DocStatuses, SalesSteps, KindOf, FromStatus, IntoStatus, docvars, salesreqvars
<1>1. \A p \in SalesRequests : Busy(p)'
  BY <1>0, SalesAssumptions DEF SalesInv, SalesTypeOK, BeginQuote, Conclude, docvars, salesreqvars, Busy, Creating
<1>2. \A p, q \in SalesRequests : Alone(p, q)'
  BY <1>0, SalesAssumptions DEF SalesInv, SalesTypeOK, BeginQuote, Conclude, docvars, salesreqvars, Alone, Creating,
      Busy
<1>3. \A e \in Documents : Numbered(e)'
  BY <1>0, SalesAssumptions DEF SalesInv, SalesTypeOK, BeginQuote, Conclude, docvars, salesreqvars, Numbered, Claimed,
      Inserting, KindOf, DocKinds
<1>4. \A p \in SalesRequests : Claimed(p)'
  BY <1>0, SalesAssumptions DEF SalesInv, SalesTypeOK, BeginQuote, Conclude, docvars, salesreqvars, Claimed,
      Inserting, KindOf, DocKinds, Busy
<1>5. \A p, q \in SalesRequests : ClaimsDiffer(p, q)'
  BY <1>0, SalesAssumptions DEF SalesInv, SalesTypeOK, BeginQuote, Conclude, docvars, salesreqvars, ClaimsDiffer,
      Claimed, Inserting, KindOf, DocKinds, Busy
<1>6. \A e, f \in Documents : DocumentsDiffer(e, f)'
  BY <1>0, SalesAssumptions DEF SalesInv, SalesTypeOK, BeginQuote, Conclude, docvars, salesreqvars, DocumentsDiffer,
      ClaimFree, Inserting, KindOf, Busy
<1>7. \A p \in SalesRequests, e \in Documents : ClaimFree(p, e)'
  BY <1>0, SalesAssumptions DEF SalesInv, SalesTypeOK, BeginQuote, Conclude, docvars, salesreqvars, ClaimFree,
      ClaimsDiffer, Claimed, Numbered, Inserting, KindOf, DocKinds, Busy
<1>8. \A p \in SalesRequests : MovedOn(p)'
  BY <1>0, SalesAssumptions DEF SalesInv, SalesTypeOK, BeginQuote, Conclude, docvars, salesreqvars, MovedOn, Decided,
      Beyond, Busy, Creating, Decisions, FromStatus, IntoStatus
<1>9. \A p, q \in SalesRequests : AloneDeciding(p, q)'
  BY <1>0, SalesAssumptions DEF SalesInv, SalesTypeOK, BeginQuote, Conclude, docvars, salesreqvars, AloneDeciding,
      MovedOn, Decided, Beyond, Busy, Creating, Decisions, FromStatus, IntoStatus
<1>10. ShownStays'
  BY <1>0, SalesAssumptions DEF SalesInv, SalesTypeOK, BeginQuote, Conclude, docvars, salesreqvars, ShownStays, Busy,
      Creating, Decisions, FromStatus, IntoStatus
<1> QED  BY <1>0, <1>1, <1>2, <1>3, <1>4, <1>5, <1>6, <1>7, <1>8, <1>9, <1>10 DEF SalesInv

\* A number is claimed: it is above all that are in use.
LEMMA ClaimNumberKeeps ==
  ASSUME NEW r \in SalesRequests, SalesInv, ClaimNumber(r)
  PROVE  SalesInv'
<1>0. SalesTypeOK'
  BY SalesAssumptions DEF SalesInv, Busy, SalesTypeOK, ClaimNumber, Documents, Decisions, Conclude, DocKinds,
      DocStatuses, SalesSteps, KindOf, FromStatus, IntoStatus, docvars, salesreqvars
<1>1. \A p \in SalesRequests : Busy(p)'
  BY <1>0, SalesAssumptions DEF SalesInv, SalesTypeOK, ClaimNumber, Conclude, docvars, salesreqvars, Busy, Creating
<1>2. \A p, q \in SalesRequests : Alone(p, q)'
  BY <1>0, SalesAssumptions DEF SalesInv, SalesTypeOK, ClaimNumber, Conclude, docvars, salesreqvars, Alone, Creating,
      Busy
<1>3. \A e \in Documents : Numbered(e)'
  BY <1>0, SalesAssumptions DEF SalesInv, SalesTypeOK, ClaimNumber, Conclude, docvars, salesreqvars, Numbered,
      Claimed, Inserting, KindOf, DocKinds
<1>4. \A p \in SalesRequests : Claimed(p)'
  BY <1>0, SalesAssumptions DEF SalesInv, SalesTypeOK, ClaimNumber, Conclude, docvars, salesreqvars, Claimed,
      Inserting, KindOf, DocKinds, Busy
<1>5. \A p, q \in SalesRequests : ClaimsDiffer(p, q)'
  BY <1>0, SalesAssumptions DEF SalesInv, SalesTypeOK, ClaimNumber, Conclude, docvars, salesreqvars, ClaimsDiffer,
      Claimed, Inserting, KindOf, DocKinds, Busy
<1>6. \A e, f \in Documents : DocumentsDiffer(e, f)'
  BY <1>0, SalesAssumptions DEF SalesInv, SalesTypeOK, ClaimNumber, Conclude, docvars, salesreqvars, DocumentsDiffer,
      ClaimFree, Inserting, KindOf, Busy
<1>7. \A p \in SalesRequests, e \in Documents : ClaimFree(p, e)'
  BY <1>0, SalesAssumptions DEF SalesInv, SalesTypeOK, ClaimNumber, Conclude, docvars, salesreqvars, ClaimFree,
      ClaimsDiffer, Claimed, Numbered, Inserting, KindOf, DocKinds, Busy
<1>8. \A p \in SalesRequests : MovedOn(p)'
  BY <1>0, SalesAssumptions DEF SalesInv, SalesTypeOK, ClaimNumber, Conclude, docvars, salesreqvars, MovedOn, Decided,
      Beyond, Busy, Creating, Decisions, FromStatus, IntoStatus
<1>9. \A p, q \in SalesRequests : AloneDeciding(p, q)'
  BY <1>0, SalesAssumptions DEF SalesInv, SalesTypeOK, ClaimNumber, Conclude, docvars, salesreqvars, AloneDeciding,
      MovedOn, Decided, Beyond, Busy, Creating, Decisions, FromStatus, IntoStatus
<1>10. ShownStays'
  BY <1>0, SalesAssumptions DEF SalesInv, SalesTypeOK, ClaimNumber, Conclude, docvars, salesreqvars, ShownStays, Busy,
      Creating, Decisions, FromStatus, IntoStatus
<1> QED  BY <1>0, <1>1, <1>2, <1>3, <1>4, <1>5, <1>6, <1>7, <1>8, <1>9, <1>10 DEF SalesInv

\* A document is inserted with the number claimed for it.
LEMMA InsertDocumentKeeps ==
  ASSUME NEW r \in SalesRequests, SalesInv, InsertDocument(r)
  PROVE  SalesInv'
<1>0. SalesTypeOK'
  BY SalesAssumptions DEF SalesInv, Busy, SalesTypeOK, InsertDocument, Documents, Decisions, Conclude, DocKinds,
      DocStatuses, SalesSteps, KindOf, FromStatus, IntoStatus, docvars, salesreqvars
<1>1. \A p \in SalesRequests : Busy(p)'
  BY <1>0, SalesAssumptions DEF SalesInv, SalesTypeOK, InsertDocument, Conclude, docvars, salesreqvars, Busy,
      Creating, Alone
<1>2. \A p, q \in SalesRequests : Alone(p, q)'
  BY <1>0, SalesAssumptions DEF SalesInv, SalesTypeOK, InsertDocument, Conclude, docvars, salesreqvars, Alone,
      Creating, Busy
<1>3. \A e \in Documents : Numbered(e)'
  BY <1>0, SalesAssumptions DEF SalesInv, SalesTypeOK, InsertDocument, Conclude, docvars, salesreqvars, Numbered,
      Claimed, Inserting, KindOf, DocKinds
<1>4. \A p \in SalesRequests : Claimed(p)'
  BY <1>0, SalesAssumptions DEF SalesInv, SalesTypeOK, InsertDocument, Conclude, docvars, salesreqvars, Claimed,
      Inserting, KindOf, DocKinds, Busy
<1>5. \A p, q \in SalesRequests : ClaimsDiffer(p, q)'
  BY <1>0, SalesAssumptions DEF SalesInv, SalesTypeOK, InsertDocument, Conclude, docvars, salesreqvars, ClaimsDiffer,
      Claimed, Inserting, KindOf, DocKinds, Busy
<1>6. \A e, f \in Documents : DocumentsDiffer(e, f)'
  BY <1>0, SalesAssumptions DEF SalesInv, SalesTypeOK, InsertDocument, Conclude, docvars, salesreqvars,
      DocumentsDiffer, ClaimFree, Inserting, KindOf, Busy
<1>7. \A p \in SalesRequests, e \in Documents : ClaimFree(p, e)'
  BY <1>0, SalesAssumptions DEF SalesInv, SalesTypeOK, InsertDocument, Conclude, docvars, salesreqvars, ClaimFree,
      ClaimsDiffer, Claimed, Numbered, Inserting, KindOf, DocKinds, Busy
<1>8. \A p \in SalesRequests : MovedOn(p)'
  BY <1>0, SalesAssumptions DEF SalesInv, SalesTypeOK, InsertDocument, Conclude, docvars, salesreqvars, MovedOn,
      Decided, Beyond, Busy, Creating, Decisions, FromStatus, IntoStatus
<1>9. \A p, q \in SalesRequests : AloneDeciding(p, q)'
  BY <1>0, SalesAssumptions DEF SalesInv, SalesTypeOK, InsertDocument, Conclude, docvars, salesreqvars, AloneDeciding,
      MovedOn, Decided, Beyond, Busy, Creating, Decisions, FromStatus, IntoStatus
<1>10. ShownStays'
  BY <1>0, SalesAssumptions DEF SalesInv, SalesTypeOK, InsertDocument, Conclude, docvars, salesreqvars, ShownStays,
      Busy, Creating, Decisions, FromStatus, IntoStatus
<1> QED  BY <1>0, <1>1, <1>2, <1>3, <1>4, <1>5, <1>6, <1>7, <1>8, <1>9, <1>10 DEF SalesInv

\* A request fails, or waited too long for a connection.
LEMMA FailRequestKeeps ==
  ASSUME NEW r \in SalesRequests, step[r] \notin {"idle", "done"}, SalesInv, FailRequest(r)
  PROVE  SalesInv'
<1>0. SalesTypeOK'
  BY SalesAssumptions DEF SalesInv, Busy, Claimed, Inserting, SalesTypeOK, FailRequest, Documents, Decisions,
      Conclude, DocKinds, DocStatuses, SalesSteps, KindOf, FromStatus, IntoStatus, docvars, salesreqvars
<1>1. \A p \in SalesRequests : Busy(p)'
  BY <1>0, SalesAssumptions DEF SalesInv, SalesTypeOK, FailRequest, Conclude, docvars, salesreqvars, Busy, Creating
<1>2. \A p, q \in SalesRequests : Alone(p, q)'
  BY <1>0, SalesAssumptions DEF SalesInv, SalesTypeOK, FailRequest, Conclude, docvars, salesreqvars, Alone, Creating,
      Busy
<1>3. \A e \in Documents : Numbered(e)'
  BY <1>0, SalesAssumptions DEF SalesInv, SalesTypeOK, FailRequest, Conclude, docvars, salesreqvars, Numbered,
      Claimed, Inserting, KindOf, DocKinds
<1>4. \A p \in SalesRequests : Claimed(p)'
  BY <1>0, SalesAssumptions DEF SalesInv, SalesTypeOK, FailRequest, Conclude, docvars, salesreqvars, Claimed,
      Inserting, KindOf, DocKinds, Busy
<1>5. \A p, q \in SalesRequests : ClaimsDiffer(p, q)'
  BY <1>0, SalesAssumptions DEF SalesInv, SalesTypeOK, FailRequest, Conclude, docvars, salesreqvars, ClaimsDiffer,
      Claimed, Inserting, KindOf, DocKinds, Busy
<1>6. \A e, f \in Documents : DocumentsDiffer(e, f)'
  BY <1>0, SalesAssumptions DEF SalesInv, SalesTypeOK, FailRequest, Conclude, docvars, salesreqvars, DocumentsDiffer,
      ClaimFree, Inserting, KindOf, Busy
<1>7. \A p \in SalesRequests, e \in Documents : ClaimFree(p, e)'
  BY <1>0, SalesAssumptions DEF SalesInv, SalesTypeOK, FailRequest, Conclude, docvars, salesreqvars, ClaimFree,
      ClaimsDiffer, Claimed, Numbered, Inserting, KindOf, DocKinds, Busy
<1>8. \A p \in SalesRequests : MovedOn(p)'
  BY <1>0, SalesAssumptions DEF SalesInv, SalesTypeOK, FailRequest, Conclude, docvars, salesreqvars, MovedOn, Decided,
      Beyond, Busy, Creating, Decisions, FromStatus, IntoStatus
<1>9. \A p, q \in SalesRequests : AloneDeciding(p, q)'
  BY <1>0, SalesAssumptions DEF SalesInv, SalesTypeOK, FailRequest, Conclude, docvars, salesreqvars, AloneDeciding,
      MovedOn, Decided, Beyond, Busy, Creating, Decisions, FromStatus, IntoStatus
<1>10. ShownStays'
  BY <1>0, SalesAssumptions DEF SalesInv, SalesTypeOK, FailRequest, Conclude, docvars, salesreqvars, ShownStays, Busy,
      Creating, Decisions, FromStatus, IntoStatus
<1> QED  BY <1>0, <1>1, <1>2, <1>3, <1>4, <1>5, <1>6, <1>7, <1>8, <1>9, <1>10 DEF SalesInv

\* A deciding request has read its document.
LEMMA ReadDocumentKeeps ==
  ASSUME NEW r \in SalesRequests, NEW d \in Documents, NEW o \in Decisions, SalesInv, ReadDocument(r, o, d)
  PROVE  SalesInv'
<1>0. SalesTypeOK'
  BY SalesAssumptions DEF SalesInv, Busy, SalesTypeOK, ReadDocument, Documents, Decisions, Conclude, DocKinds,
      DocStatuses, SalesSteps, KindOf, FromStatus, IntoStatus, docvars, salesreqvars
<1>1. \A p \in SalesRequests : Busy(p)'
  BY <1>0, SalesAssumptions DEF SalesInv, SalesTypeOK, ReadDocument, Conclude, docvars, salesreqvars, Busy, Creating
<1>2. \A p, q \in SalesRequests : Alone(p, q)'
  BY <1>0, SalesAssumptions DEF SalesInv, SalesTypeOK, ReadDocument, Conclude, docvars, salesreqvars, Alone, Creating,
      Busy
<1>3. \A e \in Documents : Numbered(e)'
  BY <1>0, SalesAssumptions DEF SalesInv, SalesTypeOK, ReadDocument, Conclude, docvars, salesreqvars, Numbered,
      Claimed, Inserting, KindOf, DocKinds
<1>4. \A p \in SalesRequests : Claimed(p)'
  BY <1>0, SalesAssumptions DEF SalesInv, SalesTypeOK, ReadDocument, Conclude, docvars, salesreqvars, Claimed,
      Inserting, KindOf, DocKinds, Busy
<1>5. \A p, q \in SalesRequests : ClaimsDiffer(p, q)'
  BY <1>0, SalesAssumptions DEF SalesInv, SalesTypeOK, ReadDocument, Conclude, docvars, salesreqvars, ClaimsDiffer,
      Claimed, Inserting, KindOf, DocKinds, Busy
<1>6. \A e, f \in Documents : DocumentsDiffer(e, f)'
  BY <1>0, SalesAssumptions DEF SalesInv, SalesTypeOK, ReadDocument, Conclude, docvars, salesreqvars, DocumentsDiffer,
      ClaimFree, Inserting, KindOf, Busy
<1>7. \A p \in SalesRequests, e \in Documents : ClaimFree(p, e)'
  BY <1>0, SalesAssumptions DEF SalesInv, SalesTypeOK, ReadDocument, Conclude, docvars, salesreqvars, ClaimFree,
      ClaimsDiffer, Claimed, Numbered, Inserting, KindOf, DocKinds, Busy
<1>8. \A p \in SalesRequests : MovedOn(p)'
  BY <1>0, SalesAssumptions DEF SalesInv, SalesTypeOK, ReadDocument, Conclude, docvars, salesreqvars, MovedOn,
      Decided, Beyond, Busy, Creating, Decisions, FromStatus, IntoStatus
<1>9. \A p, q \in SalesRequests : AloneDeciding(p, q)'
  BY <1>0, SalesAssumptions DEF SalesInv, SalesTypeOK, ReadDocument, Conclude, docvars, salesreqvars, AloneDeciding,
      MovedOn, Decided, Beyond, Busy, Creating, Decisions, FromStatus, IntoStatus
<1>10. ShownStays'
  BY <1>0, SalesAssumptions DEF SalesInv, SalesTypeOK, ReadDocument, Conclude, docvars, salesreqvars, ShownStays,
      Busy, Creating, Decisions, FromStatus, IntoStatus
<1> QED  BY <1>0, <1>1, <1>2, <1>3, <1>4, <1>5, <1>6, <1>7, <1>8, <1>9, <1>10 DEF SalesInv

\* A decision moves its document beyond the status it started from.
LEMMA DecideKeeps ==
  ASSUME NEW r \in SalesRequests, SalesInv, Decide(r)
  PROVE  SalesInv'
<1>0. SalesTypeOK'
  BY SalesAssumptions DEF SalesInv, Busy, SalesTypeOK, Decide, Documents, Decisions, Conclude, DocKinds, DocStatuses,
      SalesSteps, KindOf, FromStatus, IntoStatus, docvars, salesreqvars
<1>1. \A p \in SalesRequests : Busy(p)'
  BY <1>0, SalesAssumptions DEF SalesInv, SalesTypeOK, Decide, Conclude, docvars, salesreqvars, Busy, Creating,
      FromStatus
<1>2. \A p, q \in SalesRequests : Alone(p, q)'
  BY <1>0, SalesAssumptions DEF SalesInv, SalesTypeOK, Decide, Conclude, docvars, salesreqvars, Alone, Creating, Busy
<1>3. \A e \in Documents : Numbered(e)'
  BY <1>0, SalesAssumptions DEF SalesInv, SalesTypeOK, Decide, Conclude, docvars, salesreqvars, Numbered, Claimed,
      Inserting, KindOf, DocKinds
<1>4. \A p \in SalesRequests : Claimed(p)'
  BY <1>0, SalesAssumptions DEF SalesInv, SalesTypeOK, Decide, Conclude, docvars, salesreqvars, Claimed, Inserting,
      KindOf, DocKinds, Busy
<1>5. \A p, q \in SalesRequests : ClaimsDiffer(p, q)'
  BY <1>0, SalesAssumptions DEF SalesInv, SalesTypeOK, Decide, Conclude, docvars, salesreqvars, ClaimsDiffer, Claimed,
      Inserting, KindOf, DocKinds, Busy
<1>6. \A e, f \in Documents : DocumentsDiffer(e, f)'
  BY <1>0, SalesAssumptions DEF SalesInv, SalesTypeOK, Decide, Conclude, docvars, salesreqvars, DocumentsDiffer,
      ClaimFree, Inserting, KindOf, Busy
<1>7. \A p \in SalesRequests, e \in Documents : ClaimFree(p, e)'
  BY <1>0, SalesAssumptions DEF SalesInv, SalesTypeOK, Decide, Conclude, docvars, salesreqvars, ClaimFree,
      ClaimsDiffer, Claimed, Numbered, Inserting, KindOf, DocKinds, Busy
<1>8. \A p \in SalesRequests : MovedOn(p)'
  BY <1>0, SalesAssumptions DEF SalesInv, SalesTypeOK, Decide, Conclude, docvars, salesreqvars, MovedOn, Decided,
      Beyond, Busy, Creating, Decisions, FromStatus, IntoStatus
<1>9. \A p, q \in SalesRequests : AloneDeciding(p, q)'
  BY <1>0, SalesAssumptions DEF SalesInv, SalesTypeOK, Decide, Conclude, docvars, salesreqvars, AloneDeciding,
      MovedOn, Decided, Beyond, Busy, Creating, Decisions, FromStatus, IntoStatus
<1>10. ShownStays'
  BY <1>0, SalesAssumptions DEF SalesInv, SalesTypeOK, Decide, Conclude, docvars, salesreqvars, ShownStays, Busy,
      Creating, Decisions, FromStatus, IntoStatus
<1> QED  BY <1>0, <1>1, <1>2, <1>3, <1>4, <1>5, <1>6, <1>7, <1>8, <1>9, <1>10 DEF SalesInv

\* A decision that came too late.
LEMMA RefuseDecisionKeeps ==
  ASSUME NEW r \in SalesRequests, SalesInv, RefuseDecision(r)
  PROVE  SalesInv'
<1>0. SalesTypeOK'
  BY SalesAssumptions DEF SalesInv, Busy, SalesTypeOK, RefuseDecision, Documents, Decisions, Conclude, DocKinds,
      DocStatuses, SalesSteps, KindOf, FromStatus, IntoStatus, docvars, salesreqvars
<1>1. \A p \in SalesRequests : Busy(p)'
  BY <1>0, SalesAssumptions DEF SalesInv, SalesTypeOK, RefuseDecision, Conclude, docvars, salesreqvars, Busy, Creating
<1>2. \A p, q \in SalesRequests : Alone(p, q)'
  BY <1>0, SalesAssumptions DEF SalesInv, SalesTypeOK, RefuseDecision, Conclude, docvars, salesreqvars, Alone,
      Creating, Busy
<1>3. \A e \in Documents : Numbered(e)'
  BY <1>0, SalesAssumptions DEF SalesInv, SalesTypeOK, RefuseDecision, Conclude, docvars, salesreqvars, Numbered,
      Claimed, Inserting, KindOf, DocKinds
<1>4. \A p \in SalesRequests : Claimed(p)'
  BY <1>0, SalesAssumptions DEF SalesInv, SalesTypeOK, RefuseDecision, Conclude, docvars, salesreqvars, Claimed,
      Inserting, KindOf, DocKinds, Busy
<1>5. \A p, q \in SalesRequests : ClaimsDiffer(p, q)'
  BY <1>0, SalesAssumptions DEF SalesInv, SalesTypeOK, RefuseDecision, Conclude, docvars, salesreqvars, ClaimsDiffer,
      Claimed, Inserting, KindOf, DocKinds, Busy
<1>6. \A e, f \in Documents : DocumentsDiffer(e, f)'
  BY <1>0, SalesAssumptions DEF SalesInv, SalesTypeOK, RefuseDecision, Conclude, docvars, salesreqvars,
      DocumentsDiffer, ClaimFree, Inserting, KindOf, Busy
<1>7. \A p \in SalesRequests, e \in Documents : ClaimFree(p, e)'
  BY <1>0, SalesAssumptions DEF SalesInv, SalesTypeOK, RefuseDecision, Conclude, docvars, salesreqvars, ClaimFree,
      ClaimsDiffer, Claimed, Numbered, Inserting, KindOf, DocKinds, Busy
<1>8. \A p \in SalesRequests : MovedOn(p)'
  BY <1>0, SalesAssumptions DEF SalesInv, SalesTypeOK, RefuseDecision, Conclude, docvars, salesreqvars, MovedOn,
      Decided, Beyond, Busy, Creating, Decisions, FromStatus, IntoStatus
<1>9. \A p, q \in SalesRequests : AloneDeciding(p, q)'
  BY <1>0, SalesAssumptions DEF SalesInv, SalesTypeOK, RefuseDecision, Conclude, docvars, salesreqvars, AloneDeciding,
      MovedOn, Decided, Beyond, Busy, Creating, Decisions, FromStatus, IntoStatus
<1>10. ShownStays'
  BY <1>0, SalesAssumptions DEF SalesInv, SalesTypeOK, RefuseDecision, Conclude, docvars, salesreqvars, ShownStays,
      Busy, Creating, Decisions, FromStatus, IntoStatus
<1> QED  BY <1>0, <1>1, <1>2, <1>3, <1>4, <1>5, <1>6, <1>7, <1>8, <1>9, <1>10 DEF SalesInv

\* The audit row of a decision.
LEMMA AuditDecisionKeeps ==
  ASSUME NEW r \in SalesRequests, SalesInv, AuditDecision(r)
  PROVE  SalesInv'
<1>0. SalesTypeOK'
  BY SalesAssumptions DEF SalesInv, Busy, SalesTypeOK, AuditDecision, Documents, Decisions, Conclude, DocKinds,
      DocStatuses, SalesSteps, KindOf, FromStatus, IntoStatus, docvars, salesreqvars
<1>1. \A p \in SalesRequests : Busy(p)'
  BY <1>0, SalesAssumptions DEF SalesInv, SalesTypeOK, AuditDecision, Conclude, docvars, salesreqvars, Busy, Creating
<1>2. \A p, q \in SalesRequests : Alone(p, q)'
  BY <1>0, SalesAssumptions DEF SalesInv, SalesTypeOK, AuditDecision, Conclude, docvars, salesreqvars, Alone,
      Creating, Busy
<1>3. \A e \in Documents : Numbered(e)'
  BY <1>0, SalesAssumptions DEF SalesInv, SalesTypeOK, AuditDecision, Conclude, docvars, salesreqvars, Numbered,
      Claimed, Inserting, KindOf, DocKinds
<1>4. \A p \in SalesRequests : Claimed(p)'
  BY <1>0, SalesAssumptions DEF SalesInv, SalesTypeOK, AuditDecision, Conclude, docvars, salesreqvars, Claimed,
      Inserting, KindOf, DocKinds, Busy
<1>5. \A p, q \in SalesRequests : ClaimsDiffer(p, q)'
  BY <1>0, SalesAssumptions DEF SalesInv, SalesTypeOK, AuditDecision, Conclude, docvars, salesreqvars, ClaimsDiffer,
      Claimed, Inserting, KindOf, DocKinds, Busy
<1>6. \A e, f \in Documents : DocumentsDiffer(e, f)'
  BY <1>0, SalesAssumptions DEF SalesInv, SalesTypeOK, AuditDecision, Conclude, docvars, salesreqvars,
      DocumentsDiffer, ClaimFree, Inserting, KindOf, Busy
<1>7. \A p \in SalesRequests, e \in Documents : ClaimFree(p, e)'
  BY <1>0, SalesAssumptions DEF SalesInv, SalesTypeOK, AuditDecision, Conclude, docvars, salesreqvars, ClaimFree,
      ClaimsDiffer, Claimed, Numbered, Inserting, KindOf, DocKinds, Busy
<1>8. \A p \in SalesRequests : MovedOn(p)'
  BY <1>0, SalesAssumptions DEF SalesInv, SalesTypeOK, AuditDecision, Conclude, docvars, salesreqvars, MovedOn,
      Decided, Beyond, Busy, Creating, Decisions, FromStatus, IntoStatus
<1>9. \A p, q \in SalesRequests : AloneDeciding(p, q)'
  BY <1>0, SalesAssumptions DEF SalesInv, SalesTypeOK, AuditDecision, Conclude, docvars, salesreqvars, AloneDeciding,
      MovedOn, Decided, Beyond, Busy, Creating, Decisions, FromStatus, IntoStatus
<1>10. ShownStays'
  BY <1>0, SalesAssumptions DEF SalesInv, SalesTypeOK, AuditDecision, Conclude, docvars, salesreqvars, ShownStays,
      Busy, Creating, Decisions, FromStatus, IntoStatus
<1> QED  BY <1>0, <1>1, <1>2, <1>3, <1>4, <1>5, <1>6, <1>7, <1>8, <1>9, <1>10 DEF SalesInv

\* A client opens a document.
LEMMA ViewPublicKeeps ==
  ASSUME NEW d \in Documents, SalesInv, ViewPublic(d)
  PROVE  SalesInv'
<1>0. SalesTypeOK'
  BY SalesAssumptions DEF SalesInv, Busy, SalesTypeOK, ViewPublic, Documents, Decisions, Conclude, DocKinds,
      DocStatuses, SalesSteps, KindOf, FromStatus, IntoStatus, docvars, salesreqvars
<1>1. \A p \in SalesRequests : Busy(p)'
  BY <1>0, SalesAssumptions DEF SalesInv, SalesTypeOK, ViewPublic, Conclude, docvars, salesreqvars, Busy, Creating
<1>2. \A p, q \in SalesRequests : Alone(p, q)'
  BY <1>0, SalesAssumptions DEF SalesInv, SalesTypeOK, ViewPublic, Conclude, docvars, salesreqvars, Alone, Creating,
      Busy
<1>3. \A e \in Documents : Numbered(e)'
  BY <1>0, SalesAssumptions DEF SalesInv, SalesTypeOK, ViewPublic, Conclude, docvars, salesreqvars, Numbered, Claimed,
      Inserting, KindOf, DocKinds
<1>4. \A p \in SalesRequests : Claimed(p)'
  BY <1>0, SalesAssumptions DEF SalesInv, SalesTypeOK, ViewPublic, Conclude, docvars, salesreqvars, Claimed,
      Inserting, KindOf, DocKinds, Busy
<1>5. \A p, q \in SalesRequests : ClaimsDiffer(p, q)'
  BY <1>0, SalesAssumptions DEF SalesInv, SalesTypeOK, ViewPublic, Conclude, docvars, salesreqvars, ClaimsDiffer,
      Claimed, Inserting, KindOf, DocKinds, Busy
<1>6. \A e, f \in Documents : DocumentsDiffer(e, f)'
  BY <1>0, SalesAssumptions DEF SalesInv, SalesTypeOK, ViewPublic, Conclude, docvars, salesreqvars, DocumentsDiffer,
      ClaimFree, Inserting, KindOf, Busy
<1>7. \A p \in SalesRequests, e \in Documents : ClaimFree(p, e)'
  BY <1>0, SalesAssumptions DEF SalesInv, SalesTypeOK, ViewPublic, Conclude, docvars, salesreqvars, ClaimFree,
      ClaimsDiffer, Claimed, Numbered, Inserting, KindOf, DocKinds, Busy
<1>8. \A p \in SalesRequests : MovedOn(p)'
  BY <1>0, SalesAssumptions DEF SalesInv, SalesTypeOK, ViewPublic, Conclude, docvars, salesreqvars, MovedOn, Decided,
      Beyond, Busy, Creating, Decisions, FromStatus, IntoStatus
<1>9. \A p, q \in SalesRequests : AloneDeciding(p, q)'
  BY <1>0, SalesAssumptions DEF SalesInv, SalesTypeOK, ViewPublic, Conclude, docvars, salesreqvars, AloneDeciding,
      MovedOn, Decided, Beyond, Busy, Creating, Decisions, FromStatus, IntoStatus
<1>10. ShownStays'
  BY <1>0, SalesAssumptions DEF SalesInv, DocStatuses, SalesTypeOK, ViewPublic, Conclude, docvars, salesreqvars,
      ShownStays, Busy, Creating, Decisions, FromStatus, IntoStatus
<1> QED  BY <1>0, <1>1, <1>2, <1>3, <1>4, <1>5, <1>6, <1>7, <1>8, <1>9, <1>10 DEF SalesInv

-----------------------------------------------------------------------------
\* Every step keeps the invariant.
LEMMA InvStep == SalesInv /\ [SalesNext]_salesVars => SalesInv'
<1> SUFFICES ASSUME SalesInv, SalesStep PROVE SalesInv'
  BY StepCases
<1>1. CASE \E r \in SalesRequests, d \in Documents : StartCreate(r, d)
  BY <1>1, StartCreateKeeps
<1>2. CASE \E r \in SalesRequests : BeginQuote(r)
  BY <1>2, BeginQuoteKeeps
<1>3. CASE \E r \in SalesRequests : ClaimNumber(r)
  BY <1>3, ClaimNumberKeeps
<1>4. CASE \E r \in SalesRequests : InsertDocument(r)
  BY <1>4, InsertDocumentKeeps
<1>5. CASE \E r \in SalesRequests : step[r] \notin {"idle", "done"} /\ FailRequest(r)
  BY <1>5, FailRequestKeeps
<1>6. CASE \E r \in SalesRequests, d \in Documents, o \in Decisions : ReadDocument(r, o, d)
  BY <1>6, ReadDocumentKeeps
<1>7. CASE \E r \in SalesRequests : Decide(r)
  BY <1>7, DecideKeeps
<1>8. CASE \E r \in SalesRequests : RefuseDecision(r)
  BY <1>8, RefuseDecisionKeeps
<1>9. CASE \E r \in SalesRequests : AuditDecision(r)
  BY <1>9, AuditDecisionKeeps
<1>10. CASE \E d \in Documents : ViewPublic(d)
  BY <1>10, ViewPublicKeeps
<1>11. CASE UNCHANGED salesVars
  BY <1>11 DEF SalesInv, SalesTypeOK, Busy, Creating, Alone, Numbered, Claimed, ClaimsDiffer, DocumentsDiffer,
      ClaimFree,
      Inserting, MovedOn, Decided, AloneDeciding, ShownStays, salesVars, docvars, salesreqvars
<1> QED  BY <1>1, <1>2, <1>3, <1>4, <1>5, <1>6, <1>7, <1>8, <1>9, <1>10, <1>11 DEF SalesStep

\* The invariant holds in every reachable state.
THEOREM SalesInvariant == SalesSpec => []SalesInv
<1> QED  BY InvInit, InvStep, PTL DEF SalesSpec

(***************************************************************************)
(* Type correctness of quotes, invoices and the requests about them.       *)
(***************************************************************************)
THEOREM SalesTypeCorrect == SalesSpec => []SalesTypeOK
<1>1. SalesInv => SalesTypeOK
  BY DEF SalesInv
<1> QED  BY <1>1, SalesInvariant, PTL

(***************************************************************************)
(* However many requests claim numbers at once, fail or are aborted, no    *)
(* two documents of a kind have the same number.                           *)
(***************************************************************************)
THEOREM NumbersUniqueCorrect == SalesSpec => []NumbersUnique
<1>1. SalesInv => NumbersUnique
  BY DEF SalesInv, NumbersUnique, DocumentsDiffer, ClaimFree
<1> QED  BY <1>1, SalesInvariant, PTL

(***************************************************************************)
(* A document that a client was shown is never a draft again, nor deleted, *)
(* however sending and deleting it race.                                   *)
(***************************************************************************)
THEOREM ShownStaysCorrect == SalesSpec => []ShownStays
<1>1. SalesInv => ShownStays
  BY DEF SalesInv
<1> QED  BY <1>1, SalesInvariant, PTL

(***************************************************************************)
(* Of any number of requests that decide the same question about a         *)
(* document one at most is told that it succeeded.                         *)
(***************************************************************************)
THEOREM OneDecisionCorrect == SalesSpec => []OneDecision
<1>1. SalesInv => OneDecision
  BY DEF SalesInv, OneDecision, AloneDeciding, Decided
<1> QED  BY <1>1, SalesInvariant, PTL

-----------------------------------------------------------------------------
(* The gaps in the numbers.                                                *)

\* Number n of kind k is on a document, about to be, or lost.
Accounted(k, n) ==
    \/ \E d \in Documents : KindOf(d) = k /\ docNumber[d] = n
    \/ \E r \in SalesRequests : Inserting(r) /\ KindOf(about[r]) = k /\ claim[r] = n
    \/ <<k, n>> \in lostNumbers

AccountInv ==
    /\ \A d \in Documents : docStatus[d] = "none" => docNumber[d] = None
    /\ \A k \in DocKinds : \A n \in 1..counter[k] : Accounted(k, n)

\* The initial state: no number is claimed.
LEMMA AccountInvInit == SalesInit => AccountInv
  BY DEF SalesInit, AccountInv

\* A number is claimed: the new one is about to be on a document.
LEMMA ClaimAccounts ==
  ASSUME SalesInv, AccountInv, NEW r \in SalesRequests, ClaimNumber(r)
  PROVE  AccountInv'
<1>1. about[r] \in Documents /\ KindOf(about[r]) \in DocKinds /\ counter \in [DocKinds -> Nat]
  BY DEF SalesInv, SalesTypeOK, Busy, ClaimNumber, KindOf, DocKinds
<1>2. UNCHANGED <<docStatus, docNumber, about, lostNumbers>> /\ step' = [step EXCEPT ![r] = "insert"]
      /\ claim' = [claim EXCEPT ![r] = counter[KindOf(about[r])] + 1] /\ step[r] = "number"
  BY DEF ClaimNumber
<1>3. DOMAIN step = SalesRequests /\ DOMAIN claim = SalesRequests
  BY DEF SalesInv, SalesTypeOK
<1>4. Inserting(r)' /\ (KindOf(about[r]) = KindOf(about[r]))' /\ claim'[r] = counter[KindOf(about[r])] + 1
  BY <1>2, <1>3 DEF Inserting
<1>5. ASSUME NEW k \in DocKinds, NEW n, Accounted(k, n) PROVE Accounted(k, n)'
  <2>1. CASE \E q \in SalesRequests : Inserting(q) /\ KindOf(about[q]) = k /\ claim[q] = n
    <3>1. PICK q \in SalesRequests : Inserting(q) /\ KindOf(about[q]) = k /\ claim[q] = n
      BY <2>1
    <3>2. q # r
      BY <1>2, <3>1 DEF Inserting
    <3> QED  BY <1>2, <1>3, <3>1, <3>2 DEF Accounted, Inserting, KindOf
  <2>2. CASE (\E d \in Documents : KindOf(d) = k /\ docNumber[d] = n) \/ <<k, n>> \in lostNumbers
    BY <1>2, <2>2 DEF Accounted, KindOf
  <2> QED  BY <1>5, <2>1, <2>2 DEF Accounted
<1>6. ASSUME NEW k \in DocKinds, NEW n \in 1..counter'[k] PROVE Accounted(k, n)'
  <2>1. CASE n \in 1..counter[k]
    BY <1>5, <2>1 DEF AccountInv
  <2>2. CASE n \notin 1..counter[k]
    <3>1. counter[k] \in Nat /\ counter[KindOf(about[r])] \in Nat
      BY <1>1
    <3>2. counter'[k] = IF k = KindOf(about[r]) THEN counter[KindOf(about[r])] + 1 ELSE counter[k]
      BY <1>1 DEF ClaimNumber
    <3>3. k = KindOf(about[r]) /\ n = counter[k] + 1
      BY <2>2, <3>1, <3>2
    <3> QED  BY <1>2, <1>4, <3>3 DEF Accounted, KindOf
  <2> QED  BY <2>1, <2>2
<1> QED  BY <1>2, <1>6 DEF AccountInv

\* A document is inserted: its number goes from the request to the document, which had none.
LEMMA InsertAccounts ==
  ASSUME SalesInv, AccountInv, NEW r \in SalesRequests, InsertDocument(r)
  PROVE  AccountInv'
<1>1. /\ about[r] \in Documents /\ docStatus[about[r]] = "none" /\ docNumber[about[r]] = None /\ claim[r] \in Nat
      /\ DOMAIN docStatus = Documents /\ DOMAIN docNumber = Documents /\ DOMAIN step = SalesRequests
  BY DEF SalesInv, SalesTypeOK, Busy, Creating, Claimed, Inserting, InsertDocument, AccountInv
<1>2. /\ UNCHANGED <<counter, about, claim, lostNumbers>> /\ step' = [step EXCEPT ![r] = "done"]
      /\ docStatus' = [docStatus EXCEPT ![about[r]] = "draft"] /\ docNumber' = [docNumber EXCEPT ![about[r]] = claim[r]]
  BY DEF InsertDocument, Conclude
<1>3. ASSUME NEW k \in DocKinds, NEW n \in 1..counter[k], Accounted(k, n) PROVE Accounted(k, n)'
  <2>1. CASE \E d \in Documents : KindOf(d) = k /\ docNumber[d] = n
    <3>1. PICK d \in Documents : KindOf(d) = k /\ docNumber[d] = n
      BY <2>1
    <3>2. n # None
      BY SalesAssumptions DEF SalesInv, SalesTypeOK
    <3> QED  BY <1>1, <1>2, <3>1, <3>2 DEF Accounted, KindOf
  <2>2. CASE \E q \in SalesRequests : Inserting(q) /\ KindOf(about[q]) = k /\ claim[q] = n
    <3>1. PICK q \in SalesRequests : Inserting(q) /\ KindOf(about[q]) = k /\ claim[q] = n
      BY <2>2
    <3>2. CASE q = r
      BY <1>1, <1>2, <3>1, <3>2 DEF Accounted, KindOf
    <3>3. CASE q # r
      BY <1>1, <1>2, <3>1, <3>3 DEF Accounted, Inserting, KindOf
    <3> QED  BY <3>2, <3>3
  <2>3. CASE <<k, n>> \in lostNumbers
    BY <1>2, <2>3 DEF Accounted
  <2> QED  BY <1>3, <2>1, <2>2, <2>3 DEF Accounted
<1> QED  BY <1>1, <1>2, <1>3 DEF AccountInv

\* A request fails: the number it has claimed is lost.
LEMMA FailAccounts ==
  ASSUME SalesInv, AccountInv, NEW r \in SalesRequests, FailRequest(r)
  PROVE  AccountInv'
<1>1. /\ UNCHANGED <<counter, docStatus, docNumber, about, claim>> /\ step' = [step EXCEPT ![r] = "done"]
      /\ lostNumbers' = lostNumbers \cup (IF step[r] = "insert" THEN {<<KindOf(about[r]), claim[r]>>} ELSE {})
  BY DEF FailRequest, Conclude, docvars
<1>2. DOMAIN step = SalesRequests
  BY DEF SalesInv, SalesTypeOK
<1>3. ASSUME NEW k \in DocKinds, NEW n, Accounted(k, n) PROVE Accounted(k, n)'
  <2>1. CASE \E q \in SalesRequests : Inserting(q) /\ KindOf(about[q]) = k /\ claim[q] = n
    <3>1. PICK q \in SalesRequests : Inserting(q) /\ KindOf(about[q]) = k /\ claim[q] = n
      BY <2>1
    <3>2. CASE q = r
      BY <1>1, <3>1, <3>2 DEF Accounted, Inserting
    <3>3. CASE q # r
      BY <1>1, <1>2, <3>1, <3>3 DEF Accounted, Inserting, KindOf
    <3> QED  BY <3>2, <3>3
  <2>2. CASE (\E d \in Documents : KindOf(d) = k /\ docNumber[d] = n) \/ <<k, n>> \in lostNumbers
    BY <1>1, <2>2 DEF Accounted, KindOf
  <2> QED  BY <1>3, <2>1, <2>2 DEF Accounted
<1> QED  BY <1>1, <1>3 DEF AccountInv

\* The other steps leave the numbers alone, and no insertion is ended by them.
LEMMA OthersAccount ==
  ASSUME SalesInv, AccountInv, UNCHANGED <<counter, docNumber, claim, lostNumbers>>,
         \A d \in Documents : docStatus'[d] = "none" => docStatus[d] = "none",
         \A q \in SalesRequests : Inserting(q) => Inserting(q)' /\ about'[q] = about[q]
  PROVE  AccountInv'
<1>1. ASSUME NEW k \in DocKinds, NEW n, Accounted(k, n) PROVE Accounted(k, n)'
  BY <1>1 DEF Accounted, KindOf
<1> QED  BY <1>1 DEF AccountInv

\* Every step keeps the invariant.
LEMMA AccountInvStep == SalesInv /\ AccountInv /\ [SalesNext]_salesVars => AccountInv'
<1> SUFFICES ASSUME SalesInv, AccountInv, SalesStep PROVE AccountInv'
  BY StepCases
<1>1. CASE \E r \in SalesRequests : ClaimNumber(r)
  BY <1>1, ClaimAccounts
<1>2. CASE \E r \in SalesRequests : InsertDocument(r)
  BY <1>2, InsertAccounts
<1>3. CASE \E r \in SalesRequests : step[r] \notin {"idle", "done"} /\ FailRequest(r)
  BY <1>3, FailAccounts
<1>4. CASE \E r \in SalesRequests : Decide(r)
  <2>1. PICK r \in SalesRequests : Decide(r)
    BY <1>4
  <2>2. \A d \in Documents : docStatus'[d] = "none" => docStatus[d] = "none"
    BY <2>1 DEF Decide, IntoStatus, SalesInv, SalesTypeOK
  <2>3. \A q \in SalesRequests : Inserting(q) => Inserting(q)' /\ about'[q] = about[q]
    BY <2>1 DEF Decide, Conclude, Inserting, SalesInv, SalesTypeOK
  <2> QED  BY <2>1, <2>2, <2>3, OthersAccount DEF Decide
<1>5. ASSUME NEW r \in SalesRequests,
             \/ \E d \in Documents : StartCreate(r, d) \/ \E o \in Decisions : ReadDocument(r, o, d)
             \/ BeginQuote(r) \/ RefuseDecision(r) \/ AuditDecision(r)
      PROVE  AccountInv'
  <2>1. UNCHANGED <<docvars, claim, lostNumbers>>
    BY <1>5 DEF StartCreate, ReadDocument, BeginQuote, RefuseDecision, AuditDecision
  <2>2. \A q \in SalesRequests : Inserting(q) => Inserting(q)' /\ about'[q] = about[q]
    BY <1>5 DEF StartCreate, ReadDocument, BeginQuote, RefuseDecision, AuditDecision, Conclude, Inserting,
        SalesInv, SalesTypeOK
  <2> QED  BY <2>1, <2>2, OthersAccount DEF docvars
<1>6. CASE (\E d \in Documents : ViewPublic(d)) \/ UNCHANGED salesVars
  BY <1>6, OthersAccount DEF ViewPublic, salesVars, docvars, salesreqvars, Inserting
<1> QED  BY <1>1, <1>2, <1>3, <1>4, <1>5, <1>6 DEF SalesStep

(***************************************************************************)
(* A gap in the numbers is always explained by a creation that failed      *)
(* after its claim, or that is still under way.                            *)
(***************************************************************************)
THEOREM NumbersAccountedCorrect == SalesSpec => []NumbersAccounted
<1>1. SalesInv /\ AccountInv /\ [SalesNext]_salesVars => (SalesInv /\ AccountInv)'
  BY InvStep, AccountInvStep
<1>2. AccountInv => NumbersAccounted
  BY DEF AccountInv, Accounted, NumbersAccounted
<1> QED  BY <1>1, <1>2, InvInit, AccountInvInit, PTL DEF SalesSpec

=============================================================================
