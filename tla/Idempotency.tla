---------------------------- MODULE Idempotency ----------------------------
(***************************************************************************)
(* server/src/lib/idempotency.ts: withIdempotency and runAsLeader, the     *)
(* lease and fencing-token protocol that the document-creating routes run  *)
(* under, for one (company, operation, key) triple.                        *)
(*                                                                         *)
(* Each request is one call of withIdempotency.  A request inserts a claim *)
(* or steals an expired one at most once in its life (both return through  *)
(* runAsLeader), so the random ownerToken and the generated row id are     *)
(* represented by the request that made them.  Every action is one SQL     *)
(* statement, one timer callback or one passage of time; what happens      *)
(* between two statements of a request is therefore everything the other   *)
(* requests can do.                                                        *)
(***************************************************************************)
EXTENDS Naturals, Absent

CONSTANTS
  Requests,         \* the calls that carry the key
  BodyOf,           \* [Requests -> bodies]
  Faults,           \* which of FaultKinds the environment may produce
  LeaseTicks,       \* LEASE_DURATION_MS, in clock ticks
  HeartbeatTicks,   \* HEARTBEAT_INTERVAL_MS, in clock ticks
  MaxMissed,        \* renewals in a row that a running leader may miss
  ClaimAttempts,    \* CLAIM_ATTEMPTS
  PollAttempts      \* POLL_ATTEMPTS

\* "crash": the process dies; "freeze": its event loop stops for a while;
\* "db": a statement of the bookkeeping fails, or the acknowledgement of the
\* handler's COMMIT is lost; "ack": that of the completion UPDATE is lost.
FaultKinds == {"crash", "freeze", "db", "ack"}

ASSUME FaultsAssumption == Faults \subseteq FaultKinds
ASSUME NoneAssumption == None \notin Requests
ASSUME AttemptsAssumption ==
  ClaimAttempts \in Nat \ {0} /\ PollAttempts \in Nat \ {0}
\* "HEARTBEAT_INTERVAL_MS gives 3+ renewal attempts within a single lease
\* period": a lease outlives MaxMissed missed renewals and the next one.
ASSUME TimingAssumption ==
  /\ LeaseTicks \in Nat /\ HeartbeatTicks \in Nat \ {0} /\ MaxMissed \in Nat
  /\ (MaxMissed + 1) * HeartbeatTicks < LeaseTicks

VARIABLES
  status,    \* the idempotency_keys row of the triple: "absent" when there is
             \* none, else its status column
  rowId,     \* its id, named by the request that inserted it
  owner,     \* ownerToken, named by the request it belongs to
  by,        \* requestFingerprint, named by the request it was computed from
  lease,     \* ticks before leaseExpiresAt is reached
  response,  \* the document of responseBody
  pc,        \* where each request is
  seen,      \* id of the expired row a request read before trying to steal it
  tries,     \* claimAttempt + 1
  polls,     \* attempt, of the polling loop
  beat,      \* ticks since the leader's last heartbeat
  missed,    \* renewals in a row it has missed
  stall,     \* "never", "now" or "past": has its event loop been frozen
  docs,      \* requests whose handler committed its document
  reply      \* what each request was answered

rowVars == <<status, rowId, owner, by, lease, response>>
loopVars == <<seen, tries, polls>>
timerVars == <<beat, missed, stall>>
vars == <<status, rowId, owner, by, lease, response, pc, seen, tries, polls, beat, missed, stall, docs, reply>>

Promise == INSTANCE IdempotentOperation
             WITH outcome <- response

Answer(kind, doc) == [kind |-> kind, doc |-> doc]

NoAnswer == Answer("none", None)

Exists == status # "absent"
\* Mutant: a claim counts as abandoned although its lease still runs.
ExpiredWhilePending == status = "pending"
Expired == status = "pending" /\ lease = 0
Owns(p) == Exists /\ owner = p

LeaderPcs == {"handler", "committed", "release"}
Leading(p) == pc[p] \in LeaderPcs

TypeOK ==
  /\ status \in {"absent", "pending", "completed"}
  /\ rowId \in Requests \cup {None}
  /\ owner \in Requests \cup {None}
  /\ by \in Requests \cup {None}
  /\ response \in Requests \cup {None}
  /\ lease \in 0..LeaseTicks
  /\ pc \in [Requests -> {"idle", "claim", "poll", "steal", "done", "crashed"} \cup LeaderPcs]
  /\ seen \in [Requests -> Requests \cup {None}]
  /\ tries \in [Requests -> 0..ClaimAttempts]
  /\ polls \in [Requests -> 0..PollAttempts]
  /\ beat \in [Requests -> 0..HeartbeatTicks]
  /\ missed \in [Requests -> 0..MaxMissed]
  /\ stall \in [Requests -> {"never", "now", "past"}]
  /\ docs \subseteq Requests
  /\ reply \in [Requests -> Promise!Answers]

Init ==
  /\ status = "absent" /\ lease = 0
  /\ rowId = None /\ owner = None /\ by = None /\ response = None
  /\ pc = [p \in Requests |-> "idle"]
  /\ seen = [p \in Requests |-> None]
  /\ tries = [p \in Requests |-> 0]
  /\ polls = [p \in Requests |-> 0]
  /\ beat = [p \in Requests |-> 0]
  /\ missed = [p \in Requests |-> 0]
  /\ stall = [p \in Requests |-> "never"]
  /\ docs = {}
  /\ reply = [p \in Requests |-> NoAnswer]

-----------------------------------------------------------------------------
(* Steps of a request.  A request whose event loop is frozen takes none.   *)

At(p, label) == pc[p] = label /\ stall[p] # "now"

Goto(p, label) == pc' = [pc EXCEPT ![p] = label]

Finish(p, answer) ==
  /\ Goto(p, "done")
  /\ reply' = [reply EXCEPT ![p] = answer]

\* The local variables of the claim loop are dead once it is left, and the
\* heartbeat is cleared when runAsLeader is left.
LeaveLoop(p) ==
  /\ seen' = [seen EXCEPT ![p] = None]
  /\ tries' = [tries EXCEPT ![p] = 0]
  /\ polls' = [polls EXCEPT ![p] = 0]

ClearHeartbeat(p) ==
  /\ beat' = [beat EXCEPT ![p] = 0]
  /\ missed' = [missed EXCEPT ![p] = 0]

Arrive(p) ==
  /\ At(p, "idle")
  /\ Goto(p, "claim")
  /\ tries' = [tries EXCEPT ![p] = 1]
  /\ UNCHANGED <<rowVars, seen, polls, timerVars, docs, reply>>

\* runAsLeader: the heartbeat timer starts, then the handler.
StartLeading(p) ==
  /\ Goto(p, "handler")
  /\ LeaveLoop(p)
  /\ UNCHANGED timerVars

InsertRow(p) ==
  /\ status' = "pending" /\ lease' = LeaseTicks
  /\ rowId' = p /\ owner' = p /\ by' = p /\ response' = None

DeleteRow ==
  /\ status' = "absent" /\ lease' = 0
  /\ rowId' = None /\ owner' = None /\ by' = None /\ response' = None

CompleteRow(p) ==
  /\ status' = "completed" /\ response' = p
  /\ UNCHANGED <<rowId, owner, by, lease>>

\* INSERT ... ON CONFLICT DO NOTHING.
Claim(p) ==
  /\ At(p, "claim")
  /\ \/ /\ ~Exists
        /\ InsertRow(p)
        /\ StartLeading(p)
     \/ /\ Exists
        /\ Goto(p, "poll")
        /\ polls' = [polls EXCEPT ![p] = 0]
        /\ UNCHANGED <<rowVars, seen, tries, timerVars>>
  /\ UNCHANGED <<docs, reply>>

\* The next turn of the claim loop, or its end.
NextAttempt(p) ==
  \/ /\ tries[p] < ClaimAttempts
     /\ tries' = [tries EXCEPT ![p] = @ + 1]
     /\ Goto(p, "claim")
     /\ UNCHANGED <<seen, polls, reply>>
  \/ /\ tries[p] = ClaimAttempts
     /\ Finish(p, Answer("failed", None))
     /\ LeaveLoop(p)

\* Mutant: the fingerprint of a completed row is not compared.
PollCompletedAnyBody(p) ==
  /\ At(p, "poll") /\ polls[p] < PollAttempts
  /\ status = "completed"
  /\ Finish(p, Answer("replayed", response))
  /\ LeaveLoop(p)
  /\ UNCHANGED <<rowVars, timerVars, docs>>

PollCompleted(p) ==
  /\ At(p, "poll") /\ polls[p] < PollAttempts
  /\ status = "completed"
  /\ Finish(p, IF BodyOf[by] = BodyOf[p]
                 THEN Answer("replayed", response)
                 ELSE Answer("conflict", None))
  /\ LeaveLoop(p)
  /\ UNCHANGED <<rowVars, timerVars, docs>>

PollReleased(p) ==
  /\ At(p, "poll") /\ polls[p] < PollAttempts
  /\ ~Exists
  /\ NextAttempt(p)
  /\ UNCHANGED <<rowVars, timerVars, docs>>

PollExpired(p) ==
  /\ At(p, "poll") /\ polls[p] < PollAttempts
  /\ Expired
  /\ seen' = [seen EXCEPT ![p] = rowId]
  /\ Goto(p, "steal")
  /\ UNCHANGED <<rowVars, tries, polls, timerVars, docs, reply>>

\* Mutant: the polling loop does not count its attempts.
PollPendingForever(p) ==
  /\ At(p, "poll") /\ polls[p] < PollAttempts
  /\ status = "pending" /\ ~Expired
  /\ UNCHANGED vars

PollPending(p) ==
  /\ At(p, "poll") /\ polls[p] < PollAttempts
  /\ status = "pending" /\ ~Expired
  /\ polls' = [polls EXCEPT ![p] = @ + 1]
  /\ UNCHANGED <<rowVars, pc, seen, tries, timerVars, docs, reply>>

PollWindowOver(p) ==
  /\ At(p, "poll") /\ polls[p] = PollAttempts
  /\ NextAttempt(p)
  /\ UNCHANGED <<rowVars, timerVars, docs>>

\* Mutant: the UPDATE does not re-check what the poll has read.
StealUnexpired(p) ==
  /\ At(p, "steal")
  /\ status = "pending"
  /\ owner' = p /\ by' = p /\ lease' = LeaseTicks
  /\ UNCHANGED <<status, rowId, response>>
  /\ StartLeading(p)
  /\ UNCHANGED <<docs, reply>>

\* The UPDATE re-checks id, status and expiry; it also replaces the
\* fingerprint by the stealer's own.
Steal(p) ==
  /\ At(p, "steal")
  /\ \/ /\ Expired /\ rowId = seen[p]
        /\ owner' = p /\ by' = p /\ lease' = LeaseTicks
        /\ UNCHANGED <<status, rowId, response>>
        /\ StartLeading(p)
     \/ /\ ~(Expired /\ rowId = seen[p])
        /\ Goto(p, "poll")
        /\ polls' = [polls EXCEPT ![p] = @ + 1]
        /\ seen' = [seen EXCEPT ![p] = None]
        /\ UNCHANGED <<rowVars, tries, timerVars>>
  /\ UNCHANGED <<docs, reply>>

\* The caller's handler: one transaction that inserts the document.
HandlerCommits(p) ==
  /\ At(p, "handler")
  /\ docs' = docs \cup {p}
  /\ \/ Goto(p, "committed")
     \/ "db" \in Faults /\ Goto(p, "release")
  /\ UNCHANGED <<rowVars, loopVars, timerVars, reply>>

HandlerFails(p) ==
  /\ At(p, "handler")
  /\ Goto(p, "release")
  /\ UNCHANGED <<rowVars, loopVars, timerVars, docs, reply>>

\* The completion UPDATE, conditioned on the owner token.
Complete(p) ==
  /\ At(p, "committed")
  /\ \/ /\ Owns(p)
        /\ CompleteRow(p)
        /\ Finish(p, Answer("created", p))
        /\ ClearHeartbeat(p)
     \/ /\ ~Owns(p)                          \* IdempotencyLeaseLostError
        /\ Goto(p, "release")
        /\ UNCHANGED <<rowVars, beat, missed, reply>>
  /\ UNCHANGED <<loopVars, stall, docs>>

\* The UPDATE raises an error: it was not applied, or (only with "ack") it
\* was.
CompleteErrs(p) ==
  /\ At(p, "committed")
  /\ \/ "db" \in Faults /\ UNCHANGED rowVars
     \/ "ack" \in Faults /\ Owns(p)
        /\ CompleteRow(p)
  /\ Goto(p, "release")
  /\ UNCHANGED <<loopVars, timerVars, docs, reply>>

\* The conditional DELETE of the catch block; the error is rethrown.
Release(p) ==
  /\ At(p, "release")
  /\ IF Owns(p) THEN DeleteRow ELSE UNCHANGED rowVars
  /\ Finish(p, Answer("failed", None))
  /\ ClearHeartbeat(p)
  /\ UNCHANGED <<loopVars, stall, docs>>

ReleaseErrs(p) ==
  /\ "db" \in Faults
  /\ At(p, "release")
  /\ Finish(p, Answer("failed", None))
  /\ ClearHeartbeat(p)
  /\ UNCHANGED <<rowVars, loopVars, stall, docs>>

-----------------------------------------------------------------------------
(* Timers, time and faults.                                                *)

HeartbeatDue(p) == Leading(p) /\ stall[p] # "now" /\ beat[p] = HeartbeatTicks

Renew(p) ==
  /\ HeartbeatDue(p)
  /\ lease' = IF Owns(p) /\ status = "pending" THEN LeaseTicks ELSE lease
  /\ beat' = [beat EXCEPT ![p] = 0]
  /\ missed' = [missed EXCEPT ![p] = 0]
  /\ UNCHANGED <<status, rowId, owner, by, response, pc, loopVars, stall, docs, reply>>

\* A renewal that fails is logged and nothing else.
MissRenewal(p) ==
  /\ HeartbeatDue(p) /\ missed[p] < MaxMissed
  /\ beat' = [beat EXCEPT ![p] = 0]
  /\ missed' = [missed EXCEPT ![p] = @ + 1]
  /\ UNCHANGED <<rowVars, pc, loopVars, stall, docs, reply>>

\* setInterval runs on time in every process whose event loop runs.
Tick ==
  /\ \A p \in Requests : ~HeartbeatDue(p)
  /\ status = "pending" /\ lease > 0
  /\ lease' = lease - 1
  /\ beat' = [p \in Requests |->
                IF Leading(p) /\ stall[p] # "now" THEN beat[p] + 1 ELSE beat[p]]
  /\ UNCHANGED <<status, rowId, owner, by, response, pc, loopVars, missed, stall, docs, reply>>

InFlight(p) == pc[p] \notin {"idle", "done", "crashed"}

Crash(p) ==
  /\ "crash" \in Faults
  /\ InFlight(p)
  /\ Goto(p, "crashed")
  /\ LeaveLoop(p)
  /\ ClearHeartbeat(p)
  /\ stall' = [stall EXCEPT ![p] = "past"]
  /\ UNCHANGED <<rowVars, docs, reply>>

Freeze(p) ==
  /\ "freeze" \in Faults
  /\ Leading(p) /\ stall[p] = "never"
  /\ stall' = [stall EXCEPT ![p] = "now"]
  /\ UNCHANGED <<rowVars, pc, loopVars, beat, missed, docs, reply>>

\* The overdue heartbeat is due at once.
Thaw(p) ==
  /\ stall[p] = "now"
  /\ stall' = [stall EXCEPT ![p] = "past"]
  /\ beat' = [beat EXCEPT ![p] = HeartbeatTicks]
  /\ UNCHANGED <<rowVars, pc, loopVars, missed, docs, reply>>

\* Statements the request itself issues, in the order of the code.
Step(p) ==
  \/ Claim(p) \/ PollCompleted(p) \/ PollReleased(p) \/ PollExpired(p) \/ PollPending(p)
  \/ PollWindowOver(p) \/ Steal(p) \/ HandlerCommits(p) \/ HandlerFails(p) \/ Complete(p)
  \/ CompleteErrs(p) \/ Release(p) \/ ReleaseErrs(p)

Timers(p) == Renew(p) \/ MissRenewal(p) \/ Freeze(p) \/ Thaw(p) \/ Crash(p)

Next == Tick \/ \E p \in Requests : Arrive(p) \/ Step(p) \/ Timers(p)

Spec == Init /\ [][Next]_vars

\* Express runs every request it has started, and a frozen event loop
\* resumes; nothing makes a client send a request, and nothing here makes
\* time pass.
Fairness == \A p \in Requests : WF_vars(Step(p)) /\ WF_vars(Thaw(p))

FairSpec == Spec /\ Fairness

-----------------------------------------------------------------------------
(* Properties.                                                             *)

\* Whoever was told of a success, first hand or replayed, was told of the one
\* document that the completed row records; the row is never deleted, stolen
\* or overwritten after that ("a process that DOES lose its claim can never
\* report a false success").
SuccessIsRecorded ==
  \A p \in Requests :
    reply[p].kind \in {"created", "replayed"} =>
      status = "completed" /\ response = reply[p].doc

\* The recorded document was made from a body equal to that of every caller
\* it was replayed to, also when the claim changed hands between different
\* bodies: the fingerprint the row holds is that of the response's request.
FingerprintMatchesResponse ==
  status = "completed" => by = response /\ response \in docs

\* A leader whose event loop never stopped still owns the claim, however
\* slow its handler is ("a live process ... can never lose its claim").
LiveLeaderKeepsClaim ==
  \A p \in Requests : Leading(p) /\ stall[p] = "never" => Owns(p)

\* The request was not frozen or killed, and no statement of its bookkeeping
\* made it answer an error.
Undisturbed(p) ==
  stall[p] = "never" /\ pc[p] # "release" /\ reply[p].kind # "failed"

\* One key inserts at most one document by requests that run undisturbed,
\* whatever befalls the others: a handler is never executed twice because
\* it, or another, is merely slow ("Exactly one concurrent caller for a given
\* key actually executes `handler`").
OneDocument ==
  \A p, q \in docs : Undisturbed(p) /\ Undisturbed(q) => p = q

\* "every other caller -- concurrent or a later retry -- ... replays the
\* leader's stored response": two callers told of a success were told of the
\* same document.
SuccessesAgree ==
  \A p, q \in Requests :
    {reply[p].kind, reply[q].kind} \subseteq {"created", "replayed"} => reply[p].doc = reply[q].doc

\* TypeOK is not inductive without it: a lost steal counts as one more poll.
StealInv == \A p \in Requests : pc[p] = "steal" => polls[p] < PollAttempts

\* The inductive strengthening of SuccessIsRecorded: the row's columns agree,
\* the owner of a completed row has finished, and nobody is answered early.
RowConsistent ==
  /\ status = "absent" => owner = None
  /\ Exists => owner \in Requests /\ by = owner
  /\ status # "completed" => response = None
  /\ status = "completed" => response = owner /\ owner \in docs /\ pc[owner] = "done"

RequestsConsistent ==
  \A p \in Requests :
    /\ pc[p] = "committed" => p \in docs
    /\ pc[p] # "done" => reply[p] = NoAnswer
    /\ reply[p].kind = "created" => reply[p].doc = p

RecordInv == RowConsistent /\ RequestsConsistent /\ SuccessIsRecorded

\* The inductive strengthening of LiveLeaderKeepsClaim: the ticks since the
\* lease was last renewed are those the heartbeat accounts for.
LeaseInv ==
  \A p \in Requests :
    /\ ~Leading(p) => beat[p] = 0 /\ missed[p] = 0
    /\ stall[p] = "now" => Leading(p)
    /\ Leading(p) /\ stall[p] = "never" =>
         /\ Owns(p)
         /\ status = "pending" => lease + missed[p] * HeartbeatTicks + beat[p] >= LeaseTicks

\* A request whose handler committed its document is a leader or was one.
DocumentsInv ==
  \A p \in docs :
    /\ Leading(p) \/ pc[p] \in {"done", "crashed"}
    /\ pc[p] = "crashed" => stall[p] = "past"
    /\ pc[p] = "done" => reply[p].kind \in {"created", "failed"}

\* With no fault to produce, every request runs undisturbed.
FaultFreeInv ==
  \A p \in Requests :
    /\ stall[p] = "never" /\ pc[p] # "crashed"
    /\ p \in docs => pc[p] = "committed" \/ (pc[p] = "done" /\ reply[p] = Answer("created", p))

\* Every caller gets one of the abstract specification's answers.
KeepsPromise == Promise!AbsSpec

\* Every request that arrived is eventually answered, or its process died.
EveryRequestAnswered ==
  \A p \in Requests : pc[p] = "claim" ~> pc[p] \in {"done", "crashed"}
=============================================================================
