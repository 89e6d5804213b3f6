------------------------ MODULE IdempotentOperation ------------------------
(***************************************************************************)
(* What an Idempotency-Key promises to the callers of one (company,        *)
(* operation, key) triple, with no mention of rows, leases or owners: at   *)
(* most one document ever becomes the recorded outcome of the key, and     *)
(* every caller who is told of a success is told of that document.         *)
(* Idempotency.tla implements this specification.                          *)
(***************************************************************************)
CONSTANTS Requests,   \* the HTTP requests that carry the key
          BodyOf,     \* [Requests -> bodies]: the body each of them carries
          None        \* "no document"

VARIABLES outcome,    \* the document recorded for the key, or None
          reply       \* what each request has been answered

absVars == <<outcome, reply>>

Kinds == {"none", "created", "replayed", "conflict", "failed"}

\* A document is named by the request whose handler inserted it.
Answers == [kind : Kinds, doc : Requests \cup {None}]

Answer(kind, doc) == [kind |-> kind, doc |-> doc]

NoAnswer == Answer("none", None)

AbsTypeOK ==
  /\ outcome \in Requests \cup {None}
  /\ reply \in [Requests -> Answers]

AbsInit ==
  /\ outcome = None
  /\ reply = [p \in Requests |-> NoAnswer]

Respond(p, answer) ==
  /\ reply[p] = NoAnswer
  /\ reply' = [reply EXCEPT ![p] = answer]

Create(p) ==
  /\ outcome = None
  /\ outcome' = p
  /\ Respond(p, Answer("created", p))

Replay(p) ==
  /\ outcome # None
  /\ BodyOf[p] = BodyOf[outcome]
  /\ Respond(p, Answer("replayed", outcome))
  /\ UNCHANGED outcome

Conflict(p) ==
  /\ outcome # None
  /\ BodyOf[p] # BodyOf[outcome]
  /\ Respond(p, Answer("conflict", None))
  /\ UNCHANGED outcome

Fail(p) ==
  /\ Respond(p, Answer("failed", None))
  /\ UNCHANGED outcome

AbsNext == \E p \in Requests : Create(p) \/ Replay(p) \/ Conflict(p) \/ Fail(p)

AbsSpec == AbsInit /\ [][AbsNext]_absVars
=============================================================================
