---------------------------- MODULE ClientForms ----------------------------
(***************************************************************************)
(* The forms and buttons of the web client that send an Idempotency-Key:   *)
(* what the user wants to record once (an attempt), the key the form keeps *)
(* for it, and the calls that carry the key and a body.  The server's side *)
(* is lib/idempotency.ts, call by call: a claim, the handler's transaction *)
(* and the recording of its answer are three steps, and with ClaimsLost    *)
(* the process may die or freeze past its lease between them.  The clock,  *)
(* the heartbeat and the steal are those of Idempotency, whose promise     *)
(* (IdempotentOperation) is only for keys whose claim has not been lost.   *)
(*                                                                         *)
(* A form keeps its key in one of three ways: for as long as it is mounted *)
(* ("mount"), until its call succeeds ("success"), or for the record it    *)
(* decides about, until its call succeeds ("record").  A form that stands  *)
(* in the part of the page its list's reload replaces is mounted anew,     *)
(* with a fresh key, each time that list is loaded.                        *)
(***************************************************************************)
EXTENDS Naturals, Absent

CONSTANTS Bodies,       \* what the user can enter
          Sends,        \* the calls
          MaxAttempts,
          MaxKeys,      \* how many keys are drawn for one attempt
          InUse,        \* the forms under consideration
          ClaimsLost    \* whether a leader may lose its claim

FormOf(keeps, guarded, closes, redrawn) ==
    [keeps |-> keeps, guarded |-> guarded, closes |-> closes, redrawn |-> redrawn]

\* guarded: the button is disabled while a call is under way; closes: a success closes the form;
\* redrawn: a reload of the page's list replaces the form by a skeleton, while the user stays.
NewInvoiceForm == FormOf("mount", FALSE, TRUE, FALSE)
InvoiceCreateForm == FormOf("mount", TRUE, TRUE, FALSE)
NewQuoteForm == FormOf("mount", FALSE, TRUE, FALSE)
QuoteConversion == FormOf("mount", TRUE, TRUE, TRUE)
CommitmentCreateForm == FormOf("mount", TRUE, TRUE, FALSE)
CertifyIpc == FormOf("mount", FALSE, FALSE, FALSE)
CertifySubIpc == FormOf("mount", TRUE, FALSE, FALSE)
PostPeriod == FormOf("mount", TRUE, FALSE, FALSE)
ExpenseForm == FormOf("success", TRUE, FALSE, TRUE)
ChangeOrderDecision == FormOf("record", FALSE, FALSE, FALSE)

Forms == {NewInvoiceForm, InvoiceCreateForm, NewQuoteForm, QuoteConversion, CommitmentCreateForm,
          CertifyIpc, CertifySubIpc, PostPeriod, ExpenseForm, ChangeOrderDecision}

\* A deed on one record (a certification, a posting, a decision): its handler refuses a second one.
OncePerRecord(f) == f \in {CertifyIpc, CertifySubIpc, PostPeriod, ChangeOrderDecision}

ASSUME FormsAssumption ==
    /\ MaxAttempts \in Nat \ {0} /\ MaxKeys \in Nat \ {0}
    /\ InUse \subseteq Forms /\ ClaimsLost \in BOOLEAN

VARIABLES
  form,
  mounted,      \* whether the form is on the screen
  attempt,      \* what the user is at, counted
  drawn,        \* how many keys have been drawn for it
  key,          \* the key the form holds, or None
  claim,        \* [keys -> the call that owns the pending row, or None]
  kept,         \* [keys -> the body and the answer recorded, or None]
  orphaned,     \* the keys whose claim has been lost
  made,         \* the calls whose handler has created a record
  sent          \* [calls -> None or the call: its attempt, key, body and where it is]

screenSide == <<mounted, attempt, drawn, key>>
serverSide == <<claim, kept, orphaned, made>>
formVars == <<form, screenSide, serverSide, sent>>

Keys == (1..MaxAttempts) \X (1..MaxKeys)
InHandler == {"running", "inserted", "declined"}
Answers == {"created", "refused", "conflict", "error"}
Calls == [attempt : 1..MaxAttempts, key : Keys, body : Bodies, fate : {"asked", "over"} \cup InHandler \cup Answers]
Kept == [body : Bodies, fate : {"created", "refused"}]

ASSUME NoneIsNoCall == None \notin Keys \cup Kept \cup Sends \cup Calls

FormsTypeOK ==
    /\ form \in InUse /\ mounted \in BOOLEAN /\ attempt \in 1..MaxAttempts
    /\ drawn \in 0..MaxKeys /\ key \in Keys \cup {None}
    /\ claim \in [Keys -> Sends \cup {None}] /\ kept \in [Keys -> Kept \cup {None}]
    /\ orphaned \subseteq Keys /\ made \subseteq Sends
    /\ sent \in [Sends -> Calls \cup {None}]

FormsInit ==
    /\ form \in InUse
    /\ mounted = TRUE /\ attempt = 1
    /\ IF form.keeps = "record" THEN key = None /\ drawn = 0 ELSE key = <<1, 1>> /\ drawn = 1
    /\ claim = [k \in Keys |-> None] /\ kept = [k \in Keys |-> None]
    /\ orphaned = {} /\ made = {}
    /\ sent = [s \in Sends |-> None]

At(s, fates) == sent[s] # None /\ sent[s].fate \in fates
Moves(s, fate) == sent' = [sent EXCEPT ![s].fate = fate]

\* crypto.randomUUID(): another key for what the user is at, up to MaxKeys; or the first for the next.
FreshKey == drawn < MaxKeys /\ drawn' = drawn + 1 /\ key' = <<attempt, drawn + 1>> /\ attempt' = attempt
NextAttempt == attempt < MaxAttempts /\ attempt' = attempt + 1 /\ drawn' = 1 /\ key' = <<attempt + 1, 1>>

\* A guarded button is disabled while a call of this mount is under way: the flag dies with the mount.
Busy == form.guarded /\ \E s \in Sends : sent[s] # None /\ sent[s].key = key /\ sent[s].fate # "over"

\* Mutant: each retry draws a key of its own.
SubmitWithFreshKey(s, b) ==
    /\ mounted /\ sent[s] = None /\ ~Busy
    /\ IF key = None \/ \E r \in Sends : sent[r] # None THEN FreshKey ELSE UNCHANGED <<attempt, drawn, key>>
    /\ sent' = [sent EXCEPT ![s] = [attempt |-> attempt, key |-> key', body |-> b, fate |-> "asked"]]
    /\ UNCHANGED <<form, mounted, serverSide>>

\* The user enters b (what was entered before, or something else) and submits it.
Submit(s, b) ==
    /\ mounted /\ sent[s] = None /\ ~Busy
    /\ IF key = None THEN FreshKey ELSE UNCHANGED <<attempt, drawn, key>>
    /\ sent' = [sent EXCEPT ![s] = [attempt |-> attempt, key |-> key', body |-> b, fate |-> "asked"]]
    /\ UNCHANGED <<form, mounted, serverSide>>

\* withIdempotency: the pending row of the key is inserted, or one whose lease has expired is stolen.
Claim(s) ==
    /\ At(s, {"asked"}) /\ claim[sent[s].key] = None /\ kept[sent[s].key] = None
    /\ claim' = [claim EXCEPT ![sent[s].key] = s]
    /\ Moves(s, "running")
    /\ UNCHANGED <<form, screenSide, kept, orphaned, made>>

\* The handler: its transaction commits the record, or it returns a refusal.  What it checks (an open
\* contract, an approved period) others may have changed; a deed done already it never does again.
RunHandler(s) ==
    /\ At(s, {"running"})
    /\ \/ ~(OncePerRecord(form) /\ made # {}) /\ made' = made \cup {s} /\ Moves(s, "inserted")
       \/ made' = made /\ Moves(s, "declined")
    /\ UNCHANGED <<form, screenSide, claim, kept, orphaned>>

\* runAsLeader: the answer is recorded by whoever still owns the row, and is an error for others.
Complete(s) ==
    /\ At(s, {"inserted", "declined"})
    /\ LET c == sent[s]
           fate == IF c.fate = "inserted" THEN "created" ELSE "refused"
       IN IF claim[c.key] = s
          THEN /\ kept' = [kept EXCEPT ![c.key] = [body |-> c.body, fate |-> fate]]
               /\ claim' = [claim EXCEPT ![c.key] = None]
               /\ Moves(s, fate)
          ELSE Moves(s, "error") /\ UNCHANGED <<claim, kept>>
    /\ UNCHANGED <<form, screenSide, orphaned, made>>

\* The handler throws: its transaction is rolled back, and the row deleted if it is still its own.
HandlerThrows(s) ==
    /\ At(s, {"running"})
    /\ claim' = IF claim[sent[s].key] = s THEN [claim EXCEPT ![sent[s].key] = None] ELSE claim
    /\ Moves(s, "error")
    /\ UNCHANGED <<form, screenSide, kept, orphaned, made>>

\* The leader dies, or throws after its commit (an error, whatever it had done), or freezes until its
\* lease has expired and goes on later: another call may now claim the key.
LoseClaim(s) ==
    /\ ClaimsLost /\ At(s, InHandler) /\ claim[sent[s].key] = s
    /\ claim' = [claim EXCEPT ![sent[s].key] = None]
    /\ orphaned' = orphaned \cup {sent[s].key}
    /\ \E fate \in {sent[s].fate, "error"} : Moves(s, fate)
    /\ UNCHANGED <<form, screenSide, kept, made>>

\* A later call of the key is answered with what is recorded, or 409 if its body is another ...
ReplayKept(s) ==
    /\ At(s, {"asked"}) /\ kept[sent[s].key] # None
    /\ Moves(s, IF kept[sent[s].key].body = sent[s].body THEN kept[sent[s].key].fate ELSE "conflict")
    /\ UNCHANGED <<form, screenSide, serverSide>>

\* ... or polls a row that stays pending until it gives up.
GiveUp(s) ==
    /\ At(s, {"asked"}) /\ kept[sent[s].key] = None
    /\ claim[sent[s].key] # None \/ sent[s].key \in orphaned
    /\ Moves(s, "error")
    /\ UNCHANGED <<form, screenSide, serverSide>>

\* A success closes the form that sent it; the page it came from may have another one open by then.
CloseAfter(c) ==
    CASE ~form.closes -> mounted' = mounted
      [] form.closes /\ c.key = key -> mounted' = FALSE
      [] OTHER -> mounted' \in {mounted, FALSE}

\* It empties the fields and draws a key (what is entered next is something else), or forgets the
\* record's key; of a call from before, it can only reload the list.
KeyAfter(c) ==
    CASE form.keeps = "success" -> IF c.attempt = attempt THEN NextAttempt
                                   ELSE FreshKey \/ UNCHANGED <<attempt, drawn, key>>
      [] form.keeps = "record" /\ c.attempt = attempt -> key' = None /\ UNCHANGED <<attempt, drawn>>
      [] OTHER -> UNCHANGED <<attempt, drawn, key>>

\* The answer reaches the form.
Told(s) ==
    /\ At(s, Answers)
    /\ IF sent[s].fate = "created" THEN CloseAfter(sent[s]) /\ KeyAfter(sent[s]) ELSE UNCHANGED screenSide
    /\ Moves(s, "over")
    /\ UNCHANGED <<form, serverSide>>

\* The answer is lost: an error on the screen, and nothing else changes.
LoseTold(s) ==
    /\ At(s, Answers)
    /\ Moves(s, "over")
    /\ UNCHANGED <<form, screenSide, serverSide>>

\* The list is loaded again (another row was sent or deleted, a retry, a new record): its rows and
\* what stands with them give way to a skeleton, and are mounted anew.
Redraw ==
    /\ form.redrawn /\ mounted /\ FreshKey
    /\ UNCHANGED <<form, mounted, serverSide, sent>>

\* The user leaves the form or page and opens it again, to record something else.
Reopen ==
    /\ mounted' = TRUE
    /\ IF form.keeps = "record" THEN attempt < MaxAttempts /\ attempt' = attempt + 1 /\ drawn' = 0 /\ key' = None
       ELSE NextAttempt
    /\ UNCHANGED <<form, serverSide, sent>>

CallNext(s) ==
    \/ \E b \in Bodies : Submit(s, b)
    \/ Claim(s) \/ RunHandler(s) \/ Complete(s) \/ HandlerThrows(s) \/ LoseClaim(s)
    \/ ReplayKept(s) \/ GiveUp(s) \/ Told(s) \/ LoseTold(s)

FormsNext ==
    \/ \E s \in Sends : CallNext(s)
    \/ Redraw \/ Reopen

FormsSpec == FormsInit /\ [][FormsNext]_formVars

-----------------------------------------------------------------------------
(***************************************************************************)
(* What the user wanted to record once is recorded once at most, however   *)
(* often the button is pressed, answers are lost, or the entry is          *)
(* corrected and sent again (Quotes.tsx: a retry after a failed conversion *)
(* attempt on this same row reuses the identical key).                     *)
(***************************************************************************)
OneRecordPerAttempt == \A s, t \in made : sent[s].attempt = sent[t].attempt => s = t

(***************************************************************************)
(* There are two ways to record it twice, and no third: the server lost    *)
(* the claim of the key, or a reload of the list drew the form another key *)
(* (redrawn).  Neither repeats a deed on one record, whose handler refuses *)
(* the second.                                                             *)
(***************************************************************************)
OneRecordUnlessRedrawn ==
    \A s, t \in made :
        sent[s].attempt = sent[t].attempt /\ s # t =>
            /\ ~OncePerRecord(form)
            /\ IF sent[s].key = sent[t].key THEN sent[s].key \in orphaned ELSE form.redrawn

=============================================================================
