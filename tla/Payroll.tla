------------------------------- MODULE Payroll -------------------------------
(***************************************************************************)
(* Payroll of one company: periods and their review (routes/               *)
(* payrollPeriods.ts), one record of each employee and period              *)
(* (payrollRecords.ts), the allocation of a record to projects             *)
(* (laborAllocations.ts), and the posting of allocations as expenses and   *)
(* its reversal (laborCostPostings.ts).                                    *)
(*                                                                         *)
(* A request reads, and then runs one transaction that locks the period's  *)
(* row before it looks at the status.  A record is worth its net amount, a *)
(* share is a fraction of Whole, and the amount of an allocation, net      *)
(* times share, is counted in units of 1/Whole.                            *)
(***************************************************************************)
EXTENDS Naturals, Integers, FiniteSets, FiniteSetsExt, Absent

CONSTANTS PayPeriods, Employees, Allocations, Clerks,
          Windows,   \* <<first day, last day>>
          Nets, Whole

ASSUME AmountsAssumption == Nets \subseteq Int /\ None \notin Nets /\ Whole \in Nat

VARIABLES
  review,    \* of each period: "none", "draft", "submitted", "approved", "posted", "rejected"
  window,
  active,    \* employees whose status is "active"; nothing in payroll looks at it
  net,       \* of each record <<period, employee>>, None without one
  ofRecord,  \* of each allocation: its record, None without a row
  share, amount,
  posting,   \* of each allocation: "none", "posted", "reversed", or "deleted" with its row
  labour,    \* the sum of the expenses inserted for an allocation
  desk       \* of each request: None, or what it is about and what it has read

periodvars == <<review, window>>
allocationvars == <<ofRecord, share, amount>>
postingvars == <<posting, labour>>
payVars == <<periodvars, active, net, allocationvars, postingvars, desk>>

Records == PayPeriods \X Employees
Shares == 1..Whole

PayInit ==
    /\ review = [p \in PayPeriods |-> "none"] /\ window = [p \in PayPeriods |-> None]
    /\ active = {} /\ net = [r \in Records |-> None]
    /\ ofRecord = [a \in Allocations |-> None]
    /\ share = [a \in Allocations |-> 0] /\ amount = [a \in Allocations |-> 0]
    /\ posting = [a \in Allocations |-> "none"] /\ labour = [a \in Allocations |-> 0]
    /\ desk = [q \in Clerks |-> None]

Editable(p) == review[p] \in {"draft", "rejected"}

TakeUp(q, what) == desk[q] = None /\ desk' = [desk EXCEPT ![q] = what]
At(q, op) == desk[q] # None /\ desk[q].op = op
PutDown(q) == desk' = [desk EXCEPT ![q] = None]

-----------------------------------------------------------------------------
(* Periods.                                                                *)

PeriodsOverlap(v, w) == v[1] <= w[2] /\ w[1] <= v[2]

\* Rejected periods do not count.
Overlapping(p, w) ==
    \E o \in PayPeriods \ {p} : review[o] \notin {"none", "rejected"} /\ PeriodsOverlap(window[o], w)

\* POST / and PATCH /:id look for overlaps before their transaction ...
ReadPeriods(q, p, w) ==
    /\ ~Overlapping(p, w)
    /\ TakeUp(q, [op |-> IF review[p] = "none" THEN "create" ELSE "redate", period |-> p, window |-> w])
    /\ UNCHANGED <<periodvars, active, net, allocationvars, postingvars>>

\* ... and the unique index refuses only the very same window.
WritePeriod(q) ==
    \E p \in PayPeriods :
      /\ At(q, "create") \/ At(q, "redate")
      /\ desk[q].period = p
      /\ IF /\ IF desk[q].op = "create" THEN review[p] = "none" ELSE Editable(p)
            /\ \A o \in PayPeriods \ {p} : window[o] # desk[q].window
         THEN /\ window' = [window EXCEPT ![p] = desk[q].window]
              /\ review' = [review EXCEPT ![p] = IF @ = "none" THEN "draft" ELSE @]
         ELSE UNCHANGED periodvars
      /\ PutDown(q)
      /\ UNCHANGED <<active, net, allocationvars, postingvars>>

Submit(p) ==
    /\ Editable(p) /\ \E e \in Employees : net[<<p, e>>] # None
    /\ review' = [review EXCEPT ![p] = "submitted"]
    /\ UNCHANGED <<window, active, net, allocationvars, postingvars, desk>>

\* Conditional on status = 'submitted'.
Judge(p, verdict) ==
    /\ review[p] = "submitted"
    /\ review' = [review EXCEPT ![p] = verdict]
    /\ UNCHANGED <<window, active, net, allocationvars, postingvars, desk>>

In(p) == {a \in Allocations : IF ofRecord[a] = None THEN FALSE ELSE ofRecord[a][1] = p}

\* postPayrollPeriod inserts an expense and a posting for each allocation that has none.
Post(p) ==
    LET due == {a \in In(p) : posting[a] = "none"} IN
    /\ review[p] = "approved" /\ due # {}
    /\ posting' = [a \in Allocations |-> IF a \in due THEN "posted" ELSE posting[a]]
    /\ labour' = [a \in Allocations |-> IF a \in due THEN labour[a] + amount[a] ELSE labour[a]]
    /\ review' = [review EXCEPT ![p] = "posted"]
    /\ UNCHANGED <<window, active, net, allocationvars, desk>>

\* What a posting must be for POST /:id/reverse: without a reversal, read under its lock.
Reversible == {"posted"}

\* The expense of a reversal is the negative of the one it reverses.
ReversePosting(a) ==
    /\ posting[a] \in Reversible
    /\ posting' = [posting EXCEPT ![a] = "reversed"]
    /\ labour' = [labour EXCEPT ![a] = @ - amount[a]]
    /\ UNCHANGED <<periodvars, active, net, allocationvars, desk>>

-----------------------------------------------------------------------------
(* Employees and their records.                                            *)

\* POST and PATCH of employees.
SetActive(e) ==
    /\ active' \in {active \cup {e}, active \ {e}}
    /\ UNCHANGED <<periodvars, net, allocationvars, postingvars, desk>>

\* Mutant: the status is the one that was read before the transaction.
StatusRead(q, p) == desk[q].seen

\* The transactions below lock the period and look at its status then.
Unlocked(q, p) == Editable(p)

\* POST / with a free pair, and PATCH /:id, with the amounts they compute from what they read.
ReadRecord(q, p, e, n) ==
    /\ review[p] # "none"
    /\ TakeUp(q, [op |-> IF net[<<p, e>>] = None THEN "record" ELSE "amend", record |-> <<p, e>>, net |-> n,
                  seen |-> Editable(p)])
    /\ UNCHANGED <<periodvars, active, net, allocationvars, postingvars>>

WriteRecord(q) ==
    \E r \in Records :
      /\ At(q, "record") \/ At(q, "amend")
      /\ desk[q].record = r
      /\ net' = IF Unlocked(q, r[1]) /\ (desk[q].op = "record" => net[r] = None)
                THEN [net EXCEPT ![r] = desk[q].net] ELSE net
      /\ PutDown(q)
      /\ UNCHANGED <<periodvars, active, allocationvars, postingvars>>

-----------------------------------------------------------------------------
(* Allocations.                                                            *)

Allocated(r, others) == MapThenSumSet(LAMBDA a : share[a], {a \in others : ofRecord[a] = r})

\* POST /.
ReadForAllocation(q, r, a, s) ==
    /\ net[r] # None /\ ofRecord[a] = None /\ posting[a] = "none"
    /\ TakeUp(q, [op |-> "allocate", on |-> a, record |-> r, share |-> s, seen |-> Editable(r[1])])
    /\ UNCHANGED <<periodvars, active, net, allocationvars, postingvars>>
\* PATCH /:id, of the percentage (s in Shares) or of the cost code only (s = 0), and DELETE /:id.
ReadAllocation(q, a, op, s) ==
    /\ ofRecord[a] # None
    /\ TakeUp(q, [op |-> op, on |-> a, record |-> ofRecord[a], share |-> s, seen |-> Editable(ofRecord[a][1]),
                  oldShare |-> share[a], oldAmount |-> amount[a]])
    /\ UNCHANGED <<periodvars, active, net, allocationvars, postingvars>>

\* The percentages of the record's other allocations are read again, under the record's lock.
Fits(q) == Allocated(desk[q].record, Allocations \ {desk[q].on}) + desk[q].share <= Whole

Allocate(q) ==
    \E a \in Allocations :
      /\ At(q, "allocate") /\ desk[q].on = a
      /\ IF Unlocked(q, desk[q].record[1]) /\ ofRecord[a] = None /\ posting[a] = "none" /\ Fits(q)
         THEN /\ ofRecord' = [ofRecord EXCEPT ![a] = desk[q].record]
              /\ share' = [share EXCEPT ![a] = desk[q].share]
              /\ amount' = [amount EXCEPT ![a] = net[desk[q].record] * desk[q].share]
         ELSE UNCHANGED allocationvars
      /\ PutDown(q)
      /\ UNCHANGED <<periodvars, active, net, postingvars>>

\* Without a percentage in its body a PATCH writes back the one it read, and does not add up.
Reallocate(q) ==
    \E a \in Allocations :
      /\ At(q, "reallocate") /\ desk[q].on = a
      /\ IF Unlocked(q, desk[q].record[1]) /\ ofRecord[a] # None /\ (desk[q].share = 0 \/ Fits(q))
         THEN /\ share' = [share EXCEPT ![a] = IF desk[q].share = 0 THEN desk[q].oldShare ELSE desk[q].share]
              /\ amount' = [amount EXCEPT ![a] = IF desk[q].share = 0 THEN desk[q].oldAmount
                                                 ELSE net[desk[q].record] * desk[q].share]
         ELSE UNCHANGED <<share, amount>>
      /\ PutDown(q)
      /\ UNCHANGED <<periodvars, active, net, ofRecord, postingvars>>

Deallocate(q) ==
    \E a \in Allocations :
      /\ At(q, "deallocate") /\ desk[q].on = a
      /\ IF Unlocked(q, desk[q].record[1])
         THEN /\ ofRecord' = [ofRecord EXCEPT ![a] = None]
              /\ share' = [share EXCEPT ![a] = 0] /\ amount' = [amount EXCEPT ![a] = 0]
              /\ posting' = [posting EXCEPT ![a] = "deleted"]
         ELSE UNCHANGED <<allocationvars, posting>>
      /\ PutDown(q)
      /\ UNCHANGED <<periodvars, active, net, labour>>

-----------------------------------------------------------------------------
PayNext ==
    \/ \E q \in Clerks :
         \/ \E p \in PayPeriods, w \in Windows : ReadPeriods(q, p, w)
         \/ \E p \in PayPeriods, e \in Employees, n \in Nets : ReadRecord(q, p, e, n)
         \/ \E r \in Records, a \in Allocations, s \in Shares : ReadForAllocation(q, r, a, s)
         \/ \E a \in Allocations : ReadAllocation(q, a, "deallocate", 0)
                                   \/ \E s \in Shares \cup {0} : ReadAllocation(q, a, "reallocate", s)
         \/ WritePeriod(q) \/ WriteRecord(q) \/ Allocate(q) \/ Reallocate(q) \/ Deallocate(q)
    \/ \E p \in PayPeriods : Submit(p) \/ Post(p) \/ \E v \in {"approved", "rejected"} : Judge(p, v)
    \/ \E a \in Allocations : ReversePosting(a)
    \/ \E e \in Employees : SetActive(e)

PaySpec == PayInit /\ [][PayNext]_payVars

-----------------------------------------------------------------------------
(***************************************************************************)
(* What labour adds to the cost of projects is the amount of each          *)
(* allocation that is posted and not reversed, once, and nothing for any   *)
(* other (laborCost.ts:56-69 counts it that way).                          *)
(***************************************************************************)
LabourCounted == \A a \in Allocations : labour[a] = IF posting[a] = "posted" THEN amount[a] ELSE 0

(***************************************************************************)
(* From its submission on a period is what the reviewer sees: unless it is *)
(* rejected, neither its records nor its allocations change, whatever was  *)
(* under way when it was submitted (payrollPeriods.ts:29-33).              *)
(***************************************************************************)
ReviewedIsFixed ==
    [][\A p \in PayPeriods : review[p] \in {"submitted", "approved", "posted"} =>
         /\ \A e \in Employees : net'[<<p, e>>] = net[<<p, e>>]
         /\ In(p)' = In(p) /\ \A a \in In(p) : share'[a] = share[a] /\ amount'[a] = amount[a]]_payVars

(***************************************************************************)
(* "The never exceed 100% invariant" (laborAllocations.ts:15): a record is *)
(* not allocated beyond the whole of it.                                   *)
(***************************************************************************)
AllocatedWithinWhole == \A r \in Records : Allocated(r, Allocations) <= Whole

=============================================================================
