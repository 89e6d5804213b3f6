----------------------------- MODULE SiteRecords -----------------------------
(***************************************************************************)
(* What is kept of the site of one project: the schedule's tasks with      *)
(* their hierarchy and dependencies (routes/projectSchedule.ts), the punch *)
(* list (punchItems.ts), and the check list and the daily logs, which are  *)
(* inserted, changed and deleted without any condition (tasks.ts,          *)
(* dailyLogs.ts).  A request reads and judges, and writes in a transaction *)
(* of its own, by the row's id alone.                                      *)
(***************************************************************************)
EXTENDS Naturals, FiniteSets, Absent

CONSTANTS ScheduleTasks, PunchItems, Entries, SiteRequests

\* resolveParent walks up a thousand tasks at most: in a longer line of parents it misses a cycle.
ASSUME WalkSuffices == IsFiniteSet(ScheduleTasks) /\ Cardinality(ScheduleTasks) <= 1000

VARIABLES
  scheduled,  \* the tasks that have a row
  dropped,    \* those that had one
  parent,
  follows,    \* dependencies: <<predecessor, successor>>
  punch,      \* of each punch item: "none", a status, or "deleted"
  assigned,   \* whether it has an assignee
  entries,    \* check-list tasks and daily logs
  wants       \* of each request: None, or what it will write

schedulevars == <<scheduled, dropped, parent, follows>>
punchvars == <<punch, assigned>>
siteVars == <<schedulevars, punchvars, entries, wants>>

SiteInit ==
    /\ scheduled = {} /\ dropped = {} /\ parent = [t \in ScheduleTasks |-> None] /\ follows = {}
    /\ punch = [p \in PunchItems |-> "none"] /\ assigned = [p \in PunchItems |-> FALSE]
    /\ entries = {} /\ wants = [q \in SiteRequests |-> None]

Want(q, what) == wants[q] = None /\ wants' = [wants EXCEPT ![q] = what]
Wants(q, op) == wants[q] # None /\ wants[q].op = op
Answered(q) == wants' = [wants EXCEPT ![q] = None]

-----------------------------------------------------------------------------
(* The schedule.                                                           *)

Reachable(edges, t) ==
    {x \in ScheduleTasks : \A C \in SUBSET ScheduleTasks : t \in C /\ (\A e \in edges : e[1] \in C => e[2] \in C) => x \in C}

Upwards == {<<t, parent[t]>> : t \in {u \in ScheduleTasks : parent[u] # None}}

\* Mutant: the parent may be any other task.
ParentsOther(t) == (scheduled \ {t}) \cup {None}

\* resolveParent walks up from the candidate, to the end of the line (WalkSuffices).
Parents(t) == {p \in scheduled : t \notin Reachable(Upwards, p)} \cup {None}

\* POST /tasks: a new task is nobody's parent.
CreateTask(t, p) ==
    /\ t \notin scheduled \cup dropped /\ p \in Parents(t)
    /\ scheduled' = scheduled \cup {t} /\ parent' = [parent EXCEPT ![t] = p]
    /\ UNCHANGED <<dropped, follows, punchvars, entries, wants>>

\* PATCH /tasks/:taskId writes the parent in any case: the one asked for, or the one it read.
ReadTask(q, t, p) ==
    /\ t \in scheduled /\ p \in Parents(t) \cup {parent[t]}
    /\ Want(q, [op |-> "patchTask", task |-> t, parent |-> p])
    /\ UNCHANGED <<schedulevars, punchvars, entries>>

\* A parent that has gone fails its foreign key.
PatchTask(q) ==
    /\ Wants(q, "patchTask")
    /\ parent' = IF wants[q].task \in scheduled /\ wants[q].parent \in scheduled \cup {None}
                 THEN [parent EXCEPT ![wants[q].task] = wants[q].parent] ELSE parent
    /\ Answered(q)
    /\ UNCHANGED <<scheduled, dropped, follows, punchvars, entries>>

\* The foreign keys cut what pointed at it.
DeleteTask(t) ==
    /\ t \in scheduled
    /\ scheduled' = scheduled \ {t} /\ dropped' = dropped \cup {t}
    /\ parent' = [u \in ScheduleTasks |-> IF u = t \/ parent[u] = t THEN None ELSE parent[u]]
    /\ follows' = {e \in follows : t \notin {e[1], e[2]}}
    /\ UNCHANGED <<punchvars, entries, wants>>

\* Mutant: only the reverse dependency is looked for.
CyclesBack(a, b) == <<b, a>> \in follows

\* wouldCreateCycle searches from the successor.
WouldCreateCycle(a, b) == a \in Reachable(follows, b)

ReadDependency(q, a, b) ==
    /\ a # b /\ {a, b} \subseteq scheduled /\ ~WouldCreateCycle(a, b)
    /\ Want(q, [op |-> "depend", from |-> a, to |-> b])
    /\ UNCHANGED <<schedulevars, punchvars, entries>>

\* The unique index and the foreign keys may refuse it.
CreateDependency(q) ==
    /\ Wants(q, "depend")
    /\ follows' = follows \cup ({<<wants[q].from, wants[q].to>>} \cap (scheduled \X scheduled))
    /\ Answered(q)
    /\ UNCHANGED <<scheduled, dropped, parent, punchvars, entries>>

DeleteDependency(e) ==
    /\ e \in follows /\ follows' = follows \ {e}
    /\ UNCHANGED <<scheduled, dropped, parent, punchvars, entries, wants>>

-----------------------------------------------------------------------------
(* The punch list.                                                         *)

AllowedTransitions ==
    [open |-> {"assigned", "in_progress"}, assigned |-> {"in_progress", "open"}, in_progress |-> {"resolved", "open"},
     resolved |-> {"verified", "in_progress"}, verified |-> {"closed", "in_progress"}, closed |-> {}]

Listed(p) == punch[p] \notin {"none", "deleted"}

CreatePunch(p, someone) ==
    /\ punch[p] = "none"
    /\ punch' = [punch EXCEPT ![p] = IF someone THEN "assigned" ELSE "open"] /\ assigned' = [assigned EXCEPT ![p] = someone]
    /\ UNCHANGED <<schedulevars, entries, wants>>

\* PATCH /:id does not touch the status.
Reassign(p, someone) ==
    /\ Listed(p) /\ assigned' = [assigned EXCEPT ![p] = someone]
    /\ UNCHANGED <<schedulevars, punch, entries, wants>>

\* POST /:id/status judges the row it has read.
ReadStatus(q, p, next) ==
    /\ Listed(p) /\ next \in AllowedTransitions[punch[p]]
    /\ next = "assigned" => assigned[p]
    /\ Want(q, [op |-> "status", item |-> p, next |-> next])
    /\ UNCHANGED <<schedulevars, punchvars, entries>>
SetStatus(q) ==
    /\ Wants(q, "status")
    /\ punch' = IF Listed(wants[q].item) THEN [punch EXCEPT ![wants[q].item] = wants[q].next] ELSE punch
    /\ Answered(q)
    /\ UNCHANGED <<schedulevars, assigned, entries>>

DeletePunch(p) ==
    /\ Listed(p) /\ punch' = [punch EXCEPT ![p] = "deleted"]
    /\ UNCHANGED <<schedulevars, assigned, entries, wants>>

-----------------------------------------------------------------------------
\* The check list and the daily logs.
AddEntry(x) == entries' = entries \cup {x} /\ UNCHANGED <<schedulevars, punchvars, wants>>
DeleteEntry(x) == x \in entries /\ entries' = entries \ {x} /\ UNCHANGED <<schedulevars, punchvars, wants>>

SiteNext ==
    \/ \E t \in ScheduleTasks, p \in ScheduleTasks \cup {None} :
         CreateTask(t, p) \/ \E q \in SiteRequests : ReadTask(q, t, p)
    \/ \E t \in ScheduleTasks : DeleteTask(t)
    \/ \E q \in SiteRequests, a, b \in ScheduleTasks : ReadDependency(q, a, b)
    \/ \E e \in follows : DeleteDependency(e)
    \/ \E p \in PunchItems :
         \/ \E someone \in BOOLEAN : CreatePunch(p, someone) \/ Reassign(p, someone)
         \/ DeletePunch(p)
         \/ \E q \in SiteRequests, s \in DOMAIN AllowedTransitions : ReadStatus(q, p, s)
    \/ \E q \in SiteRequests : PatchTask(q) \/ CreateDependency(q) \/ SetStatus(q)
    \/ \E x \in Entries : AddEntry(x) \/ DeleteEntry(x)

SiteSpec == SiteInit /\ [][SiteNext]_siteVars

-----------------------------------------------------------------------------
Cyclic(edges) == \E C \in SUBSET ScheduleTasks : C # {} /\ \A x \in C : \E y \in C : <<x, y>> \in edges

(***************************************************************************)
(* Neither the hierarchy of tasks nor their dependencies ever form a       *)
(* cycle, whatever moves and deletions there were (projectSchedule.ts:107, *)
(* 300).  This holds while requests come one after another: OneAtATime.    *)
(***************************************************************************)
ScheduleAcyclic == ~Cyclic(Upwards) /\ ~Cyclic(follows)

OneAtATime == \A q, r \in SiteRequests : wants[q] # None /\ wants[r] # None => q = r

(***************************************************************************)
(* "Closed" is terminal (punchItems.ts:281): no later answer to a request  *)
(* gives a closed item another status.                                     *)
(***************************************************************************)
ClosedIsTerminal == [][\A p \in PunchItems : punch[p] = "closed" => punch'[p] \in {"closed", "deleted"}]_siteVars

=============================================================================
