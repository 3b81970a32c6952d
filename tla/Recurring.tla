------------------------------ MODULE Recurring ------------------------------
(***************************************************************************)
(* Recurring group expenses: the schedules and the job that turns the due  *)
(* ones into expenses (internal/recurring/handlers.go, recurring.sql.go).  *)
(* Each turn of the job claims one schedule and writes its expense in one  *)
(* transaction; several processes may run the job at the same time, and    *)
(* any of them may die.  Time is counted in days.                          *)
(***************************************************************************)
EXTENDS Naturals, FiniteSets, FiniteSetsExt

CONSTANTS Schedules, Period,    \* the schedules and the days between their occurrences
          ByShares,             \* those split by SHARES: inserting their splits always fails
          Jobs,                 \* processes that run the job
          MaxTime,              \* bound on the clock
          MaxEdits,             \* bound on the requests of group members
          MaxFaults             \* bound on failed turns and on crashes

VARIABLES now, schedule, job, posted, edits, faults

vars == <<now, schedule, job, posted, edits, faults>>

Nothing == [state |-> "none", start |-> 0, next |-> 0, last |-> 0]

\* recurring_expenses; start is the first next_run_at (kept for the properties).
Schedule == [state : {"none", "active", "paused", "deleted"}, start : 0..MaxTime,
             next : Nat, last : 0..MaxTime]

JobState == [pc : {"idle", "claim", "materialize"}, failed : SUBSET Schedules,
        on : SUBSET Schedules, runAt : 0..MaxTime]

Init ==
    /\ now = 0
    /\ schedule = [s \in Schedules |-> Nothing]
    /\ job = [j \in Jobs |-> [pc |-> "idle", failed |-> {}, on |-> {}, runAt |-> 0]]
    /\ posted = [s \in Schedules |-> [t \in 0..MaxTime |-> 0]]
    /\ edits = 0 /\ faults = 0

\* A claimed row stays locked until its transaction ends; broken: it does not.
NotLocked(s) == FALSE
Locked(s) == \E j \in Jobs : s \in job[j].on

Edit == edits < MaxEdits /\ edits' = edits + 1 /\ UNCHANGED <<now, job, posted, faults>>

\* POST /groups/{id}/recurring: the first run is the start date, in the past or not.
Create(s) ==
    /\ schedule[s].state = "none"
    /\ \E start \in 0..MaxTime :
         schedule' = [schedule EXCEPT ![s] = [state |-> "active", start |-> start, next |-> start, last |-> 0]]
    /\ Edit

\* PATCH /recurring/{id}: only the flag changes; the row may be locked by a job.
Update(s) ==
    /\ schedule[s].state \in {"active", "paused"} /\ ~Locked(s)
    /\ \E state \in {"active", "paused"} : schedule' = [schedule EXCEPT ![s].state = state]
    /\ Edit

Delete(s) ==
    /\ schedule[s].state \in {"active", "paused"} /\ ~Locked(s)
    /\ schedule' = [schedule EXCEPT ![s].state = "deleted"]
    /\ Edit

-----------------------------------------------------------------------------
\* RunDue starts, on startup and every quarter of an hour.
RunDue(j) ==
    /\ job[j].pc = "idle"
    /\ job' = [job EXCEPT ![j] = [pc |-> "claim", failed |-> {}, on |-> {}, runAt |-> 0]]
    /\ UNCHANGED <<now, schedule, posted, edits, faults>>

Due(s) == schedule[s].state = "active" /\ schedule[s].next <= now

\* Broken: schedules that failed in this run are claimed again.
FailedToo(j) == {s \in Schedules : Due(s) /\ ~Locked(s)}

\* What j may claim: FOR UPDATE SKIP LOCKED passes over the rows of the other jobs.
Claimable(j) == {s \in Schedules : Due(s) /\ s \notin job[j].failed /\ ~Locked(s)}

\* The latest occurrence that is not after now (generate_series): earlier ones are skipped.
\* Broken: the expense is dated today.
Today(s) == now
RunAt(s) == schedule[s].next + ((now - schedule[s].next) \div Period[s]) * Period[s]

\* ClaimDueRecurring, in the transaction of this turn: the schedule with the earliest
\* next_run_at.  Its new row shows when the transaction commits.
ClaimDueRecurring(j) ==
    /\ job[j].pc = "claim"
    /\ \E s \in Claimable(j) :
         /\ \A o \in Claimable(j) : schedule[s].next <= schedule[o].next
         /\ job' = [job EXCEPT ![j].pc = "materialize", ![j].on = {s}, ![j].runAt = RunAt(s)]
    /\ UNCHANGED <<now, schedule, posted, edits, faults>>

NothingDue(j) ==
    /\ job[j].pc = "claim" /\ Claimable(j) = {}
    /\ job' = [job EXCEPT ![j].pc = "idle"]
    /\ UNCHANGED <<now, schedule, posted, edits, faults>>

\* The expense, its splits and the activity are inserted and the turn commits.
Materialize(j) ==
    /\ job[j].pc = "materialize"
    /\ \E s \in job[j].on :
         /\ s \notin ByShares
         /\ schedule' = [schedule EXCEPT ![s].last = job[j].runAt, ![s].next = job[j].runAt + Period[s]]
         /\ posted' = [posted EXCEPT ![s][job[j].runAt] = @ + 1]
    /\ job' = [job EXCEPT ![j].pc = "claim", ![j].on = {}]
    /\ UNCHANGED <<now, edits, faults>>

\* A statement of the turn fails: it is rolled back and the schedule left out until
\* the next run.
LeftOut(j) ==
    /\ job[j].pc = "materialize"
    /\ job' = [job EXCEPT ![j].pc = "claim", ![j].on = {}, ![j].failed = @ \cup job[j].on]
    /\ UNCHANGED <<now, schedule, posted, edits>>

Faulty == faults < MaxFaults /\ faults' = faults + 1

Fail(j) == LeftOut(j) /\ Faulty

\* insertSplits for SHARES always fails: expense_splits.amount is NOT NULL and
\* CreateRecurringSplitWithShares gives none.
SplitsFail(j) == job[j].on \subseteq ByShares /\ LeftOut(j) /\ UNCHANGED faults

\* The process dies in the middle of a turn.
Crash(j) ==
    /\ job[j].pc # "idle"
    /\ job' = [job EXCEPT ![j].pc = "idle", ![j].on = {}]
    /\ Faulty
    /\ UNCHANGED <<now, schedule, posted, edits>>

Tick ==
    /\ now < MaxTime
    /\ now' = now + 1
    /\ UNCHANGED <<schedule, job, posted, edits, faults>>

Turn(j) == RunDue(j) \/ ClaimDueRecurring(j) \/ NothingDue(j) \/ Materialize(j) \/ SplitsFail(j)

Next ==
    \/ \E s \in Schedules : Create(s) \/ Update(s) \/ Delete(s)
    \/ \E j \in Jobs : Turn(j) \/ Fail(j) \/ Crash(j)
    \/ Tick

Spec == Init /\ [][Next]_vars

\* The ticker keeps starting the job and a job that runs goes on (main.go:163-187).
FairSpec == Spec /\ \A j \in Jobs : WF_vars(Turn(j))

-----------------------------------------------------------------------------
TypeOK ==
    /\ now \in 0..MaxTime /\ edits \in 0..MaxEdits /\ faults \in 0..MaxFaults
    /\ schedule \in [Schedules -> Schedule]
    /\ job \in [Jobs -> JobState]
    /\ posted \in [Schedules -> [0..MaxTime -> Nat]]

\* Processes that run the job together, die and start again never post one occurrence of
\* a schedule twice (recurring.sql.go ClaimDueRecurring).
OncePerOccurrence == \A s \in Schedules, t \in 0..MaxTime : posted[s][t] <= 1

\* The next run and every expense are on the schedule's grid, and nothing is posted at or
\* after the next run: pausing, failing and dying leave no occurrence ahead of itself.
OnSchedule ==
    \A s \in Schedules :
        /\ schedule[s].next >= schedule[s].start /\ (schedule[s].next - schedule[s].start) % Period[s] = 0
        /\ \A t \in 0..MaxTime : posted[s][t] > 0 =>
             t >= schedule[s].start /\ t < schedule[s].next /\ (t - schedule[s].start) % Period[s] = 0

\* A schedule that is due is posted, unless its members pause or delete it, even while
\* another one fails in every run (recurring/handlers.go:252-345).
DueIsPosted == \A s \in Schedules \ ByShares : Due(s) ~> ~Due(s)

\* "RunDue materializes all due recurring expenses into real expenses"
\* (recurring/handlers.go:252): those split by shares included.
AllDueArePosted == \A s \in Schedules : Due(s) ~> ~Due(s)
=============================================================================
