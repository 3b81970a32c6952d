------------------------------ MODULE Planned ------------------------------
(***************************************************************************)
(* Planned payments (internal/wallet/planned.go and the plan branches of   *)
(* transactions.go and accounts.go) of one user: plans, the transactions   *)
(* generated from them, and the accounts both are booked on.               *)
(*                                                                         *)
(* Every handler modelled here runs in one database transaction that holds *)
(* the plan's row lock from before its first read of the plan until it     *)
(* commits (lockTxnPlanFirst, LockPlannedPayment), so for one plan the     *)
(* handlers are serial and one action stands for a whole handler.          *)
(* DeleteAccount takes no such lock: its statements are modelled one by    *)
(* one in PlanLocks and here it is atomic.                                 *)
(*                                                                         *)
(* A date is a number of days, 1 the earliest; a schedule repeats every    *)
(* `step` days from `start` (Recurrence checks the calendar arithmetic).   *)
(* Amounts, titles, categories, tags and the destination of a transfer do  *)
(* not decide which occurrence exists, and are left out.                   *)
(***************************************************************************)
EXTENDS Integers

CONSTANTS
    Plan,      \* planned_payments rows
    Txn,       \* transactions rows; bounds how many occurrences live at once
    Account,   \* accounts rows
    NoAccount, \* account_id NULL
    NoTxn,     \* no row, or one with deleted_at set: no statement sees it
    Step,      \* repetition intervals, in days
    Horizon,   \* bound: the last date a plan, an occurrence or the clock takes
    Patch      \* what a PATCH may change beyond the schedule and the account
               \* of the plan: a subset of {"due", "account", "one_time"}

Date  == 1..Horizon
Never == 0          \* no date: resolved_until NULL, nextDue nil

\* A planned_payments row; phase tells a row not yet inserted and a
\* soft-deleted one (deleted_at) from a live one.
PlanRow == [phase : {"none", "live", "deleted"}, active : BOOLEAN,
            oneTime : BOOLEAN, start : Date, step : Step,
            resolved : 0..Horizon, account : Account \cup {NoAccount}]

\* A transactions row with planned_payment_id set: pending while occurred_at is
\* NULL.  No code reads due_at again once the row is paid.
TxnRow == [plan : Plan, state : {"pending", "paid"}, due : 0..Horizon,
           account : Account \cup {NoAccount}]

ASSUME PlannedAssumption ==
    /\ Horizon \in Nat \ {0}
    /\ Step \subseteq Nat \ {0}
    /\ NoAccount \notin Account
    /\ NoTxn \notin TxnRow
    /\ Patch \subseteq {"due", "account", "one_time"}

VARIABLES
    plan,      \* [Plan -> PlanRow]
    txn,       \* [Txn -> TxnRow \cup {NoTxn}]
    live,      \* accounts not deleted
    now        \* the clock

vars == <<plan, txn, live, now>>

IsPending(row) == row # NoTxn /\ row.state = "pending"
IsPaid(row)    == row # NoTxn /\ row.state = "paid"

\* A broken GetPendingForPlan that joins accounts misses items without one.
JoinsAccounts(p, table) ==
    {t \in Txn : IsPending(table[t]) /\ table[t].plan = p
                                     /\ table[t].account # NoAccount}

\* GetPendingForPlan
PendingFor(p, table) ==
    {t \in Txn : IsPending(table[t]) /\ table[t].plan = p}

Pending(p, due, a) == [plan |-> p, state |-> "pending", due |-> due, account |-> a]
Paid(p, a)         == [plan |-> p, state |-> "paid", due |-> Never, account |-> a]

\* The later of two dates; the broken variant takes the one at hand.
FirstOf(a, b) == a
Later(a, b) == IF a < b THEN b ELSE a

-----------------------------------------------------------------------------
(***************************************************************************)
(* The schedule.                                                           *)
(***************************************************************************)

\* nextOccurrenceAfter: the first occurrence strictly after a date
NextAfter(start, step, date) ==
    IF start > date THEN start
    ELSE start + step * (((date - start) \div step) + 1)

\* nextDue: the due date of the pending occurrence the plan should have; the
\* broken variant forgets that a plan can be paused.
IgnoresPause(r) ==
    IF r.phase # "live" THEN Never
    ELSE IF r.resolved = Never THEN r.start
    ELSE IF r.oneTime THEN Never
    ELSE NextAfter(r.start, r.step, r.resolved)

NextDue(r) ==
    IF r.phase # "live" \/ ~r.active THEN Never
    ELSE IF r.resolved = Never THEN r.start
    ELSE IF r.oneTime THEN Never
    ELSE NextAfter(r.start, r.step, r.resolved)

\* The last occurrence before a date, which is after start
LastBefore(r, date) == r.start + r.step * ((date - 1 - r.start) \div r.step)

\* Where the loop of advancePlan stops: at the last occurrence before now, or
\* where it started if the next one is not overdue.  The broken variant also
\* steps over the occurrence due now.
CaughtUpPastNow(r, date) ==
    IF NextAfter(r.start, r.step, date) <= now THEN LastBefore(r, now + 1) ELSE date
CaughtUp(r, date) ==
    IF NextAfter(r.start, r.step, date) < now THEN LastBefore(r, now) ELSE date

\* advancePlan: the row after the occurrence due at `due` was paid or skipped.
\* A deleted plan has no row to lock: the occurrence stays as history.
Advanced(r, due, skipOverdue) ==
    IF r.phase # "live" THEN r
    ELSE LET until == Later(due, r.resolved) IN
         [phase |-> r.phase, active |-> r.active /\ ~r.oneTime,
          oneTime |-> r.oneTime, start |-> r.start, step |-> r.step,
          resolved |-> IF skipOverdue /\ ~r.oneTime
                       THEN CaughtUp(r, until) ELSE until,
          account |-> r.account]

\* A broken syncPending leaves an existing pending occurrence as it is.
KeepsPending(p, r, table) ==
    LET due == NextDue(r)
        at  == PendingFor(p, table)
    IN  \/ /\ due = Never
           /\ txn' = [t \in Txn |-> IF t \in at THEN NoTxn ELSE table[t]]
        \/ due \in Date /\ at # {} /\ txn' = table
        \/ /\ due \in Date /\ at = {}
           /\ \E t \in Txn : /\ table[t] = NoTxn
                             /\ txn' = [table EXCEPT ![t] = Pending(p, due, r.account)]

\* syncPending on the transactions `table`: the pending occurrence of a plan is
\* deleted, updated in place or created so that it matches the plan's row.
SyncPending(p, r, table) ==
    LET due == NextDue(r)
        at  == PendingFor(p, table)
    IN  \/ /\ due = Never
           /\ txn' = [t \in Txn |-> IF t \in at THEN NoTxn ELSE table[t]]
        \/ /\ due \in Date /\ at # {}
           /\ txn' = [t \in Txn |-> IF t \in at THEN Pending(p, due, r.account)
                                    ELSE table[t]]
        \/ /\ due \in Date /\ at = {}
           /\ \E t \in Txn : /\ table[t] = NoTxn
                             /\ txn' = [table EXCEPT ![t] = Pending(p, due, r.account)]

\* Store a plan row and bring its pending occurrence in line with it.
Store(p, r, table) ==
    /\ plan' = [plan EXCEPT ![p] = r]
    /\ IF r.phase = "live" THEN SyncPending(p, r, table) ELSE txn' = table

-----------------------------------------------------------------------------
Unborn(r) ==
    /\ r.phase = "none" /\ ~r.active /\ ~r.oneTime
    /\ r.start = 1 /\ r.resolved = Never /\ r.account = NoAccount
    /\ \A s \in Step : r.step <= s

Init ==
    /\ plan \in [Plan -> {r \in PlanRow : Unborn(r)}]
    /\ txn = [t \in Txn |-> NoTxn]
    /\ live = Account
    /\ now = 1

\* validate: a named account must exist
Usable == live \cup {NoAccount}

(***************************************************************************)
(* Plan CRUD: CreatePlanned, UpdatePlanned, DeletePlanned.                 *)
(***************************************************************************)
CreatePlanned(p) ==
    /\ plan[p].phase = "none"
    /\ \E start \in Date, step \in Step, one, act \in BOOLEAN, a \in Usable :
         Store(p, [phase |-> "live", active |-> act, oneTime |-> one,
                   start |-> start, step |-> step, resolved |-> Never,
                   account |-> a], txn)
    /\ UNCHANGED <<live, now>>

\* Re-activating a completed one-time plan re-opens it, or, broken, does not.
NeverReopens(r, act, one) == FALSE
Reopens(r, act, one) == act /\ ~r.active /\ one

UpdatePlanned(p) ==
    /\ plan[p].phase = "live"
    /\ \E start \in Date, step \in Step, one, act \in BOOLEAN, a \in Usable :
         /\ one # plan[p].oneTime => "one_time" \in Patch
         /\ Store(p, [phase |-> "live", active |-> act, oneTime |-> one,
                      start |-> start, step |-> step,
                      resolved |-> IF Reopens(plan[p], act, one)
                                   THEN Never ELSE plan[p].resolved,
                      account |-> a], txn)
    /\ UNCHANGED <<live, now>>

\* SoftDeletePlannedPayment
Deleted(r) == [phase |-> "deleted", active |-> FALSE, oneTime |-> r.oneTime,
               start |-> r.start, step |-> r.step, resolved |-> r.resolved,
               account |-> r.account]

\* The pending occurrence goes with the plan; paid ones stay.
DeletePlanned(p) ==
    /\ plan[p].phase = "live"
    /\ plan' = [plan EXCEPT ![p] = Deleted(plan[p])]
    /\ txn' = [t \in Txn |-> IF t \in PendingFor(p, txn) THEN NoTxn ELSE txn[t]]
    /\ UNCHANGED <<live, now>>

(***************************************************************************)
(* Occurrences: pay, skip, edit, delete.                                   *)
(***************************************************************************)

\* The occurrence leaves the pending state, as `row`, and its plan advances.
Resolve(t, row, skipOverdue) ==
    LET p == txn[t].plan
    IN  Store(p, Advanced(plan[p], txn[t].due, skipOverdue),
              [txn EXCEPT ![t] = row])

\* PayTransaction, optionally from another account, and UpdateTransaction that
\* sets occurred_at: the plan advances past the due date the row had when it was
\* locked, whatever due_at is sent along.
PayTransaction(t) ==
    /\ IsPending(txn[t])
    /\ \E a \in live :
         /\ a # txn[t].account => txn[t].account = NoAccount \/ "account" \in Patch
         /\ Resolve(t, Paid(txn[t].plan, a), FALSE)
    /\ UNCHANGED <<live, now>>

\* SkipTransaction, and DeleteTransaction of a pending occurrence: skipOne
SkipTransaction(t) ==
    /\ IsPending(txn[t])
    /\ Resolve(t, NoTxn, FALSE)
    /\ UNCHANGED <<live, now>>

\* UpdateTransaction of a pending occurrence that leaves it pending
UpdatePending(t) ==
    /\ IsPending(txn[t])
    /\ \E due \in Date, a \in Usable :
         /\ due # txn[t].due => "due" \in Patch
         /\ a # txn[t].account => "account" \in Patch
         /\ txn' = [txn EXCEPT ![t] = Pending(txn[t].plan, due, a)]
    /\ UNCHANGED <<plan, live, now>>

\* UpdateTransaction of a paid occurrence: it stays paid, the plan is untouched.
UpdatePaid(t) ==
    /\ IsPaid(txn[t])
    /\ "account" \in Patch
    /\ \E a \in live : txn' = [txn EXCEPT ![t] = Paid(txn[t].plan, a)]
    /\ UNCHANGED <<plan, live, now>>

\* DeleteTransaction of a paid occurrence
DeletePaid(t) ==
    /\ IsPaid(txn[t])
    /\ txn' = [txn EXCEPT ![t] = NoTxn]
    /\ UNCHANGED <<plan, live, now>>

\* SkipOverdue: the overdue items of the plans the filters let through, in one
\* database transaction.  A plan's next occurrence takes the row of the skipped
\* one here; rows are interchangeable.
Overdue(p) == {t \in PendingFor(p, txn) : txn[t].due < now}

SkippedRow(p) == Advanced(plan[p], txn[CHOOSE t \in Overdue(p) : TRUE].due, TRUE)

NextTxn(p) == IF NextDue(SkippedRow(p)) = Never THEN NoTxn
              ELSE Pending(p, NextDue(SkippedRow(p)), plan[p].account)

SkipOverdue(listed) ==
    /\ listed # {}
    /\ \A p \in listed : /\ Overdue(p) # {}
                         /\ NextDue(SkippedRow(p)) \in Date \cup {Never}
    /\ plan' = [p \in Plan |-> IF p \in listed THEN SkippedRow(p) ELSE plan[p]]
    /\ txn' = [t \in Txn |-> IF \E p \in listed : t \in Overdue(p)
                             THEN NextTxn(txn[t].plan) ELSE txn[t]]
    /\ UNCHANGED <<live, now>>

(***************************************************************************)
(* DeleteAccount: its transactions and its plans go with it.               *)
(***************************************************************************)
\* The rows SoftDeleteAccountTransactions takes; the broken variant takes only
\* those that count in balances.
PaidOnAccount(row, a) == IsPaid(row) /\ row.account = a
OnAccount(row, a) == row # NoTxn /\ row.account = a

DeleteAccount(a) ==
    /\ a \in live
    /\ live' = live \ {a}
    /\ txn' = [t \in Txn |-> IF OnAccount(txn[t], a) THEN NoTxn ELSE txn[t]]
    /\ plan' = [p \in Plan |->
                 IF plan[p].account = a /\ plan[p].phase = "live"
                 THEN Deleted(plan[p]) ELSE plan[p]]
    /\ UNCHANGED now

Tick == now < Horizon /\ now' = now + 1 /\ UNCHANGED <<plan, txn, live>>

Next ==
    \/ \E p \in Plan : CreatePlanned(p) \/ UpdatePlanned(p) \/ DeletePlanned(p)
    \/ \E t \in Txn : \/ PayTransaction(t) \/ SkipTransaction(t)
                      \/ UpdatePending(t) \/ UpdatePaid(t) \/ DeletePaid(t)
    \/ \E listed \in SUBSET Plan : SkipOverdue(listed)
    \/ \E a \in Account : DeleteAccount(a)
    \/ Tick

Spec == Init /\ [][Next]_vars

-----------------------------------------------------------------------------
TypeOK ==
    /\ plan \in [Plan -> PlanRow]
    /\ txn \in [Txn -> TxnRow \cup {NoTxn}]
    /\ live \subseteq Account
    /\ now \in Date

Live(p) == plan[p].phase = "live"

\* The handlers never ask the database for a second pending occurrence of one
\* plan: the unique index idx_transactions_plan_pending is never hit.
AtMostOnePending ==
    \A t, u \in Txn :
        IsPending(txn[t]) /\ IsPending(txn[u]) /\ txn[t].plan = txn[u].plan => t = u

\* The pending occurrence of a live plan is the one its schedule calls for,
\* whatever was paid, skipped, re-scheduled, paused or re-opened before.
PendingIsNext ==
    \A t \in Txn : IsPending(txn[t]) /\ Live(txn[t].plan)
                     => txn[t].due = NextDue(plan[txn[t].plan])

\* planned.go: "exactly one pending transaction per active plan".
ActivePlanHasPending ==
    \A p \in Plan : Live(p) /\ plan[p].active => PendingFor(p, txn) # {}

\* A paused, completed or deleted plan has no pending occurrence to pay.
PendingHasActivePlan ==
    \A t \in Txn : IsPending(txn[t]) => Live(txn[t].plan) /\ plan[txn[t].plan].active

\* resolved_until moves back only when a completed one-time plan is re-opened:
\* no handler offers again what another one resolved.
NeverBack(p) == \/ plan'[p].resolved >= plan[p].resolved
                \/ Reopens(plan[p], plan'[p].active, plan'[p].oneTime)
ResolvedNeverBack == [][\A p \in Plan : NeverBack(p)]_vars

\* skip-overdue leaves a recurring plan at its first occurrence due now or later.
CatchesUp(p) ==
    (\E listed \in SUBSET Plan : p \in listed /\ SkipOverdue(listed))
      /\ ~plan[p].oneTime
        => \A t \in PendingFor(p, txn') :
              /\ txn'[t].due >= now
              /\ \A d \in now..(txn'[t].due - 1) :
                    \/ d <= plan[p].resolved
                    \/ d # NextAfter(plan[p].start, plan[p].step, d - 1)
SkipOverdueCatchesUp == [][\A p \in Plan : CatchesUp(p)]_vars

\* A live transaction or plan is never booked on a deleted account.
NothingOnDeletedAccount ==
    /\ \A t \in Txn : txn[t] # NoTxn => txn[t].account \in Usable
    /\ \A p \in Plan : Live(p) => plan[p].account \in Usable
=============================================================================
