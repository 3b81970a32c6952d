----------------------------- MODULE MCProgress -----------------------------
(* What must end, in one run: `part` chooses the requests on one idempotency  *)
(* key, the locks of planned payments, the requests on accounts or the job of  *)
(* recurring expenses; the others keep one initial state.                     *)
EXTENDS Idempotency

CONSTANTS Plan, Slot, Account, Same, Job, Conns, Now, Nobody,
          a1, a2, a3, s1, s2, Jobs, MaxTime, MaxEdits, MaxFaults

VARIABLES part, plan, txn, live, lock, req, job,
          account, dirty, asked, wallet, raced,
          now, schedule, worker, posted, edits, faults

lockVars == <<plan, txn, live, lock, req, job>>
accountVars == <<account, dirty, asked, wallet, raced>>
recurringVars == <<now, schedule, worker, posted, edits, faults>>

-----------------------------------------------------------------------------
First == <<1, 1>>

\* Requests on one plan beside the deletion of an account
AccountRequests ==
    {[op |-> "skip", txn |-> First], [op |-> "overdue"], [op |-> "drop", plan |-> 1]}
      \cup [op : {"pay"}, txn : {First}, to : Account \cup {Same}]
      \cup [op : {"edit"}, plan : {1}, to : Account]
      \cup [op : {"unbook"}, account : Account]

Locks == INSTANCE PlanLocks WITH Request <- AccountRequests

Accs == INSTANCE Accounts WITH
          Accounts <- {a1, a2, a3}, First <- a1, Existing <- {{a1}, {a1, a2}},
          Requests <- 1..2, req <- asked

\* A schedule split by shares that runs daily, and one for every other day
Schedules == {s1, s2}

Recurs == INSTANCE Recurring WITH
            job <- worker, ByShares <- {s1}, Period <- [s \in Schedules |-> IF s = s1 THEN 1 ELSE 2]

-----------------------------------------------------------------------------
NoKey ==
    /\ row = NoRow
    /\ pc = [r \in Request |-> "idle"] /\ status = [r \in Request |-> "5xx"]
    /\ fp = [r \in Request |-> CHOOSE b \in Body : TRUE]
    /\ tries = [r \in Request |-> 0] /\ age = tries
    /\ effect = [r \in Request |-> FALSE] /\ answer = [r \in Request |-> "none"]
    /\ copied = [r \in Request |-> [status |-> "5xx", by |-> r]]

NoLocks ==
    /\ plan = [p \in Plan |-> [live |-> FALSE]] /\ live = Account
    /\ txn = [t \in Plan \X Slot |-> [state |-> "none"]]
    /\ lock = [x \in {} |-> Nobody]
    /\ req = [j \in Job |-> [op |-> "overdue"]] /\ job = [j \in Job |-> [pc |-> "done"]]

AllInit ==
    /\ \/ part = "key" /\ Init /\ NoLocks
       \/ part = "locks" /\ NoKey /\ Locks!Init
       \/ part \in {"accounts", "recurring"} /\ NoKey /\ NoLocks
    /\ Recurs!Init /\ Accs!Init
    /\ part # "accounts" => account[a2].new

OnKey(A) == part = "key" /\ A /\ UNCHANGED <<part, lockVars, accountVars, recurringVars>>
OnLocks(A) == part = "locks" /\ A /\ UNCHANGED <<part, vars, accountVars, recurringVars>>
OnAccounts(A) == part = "accounts" /\ A /\ UNCHANGED <<part, vars, lockVars, recurringVars>>
OnSchedules(A) == part = "recurring" /\ A /\ UNCHANGED <<part, vars, lockVars, accountVars>>

AllNext == OnKey(Next) \/ OnLocks(Locks!Next) \/ OnAccounts(Accs!Next) \/ OnSchedules(Recurs!Next)

all == <<part, vars, lockVars, accountVars, recurringVars>>

\* The fairness of each part's own specification
AllSpec ==
    /\ AllInit /\ [][AllNext]_all
    /\ WF_all(OnKey(Tick))
    /\ \A r \in Request : WF_all(OnKey(Step(r))) /\ WF_all(OnKey(Send(r)))
    /\ \A j \in Job : WF_all(OnLocks(Locks!Step(j) /\ UNCHANGED req))
    /\ WF_all(OnLocks(\E j \in Job : Locks!Abort(j) /\ UNCHANGED req))
    /\ \A r \in 1..2 : WF_all(OnAccounts(Accs!Advance(r)))
    /\ \A j \in Jobs : WF_all(OnSchedules(Recurs!Turn(j)))

\* Planned payments and accounts: every request ends, whoever it waits for and whatever
\* deadlock it meets (planned.go:42-68, accounts.go:571-574).
EveryRequestEnds == Locks!EveryJobEnds /\ Accs!EveryRequestEnds

\* Recurring: an occurrence is posted once and on the grid of its schedule
\* (recurring.sql.go ClaimDueRecurring),
PostedRight == part = "recurring" => Recurs!TypeOK /\ Recurs!OncePerOccurrence /\ Recurs!OnSchedule
\* and what is due is posted (recurring/handlers.go:252-345).
DueIsPosted == Recurs!DueIsPosted
\* "RunDue materializes all due recurring expenses" (recurring/handlers.go:252), those split
\* by shares included.
AllDueArePosted == Recurs!AllDueArePosted
=============================================================================
