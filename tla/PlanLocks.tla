----------------------------- MODULE PlanLocks -----------------------------
(***************************************************************************)
(* The row locks of planned payments (internal/wallet/planned.go, and      *)
(* DeleteAccount in accounts.go): Planned has each handler as one step,    *)
(* here its statements interleave with those of other requests.            *)
(*                                                                         *)
(* A database transaction sees what others committed and its own writes    *)
(* (READ COMMITTED).  It only writes rows it has locked, and keeps the     *)
(* locks to its end, so its writes are shown together when it commits.     *)
(* PostgreSQL ends a cycle of waiting transactions by aborting one of them *)
(* (40P01), which withTx retries once.  Each transaction holds one of the  *)
(* pool's connections; validation reads accounts through a second one.     *)
(*                                                                         *)
(* Plans are recurring and active, occurrences are numbered 1, 2, ...      *)
(* UpdateTransaction and DeleteTransaction lock as pay and skip do, and    *)
(* are not told apart from them.                                           *)
(***************************************************************************)
EXTENDS Integers, FiniteSets

CONSTANTS
    Plan,     \* planned_payments, as numbers: their order is that of the UUIDs
    Slot,     \* bound: how many occurrences of a plan are ever generated
    Account,  \* accounts
    Same,     \* no account_id in the body of a payment
    Job,      \* requests under way
    Request,  \* what they may ask for: a set of records with op, txn or plan, ...
    Conns,    \* MaxConns of the pool
    Now,      \* occurrences up to this one are overdue
    Nobody    \* holder of a free lock

Txn == Plan \X Slot
PlanOf(t) == t[1]
Row == ({"plan"} \X Plan) \cup ({"txn"} \X Txn) \cup ({"account"} \X Account)

Requests ==
    [op : {"pay"}, txn : Txn, to : Account \cup {Same}]
      \cup [op : {"skip"}, txn : Txn] \cup [op : {"overdue"}]
      \cup [op : {"edit"}, plan : Plan, to : Account] \cup [op : {"drop"}, plan : Plan]
      \cup [op : {"unbook"}, account : Account]

ASSUME PlanLocksAssumption ==
    /\ Plan \subseteq Nat /\ \E last \in Plan : \A p \in Plan : p <= last  \* UUIDs have 128 bits
    /\ Slot \subseteq Nat
    /\ Request \subseteq Requests
    /\ Same \notin Account /\ Nobody \notin Job
    /\ Conns \in Nat /\ Now \in Nat

VARIABLES
    plan,  \* committed plan rows: live, resolved (resolved_until) and account
    txn,   \* committed transactions rows: state, due and account
    live,  \* accounts not deleted
    lock,  \* [Row -> Job \cup {Nobody}]
    req,   \* [Job -> Request]
    job    \* [Job -> ...], where each request is

vars == <<plan, txn, live, lock, req, job>>
data == <<plan, txn, live>>

NoTarget == <<"none">>   \* `at` when a statement is about no row
PlanRow == [live : BOOLEAN, resolved : Nat, account : Account]
TxnRow  == [state : {"none", "pending", "paid", "deleted"}, due : Nat,
            account : Account]
InTx == {"find", "plan", "txn", "check", "advance", "sync", "row", "account",
         "txns", "plans", "commit"}
\* `at` is the row the current statement is about, `todo` those still to come
\* and `got` those this transaction is going to write.
JobState == [pc : {"new", "listed", "done", "failed"} \cup InTx, retried : BOOLEAN,
             at : Row \cup {NoTarget}, listed : SUBSET Row, todo : SUBSET Row,
             got : SUBSET Row]

T(t) == <<"txn", t>>
P(p) == <<"plan", p>>
Op(j) == req[j].op
Is(t, state) == txn[t].state = state
Visible(t) == Is(t, "pending") \/ Is(t, "paid")     \* deleted_at IS NULL

\* GetPendingForPlan
PendingFor(p) == {t \in Txn : PlanOf(t) = p /\ Is(t, "pending")}

InUse == Cardinality({j \in Job : job[j].pc \in InTx})

\* The plan of a plan-first handler
MyPlan(j) == IF Op(j) \in {"edit", "drop"} THEN req[j].plan
             ELSE PlanOf(job[j].at[2])

\* Rows are given to who asks first.
CanLock(j, r) == lock[r] \in {Nobody, j}

\* What the job waits for
Waits(j, k) ==
    /\ j # k
    /\ \/ /\ job[j].pc \in {"plan", "advance"}
          /\ lock[P(MyPlan(j))] = k
       \/ /\ job[j].pc \in {"txn", "row", "account", "txns", "plans"}
          /\ job[j].at # NoTarget /\ lock[job[j].at] = k

\* On a cycle of waiting transactions
Deadlocked == UNION {S \in SUBSET Job : \A j \in S : \E k \in S : Waits(j, k)}

-----------------------------------------------------------------------------
Init ==
    \E a \in [Plan -> Account] :
       /\ plan = [p \in Plan |-> [live |-> TRUE, resolved |-> 0, account |-> a[p]]]
       /\ txn = [t \in Txn |-> [state |-> IF t[2] = 1 THEN "pending" ELSE "none",
                                due |-> IF t[2] = 1 THEN 1 ELSE 0,
                                account |-> a[PlanOf(t)]]]
       /\ live = Account
       /\ lock = [r \in Row |-> Nobody]
       /\ req \in [Job -> Request]
       /\ job = [j \in Job |-> [pc |-> "new", retried |-> FALSE, at |-> NoTarget,
                                listed |-> {}, todo |-> {}, got |-> {}]]

Goto(j, pc, at, todo, got) ==
    job' = [job EXCEPT ![j] = [@ EXCEPT !.pc = pc, !.at = at, !.todo = todo, !.got = got]]
At(j, pc) == job[j].pc = pc
Stay(j, pc) == Goto(j, pc, job[j].at, job[j].todo, job[j].got)

\* A transaction's end gives its locks back; broken: without the rollback.
StillHeld(j) == lock
Released(j) == [r \in Row |-> IF lock[r] = j THEN Nobody ELSE lock[r]]

Failed(j) == job' = [job EXCEPT ![j].pc = "failed"]

\* The first row in the order SkipOverdue sorts by
First(rows) == CHOOSE r \in rows : \A s \in rows : PlanOf(r[2]) <= PlanOf(s[2])

\* SkipOverdue goes on with the next item, or commits.
NextItem(j, todo, got) ==
    IF todo = {} THEN Goto(j, "commit", NoTarget, {}, got)
    ELSE Goto(j, "find", First(todo), todo \ {First(todo)}, got)

\* SkipOverdue lists the items before its transaction.
List(j) ==
    /\ At(j, "new") /\ Op(j) = "overdue" /\ InUse < Conns
    /\ LET overdue == {T(t) : t \in {u \in Txn : Is(u, "pending") /\ txn[u].due <= Now}}
       IN  job' = [job EXCEPT ![j].pc = "listed", ![j].listed = overdue]
    /\ UNCHANGED <<data, lock>>

\* Pool.Begin
Begin(j) ==
    /\ InUse < Conns
    /\ \/ Op(j) = "overdue" /\ At(j, "listed") /\ NextItem(j, job[j].listed, {})
       \/ Op(j) \in {"pay", "skip"} /\ At(j, "new")
            /\ Goto(j, "find", T(req[j].txn), {}, {})
       \/ Op(j) \in {"edit", "drop"} /\ At(j, "new") /\ Goto(j, "plan", NoTarget, {}, {})
       \/ Op(j) = "unbook" /\ At(j, "new")
            /\ Goto(j, "account", <<"account", req[j].account>>, {}, {})
    /\ UNCHANGED <<data, lock>>

\* The item is gone, paid or moved: SkipOverdue goes on, others answer an error.
NotThere(j) ==
    IF Op(j) = "overdue" THEN NextItem(j, job[j].todo, job[j].got) ELSE Failed(j)

\* GetTransaction in lockTxnPlanFirst; broken: the plan is left for later.
TxnFirst == "txn"
FirstLock == "plan"
Find(j) ==
    LET there == Visible(job[j].at[2]) IN
    /\ At(j, "find")
    /\ IF there THEN Stay(j, FirstLock) ELSE NotThere(j)
    /\ lock' = IF there \/ Op(j) = "overdue" THEN lock ELSE Released(j)
    /\ UNCHANGED data

\* LockPlannedPayment in lockTxnPlanFirst, and once more in advancePlan; there is
\* no row to lock when the plan is deleted.
LockPlan(j) ==
    LET p == MyPlan(j) IN
    /\ Op(j) \in {"pay", "skip", "overdue"}
    /\ \/ At(j, "plan") /\ Stay(j, "txn")
       \/ At(j, "advance") /\ IF Op(j) = "overdue" THEN NextItem(j, job[j].todo, job[j].got)
                              ELSE Stay(j, "commit")
    /\ CanLock(j, P(p))
    /\ lock' = IF plan[p].live THEN [lock EXCEPT ![P(p)] = j] ELSE lock
    /\ UNCHANGED data

\* LockTransaction, and the checks of the row it returns
Payable(j, t) == Is(t, "pending") /\ (Op(j) = "overdue" => txn[t].due <= Now)
LockTxn(j) ==
    LET t  == job[j].at[2]
        ok == Visible(t) /\ Payable(j, t)
    IN
    /\ At(j, "txn") /\ CanLock(j, T(t))
    /\ IF ok THEN Goto(j, IF Op(j) = "pay" THEN "check" ELSE "advance", T(t), job[j].todo,
                       job[j].got \cup {T(t)})
       ELSE NotThere(j)
    /\ lock' = IF ~ok /\ Op(j) # "overdue" THEN Released(j)
               ELSE IF Visible(t) THEN [lock EXCEPT ![T(t)] = j] ELSE lock
    /\ UNCHANGED data

\* UpdatePlanned's lock of the plan, and DeletePlanned's UPDATE
LockOwnPlan(j) ==
    LET p == req[j].plan IN
    /\ At(j, "plan") /\ Op(j) \in {"edit", "drop"} /\ CanLock(j, P(p))
    /\ IF plan[p].live THEN Stay(j, IF Op(j) = "edit" THEN "check" ELSE "sync")
       ELSE Failed(j)
    /\ lock' = IF plan[p].live THEN [lock EXCEPT ![P(p)] = j] ELSE Released(j)
    /\ UNCHANGED data

\* validate: the account as it is committed now, read through another connection
Target(j) == IF req[j].to = Same THEN txn[req[j].txn].account ELSE req[j].to
Check(j) ==
    LET ok == Target(j) \in live IN
    /\ At(j, "check") /\ InUse < Conns
    /\ IF ok THEN Stay(j, IF Op(j) = "pay" THEN "advance" ELSE "sync") ELSE Failed(j)
    /\ lock' = IF ok THEN lock ELSE Released(j)
    /\ UNCHANGED data

\* GetPendingForPlan of an edit or a deletion
ItsPending(j) == PendingFor(req[j].plan)
FindPending(j) ==
    LET rows == ItsPending(j) IN
    /\ At(j, "sync")
    /\ \/ rows = {} /\ Stay(j, "commit")
       \/ \E t \in rows : Goto(j, "row", T(t), {}, {})
    /\ UNCHANGED <<data, lock>>

\* UpdateTransaction of syncPending, which fails without a row, and
\* SkipPendingTransaction, which needs it unpaid and does without
LockPending(j) ==
    LET t  == job[j].at[2]
        ok == IF Op(j) = "edit" THEN Visible(t) ELSE Is(t, "pending")
    IN
    /\ At(j, "row") /\ CanLock(j, T(t))
    /\ \/ ok /\ Goto(j, "commit", NoTarget, {}, {T(t)})
       \/ ~ok /\ Op(j) = "drop" /\ Goto(j, "commit", NoTarget, {}, {})
       \/ ~ok /\ Op(j) = "edit" /\ Failed(j)
    /\ lock' = IF ok THEN [lock EXCEPT ![T(t)] = j]
               ELSE IF Op(j) = "edit" THEN Released(j) ELSE lock
    /\ UNCHANGED data

-----------------------------------------------------------------------------
(***************************************************************************)
(* DeleteAccount: an UPDATE of the account, one of its transactions and    *)
(* one of its plans.  Each UPDATE finds its rows in what is committed when *)
(* it starts, locks them one by one, waiting where it must, and passes     *)
(* over a row that no longer qualifies when it gets the lock.              *)
(***************************************************************************)
OnAccount(pc, a) ==
    IF pc = "txns" THEN {T(t) : t \in {u \in Txn : Visible(u) /\ txn[u].account = a}}
    ELSE {P(p) : p \in {q \in Plan : plan[q].live /\ plan[q].account = a}}

LockAccount(j) ==
    LET r  == <<"account", req[j].account>>
        ok == req[j].account \in live
    IN
    /\ At(j, "account") /\ CanLock(j, r)
    /\ IF ok THEN Goto(j, "txns", NoTarget, {}, {}) ELSE Failed(j)
    /\ lock' = IF ok THEN [lock EXCEPT ![r] = j] ELSE Released(j)
    /\ UNCHANGED data

\* The next row of an UPDATE, or the next statement
NextRowOf(j, pc, rows, got) ==
    \/ /\ rows = {}
       /\ Goto(j, IF pc = "txns" THEN "plans" ELSE "commit", NoTarget, {}, got)
    \/ \E r \in rows : Goto(j, pc, r, rows \ {r}, got)

UpdateRows(j) ==
    \E pc \in {"txns", "plans"} :
       LET r == job[j].at
           hit == r \in OnAccount(pc, req[j].account)
       IN
       /\ At(j, pc)
       /\ \/ /\ r = NoTarget
             /\ NextRowOf(j, pc, OnAccount(pc, req[j].account), job[j].got)
             /\ UNCHANGED lock
          \/ /\ r # NoTarget /\ CanLock(j, r)
             /\ NextRowOf(j, pc, job[j].todo, IF hit THEN job[j].got \cup {r} ELSE job[j].got)
             /\ lock' = IF hit THEN [lock EXCEPT ![r] = j] ELSE lock
       /\ UNCHANGED data

-----------------------------------------------------------------------------
(***************************************************************************)
(* Commit: what the transaction wrote, shown at once.                      *)
(***************************************************************************)
\* The later of two dates; broken: the earlier.
Earlier(a, b) == IF a < b THEN a ELSE b
Later(a, b) == IF a < b THEN b ELSE a

\* The plans advancePlan has a row of
Advanced(j) == {p \in Plan : plan[p].live /\ \E t \in Txn : T(t) \in job[j].got /\ PlanOf(t) = p}

\* resolved_until: past the occurrences of this request, or past all overdue ones
ResolvedUntil(j, p) ==
    LET mine == {t \in Txn : T(t) \in job[j].got /\ PlanOf(t) = p}
        due  == txn[CHOOSE t \in mine : \A u \in mine : txn[u].due <= txn[t].due].due
    IN  Later(plan[p].resolved, IF Op(j) = "overdue" THEN Later(due, Now) ELSE due)

\* The row syncPending writes: the pending one there is, or a new one
NewRow(p) == CHOOSE t \in Txn : /\ PlanOf(t) = p /\ Is(t, "none")
                                /\ \A u \in Txn : PlanOf(u) = p /\ Is(u, "none") => t[2] <= u[2]
Offered(j, p) ==
    LET other == {t \in PendingFor(p) : T(t) \notin job[j].got}
    IN  IF other = {} THEN NewRow(p) ELSE CHOOSE t \in other : TRUE

\* Where a payment is booked
BookedOn(j) == Target(j)

Gone(t) == [txn[t] EXCEPT !.state = "deleted"]
Pending(due, a) == [state |-> "pending", due |-> due, account |-> a]

\* PayTransaction, SkipTransaction and SkipOverdue; the guard on occurred_at of
\* SkipPendingTransaction comes on top of the checks made before.
CommitResolved(j) ==
    /\ Op(j) \in {"pay", "skip", "overdue"}
    /\ txn' = [t \in Txn |->
                 IF T(t) \in job[j].got
                 THEN IF Op(j) = "pay"
                      THEN [state |-> "paid", due |-> txn[t].due, account |-> BookedOn(j)]
                      ELSE IF Is(t, "pending") THEN Gone(t) ELSE txn[t]
                 ELSE IF PlanOf(t) \in Advanced(j) /\ t = Offered(j, PlanOf(t))
                 THEN Pending(ResolvedUntil(j, PlanOf(t)) + 1, plan[PlanOf(t)].account)
                 ELSE txn[t]]
    /\ plan' = [p \in Plan |-> IF p \in Advanced(j)
                               THEN [plan[p] EXCEPT !.resolved = ResolvedUntil(j, p)]
                               ELSE plan[p]]
    /\ UNCHANGED live

\* UpdatePlanned onto another account
CommitEdit(j) ==
    LET p == req[j].plan IN
    /\ Op(j) = "edit"
    /\ plan' = [plan EXCEPT ![p].account = req[j].to]
    /\ txn' = [t \in Txn |->
                 IF \/ T(t) \in job[j].got
                    \/ job[j].got = {} /\ t = NewRow(p)
                 THEN Pending(plan[p].resolved + 1, req[j].to) ELSE txn[t]]
    /\ UNCHANGED live

\* DeletePlanned and DeleteAccount
CommitDeletion(j) ==
    /\ Op(j) \in {"drop", "unbook"}
    /\ txn' = [t \in Txn |-> IF T(t) \in job[j].got THEN Gone(t) ELSE txn[t]]
    /\ plan' = [p \in Plan |->
                  IF P(p) \in job[j].got \/ (Op(j) = "drop" /\ p = req[j].plan)
                  THEN [plan[p] EXCEPT !.live = FALSE] ELSE plan[p]]
    /\ live' = IF Op(j) = "unbook" THEN live \ {req[j].account} ELSE live

Commit(j) ==
    /\ At(j, "commit")
    /\ CommitResolved(j) \/ CommitEdit(j) \/ CommitDeletion(j)
    /\ job' = [job EXCEPT ![j].pc = "done"]
    /\ lock' = Released(j)

\* PostgreSQL breaks a deadlock; withTx runs the function once more.
Abort(j) ==
    /\ j \in Deadlocked
    /\ lock' = Released(j)
    /\ job' = IF Op(j) = "unbook" \/ job[j].retried
              THEN [job EXCEPT ![j].pc = "failed"]
              ELSE [job EXCEPT ![j].pc = IF Op(j) = "overdue" THEN "listed" ELSE "new",
                               ![j].retried = TRUE]
    /\ UNCHANGED data

Step(j) == \/ List(j) \/ Begin(j) \/ Find(j) \/ LockPlan(j) \/ LockTxn(j)
           \/ LockOwnPlan(j) \/ Check(j) \/ FindPending(j) \/ LockPending(j)
           \/ LockAccount(j) \/ UpdateRows(j) \/ Commit(j)

Next == /\ \E j \in Job : Step(j) \/ Abort(j)
        /\ UNCHANGED req

\* Requests go on while they can, and PostgreSQL looks for deadlocks.
Fairness == /\ \A j \in Job : WF_vars(Step(j) /\ UNCHANGED req)
            /\ WF_vars(\E j \in Job : Abort(j) /\ UNCHANGED req)

Spec == Init /\ [][Next]_vars /\ Fairness

-----------------------------------------------------------------------------
TypeOK ==
    /\ plan \in [Plan -> PlanRow]
    /\ txn \in [Txn -> TxnRow]
    /\ live \subseteq Account
    /\ lock \in [Row -> Job \cup {Nobody}]
    /\ req \in [Job -> Request]
    /\ job \in [Job -> JobState]

\* idx_transactions_plan_pending is never hit: two requests never leave a plan with
\* two pending occurrences.
OnePending == \A p \in Plan : Cardinality(PendingFor(p)) <= 1

\* "Every path takes the plan's row lock before the transaction's [...] so the two
\* orders can never deadlock." (planned.go:70-72)
NoDeadlock == Deadlocked = {}

\* Every request is answered, with a deadlock broken by PostgreSQL on the way or not.
EveryJobEnds == \A j \in Job : <>(job[j].pc \in {"done", "failed"})

\* The handlers of planned.go together do what PlanBook says, one whole request at a
\* time: no occurrence is paid twice, or skipped after it was paid ("a concurrent pay/skip
\* is never undone", planned.go:671), and a plan never offers two.
Due(p) == IF PendingFor(p) = {} THEN 0 ELSE txn[CHOOSE t \in PendingFor(p) : TRUE].due
Book == INSTANCE PlanBook WITH
           due <- [p \in Plan |-> Due(p)],
           paid <- [p \in Plan |-> {txn[t].due : t \in {u \in Txn : PlanOf(u) = p /\ Is(u, "paid")}}]
Serial == Book!Spec /\ [](TypeOK /\ OnePending)
=============================================================================
