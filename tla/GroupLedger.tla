---------------------------- MODULE GroupLedger ----------------------------
(***************************************************************************)
(* The ledger of one group: expenses and their splits                      *)
(* (internal/expenses/handlers.go), settlements                            *)
(* (internal/settlements/handlers.go) and the balances computed from them  *)
(* (internal/balances/handlers.go), under concurrent requests.             *)
(*                                                                         *)
(* PostgreSQL runs the statements under READ COMMITTED: a statement sees   *)
(* what is committed when it starts, and an UPDATE waits for the row's     *)
(* lock.  A handler checks its request with statements of their own and    *)
(* writes later; computeBalances reads with four statements.               *)
(*                                                                         *)
(* A split mode decides how an amount is shared (Split); here a share is   *)
(* any that adds up to the amount, as EXACT allows.  Roles, descriptions,  *)
(* categories, wallet accounts, activity and notifications are left out.   *)
(***************************************************************************)
EXTENDS Integers, FiniteSets, Functions

CONSTANTS
    Member,      \* users who are or were in the group
    Expense,     \* expenses rows; bounds how many are created
    Settlement,  \* settlements rows; likewise
    Request,     \* HTTP requests; each is served once
    Amount,      \* amounts of expenses and settlements, in minor units
    Rate,        \* exchange rates to the group's currency, in 1/RateUnit
    RateUnit,    \* the rate 1
    Faults,      \* "query": a statement of computeBalances fails
    Kinds,       \* bound: the kinds of requests sent, a subset of Kind
    NoRow        \* no such row

Kind == {"create", "update", "delete", "settle", "resettle", "unsettle", "read"}

\* How an amount may be shared: what SplitExact accepts, and the other modes return
Shares(a) == {s \in [Member -> 0..a] : SumFunction(s) = a}
AnyShare == UNION {Shares(a) : a \in Amount}

ExpenseRow    == [amount : Amount, rate : Rate, payer : Member, deleted : BOOLEAN]
SettlementRow == [amount : Amount, from : Member, to : Member, deleted : BOOLEAN]

\* The rows one request inserts into expense_splits
Batch == [by : Request, share : AnyShare]

\* A table has finitely many rows.
ASSUME LedgerAssumption ==
    /\ IsFiniteSet(Member) /\ IsFiniteSet(Expense) /\ IsFiniteSet(Settlement)
    /\ Amount \subseteq Nat \ {0}
    /\ Rate \subseteq Nat \ {0}
    /\ RateUnit \in Nat \ {0}
    /\ Faults \subseteq {"query"}
    /\ Kinds \subseteq Kind
    /\ NoRow \notin ExpenseRow \cup SettlementRow \cup Expense \cup Settlement
    /\ NoRow \notin AnyShare

\* What a request has decided to write: the row it names, the new one and its shares
Job == [kind : Kind, id : Expense \cup Settlement \cup {NoRow},
        row : ExpenseRow \cup SettlementRow \cup {NoRow},
        share : AnyShare \cup {NoRow}]

Disturbance == {"write",   \* the ledger changed between its statements
                "query"}   \* one of its statements failed

NoJob == [kind |-> "read", id |-> NoRow, row |-> NoRow, share |-> NoRow]

VARIABLES
    expense,     \* [Expense -> ExpenseRow \cup {NoRow}]
    splits,      \* [Expense -> SUBSET Batch]
    settlement,  \* [Settlement -> SettlementRow \cup {NoRow}]
    members,     \* group_members
    pc,          \* where each request is in its handler
    job,         \* what it writes
    seen,        \* the split rows its DELETE found
    net,         \* the map computeBalances builds
    torn         \* history: what disturbed its read, a subset of Disturbance

vars == <<expense, splits, settlement, members, pc, job, seen, net, torn>>

Live(row) == row # NoRow /\ ~row.deleted

-----------------------------------------------------------------------------
(***************************************************************************)
(* The sums of queries/balances.sql.                                       *)
(***************************************************************************)

\* ROUND(amount * rate): half away from zero
Rounded(a, rate) == (2 * a * rate + RateUnit) \div (2 * RateUnit)

\* SumPaidByGroup
Paid(u) ==
    SumFunction([e \in {x \in Expense : Live(expense[x]) /\ expense[x].payer = u} |->
                   Rounded(expense[e].amount, expense[e].rate)])

OwedFor(e, u) ==
    SumFunction([b \in splits[e] |-> Rounded(b.share[u], expense[e].rate)])

\* SumOwedByGroup
Owed(u) ==
    SumFunction([e \in {x \in Expense : Live(expense[x])} |-> OwedFor(e, u)])

\* ListSettlementsByGroup, added up by the loop of computeBalances
Sent(u) ==
    SumFunction([s \in {x \in Settlement : Live(settlement[x]) /\ settlement[x].from = u}
                   |-> settlement[s].amount])
Received(u) ==
    SumFunction([s \in {x \in Settlement : Live(settlement[x]) /\ settlement[x].to = u}
                   |-> settlement[s].amount])

\* GetMyGroupBalances: the same balance by one statement.  Its join `recv` sums
\* what the user sent and its join `sent` what they received.
MyBalance(u) == Paid(u) - Owed(u) + Sent(u) - Received(u)

\* m[u] += d for the users a query returned; the broken variant only for members.
AddToMembers(m, d) == [u \in DOMAIN m |-> m[u] + d[u]]
Add(m, d) ==
    [u \in DOMAIN m \cup {x \in Member : d[x] # 0} |->
       (IF u \in DOMAIN m THEN m[u] ELSE 0) + d[u]]

-----------------------------------------------------------------------------
Init ==
    /\ expense = [e \in Expense |-> NoRow]
    /\ splits = [e \in Expense |-> {}]
    /\ settlement = [s \in Settlement |-> NoRow]
    /\ members = Member
    /\ pc = [r \in Request |-> "idle"]
    /\ job = [r \in Request |-> NoJob]
    /\ seen = [r \in Request |-> {}]
    /\ net = [r \in Request |-> <<>>]
    /\ torn = [r \in Request |-> {}]

Reading(r) == pc[r] \in {"paid", "owed", "settlements"}

\* The ledger changes: a read under way is torn.
Changes ==
    torn' = [r \in Request |-> IF Reading(r) THEN torn[r] \cup {"write"} ELSE torn[r]]

Goto(r, l) == pc' = [pc EXCEPT ![r] = l]

At(r, kind, l) == pc[r] = l /\ job[r].kind = kind

\* The checks of a handler passed; nothing is locked yet.
Checked(r, kind, id, row, share) ==
    /\ kind \in Kinds
    /\ pc[r] = "idle"
    /\ Goto(r, "checked")
    /\ job' = [job EXCEPT ![r] = [kind |-> kind, id |-> id, row |-> row, share |-> share]]
    /\ UNCHANGED <<expense, splits, settlement, members, seen, net, torn>>

\* Payer and participants are members when they are looked up.
AreMembers(payer, share) ==
    /\ payer \in members
    /\ \A u \in Member : share[u] > 0 => u \in members

\* A valid body of POST and PATCH, stored later by `commit`
Body(r, kind, e) ==
    \E a \in Amount, rate \in Rate, payer \in Member :
      \E share \in Shares(a) :
        /\ AreMembers(payer, share)
        /\ Checked(r, kind, e, [amount |-> a, rate |-> rate, payer |-> payer,
                                deleted |-> FALSE], share)

(***************************************************************************)
(* CreateExpense: the rows appear together when the transaction commits.   *)
(***************************************************************************)
CheckCreate(r) == Body(r, "create", NoRow)

CommitCreate(r) ==
    /\ At(r, "create", "checked")
    /\ \E e \in Expense :
         /\ expense[e] = NoRow
         /\ expense' = [expense EXCEPT ![e] = job[r].row]
         /\ splits' = [splits EXCEPT ![e] = {[by |-> r, share |-> job[r].share]}]
    /\ Goto(r, "done")
    /\ Changes
    /\ UNCHANGED <<settlement, members, job, seen, net>>

(***************************************************************************)
(* UpdateExpense: the UPDATE locks the row until the commit, the DELETE    *)
(* finds the splits committed by then, and the new ones are inserted.      *)
(***************************************************************************)
CheckUpdate(r) ==
    \E e \in Expense : Live(expense[e]) /\ Body(r, "update", e)

HoldsRow(r) == job[r].kind = "update" /\ pc[r] \in {"locked", "cleared"}

\* Nobody else holds the expense's row lock; broken: nobody ever asks.
NoLock(r, e) == TRUE
RowFree(r, e) == \A q \in Request \ {r} : HoldsRow(q) => job[q].id # e

UpdateRow(r) ==
    /\ At(r, "update", "checked")
    /\ RowFree(r, job[r].id)
    /\ Goto(r, "locked")
    /\ UNCHANGED <<expense, splits, settlement, members, job, seen, net, torn>>

DeleteSplits(r) ==
    /\ At(r, "update", "locked")
    /\ seen' = [seen EXCEPT ![r] = splits[job[r].id]]
    /\ Goto(r, "cleared")
    /\ UNCHANGED <<expense, splits, settlement, members, job, net, torn>>

\* UPDATE expenses SET ...: deleted_at is not among the columns.  The broken
\* variant writes the row as the handler read it.
AsRead(e, row) == row
Updated(e, row) == [amount |-> row.amount, rate |-> row.rate, payer |-> row.payer,
                    deleted |-> expense[e].deleted]

CommitUpdate(r) ==
    /\ At(r, "update", "cleared")
    /\ LET e == job[r].id
       IN  /\ expense' = [expense EXCEPT ![e] = Updated(e, job[r].row)]
           /\ splits' = [splits EXCEPT ![e] = (splits[e] \ seen[r])
                                        \cup {[by |-> r, share |-> job[r].share]}]
    /\ seen' = [seen EXCEPT ![r] = {}]
    /\ Goto(r, "done")
    /\ Changes
    /\ UNCHANGED <<settlement, members, job, net>>

(***************************************************************************)
(* DeleteExpense                                                           *)
(***************************************************************************)
CheckDelete(r) ==
    \E e \in Expense : Live(expense[e]) /\ Checked(r, "delete", e, NoRow, NoRow)

SoftDeleteExpense(r) ==
    /\ At(r, "delete", "checked")
    /\ RowFree(r, job[r].id)
    /\ expense' = [expense EXCEPT ![job[r].id] =
                     [amount |-> expense[job[r].id].amount, rate |-> expense[job[r].id].rate,
                      payer |-> expense[job[r].id].payer, deleted |-> TRUE]]
    /\ Goto(r, "done")
    /\ Changes
    /\ UNCHANGED <<splits, settlement, members, job, seen, net>>

(***************************************************************************)
(* CreateSettlement, UpdateSettlement, DeleteSettlement: one statement     *)
(* each, after the checks.                                                 *)
(***************************************************************************)
CheckSettle(r) ==
    \E a \in Amount, from, to \in members :
      /\ from # to
      /\ Checked(r, "settle", NoRow, [amount |-> a, from |-> from, to |-> to,
                                      deleted |-> FALSE], NoRow)

CheckResettle(r) ==
    \E s \in Settlement, a \in Amount :
      /\ Live(settlement[s])
      /\ Checked(r, "resettle", s, [amount |-> a, from |-> settlement[s].from,
                                    to |-> settlement[s].to, deleted |-> FALSE], NoRow)

CheckUnsettle(r) ==
    \E s \in Settlement : Live(settlement[s])
                            /\ Checked(r, "unsettle", s, NoRow, NoRow)

\* The statement writes the row `s` becomes.
WriteSettlement(r, s, row) ==
    /\ settlement' = [settlement EXCEPT ![s] = row]
    /\ Goto(r, "done")
    /\ Changes
    /\ UNCHANGED <<expense, splits, members, job, seen, net>>

InsertSettlement(r) ==
    /\ At(r, "settle", "checked")
    /\ \E s \in Settlement : settlement[s] = NoRow /\ WriteSettlement(r, s, job[r].row)

UpdateSettlementAmount(r) ==
    /\ At(r, "resettle", "checked")
    /\ LET s == job[r].id
       IN  WriteSettlement(r, s, [amount |-> job[r].row.amount, from |-> settlement[s].from,
                                  to |-> settlement[s].to, deleted |-> settlement[s].deleted])

SoftDeleteSettlement(r) ==
    /\ At(r, "unsettle", "checked")
    /\ LET s == job[r].id
       IN  WriteSettlement(r, s, [amount |-> settlement[s].amount, from |-> settlement[s].from,
                                  to |-> settlement[s].to, deleted |-> TRUE])

\* A check that fails after all, an error of a statement or a crash: rolled back.
Abort(r) ==
    /\ pc[r] \in {"checked", "locked", "cleared"}
    /\ Goto(r, "done")
    /\ seen' = [seen EXCEPT ![r] = {}]
    /\ UNCHANGED <<expense, splits, settlement, members, job, net, torn>>

(***************************************************************************)
(* Membership: LeaveGroup and RemoveMember, AcceptInvite.                  *)
(***************************************************************************)
Leave(u) ==
    /\ u \in members
    /\ members' = members \ {u}
    /\ UNCHANGED <<expense, splits, settlement, pc, job, seen, net, torn>>

Join(u) ==
    /\ u \notin members
    /\ members' = members \cup {u}
    /\ UNCHANGED <<expense, splits, settlement, pc, job, seen, net, torn>>

(***************************************************************************)
(* computeBalances, behind GetBalances and GetDebts.  The errors of the    *)
(* last three statements are ignored: a failed one contributes no row.     *)
(***************************************************************************)
ListMembers(r) ==
    /\ "read" \in Kinds
    /\ pc[r] = "idle"
    /\ net' = [net EXCEPT ![r] = [u \in members |-> 0]]
    /\ Goto(r, "paid")
    /\ UNCHANGED <<expense, splits, settlement, members, job, seen, torn>>

\* The statement at label l adds d, or fails, and the next one is at label next.
Statement(r, l, d, next) ==
    /\ pc[r] = l
    /\ \/ net' = [net EXCEPT ![r] = Add(net[r], d)] /\ UNCHANGED torn
       \/ /\ "query" \in Faults
          /\ torn' = [torn EXCEPT ![r] = @ \cup {"query"}]
          /\ UNCHANGED net
    /\ Goto(r, next)
    /\ UNCHANGED <<expense, splits, settlement, members, job, seen>>

ReadPaid(r) == Statement(r, "paid", [u \in Member |-> Paid(u)], "owed")
ReadOwed(r) == Statement(r, "owed", [u \in Member |-> -Owed(u)], "settlements")

\* from gets +amount, to gets -amount, or, broken, the other way round
Reversed(u) == Received(u) - Sent(u)
Settled(u) == Sent(u) - Received(u)

ReadSettlements(r) ==
    Statement(r, "settlements", [u \in Member |-> Settled(u)], "answered")

Next ==
    \/ \E r \in Request :
         \/ CheckCreate(r) \/ CommitCreate(r)
         \/ CheckUpdate(r) \/ UpdateRow(r) \/ DeleteSplits(r) \/ CommitUpdate(r)
         \/ CheckDelete(r) \/ SoftDeleteExpense(r)
         \/ CheckSettle(r) \/ InsertSettlement(r)
         \/ CheckResettle(r) \/ UpdateSettlementAmount(r)
         \/ CheckUnsettle(r) \/ SoftDeleteSettlement(r)
         \/ Abort(r)
         \/ ListMembers(r) \/ ReadPaid(r) \/ ReadOwed(r) \/ ReadSettlements(r)
    \/ \E u \in Member : Leave(u) \/ Join(u)

Spec == Init /\ [][Next]_vars

-----------------------------------------------------------------------------
TypeOK ==
    /\ expense \in [Expense -> ExpenseRow \cup {NoRow}]
    /\ splits \in [Expense -> SUBSET Batch]
    /\ settlement \in [Settlement -> SettlementRow \cup {NoRow}]
    /\ members \subseteq Member
    /\ pc \in [Request -> {"idle", "checked", "locked", "cleared", "paid", "owed",
                           "settlements", "answered", "done"}]
    /\ job \in [Request -> Job]
    /\ seen \in [Request -> SUBSET Batch]
    /\ torn \in [Request -> SUBSET Disturbance]

\* Invariant 1 of the sources: the splits of an expense add up to its amount,
\* whichever requests edit or delete it at the same time.  Reading the rows of two
\* edits together would charge the participants twice.
SplitsSum ==
    \A e \in Expense :
      IF expense[e] = NoRow THEN splits[e] = {}
      ELSE \E b \in splits[e] : splits[e] = {b} /\ b.share \in Shares(expense[e].amount)

\* An edit that was checked before a deletion and stored after it does not bring
\* the expense or settlement back into the balances.
NeverBack ==
    /\ \A e \in Expense : expense[e] # NoRow /\ expense[e].deleted => expense'[e].deleted
    /\ \A s \in Settlement :
         settlement[s] # NoRow /\ settlement[s].deleted => settlement'[s].deleted
DeletedStaysDeleted == [][NeverBack]_vars

Total(r) == SumFunction(net[r])

\* debts.Simplify: "Sum of all balances must be 0 (Invariant 2)", on every answer
\* whose statements nobody's write came between and none of which failed: at whole
\* rates that is enough, whoever left the group with a balance and whatever edit is
\* under way.
QuietReadsBalance ==
    \A r \in Request : pc[r] = "answered" /\ torn[r] = {} => Total(r) = 0

\* The two ways to a balance, the group's (four statements and a loop) and the
\* user's own overview (one statement), agree when nothing changed in between.
Agrees(r) ==
    pc[r] = "settlements" /\ pc'[r] = "answered" /\ torn'[r] = {}
      => \A u \in Member :
           (IF u \in DOMAIN net'[r] THEN net'[r][u] ELSE 0) = MyBalance(u)
ReadsAgree == [][\A r \in Request : Agrees(r)]_vars
=============================================================================
