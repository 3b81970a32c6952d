------------------------------ MODULE MCWallet ------------------------------
(* What is read off the wallet, in one run: `part` picks the calendar, the     *)
(* ledger and its reports or the exports; the others keep one initial state.   *)
EXTENDS Calendar, TLC

CONSTANTS a1, a2, a3, k1, k2, c1, c2, c3, g1, p1, p2, b1, b2, l1, l2, x1, x2, s1, Team, Groceries, None

VARIABLES part,
          rows, included, job,                              \* Ledger
          live, gone, refs, occurred, export, writes       \* Backup

ledgerVars == <<rows, included, job>>
backupVars == <<live, gone, refs, occurred, export, writes>>

-----------------------------------------------------------------------------
\* Seven years, the second one a leap year
Year == <<31, 28, 31, 30, 31, 30, 31, 31, 30, 31, 30, 31>>
SevenYears == [m \in 1..84 |-> IF m = 14 THEN 29 ELSE Year[((m - 1) % 12) + 1]]

\* First, tenth and last days of months, 29 February, noon and midnight
Days == {1, 18, 57, 58, 60, 61, 117, 848}

Tx(type, source, acc, to, category, at, paid) ==
    [kind |-> "TRANSACTION", type |-> type, source |-> source, account |-> acc, to |-> to,
     category |-> category, at |-> at, paid |-> paid, share |-> "whole",
     currency |-> IF acc = None THEN "EUR" ELSE None]
Shared(acc, share, category, currency) ==
    [kind |-> "GROUP_EXPENSE", type |-> "EXPENSE", source |-> "GROUP", account |-> acc, to |-> None,
     category |-> category, at |-> 6, paid |-> TRUE, share |-> share, currency |-> currency]
Settled(way, acc) ==
    [kind |-> "SETTLEMENT", type |-> "SETTLEMENT", source |-> way, account |-> acc, to |-> None,
     category |-> None, at |-> 7, paid |-> TRUE, share |-> "whole", currency |-> "EUR"]

\* a1 is in euros, a2 in dollars; the user sees c1, and Groceries is the group's own
Spends == Tx("EXPENSE", "MANUAL", a1, None, c1, 7, TRUE)
Moves == Tx("TRANSFER", "MANUAL", a1, a2, None, 7, TRUE)
Shares == Shared(a1, "half", Groceries, "USD")
WillMove == Tx("TRANSFER", "MANUAL", a2, a1, None, 8, FALSE)
EveryShape ==
    {Spends, Moves, Shares, WillMove,
     Tx("INCOME", "MANUAL", a1, None, c1, 6, TRUE), Tx("INCOME", "ADJUSTMENT", a2, None, None, 6, TRUE),
     Tx("EXPENSE", "MANUAL", a2, None, c1, 7, TRUE), Tx("EXPENSE", "MANUAL", a1, None, None, 6, TRUE),
     Tx("EXPENSE", "LOAN", a1, None, None, 7, TRUE), Tx("EXPENSE", "MANUAL", a1, None, c1, 6, FALSE),
     Tx("INCOME", "MANUAL", None, None, None, 8, FALSE),
     Shared(None, "whole", c1, "USD"), Shared(a2, "none", None, "EUR"),
     Settled("PAID", a1), Settled("RECEIVED", a2)}

Every == [planned |-> "", from |-> 0, to |-> 99, kinds |-> {}, shares |-> TRUE, types |-> {},
          hide |-> FALSE, accounts |-> {}, categories |-> {}]
Queries ==
    {Every, [Every EXCEPT !.accounts = {a1}, !.from = 6, !.to = 8],
     [Every EXCEPT !.categories = {None, c1}, !.planned = "all"],
     [Every EXCEPT !.planned = "true", !.types = {"TRANSFER", "EXPENSE"}, !.to = 9],
     [Every EXCEPT !.shares = FALSE, !.hide = TRUE, !.accounts = {a2}],
     [Every EXCEPT !.kinds = {"GROUP_EXPENSE"}, !.to = 7]}

Books == INSTANCE Ledger WITH
           Account <- {a1, a2}, Foreign <- {a2}, Included <- {{a1}, {a1, a2}}, Category <- {c1},
           Slot <- 1..3, Shape <- <<EveryShape, {Spends, Moves, Shares, WillMove}, {Spends}>>,
           Query <- Queries, Listed <- {Every, [Every EXCEPT !.planned = "all", !.from = 6, !.accounts = {a1}]},
           Today <- 7, Forever <- 99, FirstPage <- 1, LastPage <- 2, Limit <- 1

\* A plan that has occurred once, a loan with a record, a budget, a membership and an expense;
\* in what order transactions happened is not the order of their ids.
World == [x \in {a1, a2, c1, p1, b1, l1, k1, x1, Team, 1, 3, 4} |->
            CASE x = p1 -> {a1, c1}
              [] x = b1 -> {a2, c1}
              [] x = k1 -> {l1, a2}
              [] x = x1 -> {a1, c1}
              [] x = 1 -> {l1, k1, a2}
              [] x = 3 -> {a1, a2, c1}
              [] x = 4 -> {a1, p1, c1}
              [] OTHER -> {}]

Copy == INSTANCE Backup WITH
          Account <- {a1, a2, a3}, Category <- {c1, c3}, Others <- {c2}, Tag <- {g1}, Plan <- {p1, p2},
          Budget <- {b1, b2}, Loan <- {l1, l2}, Record <- {k1, k2}, Expense <- {x1, x2}, Settlement <- {s1},
          Txn <- 1..4, SortAt <- <<2, 1, 1, 2>>, Paid <- {1, 3}, PageSize <- 2, MaxWrites <- 2

AllInit ==
    /\ part \in {"calendar", "ledger", "backup"}
    /\ Books!Init /\ Copy!Init
    /\ IF part = "calendar" THEN Init ELSE start = 1 /\ n = 2 /\ unit = "DAY" /\ due = 5 /\ run = 1
    /\ part # "ledger" => included = {a1}

AllNext ==
    \/ part = "calendar" /\ Next /\ UNCHANGED <<part, ledgerVars, backupVars>>
    \/ part = "ledger" /\ Books!Next /\ UNCHANGED <<part, vars, backupVars>>
    \/ part = "backup" /\ Copy!Next /\ UNCHANGED <<part, vars, ledgerVars>>

AllSpec == AllInit /\ [][AllNext]_<<part, vars, ledgerVars, backupVars>>

\* Calendar: every jump over a gap lands on the first occurrence after it, a plan comes
\* back to its own day after a short month (recurrence.go:18-80), and the periods of the
\* reports, their query and the overview are one (reports.go:383-410).
\* A schedule of the group slides down to a shorter month's last day and never up again
\* (recurring.sql ClaimDueRecurring).
RightOccurrence == [](TypeOK /\ JumpsToFirst /\ KeepsItsDay /\ PeriodsMeet) /\ SlidesOnlyDown

\* Ledger: a report adds up however it is broken down, the other reads tell the same
\* (reports.go:184-500, ledger.go:155-330, budgets.go:64-107, wallet_reports.sql.go).
ReportsAgree == part = "ledger" => Books!TypeOK /\ Books!ReportAddsUp /\ Books!SummariesAgree

\* Ledger and Backup: whatever is booked between two pages, a listing, a report's export and
\* the backup show every other row once and in order (ledger.go:63-130, reports.go:520-590,
\* export/wallet.go:159-238, 505-560), and what the backup refers to is in it (246-463).
ListsEveryRow ==
    /\ part = "ledger" => Books!ListsEveryRow
    /\ part = "backup" => Copy!TypeOK /\ Copy!ListsOnce /\ Copy!HoldsEveryRow /\ Copy!PointsInside

\* Ledger: an adjustment reaches its target, less what was booked since it read, and paying
\* what is planned leaves the projected balance alone (accounts.go:415-483, planned.go:1031-1130).
BalanceMovesAsTold == Books!BalanceMovesAsTold
=============================================================================
