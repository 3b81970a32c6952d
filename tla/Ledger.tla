-------------------------------- MODULE Ledger --------------------------------
(***************************************************************************)
(* The wallet's reads over the view ledger_entries (migration 0019): the   *)
(* report and its trend (internal/wallet/reports.go), the overview, the    *)
(* category summary and the listing (ledger.go), the account summary and   *)
(* the adjustment (accounts.go), the budgets (budgets.go) and the planned  *)
(* items (planned.go).  Each statement reads one state.  The amount of a   *)
(* row is a digit of its own, so that a sum tells which rows it counts.    *)
(***************************************************************************)
EXTENDS Integers, Sequences, FiniteSets, FiniteSetsExt, SequencesExt

CONSTANTS Account,      \* the user's accounts
          Foreign,      \* the accounts kept in dollars; the others are in euros, the base
          Included,     \* the sets of accounts that may count in the balance
          Category,     \* the categories the user sees
          None,         \* no account, no category, no cursor
          Slot,         \* the ids of rows
          Shape,        \* what the row of a slot may say
          Query,        \* the query strings asked
          Listed,       \* those of them asked page by page
          Today,
          Forever,      \* an end no date reaches
          FirstPage, LastPage,  \* sizes of the pages of an export
          Limit         \* size of a page of the listing

VARIABLES rows, included, job

vars == <<rows, included, job>>

Unit(id) == 4 * 10 ^ (id - 1)

Currency(a) == IF a \in Foreign THEN "USD" ELSE "EUR"

\* A dollar is two euros; amounts are even, so nothing is rounded.
Convert(x, from, to) ==
    IF from = to THEN x ELSE IF to = "EUR" THEN 2 * x ELSE x \div 2

SumOf(S, Value(_)) == MapThenSumSet(Value, S)

-----------------------------------------------------------------------------
(* The view.                                                               *)

\* What a row does to its account and to the user's income or expense.
Entry(id) ==
    LET r == rows[id]
        group == r.kind = "GROUP_EXPENSE"
        whole == r.amount
        share == CASE r.share = "half" -> whole \div 2 [] r.share = "none" -> 0 [] OTHER -> whole
        cur == IF r.currency = None THEN Currency(r.account) ELSE r.currency
        toCur == IF r.to = None THEN cur ELSE Currency(r.to)
        in == r.type = "INCOME" \/ r.source = "RECEIVED"
    IN  [id |-> id, kind |-> r.kind, type |-> r.type, category |-> r.category,
         source |-> IF r.kind = "TRANSACTION" THEN r.source ELSE "GROUP",
         account |-> r.account, to |-> r.to, at |-> r.at, occurred |-> r.paid,
         amount |-> IF group THEN share ELSE whole, currency |-> cur, toCurrency |-> toCur,
         accountAmount |-> IF ~r.paid \/ r.account = None THEN 0 ELSE IF in THEN whole ELSE -whole,
         toAmount |-> IF r.type = "TRANSFER" THEN Convert(whole, cur, toCur) ELSE 0,
         flow |-> IF group THEN share ELSE IF r.type \in {"INCOME", "EXPENSE"} THEN whole ELSE 0]

\* A group's expense shows when the user has a share of it or paid it from an account.
InView(r) == r # None /\ (r.kind = "GROUP_EXPENSE" => r.share # "none" \/ r.account # None)

LedgerEntries == {Entry(id) : id \in {i \in Slot : InView(rows[i])}}

-----------------------------------------------------------------------------
(* The filters.                                                            *)

PlannedMode(p) == CASE p = "true" -> "only" [] p = "all" -> "all" [] OTHER -> "exclude"

ParseFilters(q) ==
    LET noShares == IF q.kinds = {} THEN {"TRANSACTION", "SETTLEMENT"}
                    ELSE IF q.kinds = {"GROUP_EXPENSE"} THEN {"NONE"} ELSE q.kinds \ {"GROUP_EXPENSE"}
    IN  [planned |-> PlannedMode(q.planned), from |-> q.from, to |-> q.to, types |-> q.types,
         kinds |-> IF q.shares THEN q.kinds ELSE noShares,
         exclSources |-> IF q.hide THEN {"ADJUSTMENT"} ELSE {},
         accounts |-> q.accounts, categories |-> q.categories \ {None}, catNone |-> None \in q.categories]

\* The conditions all six queries share.
Matches(e, f) ==
    /\ CASE f.planned = "only" -> ~e.occurred [] f.planned = "all" -> TRUE [] OTHER -> e.occurred
    /\ f.from <= e.at /\ e.at < f.to
    /\ f.kinds = {} \/ e.kind \in f.kinds
    /\ f.types = {} \/ e.type \in f.types
    /\ e.source \notin f.exclSources
    /\ f.accounts = {} \/ e.account \in f.accounts \/ e.to \in f.accounts
    /\ \/ f.categories = {} /\ ~f.catNone
       \/ e.category \in f.categories
       \/ f.catNone /\ e.category = None

\* What the report's own queries leave out besides.
Reported(f) ==
    {e \in LedgerEntries :
        /\ Matches(e, f)
        /\ e.type \in {"INCOME", "EXPENSE", "TRANSFER"} /\ e.source \notin {"ADJUSTMENT", "LOAN"}
        /\ \/ e.type = "TRANSFER"
           \/ /\ e.flow > 0
              /\ e.kind # "TRANSACTION" \/ e.account \in included \cup {None} \/ f.accounts # {}}

Typed(S, type) == {e \in S : e.type = type}
Flow(S) == SumOf(S, LAMBDA e : Convert(e.flow, e.currency, "EUR"))
Out(S) == SumOf(S, LAMBDA e : Convert(e.amount, e.currency, "EUR"))
In(S) == SumOf(S, LAMBDA e : Convert(e.toAmount, e.toCurrency, "EUR"))

\* The two legs of the transfers that leave and reach the accounts asked for.
Leaving(S, f) == {e \in Typed(S, "TRANSFER") : f.accounts = {} \/ e.account \in f.accounts}
Reaching(S, f) == {e \in Typed(S, "TRANSFER") : f.accounts = {} \/ e.to \in f.accounts}

Flows(S, out, in) ==
    [income |-> Flow(Typed(S, "INCOME")), expense |-> Flow(Typed(S, "EXPENSE")), out |-> Out(out), in |-> In(in)]

ReportTotals(f) == LET S == Reported(f) IN Flows(S, Leaving(S, f), Reaching(S, f))

ReportEntriesCount(f) == Cardinality({e \in LedgerEntries : Matches(e, f)})

\* Broken: entries of categories the user does not see join with nothing.
SeenOnly(f, breakdown) ==
    LET S == {e \in Typed(Reported(f), breakdown) : e.category \in Category}
    IN  [c \in {e.category : e \in S} |-> Flow({e \in S : e.category = c})]

\* A category the user does not see counts as none.
ReportByCategory(f, breakdown) ==
    LET S == Typed(Reported(f), breakdown)
        Shown(e) == IF e.category \in Category THEN e.category ELSE None
    IN  [c \in {Shown(e) : e \in S} |-> Flow({e \in S : Shown(e) = c})]

\* Broken: the arriving leg counts for accounts nobody asked for.
EveryArrival(f) ==
    LET S == Reported(f)
    IN  [a \in {e.account : e \in S} \cup {e.to : e \in Typed(S, "TRANSFER")} |->
            Flows({e \in S : e.account = a}, {e \in Leaving(S, f) : e.account = a},
                  {e \in Typed(S, "TRANSFER") : e.to = a})]

ReportByAccount(f) ==
    LET S == Reported(f)
        arriving == Reaching(S, f)
        own == {e \in S : e.type # "TRANSFER"} \cup Leaving(S, f)
    IN  [a \in {e.account : e \in own} \cup {e.to : e \in arriving} |->
            Flows({e \in own : e.account = a}, {e \in Leaving(S, f) : e.account = a},
                  {e \in arriving : e.to = a})]

\* Day 0 is a Monday.  The month's buckets are Calendar's.
DateTrunc(t, bucket) == IF bucket = "week" THEN t - (t % 7) ELSE t

ReportTrend(f, bucket) ==
    LET S == Reported(f)
        Of(b, T) == {e \in T : DateTrunc(e.at, bucket) = b}
    IN  [b \in {DateTrunc(e.at, bucket) : e \in S} |->
            Flows(Of(b, S), Of(b, Leaving(S, f)), Of(b, Reaching(S, f)))]

-----------------------------------------------------------------------------
(* The report.                                                             *)

IncomeTotal(x, asFlow) == IF asFlow THEN x.income + x.in ELSE x.income
ExpenseTotal(x, asFlow) == IF asFlow THEN x.expense + x.out ELSE x.expense
Net(x, asFlow) == IncomeTotal(x, asFlow) - ExpenseTotal(x, asFlow)

\* Broken: the units rounding leaves over are not handed out.
RoundedDown(amounts) ==
    LET total == SumOf(DOMAIN amounts, LAMBDA i : amounts[i])
    IN  [i \in DOMAIN amounts |-> IF total = 0 THEN 0 ELSE (amounts[i] * 1000) \div total]

\* Tenths of a percent, the units left over to the largest remainders, the earlier first.
PercentTenths(amounts) ==
    LET total == SumOf(DOMAIN amounts, LAMBDA i : amounts[i])
        Quotient(i) == (amounts[i] * 1000) \div total
        Rest(i) == (amounts[i] * 1000) % total
        over == 1000 - SumOf(DOMAIN amounts, Quotient)
        Ahead(i) == {j \in DOMAIN amounts : amounts[j] > 0 /\ (Rest(j) > Rest(i) \/ (Rest(j) = Rest(i) /\ j < i))}
    IN  [i \in DOMAIN amounts |->
            IF total = 0 \/ amounts[i] = 0 THEN 0
            ELSE Quotient(i) + IF Cardinality(Ahead(i)) < over THEN 1 ELSE 0]

Report(f, breakdown) ==
    LET categories == ReportByCategory(f, breakdown)
        order == SetToSortSeq(DOMAIN categories, LAMBDA c, d : categories[c] > categories[d])
    IN  [totals |-> ReportTotals(f), entries |-> ReportEntriesCount(f),
         categories |-> categories, accounts |-> ReportByAccount(f),
         percent |-> PercentTenths([i \in DOMAIN order |-> categories[order[i]]])]

BucketStart(t, bucket) == IF bucket = "week" THEN t - (t % 7) ELSE t

\* Broken: the first bucket begins where the range does.
FromTheRange(from, to, bucket) ==
    {t \in from..(to - 1) : (t - from) % (IF bucket = "week" THEN 7 ELSE 1) = 0}

\* The buckets a range asks for, from the one its first day falls in.
Buckets(from, to, bucket) ==
    {t \in BucketStart(from, bucket)..(to - 1) : (t - BucketStart(from, bucket)) % (IF bucket = "week" THEN 7 ELSE 1) = 0}

\* A sum no bucket was made for is dropped.
Trend(f, bucket) ==
    LET sums == ReportTrend(f, bucket)
    IN  [b \in Buckets(f.from, f.to, bucket) |->
            IF b \in DOMAIN sums THEN sums[b] ELSE [income |-> 0, expense |-> 0, out |-> 0, in |-> 0]]

-----------------------------------------------------------------------------
(* Overview, summaries and budgets.                                        *)

\* Broken: a loan's bookings are income and expense.
WithLoans(from, to, category) ==
    {e \in LedgerEntries :
        /\ e.occurred /\ e.type \in {"INCOME", "EXPENSE"} /\ e.source # "ADJUSTMENT"
        /\ e.kind # "TRANSACTION" \/ e.account \in included
        /\ from <= e.at /\ e.at < to
        /\ category = None \/ e.category = category}

\* A category of None asks for all of them.
LedgerFlowTotals(from, to, category) ==
    {e \in LedgerEntries :
        /\ e.occurred /\ e.type \in {"INCOME", "EXPENSE"} /\ e.source \notin {"ADJUSTMENT", "LOAN"}
        /\ e.kind # "TRANSACTION" \/ e.account \in included
        /\ from <= e.at /\ e.at < to
        /\ category = None \/ e.category = category}

FlowTotals(from, to, category) ==
    LET S == LedgerFlowTotals(from, to, category)
    IN  [income |-> Flow(Typed(S, "INCOME")), expense |-> Flow(Typed(S, "EXPENSE"))]

\* What a set of entries adds to an account, in the account's currency.
Left(S, a) == SumOf({e \in S : e.account = a}, LAMBDA e : Convert(e.accountAmount, e.currency, Currency(a)))
Arrived(S, a) == SumOf({e \in S : e.to = a /\ e.occurred}, LAMBDA e : e.toAmount)

\* Broken: a group's entry is booked with the user's share of it.
ByShare == [a \in Account |->
    SumOf({e \in LedgerEntries : e.account = a /\ e.occurred},
          LAMBDA e : Convert(IF e.accountAmount > 0 THEN e.amount ELSE -e.amount, e.currency, Currency(a)))
    + Arrived(LedgerEntries, a)]

AccountBalances == [a \in Account |-> Left(LedgerEntries, a) + Arrived(LedgerEntries, a)]

Balances == AccountBalances

AccountMovements(a, from, to) ==
    LET S == {e \in LedgerEntries : from <= e.at /\ e.at < to}
        up == {e \in S : e.accountAmount > 0}
    IN  [inflow |-> Left(up, a) + Arrived(S, a), outflow |-> -Left(S \ up, a)]

AccountSummary(a, from, to) == [balance |-> Balances[a], moved |-> AccountMovements(a, from, to)]

ListPlannedTransactions(dueBefore) ==
    {e \in LedgerEntries : e.kind = "TRANSACTION" /\ ~e.occurred /\ e.at < dueBefore}

\* Broken: a transfer between two accounts of the balance counts as spent.
OneSided(from, to) ==
    LET items == ListPlannedTransactions(Max({to, Today}))
        due == {e \in items : e.at < to}
        counted == {e \in due : e.account \in included \cup {None}}
    IN  [overdue |-> {e \in items : e.at < Today},
         upcoming |-> {e \in items : e.at >= Today /\ from <= e.at /\ e.at < to},
         delta |-> Flow(Typed(counted, "INCOME")) - Flow(Typed(counted, "EXPENSE")) - Out(Typed(counted, "TRANSFER"))]

PlannedItems(from, to) ==
    LET items == ListPlannedTransactions(Max({to, Today}))
        due == {e \in items : e.at < to}
        counted == {e \in due : e.account \in included \cup {None}}
    IN  [overdue |-> {e \in items : e.at < Today},
         upcoming |-> {e \in items : e.at >= Today /\ from <= e.at /\ e.at < to},
         delta |-> Flow(Typed(counted, "INCOME")) - Flow(Typed(counted, "EXPENSE"))
                   - Out(Typed(counted, "TRANSFER"))
                   + In({e \in Typed(due, "TRANSFER") : e.to \in included})]

InBalance == SumOf(included, LAMBDA a : Convert(Balances[a], Currency(a), "EUR"))

Overview(from, to) ==
    [balance |-> InBalance, flows |-> FlowTotals(from, to, None),
     projected |-> InBalance + PlannedItems(from, to).delta, planned |-> PlannedItems(from, to)]

CategorySummary(c, from, to) == FlowTotals(from, to, c)

\* The spending of a budget on the given categories and accounts, all when none is given.
BudgetSpent(categories, accounts, from, to) ==
    {e \in LedgerEntries :
        /\ e.occurred /\ e.type = "EXPENSE" /\ e.source \notin {"ADJUSTMENT", "LOAN"} /\ e.flow > 0
        /\ from <= e.at /\ e.at < to
        /\ categories = {} \/ e.category \in categories
        /\ IF accounts = {} THEN e.kind # "TRANSACTION" \/ e.account \in included ELSE e.account \in accounts}

Spent(categories, accounts, from, to) == Flow(BudgetSpent(categories, accounts, from, to))

-----------------------------------------------------------------------------
(* Pages.                                                                  *)

Newer(e, d) == e.at > d.at \/ (e.at = d.at /\ e.id > d.id)

\* Broken: entries of the moment the last page ended at are behind the cursor.
SameMoment(e, d) == e.at > d.at

\* Where a page ended is older than nothing but what comes after it.
Before(e, d) == Newer(e, d)

ListLedgerEntries(f, cursor, lim) ==
    LET S == {e \in LedgerEntries : Matches(e, f) /\ (cursor = None \/ Before(cursor, e))}
    IN  SubSeq(SetToSortSeq(S, Newer), 1, Min({lim, Cardinality(S)}))

Ids(page) == [i \in DOMAIN page |-> page[i].id]

Idle == [op |-> "idle", touched |-> {}, done |-> TRUE]

\* Bounds: one row is written while a request is at work, and nothing after an adjustment.
Free == ~(job.op = "adjusted" \/ (~job.done /\ job.touched # {}))
Touched(id) == IF job.done THEN Idle ELSE [job EXCEPT !.touched = @ \cup {id}]

\* A row is booked, by a form or in a group.
Book(id, s) ==
    /\ Free /\ rows[id] = None
    /\ rows' = [rows EXCEPT ![id] = s @@ [amount |-> Unit(id)]]
    /\ job' = Touched(id)
    /\ UNCHANGED included

Delete(id) ==
    /\ Free /\ rows[id] # None
    /\ rows' = [rows EXCEPT ![id] = None]
    /\ job' = Touched(id)
    /\ UNCHANGED included

\* A planned row is paid; a row of no account is paid from one.
Pay(id, a) ==
    /\ Free /\ rows[id] # None
    /\ ~rows[id].paid /\ (rows[id].account = a \/ (rows[id].account = None /\ a \notin Foreign))
    /\ rows' = [rows EXCEPT ![id].paid = TRUE, ![id].at = Today, ![id].account = a]
    /\ job' = Touched(id)
    /\ UNCHANGED included

Ask(op, q, size) ==
    /\ job.done
    /\ job' = [op |-> op, filter |-> ParseFilters(q), cursor |-> None, size |-> size, out |-> <<>>,
               touched |-> {}, done |-> FALSE]
    /\ UNCHANGED <<rows, included>>

\* A page of the listing: one row more than shown tells that there is another page.
LedgerPage ==
    /\ job.op = "ledger" /\ ~job.done
    /\ LET page == ListLedgerEntries(job.filter, job.cursor, job.size + 1)
           shown == SubSeq(page, 1, Min({job.size, Len(page)}))
       IN  job' = [job EXCEPT !.out = @ \o Ids(shown), !.done = Len(page) <= job.size,
                              !.cursor = IF shown = <<>> THEN @ ELSE Last(shown)]
    /\ UNCHANGED <<rows, included>>

\* Broken: the page is compared with the size of the next one.
NextSize(page, size) == Len(page) < Min({2 * size, LastPage})

LastOne(page, size) == Len(page) < size

\* A page of the export, twice as long as the one now.
ReportCSV ==
    /\ job.op = "csv" /\ ~job.done
    /\ LET page == ListLedgerEntries(job.filter, job.cursor, job.size)
       IN  job' = [job EXCEPT !.out = @ \o Ids(page), !.done = LastOne(page, job.size),
                              !.size = Min({2 * @, LastPage}),
                              !.cursor = IF page = <<>> THEN @ ELSE Last(page)]
    /\ UNCHANGED <<rows, included>>

\* The balance the difference will be taken from.
AdjustAccount(a, target) ==
    /\ job.done
    /\ job' = [op |-> "adjust", account |-> a, target |-> target, seen |-> Balances[a],
               touched |-> {}, done |-> FALSE]
    /\ UNCHANGED <<rows, included>>

\* Broken: every adjustment is an income.
AlwaysIncome(a, delta) ==
    [kind |-> "TRANSACTION", type |-> "INCOME", source |-> "ADJUSTMENT", account |-> a, to |-> None,
     category |-> None, at |-> Today, paid |-> TRUE, share |-> "whole", currency |-> None,
     amount |-> Max({delta, -delta})]

Adjustment(a, delta) ==
    [kind |-> "TRANSACTION", type |-> IF delta < 0 THEN "EXPENSE" ELSE "INCOME", source |-> "ADJUSTMENT",
     account |-> a, to |-> None, category |-> None, at |-> Today, paid |-> TRUE, share |-> "whole",
     currency |-> None, amount |-> Max({delta, -delta})]

PostAdjustment ==
    /\ job.op = "adjust" /\ ~job.done
    /\ LET delta == job.target - job.seen
       IN  \/ delta = 0 /\ UNCHANGED rows
           \/ /\ delta # 0
              /\ \E id \in Slot : rows[id] = None /\ rows' = [rows EXCEPT ![id] = Adjustment(job.account, delta)]
    /\ job' = [job EXCEPT !.op = "adjusted"]
    /\ UNCHANGED included

Init == rows = [id \in Slot |-> None] /\ included \in Included /\ job = Idle

Next ==
    \/ \E id \in Slot : Delete(id) \/ (\E s \in Shape[id] : Book(id, s)) \/ (\E a \in Account : Pay(id, a))
    \/ \E q \in Listed : Ask("ledger", q, Limit) \/ Ask("csv", q, FirstPage)
    \/ LedgerPage \/ ReportCSV \/ PostAdjustment
    \/ \E a \in Account, target \in {0, 1} : AdjustAccount(a, target)

Spec == Init /\ [][Next]_vars

-----------------------------------------------------------------------------
TypeOK ==
    /\ \A id \in Slot : rows[id] # None =>
         /\ {rows[id].account, rows[id].to} \subseteq Account \cup {None}
         /\ rows[id].paid \in BOOLEAN /\ rows[id].amount > 0
    /\ included \in Included
    /\ job.op \in {"idle", "ledger", "csv", "adjust", "adjusted"} /\ job.touched \subseteq Slot

SumAll(flows, Value(_)) == SumOf(DOMAIN flows, LAMBDA k : Value(flows[k]))

\* What was asked adds up: the categories and the accounts of a report, and the buckets of
\* its trend, to its totals, whatever the filter; the entries counted are those listed; and
\* the percentages to a hundred (reports.go:184-360, 411-500, wallet_reports.sql.go).
ReportAddsUp == job = Idle =>
    \A q \in Query :
        LET f == ParseFilters(q)
            total == ReportTotals(f)
            all == ListLedgerEntries(f, None, Cardinality(Slot))
        IN  /\ \A breakdown \in {"INCOME", "EXPENSE"} :
                 LET r == Report(f, breakdown)
                     sum == SumOf(DOMAIN r.categories, LAMBDA c : r.categories[c])
                 IN  /\ sum = (IF breakdown = "INCOME" THEN total.income ELSE total.expense)
                     /\ SumOf(DOMAIN r.percent, LAMBDA i : r.percent[i]) = IF sum = 0 THEN 0 ELSE 1000
                     /\ r.entries = Len(all)
            /\ \A asFlow \in BOOLEAN :
                 /\ SumAll(ReportByAccount(f), LAMBDA x : Net(x, asFlow)) = Net(total, asFlow)
                 /\ SumAll(ReportByAccount(f), LAMBDA x : IncomeTotal(x, asFlow)) = IncomeTotal(total, asFlow)
            /\ f.to # Forever =>
                 \A bucket \in {"day", "week"} :
                    /\ SumAll(Trend(f, bucket), LAMBDA x : Net(x, TRUE)) = Net(total, TRUE)
                    /\ SumAll(Trend(f, bucket), LAMBDA x : x.income) = total.income

Everything(from, to) ==
    ParseFilters([planned |-> "", from |-> from, to |-> to, kinds |-> {}, shares |-> TRUE, types |-> {},
                  hide |-> FALSE, accounts |-> {}, categories |-> {}])

\* The other reads tell the same: the overview and the category summaries what the report
\* does, the budgets what the report of their accounts does, an account's movements make its
\* balance, and what is planned is overdue or coming (ledger.go:155-330, accounts.go:485-575, budgets.go:64-107).
SummariesAgree == job = Idle =>
    \A from \in {0, Today}, to \in {Today, Forever} :
        LET f == Everything(from, to)
            total == ReportTotals(f)
            now == Overview(from, to)
        IN  /\ now.flows = [income |-> total.income, expense |-> total.expense]
            /\ \A c \in Category :
                 /\ CategorySummary(c, from, to).income
                      = LET r == ReportByCategory(f, "INCOME") IN IF c \in DOMAIN r THEN r[c] ELSE 0
                 /\ CategorySummary(c, from, to).expense
                      = LET r == ReportByCategory(f, "EXPENSE") IN IF c \in DOMAIN r THEN r[c] ELSE 0
            /\ Spent({}, {}, from, to) = total.expense
            /\ \A a \in Account :
                 /\ Spent({}, {a}, from, to) = ReportTotals([f EXCEPT !.accounts = {a}]).expense
                 /\ LET whole == AccountSummary(a, 0, Forever)
                        early == AccountMovements(a, 0, Today)
                        late == AccountMovements(a, Today, Forever)
                    IN  /\ whole.balance = whole.moved.inflow - whole.moved.outflow
                        /\ whole.moved.inflow = early.inflow + late.inflow
            /\ from = 0 => now.planned.overdue \cup now.planned.upcoming
                            = {e \in ListPlannedTransactions(Forever) : e.at < Max({to, Today})}

\* A listing or an export shows every row nobody touched meanwhile once, in order, and no
\* other (ledger.go:63-130, reports.go:520-590).
ListsEveryRow ==
    job.done /\ job.op \in {"ledger", "csv"} =>
        LET all == ListLedgerEntries(job.filter, None, Cardinality(Slot))
            Untouched(ids) == SelectSeq(ids, LAMBDA id : id \notin job.touched)
        IN  Untouched(job.out) = Untouched(Ids(all))

\* The balance moves as it was told to: an adjustment takes it to its target and whatever
\* was booked since it read, and is no income or expense of any report; and paying what is
\* planned leaves the projected balance where it was (accounts.go:415-483,
\* planned.go:1031-1130).
BalanceMovesAsTold ==
    [][/\ PostAdjustment =>
            /\ (Balances[job.account])' = job.target + Balances[job.account] - job.seen
            /\ \A q \in Query : ReportTotals(ParseFilters(q))' = ReportTotals(ParseFilters(q))
       /\ \A id \in Slot, a \in Account :
            Pay(id, a) /\ (rows[id].account = None => a \in included) =>
                (Overview(0, Forever).projected)' = Overview(0, Forever).projected]_vars
=============================================================================
