------------------------------- MODULE Backup -------------------------------
(***************************************************************************)
(* The backup of a user's data, GET /me/export.json, and the transactions  *)
(* as CSV: internal/export/wallet.go.  Each section is a statement of its  *)
(* own and the transactions follow in pages, so handlers that write commit *)
(* in between; a writing handler is one step here, its own interleavings   *)
(* are in Accounts, Loans, PlanLocks and GroupLedger.  A row is known by   *)
(* the rows it refers to, all other columns are left out.                  *)
(***************************************************************************)
EXTENDS FiniteSets, Naturals, Sequences

CONSTANTS Account, Tag, Plan, Budget, Loan, Record, Expense, Settlement,
          Category,            \* the user's own categories
          Others,              \* categories of the other members of the group
          Team,                \* the user's membership of a group
          Txn,                 \* ids of transactions, in the order of ids
          SortAt,              \* Txn -> the time the ledger sorts by
          World, Paid,         \* Row -> what the rows that exist at first refer to; those occurred
          PageSize,            \* transactions per page
          MaxWrites            \* bound: writes before and while the export runs

VARIABLES live, gone,          \* rows that exist; rows deleted, softly or for good
          refs,                \* row -> the rows it refers to
          occurred,            \* transactions with occurred_at
          export,              \* the request
          writes

vars == <<live, gone, refs, occurred, export, writes>>

Row == Account \cup Category \cup Tag \cup Plan \cup Budget \cup Loan \cup Record \cup Txn
         \cup Expense \cup Settlement \cup {Team}

NoExport == [kind |-> "none", pc |-> 0, cursor |-> 0, doc |-> [x \in {} |-> {}],
             listed |-> [t \in Txn |-> 0], touched |-> {}]

Init ==
    /\ live = DOMAIN World /\ gone = {}
    /\ refs = [x \in Row |-> IF x \in live THEN World[x] ELSE {}]
    /\ occurred = Paid
    /\ export = NoExport /\ writes = 0

Live(S) == S \cap live
Free(S) == S \ (live \cup gone)
Naming(S, x) == {y \in Live(S) : x \in refs[y]}

-----------------------------------------------------------------------------
(***************************************************************************)
(* Writers.  changed gives the rows inserted or updated, dead those deleted. *)
(***************************************************************************)
Save(changed, dead) ==
    /\ writes < MaxWrites /\ writes' = writes + 1
    /\ live' = (live \cup DOMAIN changed) \ dead
    /\ gone' = gone \cup dead
    /\ refs' = [x \in Row |-> IF x \in DOMAIN changed THEN changed[x] ELSE refs[x]]
    /\ export' = [export EXCEPT !.touched =
                    IF export.pc = 0 THEN {} ELSE export.touched \cup DOMAIN changed \cup dead]

Insert(x, what) == Save([y \in {x} |-> what], {})
Unlinked(rows, x) == [y \in rows |-> refs[y] \ {x}]

\* validate: one account the user has, or two for a transfer; a category and tags
Places == {P \in SUBSET Live(Account) : Cardinality(P) \in {1, 2}}
AtMostOne(S) == {{}} \cup {{x} : x \in Live(S)}
Labels == {C \cup T : C \in AtMostOne(Category), T \in SUBSET Live(Tag)}

CreateAccount == \E a \in Free(Account) : Insert(a, {}) /\ UNCHANGED occurred
CreateCategory == \E c \in Free(Category) : Insert(c, {}) /\ UNCHANGED occurred
CreateTag == \E g \in Free(Tag) : Insert(g, {}) /\ UNCHANGED occurred

SoftDeleteAccountTransactions(a) == Naming(Txn, a)
SoftDeleteAccountPlannedPayments(a) == Naming(Plan, a)
ClearExpensePayerAccount(a) == Naming(Expense, a)
ClearSettlementFromAccount(a) == Naming(Settlement, a)
ClearAccountFromLoans(a) == Naming(Loan, a)
\* The broken variant leaves the records alone.
LoansOnly(a) == {}
ClearAccountFromLoanRecords(a) == Naming(Record, a)

DeleteAccount == \E a \in Live(Account) :
    LET cleared == ClearExpensePayerAccount(a) \cup ClearSettlementFromAccount(a)
                     \cup ClearAccountFromLoans(a) \cup ClearAccountFromLoanRecords(a)
        dead == {a} \cup SoftDeleteAccountTransactions(a) \cup SoftDeleteAccountPlannedPayments(a)
    IN Save(Unlinked(cleared, a), dead) /\ UNCHANGED occurred

\* The foreign keys set category_id to NULL; a budget's list has no foreign key.
DeleteCategory == \E c \in Live(Category) :
    Save(Unlinked(Naming(Txn \cup Plan \cup Expense, c), c), {c}) /\ UNCHANGED occurred

\* The rows of transaction_tags and planned_payment_tags go with the tag.
DeleteTag == \E g \in Live(Tag) :
    Save(Unlinked(Naming(Txn \cup Plan, g), g), {g}) /\ UNCHANGED occurred

CreateTransaction == \E t \in Free(Txn), P \in Places, L \in Labels :
    /\ Insert(t, P \cup L)
    /\ occurred' \in {occurred, occurred \cup {t}}

\* A booking of a loan is refused.
ByHand(t) == refs[t] \cap Loan = {}

UpdateTransaction == \E t \in Live(Txn), P \in Places, L \in Labels :
    /\ ByHand(t)
    /\ Insert(t, P \cup L \cup (refs[t] \cap Plan))
    /\ UNCHANGED occurred

Pending(p) == Naming(Txn, p) \ occurred
\* The occurrence that follows, none after a one-time plan
Following(p) == {[t \in {} |-> {}]} \cup {[t \in {n} |-> refs[p] \cup {p}] : n \in Free(Txn)}

CreatePlanned == \E p \in Free(Plan), n \in Free(Txn), P \in Places, L \in Labels :
    /\ Save([x \in {p, n} |-> IF x = p THEN P \cup L ELSE P \cup L \cup {p}], {})
    /\ UNCHANGED occurred

\* Only the pending occurrence is deleted, those paid keep the plan's id.
DeletePlanned == \E p \in Live(Plan) :
    Save([x \in {} |-> {}], {p} \cup Pending(p)) /\ UNCHANGED occurred

\* Paid as planned or from another account; advancePlan finds no plan once it is deleted.
From(t) == {refs[t]} \cup {(refs[t] \ Account) \cup {a} : a \in Live(Account)}

PayTransaction == \E t \in Live(Txn) \ occurred : \E paid \in From(t) :
    /\ Cardinality(refs[t] \cap Account) = 2 => paid = refs[t]
    /\ occurred' = occurred \cup {t}
    /\ IF Live(refs[t] \cap Plan) = {} THEN Insert(t, paid)
       ELSE \E p \in refs[t] \cap Plan : \E new \in Following(p) :
              Save([x \in {t} \cup DOMAIN new |-> IF x = t THEN paid ELSE new[x]], {})

DeleteTransaction == \E t \in Live(Txn) :
    /\ ByHand(t) /\ UNCHANGED occurred
    /\ IF t \in occurred \/ Live(refs[t] \cap Plan) = {} THEN Save([x \in {} |-> {}], {t})
       ELSE \E p \in refs[t] \cap Plan : \E new \in Following(p) : Save(new, {t})

\* Ids that are new to the budget are validated, those it has may be of deleted rows.
UpdateBudget == \E b \in Live(Budget), what \in SUBSET Live(Account \cup Category) :
    \E old \in SUBSET (refs[b] \cap gone) : Insert(b, what \cup old) /\ UNCHANGED occurred
CreateBudget == \E b \in Free(Budget), what \in SUBSET Live(Account \cup Category) :
    Insert(b, what) /\ UNCHANGED occurred
DeleteBudget == \E b \in Live(Budget) : Save([x \in {} |-> {}], {b}) /\ UNCHANGED occurred

\* A loan or a record and the transaction that books it on an account, if any
WithBooking(x, owner, P, t) ==
    [y \in {x, t} |-> IF y = x THEN owner \cup P ELSE {x} \cup owner \cup P]
CreateLoan == \E l \in Free(Loan), a \in Live(Account), t \in Free(Txn) :
    \/ Save(WithBooking(l, {}, {a}, t), {}) /\ occurred' = occurred \cup {t}
    \/ Insert(l, {}) /\ UNCHANGED occurred
CreateLoanRecord == \E k \in Free(Record), l \in Live(Loan), a \in Live(Account), t \in Free(Txn) :
    \/ Save(WithBooking(k, {l}, {a}, t), {}) /\ occurred' = occurred \cup {t}
    \/ Insert(k, {l}) /\ UNCHANGED occurred
DeleteLoan == \E l \in Live(Loan) :
    Save([x \in {} |-> {}], {l} \cup Naming(Record \cup Txn, l)) /\ UNCHANGED occurred
DeleteLoanRecord == \E k \in Live(Record) :
    Save([x \in {} |-> {}], {k} \cup Naming(Txn, k)) /\ UNCHANGED occurred

\* The user pays from an account, another member pays with a category of theirs.
CreateExpense == \E x \in Free(Expense) :
    /\ Team \in live
    /\ \/ \E a \in Live(Account), L \in AtMostOne(Category) : Insert(x, {a} \cup L)
       \/ \E c \in Others : Insert(x, {c})
    /\ UNCHANGED occurred
Settle == \E s \in Free(Settlement), a \in Live(Account) :
    Team \in live /\ Insert(s, {a}) /\ UNCHANGED occurred
Leave == Team \in live /\ Save([x \in {} |-> {}], {Team}) /\ UNCHANGED occurred

Write ==
    \/ CreateAccount \/ CreateCategory \/ CreateTag \/ DeleteAccount \/ DeleteCategory \/ DeleteTag
    \/ CreateTransaction \/ UpdateTransaction \/ PayTransaction \/ DeleteTransaction
    \/ CreatePlanned \/ DeletePlanned \/ CreateBudget \/ UpdateBudget \/ DeleteBudget
    \/ CreateLoan \/ CreateLoanRecord \/ DeleteLoan \/ DeleteLoanRecord
    \/ CreateExpense \/ Settle \/ Leave

-----------------------------------------------------------------------------
(***************************************************************************)
(* loadBackup, one statement per section.                                  *)
(***************************************************************************)
ExportAccounts == Live(Account)
ExportOwnedCategories == Live(Category)
ExportTags == Live(Tag)
ExportPlannedPayments == Live(Plan)
ExportBudgets == Live(Budget)
ExportLoans == Live(Loan)
ExportLoanRecords == {k \in Live(Record) : refs[k] \cap Loan \subseteq live}
ExportMyGroups == Live({Team})
ExportMyGroupExpenses == IF Team \in live THEN Live(Expense) ELSE {}
ExportMyGroupSettlements == IF Team \in live THEN Live(Settlement) ELSE {}

Sections == <<ExportAccounts, ExportOwnedCategories, ExportTags, ExportPlannedPayments, ExportBudgets,
              ExportLoans, ExportLoanRecords, ExportMyGroups, ExportMyGroupExpenses,
              ExportMyGroupSettlements>>
Pages == Len(Sections) + 1
Done == Pages + 1
Aborted == Done + 1

\* A record goes under its loan and a settlement under its group; without them it is
\* dropped.  An expense is in "data" too, whatever groups were read.
Nested(rows) == {x \in rows :
    /\ x \in Record => refs[x] \cap Loan \subseteq DOMAIN export.doc
    /\ x \in Settlement => Team \in DOMAIN export.doc}

\* doc with the rows as they are now
Written(rows) == [x \in DOMAIN export.doc \cup rows |-> IF x \in rows THEN refs[x] ELSE export.doc[x]]

Request(kind) ==
    /\ export.kind = "none"
    /\ export' = [NoExport EXCEPT !.kind = kind, !.pc = IF kind = "json" THEN 1 ELSE Pages]
    /\ UNCHANGED <<live, gone, refs, occurred, writes>>

ReadSection ==
    /\ export.pc \in 1..Len(Sections)
    /\ export' = [export EXCEPT !.pc = @ + 1, !.doc = Written(Nested(Sections[export.pc]))]
    /\ UNCHANGED <<live, gone, refs, occurred, writes>>

-----------------------------------------------------------------------------
(***************************************************************************)
(* Pages of transactions by keyset: the backup by id, the CSV from the     *)
(* newest down.  A page that is not full is the last one.                  *)
(***************************************************************************)
Newer(s, t) == SortAt[s] > SortAt[t] \/ (SortAt[s] = SortAt[t] /\ s > t)
\* The broken variant compares times alone.
ByTime(s, t) == SortAt[s] > SortAt[t]
CSVOrder(s, t) == Newer(s, t)

\* The broken variant starts the next page with the last row again.
FromCursor(t) == t >= export.cursor
AfterId(t) == t > export.cursor

Rest(kind) == {t \in Live(Txn) : IF kind = "json" THEN AfterId(t)
                                 ELSE export.cursor = 0 \/ CSVOrder(export.cursor, t)}
Ahead(kind, s, t) == IF kind = "json" THEN s < t ELSE Newer(s, t)
FirstOf(kind, S) == {t \in S : Cardinality({s \in S : Ahead(kind, s, t)}) < PageSize}

ExportTransactionsPage == FirstOf("json", Rest("json"))
ExportTransactionsCSVPage == FirstOf("csv", Rest("csv"))

ReadPage(page) ==
    /\ export.pc = Pages
    /\ export' = [export EXCEPT
         !.doc = IF export.kind = "json" THEN Written(page) ELSE export.doc,
         !.listed = [t \in Txn |-> IF t \in page THEN @[t] + 1 ELSE @[t]],
         !.cursor = IF page = {} THEN @ ELSE CHOOSE t \in page : \A s \in page \ {t} : Ahead(export.kind, s, t),
         !.pc = IF Cardinality(page) < PageSize THEN Done ELSE Pages]
    /\ UNCHANGED <<live, gone, refs, occurred, writes>>

MyJSON == export.kind = "json" /\ ReadPage(ExportTransactionsPage)
TransactionsCSV == export.kind = "csv" /\ ReadPage(ExportTransactionsCSVPage)

\* A statement fails: an error instead of the document, or a connection that breaks off.
Fail ==
    /\ export.pc \in 1..Pages
    /\ export' = [NoExport EXCEPT !.kind = export.kind, !.pc = Aborted]
    /\ UNCHANGED <<live, gone, refs, occurred, writes>>

Next ==
    \/ export.pc < Done /\ Write
    \/ Request("json") \/ Request("csv") \/ ReadSection \/ MyJSON \/ TransactionsCSV \/ Fail

Spec == Init /\ [][Next]_vars

-----------------------------------------------------------------------------
TypeOK ==
    /\ live \subseteq Row /\ gone \subseteq Row \ live
    /\ refs \in [Row -> SUBSET (Row \cup Others)] /\ occurred \subseteq Txn
    /\ export.kind \in {"none", "json", "csv"} /\ export.pc \in 0..Aborted
    /\ export.listed \in [Txn -> Nat] /\ DOMAIN export.doc \cup export.touched \subseteq Row
    /\ writes \in 0..MaxWrites

Complete == export.pc = Done
Untouched(S) == Live(S) \ export.touched

\* What was there all the time and nobody wrote is listed once, and nothing is that was
\* deleted before (export/wallet.go:159-238, 505-560).
ListsOnce ==
    Complete => /\ \A t \in Untouched(Txn) : export.listed[t] = 1
                /\ \A t \in Txn : export.listed[t] > 0 => t \in live \cup export.touched

\* So is every other row, as it is, unless what it is nested in was written meanwhile
\* (export/wallet.go:246-463).
HoldsEveryRow ==
    (Complete /\ export.kind = "json") =>
        \A x \in Untouched(Row) :
            (x \in Expense \cup Settlement \cup Record => (refs[x] \cap Loan) \cup {Team} \subseteq Untouched(Row))
            => x \in DOMAIN export.doc /\ export.doc[x] = refs[x]

\* Ids that stay after their row is gone, or are of rows the user does not own: a budget's
\* categories and accounts, a paid occurrence's plan, the category of another member.
Stale(x, y) ==
    \/ y \in gone /\ (x \in Budget \/ (x \in Txn /\ y \in Plan))
    \/ x \in Expense /\ y \in Others

\* Every other reference points at a row of the document or at one written while it was
\* read: the handlers that delete a row cut every reference to it
\* (accounts.go:327-380, categories.sql DeleteCategory, loans.go:534-570).
PointsInside ==
    (Complete /\ export.kind = "json") =>
        \A x \in DOMAIN export.doc : \A y \in export.doc[x] :
            y \in DOMAIN export.doc \/ y \in export.touched \/ Stale(x, y)
=============================================================================
