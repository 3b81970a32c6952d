-------------------------------- MODULE Loans --------------------------------
(***************************************************************************)
(* A loan, its records and the transactions that book them on an account:  *)
(* internal/wallet/loans.go.  Requests run concurrently; a transaction's   *)
(* writes stay in dirty[r] until it commits and keep their rows locked.    *)
(* Most writers lock the loan's row first, DeleteLoanRecord does not.      *)
(* DeleteAccount (accounts.go) soft-deletes the bookings underneath.       *)
(***************************************************************************)
EXTENDS Naturals

CONSTANTS Loan,              \* the row of loans
          Records, Recorded, \* rows of loan_records, and the one that exists at the start
          Txns, Lent, Repaid,\* transactions, and the bookings of the loan and of Recorded
          None,              \* no transaction
          Requests           \* 1..n, served once, numbered as they come

VARIABLES row, open, dirty, req, overlap

vars == <<row, open, dirty, req, overlap>>

Rows == {Loan} \cup Records \cup Txns

\* loans, loan_records and transactions alike: booked says whether account_id is set,
\* txn is a record's transaction_id, owner what a booking books, terms the type, name
\* and currency of the loan or record (of both, for a booking).
Row == [state : {"free", "live", "gone"}, booked : BOOLEAN, txn : Txns \cup {None},
        owner : {Loan} \cup Records, terms : {0, 1} \X {0, 1}]

Ops == {"CreateLoan", "UpdateLoan", "DeleteLoan", "CreateLoanRecord", "UpdateLoanRecord", "DeleteLoanRecord",
        "DeleteAccount"}

Pcs == Ops \cup {"idle", "lock", "create", "each", "delete record", "unbook", "records", "txns", "close", "account txns",
                 "account loans", "account records", "commit", "fail", "done", "failed"}

\* One request: account is the account_id it sends, rec the row it read before its
\* transaction, todo the rows still to write.
RequestState == [op : Ops \cup {"none"}, pc : Pcs, id : Records, account : BOOLEAN,
            seen : Txns \cup {None}, todo : SUBSET Rows]

Blank(owner) == [state |-> "free", booked |-> FALSE, txn |-> None, owner |-> owner, terms |-> <<0, 0>>]

\* A new booking, ...
CreateTransaction(owner, terms) ==
    [state |-> "live", booked |-> TRUE, txn |-> None, owner |-> owner, terms |-> terms]

\* ... and one rewritten: what it books never changes.
LoanBookingUpdate(txn, terms) == [txn EXCEPT !.booked = TRUE, !.terms = terms]

\* The user has no loan yet, or one with a record, both booked.
NoLoan == [x \in Rows |-> Blank(IF x \in Records THEN x ELSE Loan)]

OneLoan == [x \in Rows |->
               CASE x = Loan -> [Blank(Loan) EXCEPT !.state = "live", !.booked = TRUE]
                 [] x = Recorded -> [Blank(Recorded) EXCEPT !.state = "live", !.booked = TRUE, !.txn = Repaid]
                 [] x \in Records \ {Recorded} -> Blank(x)
                 [] x = Lent -> CreateTransaction(Loan, <<0, 0>>)
                 [] x = Repaid -> CreateTransaction(Recorded, <<0, 0>>)
                 [] OTHER -> Blank(Loan)]

Init ==
    /\ row \in {NoLoan, OneLoan}
    /\ open = TRUE
    /\ dirty = [r \in Requests |-> [x \in {} |-> Blank(Loan)]]
    /\ req = [r \in Requests |-> [op |-> "none", pc |-> "idle", id |-> Recorded, account |-> FALSE,
                                  seen |-> None, todo |-> {}]]
    /\ overlap = FALSE

Sees(r, x) == IF x \in DOMAIN dirty[r] THEN dirty[r][x] ELSE row[x]

Live(r, x) == Sees(r, x).state = "live"

\* Nobody else has written x and not committed; broken: nothing is locked.
NeverLocked(r, x) == TRUE
Free(r, x) == \A q \in Requests \ {r} : x \notin DOMAIN dirty[q]

Over(r, new) == [x \in DOMAIN dirty[r] \cup DOMAIN new |-> IF x \in DOMAIN new THEN new[x] ELSE dirty[r][x]]

Wrote(r, new) == dirty' = [dirty EXCEPT ![r] = Over(r, new)]

InTx(r) == req[r].pc \notin {"idle", "done", "failed"}

-----------------------------------------------------------------------------
\* What overlaps a deletion that does not lock the loan's row first.
Clashes(a, b) ==
    \/ a = "DeleteAccount" /\ b \in {"CreateLoan", "UpdateLoan", "CreateLoanRecord", "UpdateLoanRecord"}
    \/ a = "DeleteLoanRecord" /\ b \in {"UpdateLoan", "UpdateLoanRecord"}

\* A request arrives.  DeleteLoanRecord reads its record, and the booking it names,
\* before its transaction begins.
Start(r) ==
    /\ req[r].pc = "idle" /\ \A q \in Requests : q < r => req[q].pc # "idle"
    /\ \E op \in Ops, id \in Records, account \in BOOLEAN :
         /\ op \in {"DeleteLoan", "DeleteLoanRecord", "DeleteAccount"} => ~account
         /\ op \in {"CreateLoan", "UpdateLoan", "DeleteLoan", "DeleteAccount"} => id = Recorded
         /\ op = "CreateLoan" => row[Loan].state = "free" /\ \A q \in Requests : req[q].op # "CreateLoan"
         /\ op \in {"UpdateLoan", "CreateLoanRecord"} => row[Loan].state # "free"
         /\ op = "DeleteLoanRecord" => row[id].state = "live" /\ row[Loan].state = "live"
         /\ op = "CreateLoanRecord" => row[id].state = "free"
         /\ op \in {"UpdateLoanRecord"} => row[id].state = "live"
         /\ req' = [req EXCEPT ![r] = [op |-> op, id |-> id, account |-> account, todo |-> {},
                       seen |-> IF op = "DeleteLoanRecord" THEN row[id].txn ELSE None,
                       pc |-> CASE op = "DeleteLoanRecord" -> "delete record"
                                [] op = "DeleteAccount" -> "close"
                                [] op = "CreateLoan" -> "create"
                                [] OTHER -> "lock"]]
         /\ overlap' = (overlap \/ \E q \in Requests :
                          InTx(q) /\ (Clashes(op, req[q].op) \/ Clashes(req[q].op, op)))
    /\ UNCHANGED <<row, open, dirty>>

\* LockLoan: the row is read again once it is free.
LockLoan(r) ==
    /\ req[r].pc = "lock" /\ req[r].op # "DeleteLoan"
    /\ Free(r, Loan)
    /\ IF ~Live(r, Loan) THEN req' = [req EXCEPT ![r].pc = "fail"] /\ UNCHANGED dirty
       ELSE /\ Wrote(r, [x \in {Loan} |-> Sees(r, x)])
            /\ req' = [req EXCEPT ![r].pc = req[r].op]
    /\ UNCHANGED <<row, open, overlap>>

\* SoftDeleteLoan waits for the row and finds it or not.
SoftDeleteLoan(r) ==
    /\ req[r].pc = "lock" /\ req[r].op = "DeleteLoan"
    /\ Free(r, Loan)
    /\ IF ~Live(r, Loan) THEN req' = [req EXCEPT ![r].pc = "fail"] /\ UNCHANGED dirty
       ELSE /\ Wrote(r, [x \in {Loan} |-> [Sees(r, x) EXCEPT !.state = "gone"]])
            /\ req' = [req EXCEPT ![r].pc = "records"]
    /\ UNCHANGED <<row, open, overlap>>

\* The transaction that books the loan itself, ...
GetLoanTransaction(r) == {t \in Txns : Live(r, t) /\ Sees(r, t).owner = Loan}

\* ... and the one a record names, if it is still there.
GetTransaction(r, txn) == {t \in {txn} \cap Txns : Live(r, t)}

\* The booking that is there already; broken: it is not looked for.
NotLookedFor(r, x, txn) == {}
Existing(r, x, txn) == IF x = Loan THEN GetLoanTransaction(r) ELSE GetTransaction(r, txn)

NewTxn(r) == {t \in Txns : row[t].state = "free" /\ \A q \in Requests : t \notin DOMAIN dirty[q]}

\* The account must exist, and the rows are taken or waited for.
CanSync(r, x, booked, txn) ==
    LET existing == Existing(r, x, txn)
    IN  /\ \A t \in existing : Free(r, t)
        /\ booked => open /\ (existing = {} => NewTxn(r) # {})

\* syncBooking: the booking is removed, rewritten or created: the rows it leaves behind, and
\* the transaction that books x from now on.
SyncBooking(r, x, booked, txn, terms) ==
    LET existing == Existing(r, x, txn)
        t == CHOOSE u \in IF existing # {} THEN existing ELSE NewTxn(r) : TRUE
    IN  IF ~booked
        THEN [txns |-> [u \in existing |-> [Sees(r, u) EXCEPT !.state = "gone"]], id |-> None]
        ELSE [txns |-> [u \in {t} |-> IF u \in existing THEN LoanBookingUpdate(Sees(r, u), terms)
                                      ELSE CreateTransaction(x, terms)],
              id |-> t]

\* A loan is written together with its booking.
WroteLoan(r, loan) ==
    LET txns == SyncBooking(r, Loan, loan.booked, None, loan.terms).txns
    IN  /\ CanSync(r, Loan, loan.booked, None)
        /\ Wrote(r, [x \in {Loan} \cup DOMAIN txns |-> IF x = Loan THEN loan ELSE txns[x]])

\* CreateLoan: the loan and, with an account, its booking.
CreateLoan(r) ==
    /\ req[r].pc = "create"
    /\ WroteLoan(r, [Blank(Loan) EXCEPT !.state = "live", !.booked = req[r].account])
    /\ req' = [req EXCEPT ![r].pc = "commit"]
    /\ UNCHANGED <<row, open, overlap>>

\* The records of the loan that are on an account.
ListLoanRecords(r) == {k \in Records : Live(r, k) /\ Sees(r, k).booked}

\* UpdateLoan: the loan takes its new terms and its account, its booking follows, and
\* the records to go through are listed.
UpdateLoan(r) ==
    /\ req[r].pc = "UpdateLoan"
    /\ WroteLoan(r, [Sees(r, Loan) EXCEPT !.booked = req[r].account, !.terms = <<1 - @[1], 0>>])
    /\ req' = [req EXCEPT ![r].pc = "each", ![r].todo = ListLoanRecords(r)]
    /\ UNCHANGED <<row, open, overlap>>

\* A record's booking says what the loan and the record say; broken: the record alone.
OwnTerms(r, rec) == rec.terms
RecordTerms(r, rec) == <<Sees(r, Loan).terms[1], rec.terms[2]>>

\* saveRecordBooking for one of the listed records: its booking is rewritten, or made
\* again when it is gone, ...
SaveRecordBooking(r) ==
    /\ req[r].pc = "each" /\ req[r].seen = None
    /\ \E k \in req[r].todo :
         LET booking == SyncBooking(r, k, TRUE, row[k].txn, RecordTerms(r, Sees(r, k)))
         IN  /\ CanSync(r, k, TRUE, row[k].txn)
             /\ Wrote(r, booking.txns)
             /\ req' = [req EXCEPT ![r].seen = booking.id, ![r].id = k]
    /\ UNCHANGED <<row, open, overlap>>

\* ... and then linked to the record, deleted or not.
SetLoanRecordTransaction(r) ==
    /\ req[r].pc = "each" /\ req[r].seen # None
    /\ Free(r, req[r].id)
    /\ Wrote(r, [k \in {req[r].id} |-> [Sees(r, k) EXCEPT !.txn = req[r].seen]])
    /\ req' = [req EXCEPT ![r].seen = None, ![r].todo = @ \ {req[r].id}]
    /\ UNCHANGED <<row, open, overlap>>

\* The record as it is stored, its booking and the link between the two.
Save(r, rec) ==
    LET k == req[r].id
        booking == SyncBooking(r, k, rec.booked, rec.txn, RecordTerms(r, rec))
    IN  /\ CanSync(r, k, rec.booked, rec.txn)
        /\ Wrote(r, [x \in {k} \cup DOMAIN booking.txns |->
                      IF x = k THEN [rec EXCEPT !.txn = booking.id] ELSE booking.txns[x]])
        /\ req' = [req EXCEPT ![r].pc = "commit"]

\* CreateLoanRecord under the loan's lock.
CreateLoanRecord(r) ==
    /\ req[r].pc = "CreateLoanRecord"
    /\ Sees(r, req[r].id).state = "free" /\ Free(r, req[r].id)
    /\ Save(r, [Sees(r, req[r].id) EXCEPT !.state = "live", !.booked = req[r].account])
    /\ UNCHANGED <<row, open, overlap>>

\* UpdateLoanRecord under the loan's lock: the record is locked in its turn.
UpdateLoanRecord(r) ==
    /\ req[r].pc = "UpdateLoanRecord"
    /\ Free(r, req[r].id)
    /\ IF ~Live(r, req[r].id) THEN req' = [req EXCEPT ![r].pc = "fail"] /\ UNCHANGED dirty
       ELSE Save(r, [Sees(r, req[r].id) EXCEPT !.booked = req[r].account, !.terms = <<0, 1 - @[2]>>])
    /\ UNCHANGED <<row, open, overlap>>

\* DeleteLoanRecord: the record as it is now, the booking as it was read.
SoftDeleteLoanRecord(r) ==
    /\ req[r].pc = "delete record"
    /\ Free(r, req[r].id)
    /\ IF ~Live(r, req[r].id) THEN req' = [req EXCEPT ![r].pc = "fail"] /\ UNCHANGED dirty
       ELSE /\ Wrote(r, [k \in {req[r].id} |-> [Sees(r, k) EXCEPT !.state = "gone"]])
            /\ req' = [req EXCEPT ![r].pc = "unbook"]
    /\ UNCHANGED <<row, open, overlap>>

SoftDeleteTransactionByID(r) ==
    /\ req[r].pc = "unbook"
    /\ LET named == {req[r].seen} \cap Txns
       IN  /\ \A t \in named : Free(r, t)
           /\ Wrote(r, [t \in {u \in named : Live(r, u)} |-> [Sees(r, t) EXCEPT !.state = "gone"]])
    /\ req' = [req EXCEPT ![r].pc = "commit"]
    /\ UNCHANGED <<row, open, overlap>>

-----------------------------------------------------------------------------
\* The statements over several rows: those found in the snapshot are written once they
\* are free, if they still match.  DeleteLoan: its records, ...
SoftDeleteLoanRecordsByLoan(r) == {k \in Records : Live(r, k)}

\* ... then the bookings of both.
SoftDeleteLoanTransactions(r) == {t \in Txns : Live(r, t)}

\* DeleteAccount: the transactions on it, then the loans ...
SoftDeleteAccountTransactions(r) == {t \in Txns : Live(r, t)}
ClearAccountFromLoans(r) == {x \in {Loan} : Sees(r, x).booked}

\* ... and the records that name it, deleted ones too.
ClearAccountFromLoanRecords(r) == {k \in Records : Sees(r, k).booked}

Sweeps == {"records", "txns", "account txns", "account loans", "account records"}

Matching(r, pc) ==
    CASE pc = "records" -> SoftDeleteLoanRecordsByLoan(r)
      [] pc = "txns" -> SoftDeleteLoanTransactions(r)
      [] pc = "account txns" -> SoftDeleteAccountTransactions(r)
      [] pc = "account loans" -> ClearAccountFromLoans(r)
      [] OTHER -> ClearAccountFromLoanRecords(r)

Swept(r, pc, x) ==
    IF pc \in {"account loans", "account records"}
    THEN [Sees(r, x) EXCEPT !.booked = FALSE, !.txn = IF pc = "account records" THEN None ELSE @]
    ELSE [Sees(r, x) EXCEPT !.state = "gone"]

AfterSweep(pc) ==
    CASE pc = "records" -> "txns" [] pc = "account txns" -> "account loans"
      [] pc = "account loans" -> "account records" [] OTHER -> "commit"

CloseAccount(r) ==
    /\ req[r].pc = "close"
    /\ open
    /\ \A q \in Requests \ {r} : req[q].op = "DeleteAccount" => req[q].pc = "close" \/ ~InTx(q)
    /\ req' = [req EXCEPT ![r].pc = "account txns"]
    /\ UNCHANGED <<row, open, dirty, overlap>>

FindRows(r) ==
    /\ req[r].pc \in Sweeps
    /\ req[r].todo = {}
    /\ LET found == Matching(r, req[r].pc)
       IN  req' = [req EXCEPT ![r].todo = found, ![r].pc = IF found = {} THEN AfterSweep(@) ELSE @]
    /\ UNCHANGED <<row, open, dirty, overlap>>

Sweep(r) ==
    /\ req[r].pc \in Sweeps
    /\ req[r].todo # {}
    /\ \A x \in req[r].todo : Free(r, x)
    /\ Wrote(r, [x \in req[r].todo \cap Matching(r, req[r].pc) |-> Swept(r, req[r].pc, x)])
    /\ req' = [req EXCEPT ![r].todo = {}, ![r].pc = AfterSweep(@)]
    /\ UNCHANGED <<row, open, overlap>>

-----------------------------------------------------------------------------
Ended(r, pc) ==
    /\ dirty' = [dirty EXCEPT ![r] = [x \in {} |-> Blank(Loan)]]
    /\ req' = [req EXCEPT ![r].pc = pc, ![r].todo = {}, ![r].seen = None]

Commit(r) ==
    /\ req[r].pc = "commit" \/ (req[r].pc = "each" /\ req[r].todo = {})
    /\ row' = [x \in Rows |-> Sees(r, x)]
    /\ open' = (open /\ req[r].op # "DeleteAccount")
    /\ Ended(r, "done")
    /\ UNCHANGED overlap

\* A row was not there, the account was gone, two transactions waited for one another,
\* or the connection was lost: everything is rolled back.
Rollback(r) == InTx(r) /\ Ended(r, "failed") /\ UNCHANGED <<row, open, overlap>>

Step(r) ==
    \/ LockLoan(r) \/ SoftDeleteLoan(r) \/ CreateLoan(r) \/ UpdateLoan(r) \/ SaveRecordBooking(r) \/ SetLoanRecordTransaction(r)
    \/ CreateLoanRecord(r) \/ UpdateLoanRecord(r) \/ SoftDeleteLoanRecord(r) \/ SoftDeleteTransactionByID(r)
    \/ CloseAccount(r) \/ FindRows(r) \/ Sweep(r) \/ Commit(r)

Next == \E r \in Requests : Start(r) \/ Step(r) \/ Rollback(r)

Spec == Init /\ [][Next]_vars

-----------------------------------------------------------------------------
TypeOK ==
    /\ row \in [Rows -> Row]
    /\ \A r \in Requests : DOMAIN dirty[r] \subseteq Rows /\ \A x \in DOMAIN dirty[r] : dirty[r][x] \in Row
    /\ req \in [Requests -> RequestState]
    /\ {open, overlap} \subseteq BOOLEAN

OwnerOf(t) == row[row[t].owner]

\* A booking on the account stands for a live loan or record that is booked there.
Orphan(t) == row[t].state = "live" /\ ~(OwnerOf(t).state = "live" /\ OwnerOf(t).booked /\ row[Loan].state = "live")

\* Updates, creations and the deletion of the loan may overlap in any way: no booking
\* outlives what it books, unless a deletion that does not take the loan's lock first
\* (of a record or of the account) ran beside them (loans.go:165-230, 536-569).
NoOrphanBooking == ~overlap => \A t \in Txns : ~Orphan(t)

\* Two bookings never stand for the same loan or record, under the same condition.
OneBooking ==
    ~overlap => \A t, u \in Txns : (row[t].state = "live" /\ row[u].state = "live" /\ row[t].owner = row[u].owner)
                                     => t = u

\* A live loan or record with an account has its booking, and the booking has the terms
\* of the loan and of the record as they are now (loans.go:489-517).
BookingFollows ==
    (~overlap /\ row[Loan].state = "live") =>
        \A x \in {Loan} \cup Records :
            (row[x].state = "live" /\ row[x].booked) =>
                \E t \in Txns : /\ row[t].state = "live" /\ row[t].owner = x
                                /\ row[t].terms = <<row[Loan].terms[1], row[x].terms[2]>>

\* "loan row locked first, as every loan write does" (loans.go:798-799): then no booking
\* would ever outlive its record.
RecordsDeletedSafely == \A t \in Txns : row[t].state = "live" => row[row[t].owner].state = "live"
=============================================================================
