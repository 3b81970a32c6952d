------------------------- MODULE GroupLedgerProofs -------------------------
(***************************************************************************)
(* Proofs about GroupLedger, for any number of members, expenses and       *)
(* requests: types, the sum of the splits under concurrent edits, and      *)
(* that nothing deleted comes back.                                        *)
(*                                                                         *)
(* SplitsSum is not inductive: an edit must also have found, when it       *)
(* deleted the splits, the rows that are there when it commits.  It does   *)
(* because it holds the row's lock from before the DELETE (Exclusive,      *)
(* SeesSplits), and because what it inserts was shared out of the amount   *)
(* it stores (JobsFit).                                                    *)
(***************************************************************************)
EXTENDS GroupLedger, SumTheorems

\* A request writes what its handler has checked, to rows that exist.
JobFits(r) ==
    /\ job[r].kind \in {"create", "update"} =>
         /\ job[r].row \in ExpenseRow
         /\ job[r].share \in Shares(job[r].row.amount)
    /\ job[r].kind \in {"update", "delete"} =>
         job[r].id \in Expense /\ expense[job[r].id] # NoRow
    /\ job[r].kind \in {"settle", "resettle"} => job[r].row \in SettlementRow
    /\ job[r].kind \in {"resettle", "unsettle"} =>
         job[r].id \in Settlement /\ settlement[job[r].id] # NoRow

JobsFit == \A r \in Request : JobFits(r)

\* One request at a time edits an expense.
Exclusive ==
    \A r, q \in Request :
      HoldsRow(r) /\ HoldsRow(q) /\ job[r].id = job[q].id => r = q

\* What a DELETE found is still what is stored.
SeesSplits ==
    \A r \in Request : At(r, "update", "cleared") => seen[r] = splits[job[r].id]

IInv == TypeOK /\ JobsFit /\ Exclusive /\ SeesSplits /\ SplitsSum

\* A share of an amount is a share of some amount, as the types say.
LEMMA SharesTyped ==
    \A a \in Amount : \A s \in Shares(a) : s \in AnyShare
  BY DEF AnyShare

\* The empty tables satisfy the invariant.
LEMMA InitOK == Init => IInv
  <1> SUFFICES ASSUME Init PROVE IInv
    OBVIOUS
  <1>1. TypeOK
    BY DEF Init, TypeOK, NoJob, Job, Kind
  <1>2. JobsFit
    BY DEF Init, JobsFit, JobFits, NoJob
  <1>3. Exclusive /\ SeesSplits
    BY DEF Init, Exclusive, SeesSplits, HoldsRow, At
  <1>4. SplitsSum
    BY DEF Init, SplitsSum
  <1> QED BY <1>1, <1>2, <1>3, <1>4 DEF IInv

\* Rows once inserted stay, so a job that fitted still fits.
LEMMA JobsStillFit ==
    ASSUME JobsFit, UNCHANGED job,
           \A e \in Expense : expense[e] # NoRow => expense'[e] # NoRow,
           \A s \in Settlement : settlement[s] # NoRow => settlement'[s] # NoRow
    PROVE  JobsFit'
  BY DEF JobsFit, JobFits

\* The checks of any handler: a request leaves "idle" with a job that fits.
LEMMA CheckedOK ==
    ASSUME IInv, NEW r \in Request, NEW kind \in Kind,
           NEW id \in Expense \cup Settlement \cup {NoRow},
           NEW row \in ExpenseRow \cup SettlementRow \cup {NoRow},
           NEW share \in AnyShare \cup {NoRow},
           Checked(r, kind, id, row, share),
           kind \in {"create", "update"} => row \in ExpenseRow /\ share \in Shares(row.amount),
           kind \in {"update", "delete"} => id \in Expense /\ expense[id] # NoRow,
           kind \in {"settle", "resettle"} => row \in SettlementRow,
           kind \in {"resettle", "unsettle"} => id \in Settlement /\ settlement[id] # NoRow
    PROVE  IInv'
  <1> DEFINE j == [kind |-> kind, id |-> id, row |-> row, share |-> share]
  <1>1. j \in Job
    BY DEF Job
  <1>2. j.kind = kind /\ j.id = id /\ j.row = row /\ j.share = share
    OBVIOUS
  <1>3. /\ pc[r] = "idle"
        /\ pc' = [pc EXCEPT ![r] = "checked"]
        /\ job' = [job EXCEPT ![r] = j]
        /\ UNCHANGED <<expense, splits, settlement, members, seen, net, torn>>
    BY DEF Checked, Goto
  <1> HIDE DEF j
  <1>4. TypeOK'
    BY <1>1, <1>3 DEF IInv, TypeOK
  <1>5. \A q \in Request : job'[q] = IF q = r THEN j ELSE job[q]
    BY <1>3 DEF IInv, TypeOK
  <1>6. \A q \in Request : pc'[q] = IF q = r THEN "checked" ELSE pc[q]
    BY <1>3 DEF IInv, TypeOK
  <1>7. JobsFit'
    <2> SUFFICES ASSUME NEW q \in Request PROVE JobFits(q)'
      BY DEF JobsFit
    <2>1. CASE q = r
      BY <2>1, <1>2, <1>3, <1>5 DEF JobFits
    <2>2. CASE q # r
      BY <2>2, <1>3, <1>5 DEF JobFits, JobsFit, IInv
    <2> QED BY <2>1, <2>2
  <1>8. Exclusive' /\ SeesSplits'
    BY <1>3, <1>5, <1>6 DEF IInv, Exclusive, SeesSplits, HoldsRow, At
  <1>9. SplitsSum'
    BY <1>3 DEF IInv, SplitsSum
  <1> QED BY <1>4, <1>7, <1>8, <1>9 DEF IInv

\* The checks of CreateExpense and UpdateExpense
LEMMA BodyOK ==
    ASSUME IInv, NEW r \in Request, NEW kind \in {"create", "update"},
           NEW id \in Expense \cup {NoRow}, Body(r, kind, id),
           kind = "update" => id \in Expense /\ expense[id] # NoRow
    PROVE  IInv'
  <1>1. PICK a \in Amount, rate \in Rate, payer \in Member :
          \E share \in Shares(a) :
            Checked(r, kind, id, [amount |-> a, rate |-> rate, payer |-> payer,
                                  deleted |-> FALSE], share)
    BY DEF Body
  <1> DEFINE row == [amount |-> a, rate |-> rate, payer |-> payer, deleted |-> FALSE]
  <1>2. row \in ExpenseRow /\ row.amount = a
    BY DEF ExpenseRow
  <1>3. PICK share \in Shares(a) : Checked(r, kind, id, row, share)
    BY <1>1
  <1>4. share \in AnyShare
    BY SharesTyped
  <1>5. kind \in Kind
    BY DEF Kind
  <1> HIDE DEF row
  <1> QED BY ONLY IInv, CheckedOK, <1>2, <1>3, <1>4, <1>5, r \in Request,
               kind \in {"create", "update"}, id \in Expense \cup {NoRow},
               kind = "update" => id \in Expense /\ expense[id] # NoRow

\* The checks of the other handlers
LEMMA OtherChecksOK ==
    ASSUME IInv, NEW r \in Request,
           CheckDelete(r) \/ CheckSettle(r) \/ CheckResettle(r) \/ CheckUnsettle(r)
    PROVE  IInv'
  <1>0. /\ "delete" \in Kind /\ "settle" \in Kind /\ "resettle" \in Kind /\ "unsettle" \in Kind
        /\ NoRow \in ExpenseRow \cup SettlementRow \cup {NoRow}
        /\ NoRow \in AnyShare \cup {NoRow}
    BY DEF Kind
  <1>1. CASE CheckDelete(r)
    <2>1. PICK e \in Expense : expense[e] # NoRow /\ Checked(r, "delete", e, NoRow, NoRow)
      BY <1>1 DEF CheckDelete, Live
    <2> QED BY ONLY IInv, CheckedOK, <1>0, <2>1, r \in Request
  <1>2. CASE CheckSettle(r)
    <2>1. PICK a \in Amount, from \in members, to \in members :
            Checked(r, "settle", NoRow, [amount |-> a, from |-> from, to |-> to,
                                         deleted |-> FALSE], NoRow)
      BY <1>2 DEF CheckSettle
    <2> DEFINE row == [amount |-> a, from |-> from, to |-> to, deleted |-> FALSE]
    <2>2. row \in SettlementRow
      BY DEF SettlementRow, IInv, TypeOK
    <2>3. Checked(r, "settle", NoRow, row, NoRow)
      BY <2>1
    <2> HIDE DEF row
    <2> QED BY ONLY IInv, CheckedOK, <1>0, <2>2, <2>3, r \in Request
  <1>3. CASE CheckResettle(r)
    <2>1. PICK s \in Settlement, a \in Amount :
            /\ settlement[s] # NoRow
            /\ Checked(r, "resettle", s, [amount |-> a, from |-> settlement[s].from,
                                          to |-> settlement[s].to, deleted |-> FALSE], NoRow)
      BY <1>3 DEF CheckResettle, Live
    <2> DEFINE row == [amount |-> a, from |-> settlement[s].from,
                       to |-> settlement[s].to, deleted |-> FALSE]
    <2>2. row \in SettlementRow
      BY <2>1 DEF SettlementRow, IInv, TypeOK
    <2>3. Checked(r, "resettle", s, row, NoRow)
      BY <2>1
    <2> HIDE DEF row
    <2> QED BY ONLY IInv, CheckedOK, <1>0, <2>1, <2>2, <2>3, r \in Request
  <1>4. CASE CheckUnsettle(r)
    <2>1. PICK s \in Settlement : /\ settlement[s] # NoRow
                                  /\ Checked(r, "unsettle", s, NoRow, NoRow)
      BY <1>4 DEF CheckUnsettle, Live
    <2> QED BY ONLY IInv, CheckedOK, <1>0, <2>1, r \in Request
  <1> QED BY <1>1, <1>2, <1>3, <1>4

\* The new expense has the splits of its own request and no other.
LEMMA CommitCreateOK ==
    ASSUME IInv, NEW r \in Request, CommitCreate(r) PROVE IInv'
  <1>1. PICK e \in Expense :
          /\ expense[e] = NoRow
          /\ expense' = [expense EXCEPT ![e] = job[r].row]
          /\ splits' = [splits EXCEPT ![e] = {[by |-> r, share |-> job[r].share]}]
    BY DEF CommitCreate
  <1>2. /\ job[r].kind = "create" /\ pc[r] = "checked"
        /\ pc' = [pc EXCEPT ![r] = "done"]
        /\ UNCHANGED <<settlement, members, job, seen, net>>
    BY DEF CommitCreate, At, Goto
  <1>3. job[r].row \in ExpenseRow /\ job[r].share \in Shares(job[r].row.amount)
    BY <1>2 DEF IInv, JobsFit, JobFits
  <1>4. job[r].row.amount \in Amount /\ job[r].row # NoRow
    BY <1>3, LedgerAssumption DEF ExpenseRow
  <1>5. [by |-> r, share |-> job[r].share] \in Batch
    BY <1>3, <1>4, SharesTyped DEF Batch
  <1>6. torn' \in [Request -> SUBSET Disturbance]
    BY DEF CommitCreate, Changes, IInv, TypeOK, Disturbance
  <1>7. TypeOK'
    BY <1>1, <1>2, <1>3, <1>5, <1>6 DEF IInv, TypeOK
  <1>8. JobsFit'
    BY <1>1, <1>2, <1>4, JobsStillFit DEF IInv, TypeOK
  <1>9. Exclusive'
    BY <1>2 DEF IInv, TypeOK, Exclusive, HoldsRow
  <1>10. SeesSplits'
    BY <1>1, <1>2 DEF IInv, TypeOK, SeesSplits, At, JobsFit, JobFits
  <1>11. SplitsSum'
    <2> SUFFICES ASSUME NEW x \in Expense
                 PROVE IF expense'[x] = NoRow THEN splits'[x] = {}
                       ELSE \E b \in splits'[x] : /\ splits'[x] = {b}
                                                  /\ b.share \in Shares(expense'[x].amount)
      BY DEF SplitsSum
    <2>1. CASE x = e
      BY <2>1, <1>1, <1>3, <1>4 DEF IInv, TypeOK
    <2>2. CASE x # e
      BY <2>2, <1>1 DEF IInv, TypeOK, SplitsSum
    <2> QED BY <2>1, <2>2
  <1> QED BY <1>7, <1>8, <1>9, <1>10, <1>11 DEF IInv

\* The row's lock is taken only when nobody holds it.
LEMMA UpdateRowOK ==
    ASSUME IInv, NEW r \in Request, UpdateRow(r) PROVE IInv'
  <1>1. /\ pc[r] = "checked" /\ job[r].kind = "update"
        /\ pc' = [pc EXCEPT ![r] = "locked"]
        /\ \A q \in Request \ {r} : HoldsRow(q) => job[q].id # job[r].id
        /\ UNCHANGED <<expense, splits, settlement, members, job, seen, net, torn>>
    BY DEF UpdateRow, At, Goto, RowFree
  <1>2. TypeOK' /\ JobsFit' /\ SplitsSum'
    BY <1>1 DEF IInv, TypeOK, JobsFit, JobFits, SplitsSum
  <1>3. Exclusive'
    BY <1>1 DEF IInv, TypeOK, Exclusive, HoldsRow
  <1>4. SeesSplits'
    BY <1>1 DEF IInv, TypeOK, SeesSplits, At
  <1> QED BY <1>2, <1>3, <1>4 DEF IInv

\* The DELETE finds what is stored, and nobody else will change it.
LEMMA DeleteSplitsOK ==
    ASSUME IInv, NEW r \in Request, DeleteSplits(r) PROVE IInv'
  <1>1. /\ pc[r] = "locked" /\ job[r].kind = "update"
        /\ pc' = [pc EXCEPT ![r] = "cleared"]
        /\ seen' = [seen EXCEPT ![r] = splits[job[r].id]]
        /\ UNCHANGED <<expense, splits, settlement, members, job, net, torn>>
    BY DEF DeleteSplits, At, Goto
  <1>2. job[r].id \in Expense
    BY <1>1 DEF IInv, JobsFit, JobFits
  <1>3. TypeOK'
    BY <1>1, <1>2 DEF IInv, TypeOK
  <1>4. JobsFit' /\ SplitsSum'
    BY <1>1 DEF IInv, JobsFit, JobFits, SplitsSum
  <1>5. Exclusive'
    BY <1>1 DEF IInv, TypeOK, Exclusive, HoldsRow
  <1>6. SeesSplits'
    BY <1>1 DEF IInv, TypeOK, SeesSplits, At
  <1> QED BY <1>3, <1>4, <1>5, <1>6 DEF IInv

\* All the old splits go, and only the request's own are left.
LEMMA CommitUpdateOK ==
    ASSUME IInv, NEW r \in Request, CommitUpdate(r) PROVE IInv'
  <1> DEFINE e == job[r].id
             new == [by |-> r, share |-> job[r].share]
             row == Updated(e, job[r].row)
  <1>1. /\ pc[r] = "cleared" /\ job[r].kind = "update"
        /\ pc' = [pc EXCEPT ![r] = "done"]
        /\ expense' = [expense EXCEPT ![e] = row]
        /\ splits' = [splits EXCEPT ![e] = (splits[e] \ seen[r]) \cup {new}]
        /\ seen' = [seen EXCEPT ![r] = {}]
        /\ UNCHANGED <<settlement, members, job, net>>
    BY DEF CommitUpdate, At, Goto
  <1>2. /\ e \in Expense /\ expense[e] # NoRow
        /\ job[r].row \in ExpenseRow /\ job[r].share \in Shares(job[r].row.amount)
    BY <1>1 DEF IInv, JobsFit, JobFits
  <1>3. expense[e] \in ExpenseRow
    BY <1>2 DEF IInv, TypeOK
  <1>4. row \in ExpenseRow /\ row.amount = job[r].row.amount /\ row # NoRow
    BY <1>2, <1>3, LedgerAssumption DEF Updated, ExpenseRow
  <1>5. new \in Batch /\ new.share = job[r].share
    BY <1>2, SharesTyped DEF Batch, ExpenseRow
  <1>6. seen[r] = splits[e]
    BY <1>1 DEF IInv, SeesSplits, At
  <1>7. torn' \in [Request -> SUBSET Disturbance]
    BY DEF CommitUpdate, Changes, IInv, TypeOK, Disturbance
  <1>8. \A q \in Request \ {r} : At(q, "update", "cleared") => job[q].id # e
    BY <1>1 DEF IInv, Exclusive, HoldsRow, At
  <1> HIDE DEF e, new, row
  <1>9. splits' = [splits EXCEPT ![e] = {new}]
    BY <1>1, <1>6
  <1>10. TypeOK'
    <2>1. expense' \in [Expense -> ExpenseRow \cup {NoRow}]
      BY <1>1, <1>4 DEF IInv, TypeOK
    <2>2. splits' \in [Expense -> SUBSET Batch]
      BY <1>5, <1>9 DEF IInv, TypeOK
    <2>3. seen' \in [Request -> SUBSET Batch]
      BY <1>1 DEF IInv, TypeOK
    <2> QED BY <1>1, <1>7, <2>1, <2>2, <2>3 DEF IInv, TypeOK
  <1>11. JobsFit'
    BY <1>1, <1>4, JobsStillFit DEF IInv, TypeOK
  <1>12. Exclusive'
    BY <1>1 DEF IInv, TypeOK, Exclusive, HoldsRow
  <1>13. SeesSplits'
    BY <1>1, <1>8, <1>9 DEF IInv, TypeOK, SeesSplits, At, JobsFit, JobFits
  <1>14. SplitsSum'
    <2> SUFFICES ASSUME NEW x \in Expense
                 PROVE IF expense'[x] = NoRow THEN splits'[x] = {}
                       ELSE \E b \in splits'[x] : /\ splits'[x] = {b}
                                                  /\ b.share \in Shares(expense'[x].amount)
      BY DEF SplitsSum
    <2>1. CASE x = e
      BY <2>1, <1>1, <1>2, <1>4, <1>5, <1>9 DEF IInv, TypeOK
    <2>2. CASE x # e
      BY <2>2, <1>1, <1>9 DEF IInv, TypeOK, SplitsSum
    <2> QED BY <2>1, <2>2
  <1> QED BY <1>10, <1>11, <1>12, <1>13, <1>14 DEF IInv

\* Deleting an expense keeps its amount and its splits.
LEMMA SoftDeleteExpenseOK ==
    ASSUME IInv, NEW r \in Request, SoftDeleteExpense(r) PROVE IInv'
  <1> DEFINE e == job[r].id
             row == [amount |-> expense[e].amount, rate |-> expense[e].rate,
                     payer |-> expense[e].payer, deleted |-> TRUE]
  <1>1. /\ pc[r] = "checked" /\ job[r].kind = "delete"
        /\ pc' = [pc EXCEPT ![r] = "done"]
        /\ expense' = [expense EXCEPT ![e] = row]
        /\ UNCHANGED <<splits, settlement, members, job, seen, net>>
    BY DEF SoftDeleteExpense, At, Goto
  <1>2. e \in Expense /\ expense[e] # NoRow /\ expense[e] \in ExpenseRow
    BY <1>1 DEF IInv, JobsFit, JobFits, TypeOK
  <1>3. row.amount = expense[e].amount /\ row \in ExpenseRow
    BY <1>2 DEF ExpenseRow
  <1>9. row # NoRow
    BY <1>3, LedgerAssumption
  <1>4. torn' \in [Request -> SUBSET Disturbance]
    BY DEF SoftDeleteExpense, Changes, IInv, TypeOK, Disturbance
  <1> HIDE DEF e, row
  <1>5. TypeOK'
    BY <1>1, <1>2, <1>3, <1>4 DEF IInv, TypeOK
  <1>6. JobsFit'
    BY <1>1, <1>9, JobsStillFit DEF IInv, TypeOK
  <1>7. Exclusive' /\ SeesSplits'
    BY <1>1 DEF IInv, TypeOK, Exclusive, HoldsRow, SeesSplits, At
  <1>8. SplitsSum'
    BY <1>1, <1>2, <1>3, <1>9 DEF IInv, TypeOK, SplitsSum
  <1> QED BY <1>5, <1>6, <1>7, <1>8 DEF IInv

\* A settlement is written, in whichever way.
LEMMA WriteSettlementOK ==
    ASSUME IInv, NEW r \in Request, NEW s \in Settlement, NEW row \in SettlementRow,
           pc[r] = "checked", WriteSettlement(r, s, row)
    PROVE  IInv'
  <1>1. /\ settlement' = [settlement EXCEPT ![s] = row]
        /\ pc' = [pc EXCEPT ![r] = "done"]
        /\ UNCHANGED <<expense, splits, members, job, seen, net>>
    BY DEF WriteSettlement, Goto
  <1>2. row # NoRow
    BY LedgerAssumption
  <1>3. torn' \in [Request -> SUBSET Disturbance]
    BY DEF WriteSettlement, Changes, IInv, TypeOK, Disturbance
  <1>4. TypeOK'
    BY <1>1, <1>3 DEF IInv, TypeOK
  <1>5. JobsFit'
    BY <1>1, <1>2, JobsStillFit DEF IInv, TypeOK
  <1>6. Exclusive' /\ SeesSplits' /\ SplitsSum'
    BY <1>1 DEF IInv, TypeOK, Exclusive, HoldsRow, SeesSplits, At, SplitsSum
  <1> QED BY <1>4, <1>5, <1>6 DEF IInv

\* The three settlement handlers write a row of the right type.
LEMMA SettlementsOK ==
    ASSUME IInv, NEW r \in Request,
           InsertSettlement(r) \/ UpdateSettlementAmount(r) \/ SoftDeleteSettlement(r)
    PROVE  IInv'
  <1>1. CASE InsertSettlement(r)
    <2>1. PICK s \in Settlement : WriteSettlement(r, s, job[r].row)
      BY <1>1 DEF InsertSettlement
    <2>2. job[r].row \in SettlementRow /\ pc[r] = "checked"
      BY <1>1 DEF InsertSettlement, At, IInv, JobsFit, JobFits
    <2> QED BY <2>1, <2>2, WriteSettlementOK
  <1>2. CASE UpdateSettlementAmount(r)
    <2> DEFINE s == job[r].id
               row == [amount |-> job[r].row.amount, from |-> settlement[s].from,
                       to |-> settlement[s].to, deleted |-> settlement[s].deleted]
    <2>1. WriteSettlement(r, s, row) /\ pc[r] = "checked" /\ job[r].kind = "resettle"
      BY <1>2 DEF UpdateSettlementAmount, At
    <2>2. s \in Settlement /\ settlement[s] # NoRow /\ job[r].row \in SettlementRow
      BY <2>1 DEF IInv, JobsFit, JobFits
    <2>3. settlement[s] \in SettlementRow
      BY <2>2 DEF IInv, TypeOK
    <2>4. row \in SettlementRow
      BY <2>2, <2>3 DEF SettlementRow
    <2> HIDE DEF s, row
    <2> QED BY <2>1, <2>2, <2>4, WriteSettlementOK
  <1>3. CASE SoftDeleteSettlement(r)
    <2> DEFINE s == job[r].id
               row == [amount |-> settlement[s].amount, from |-> settlement[s].from,
                       to |-> settlement[s].to, deleted |-> TRUE]
    <2>1. WriteSettlement(r, s, row) /\ pc[r] = "checked" /\ job[r].kind = "unsettle"
      BY <1>3 DEF SoftDeleteSettlement, At
    <2>2. s \in Settlement /\ settlement[s] # NoRow
      BY <2>1 DEF IInv, JobsFit, JobFits
    <2>3. settlement[s] \in SettlementRow
      BY <2>2 DEF IInv, TypeOK
    <2>4. row \in SettlementRow
      BY <2>3 DEF SettlementRow
    <2> HIDE DEF s, row
    <2> QED BY <2>1, <2>2, <2>4, WriteSettlementOK
  <1> QED BY <1>1, <1>2, <1>3

\* A rollback releases the lock and changes no table.
LEMMA AbortOK ==
    ASSUME IInv, NEW r \in Request, Abort(r) PROVE IInv'
  <1>1. /\ pc' = [pc EXCEPT ![r] = "done"]
        /\ seen' = [seen EXCEPT ![r] = {}]
        /\ UNCHANGED <<expense, splits, settlement, members, job, net, torn>>
    BY DEF Abort, Goto
  <1>2. TypeOK'
    BY <1>1 DEF IInv, TypeOK
  <1>3. JobsFit' /\ SplitsSum'
    BY <1>1 DEF IInv, JobsFit, JobFits, SplitsSum
  <1>4. Exclusive' /\ SeesSplits'
    BY <1>1 DEF IInv, TypeOK, Exclusive, HoldsRow, SeesSplits, At
  <1> QED BY <1>2, <1>3, <1>4 DEF IInv

\* Reads and membership change no table, no job and no lock.
LEMMA ReadsOK ==
    ASSUME IInv, NEW r \in Request,
           ListMembers(r) \/ ReadPaid(r) \/ ReadOwed(r) \/ ReadSettlements(r)
    PROVE  IInv'
  <1>1. PICK l \in {"paid", "owed", "settlements", "answered"} :
          /\ pc[r] \in {"idle", "paid", "owed", "settlements"}
          /\ pc' = [pc EXCEPT ![r] = l]
          /\ UNCHANGED <<expense, splits, settlement, members, job, seen>>
    BY DEF ListMembers, ReadPaid, ReadOwed, ReadSettlements, Statement, Goto
  <1>2. torn' \in [Request -> SUBSET Disturbance]
    BY DEF ListMembers, ReadPaid, ReadOwed, ReadSettlements, Statement, IInv, TypeOK,
           Disturbance
  <1>3. TypeOK'
    BY <1>1, <1>2 DEF IInv, TypeOK
  <1>4. JobsFit' /\ SplitsSum'
    BY <1>1 DEF IInv, JobsFit, JobFits, SplitsSum
  <1>5. Exclusive' /\ SeesSplits'
    BY <1>1 DEF IInv, TypeOK, Exclusive, HoldsRow, SeesSplits, At
  <1> QED BY <1>3, <1>4, <1>5 DEF IInv

\* Members come and go.
LEMMA MembershipOK ==
    ASSUME IInv, NEW u \in Member, Leave(u) \/ Join(u) PROVE IInv'
  <1>1. /\ members' \subseteq Member
        /\ UNCHANGED <<expense, splits, settlement, pc, job, seen, net, torn>>
    BY DEF Leave, Join, IInv, TypeOK
  <1> QED BY <1>1 DEF IInv, TypeOK, JobsFit, JobFits, Exclusive, HoldsRow, SeesSplits,
                      At, SplitsSum

\* A stuttering step changes nothing.
LEMMA StutterOK == ASSUME IInv, UNCHANGED vars PROVE IInv'
  BY DEF vars, IInv, TypeOK, JobsFit, JobFits, Exclusive, HoldsRow, SeesSplits, At, SplitsSum

\* Every step preserves the invariant.
LEMMA NextOK == IInv /\ [Next]_vars => IInv'
  <1> SUFFICES ASSUME IInv, [Next]_vars PROVE IInv'
    OBVIOUS
  <1>1. ASSUME NEW r \in Request, CheckCreate(r) PROVE IInv'
    BY <1>1, BodyOK DEF CheckCreate
  <1>2. ASSUME NEW r \in Request, CheckUpdate(r) PROVE IInv'
    BY <1>2, BodyOK DEF CheckUpdate, Live
  <1>3. CASE \E r \in Request : CheckCreate(r) \/ CheckUpdate(r)
    BY <1>1, <1>2, <1>3
  <1>4. CASE \E r \in Request : \/ CheckDelete(r) \/ CheckSettle(r)
                                \/ CheckResettle(r) \/ CheckUnsettle(r)
    BY <1>4, OtherChecksOK
  <1>5. CASE \E r \in Request : \/ CommitCreate(r) \/ UpdateRow(r)
                                \/ DeleteSplits(r) \/ CommitUpdate(r)
    BY <1>5, CommitCreateOK, UpdateRowOK, DeleteSplitsOK, CommitUpdateOK
  <1>6. CASE \E r \in Request : SoftDeleteExpense(r) \/ Abort(r)
    BY <1>6, SoftDeleteExpenseOK, AbortOK
  <1>7. CASE \E r \in Request : \/ InsertSettlement(r) \/ UpdateSettlementAmount(r)
                                \/ SoftDeleteSettlement(r)
    BY <1>7, SettlementsOK
  <1>8. CASE \E r \in Request : \/ ListMembers(r) \/ ReadPaid(r)
                                \/ ReadOwed(r) \/ ReadSettlements(r)
    BY <1>8, ReadsOK
  <1>9. CASE \E u \in Member : Leave(u) \/ Join(u)
    BY <1>9, MembershipOK
  <1>10. CASE UNCHANGED vars
    BY <1>10, StutterOK
  <1> QED BY <1>3, <1>4, <1>5, <1>6, <1>7, <1>8, <1>9, <1>10 DEF Next

\* The inductive invariant of the group ledger, for every value of the constants.
THEOREM Inductive == Spec => []IInv
  <1> QED BY InitOK, NextOK, PTL DEF Spec

\* Types hold for any number of requests.
THEOREM TypeCorrect == Spec => []TypeOK
  <1>1. IInv => TypeOK
    BY DEF IInv
  <1> QED BY <1>1, Inductive, PTL

\* However many edits and deletions of an expense run at once, its splits add up to
\* its amount.
THEOREM SplitsAddUp == Spec => []SplitsSum
  <1>1. IInv => SplitsSum
    BY DEF IInv
  <1> QED BY <1>1, Inductive, PTL

\* No edit in flight brings back a deleted expense or settlement.
THEOREM NothingReturns == Spec => DeletedStaysDeleted
  <1>1. IInv /\ [Next]_vars => [NeverBack]_vars
    <2> SUFFICES ASSUME IInv, Next PROVE NeverBack
      OBVIOUS
    <2> USE DEF NeverBack
    <2>1. ASSUME NEW r \in Request, CommitCreate(r) PROVE NeverBack
      <3>1. PICK e \in Expense :
              expense[e] = NoRow /\ expense' = [expense EXCEPT ![e] = job[r].row]
        BY <2>1 DEF CommitCreate
      <3> QED BY <2>1, <3>1 DEF CommitCreate, IInv, TypeOK
    <2>2. ASSUME NEW r \in Request, CommitUpdate(r) PROVE NeverBack
      <3>1. /\ expense' = [expense EXCEPT ![job[r].id] = Updated(job[r].id, job[r].row)]
            /\ UNCHANGED settlement
        BY <2>2 DEF CommitUpdate
      <3>2. Updated(job[r].id, job[r].row).deleted = expense[job[r].id].deleted
        BY DEF Updated
      <3> QED BY <3>1, <3>2 DEF IInv, TypeOK
    <2>3. ASSUME NEW r \in Request, SoftDeleteExpense(r) PROVE NeverBack
      BY <2>3 DEF SoftDeleteExpense, IInv, TypeOK
    <2>4. ASSUME NEW r \in Request, InsertSettlement(r) PROVE NeverBack
      BY <2>4 DEF InsertSettlement, WriteSettlement, IInv, TypeOK
    <2>5. ASSUME NEW r \in Request, UpdateSettlementAmount(r) PROVE NeverBack
      BY <2>5 DEF UpdateSettlementAmount, WriteSettlement, IInv, TypeOK
    <2>6. ASSUME NEW r \in Request, SoftDeleteSettlement(r) PROVE NeverBack
      BY <2>6 DEF SoftDeleteSettlement, WriteSettlement, IInv, TypeOK
    <2>7. ASSUME UNCHANGED <<expense, settlement>> PROVE NeverBack
      BY <2>7
    <2>8. CASE \E r \in Request :
                 \/ CheckCreate(r) \/ CheckUpdate(r) \/ CheckDelete(r) \/ CheckSettle(r)
                 \/ CheckResettle(r) \/ CheckUnsettle(r)
      BY <2>7, <2>8 DEF CheckCreate, CheckUpdate, CheckDelete, CheckSettle, CheckResettle,
                        CheckUnsettle, Body, Checked
    <2>9. CASE \E r \in Request :
                 \/ UpdateRow(r) \/ DeleteSplits(r) \/ Abort(r)
                 \/ ListMembers(r) \/ ReadPaid(r) \/ ReadOwed(r) \/ ReadSettlements(r)
      BY <2>7, <2>9 DEF UpdateRow, DeleteSplits, Abort, ListMembers, ReadPaid, ReadOwed,
                        ReadSettlements, Statement
    <2>10. CASE \E u \in Member : Leave(u) \/ Join(u)
      BY <2>7, <2>10 DEF Leave, Join
    <2> QED BY <2>1, <2>2, <2>3, <2>4, <2>5, <2>6, <2>8, <2>9, <2>10 DEF Next
  <1> QED BY <1>1, Inductive, PTL DEF Spec, DeletedStaysDeleted

-----------------------------------------------------------------------------
(***************************************************************************)
(* The balances.  An answer that nothing disturbed is the sum of what the  *)
(* tables held: after each statement of computeBalances the map says, for  *)
(* every user, what the statements so far found (Gathered), and that still *)
(* stands in the tables, as any write would have torn the read.            *)
(***************************************************************************)

\* The rates for which shares converted one by one add up to the converted amount.
WholeRates == \A rate \in Rate : \E k \in Nat : rate = k * RateUnit

At0(m, u) == IF u \in DOMAIN m THEN m[u] ELSE 0

MapTyped(m) == DOMAIN m \subseteq Member /\ \A u \in DOMAIN m : m[u] \in Int

\* What the statements so far have read of u
Found(l, u) ==
    CASE l = "paid" -> 0
      [] l = "owed" -> Paid(u)
      [] l = "settlements" -> Paid(u) - Owed(u)

Gathered ==
    /\ net = [r \in Request |-> net[r]]
    /\ \A r \in Request : Reading(r) =>
         /\ MapTyped(net[r])
         /\ torn[r] = {} => \A u \in Member : At0(net[r], u) = Found(pc[r], u)

BalanceInv == IInv /\ Gathered

\* The database's numeric division
LEMMA RoundedInt == ASSUME NEW a \in Nat, NEW rate \in Rate PROVE Rounded(a, rate) \in Int
  <1> DEFINE x == 2 * a * rate + RateUnit
             D == 2 * RateUnit
  <1>1. x \in Int /\ D \in Nat \ {0}
    BY LedgerAssumption
  <1> HIDE DEF x, D
  <1>2. x \div D \in Int
    BY <1>1
  <1> QED BY <1>2 DEF Rounded, x, D

\* A quotient is the number whose multiple lies below, by less than the divisor.
LEMMA Quotient ==
    ASSUME NEW x \in Int, NEW D \in Nat \ {0}, NEW q \in Int, q * D <= x, x < q * D + D
    PROVE  x \div D = q
  OBVIOUS

\* At a whole rate nothing is rounded.
LEMMA RoundedWhole ==
    ASSUME NEW a \in Nat, NEW k \in Nat PROVE Rounded(a, k * RateUnit) = k * a
  <1> DEFINE n == k * a
             D == 2 * RateUnit
             x == 2 * a * (k * RateUnit) + RateUnit
  <1>0. RateUnit \in Nat \ {0}
    BY LedgerAssumption
  <1>1. n \in Int /\ D \in Nat \ {0} /\ x \in Int /\ n * D \in Int
    BY <1>0
  <1>2. x = n * D + RateUnit /\ RateUnit < D
    BY <1>0
  <1> HIDE DEF n, D, x
  <1>3. x \div D = n
    BY <1>0, <1>1, <1>2, Quotient
  <1> QED BY <1>3 DEF Rounded, n, D, x

\* A live expense has one set of splits, shares of its amount.
LEMMA LiveExpense ==
    ASSUME IInv, NEW e \in Expense, Live(expense[e])
    PROVE  /\ expense[e] \in ExpenseRow
           /\ expense[e].amount \in Nat /\ expense[e].rate \in Rate /\ expense[e].payer \in Member
           /\ \E b \in splits[e] : /\ splits[e] = {b}
                                   /\ b.share \in Shares(expense[e].amount)
                                   /\ \A u \in Member : b.share[u] \in Nat
  <1>1. expense[e] \in ExpenseRow /\ expense[e] # NoRow
    BY DEF IInv, TypeOK, Live
  <1>2. expense[e].amount \in Nat /\ expense[e].rate \in Rate /\ expense[e].payer \in Member
    BY <1>1, LedgerAssumption DEF ExpenseRow
  <1>3. PICK b \in splits[e] : splits[e] = {b} /\ b.share \in Shares(expense[e].amount)
    BY <1>1 DEF IInv, SplitsSum
  <1>4. \A u \in Member : b.share[u] \in Nat
    BY <1>2, <1>3 DEF Shares
  <1> QED BY <1>1, <1>2, <1>3, <1>4

\* What a participant owes of an expense is their share, converted.
LEMMA OwedIs ==
    ASSUME IInv, NEW e \in Expense, Live(expense[e]), NEW b, splits[e] = {b},
           \A u \in Member : b.share[u] \in Nat, NEW u \in Member
    PROVE  OwedFor(e, u) = Rounded(b.share[u], expense[e].rate) /\ OwedFor(e, u) \in Int
  <1> DEFINE f == [x \in {b} |-> Rounded(x.share[u], expense[e].rate)]
  <1>1. expense[e].rate \in Rate
    BY LiveExpense
  <1>2. f[b] = Rounded(b.share[u], expense[e].rate) /\ DOMAIN f = {b}
    OBVIOUS
  <1>3. f[b] \in Int
    BY <1>1, <1>2, RoundedInt
  <1>4. OwedFor(e, u) = SumFunction(f)
    BY DEF OwedFor
  <1>5. IsFiniteSet({b}) /\ b \in {b} /\ {b} \ {b} = {}
    BY FS_Singleton
  <1> HIDE DEF f
  <1>6. IntegersOn(f, {b})
    BY <1>2, <1>3, <1>5 DEF IntegersOn
  <1>7. SumFunction(f) = f[b]
    BY <1>5, <1>6, SumOfOne
  <1> QED BY <1>2, <1>3, <1>4, <1>7

LiveExpenses == {x \in Expense : Live(expense[x])}
LiveSettlements == {x \in Settlement : Live(settlement[x])}

\* The amount of an expense in the group's currency
Value(e) == Rounded(expense[e].amount, expense[e].rate)

\* What counts is finite, and its members and amounts are known.
LEMMA LiveFinite ==
    ASSUME IInv
    PROVE  /\ IsFiniteSet(LiveExpenses) /\ IsFiniteSet(LiveSettlements) /\ IsFiniteSet(Member)
           /\ \A e \in LiveExpenses : Value(e) \in Int /\ expense[e].payer \in Member
           /\ \A e \in LiveExpenses : \A u \in Member : OwedFor(e, u) \in Int
           /\ \A s \in LiveSettlements : /\ settlement[s].amount \in Int
                                         /\ settlement[s].from \in Member
                                         /\ settlement[s].to \in Member
  <1>1. IsFiniteSet(LiveExpenses) /\ IsFiniteSet(LiveSettlements) /\ IsFiniteSet(Member)
    BY LedgerAssumption, FS_Subset DEF LiveExpenses, LiveSettlements
  <1>2. \A e \in LiveExpenses : Value(e) \in Int /\ expense[e].payer \in Member
    BY LiveExpense, RoundedInt DEF LiveExpenses, Value
  <1>3. ASSUME NEW e \in LiveExpenses, NEW u \in Member PROVE OwedFor(e, u) \in Int
    <2>1. e \in Expense /\ Live(expense[e])
      BY DEF LiveExpenses
    <2>2. PICK b \in splits[e] : splits[e] = {b} /\ \A w \in Member : b.share[w] \in Nat
      BY <2>1, LiveExpense
    <2> QED BY <2>1, <2>2, OwedIs
  <1>4. \A s \in LiveSettlements : /\ settlement[s].amount \in Int
                                   /\ settlement[s].from \in Member
                                   /\ settlement[s].to \in Member
    BY LedgerAssumption DEF LiveSettlements, Live, IInv, TypeOK, SettlementRow
  <1> QED BY <1>1, <1>2, <1>3, <1>4

\* What a user has paid, owes, sent and received are numbers.
LEMMA SumsAreNumbers ==
    ASSUME IInv, NEW u \in Member
    PROVE  Paid(u) \in Int /\ Owed(u) \in Int /\ Sent(u) \in Int /\ Received(u) \in Int
  <1>0. /\ IsFiniteSet(LiveExpenses) /\ IsFiniteSet(LiveSettlements)
        /\ \A e \in LiveExpenses : Value(e) \in Int /\ OwedFor(e, u) \in Int
        /\ \A s \in LiveSettlements : settlement[s].amount \in Int
    BY LiveFinite
  <1>1. Paid(u) \in Int
    <2> DEFINE R == {x \in Expense : Live(expense[x]) /\ expense[x].payer = u}
               f == [e \in R |-> Rounded(expense[e].amount, expense[e].rate)]
    <2>1. R \subseteq LiveExpenses
      BY DEF LiveExpenses
    <2>2. IsFiniteSet(R)
      BY <1>0, <2>1, FS_Subset
    <2>3. IntegersOn(f, R)
      BY <1>0, <2>1, <2>2 DEF IntegersOn, Value
    <2> HIDE DEF R
    <2>4. SumFunction(f) \in Int
      BY <2>3, SumIsInt
    <2> QED BY <2>4 DEF Paid, R
  <1>2. Owed(u) \in Int
    <2> DEFINE f == [e \in LiveExpenses |-> OwedFor(e, u)]
    <2>1. IntegersOn(f, LiveExpenses)
      BY <1>0 DEF IntegersOn
    <2>2. SumFunction(f) \in Int
      BY <2>1, SumIsInt
    <2> QED BY <2>2 DEF Owed, LiveExpenses
  <1>3. Sent(u) \in Int
    <2> DEFINE R == {x \in Settlement : Live(settlement[x]) /\ settlement[x].from = u}
               f == [s \in R |-> settlement[s].amount]
    <2>1. R \subseteq LiveSettlements
      BY DEF LiveSettlements
    <2>2. IsFiniteSet(R)
      BY <1>0, <2>1, FS_Subset
    <2>3. IntegersOn(f, R)
      BY <1>0, <2>1, <2>2 DEF IntegersOn
    <2> HIDE DEF R
    <2>4. SumFunction(f) \in Int
      BY <2>3, SumIsInt
    <2> QED BY <2>4 DEF Sent, R
  <1>4. Received(u) \in Int
    <2> DEFINE R == {x \in Settlement : Live(settlement[x]) /\ settlement[x].to = u}
               f == [s \in R |-> settlement[s].amount]
    <2>1. R \subseteq LiveSettlements
      BY DEF LiveSettlements
    <2>2. IsFiniteSet(R)
      BY <1>0, <2>1, FS_Subset
    <2>3. IntegersOn(f, R)
      BY <1>0, <2>1, <2>2 DEF IntegersOn
    <2> HIDE DEF R
    <2>4. SumFunction(f) \in Int
      BY <2>3, SumIsInt
    <2> QED BY <2>4 DEF Received, R
  <1> QED BY <1>1, <1>2, <1>3, <1>4

\* All that is paid is the value of the live expenses: each has one payer.
LEMMA AllPaid ==
    ASSUME IInv
    PROVE  SumFunction([u \in Member |-> Paid(u)]) = SumFunction([e \in LiveExpenses |-> Value(e)])
  <1> DEFINE got == [u \in Member |-> Paid(u)]
             v == [e \in LiveExpenses |-> Value(e)]
             to == [e \in LiveExpenses |-> expense[e].payer]
  <1>1. IsFiniteSet(LiveExpenses) /\ IsFiniteSet(Member)
    BY LiveFinite
  <1>2. v \in [LiveExpenses -> Int] /\ to \in [LiveExpenses -> Member]
    BY LiveFinite
  <1>3. IntegersOn(got, Member)
    BY <1>1, SumsAreNumbers DEF IntegersOn
  <1>4. ASSUME NEW u \in Member
        PROVE  got[u] = SumFunction([e \in {x \in LiveExpenses : to[x] = u} |-> v[e]])
    <2>1. {x \in LiveExpenses : to[x] = u}
            = {x \in Expense : Live(expense[x]) /\ expense[x].payer = u}
      BY DEF LiveExpenses
    <2>2. [e \in {x \in LiveExpenses : to[x] = u} |-> v[e]]
            = [e \in {x \in Expense : Live(expense[x]) /\ expense[x].payer = u} |->
                 Rounded(expense[e].amount, expense[e].rate)]
      BY <2>1 DEF Value
    <2> QED BY <2>2 DEF Paid
  <1> HIDE DEF got, v, to
  <1>5. SumFunction(got) = SumFunction(v)
    BY <1>1, <1>2, <1>3, <1>4, SumOfShares
  <1> QED BY <1>5 DEF got, v

\* All that is sent is all that is received.
LEMMA AllSent ==
    ASSUME IInv
    PROVE  SumFunction([u \in Member |-> Sent(u)]) = SumFunction([u \in Member |-> Received(u)])
  <1> DEFINE sent == [u \in Member |-> Sent(u)]
             received == [u \in Member |-> Received(u)]
             v == [s \in LiveSettlements |-> settlement[s].amount]
             from == [s \in LiveSettlements |-> settlement[s].from]
             to == [s \in LiveSettlements |-> settlement[s].to]
  <1>1. IsFiniteSet(LiveSettlements) /\ IsFiniteSet(Member)
    BY LiveFinite
  <1>2. /\ v \in [LiveSettlements -> Int] /\ from \in [LiveSettlements -> Member]
        /\ to \in [LiveSettlements -> Member]
    BY LiveFinite
  <1>3. IntegersOn(sent, Member) /\ IntegersOn(received, Member)
    BY <1>1, SumsAreNumbers DEF IntegersOn
  <1>4. \A u \in Member : sent[u] = SumFunction([s \in {x \in LiveSettlements : from[x] = u} |-> v[s]])
    <2> SUFFICES ASSUME NEW u \in Member
                 PROVE  sent[u] = SumFunction([s \in {x \in LiveSettlements : from[x] = u} |-> v[s]])
      OBVIOUS
    <2>1. [s \in {x \in LiveSettlements : from[x] = u} |-> v[s]]
            = [s \in {x \in Settlement : Live(settlement[x]) /\ settlement[x].from = u}
                 |-> settlement[s].amount]
      BY DEF LiveSettlements
    <2> QED BY <2>1 DEF Sent
  <1>5. \A u \in Member : received[u] = SumFunction([s \in {x \in LiveSettlements : to[x] = u} |-> v[s]])
    <2> SUFFICES ASSUME NEW u \in Member
                 PROVE  received[u] = SumFunction([s \in {x \in LiveSettlements : to[x] = u} |-> v[s]])
      OBVIOUS
    <2>1. [s \in {x \in LiveSettlements : to[x] = u} |-> v[s]]
            = [s \in {x \in Settlement : Live(settlement[x]) /\ settlement[x].to = u}
                 |-> settlement[s].amount]
      BY DEF LiveSettlements
    <2> QED BY <2>1 DEF Received
  <1> HIDE DEF sent, received, v, from, to
  <1>6. SumFunction(sent) = SumFunction(v)
    BY <1>1, <1>2, <1>3, <1>4, SumOfShares
  <1>7. SumFunction(received) = SumFunction(v)
    BY <1>1, <1>2, <1>3, <1>5, SumOfShares
  <1> QED BY <1>6, <1>7 DEF sent, received

\* The shares of an expense, converted one by one at a whole rate, add up to its value.
LEMMA SharesConverted ==
    ASSUME IInv, WholeRates, NEW e \in LiveExpenses
    PROVE  SumFunction([u \in Member |-> OwedFor(e, u)]) = Value(e)
  <1>1. e \in Expense /\ Live(expense[e])
    BY DEF LiveExpenses
  <1>2. expense[e].amount \in Nat /\ expense[e].rate \in Rate
    BY <1>1, LiveExpense
  <1>3. PICK b \in splits[e] : /\ splits[e] = {b}
                               /\ b.share \in Shares(expense[e].amount)
                               /\ \A u \in Member : b.share[u] \in Nat
    BY <1>1, LiveExpense
  <1>4. PICK k \in Nat : expense[e].rate = k * RateUnit
    BY <1>2 DEF WholeRates
  <1> DEFINE f == b.share
             h == [u \in Member |-> OwedFor(e, u)]
  <1>5. \A u \in Member : h[u] = k * f[u] /\ h[u] \in Int
    BY <1>1, <1>3, <1>4, OwedIs, RoundedWhole
  <1>6. SumFunction(f) = expense[e].amount /\ DOMAIN f = Member
    BY <1>3 DEF Shares
  <1>7. IntegersOn(f, Member) /\ IntegersOn(h, Member)
    BY <1>3, <1>5, <1>6, LiveFinite DEF IntegersOn
  <1>8. Value(e) = k * expense[e].amount
    BY <1>2, <1>4, RoundedWhole DEF Value
  <1> HIDE DEF f, h
  <1>9. SumFunction(h) = k * SumFunction(f)
    BY <1>5, <1>7, SumOfMultiples
  <1> QED BY <1>6, <1>8, <1>9 DEF h

\* All that is owed is the value of the live expenses.
LEMMA AllOwed ==
    ASSUME IInv, WholeRates
    PROVE  SumFunction([u \in Member |-> Owed(u)]) = SumFunction([e \in LiveExpenses |-> Value(e)])
  <1> DEFINE t == [u \in Member |-> [e \in LiveExpenses |-> OwedFor(e, u)]]
             column(e) == [u \in Member |-> t[u][e]]
  <1>1. IsFiniteSet(LiveExpenses) /\ IsFiniteSet(Member)
    BY LiveFinite
  <1>2. t \in [Member -> [LiveExpenses -> Int]]
    BY LiveFinite
  <1>3. [u \in Member |-> Owed(u)] = [u \in Member |-> SumFunction(t[u])]
    <2>1. \A u \in Member : Owed(u) = SumFunction(t[u])
      BY DEF Owed, LiveExpenses
    <2> HIDE DEF t
    <2> QED BY <2>1
  <1>4. \A e \in LiveExpenses : SumFunction(column(e)) = Value(e)
    <2> SUFFICES ASSUME NEW e \in LiveExpenses PROVE SumFunction(column(e)) = Value(e)
      OBVIOUS
    <2>1. column(e) = [u \in Member |-> OwedFor(e, u)]
      OBVIOUS
    <2> HIDE DEF column
    <2> QED BY <2>1, SharesConverted
  <1> HIDE DEF t
  <1>5. SumFunction([u \in Member |-> SumFunction(t[u])])
          = SumFunction([e \in LiveExpenses |-> SumFunction(column(e))])
    BY <1>1, <1>2, SumByRowsAndColumns
  <1>6. [e \in LiveExpenses |-> SumFunction(column(e))] = [e \in LiveExpenses |-> Value(e)]
    <2> HIDE DEF column
    <2> QED BY <1>4
  <1> QED BY <1>3, <1>5, <1>6

\* Whatever the tables hold, the members' balances add up to zero.
LEMMA BalancesCancel ==
    ASSUME IInv, WholeRates
    PROVE  SumFunction([u \in Member |-> Paid(u) - Owed(u) + Settled(u)]) = 0
  <1> DEFINE p == [u \in Member |-> Paid(u)]
             o == [u \in Member |-> Owed(u)]
             s == [u \in Member |-> Sent(u)]
             q == [u \in Member |-> Received(u)]
             gain == [u \in Member |-> p[u] + s[u]]
             loss == [u \in Member |-> o[u] + q[u]]
             d == [u \in Member |-> Paid(u) - Owed(u) + Settled(u)]
  <1>1. IsFiniteSet(Member)
    BY LiveFinite
  <1>2. \A u \in Member : p[u] \in Int /\ o[u] \in Int /\ s[u] \in Int /\ q[u] \in Int
    BY SumsAreNumbers
  <1>3. \A u \in Member : d[u] = p[u] - o[u] + (s[u] - q[u])
    BY DEF Settled
  <1>4. IntegersOn(p, Member) /\ IntegersOn(o, Member) /\ IntegersOn(s, Member) /\ IntegersOn(q, Member)
    BY <1>1, <1>2 DEF IntegersOn
  <1>5. SumFunction(p) = SumFunction(o) /\ SumFunction(s) = SumFunction(q)
    BY AllPaid, AllOwed, AllSent
  <1> HIDE DEF p, o, s, q
  <1>6. IntegersOn(gain, Member) /\ IntegersOn(loss, Member)
    BY <1>1, <1>2 DEF IntegersOn
  <1>7. IntegersOn(d, Member) /\ \A u \in Member : gain[u] = loss[u] + d[u]
    <2>1. DOMAIN d = Member
      OBVIOUS
    <2> HIDE DEF d
    <2> QED BY <1>1, <1>2, <1>3, <2>1 DEF IntegersOn
  <1>8. (\A u \in Member : gain[u] = p[u] + s[u]) /\ (\A u \in Member : loss[u] = o[u] + q[u])
    OBVIOUS
  <1> HIDE DEF gain, loss, d
  <1>9. SumFunction(gain) = SumFunction(p) + SumFunction(s)
    BY <1>4, <1>6, <1>8, SumOfSums
  <1>10. SumFunction(loss) = SumFunction(o) + SumFunction(q)
    BY <1>4, <1>6, <1>8, SumOfSums
  <1>11. SumFunction(gain) = SumFunction(loss) + SumFunction(d)
    BY <1>6, <1>7, SumOfSums
  <1>12. SumFunction(d) \in Int /\ SumFunction(o) \in Int /\ SumFunction(q) \in Int
    BY <1>4, <1>7, SumIsInt
  <1>13. SumFunction(d) = 0
    BY <1>5, <1>9, <1>10, <1>11, <1>12
  <1> QED BY <1>13 DEF d

\* The sums depend on the tables alone.
LEMMA TablesKept ==
    ASSUME UNCHANGED <<expense, splits, settlement>>
    PROVE  \A u \in Member : /\ Paid(u)' = Paid(u) /\ Owed(u)' = Owed(u)
                             /\ Sent(u)' = Sent(u) /\ Received(u)' = Received(u)
  BY DEF Paid, Owed, OwedFor, Sent, Received

\* A statement's numbers are added to the map, also for users it did not have.
LEMMA AddsUp ==
    ASSUME NEW m, MapTyped(m), NEW d \in [Member -> Int]
    PROVE  MapTyped(Add(m, d)) /\ \A u \in Member : At0(Add(m, d), u) = At0(m, u) + d[u]
  <1> DEFINE n == Add(m, d)
  <1>1. /\ DOMAIN n = DOMAIN m \cup {x \in Member : d[x] # 0}
        /\ \A u \in DOMAIN n : n[u] = At0(m, u) + d[u]
    BY DEF Add, At0
  <1>2. \A u \in Member : At0(m, u) \in Int /\ d[u] \in Int
    BY DEF At0, MapTyped
  <1> HIDE DEF n
  <1>3. MapTyped(n)
    BY <1>1, <1>2 DEF MapTyped
  <1>4. \A u \in Member : At0(n, u) = At0(m, u) + d[u]
    BY <1>1, <1>2 DEF At0
  <1> QED BY <1>3, <1>4 DEF n

\* A map adds up to what it says of the members.
LEMMA MapTotal ==
    ASSUME NEW m, MapTyped(m), NEW d \in [Member -> Int], \A u \in Member : At0(m, u) = d[u]
    PROVE  SumFunction(m) = SumFunction(d)
  <1> DEFINE R == DOMAIN m
  <1>1. IsFiniteSet(Member) /\ R \subseteq Member /\ IsFiniteSet(R)
    BY LedgerAssumption, FS_Subset DEF MapTyped
  <1>2. IntegersOn(m, R) /\ IntegersOn(d, Member)
    BY <1>1 DEF IntegersOn, MapTyped
  <1>3. (\A x \in R : d[x] = m[x]) /\ (\A x \in Member \ R : d[x] = 0)
    BY <1>1 DEF At0
  <1> HIDE DEF R
  <1>4. SumFunction(d) = SumFunction(m)
    BY <1>1, <1>2, <1>3, SumOfSupport
  <1> QED BY <1>4

Elsewhere == {"checked", "locked", "cleared", "done"}

\* A step that leaves the tables and the maps alone
LEMMA ReadsKept ==
    ASSUME Gathered, UNCHANGED <<expense, splits, settlement, net, torn>>,
           \A q \in Request : pc'[q] = pc[q] \/ pc'[q] \in Elsewhere
    PROVE  Gathered' /\ (QuietReadsBalance => QuietReadsBalance')
  <1>1. \A u \in Member : Paid(u)' = Paid(u) /\ Owed(u)' = Owed(u)
    BY TablesKept
  <1>2. ASSUME NEW q \in Request, Reading(q)'
        PROVE  MapTyped(net[q]) /\ Reading(q) /\ pc'[q] = pc[q]
               /\ (torn[q] = {} => \A u \in Member : At0(net[q], u) = Found(pc[q], u))
    BY <1>2 DEF Gathered, Reading, Elsewhere
  <1>3. ASSUME NEW q \in Request, Reading(q)', torn'[q] = {}, NEW u \in Member
        PROVE  At0(net'[q], u) = Found(pc[q], u)'
    <2>1. At0(net[q], u) = Found(pc[q], u) /\ pc'[q] = pc[q] /\ Reading(q)
      BY <1>2, <1>3
    <2> QED BY <1>1, <2>1 DEF Found, Reading
  <1>4. Gathered'
    BY <1>2, <1>3 DEF Gathered, MapTyped, At0
  <1>5. QuietReadsBalance => QuietReadsBalance'
    BY DEF QuietReadsBalance, Total, Elsewhere
  <1> QED BY <1>4, <1>5

\* A write tears the reads under way; the answers given before stand.
LEMMA ReadsTorn ==
    ASSUME Gathered, IInv, UNCHANGED net, Changes,
           \A q \in Request : pc'[q] = pc[q] \/ pc'[q] \in Elsewhere
    PROVE  Gathered' /\ (QuietReadsBalance => QuietReadsBalance')
  <1>1. \A q \in Request : Reading(q)' => Reading(q) /\ torn'[q] # {}
    BY DEF Changes, Reading, Elsewhere
  <1>2. \A q \in Request : Reading(q)' => MapTyped(net[q])
    BY <1>1 DEF Gathered
  <1>3. Gathered'
    BY <1>1, <1>2 DEF Gathered, MapTyped
  <1>4. \A q \in Request : pc'[q] = "answered" => pc[q] = "answered" /\ torn'[q] = torn[q]
    BY DEF Changes, Reading, Elsewhere
  <1>5. QuietReadsBalance => QuietReadsBalance'
    BY <1>4 DEF QuietReadsBalance, Total
  <1> QED BY <1>3, <1>5

\* A statement of one read
LEMMA ReaderMoves ==
    ASSUME IInv, Gathered, NEW r \in Request, NEW l, NEW m,
           UNCHANGED <<expense, splits, settlement>>,
           pc' = [pc EXCEPT ![r] = l], net' = [net EXCEPT ![r] = m],
           \A q \in Request \ {r} : torn'[q] = torn[q],
           MapTyped(m),
           torn'[r] = {} /\ l \in {"paid", "owed", "settlements"}
             => \A u \in Member : At0(m, u) = Found(l, u),
           torn'[r] = {} /\ l = "answered" /\ WholeRates => SumFunction(m) = 0
    PROVE  Gathered' /\ (WholeRates /\ QuietReadsBalance => QuietReadsBalance')
  <1>1. \A u \in Member : Paid(u)' = Paid(u) /\ Owed(u)' = Owed(u)
    BY TablesKept
  <1>2. \A q \in Request \ {r} : pc'[q] = pc[q] /\ net'[q] = net[q] /\ torn'[q] = torn[q]
    BY DEF IInv, TypeOK, Gathered
  <1>3. pc'[r] = l /\ net'[r] = m /\ net' = [q \in Request |-> net'[q]]
    BY DEF IInv, TypeOK, Gathered
  <1>4. ASSUME NEW q \in Request, Reading(q)' PROVE MapTyped(net'[q])
    BY <1>2, <1>3, <1>4 DEF Gathered, Reading
  <1>5. ASSUME NEW q \in Request, Reading(q)', torn'[q] = {}, NEW u \in Member
        PROVE  At0(net'[q], u) = Found(pc[q], u)'
    <2>1. CASE q = r
      <3>1. At0(m, u) = Found(l, u) /\ l \in {"paid", "owed", "settlements"}
        BY <1>3, <1>5, <2>1 DEF Reading
      <3>2. At0(net'[q], u) = Found(l, u)
        BY <1>3, <2>1, <3>1
      <3> QED BY <1>1, <1>3, <2>1, <3>1, <3>2 DEF Found
    <2>2. CASE q # r
      <3>1. At0(net[q], u) = Found(pc[q], u) /\ pc'[q] = pc[q] /\ net'[q] = net[q] /\ Reading(q)
        BY <1>2, <1>5, <2>2 DEF Gathered, Reading
      <3>2. At0(net'[q], u) = Found(pc[q], u)
        BY <3>1
      <3> QED BY <1>1, <3>1, <3>2 DEF Found, Reading
    <2> QED BY <2>1, <2>2
  <1>6. Gathered'
    BY <1>3, <1>4, <1>5 DEF Gathered, MapTyped, At0
  <1>7. ASSUME WholeRates, QuietReadsBalance PROVE QuietReadsBalance'
    BY <1>2, <1>3, <1>7 DEF QuietReadsBalance, Total
  <1> QED BY <1>6, <1>7

\* The statements of computeBalances
LEMMA StatementsRead ==
    ASSUME IInv, Gathered, NEW r \in Request,
           ListMembers(r) \/ ReadPaid(r) \/ ReadOwed(r) \/ ReadSettlements(r)
    PROVE  /\ Gathered' /\ (WholeRates /\ QuietReadsBalance => QuietReadsBalance')
           /\ ReadSettlements(r) /\ torn'[r] = {} =>
                \A u \in Member : At0(net'[r], u) = Paid(u) - Owed(u) + Settled(u)
  <1>1. CASE ListMembers(r)
    <2> DEFINE m == [u \in members |-> 0]
    <2>1. /\ pc' = [pc EXCEPT ![r] = "paid"] /\ net' = [net EXCEPT ![r] = m]
          /\ UNCHANGED <<expense, splits, settlement, torn>> /\ pc[r] = "idle"
      BY <1>1 DEF ListMembers, Goto
    <2>2. MapTyped(m) /\ \A u \in Member : At0(m, u) = 0
      BY DEF MapTyped, At0, IInv, TypeOK
    <2>3. \A u \in Member : Found("paid", u) = 0
      BY DEF Found
    <2>4. ~ReadSettlements(r)
      BY <2>1 DEF ReadSettlements, Statement
    <2> HIDE DEF m
    <2>5. Gathered' /\ (WholeRates /\ QuietReadsBalance => QuietReadsBalance')
      BY <2>1, <2>2, <2>3, ReaderMoves
    <2> QED BY <2>4, <2>5
  <1>2. ASSUME NEW l \in {"paid", "owed", "settlements"}, NEW d \in [Member -> Int],
               NEW next \in {"owed", "settlements", "answered"}, Statement(r, l, d, next),
               next # "answered" => \A u \in Member : Found(next, u) = Found(l, u) + d[u],
               next = "answered" => \A u \in Member :
                                      Found(l, u) + d[u] = Paid(u) - Owed(u) + Settled(u)
        PROVE  /\ Gathered' /\ (WholeRates /\ QuietReadsBalance => QuietReadsBalance')
               /\ next = "answered" /\ torn'[r] = {} =>
                    \A u \in Member : At0(net'[r], u) = Paid(u) - Owed(u) + Settled(u)
    <2> DEFINE m == Add(net[r], d)
    <2>1. /\ pc[r] = l /\ pc' = [pc EXCEPT ![r] = next]
          /\ UNCHANGED <<expense, splits, settlement>>
      BY <1>2 DEF Statement, Goto
    <2>2. MapTyped(net[r]) /\ Reading(r)
      BY <2>1 DEF Gathered, Reading
    <2>3. MapTyped(m) /\ \A u \in Member : At0(m, u) = At0(net[r], u) + d[u]
      BY <2>2, AddsUp
    <2>4. torn[r] = {} => \A u \in Member : At0(net[r], u) = Found(l, u)
      BY <2>1, <2>2 DEF Gathered
    <2> HIDE DEF m
    <2>5. CASE net' = [net EXCEPT ![r] = m] /\ UNCHANGED torn
      <3>1. ASSUME torn'[r] = {}, next # "answered", NEW u \in Member
            PROVE  At0(m, u) = Found(next, u)
        BY <1>2, <2>3, <2>4, <2>5, <3>1
      <3>2. ASSUME torn'[r] = {}, next = "answered", NEW u \in Member
            PROVE  At0(m, u) = Paid(u) - Owed(u) + Settled(u)
        BY <1>2, <2>3, <2>4, <2>5, <3>2
      <3>3. ASSUME torn'[r] = {}, next = "answered", WholeRates PROVE SumFunction(m) = 0
        <4> DEFINE b == [u \in Member |-> Paid(u) - Owed(u) + Settled(u)]
        <4>1. b \in [Member -> Int]
          BY SumsAreNumbers DEF Settled
        <4>2. \A u \in Member : At0(m, u) = b[u]
          BY <3>2, <3>3
        <4>3. SumFunction(b) = 0
          BY <3>3, BalancesCancel
        <4> HIDE DEF b
        <4>4. SumFunction(m) = SumFunction(b)
          BY <2>3, <4>1, <4>2, MapTotal
        <4> QED BY <4>3, <4>4
      <3>4. \A q \in Request \ {r} : torn'[q] = torn[q]
        BY <2>5
      <3>5. net'[r] = m
        BY <2>5 DEF Gathered
      <3>6. net' = [net EXCEPT ![r] = m]
        BY <2>5
      <3>7. torn'[r] = {} /\ next \in {"paid", "owed", "settlements"}
              => \A u \in Member : At0(m, u) = Found(next, u)
        BY <3>1
      <3>8. torn'[r] = {} /\ next = "answered" /\ WholeRates => SumFunction(m) = 0
        BY <3>3
      <3>9. Gathered' /\ (WholeRates /\ QuietReadsBalance => QuietReadsBalance')
        BY <2>1, <2>3, <3>4, <3>6, <3>7, <3>8, ReaderMoves
      <3> QED BY <3>2, <3>5, <3>9
    <2>6. CASE torn' = [torn EXCEPT ![r] = @ \cup {"query"}] /\ UNCHANGED net
      <3>1. torn'[r] # {} /\ \A q \in Request \ {r} : torn'[q] = torn[q]
        BY <2>6 DEF IInv, TypeOK
      <3> DEFINE k == net[r]
      <3>2. net' = [net EXCEPT ![r] = k] /\ MapTyped(k)
        BY <2>2, <2>6 DEF Gathered
      <3> HIDE DEF k
      <3>3. Gathered' /\ (WholeRates /\ QuietReadsBalance => QuietReadsBalance')
        BY <2>1, <3>1, <3>2, ReaderMoves
      <3> QED BY <3>1, <3>3
    <2> QED BY <1>2, <2>5, <2>6 DEF Statement, m
  <1>3. CASE ReadPaid(r)
    <2> DEFINE d == [u \in Member |-> Paid(u)]
    <2>1. Statement(r, "paid", d, "owed")
      BY <1>3 DEF ReadPaid
    <2>2. d \in [Member -> Int] /\ \A u \in Member : Found("owed", u) = Found("paid", u) + d[u]
      BY SumsAreNumbers DEF Found
    <2>3. ~ReadSettlements(r)
      BY <2>1 DEF Statement, ReadSettlements
    <2> HIDE DEF d
    <2> QED BY <1>2, <2>1, <2>2, <2>3
  <1>4. CASE ReadOwed(r)
    <2> DEFINE d == [u \in Member |-> -Owed(u)]
    <2>1. Statement(r, "owed", d, "settlements")
      BY <1>4 DEF ReadOwed
    <2>2. d \in [Member -> Int] /\ \A u \in Member : Found("settlements", u) = Found("owed", u) + d[u]
      BY SumsAreNumbers DEF Found
    <2>3. ~ReadSettlements(r)
      BY <2>1 DEF Statement, ReadSettlements
    <2> HIDE DEF d
    <2> QED BY <1>2, <2>1, <2>2, <2>3
  <1>5. CASE ReadSettlements(r)
    <2> DEFINE d == [u \in Member |-> Settled(u)]
    <2>1. Statement(r, "settlements", d, "answered")
      BY <1>5 DEF ReadSettlements
    <2>2. d \in [Member -> Int] /\ \A u \in Member :
            Found("settlements", u) + d[u] = Paid(u) - Owed(u) + Settled(u)
      BY SumsAreNumbers DEF Found, Settled
    <2> HIDE DEF d
    <2> QED BY <1>2, <2>1, <2>2
  <1> QED BY <1>1, <1>3, <1>4, <1>5

\* No read has begun.
LEMMA GatheredInit == Init => Gathered /\ QuietReadsBalance
  BY DEF Init, Gathered, QuietReadsBalance, Reading

\* Every step keeps what the reads have gathered, and the answers' sums.
LEMMA GatheredStep ==
    ASSUME IInv, Gathered, [Next]_vars
    PROVE  Gathered' /\ (WholeRates /\ QuietReadsBalance => QuietReadsBalance')
  <1> DEFINE Goal == Gathered' /\ (WholeRates /\ QuietReadsBalance => QuietReadsBalance')
  <1>1. ASSUME NEW r \in Request, \/ CommitCreate(r) \/ CommitUpdate(r) \/ SoftDeleteExpense(r)
                                  \/ InsertSettlement(r) \/ UpdateSettlementAmount(r)
                                  \/ SoftDeleteSettlement(r)
        PROVE  Goal
    <2>1. UNCHANGED net /\ Changes /\ pc' = [pc EXCEPT ![r] = "done"]
      BY <1>1 DEF CommitCreate, CommitUpdate, SoftDeleteExpense, InsertSettlement,
                  UpdateSettlementAmount, SoftDeleteSettlement, WriteSettlement, Goto
    <2>2. \A q \in Request : pc'[q] = pc[q] \/ pc'[q] \in Elsewhere
      BY <2>1 DEF Elsewhere, IInv, TypeOK
    <2> QED BY <2>1, <2>2, ReadsTorn
  <1>2. ASSUME NEW r \in Request, \/ CheckCreate(r) \/ CheckUpdate(r) \/ CheckDelete(r)
                                  \/ CheckSettle(r) \/ CheckResettle(r) \/ CheckUnsettle(r)
        PROVE  Goal
    <2>1. /\ UNCHANGED <<expense, splits, settlement, net, torn>>
          /\ pc' = [pc EXCEPT ![r] = "checked"]
      BY <1>2 DEF CheckCreate, CheckUpdate, CheckDelete, CheckSettle, CheckResettle,
                  CheckUnsettle, Body, Checked, Goto
    <2>2. \A q \in Request : pc'[q] = pc[q] \/ pc'[q] \in Elsewhere
      BY <2>1 DEF Elsewhere, IInv, TypeOK
    <2> QED BY <2>1, <2>2, ReadsKept
  <1>3. ASSUME NEW r \in Request, UpdateRow(r) \/ DeleteSplits(r) \/ Abort(r) PROVE Goal
    <2>1. /\ UNCHANGED <<expense, splits, settlement, net, torn>>
          /\ \E l \in Elsewhere : pc' = [pc EXCEPT ![r] = l]
      BY <1>3 DEF UpdateRow, DeleteSplits, Abort, Goto, Elsewhere
    <2>2. \A q \in Request : pc'[q] = pc[q] \/ pc'[q] \in Elsewhere
      BY <2>1 DEF Elsewhere, IInv, TypeOK
    <2> QED BY <2>1, <2>2, ReadsKept
  <1>4. ASSUME NEW r \in Request,
               ListMembers(r) \/ ReadPaid(r) \/ ReadOwed(r) \/ ReadSettlements(r)
        PROVE  Goal
    BY <1>4, StatementsRead
  <1>5. ASSUME UNCHANGED <<expense, splits, settlement, net, torn, pc>> PROVE Goal
    BY <1>5, ReadsKept
  <1>6. ASSUME NEW u \in Member, Leave(u) \/ Join(u) PROVE Goal
    BY <1>5, <1>6 DEF Leave, Join
  <1>7. ASSUME UNCHANGED vars PROVE Goal
    BY <1>5, <1>7 DEF vars
  <1> HIDE DEF Goal
  <1>8. Next => Goal
    BY <1>1, <1>2, <1>3, <1>4, <1>6 DEF Next
  <1> QED BY <1>7, <1>8 DEF Goal

\* What a read has gathered is what the tables hold, as long as nothing disturbed it.
THEOREM ReadsGather == Spec => []BalanceInv
  <1>1. Init => BalanceInv
    BY InitOK, GatheredInit DEF BalanceInv
  <1>2. BalanceInv /\ [Next]_vars => BalanceInv'
    BY NextOK, GatheredStep DEF BalanceInv
  <1> QED BY <1>1, <1>2, PTL DEF Spec

\* debts.Simplify may expect balances that add up to zero of every answer no write and no
\* failed statement came between, at whole rates: for any members, also those who left,
\* any number of expenses, settlements, edits and deletions.
THEOREM AnswersBalance == ASSUME WholeRates PROVE Spec => []QuietReadsBalance
  <1> DEFINE Both == BalanceInv /\ QuietReadsBalance
  <1>1. Init => Both
    BY InitOK, GatheredInit DEF BalanceInv
  <1>2. Both /\ [Next]_vars => Both'
    BY NextOK, GatheredStep DEF BalanceInv
  <1>3. Both => QuietReadsBalance
    OBVIOUS
  <1> HIDE DEF Both
  <1> QED BY <1>1, <1>2, <1>3, PTL DEF Spec

\* The group's balances and a user's own overview, two ways through the same tables, agree
\* on every user when nothing changed in between, at any rates.
THEOREM OverviewsAgree == Spec => ReadsAgree
  <1>1. BalanceInv /\ [Next]_vars => [\A r \in Request : Agrees(r)]_vars
    <2> SUFFICES ASSUME BalanceInv, Next, NEW r \in Request, pc[r] = "settlements",
                        pc'[r] = "answered", torn'[r] = {}, NEW u \in Member
                 PROVE  (IF u \in DOMAIN net'[r] THEN net'[r][u] ELSE 0) = MyBalance(u)
      BY DEF Agrees
    <2>1. ReadSettlements(r)
      <3>1. pc \in [Request -> {"idle", "checked", "locked", "cleared", "paid", "owed",
                                "settlements", "answered", "done"}]
        BY DEF BalanceInv, IInv, TypeOK
      <3>2. ASSUME NEW q \in Request, NEW l, l # "answered", Goto(q, l) PROVE FALSE
        BY <3>1, <3>2 DEF Goto
      <3>3. ASSUME NEW q \in Request, ReadSettlements(q) PROVE q = r
        BY <3>1, <3>3 DEF ReadSettlements, Statement, Goto
      <3>4. ASSUME UNCHANGED pc PROVE FALSE
        BY <3>4
      <3>5. CASE \E q \in Request :
                   \/ CheckCreate(q) \/ CheckUpdate(q) \/ CheckDelete(q) \/ CheckSettle(q)
                   \/ CheckResettle(q) \/ CheckUnsettle(q) \/ UpdateRow(q) \/ DeleteSplits(q)
                   \/ Abort(q)
        BY <3>2, <3>5 DEF CheckCreate, CheckUpdate, CheckDelete, CheckSettle, CheckResettle,
             CheckUnsettle, Body, Checked, UpdateRow, DeleteSplits, Abort
      <3>6. CASE \E q \in Request :
                   \/ CommitCreate(q) \/ CommitUpdate(q) \/ SoftDeleteExpense(q)
                   \/ InsertSettlement(q) \/ UpdateSettlementAmount(q) \/ SoftDeleteSettlement(q)
        BY <3>2, <3>6 DEF CommitCreate, CommitUpdate, SoftDeleteExpense, InsertSettlement,
             UpdateSettlementAmount, SoftDeleteSettlement, WriteSettlement
      <3>7. CASE \E q \in Request : ListMembers(q) \/ ReadPaid(q) \/ ReadOwed(q)
        BY <3>2, <3>7 DEF ListMembers, ReadPaid, ReadOwed, Statement
      <3>8. CASE \E q \in Member : Leave(q) \/ Join(q)
        BY <3>4, <3>8 DEF Leave, Join
      <3> QED BY <3>3, <3>5, <3>6, <3>7, <3>8 DEF Next
    <2>2. At0(net'[r], u) = Paid(u) - Owed(u) + Settled(u)
      BY <2>1, StatementsRead DEF BalanceInv
    <2>3. Paid(u) \in Int /\ Owed(u) \in Int /\ Sent(u) \in Int /\ Received(u) \in Int
      BY SumsAreNumbers DEF BalanceInv
    <2> QED BY <2>2, <2>3 DEF At0, MyBalance, Settled
  <1> QED BY <1>1, ReadsGather, PTL DEF Spec, ReadsAgree

(***************************************************************************)
(* Loans.tla for any number of requests, records and bookings: what a      *)
(* request has written at each of its statements over the committed rows   *)
(* (LocalRight), so that what it commits leaves them right (Good), and     *)
(* that all of it stays so when another request commits (OthersRight).     *)
(***************************************************************************)
CONSTANTS Loan, Records, Recorded, Txns, Lent, Repaid, None, Requests

VARIABLES row, open, dirty, req, overlap

L == INSTANCE Loans

\* Rows of the three tables are different rows.
LoansSetting ==
    /\ Recorded \in Records /\ Lent \in Txns /\ Repaid \in Txns /\ Lent # Repaid
    /\ Loan \notin Records /\ Loan \notin Txns /\ Records \cap Txns = {} /\ None \notin {Loan} \cup Records \cup Txns
    /\ Requests \subseteq Nat

\* The rows as a transaction sees them: those it wrote in front of the committed ones
View(f, d) == [x \in L!Rows |-> IF x \in DOMAIN d THEN d[x] ELSE f[x]]

IsLive(f, x) == f[x].state = "live"

\* Bookings stand for what is booked, one for each, and the record names its own.
Sound(f) == \A t \in Txns : IsLive(f, t) => IsLive(f, f[t].owner) /\ f[f[t].owner].booked /\ IsLive(f, Loan)
Single(f) == \A t, u \in Txns : IsLive(f, t) /\ IsLive(f, u) /\ f[t].owner = f[u].owner => t = u
Linked(f, waits) == \A t \in Txns : IsLive(f, t) => f[t].owner = Loan \/ f[t].owner \in waits \/ f[f[t].owner].txn = t
Named(f) == \A k \in Records : f[k].txn \in Txns => f[f[k].txn].state # "free" /\ f[f[k].txn].owner = k

\* A row that does not exist says nothing.
Empty(f) == \A x \in L!Rows : f[x].state = "free" => ~f[x].booked /\ f[x].txn = None

\* What x's booking says
Says(f, t, x) == IsLive(f, t) /\ f[t].owner = x /\ f[t].terms = <<f[Loan].terms[1], f[x].terms[2]>>

Follows(f, waits) ==
    IsLive(f, Loan) =>
        \A x \in ({Loan} \cup Records) \ waits : IsLive(f, x) /\ f[x].booked => \E t \in Txns : Says(f, t, x)

Right(f, waits, unlinked) ==
    Sound(f) /\ Single(f) /\ Linked(f, unlinked) /\ Named(f) /\ Empty(f) /\ Follows(f, waits)

Good(f) == Right(f, {}, {})

\* Which request is at which statement
Stage(q) ==
    \/ q.op = "none" /\ q.pc = "idle"
    \/ q.op \in L!Ops /\ q.pc \in {"done", "failed"}
    \/ q.op = "CreateLoan" /\ q.pc \in {"create", "commit"}
    \/ q.op = "UpdateLoan" /\ q.pc \in {"lock", "fail", "UpdateLoan"}
    \/ q.op = "UpdateLoan" /\ q.pc = "each" /\ q.todo \subseteq Records
    \/ q.op = "DeleteLoan" /\ q.pc \in {"lock", "fail", "records", "txns", "commit"}
    \/ q.op = "CreateLoanRecord" /\ q.pc \in {"lock", "fail", "CreateLoanRecord", "commit"}
    \/ q.op = "UpdateLoanRecord" /\ q.pc \in {"lock", "fail", "UpdateLoanRecord", "commit"}
    \/ q.op = "DeleteLoanRecord" /\ q.pc \in {"delete record", "fail", "unbook", "commit"}
    \/ q.op = "DeleteAccount" /\ q.pc \in {"close", "account txns", "account loans", "account records", "commit"}

Lockers == {"CreateLoan", "UpdateLoan", "DeleteLoan", "CreateLoanRecord", "UpdateLoanRecord"}
Deleters == {"DeleteLoan", "DeleteLoanRecord", "DeleteAccount"}
Waiting == {"idle", "lock", "create", "close", "delete record", "done", "failed"}

\* A deletion only takes away.
Shrinks(a, b) ==
    /\ b.owner = a.owner /\ b.txn \in {a.txn, None} /\ (b.booked => a.booked)
    /\ a.state # "free" /\ b.state \in {a.state, "gone"}

NoBooking(f) == \A t \in Txns : ~IsLive(f, t)

\* What a request has written, d, over the rows f, at each of its statements:
\* whoever changes the loan has its row;
Holds(d, q) ==
    /\ q.pc \in Waiting => DOMAIN d = {} /\ q.todo = {}
    /\ q.op \in Lockers /\ q.pc \notin Waiting \cup {"fail"} => Loan \in DOMAIN d
    /\ q.op \in Lockers /\ q.pc = "fail" => DOMAIN d \subseteq {Loan}
    /\ \A x \in DOMAIN d : d[x].state # "free"

\* a creation or an edit leaves everything right at the end;
EditRight(f, d, q) ==
    /\ q.pc \in {"UpdateLoan", "CreateLoanRecord", "UpdateLoanRecord"} =>
           DOMAIN d = {Loan} /\ d[Loan] = f[Loan] /\ IsLive(f, Loan)
    /\ q.op = "UpdateLoan" /\ q.pc \in {"lock", "UpdateLoan"} => q.seen = None
    /\ q.op = "CreateLoan" /\ q.pc \in {"create", "commit"} => f[Loan].state = "free"
    /\ q.op \notin Deleters /\ q.pc = "commit" => Good(View(f, d))
    /\ q.op = "CreateLoanRecord" /\ q.pc = "commit" =>
           /\ f[q.id].state = "free" /\ DOMAIN d \cap Records = {q.id}
           /\ \A t \in DOMAIN d \cap Txns : d[t].owner = q.id /\ f[t].state = "free"

\* an edit of the loan has the bookings of the listed records still to rewrite;
EachRight(f, d, q) ==
    q.pc = "each" =>
        /\ q.todo \subseteq Records /\ q.todo \cap DOMAIN d = {}
        /\ \A k \in q.todo : IsLive(f, k) /\ f[k].booked
        /\ IsLive(View(f, d), Loan)
        /\ Right(View(f, d), q.todo, IF q.seen = None THEN {} ELSE {q.id})
        /\ q.seen # None => q.id \in q.todo /\ Says(View(f, d), q.seen, q.id)

\* a deletion of a record knows its booking;
UnbookRight(f, d, q) ==
    q.op = "DeleteLoanRecord" /\ q.pc \in {"delete record", "unbook", "commit"} =>
        /\ f[q.id].state # "free"
        /\ \A t \in Txns : IsLive(f, t) /\ f[t].owner = q.id => t = q.seen
        /\ q.seen \in Txns => f[q.seen].state # "free" /\ f[q.seen].owner = q.id
        /\ q.pc # "delete record" => q.id \in DOMAIN d /\ d[q.id] = [f[q.id] EXCEPT !.state = "gone"]
        /\ q.pc = "unbook" => DOMAIN d = {q.id}
        /\ q.pc = "commit" =>
               /\ DOMAIN d \subseteq {q.id, q.seen}
               /\ q.seen \in DOMAIN d => d[q.seen] = [f[q.seen] EXCEPT !.state = "gone"]
               /\ q.seen \in Txns => ~IsLive(View(f, d), q.seen)

\* and the sweeps leave nothing behind that they were to find.
SweepRight(f, d, q) ==
    LET v == View(f, d) IN
    /\ q.op \in Deleters => \A x \in DOMAIN d : Shrinks(f[x], d[x])
    /\ q.op = "DeleteLoan" /\ q.pc \in {"records", "txns", "commit"} => v[Loan].state = "gone"
    /\ q.pc \in {"txns", "account txns"} /\ q.todo # {} => \A t \in Txns \ q.todo : ~IsLive(v, t)
    /\ q.op = "DeleteLoan" /\ q.pc = "commit" => NoBooking(v)
    /\ q.op = "DeleteAccount" /\ q.pc \in {"account loans", "account records", "commit"} => NoBooking(v)
    /\ q.pc = "account loans" /\ q.todo # {} => Loan \in q.todo
    /\ q.op = "DeleteAccount" /\ q.pc \in {"account records", "commit"} => ~v[Loan].booked
    /\ q.pc = "account records" /\ q.todo # {} => \A k \in Records \ q.todo : ~v[k].booked
    /\ q.op = "DeleteAccount" /\ q.pc = "commit" => \A k \in Records : ~v[k].booked

LocalRight(f, d, q) ==
    Holds(d, q) /\ EditRight(f, d, q) /\ EachRight(f, d, q) /\ UnbookRight(f, d, q) /\ SweepRight(f, d, q)

\* Who is in its transaction
Busy(q) == q.pc \notin {"idle", "done", "failed"}

\* No row has two writers,
OneWriter(ds) == \A q, r \in Requests : q # r => DOMAIN ds[q] \cap DOMAIN ds[r] = {}
\* a deletion that does not lock the loan has no edit beside it,
Apart(qs) ==
    \A q, r \in Requests : q # r /\ Busy(qs[q]) /\ Busy(qs[r]) => ~L!Clashes(qs[q].op, qs[r].op)
\* and before there is a loan there is nothing, and only its creation writes.
Before(f, ds, qs) ==
    /\ \A q, r \in Requests : q # r /\ qs[q].op = "CreateLoan" => qs[r].op # "CreateLoan"
    /\ f[Loan].state = "free" =>
           /\ \A x \in L!Rows : f[x].state = "free"
           /\ \A r \in Requests : DOMAIN ds[r] # {} => qs[r].op = "CreateLoan"

Calm(f, ds, qs) ==
    /\ Good(f) /\ OneWriter(ds) /\ Apart(qs) /\ Before(f, ds, qs)
    /\ \A r \in Requests : LocalRight(f, ds[r], qs[r])

LoansInv ==
    /\ L!TypeOK /\ DOMAIN dirty = Requests
    /\ \A r \in Requests : Stage(req[r])
    /\ ~overlap => Calm(row, dirty, req)
\* The view of who has written nothing is what is committed.
LEMMA ViewPlain ==
  ASSUME NEW f \in [L!Rows -> L!Row], NEW d, DOMAIN d = {} PROVE View(f, d) = f
BY DEF View

\* What a view is made of
LEMMA ViewIs ==
  ASSUME NEW f \in [L!Rows -> L!Row], NEW d, \A x \in DOMAIN d : d[x] \in L!Row
  PROVE  /\ View(f, d) \in [L!Rows -> L!Row]
         /\ \A x \in L!Rows : View(f, d)[x] = IF x \in DOMAIN d THEN d[x] ELSE f[x]
BY DEF View

\* A booking is removed, rewritten or made for x: what was right stays right.  w are the
\* records whose bookings are still to be rewritten, u those not linked yet.
LEMMA BookingRight ==
  ASSUME LoansSetting, NEW f \in [L!Rows -> L!Row], NEW g \in [L!Rows -> L!Row],
         NEW x \in {Loan} \cup Records, NEW w, NEW v, NEW u, NEW t,
         Right(f, w, {}), IsLive(g, x), IsLive(g, Loan),
         x \in Records => IsLive(f, Loan) /\ w \subseteq v,
         x = Loan => \A k \in Records : IsLive(f, k) /\ f[k].booked => k \in v,
         g[x].booked => /\ t \in Txns /\ IsLive(g, t) /\ g[t].owner = x
                        /\ g[t].terms = <<g[Loan].terms[1], g[x].terms[2]>>
                        /\ \/ IsLive(f, t) /\ f[t].owner = x
                           \/ f[t].state = "free" /\ \A s \in Txns : ~(IsLive(f, s) /\ f[s].owner = x),
         ~g[x].booked => \A s \in Txns : IsLive(f, s) /\ f[s].owner = x => g[s].state = "gone" /\ g[s].owner = x,
         \A y \in L!Rows : y # x /\ (g[x].booked => y # t)
                             /\ (~g[x].booked => ~(y \in Txns /\ IsLive(f, y) /\ f[y].owner = x)) => g[y] = f[y],
         x \in Records => /\ g[x].booked => x \in u \/ g[x].txn = t
                          /\ g[x].txn \in Txns => (g[x].booked /\ g[x].txn = t) \/ g[x].txn = f[x].txn
  PROVE  Right(g, v, u)
<1>1. /\ Loan \in L!Rows /\ Loan \notin Txns /\ Loan \notin Records /\ Records \cap Txns = {}
      /\ Records \subseteq L!Rows /\ Txns \subseteq L!Rows /\ x \in L!Rows /\ x \notin Txns
  BY DEF LoansSetting, L!Rows
<1>2. Sound(f) /\ Single(f) /\ Linked(f, {}) /\ Named(f) /\ Empty(f) /\ Follows(f, w)
  BY DEF Right
<1>3. \A s \in Txns : f[s].owner \in {Loan} \cup Records /\ g[s].owner \in {Loan} \cup Records
  BY <1>1 DEF L!Row
<1>4. ASSUME NEW s \in Txns, IsLive(g, s), ~(g[x].booked /\ s = t)
      PROVE  g[s] = f[s] /\ f[s].owner # x
  <2>1. CASE ~g[x].booked
    BY <1>1, <1>4, <2>1 DEF IsLive
  <2>2. CASE g[x].booked
    <3>1. s # t /\ g[s] = f[s]
      BY <1>1, <1>4, <2>2
    <3>2. IsLive(f, s)
      BY <1>4, <3>1 DEF IsLive
    <3>3. f[s].owner # x
      BY <1>2, <2>2, <3>1, <3>2 DEF Single
    <3> QED BY <3>1, <3>3
  <2> QED BY <2>1, <2>2
<1>5. \A y \in {Loan} \cup Records : y # x => g[y] = f[y]
  BY <1>1
<1>6. Sound(g)
  <2> SUFFICES ASSUME NEW s \in Txns, IsLive(g, s)
               PROVE  IsLive(g, g[s].owner) /\ g[g[s].owner].booked
    BY DEF Sound
  <2>1. CASE g[x].booked /\ s = t
    BY <2>1
  <2>2. CASE ~(g[x].booked /\ s = t)
    <3>1. g[s] = f[s] /\ f[s].owner # x /\ IsLive(f, s)
      BY <1>4, <2>2 DEF IsLive
    <3>2. g[f[s].owner] = f[f[s].owner]
      BY <1>3, <1>5, <3>1
    <3> QED BY <1>2, <3>1, <3>2 DEF Sound, IsLive
  <2> QED BY <2>1, <2>2
<1>7. Single(g)
  <2> SUFFICES ASSUME NEW a \in Txns, NEW b \in Txns, IsLive(g, a), IsLive(g, b), g[a].owner = g[b].owner
               PROVE  a = b
    BY DEF Single
  <2>1. CASE g[x].booked /\ (a = t \/ b = t)
    BY <1>4, <2>1
  <2>2. CASE ~(g[x].booked /\ a = t) /\ ~(g[x].booked /\ b = t)
    <3>1. g[a] = f[a] /\ g[b] = f[b]
      BY <1>4, <2>2
    <3> QED BY <1>2, <3>1 DEF Single, IsLive
  <2> QED BY <2>1, <2>2
<1>8. Linked(g, u)
  <2> SUFFICES ASSUME NEW s \in Txns, IsLive(g, s), g[s].owner # Loan, g[s].owner \notin u
               PROVE  g[g[s].owner].txn = s
    BY DEF Linked
  <2>1. CASE g[x].booked /\ s = t
    BY <1>3, <2>1
  <2>2. CASE ~(g[x].booked /\ s = t)
    <3>1. g[s] = f[s] /\ f[s].owner # x /\ IsLive(f, s)
      BY <1>4, <2>2 DEF IsLive
    <3>2. g[f[s].owner] = f[f[s].owner]
      BY <1>3, <1>5, <3>1
    <3> QED BY <1>2, <3>1, <3>2 DEF Linked
  <2> QED BY <2>1, <2>2
<1>9. ASSUME NEW k \in Records, NEW s \in Txns, f[k].txn = s
      PROVE  g[s].state # "free" /\ g[s].owner = k
  <2>1. f[s].state # "free" /\ f[s].owner = k
    BY <1>2, <1>9 DEF Named
  <2>2. CASE g[x].booked /\ s = t
    BY <2>1, <2>2 DEF IsLive
  <2>3. CASE ~g[x].booked /\ IsLive(f, s) /\ f[s].owner = x
    BY <2>1, <2>3
  <2>4. CASE ~(g[x].booked /\ s = t) /\ ~(~g[x].booked /\ IsLive(f, s) /\ f[s].owner = x)
    BY <1>1, <2>1, <2>4
  <2> QED BY <2>2, <2>3, <2>4
<1>10. Named(g)
  <2> SUFFICES ASSUME NEW k \in Records, g[k].txn \in Txns
               PROVE  g[g[k].txn].state # "free" /\ g[g[k].txn].owner = k
    BY DEF Named
  <2>1. CASE k # x
    BY <1>5, <1>9, <2>1
  <2>2. CASE k = x /\ g[x].booked /\ g[x].txn = t
    BY <2>2 DEF IsLive
  <2>3. CASE k = x /\ g[x].txn = f[x].txn
    BY <1>9, <2>3
  <2> QED BY <2>1, <2>2, <2>3
<1>11. Empty(g)
  <2> SUFFICES ASSUME NEW y \in L!Rows, g[y].state = "free" PROVE ~g[y].booked /\ g[y].txn = None
    BY DEF Empty
  <2>1. y # x /\ (g[x].booked => y # t)
    BY DEF IsLive
  <2>2. ~g[x].booked => ~(y \in Txns /\ IsLive(f, y) /\ f[y].owner = x)
    OBVIOUS
  <2>3. g[y] = f[y]
    BY <2>1, <2>2
  <2> QED BY <1>2, <2>3 DEF Empty
<1>12. Follows(g, v)
  <2> SUFFICES ASSUME NEW y \in ({Loan} \cup Records) \ v, IsLive(g, y), g[y].booked
               PROVE  \E s \in Txns : Says(g, s, y)
    BY DEF Follows
  <2>1. CASE y = x
    BY <2>1 DEF Says
  <2>2. CASE y # x
    <3>1. g[y] = f[y]
      BY <1>5, <2>2
    <3>2. x \in Records
      <4>1. CASE x = Loan
        <5>1. y \in Records /\ IsLive(f, y) /\ f[y].booked
          BY <2>2, <3>1, <4>1 DEF IsLive
        <5> QED BY <4>1, <5>1
      <4> QED BY <4>1
    <3>3. IsLive(f, Loan) /\ g[Loan] = f[Loan] /\ y \notin w
      BY <1>1, <1>5, <3>2
    <3>4. PICK s \in Txns : Says(f, s, y)
      BY <1>2, <3>1, <3>3 DEF Follows, IsLive
    <3>5. IsLive(f, s) /\ f[s].owner = y /\ f[s].terms = <<f[Loan].terms[1], f[y].terms[2]>>
      BY <3>4 DEF Says
    <3>6. g[x].booked => s # t
      BY <2>2, <3>5 DEF IsLive
    <3>7. g[s] = f[s]
      BY <1>1, <2>2, <3>5, <3>6
    <3>8. Says(g, s, y)
      BY <3>1, <3>3, <3>5, <3>7 DEF Says, IsLive
    <3> QED BY <3>8
  <2> QED BY <2>1, <2>2
<1> QED BY <1>6, <1>7, <1>8, <1>10, <1>11, <1>12 DEF Right

\* Record k is removed from the rows f with its booking s: g are the rows then.
Removed(f, g, k, s) ==
    /\ f[k].state # "free" /\ g[k] = [f[k] EXCEPT !.state = "gone"]
    /\ \A t \in Txns : IsLive(f, t) /\ f[t].owner = k => t = s
    /\ s \in Txns => /\ f[s].state # "free" /\ f[s].owner = k /\ ~IsLive(g, s)
                     /\ g[s] = f[s] \/ g[s] = [f[s] EXCEPT !.state = "gone"]
    /\ \A y \in L!Rows : y # k /\ ~(y = s /\ s \in Txns) => g[y] = f[y]

\* What was right stays right then.
LEMMA RemovalRight ==
  ASSUME LoansSetting, NEW f \in [L!Rows -> L!Row], NEW g \in [L!Rows -> L!Row], Good(f),
         NEW k \in Records, NEW s, Removed(f, g, k, s)
  PROVE  Good(g)
<1>0. /\ f[k].state # "free" /\ g[k] = [f[k] EXCEPT !.state = "gone"]
      /\ \A t \in Txns : IsLive(f, t) /\ f[t].owner = k => t = s
      /\ s \in Txns => /\ f[s].state # "free" /\ f[s].owner = k /\ ~IsLive(g, s)
                       /\ g[s] = f[s] \/ g[s] = [f[s] EXCEPT !.state = "gone"]
      /\ \A y \in L!Rows : y # k /\ ~(y = s /\ s \in Txns) => g[y] = f[y]
  BY DEF Removed
<1>1. /\ Loan \in L!Rows /\ Loan \notin Txns /\ Loan \notin Records /\ Records \cap Txns = {}
      /\ Records \subseteq L!Rows /\ Txns \subseteq L!Rows /\ None \notin Txns
  BY DEF LoansSetting, L!Rows
<1>2. Sound(f) /\ Single(f) /\ Linked(f, {}) /\ Named(f) /\ Empty(f) /\ Follows(f, {})
  BY DEF Good, Right
<1>3. \A t \in Txns : f[t].owner \in {Loan} \cup Records
  BY <1>1 DEF L!Row
<1>4. /\ g[k].state = "gone" /\ g[k].txn = f[k].txn /\ k \notin Txns /\ k # Loan
  BY <1>0, <1>1 DEF L!Row
<1>5. ASSUME NEW t \in Txns, IsLive(g, t) PROVE t # s /\ g[t] = f[t] /\ IsLive(f, t) /\ f[t].owner # k
  <2>1. t # s /\ t # k
    BY <1>0, <1>1, <1>4, <1>5 DEF IsLive
  <2>2. g[t] = f[t]
    BY <1>0, <1>1, <2>1
  <2> QED BY <1>0, <1>5, <2>1, <2>2 DEF IsLive
<1>6. \A y \in {Loan} \cup Records : y # k => g[y] = f[y]
  BY <1>0, <1>1
<1>7. ASSUME NEW t \in Txns PROVE g[t].owner = f[t].owner /\ (f[t].state # "free" => g[t].state # "free")
  <2>1. CASE t = s
    BY <1>0, <1>1, <2>1 DEF L!Row
  <2>2. CASE t # s
    BY <1>0, <1>1, <1>4, <2>2
  <2> QED BY <2>1, <2>2
<1>8. Sound(g)
  BY <1>2, <1>3, <1>4, <1>5, <1>6 DEF Sound, IsLive
<1>9. Single(g)
  BY <1>2, <1>5 DEF Single
<1>10. Linked(g, {})
  BY <1>2, <1>3, <1>5, <1>6 DEF Linked
<1>11. Named(g)
  <2> SUFFICES ASSUME NEW j \in Records, g[j].txn \in Txns PROVE g[g[j].txn].state # "free" /\ g[g[j].txn].owner = j
    BY DEF Named
  <2>1. g[j].txn = f[j].txn
    BY <1>4, <1>6
  <2>2. f[f[j].txn].state # "free" /\ f[f[j].txn].owner = j
    BY <1>2, <2>1 DEF Named
  <2> QED BY <1>7, <2>1, <2>2
<1>12. Empty(g)
  <2> SUFFICES ASSUME NEW y \in L!Rows, g[y].state = "free" PROVE ~g[y].booked /\ g[y].txn = None
    BY DEF Empty
  <2>1. y # k
    BY <1>4
  <2>2. CASE y = s /\ s \in Txns
    BY <1>0, <1>7, <2>2
  <2>3. CASE ~(y = s /\ s \in Txns)
    <3>1. g[y] = f[y]
      BY <1>0, <2>1, <2>3
    <3> QED BY <1>2, <3>1 DEF Empty
  <2> QED BY <2>2, <2>3
<1>13. Follows(g, {})
  <2> SUFFICES ASSUME IsLive(g, Loan), NEW y \in {Loan} \cup Records, IsLive(g, y), g[y].booked
               PROVE  \E t \in Txns : Says(g, t, y)
    BY DEF Follows
  <2>1. y # k /\ g[y] = f[y] /\ g[Loan] = f[Loan]
    BY <1>4, <1>6 DEF IsLive
  <2>2. PICK t \in Txns : Says(f, t, y)
    BY <1>2, <2>1 DEF Follows, IsLive
  <2>3. t # s
    BY <1>0, <2>1, <2>2 DEF Says
  <2>4. g[t] = f[t]
    BY <1>0, <1>1, <1>4, <2>3
  <2>5. Says(g, t, y)
    BY <2>1, <2>2, <2>4 DEF Says, IsLive
  <2> QED BY <2>5
<1> QED BY <1>8, <1>9, <1>10, <1>11, <1>12, <1>13 DEF Good, Right

\* A sweep that leaves no booking, and no loan or nothing booked, leaves everything right.
LEMMA SweptRight ==
  ASSUME LoansSetting, NEW f \in [L!Rows -> L!Row], NEW g \in [L!Rows -> L!Row], Good(f),
         \A x \in L!Rows : g[x] = f[x] \/ Shrinks(f[x], g[x]),
         NoBooking(g), ~IsLive(g, Loan) \/ \A x \in {Loan} \cup Records : ~g[x].booked
  PROVE  Good(g)
<1>1. Records \subseteq L!Rows /\ Txns \subseteq L!Rows /\ None \notin Txns
  BY DEF LoansSetting, L!Rows
<1>2. Named(f) /\ Empty(f)
  BY DEF Good, Right
<1>3. Sound(g) /\ Single(g) /\ Linked(g, {})
  BY DEF NoBooking, Sound, Single, Linked
<1>4. Follows(g, {})
  BY DEF Follows
<1>5. Named(g)
  <2> SUFFICES ASSUME NEW k \in Records, g[k].txn \in Txns PROVE g[g[k].txn].state # "free" /\ g[g[k].txn].owner = k
    BY DEF Named
  <2>1. g[k].txn = f[k].txn
    BY <1>1 DEF Shrinks
  <2>2. f[f[k].txn].state # "free" /\ f[f[k].txn].owner = k
    BY <1>2, <2>1 DEF Named
  <2>3. f[k].txn \in L!Rows
    BY <1>1, <2>1
  <2> QED BY <2>1, <2>2, <2>3 DEF Shrinks
<1>6. Empty(g)
  <2> SUFFICES ASSUME NEW y \in L!Rows, g[y].state = "free" PROVE ~g[y].booked /\ g[y].txn = None
    BY DEF Empty
  <2>1. g[y] = f[y]
    BY DEF Shrinks
  <2> QED BY <1>2, <2>1 DEF Empty
<1> QED BY <1>3, <1>4, <1>5, <1>6 DEF Good, Right

\* A record's booking is linked to it.
LEMMA LinkRight ==
  ASSUME LoansSetting, NEW f \in [L!Rows -> L!Row], NEW g \in [L!Rows -> L!Row], NEW w, NEW k \in Records,
         NEW t \in Txns, Right(f, w, {k}), Says(f, t, k), g[k] = [f[k] EXCEPT !.txn = t],
         \A y \in L!Rows : y # k => g[y] = f[y], IsLive(f, k)
  PROVE  Right(g, w \ {k}, {})
<1>1. /\ Loan \in L!Rows /\ Loan \notin Txns /\ Loan \notin Records /\ Records \cap Txns = {}
      /\ Records \subseteq L!Rows /\ Txns \subseteq L!Rows
  BY DEF LoansSetting, L!Rows
<1>2. Sound(f) /\ Single(f) /\ Linked(f, {k}) /\ Named(f) /\ Empty(f) /\ Follows(f, w)
  BY DEF Right
<1>3. \A s \in Txns : f[s].owner \in {Loan} \cup Records /\ g[s] = f[s]
  BY <1>1 DEF L!Row
<1>4. /\ g[k].state = f[k].state /\ g[k].booked = f[k].booked /\ g[k].terms = f[k].terms /\ g[k].txn = t
      /\ k # Loan /\ g[Loan] = f[Loan]
  BY <1>1 DEF L!Row
<1>5. /\ \A y \in {Loan} \cup Records : g[y].state = f[y].state /\ g[y].booked = f[y].booked /\ g[y].terms = f[y].terms
      /\ \A y \in {Loan} \cup Records : y # k => g[y] = f[y]
  BY <1>1, <1>4
<1>6. IsLive(f, t) /\ f[t].owner = k
  BY DEF Says
<1>7. Sound(g)
  BY <1>1, <1>2, <1>3, <1>5 DEF Sound, IsLive
<1>8. Single(g)
  BY <1>2, <1>3 DEF Single, IsLive
<1>9. Linked(g, {})
  <2> SUFFICES ASSUME NEW s \in Txns, IsLive(g, s), g[s].owner # Loan PROVE g[g[s].owner].txn = s
    BY DEF Linked
  <2>1. IsLive(f, s) /\ g[s].owner = f[s].owner /\ f[s].owner \in Records
    BY <1>3 DEF IsLive
  <2>2. CASE f[s].owner = k
    BY <1>2, <1>4, <1>6, <2>1, <2>2 DEF Single
  <2>3. CASE f[s].owner # k
    BY <1>2, <1>5, <2>1, <2>3 DEF Linked
  <2> QED BY <2>2, <2>3
<1>10. Named(g)
  <2> SUFFICES ASSUME NEW j \in Records, g[j].txn \in Txns PROVE g[g[j].txn].state # "free" /\ g[g[j].txn].owner = j
    BY DEF Named
  <2>1. CASE j = k
    BY <1>3, <1>4, <1>6, <2>1 DEF IsLive
  <2>2. CASE j # k
    BY <1>2, <1>3, <1>5, <2>2 DEF Named
  <2> QED BY <2>1, <2>2
<1>11. Empty(g)
  <2> SUFFICES ASSUME NEW y \in L!Rows, g[y].state = "free" PROVE ~g[y].booked /\ g[y].txn = None
    BY DEF Empty
  <2>1. y # k
    BY <1>4 DEF IsLive
  <2> QED BY <1>2, <2>1 DEF Empty
<1>12. Follows(g, w \ {k})
  <2> SUFFICES ASSUME IsLive(g, Loan), NEW y \in ({Loan} \cup Records) \ (w \ {k}), IsLive(g, y), g[y].booked
               PROVE  \E s \in Txns : Says(g, s, y)
    BY DEF Follows
  <2>1. CASE y = k
    <3>1. Says(g, t, k)
      BY <1>3, <1>4 DEF Says, IsLive
    <3> QED BY <2>1, <3>1
  <2>2. CASE y # k
    <3>1. PICK s \in Txns : Says(f, s, y)
      BY <1>2, <1>4, <1>5, <2>2 DEF Follows, IsLive
    <3>2. Says(g, s, y)
      BY <1>3, <1>4, <1>5, <3>1 DEF Says, IsLive
    <3> QED BY <3>2
  <2> QED BY <2>1, <2>2
<1> QED BY <1>7, <1>8, <1>9, <1>10, <1>11, <1>12 DEF Right

\* What a request has before it, with its types
LEMMA Before1 ==
  ASSUME LoansInv, NEW r \in Requests
  PROVE  /\ row \in [L!Rows -> L!Row] /\ req \in [Requests -> L!RequestState] /\ req[r] \in L!RequestState
         /\ open \in BOOLEAN /\ overlap \in BOOLEAN /\ DOMAIN dirty = Requests /\ Stage(req[r])
         /\ DOMAIN dirty[r] \subseteq L!Rows /\ \A x \in DOMAIN dirty[r] : dirty[r][x] \in L!Row
         /\ View(row, dirty[r]) \in [L!Rows -> L!Row]
         /\ \A x \in L!Rows : L!Sees(r, x) = View(row, dirty[r])[x] /\ L!Sees(r, x) \in L!Row
<1>1. /\ row \in [L!Rows -> L!Row] /\ req \in [Requests -> L!RequestState] /\ req[r] \in L!RequestState
      /\ DOMAIN dirty = Requests /\ Stage(req[r])
      /\ DOMAIN dirty[r] \subseteq L!Rows /\ \A x \in DOMAIN dirty[r] : dirty[r][x] \in L!Row
  BY DEF LoansInv, L!TypeOK
<1>2. open \in BOOLEAN /\ overlap \in BOOLEAN
  BY DEF LoansInv, L!TypeOK
<1>3. \A x \in L!Rows : L!Sees(r, x) = View(row, dirty[r])[x]
  BY DEF L!Sees, View
<1>4. View(row, dirty[r]) \in [L!Rows -> L!Row]
  BY <1>1, ViewIs
<1> QED BY <1>1, <1>2, <1>3, <1>4

\* A statement within a transaction changes nothing that others see.
LEMMA LocalStep ==
  ASSUME LoansInv, NEW r \in Requests, NEW q \in L!RequestState, UNCHANGED <<row, open, overlap>>,
         DOMAIN dirty' = Requests, \A p \in Requests \ {r} : dirty'[p] = dirty[p],
         req' = [req EXCEPT ![r] = q], DOMAIN dirty'[r] \subseteq L!Rows, \A x \in DOMAIN dirty'[r] : dirty'[r][x] \in L!Row,
         Stage(q), q.op = req[r].op, Busy(req[r]),
         ~overlap => /\ LocalRight(row, dirty'[r], q)
                     /\ \A p \in Requests \ {r} : DOMAIN dirty[p] \cap DOMAIN dirty'[r] = {}
                     /\ row[Loan].state = "free" /\ DOMAIN dirty'[r] # {} => q.op = "CreateLoan"
  PROVE  LoansInv'
<1>1. /\ row \in [L!Rows -> L!Row] /\ req \in [Requests -> L!RequestState] /\ DOMAIN dirty = Requests
      /\ \A p \in Requests : DOMAIN dirty[p] \subseteq L!Rows /\ \A x \in DOMAIN dirty[p] : dirty[p][x] \in L!Row
      /\ {open, overlap} \subseteq BOOLEAN
      /\ \A p \in Requests : Stage(req[p])
  BY DEF LoansInv, L!TypeOK
<1>2. /\ DOMAIN dirty' = Requests /\ req'[r] = q
      /\ \A p \in Requests : p # r => dirty'[p] = dirty[p] /\ req'[p] = req[p]
  BY <1>1
<1>3. req' \in [Requests -> L!RequestState]
  BY <1>1
<1>4. \A p \in Requests : DOMAIN dirty'[p] \subseteq L!Rows /\ \A x \in DOMAIN dirty'[p] : dirty'[p][x] \in L!Row
  BY <1>1, <1>2
<1>5. L!TypeOK'
  BY <1>1, <1>3, <1>4 DEF L!TypeOK
<1>6. \A p \in Requests : Stage(req'[p])
  BY <1>1, <1>2
<1>7. ASSUME ~overlap PROVE Calm(row', dirty', req')
  <2>1. Calm(row, dirty, req)
    BY <1>7 DEF LoansInv
  <2>2. OneWriter(dirty')
    BY <1>2, <1>7, <2>1 DEF Calm, OneWriter
  <2>3. Apart(req')
    <3> SUFFICES ASSUME NEW p \in Requests, NEW s \in Requests, p # s, Busy(req'[p]), Busy(req'[s])
                 PROVE  ~L!Clashes(req'[p].op, req'[s].op)
      BY DEF Apart
    <3>1. \A m \in Requests : Busy(req'[m]) => Busy(req[m]) /\ req'[m].op = req[m].op
      BY <1>2
    <3> QED BY <2>1, <3>1 DEF Calm, Apart
  <2>4. Before(row', dirty', req')
    <3>1. \A m \in Requests : req'[m].op = req[m].op
      BY <1>2
    <3> QED BY <1>2, <1>7, <2>1, <3>1 DEF Calm, Before
  <2>5. \A p \in Requests : LocalRight(row', dirty'[p], req'[p])
    <3> SUFFICES ASSUME NEW p \in Requests PROVE LocalRight(row', dirty'[p], req'[p])
      OBVIOUS
    <3>1. CASE p = r
      BY <1>2, <1>7, <3>1
    <3>2. CASE p # r
      <4>1. row' = row /\ dirty'[p] = dirty[p] /\ req'[p] = req[p] /\ LocalRight(row, dirty[p], req[p])
        BY <1>2, <2>1, <3>2 DEF Calm
      <4> QED BY <4>1
    <3> QED BY <3>1, <3>2
  <2> QED BY <2>1, <2>2, <2>3, <2>4, <2>5 DEF Calm
<1> QED BY <1>2, <1>5, <1>6, <1>7 DEF LoansInv

\* What Calm says of one request
LEMMA CalmIs ==
  ASSUME LoansInv, ~overlap, NEW r \in Requests
  PROVE  /\ Good(row) /\ Apart(req) /\ Before(row, dirty, req)
         /\ \A p \in Requests \ {r} : DOMAIN dirty[p] \cap DOMAIN dirty[r] = {}
         /\ Holds(dirty[r], req[r]) /\ EditRight(row, dirty[r], req[r]) /\ EachRight(row, dirty[r], req[r])
         /\ UnbookRight(row, dirty[r], req[r]) /\ SweepRight(row, dirty[r], req[r])
BY DEF LoansInv, Calm, LocalRight, OneWriter

\* Rows written by a statement
LEMMA WroteIs ==
  ASSUME LoansInv, NEW r \in Requests, NEW new, L!Wrote(r, new), DOMAIN new \subseteq L!Rows,
         \A x \in DOMAIN new : new[x] \in L!Row
  PROVE  /\ DOMAIN dirty' = Requests /\ \A p \in Requests \ {r} : dirty'[p] = dirty[p]
         /\ DOMAIN dirty'[r] = DOMAIN dirty[r] \cup DOMAIN new /\ DOMAIN dirty'[r] \subseteq L!Rows
         /\ \A x \in DOMAIN new : dirty'[r][x] = new[x]
         /\ \A x \in DOMAIN dirty[r] \ DOMAIN new : dirty'[r][x] = dirty[r][x]
         /\ \A x \in DOMAIN dirty'[r] : dirty'[r][x] \in L!Row
         /\ View(row, dirty'[r]) \in [L!Rows -> L!Row]
         /\ \A x \in L!Rows : View(row, dirty'[r])[x] = IF x \in DOMAIN new THEN new[x] ELSE View(row, dirty[r])[x]
<1> DEFINE d == L!Over(r, new)
<1>1. /\ row \in [L!Rows -> L!Row] /\ DOMAIN dirty[r] \subseteq L!Rows
      /\ \A x \in DOMAIN dirty[r] : dirty[r][x] \in L!Row
  BY Before1
<1>2. /\ DOMAIN d = DOMAIN dirty[r] \cup DOMAIN new
      /\ \A x \in DOMAIN new : d[x] = new[x]
      /\ \A x \in DOMAIN dirty[r] \ DOMAIN new : d[x] = dirty[r][x]
  BY DEF L!Over
<1>3. DOMAIN dirty' = Requests /\ dirty'[r] = d /\ \A p \in Requests \ {r} : dirty'[p] = dirty[p]
  BY Before1 DEF L!Wrote
<1> HIDE DEF d
<1>4. \A x \in DOMAIN d : d[x] \in L!Row
  BY <1>1, <1>2
<1>5. View(row, d) \in [L!Rows -> L!Row] /\ \A x \in L!Rows : View(row, d)[x] = IF x \in DOMAIN d THEN d[x] ELSE row[x]
  BY <1>1, <1>4, ViewIs
<1>6. \A x \in L!Rows : View(row, dirty[r])[x] = IF x \in DOMAIN dirty[r] THEN dirty[r][x] ELSE row[x]
  BY <1>1, ViewIs
<1>7. \A x \in L!Rows : View(row, d)[x] = IF x \in DOMAIN new THEN new[x] ELSE View(row, dirty[r])[x]
  BY <1>2, <1>5, <1>6
<1> QED BY <1>1, <1>2, <1>3, <1>4, <1>5, <1>7

\* A statement that writes rows nobody else has written
LEMMA WriteStep ==
  ASSUME LoansInv, NEW r \in Requests, NEW new, L!Wrote(r, new), DOMAIN new \subseteq L!Rows,
         \A x \in DOMAIN new : new[x] \in L!Row, ~overlap => \A x \in DOMAIN new : L!Free(r, x),
         NEW q \in L!RequestState, UNCHANGED <<row, open, overlap>>, req' = [req EXCEPT ![r] = q],
         Stage(q), q.op = req[r].op, Busy(req[r]),
         ~overlap => /\ LocalRight(row, dirty'[r], q)
                     /\ row[Loan].state = "free" /\ DOMAIN dirty'[r] # {} => q.op = "CreateLoan"
  PROVE  LoansInv'
<1>1. /\ DOMAIN dirty' = Requests /\ \A p \in Requests \ {r} : dirty'[p] = dirty[p]
      /\ DOMAIN dirty'[r] = DOMAIN dirty[r] \cup DOMAIN new /\ DOMAIN dirty'[r] \subseteq L!Rows
      /\ \A x \in DOMAIN dirty'[r] : dirty'[r][x] \in L!Row
  BY WroteIs
<1>2. ~overlap => \A p \in Requests \ {r} : DOMAIN dirty[p] \cap DOMAIN dirty[r] = {}
  BY CalmIs
<1>3. ~overlap => \A p \in Requests \ {r} : DOMAIN dirty[p] \cap DOMAIN dirty'[r] = {}
  BY <1>1, <1>2 DEF L!Free
<1> QED BY <1>1, <1>3, LocalStep

\* A request fails or is rolled back, and nothing of it stays.
LEMMA RollbackStep == ASSUME LoansInv, NEW r \in Requests, L!Rollback(r) PROVE LoansInv'
<1> DEFINE q == [req[r] EXCEPT !.pc = "failed", !.todo = {}, !.seen = None]
<1>1. UNCHANGED <<row, open, overlap>> /\ Busy(req[r]) /\ dirty' = [dirty EXCEPT ![r] = [x \in {} |-> L!Blank(Loan)]]
  BY DEF L!Rollback, L!Ended, L!InTx, Busy
<1>2. req' = [req EXCEPT ![r] = q]
  BY Before1 DEF L!Rollback, L!Ended
<1>3. DOMAIN dirty' = Requests /\ DOMAIN dirty'[r] = {} /\ \A p \in Requests \ {r} : dirty'[p] = dirty[p]
  BY <1>1, Before1
<1>4. q \in L!RequestState /\ q.pc = "failed" /\ q.op = req[r].op /\ q.todo = {}
  BY Before1, ZenonT(40) DEF L!RequestState, L!Pcs
<1> HIDE DEF q
<1>5. req[r].op \in L!Ops
  BY <1>1, Before1 DEF Stage, Busy, L!Ops
<1>6. Stage(q)
  BY <1>4, <1>5 DEF Stage
<1>7. LocalRight(row, dirty'[r], q)
  BY <1>3, <1>4 DEF LocalRight, Holds, EditRight, EachRight, UnbookRight, SweepRight, Lockers, Waiting
<1> QED BY <1>1, <1>2, <1>3, <1>4, <1>6, <1>7, LocalStep

\* A row was not there.
LEMMA FailStep ==
  ASSUME LoansInv, NEW r \in Requests, req' = [req EXCEPT ![r].pc = "fail"], UNCHANGED <<row, open, dirty, overlap>>,
         req[r].pc \in {"lock", "UpdateLoanRecord", "delete record"}
  PROVE  LoansInv'
<1> DEFINE q == [req[r] EXCEPT !.pc = "fail"]
<1>1. req' = [req EXCEPT ![r] = q]
  BY Before1
<1>2. q \in L!RequestState /\ q.pc = "fail" /\ q.op = req[r].op /\ Busy(req[r])
  BY Before1 DEF L!RequestState, L!Pcs, Busy
<1>3. Stage(q)
  BY <1>2, Before1 DEF Stage
<1> HIDE DEF q
<1>4. ASSUME ~overlap PROVE LocalRight(row, dirty[r], q)
  <2>1. Holds(dirty[r], req[r]) /\ EditRight(row, dirty[r], req[r]) /\ SweepRight(row, dirty[r], req[r])
    BY <1>4, CalmIs
  <2>2. DOMAIN dirty[r] \subseteq {Loan}
    BY <2>1 DEF Holds, EditRight, Waiting
  <2>3. Holds(dirty[r], q)
    BY <1>2, <2>1, <2>2 DEF Holds, Waiting
  <2>4. SweepRight(row, dirty[r], q)
    BY <1>2, <2>1 DEF SweepRight
  <2> QED BY <1>2, <2>3, <2>4 DEF LocalRight, EditRight, EachRight, UnbookRight
<1>5. ASSUME ~overlap PROVE /\ \A p \in Requests \ {r} : DOMAIN dirty[p] \cap DOMAIN dirty[r] = {}
                            /\ row[Loan].state = "free" /\ DOMAIN dirty[r] # {} => q.op = "CreateLoan"
  BY <1>2, <1>5, CalmIs DEF Before
<1>6. DOMAIN dirty' = Requests /\ dirty' = dirty /\ DOMAIN dirty[r] \subseteq L!Rows /\ \A x \in DOMAIN dirty[r] : dirty[r][x] \in L!Row
  BY Before1
<1> QED BY <1>1, <1>2, <1>3, <1>4, <1>5, <1>6, LocalStep

\* The loan's row is locked.
LEMMA LockLoanStep == ASSUME LoansSetting, LoansInv, NEW r \in Requests, L!LockLoan(r) PROVE LoansInv'
<1>1. CASE ~L!Live(r, Loan)
  BY <1>1, FailStep DEF L!LockLoan
<1>2. CASE L!Live(r, Loan)
  <2> DEFINE new == [x \in {Loan} |-> L!Sees(r, x)]
             q == [req[r] EXCEPT !.pc = req[r].op]
             d == dirty'[r]
  <2>1. /\ req[r].pc = "lock" /\ req[r].op # "DeleteLoan" /\ L!Free(r, Loan) /\ L!Wrote(r, new)
        /\ req' = [req EXCEPT ![r].pc = req[r].op] /\ UNCHANGED <<row, open, overlap>>
    BY <1>2 DEF L!LockLoan
  <2>2. DOMAIN new = {Loan} /\ new[Loan] = View(row, dirty[r])[Loan] /\ new[Loan] \in L!Row /\ Loan \in L!Rows
        /\ new[Loan].state = "live"
    BY <1>2, Before1 DEF L!Rows, L!Live
  <2>3. /\ req' = [req EXCEPT ![r] = q]
        /\ req[r].op \in {"UpdateLoan", "CreateLoanRecord", "UpdateLoanRecord"}
    BY <2>1, Before1 DEF Stage
  <2>4. /\ q \in L!RequestState /\ q.pc = req[r].op /\ q.op = req[r].op /\ Busy(req[r]) /\ q.seen = req[r].seen
    BY <2>1, <2>3, Before1, ZenonT(40) DEF L!RequestState, L!Pcs, L!Ops, Busy
  <2>5. Stage(q)
    BY <2>3, <2>4 DEF Stage
  <2> HIDE DEF new, q
  <2>6. DOMAIN new \subseteq L!Rows /\ (\A x \in DOMAIN new : new[x] \in L!Row) /\ \A x \in DOMAIN new : L!Free(r, x)
    BY <2>1, <2>2
  <2>7. /\ DOMAIN d = DOMAIN dirty[r] \cup DOMAIN new /\ \A x \in DOMAIN new : d[x] = new[x]
    BY <2>1, <2>6, WroteIs
  <2>8. ASSUME ~overlap PROVE LocalRight(row, d, q) /\ (row[Loan].state = "free" => q.op = "CreateLoan")
    <3> HIDE DEF d
    <3>1. DOMAIN dirty[r] = {} /\ (req[r].op = "UpdateLoan" => req[r].seen = None)
      BY <2>1, <2>8, CalmIs DEF Holds, EditRight, Waiting
    <3>2. View(row, dirty[r])[Loan] = row[Loan]
      BY <3>1, Before1, ViewPlain
    <3>3. DOMAIN d = {Loan} /\ d[Loan] = row[Loan] /\ IsLive(row, Loan)
      BY <2>2, <2>7, <3>1, <3>2 DEF IsLive
    <3>4. LocalRight(row, d, q)
      BY <2>3, <2>4, <3>1, <3>3 DEF LocalRight, Holds, EditRight, EachRight, UnbookRight, SweepRight, Lockers, Waiting,
                                    Deleters, IsLive
    <3> QED BY <3>3, <3>4 DEF IsLive
  <2> QED BY <2>1, <2>3, <2>4, <2>5, <2>6, <2>8, WriteStep
<1> QED BY <1>1, <1>2

\* The loan is deleted.
LEMMA SoftDeleteLoanStep == ASSUME LoansSetting, LoansInv, NEW r \in Requests, L!SoftDeleteLoan(r) PROVE LoansInv'
<1>1. CASE ~L!Live(r, Loan)
  BY <1>1, FailStep DEF L!SoftDeleteLoan
<1>2. CASE L!Live(r, Loan)
  <2> DEFINE new == [x \in {Loan} |-> [L!Sees(r, x) EXCEPT !.state = "gone"]]
             q == [req[r] EXCEPT !.pc = "records"]
             d == dirty'[r]
  <2>1. /\ req[r].pc = "lock" /\ req[r].op = "DeleteLoan" /\ L!Free(r, Loan) /\ L!Wrote(r, new)
        /\ req' = [req EXCEPT ![r].pc = "records"] /\ UNCHANGED <<row, open, overlap>>
    BY <1>2 DEF L!SoftDeleteLoan
  <2>2. /\ DOMAIN new = {Loan} /\ new[Loan] = [View(row, dirty[r])[Loan] EXCEPT !.state = "gone"] /\ Loan \in L!Rows
        /\ L!Sees(r, Loan) \in L!Row /\ L!Sees(r, Loan) = View(row, dirty[r])[Loan]
        /\ View(row, dirty[r])[Loan].state = "live"
    BY <1>2, Before1 DEF L!Rows, L!Live
  <2>3. /\ new[Loan] \in L!Row /\ new[Loan].state = "gone" /\ Shrinks(View(row, dirty[r])[Loan], new[Loan])
    BY <2>2 DEF L!Row, Shrinks
  <2>4. req' = [req EXCEPT ![r] = q]
    BY <2>1, Before1
  <2>5. /\ q \in L!RequestState /\ q.pc = "records" /\ q.op = req[r].op /\ Busy(req[r])
    BY <2>1, Before1, ZenonT(40) DEF L!RequestState, L!Pcs, Busy
  <2>6. Stage(q)
    BY <2>1, <2>5 DEF Stage
  <2> HIDE DEF new, q
  <2>7. DOMAIN new \subseteq L!Rows /\ (\A x \in DOMAIN new : new[x] \in L!Row) /\ \A x \in DOMAIN new : L!Free(r, x)
    BY <2>1, <2>2, <2>3
  <2>8. /\ DOMAIN d = DOMAIN dirty[r] \cup DOMAIN new /\ \A x \in DOMAIN new : d[x] = new[x]
        /\ \A x \in L!Rows : View(row, d)[x] = IF x \in DOMAIN new THEN new[x] ELSE View(row, dirty[r])[x]
    BY <2>1, <2>7, WroteIs
  <2>9. ASSUME ~overlap PROVE LocalRight(row, d, q) /\ (row[Loan].state = "free" => q.op = "CreateLoan")
    <3> HIDE DEF d
    <3>1. DOMAIN dirty[r] = {}
      BY <2>1, <2>9, CalmIs DEF Holds, Waiting
    <3>2. View(row, dirty[r])[Loan] = row[Loan]
      BY <3>1, Before1, ViewPlain
    <3>3. DOMAIN d = {Loan} /\ d[Loan].state = "gone" /\ Shrinks(row[Loan], d[Loan]) /\ row[Loan].state = "live"
          /\ View(row, d)[Loan].state = "gone"
      BY <2>2, <2>3, <2>8, <3>1, <3>2
    <3>4. LocalRight(row, d, q)
      BY <2>1, <2>5, <3>3 DEF LocalRight, Holds, EditRight, EachRight, UnbookRight, SweepRight, Lockers, Waiting, Deleters
    <3> QED BY <3>3, <3>4
  <2> QED BY <2>1, <2>4, <2>5, <2>6, <2>7, <2>9, WriteStep
<1> QED BY <1>1, <1>2

\* A record is deleted.
LEMMA SoftDeleteLoanRecordStep ==
  ASSUME LoansSetting, LoansInv, NEW r \in Requests, L!SoftDeleteLoanRecord(r) PROVE LoansInv'
<1> DEFINE k == req[r].id
<1>1. CASE ~L!Live(r, k)
  BY <1>1, FailStep DEF L!SoftDeleteLoanRecord
<1>2. CASE L!Live(r, k)
  <2> DEFINE new == [x \in {k} |-> [L!Sees(r, x) EXCEPT !.state = "gone"]]
             q == [req[r] EXCEPT !.pc = "unbook"]
             d == dirty'[r]
  <2>1. /\ req[r].pc = "delete record" /\ L!Free(r, k) /\ L!Wrote(r, new)
        /\ req' = [req EXCEPT ![r].pc = "unbook"] /\ UNCHANGED <<row, open, overlap>>
    BY <1>2 DEF L!SoftDeleteLoanRecord
  <2>2. req[r].op = "DeleteLoanRecord" /\ k \in Records /\ k \in L!Rows
    BY <2>1, Before1 DEF Stage, L!RequestState, L!Rows
  <2>3. /\ DOMAIN new = {k} /\ new[k] = [View(row, dirty[r])[k] EXCEPT !.state = "gone"]
        /\ View(row, dirty[r])[k] \in L!Row /\ View(row, dirty[r])[k].state = "live"
    BY <1>2, <2>2, Before1 DEF L!Live
  <2>4. /\ new[k] \in L!Row /\ new[k].state = "gone" /\ Shrinks(View(row, dirty[r])[k], new[k])
    BY <2>3 DEF L!Row, Shrinks
  <2>5. req' = [req EXCEPT ![r] = q]
    BY <2>1, Before1
  <2>6. /\ q \in L!RequestState /\ q.pc = "unbook" /\ q.op = req[r].op /\ Busy(req[r]) /\ q.id = k /\ q.seen = req[r].seen
    BY <2>1, Before1 DEF L!RequestState, L!Pcs, Busy
  <2>7. Stage(q)
    BY <2>2, <2>6 DEF Stage
  <2> HIDE DEF new, q, k
  <2>8. DOMAIN new \subseteq L!Rows /\ (\A x \in DOMAIN new : new[x] \in L!Row) /\ \A x \in DOMAIN new : L!Free(r, x)
    BY <2>1, <2>2, <2>3, <2>4
  <2>9. /\ DOMAIN d = DOMAIN dirty[r] \cup DOMAIN new /\ \A x \in DOMAIN new : d[x] = new[x]
    BY <2>1, <2>8, WroteIs
  <2>10. ASSUME ~overlap PROVE LocalRight(row, d, q) /\ (row[Loan].state = "free" => q.op = "CreateLoan")
    <3> HIDE DEF d
    <3>1. DOMAIN dirty[r] = {} /\ UnbookRight(row, dirty[r], req[r]) /\ Before(row, dirty, req)
      BY <2>1, <2>10, CalmIs DEF Holds, Waiting
    <3>2. View(row, dirty[r])[k] = row[k]
      BY <2>2, <3>1, Before1, ViewPlain
    <3>3. DOMAIN d = {k} /\ d[k] = [row[k] EXCEPT !.state = "gone"] /\ d[k].state = "gone" /\ Shrinks(row[k], d[k])
          /\ row[k].state = "live"
      BY <2>3, <2>4, <2>9, <3>1, <3>2
    <3>4. UnbookRight(row, d, q)
      BY <2>1, <2>2, <2>6, <3>1, <3>3 DEF UnbookRight, k
    <3>5. LocalRight(row, d, q)
      BY <2>2, <2>6, <3>3, <3>4 DEF LocalRight, Holds, EditRight, EachRight, SweepRight, Lockers, Waiting, Deleters
    <3>6. row[Loan].state # "free"
      BY <2>2, <3>1, <3>3 DEF Before
    <3> QED BY <3>5, <3>6
  <2> QED BY <2>1, <2>5, <2>6, <2>7, <2>8, <2>10, WriteStep
<1> QED BY <1>1, <1>2

\* The booking it named is deleted.
LEMMA UnbookStep ==
  ASSUME LoansSetting, LoansInv, NEW r \in Requests, L!SoftDeleteTransactionByID(r) PROVE LoansInv'
<1> DEFINE k == req[r].id
           s == req[r].seen
           v == View(row, dirty[r])
           new == [t \in {u \in {s} \cap Txns : L!Live(r, u)} |-> [L!Sees(r, t) EXCEPT !.state = "gone"]]
           q == [req[r] EXCEPT !.pc = "commit"]
           d == dirty'[r]
<1>1. /\ req[r].pc = "unbook" /\ (s \in Txns => L!Free(r, s)) /\ L!Wrote(r, new)
      /\ req' = [req EXCEPT ![r].pc = "commit"] /\ UNCHANGED <<row, open, overlap>>
  BY DEF L!SoftDeleteTransactionByID
<1>2. req[r].op = "DeleteLoanRecord" /\ k \in Records /\ k \in L!Rows /\ k \notin Txns /\ Txns \subseteq L!Rows
  BY <1>1, Before1 DEF Stage, L!RequestState, L!Rows, LoansSetting
<1>3. /\ DOMAIN new \subseteq {s} /\ DOMAIN new \subseteq Txns
      /\ s \in Txns /\ IsLive(v, s) => s \in DOMAIN new
      /\ \A t \in DOMAIN new : IsLive(v, t) /\ v[t] \in L!Row /\ new[t] = [v[t] EXCEPT !.state = "gone"]
  <2>1. \A t \in Txns : L!Sees(r, t) = v[t] /\ v[t] \in L!Row
    BY <1>2, Before1
  <2>2. \A t \in Txns : L!Live(r, t) <=> IsLive(v, t)
    BY <2>1 DEF L!Live, IsLive
  <2> HIDE DEF v
  <2> QED BY <2>1, <2>2
<1>4. /\ \A t \in DOMAIN new : new[t] \in L!Row /\ new[t].state = "gone" /\ Shrinks(v[t], new[t])
  <2> SUFFICES ASSUME NEW t \in DOMAIN new PROVE new[t] \in L!Row /\ new[t].state = "gone" /\ Shrinks(v[t], new[t])
    OBVIOUS
  <2> DEFINE a == v[t]
  <2>1. a \in L!Row /\ a.state = "live" /\ new[t] = [a EXCEPT !.state = "gone"]
    BY <1>3 DEF IsLive
  <2> HIDE DEF a
  <2>2. new[t] \in L!Row /\ new[t].state = "gone" /\ Shrinks(a, new[t])
    BY <2>1 DEF L!Row, Shrinks
  <2> QED BY <2>2 DEF a
<1>5. req' = [req EXCEPT ![r] = q]
  BY <1>1, Before1
<1>6. /\ q \in L!RequestState /\ q.pc = "commit" /\ q.op = req[r].op /\ Busy(req[r]) /\ q.id = k /\ q.seen = s
  BY <1>1, Before1 DEF L!RequestState, L!Pcs, Busy
<1>7. Stage(q)
  BY <1>2, <1>6 DEF Stage
<1> HIDE DEF new, q, k, s
<1>8. DOMAIN new \subseteq L!Rows /\ (\A x \in DOMAIN new : new[x] \in L!Row) /\ \A x \in DOMAIN new : L!Free(r, x)
  BY <1>1, <1>2, <1>3, <1>4
<1>9. /\ DOMAIN d = DOMAIN dirty[r] \cup DOMAIN new /\ DOMAIN d \subseteq L!Rows
      /\ \A x \in DOMAIN new : d[x] = new[x]
      /\ \A x \in DOMAIN dirty[r] \ DOMAIN new : d[x] = dirty[r][x]
      /\ \A x \in L!Rows : View(row, d)[x] = IF x \in DOMAIN new THEN new[x] ELSE v[x]
  BY <1>1, <1>8, WroteIs
<1> HIDE DEF v
<1>10. ASSUME ~overlap PROVE LocalRight(row, d, q) /\ (row[Loan].state = "free" => q.op = "CreateLoan")
  <2> HIDE DEF d
  <2>1. /\ UnbookRight(row, dirty[r], req[r]) /\ Before(row, dirty, req)
        /\ Holds(dirty[r], req[r]) /\ SweepRight(row, dirty[r], req[r])
    BY <1>10, CalmIs
  <2>2. /\ DOMAIN dirty[r] = {k} /\ dirty[r][k] = [row[k] EXCEPT !.state = "gone"] /\ row[k].state # "free"
        /\ \A t \in Txns : IsLive(row, t) /\ row[t].owner = k => t = s
        /\ s \in Txns => row[s].state # "free" /\ row[s].owner = k
    BY <1>1, <1>2, <2>1 DEF UnbookRight, k, s
  <2>3. \A t \in Txns : v[t] = row[t]
    BY <1>2, <2>2, Before1, ViewIs DEF v
  <2>4. /\ DOMAIN d \subseteq {k, s} /\ k \in DOMAIN d /\ d[k] = [row[k] EXCEPT !.state = "gone"] /\ k \notin DOMAIN new
        /\ \A t \in DOMAIN new : t = s /\ d[t] = [row[t] EXCEPT !.state = "gone"] /\ s \in Txns
    BY <1>2, <1>3, <1>9, <2>2, <2>3
  <2>5. s \in Txns => ~IsLive(View(row, d), s)
    <3>1. CASE s \in DOMAIN new
      BY <1>2, <1>3, <1>4, <1>9, <3>1 DEF IsLive
    <3>2. CASE s \notin DOMAIN new
      BY <1>2, <1>3, <1>9, <3>2 DEF IsLive
    <3> QED BY <3>1, <3>2
  <2>6. UnbookRight(row, d, q)
    BY <1>2, <1>3, <1>6, <1>9, <2>2, <2>4, <2>5 DEF UnbookRight
  <2>7. \A x \in DOMAIN d : Shrinks(row[x], d[x]) /\ d[x].state = "gone"
    <3>1. Shrinks(row[k], d[k]) /\ d[k].state = "gone"
      BY <1>2, <2>2, <2>4, Before1 DEF Shrinks, L!Row
    <3>2. ASSUME NEW t \in DOMAIN new PROVE Shrinks(row[t], d[t]) /\ d[t].state = "gone"
      BY <1>3, <1>4, <1>9, <2>3, <3>2
    <3> QED BY <1>9, <2>2, <3>1, <3>2
  <2>8. LocalRight(row, d, q)
    BY <1>2, <1>6, <2>4, <2>6, <2>7 DEF LocalRight, Holds, EditRight, EachRight, SweepRight, Lockers, Waiting, Deleters
  <2>9. row[Loan].state # "free"
    BY <1>2, <2>1, <2>2 DEF Before
  <2> QED BY <2>8, <2>9
<1> QED BY <1>1, <1>5, <1>6, <1>7, <1>8, <1>10, WriteStep

\* DeleteAccount takes the account's row.
LEMMA CloseAccountStep == ASSUME LoansInv, NEW r \in Requests, L!CloseAccount(r) PROVE LoansInv'
<1> DEFINE q == [req[r] EXCEPT !.pc = "account txns"]
<1>1. /\ req[r].pc = "close" /\ req' = [req EXCEPT ![r].pc = "account txns"] /\ UNCHANGED <<row, open, dirty, overlap>>
  BY DEF L!CloseAccount
<1>2. req[r].op = "DeleteAccount" /\ Busy(req[r]) /\ req' = [req EXCEPT ![r] = q]
  BY <1>1, Before1 DEF Stage, Busy
<1>3. q \in L!RequestState /\ q.pc = "account txns" /\ q.op = req[r].op /\ q.todo = req[r].todo
  BY Before1 DEF L!RequestState, L!Pcs
<1>4. Stage(q)
  BY <1>2, <1>3 DEF Stage
<1> HIDE DEF q
<1>5. ASSUME ~overlap PROVE LocalRight(row, dirty[r], q)
  <2>1. DOMAIN dirty[r] = {} /\ q.todo = {}
    BY <1>1, <1>3, <1>5, CalmIs DEF Holds, Waiting
  <2> QED BY <1>2, <1>3, <2>1 DEF LocalRight, Holds, EditRight, EachRight, UnbookRight, SweepRight, Lockers, Waiting
<1>6. ASSUME ~overlap PROVE /\ \A p \in Requests \ {r} : DOMAIN dirty[p] \cap DOMAIN dirty[r] = {}
                            /\ row[Loan].state = "free" /\ DOMAIN dirty[r] # {} => q.op = "CreateLoan"
  BY <1>3, <1>6, CalmIs DEF Before
<1>7. DOMAIN dirty' = Requests /\ dirty' = dirty /\ DOMAIN dirty[r] \subseteq L!Rows
      /\ \A x \in DOMAIN dirty[r] : dirty[r][x] \in L!Row
  BY <1>1, Before1
<1> QED BY <1>1, <1>2, <1>3, <1>4, <1>5, <1>6, <1>7, LocalStep

\* What a sweep finds, in terms of the view
LEMMA MatchingIs ==
  ASSUME LoansSetting, LoansInv, NEW r \in Requests, NEW v \in [L!Rows -> L!Row], v = View(row, dirty[r]),
         NEW at \in L!Sweeps
  PROVE  /\ at = "records" => L!Matching(r, at) = {k \in Records : IsLive(v, k)}
         /\ at \in {"txns", "account txns"} => L!Matching(r, at) = {t \in Txns : IsLive(v, t)}
         /\ at = "account loans" => L!Matching(r, at) = {x \in {Loan} : v[x].booked}
         /\ at = "account records" => L!Matching(r, at) = {k \in Records : v[k].booked}
         /\ L!Matching(r, at) \subseteq L!Rows
         /\ \A x \in L!Matching(r, at) : IsLive(v, x) \/ (v[x].booked /\ at \in {"account loans", "account records"})
<1>1. {Loan} \subseteq L!Rows /\ Records \subseteq L!Rows /\ Txns \subseteq L!Rows
  BY DEF L!Rows
<1>2. \A x \in L!Rows : L!Sees(r, x) = v[x] /\ (L!Live(r, x) <=> IsLive(v, x))
  BY Before1 DEF L!Live, IsLive
<1>3. CASE at = "records"
  BY <1>1, <1>2, <1>3 DEF L!Matching, L!SoftDeleteLoanRecordsByLoan
<1>4. CASE at = "txns"
  BY <1>1, <1>2, <1>4 DEF L!Matching, L!SoftDeleteLoanTransactions
<1>5. CASE at = "account txns"
  BY <1>1, <1>2, <1>5 DEF L!Matching, L!SoftDeleteAccountTransactions
<1>6. CASE at = "account loans"
  BY <1>1, <1>2, <1>6 DEF L!Matching, L!ClearAccountFromLoans
<1>7. CASE at = "account records"
  BY <1>1, <1>2, <1>7 DEF L!Matching, L!ClearAccountFromLoanRecords
<1> QED BY <1>3, <1>4, <1>5, <1>6, <1>7 DEF L!Sweeps

\* Who sweeps
LEMMA SweeperIs ==
  ASSUME LoansInv, NEW r \in Requests, req[r].pc \in L!Sweeps
  PROVE  /\ Busy(req[r])
         /\ req[r].pc \in {"records", "txns"} => req[r].op = "DeleteLoan"
         /\ req[r].pc \in {"account txns", "account loans", "account records"} => req[r].op = "DeleteAccount"
         /\ req[r].op \in {"DeleteLoan", "DeleteAccount"}
         /\ req[r].pc \in {"records", "txns", "account txns", "account loans", "account records"}
         /\ req[r].pc = "records" => L!AfterSweep(req[r].pc) = "txns"
         /\ req[r].pc = "account txns" => L!AfterSweep(req[r].pc) = "account loans"
         /\ req[r].pc = "account loans" => L!AfterSweep(req[r].pc) = "account records"
         /\ req[r].pc \in {"txns", "account records"} => L!AfterSweep(req[r].pc) = "commit"
<1>1. req[r].pc \in {"records", "txns", "account txns", "account loans", "account records"} /\ Stage(req[r])
  BY Before1 DEF L!Sweeps
<1>2. /\ Busy(req[r])
      /\ req[r].pc \in {"records", "txns"} => req[r].op = "DeleteLoan"
      /\ req[r].pc \in {"account txns", "account loans", "account records"} => req[r].op = "DeleteAccount"
  BY <1>1 DEF Stage, Busy
<1> QED BY <1>1, <1>2 DEF L!AfterSweep

\* The rows to sweep are found.
LEMMA FindRowsStep == ASSUME LoansSetting, LoansInv, NEW r \in Requests, L!FindRows(r) PROVE LoansInv'
<1> DEFINE found == L!Matching(r, req[r].pc)
           q == [req[r] EXCEPT !.todo = found, !.pc = IF found = {} THEN L!AfterSweep(req[r].pc) ELSE req[r].pc]
           v == View(row, dirty[r])
<1>1. /\ req[r].pc \in L!Sweeps /\ req[r].todo = {}
      /\ req' = [req EXCEPT ![r] = q] /\ UNCHANGED <<row, open, dirty, overlap>>
  BY Before1 DEF L!FindRows
<1>2. v \in [L!Rows -> L!Row]
  BY Before1
<1>3. /\ found \subseteq L!Rows
      /\ req[r].pc \in {"txns", "account txns"} => found = {t \in Txns : IsLive(v, t)}
      /\ req[r].pc = "account loans" => found = {x \in {Loan} : v[x].booked}
      /\ req[r].pc = "account records" => found = {k \in Records : v[k].booked}
  BY <1>1, <1>2, MatchingIs
<1>4. L!AfterSweep(req[r].pc) \in L!Pcs
  BY <1>1, SweeperIs DEF L!Pcs
<1> HIDE DEF found, v
<1>5. /\ q \in L!RequestState /\ q.op = req[r].op /\ q.todo = found
      /\ q.pc = IF found = {} THEN L!AfterSweep(req[r].pc) ELSE req[r].pc
  BY <1>3, <1>4, Before1, ZenonT(40) DEF L!RequestState
<1> HIDE DEF q
<1>6. Stage(q)
  BY <1>1, <1>5, SweeperIs, Before1, ZenonT(40) DEF Stage
<1>7. ASSUME ~overlap PROVE LocalRight(row, dirty[r], q)
  <2>1. Holds(dirty[r], req[r]) /\ SweepRight(row, dirty[r], req[r])
    BY <1>7, CalmIs
  <2>2. q.pc \in {"records", "txns", "account txns", "account loans", "account records", "commit"}
    BY <1>1, <1>5, SweeperIs
  <2>3. Holds(dirty[r], q)
    BY <1>1, <1>5, <2>1, <2>2, SweeperIs DEF Holds, Waiting
  <2>4. EditRight(row, dirty[r], q) /\ EachRight(row, dirty[r], q) /\ UnbookRight(row, dirty[r], q)
    BY <1>1, <1>5, <2>2, SweeperIs DEF EditRight, EachRight, UnbookRight, Deleters
  <2>5. SweepRight(row, dirty[r], q)
    <3>1. /\ \A x \in DOMAIN dirty[r] : Shrinks(row[x], dirty[r][x])
          /\ req[r].op = "DeleteLoan" => v[Loan].state = "gone"
      BY <1>1, <2>1, SweeperIs DEF SweepRight, Deleters, v
    <3>2. CASE req[r].pc \in {"records", "txns"}
      BY <1>1, <1>3, <1>5, <3>1, <3>2, SweeperIs DEF SweepRight, NoBooking, v
    <3>3. CASE req[r].pc = "account txns"
      BY <1>1, <1>3, <1>5, <3>1, <3>3, SweeperIs DEF SweepRight, NoBooking, v
    <3>4. CASE req[r].pc = "account loans"
      BY <1>1, <1>3, <1>5, <2>1, <3>1, <3>4, SweeperIs DEF SweepRight, v
    <3>5. CASE req[r].pc = "account records"
      BY <1>1, <1>3, <1>5, <2>1, <3>1, <3>5, SweeperIs DEF SweepRight, v
    <3> QED BY <1>1, <3>2, <3>3, <3>4, <3>5, SweeperIs DEF L!Sweeps
  <2> QED BY <2>3, <2>4, <2>5 DEF LocalRight
<1>8. ASSUME ~overlap PROVE /\ \A p \in Requests \ {r} : DOMAIN dirty[p] \cap DOMAIN dirty[r] = {}
                            /\ row[Loan].state = "free" /\ DOMAIN dirty[r] # {} => q.op = "CreateLoan"
  BY <1>5, <1>8, CalmIs DEF Before
<1>9. DOMAIN dirty' = Requests /\ dirty' = dirty /\ DOMAIN dirty[r] \subseteq L!Rows
      /\ \A x \in DOMAIN dirty[r] : dirty[r][x] \in L!Row
  BY <1>1, Before1
<1> QED BY <1>1, <1>5, <1>6, <1>7, <1>8, <1>9, SweeperIs, LocalStep

\* One deletion after another is a deletion.
LEMMA ShrinksOn ==
  ASSUME NEW a \in L!Row, NEW b \in L!Row, NEW c \in L!Row, Shrinks(a, b), Shrinks(b, c) PROVE Shrinks(a, c)
BY DEF Shrinks, L!Row

\* What a sweep leaves of a row
LEMMA SweptIs ==
  ASSUME NEW a \in L!Row, NEW b, NEW at,
         b = IF at \in {"account loans", "account records"}
             THEN [a EXCEPT !.booked = FALSE, !.txn = IF at = "account records" THEN None ELSE @]
             ELSE [a EXCEPT !.state = "gone"]
  PROVE  /\ b \in L!Row /\ (a.state # "free" => Shrinks(a, b))
         /\ IF at \in {"account loans", "account records"} THEN ~b.booked ELSE b.state = "gone"
<1>1. CASE at = "account loans"
  <2>1. b = [a EXCEPT !.booked = FALSE]
    BY <1>1 DEF L!Row
  <2> QED BY <1>1, <2>1 DEF L!Row, Shrinks
<1>2. CASE at = "account records"
  <2>1. b = [a EXCEPT !.booked = FALSE, !.txn = None]
    BY <1>2
  <2> QED BY <1>2, <2>1 DEF L!Row, Shrinks
<1>3. CASE at \notin {"account loans", "account records"}
  <2>1. b = [a EXCEPT !.state = "gone"]
    BY <1>3
  <2> QED BY <1>3, <2>1 DEF L!Row, Shrinks
<1> QED BY <1>1, <1>2, <1>3

\* The rows found are deleted or cleared.
LEMMA SweepStep == ASSUME LoansSetting, LoansInv, NEW r \in Requests, L!Sweep(r) PROVE LoansInv'
<1> DEFINE at == req[r].pc
           todo == req[r].todo
           v == View(row, dirty[r])
           new == [x \in todo \cap L!Matching(r, at) |-> L!Swept(r, at, x)]
           q == [req[r] EXCEPT !.todo = {}, !.pc = L!AfterSweep(req[r].pc)]
           d == dirty'[r]
<1>1. /\ at \in L!Sweeps /\ todo # {} /\ L!Wrote(r, new) /\ \A x \in todo : L!Free(r, x)
      /\ req' = [req EXCEPT ![r] = q] /\ UNCHANGED <<row, open, overlap>>
  BY Before1 DEF L!Sweep
<1>2. /\ v \in [L!Rows -> L!Row] /\ \A x \in L!Rows : L!Sees(r, x) = v[x]
  BY Before1
<1>3. /\ at = "records" => L!Matching(r, at) = {k \in Records : IsLive(v, k)}
      /\ at \in {"txns", "account txns"} => L!Matching(r, at) = {t \in Txns : IsLive(v, t)}
      /\ at = "account loans" => L!Matching(r, at) = {x \in {Loan} : v[x].booked}
      /\ at = "account records" => L!Matching(r, at) = {k \in Records : v[k].booked}
      /\ L!Matching(r, at) \subseteq L!Rows
      /\ \A x \in L!Matching(r, at) : IsLive(v, x) \/ (v[x].booked /\ at \in {"account loans", "account records"})
  <2>1. v = View(row, dirty[r]) /\ at \in L!Sweeps
    BY <1>1
  <2> HIDE DEF v, at
  <2> QED BY <1>2, <2>1, MatchingIs
<1>4. L!AfterSweep(at) \in L!Pcs
  BY <1>1, SweeperIs DEF L!Pcs
<1>5. /\ q \in L!RequestState /\ q.op = req[r].op /\ q.todo = {} /\ q.pc = L!AfterSweep(at)
  BY <1>4, Before1 DEF L!RequestState
<1>6. Stage(q)
  BY <1>1, <1>5, SweeperIs, Before1 DEF Stage
<1>7. /\ DOMAIN new = todo \cap L!Matching(r, at) /\ DOMAIN new \subseteq L!Rows
      /\ \A x \in DOMAIN new :
           new[x] = IF at \in {"account loans", "account records"}
                    THEN [v[x] EXCEPT !.booked = FALSE, !.txn = IF at = "account records" THEN None ELSE @]
                    ELSE [v[x] EXCEPT !.state = "gone"]
  BY <1>2, <1>3 DEF L!Swept
<1> HIDE DEF new, q, v, at, todo
<1>8. ASSUME NEW x \in DOMAIN new
      PROVE  /\ new[x] \in L!Row /\ (v[x].state # "free" => Shrinks(v[x], new[x]))
             /\ IF at \in {"account loans", "account records"} THEN ~new[x].booked ELSE new[x].state = "gone"
  <2> DEFINE a == v[x]
  <2>1. a \in L!Row /\ new[x] = IF at \in {"account loans", "account records"}
                    THEN [a EXCEPT !.booked = FALSE, !.txn = IF at = "account records" THEN None ELSE @]
                    ELSE [a EXCEPT !.state = "gone"]
    BY <1>2, <1>7
  <2> HIDE DEF a
  <2>2. /\ new[x] \in L!Row /\ (a.state # "free" => Shrinks(a, new[x]))
        /\ IF at \in {"account loans", "account records"} THEN ~new[x].booked ELSE new[x].state = "gone"
    BY <2>1, SweptIs
  <2> QED BY <2>2 DEF a
<1>9. \A x \in DOMAIN new : new[x] \in L!Row
  BY <1>8
<1>10. \A x \in DOMAIN new : L!Free(r, x)
  BY <1>1, <1>7
<1>11. /\ DOMAIN d = DOMAIN dirty[r] \cup DOMAIN new
       /\ \A x \in DOMAIN new : d[x] = new[x]
       /\ \A x \in DOMAIN dirty[r] \ DOMAIN new : d[x] = dirty[r][x]
       /\ View(row, d) \in [L!Rows -> L!Row]
       /\ \A x \in L!Rows : View(row, d)[x] = IF x \in DOMAIN new THEN new[x] ELSE v[x]
  BY <1>1, <1>7, <1>9, WroteIs DEF v
<1>12. ASSUME ~overlap PROVE LocalRight(row, d, q) /\ (row[Loan].state = "free" /\ DOMAIN d # {} => q.op = "CreateLoan")
  <2> DEFINE w == View(row, d)
  <2> HIDE DEF d, w
  <2>1. /\ Good(row) /\ Before(row, dirty, req) /\ Holds(dirty[r], req[r]) /\ SweepRight(row, dirty[r], req[r])
    BY <1>12, CalmIs
  <2>2. /\ \A x \in L!Rows : v[x] = IF x \in DOMAIN dirty[r] THEN dirty[r][x] ELSE row[x]
        /\ row \in [L!Rows -> L!Row] /\ \A x \in DOMAIN dirty[r] : dirty[r][x] \in L!Row
        /\ DOMAIN dirty[r] \subseteq L!Rows
    BY Before1, ViewIs DEF v
  <2>3. \A x \in L!Rows : v[x].booked => v[x].state # "free"
    BY <2>1, <2>2 DEF Holds, Good, Right, Empty
  <2>4. \A x \in DOMAIN new : /\ new[x] \in L!Row /\ Shrinks(v[x], new[x]) /\ v[x].state # "free"
                              /\ IF at \in {"account loans", "account records"} THEN ~new[x].booked ELSE new[x].state = "gone"
    <3> SUFFICES ASSUME NEW x \in DOMAIN new PROVE v[x].state # "free"
      BY <1>8
    <3> QED BY <1>3, <1>7, <2>3 DEF IsLive
  <2>5. \A x \in DOMAIN dirty[r] : Shrinks(row[x], dirty[r][x])
    BY <1>1, <2>1, SweeperIs DEF SweepRight, Deleters, at
  <2>6. \A x \in DOMAIN d : Shrinks(row[x], d[x])
    <3> SUFFICES ASSUME NEW x \in DOMAIN new PROVE Shrinks(row[x], new[x])
      BY <1>11, <2>5
    <3>1. v[x] \in L!Row /\ row[x] \in L!Row /\ new[x] \in L!Row /\ Shrinks(v[x], new[x])
      BY <1>2, <1>7, <2>2, <2>4
    <3>2. CASE x \in DOMAIN dirty[r]
      <4>1. Shrinks(row[x], v[x])
        BY <1>7, <2>2, <2>5, <3>2
      <4> QED BY <3>1, <4>1, ShrinksOn
    <3>3. CASE x \notin DOMAIN dirty[r]
      BY <1>7, <2>2, <3>1, <3>3
    <3> QED BY <3>2, <3>3
  <2>7. \A x \in DOMAIN d : d[x].state # "free"
    <3>1. \A x \in DOMAIN new : new[x].state # "free"
      BY <2>4 DEF Shrinks
    <3> QED BY <1>11, <2>1, <3>1 DEF Holds
  <2>8. Holds(d, q)
    BY <1>1, <1>5, <1>11, <2>1, <2>7, SweeperIs DEF Holds, Waiting, at
  <2>9. EditRight(row, d, q) /\ EachRight(row, d, q) /\ UnbookRight(row, d, q)
    BY <1>1, <1>5, SweeperIs DEF EditRight, EachRight, UnbookRight, Deleters, at
  <2>10. \A x \in L!Rows : w[x] = IF x \in DOMAIN new THEN new[x] ELSE v[x]
    BY <1>11 DEF w
  <2>11. Txns \subseteq L!Rows /\ Records \subseteq L!Rows /\ Loan \in L!Rows /\ Loan \notin Records /\ Loan \notin Txns
         /\ Records \cap Txns = {}
    BY DEF L!Rows, LoansSetting
  <2>12. SweepRight(row, d, q)
    <3>1. CASE at = "records"
      <4>1. v[Loan].state = "gone" /\ Loan \notin DOMAIN new
        BY <1>1, <1>3, <1>7, <2>1, <2>11, <3>1, SweeperIs DEF SweepRight, v, at
      <4>2. w[Loan].state = "gone"
        BY <2>10, <2>11, <4>1
      <4> QED BY <1>1, <1>5, <2>6, <3>1, <4>2, SweeperIs DEF SweepRight, w, at
    <3>2. CASE at \in {"txns", "account txns"}
      <4>1. \A t \in Txns \ todo : ~IsLive(v, t)
        BY <1>1, <2>1, <3>2 DEF SweepRight, v, at, todo
      <4>2. \A t \in DOMAIN new : new[t].state = "gone"
        BY <2>4, <3>2
      <4>3. NoBooking(w)
        <5> SUFFICES ASSUME NEW t \in Txns PROVE ~IsLive(w, t)
          BY DEF NoBooking
        <5>1. CASE t \in DOMAIN new
          BY <2>10, <2>11, <4>2, <5>1 DEF IsLive
        <5>2. CASE t \notin DOMAIN new
          <6>1. ~IsLive(v, t)
            BY <1>3, <1>7, <3>2, <4>1, <5>2
          <6> QED BY <2>10, <2>11, <5>2, <6>1 DEF IsLive
        <5> QED BY <5>1, <5>2
      <4>4. req[r].op = "DeleteLoan" => w[Loan].state = "gone"
        <5>1. req[r].op = "DeleteLoan" => v[Loan].state = "gone" /\ Loan \notin DOMAIN new
          BY <1>1, <1>3, <1>7, <2>1, <2>11, <3>2, SweeperIs DEF SweepRight, v, at
        <5> QED BY <2>10, <2>11, <5>1
      <4> QED BY <1>1, <1>5, <2>6, <3>2, <4>3, <4>4, SweeperIs DEF SweepRight, w, at
    <3>3. CASE at \in {"account loans", "account records"}
      <4>1. NoBooking(v) /\ req[r].op = "DeleteAccount"
        BY <1>1, <2>1, <3>3, SweeperIs DEF SweepRight, v, at
      <4>2. NoBooking(w)
        BY <1>3, <1>7, <2>10, <2>11, <3>3, <4>1 DEF NoBooking, IsLive
      <4>3. ~w[Loan].booked
        <5>1. at = "account loans" => (v[Loan].booked => Loan \in DOMAIN new)
          BY <1>1, <1>3, <1>7, <2>1 DEF SweepRight, at, todo
        <5>2. at = "account records" => ~v[Loan].booked
          BY <2>1, <4>1 DEF SweepRight, v, at
        <5> QED BY <2>4, <2>10, <2>11, <3>3, <5>1, <5>2
      <4>4. at = "account records" => \A k \in Records : ~w[k].booked
        <5>1. at = "account records" => \A k \in Records : v[k].booked => k \in DOMAIN new
          BY <1>1, <1>3, <1>7, <2>1 DEF SweepRight, v, at, todo
        <5> QED BY <2>4, <2>10, <2>11, <3>3, <5>1
      <4> QED BY <1>1, <1>5, <2>6, <3>3, <4>1, <4>2, <4>3, <4>4, SweeperIs DEF SweepRight, w, at
    <3> QED BY <1>1, <3>1, <3>2, <3>3 DEF L!Sweeps
  <2>13. row[Loan].state = "free" => DOMAIN d = {}
    <3> SUFFICES ASSUME row[Loan].state = "free" PROVE DOMAIN d = {}
      OBVIOUS
    <3>1. DOMAIN dirty[r] = {} /\ \A x \in L!Rows : row[x].state = "free"
      BY <1>1, <2>1, SweeperIs DEF Before, at
    <3>2. \A x \in L!Rows : v[x].state = "free"
      BY <2>2, <3>1
    <3> QED BY <1>7, <1>11, <2>4, <3>1, <3>2
  <2> QED BY <2>8, <2>9, <2>12, <2>13 DEF LocalRight
<1> QED BY <1>1, <1>5, <1>6, <1>7, <1>9, <1>10, <1>12, SweeperIs, WriteStep DEF at

\* A record is linked to the booking that was rewritten or made for it.
LEMMA LinkStep == ASSUME LoansSetting, LoansInv, NEW r \in Requests, L!SetLoanRecordTransaction(r) PROVE LoansInv'
<1> DEFINE k == req[r].id
           s == req[r].seen
           v == View(row, dirty[r])
           new == [x \in {k} |-> [L!Sees(r, x) EXCEPT !.txn = s]]
           q == [req[r] EXCEPT !.seen = None, !.todo = req[r].todo \ {k}]
           d == dirty'[r]
<1>1. /\ req[r].pc = "each" /\ s # None /\ L!Free(r, k) /\ L!Wrote(r, new)
      /\ req' = [req EXCEPT ![r] = q] /\ UNCHANGED <<row, open, overlap>>
  BY Before1 DEF L!SetLoanRecordTransaction
<1>2. /\ req[r].op = "UpdateLoan" /\ Busy(req[r]) /\ k \in Records /\ k \in L!Rows /\ s \in Txns /\ k # Loan /\ Loan \in L!Rows
  BY <1>1, Before1, ZenonT(40) DEF Stage, Busy, L!RequestState, L!Rows, LoansSetting
<1>3. /\ v \in [L!Rows -> L!Row] /\ DOMAIN new = {k} /\ new[k] = [v[k] EXCEPT !.txn = s]
  BY <1>2, Before1
<1>4. /\ q \in L!RequestState /\ q.op = req[r].op /\ q.pc = "each" /\ q.seen = None /\ q.todo = req[r].todo \ {k}
  BY <1>1, Before1 DEF L!RequestState
<1>5. Stage(q)
  BY <1>1, <1>2, <1>4, Before1 DEF Stage
<1> HIDE DEF new, q, v, k, s
<1>6. new[k] \in L!Row /\ new[k].state = v[k].state
  <2> DEFINE a == v[k]
  <2>1. a \in L!Row /\ new[k] = [a EXCEPT !.txn = s]
    BY <1>2, <1>3
  <2> HIDE DEF a
  <2>2. new[k] \in L!Row /\ new[k].state = a.state
    BY <1>2, <2>1 DEF L!Row
  <2> QED BY <2>2 DEF a
<1>7. DOMAIN new \subseteq L!Rows /\ (\A x \in DOMAIN new : new[x] \in L!Row) /\ \A x \in DOMAIN new : L!Free(r, x)
  BY <1>1, <1>2, <1>3, <1>6
<1>8. /\ DOMAIN d = DOMAIN dirty[r] \cup DOMAIN new
      /\ \A x \in DOMAIN new : d[x] = new[x]
      /\ \A x \in DOMAIN dirty[r] \ DOMAIN new : d[x] = dirty[r][x]
      /\ View(row, d) \in [L!Rows -> L!Row]
      /\ \A x \in L!Rows : View(row, d)[x] = IF x \in DOMAIN new THEN new[x] ELSE v[x]
  BY <1>1, <1>7, WroteIs DEF v
<1>9. ASSUME ~overlap PROVE LocalRight(row, d, q) /\ (row[Loan].state = "free" => q.op = "CreateLoan")
  <2> DEFINE w == View(row, d)
  <2> HIDE DEF d, w
  <2>1. Holds(dirty[r], req[r]) /\ EachRight(row, dirty[r], req[r]) /\ Before(row, dirty, req)
    BY <1>9, CalmIs
  <2>2. /\ req[r].todo \subseteq Records /\ req[r].todo \cap DOMAIN dirty[r] = {} /\ k \in req[r].todo
        /\ \A x \in req[r].todo : IsLive(row, x) /\ row[x].booked
        /\ IsLive(v, Loan) /\ Right(v, req[r].todo, {k}) /\ Says(v, s, k)
    BY <1>1, <2>1 DEF EachRight, v, k, s
  <2>3. v[k] = row[k] /\ IsLive(row, k) /\ IsLive(v, k)
    BY <1>2, <2>2, Before1, ViewIs DEF v, IsLive
  <2>4. w \in [L!Rows -> L!Row] /\ w[k] = [v[k] EXCEPT !.txn = s] /\ \A y \in L!Rows : y # k => w[y] = v[y]
    BY <1>2, <1>3, <1>8 DEF w
  <2>5. Right(w, req[r].todo \ {k}, {})
    BY <1>2, <1>3, <2>2, <2>3, <2>4, LinkRight
  <2>6. IsLive(w, Loan)
    BY <1>2, <2>2, <2>4 DEF IsLive
  <2>7. EachRight(row, d, q)
    BY <1>3, <1>4, <1>8, <2>2, <2>5, <2>6 DEF EachRight, w
  <2>8. Holds(d, q)
    <3>1. \A x \in DOMAIN d : d[x].state # "free"
      BY <1>3, <1>6, <1>8, <2>1, <2>3 DEF Holds, IsLive
    <3>2. Loan \in DOMAIN d
      BY <1>1, <1>2, <1>8, <2>1 DEF Holds, Waiting, Lockers
    <3> QED BY <1>4, <3>1, <3>2 DEF Holds, Waiting
  <2>9. EditRight(row, d, q) /\ UnbookRight(row, d, q) /\ SweepRight(row, d, q)
    BY <1>2, <1>4 DEF EditRight, UnbookRight, SweepRight, Deleters
  <2>10. row[Loan].state # "free"
    BY <1>2, <2>1, <2>3 DEF Before, IsLive
  <2> QED BY <2>7, <2>8, <2>9, <2>10 DEF LocalRight
<1> QED BY <1>1, <1>2, <1>4, <1>5, <1>7, <1>9, WriteStep

\* The live bookings of a loan or a record
BookingsOf(f, x) == {t \in Txns : IsLive(f, t) /\ f[t].owner = x}

\* What syncBooking writes for x, whose booking was in old: that one, removed or rewritten, or a new one
Synced(r, x, booked, terms, old, sync) ==
    /\ DOMAIN sync.txns \subseteq Txns /\ sync.id \in Txns \cup {None}
    /\ \A t \in DOMAIN sync.txns : sync.txns[t] \in L!Row /\ sync.txns[t].state # "free" /\ L!Free(r, t)
    /\ ~booked => /\ DOMAIN sync.txns = old /\ sync.id = None
                  /\ \A t \in old : sync.txns[t].state = "gone" /\ sync.txns[t].owner = L!Sees(r, t).owner
    /\ booked => /\ sync.id \in Txns /\ DOMAIN sync.txns = {sync.id}
                 /\ sync.txns[sync.id].state = "live" /\ sync.txns[sync.id].terms = terms
                 /\ \/ sync.id \in old /\ sync.txns[sync.id].owner = L!Sees(r, sync.id).owner
                    \/ old = {} /\ sync.txns[sync.id].owner = x /\ row[sync.id].state = "free"
                       /\ \A q \in Requests : sync.id \notin DOMAIN dirty[q]

\* That is what it writes.
LEMMA SyncIs ==
  ASSUME LoansSetting, LoansInv, NEW r \in Requests, NEW x \in {Loan} \cup Records, NEW booked \in BOOLEAN,
         NEW txn \in Txns \cup {None}, NEW terms \in {0, 1} \X {0, 1}, NEW old, old = L!Existing(r, x, txn),
         L!CanSync(r, x, booked, txn), NEW sync, sync = L!SyncBooking(r, x, booked, txn, terms)
  PROVE  Synced(r, x, booked, terms, old, sync)
<1>1. /\ old \subseteq Txns /\ \A t \in old : L!Sees(r, t) \in L!Row /\ L!Sees(r, t).state = "live" /\ L!Free(r, t)
  <2>1. old \subseteq Txns /\ \A t \in old : L!Live(r, t) /\ L!Free(r, t)
    BY DEF L!Existing, L!GetLoanTransaction, L!GetTransaction, L!CanSync
  <2>2. Txns \subseteq L!Rows
    BY DEF L!Rows
  <2> QED BY <2>1, <2>2, Before1 DEF L!Live
<1>2. CASE ~booked
  <2>1. sync = [txns |-> [u \in old |-> [L!Sees(r, u) EXCEPT !.state = "gone"]], id |-> None]
    BY <1>2 DEF L!SyncBooking
  <2>2. ASSUME NEW t \in old
        PROVE  /\ sync.txns[t] \in L!Row /\ sync.txns[t].state = "gone" /\ sync.txns[t].owner = L!Sees(r, t).owner
    <3> DEFINE a == L!Sees(r, t)
    <3>1. a \in L!Row /\ sync.txns[t] = [a EXCEPT !.state = "gone"]
      BY <1>1, <2>1, <2>2
    <3> HIDE DEF a
    <3>2. /\ sync.txns[t] \in L!Row /\ sync.txns[t].state = "gone" /\ sync.txns[t].owner = a.owner
      BY <3>1 DEF L!Row
    <3> QED BY <3>2 DEF a
  <2>3. DOMAIN sync.txns = old /\ sync.id = None
    BY <2>1
  <2> QED BY <1>1, <1>2, <2>2, <2>3 DEF Synced
<1>3. CASE booked
  <2> DEFINE t == CHOOSE u \in IF old # {} THEN old ELSE L!NewTxn(r) : TRUE
             b == IF t \in old THEN L!LoanBookingUpdate(L!Sees(r, t), terms) ELSE L!CreateTransaction(x, terms)
  <2>1. old = {} => L!NewTxn(r) # {}
    BY <1>3 DEF L!CanSync
  <2>2. IF old # {} THEN t \in old ELSE t \in L!NewTxn(r)
    BY <2>1
  <2>3. sync = [txns |-> [u \in {t} |-> IF u \in old THEN L!LoanBookingUpdate(L!Sees(r, u), terms)
                                        ELSE L!CreateTransaction(x, terms)], id |-> t]
    BY <1>3 DEF L!SyncBooking
  <2>4. sync.id = t /\ DOMAIN sync.txns = {t} /\ sync.txns[t] = b
    BY <2>3
  <2> HIDE DEF t, b
  <2>5. t \in Txns /\ (t \in old \/ (old = {} /\ row[t].state = "free" /\ \A q \in Requests : t \notin DOMAIN dirty[q]))
    BY <1>1, <2>2 DEF L!NewTxn
  <2>6. CASE t \in old
    <3> DEFINE a == L!Sees(r, t)
    <3>1. a \in L!Row /\ a.state = "live" /\ b = [a EXCEPT !.booked = TRUE, !.terms = terms]
      BY <1>1, <2>6 DEF b, L!LoanBookingUpdate
    <3> HIDE DEF a
    <3>2. b \in L!Row /\ b.state = "live" /\ b.terms = terms /\ b.owner = a.owner
      BY <3>1 DEF L!Row
    <3>3. b.owner = L!Sees(r, t).owner
      BY <3>2 DEF a
    <3> QED BY <1>1, <1>3, <2>4, <2>5, <2>6, <3>2, <3>3 DEF Synced
  <2>7. CASE t \notin old
    <3>1. b \in L!Row /\ b.state = "live" /\ b.terms = terms /\ b.owner = x
      BY <2>7 DEF b, L!CreateTransaction, L!Row
    <3>2. L!Free(r, t)
      BY <2>5, <2>7 DEF L!Free
    <3> QED BY <1>3, <2>4, <2>5, <2>7, <3>1, <3>2 DEF Synced
  <2> QED BY <2>6, <2>7
<1> QED BY <1>2, <1>3

\* The booking of the loan is looked for by what it books, ...
LEMMA LoanBookingIs ==
  ASSUME LoansInv, NEW r \in Requests, NEW v, v = View(row, dirty[r])
  PROVE  L!Existing(r, Loan, None) = BookingsOf(v, Loan)
<1>1. \A t \in Txns : L!Sees(r, t) = v[t]
  BY Before1 DEF L!Rows
<1> QED BY <1>1 DEF L!Existing, L!GetLoanTransaction, L!Live, IsLive, BookingsOf

\* ... that of a record is the one it names, if that one is still there.
LEMMA RecordBookingIs ==
  ASSUME LoansSetting, LoansInv, NEW r \in Requests, NEW v \in [L!Rows -> L!Row], v = View(row, dirty[r]),
         NEW k \in Records, NEW w, Right(v, w, {})
  PROVE  L!Existing(r, k, v[k].txn) = BookingsOf(v, k)
<1>1. Txns \subseteq L!Rows /\ k # Loan /\ Linked(v, {}) /\ Named(v)
  BY DEF L!Rows, Right, LoansSetting
<1>2. \A t \in Txns : L!Sees(r, t) = v[t] /\ (L!Live(r, t) <=> IsLive(v, t))
  BY <1>1, Before1 DEF L!Live, IsLive
<1> DEFINE txn == v[k].txn
<1> HIDE DEF txn
<1>3. L!Existing(r, k, txn) = {t \in {txn} \cap Txns : IsLive(v, t)}
  BY <1>1, <1>2 DEF L!Existing, L!GetTransaction
<1>4. \A t \in Txns : IsLive(v, t) /\ v[t].owner = k => t = txn
  BY <1>1 DEF Linked, txn
<1>5. txn \in Txns => v[txn].owner = k
  BY <1>1 DEF Named, txn
<1>6. L!Existing(r, k, txn) = BookingsOf(v, k)
  BY <1>3, <1>4, <1>5 DEF BookingsOf
<1> QED BY <1>6 DEF txn

\* g is v with x saved and its booking written: a record's bookings are made when the loan
\* is live, and linked now or later; the loan's leaves those in b to be rewritten.
Savable(v, g, x, booked, terms, sync, a, b, u) ==
    /\ \A t \in DOMAIN sync.txns : g[t] = sync.txns[t]
    /\ \A y \in L!Rows : y # x /\ y \notin DOMAIN sync.txns => g[y] = v[y]
    /\ IsLive(g, x) /\ IsLive(g, Loan) /\ g[x].booked = booked /\ terms = <<g[Loan].terms[1], g[x].terms[2]>>
    /\ x \in Records => /\ IsLive(v, Loan) /\ a \subseteq b
                        /\ booked => x \in u \/ g[x].txn = sync.id
                        /\ g[x].txn \in Txns => (booked /\ g[x].txn = sync.id) \/ g[x].txn = v[x].txn
    /\ x = Loan => \A k \in Records : IsLive(v, k) /\ v[k].booked => k \in b

\* Then what was right stays right, and the booking is x's.
Saved(v, g, x, booked, sync, b, u) ==
    /\ Right(g, b, u)
    /\ booked => Says(g, sync.id, x)
    /\ \A t \in DOMAIN sync.txns : g[t].owner = x
    /\ BookingsOf(v, x) = {} => \A t \in DOMAIN sync.txns : row[t].state = "free"

\* That is so.
LEMMA SavedRight ==
  ASSUME LoansSetting, LoansInv, NEW r \in Requests, NEW v \in [L!Rows -> L!Row], v = View(row, dirty[r]),
         NEW x \in {Loan} \cup Records, NEW booked,
         NEW terms, NEW old, old = BookingsOf(v, x),
         NEW sync, Synced(r, x, booked, terms, old, sync),
         NEW g \in [L!Rows -> L!Row], NEW a, NEW b, NEW u, Right(v, a, {}),
         Savable(v, g, x, booked, terms, sync, a, b, u)
  PROVE  Saved(v, g, x, booked, sync, b, u)
<1> DEFINE t == sync.id
<1>1. /\ Right(v, a, {}) /\ old = {s \in Txns : IsLive(v, s) /\ v[s].owner = x}
      /\ \A s \in DOMAIN sync.txns : g[s] = sync.txns[s]
      /\ \A y \in L!Rows : y # x /\ y \notin DOMAIN sync.txns => g[y] = v[y]
      /\ IsLive(g, x) /\ IsLive(g, Loan) /\ g[x].booked = booked /\ terms = <<g[Loan].terms[1], g[x].terms[2]>>
      /\ x \in Records => /\ IsLive(v, Loan) /\ a \subseteq b
                          /\ booked => x \in u \/ g[x].txn = sync.id
                          /\ g[x].txn \in Txns => (booked /\ g[x].txn = sync.id) \/ g[x].txn = v[x].txn
      /\ x = Loan => \A k \in Records : IsLive(v, k) /\ v[k].booked => k \in b
  BY DEF BookingsOf, Savable
<1>2. /\ Loan \notin Txns /\ Loan \notin Records /\ Records \cap Txns = {} /\ Txns \subseteq L!Rows
  BY DEF LoansSetting, L!Rows
<1>3. \A s \in Txns : L!Sees(r, s) = v[s] /\ (s \in DOMAIN dirty[r] \/ v[s] = row[s])
  BY <1>2, Before1 DEF View
<1>4. /\ DOMAIN sync.txns \subseteq Txns
      /\ ~booked => /\ DOMAIN sync.txns = old
                    /\ \A s \in old : sync.txns[s].state = "gone" /\ sync.txns[s].owner = L!Sees(r, s).owner
      /\ booked => /\ t \in Txns /\ DOMAIN sync.txns = {t}
                   /\ sync.txns[t].state = "live" /\ sync.txns[t].terms = terms
                   /\ \/ t \in old /\ sync.txns[t].owner = L!Sees(r, t).owner
                      \/ old = {} /\ sync.txns[t].owner = x /\ row[t].state = "free"
                         /\ \A q \in Requests : t \notin DOMAIN dirty[q]
  BY DEF Synced
<1> HIDE DEF t
<1>5. booked => /\ t \in Txns /\ IsLive(g, t) /\ g[t].owner = x /\ g[t].terms = <<g[Loan].terms[1], g[x].terms[2]>>
                /\ \/ IsLive(v, t) /\ v[t].owner = x
                   \/ v[t].state = "free" /\ \A s \in Txns : ~(IsLive(v, s) /\ v[s].owner = x)
  BY <1>1, <1>3, <1>4 DEF IsLive
<1>6. ~booked => \A s \in Txns : IsLive(v, s) /\ v[s].owner = x => g[s].state = "gone" /\ g[s].owner = x
  <2> SUFFICES ASSUME ~booked, NEW s \in Txns, IsLive(v, s), v[s].owner = x PROVE g[s].state = "gone" /\ g[s].owner = x
    OBVIOUS
  <2>1. s \in old /\ s \in DOMAIN sync.txns
    BY <1>1, <1>4
  <2> QED BY <1>1, <1>3, <1>4, <2>1
<1>7. \A y \in L!Rows : y # x /\ (booked => y # t) /\ (~booked => ~(y \in Txns /\ IsLive(v, y) /\ v[y].owner = x))
                          => g[y] = v[y]
  BY <1>1, <1>4
<1>8. Right(g, b, u)
  BY <1>1, <1>5, <1>6, <1>7, BookingRight, SMTT(30) DEF t
<1>9. booked => Says(g, sync.id, x)
  BY <1>5 DEF Says, t
<1>10. \A s \in DOMAIN sync.txns : g[s].owner = x
  BY <1>1, <1>4, <1>5, <1>6
<1>11. BookingsOf(v, x) = {} => \A s \in DOMAIN sync.txns : row[s].state = "free"
  BY <1>4
<1> QED BY <1>8, <1>9, <1>10, <1>11 DEF Saved

\* The rows WroteLoan writes for a loan, ...
LoanRows(r, loan) ==
    LET txns == L!SyncBooking(r, Loan, loan.booked, None, loan.terms).txns
    IN  [x \in {Loan} \cup DOMAIN txns |-> IF x = Loan THEN loan ELSE txns[x]]

\* ... and those Save writes for a record
RecordRows(r, k, rec) ==
    LET sync == L!SyncBooking(r, k, rec.booked, rec.txn, L!RecordTerms(r, rec))
    IN  [x \in {k} \cup DOMAIN sync.txns |-> IF x = k THEN [rec EXCEPT !.txn = sync.id] ELSE sync.txns[x]]

\* Terms are pairs.
LEMMA TermsAre ==
  ASSUME NEW p \in {0, 1} \X {0, 1} PROVE p = <<p[1], p[2]>> /\ p[1] \in {0, 1} /\ p[2] \in {0, 1}
OBVIOUS

\* A loan is saved with its booking.
LEMMA LoanSaved ==
  ASSUME LoansSetting, LoansInv, NEW r \in Requests, NEW loan \in L!Row, L!WroteLoan(r, loan),
         NEW new, new = LoanRows(r, loan), NEW v, v = View(row, dirty[r])
  PROVE  /\ L!Wrote(r, new) /\ DOMAIN new \subseteq {Loan} \cup Txns /\ DOMAIN new \subseteq L!Rows
         /\ Loan \in DOMAIN new /\ new[Loan] = loan
         /\ \A x \in DOMAIN new : new[x] \in L!Row
         /\ \A x \in DOMAIN new : x # Loan => new[x].state # "free" /\ L!Free(r, x)
         /\ loan.state = "live" /\ Right(v, {}, {}) => \A b : (\A k \in Records : IsLive(v, k) /\ v[k].booked => k \in b)
                                          => Right(View(row, dirty'[r]), b, {})
<1> DEFINE booked == loan.booked
           terms == loan.terms
           sync == L!SyncBooking(r, Loan, booked, None, terms)
           old == L!Existing(r, Loan, None)
           w == View(row, dirty'[r])
<1>1. /\ Loan \in L!Rows /\ Txns \subseteq L!Rows /\ Loan \notin Txns /\ Loan \notin Records /\ Loan \in {Loan} \cup Records
      /\ booked \in BOOLEAN /\ terms \in {0, 1} \X {0, 1} /\ None \in Txns \cup {None}
  BY DEF L!Rows, L!Row, LoansSetting
<1>2. L!CanSync(r, Loan, booked, None) /\ L!Wrote(r, new)
  BY DEF L!WroteLoan, LoanRows
<1>3. new = [x \in {Loan} \cup DOMAIN sync.txns |-> IF x = Loan THEN loan ELSE sync.txns[x]]
  BY DEF LoanRows
<1> HIDE DEF booked, terms, sync, old
<1>4. Synced(r, Loan, booked, terms, old, sync)
  BY <1>1, <1>2, SyncIs DEF sync, old
<1>5. /\ DOMAIN sync.txns \subseteq Txns
      /\ \A t \in DOMAIN sync.txns : sync.txns[t] \in L!Row /\ sync.txns[t].state # "free" /\ L!Free(r, t)
  BY <1>4 DEF Synced
<1>6. /\ DOMAIN new = {Loan} \cup DOMAIN sync.txns /\ new[Loan] = loan
      /\ \A t \in DOMAIN sync.txns : t # Loan /\ new[t] = sync.txns[t]
  BY <1>1, <1>3, <1>5
<1>7. /\ DOMAIN new \subseteq {Loan} \cup Txns /\ DOMAIN new \subseteq L!Rows /\ Loan \in DOMAIN new
      /\ \A x \in DOMAIN new : new[x] \in L!Row
      /\ \A x \in DOMAIN new : x # Loan => new[x].state # "free" /\ L!Free(r, x)
  BY <1>1, <1>5, <1>6
<1>8. ASSUME loan.state = "live", Right(v, {}, {}), NEW b, \A k \in Records : IsLive(v, k) /\ v[k].booked => k \in b
      PROVE  Right(w, b, {})
  <2>1. v \in [L!Rows -> L!Row] /\ w \in [L!Rows -> L!Row] /\ \A x \in L!Rows : w[x] = IF x \in DOMAIN new THEN new[x] ELSE v[x]
    BY <1>2, <1>7, WroteIs, Before1
  <2> HIDE DEF w
  <2>2. old = BookingsOf(v, Loan)
    BY LoanBookingIs DEF old
  <2>3. /\ \A t \in DOMAIN sync.txns : w[t] = sync.txns[t]
        /\ \A y \in L!Rows : y # Loan /\ y \notin DOMAIN sync.txns => w[y] = v[y]
        /\ w[Loan] = loan
    BY <1>1, <1>5, <1>6, <2>1
  <2>4. IsLive(w, Loan) /\ w[Loan].booked = booked /\ terms = <<w[Loan].terms[1], w[Loan].terms[2]>>
    BY <1>1, <1>8, <2>3, TermsAre DEF IsLive, booked, terms
  <2>5. Savable(v, w, Loan, booked, terms, sync, {}, b, {})
    BY <1>1, <1>8, <2>3, <2>4 DEF Savable
  <2>6. Loan \in {Loan} \cup Records
    OBVIOUS
  <2>7. Saved(v, w, Loan, booked, sync, b, {})
    BY <1>4, <1>8, <2>1, <2>2, <2>5, <2>6, SavedRight
  <2> QED BY <2>7 DEF Saved
<1> QED BY <1>2, <1>6, <1>7, <1>8

\* A record is saved with its booking and linked to it.
LEMMA RecordSaved ==
  ASSUME LoansSetting, LoansInv, NEW r \in Requests, NEW k \in Records, NEW rec \in L!Row, rec.state = "live",
         L!CanSync(r, k, rec.booked, rec.txn), NEW new, new = RecordRows(r, k, rec), L!Wrote(r, new), NEW v, v = View(row, dirty[r])
  PROVE  /\ DOMAIN new \subseteq {k} \cup Txns /\ DOMAIN new \subseteq L!Rows
         /\ k \in DOMAIN new
         /\ \A x \in DOMAIN new : new[x] \in L!Row
         /\ \A x \in DOMAIN new : new[x].state # "free" /\ (x # k => L!Free(r, x))
         /\ Good(v) /\ IsLive(v, Loan) /\ rec.txn = v[k].txn =>
               /\ Good(View(row, dirty'[r]))
               /\ \A t \in DOMAIN new \cap Txns : new[t].owner = k
               /\ BookingsOf(v, k) = {} => \A t \in DOMAIN new \cap Txns : row[t].state = "free"
<1> DEFINE booked == rec.booked
           txn == rec.txn
           terms == L!RecordTerms(r, rec)
           sync == L!SyncBooking(r, k, booked, txn, terms)
           old == L!Existing(r, k, txn)
           w == View(row, dirty'[r])
<1>1. /\ Loan \in L!Rows /\ Txns \subseteq L!Rows /\ Loan \notin Txns /\ Loan \notin Records /\ Records \cap Txns = {}
      /\ k \in L!Rows /\ k \in {Loan} \cup Records /\ k # Loan /\ k \notin Txns
      /\ booked \in BOOLEAN /\ txn \in Txns \cup {None} /\ None \notin Txns
  BY DEF L!Rows, L!Row, LoansSetting
<1>2. v \in [L!Rows -> L!Row] /\ L!Sees(r, Loan) = v[Loan] /\ v[Loan] \in L!Row
  BY <1>1, Before1
<1>3. terms = <<v[Loan].terms[1], rec.terms[2]>> /\ terms \in {0, 1} \X {0, 1}
  <2>1. terms = <<v[Loan].terms[1], rec.terms[2]>>
    BY <1>2 DEF L!RecordTerms
  <2>2. v[Loan].terms \in {0, 1} \X {0, 1} /\ rec.terms \in {0, 1} \X {0, 1}
    BY <1>2 DEF L!Row
  <2> QED BY <2>1, <2>2, TermsAre
<1>4. L!CanSync(r, k, booked, txn)
  OBVIOUS
<1>5. new = [x \in {k} \cup DOMAIN sync.txns |-> IF x = k THEN [rec EXCEPT !.txn = sync.id] ELSE sync.txns[x]]
  BY DEF RecordRows
<1> HIDE DEF booked, txn, terms, sync, old
<1>6. Synced(r, k, booked, terms, old, sync)
  BY <1>1, <1>3, <1>4, SyncIs DEF sync, old
<1>7. /\ DOMAIN sync.txns \subseteq Txns /\ sync.id \in Txns \cup {None}
      /\ \A t \in DOMAIN sync.txns : sync.txns[t] \in L!Row /\ sync.txns[t].state # "free" /\ L!Free(r, t)
      /\ ~booked => sync.id = None
  BY <1>6 DEF Synced
<1>8. /\ DOMAIN new = {k} \cup DOMAIN sync.txns /\ new[k] = [rec EXCEPT !.txn = sync.id]
      /\ \A t \in DOMAIN sync.txns : t # k /\ new[t] = sync.txns[t]
  BY <1>1, <1>5, <1>7
<1>9. /\ new[k] \in L!Row /\ new[k].state = "live" /\ new[k].booked = booked /\ new[k].txn = sync.id
      /\ new[k].terms = rec.terms
  BY <1>7, <1>8 DEF L!Row, booked
<1>10. /\ DOMAIN new \subseteq {k} \cup Txns /\ DOMAIN new \subseteq L!Rows /\ k \in DOMAIN new
       /\ \A x \in DOMAIN new : new[x] \in L!Row
       /\ \A x \in DOMAIN new : new[x].state # "free" /\ (x # k => L!Free(r, x))
  <2>1. DOMAIN new \subseteq {k} \cup Txns /\ DOMAIN new \subseteq L!Rows /\ k \in DOMAIN new
    BY <1>1, <1>7, <1>8
  <2>2. \A x \in DOMAIN new : new[x] \in L!Row /\ new[x].state # "free" /\ (x # k => L!Free(r, x))
    BY <1>7, <1>8, <1>9
  <2> QED BY <2>1, <2>2
<1>11. ASSUME Good(v), IsLive(v, Loan), rec.txn = v[k].txn
       PROVE  /\ Good(w)
              /\ \A t \in DOMAIN new \cap Txns : new[t].owner = k
              /\ BookingsOf(v, k) = {} => \A t \in DOMAIN new \cap Txns : row[t].state = "free"
  <2>1. w \in [L!Rows -> L!Row] /\ \A x \in L!Rows : w[x] = IF x \in DOMAIN new THEN new[x] ELSE v[x]
    BY <1>10, WroteIs
  <2>2. Right(v, {}, {}) /\ txn = v[k].txn
    BY <1>11 DEF Good, txn
  <2>3. old = BookingsOf(v, k)
    BY <1>1, <1>2, <2>2, RecordBookingIs DEF old
  <2> HIDE DEF w
  <2>4. /\ \A t \in DOMAIN sync.txns : w[t] = sync.txns[t]
        /\ \A y \in L!Rows : y # k /\ y \notin DOMAIN sync.txns => w[y] = v[y]
        /\ w[k] = new[k] /\ w[Loan] = v[Loan]
    BY <1>1, <1>7, <1>8, <2>1
  <2>5. /\ IsLive(w, k) /\ IsLive(w, Loan) /\ w[k].booked = booked /\ terms = <<w[Loan].terms[1], w[k].terms[2]>>
        /\ w[k].txn = sync.id
    BY <1>3, <1>9, <1>11, <2>4 DEF IsLive
  <2>6. w[k].txn \in Txns => booked /\ w[k].txn = sync.id
    BY <1>1, <1>7, <2>5
  <2>7. /\ Right(w, {}, {})
        /\ \A t \in DOMAIN sync.txns : w[t].owner = k
        /\ BookingsOf(v, k) = {} => \A t \in DOMAIN sync.txns : row[t].state = "free"
    <3>1. Savable(v, w, k, booked, terms, sync, {}, {}, {})
      BY <1>1, <1>11, <2>4, <2>5, <2>6 DEF Savable
    <3>2. k \in {Loan} \cup Records
      BY <1>1
    <3>3. v \in [L!Rows -> L!Row] /\ w \in [L!Rows -> L!Row] /\ Right(v, {}, {})
      BY <1>2, <2>1, <2>2
    <3>4. Saved(v, w, k, booked, sync, {}, {})
      BY <1>6, <2>3, <3>1, <3>2, <3>3, SavedRight
    <3> QED BY <3>4 DEF Saved
  <2>8. DOMAIN new \cap Txns = DOMAIN sync.txns
    BY <1>1, <1>7, <1>8
  <2> QED BY <1>8, <2>4, <2>7, <2>8 DEF Good
<1> QED BY <1>10, <1>11

\* The loan is created with its booking.
LEMMA CreateLoanStep == ASSUME LoansSetting, LoansInv, NEW r \in Requests, L!CreateLoan(r) PROVE LoansInv'
<1> DEFINE loan == [L!Blank(Loan) EXCEPT !.state = "live", !.booked = req[r].account]
           new == LoanRows(r, loan)
           v == View(row, dirty[r])
           q == [req[r] EXCEPT !.pc = "commit"]
           d == dirty'[r]
<1>1. /\ req[r].pc = "create" /\ L!WroteLoan(r, loan) /\ req' = [req EXCEPT ![r] = q] /\ UNCHANGED <<row, open, overlap>>
  BY Before1 DEF L!CreateLoan
<1>2. /\ req[r].op = "CreateLoan" /\ Busy(req[r])
  BY <1>1, Before1 DEF Stage, Busy
<1>3. q \in L!RequestState /\ q.op = "CreateLoan" /\ q.pc = "commit" /\ q.id = req[r].id
  BY <1>2, Before1 DEF L!RequestState, L!Pcs
<1>4. Stage(q)
  BY <1>3 DEF Stage
<1>5. loan \in L!Row /\ loan.state = "live"
  <2> DEFINE c == req[r].account
             zero == 0
  <2>1. c \in BOOLEAN /\ zero \in {0, 1}
    BY Before1 DEF L!RequestState
  <2> DEFINE base == L!Blank(Loan)
  <2>2. base = [state |-> "free", booked |-> FALSE, txn |-> None, owner |-> Loan, terms |-> <<zero, zero>>]
    BY DEF L!Blank
  <2>3. loan = [base EXCEPT !.state = "live", !.booked = c]
    OBVIOUS
  <2> HIDE DEF c, zero, loan, base
  <2>4. base \in L!Row
    BY <2>1, <2>2 DEF L!Row
  <2> QED BY <2>1, <2>3, <2>4 DEF L!Row
<1> HIDE DEF loan, new, q, v
<1>6. /\ L!Wrote(r, new) /\ DOMAIN new \subseteq {Loan} \cup Txns /\ DOMAIN new \subseteq L!Rows
      /\ Loan \in DOMAIN new /\ new[Loan] = loan /\ \A x \in DOMAIN new : new[x] \in L!Row
      /\ \A x \in DOMAIN new : x # Loan => new[x].state # "free" /\ L!Free(r, x)
  BY <1>1, <1>5, LoanSaved DEF new, v
<1>7. /\ DOMAIN d = DOMAIN dirty[r] \cup DOMAIN new /\ \A x \in DOMAIN new : d[x] = new[x]
  BY <1>6, WroteIs
<1>8. ASSUME ~overlap PROVE \A x \in DOMAIN new : L!Free(r, x)
  <2>1. row[Loan].state = "free" /\ Before(row, dirty, req)
    BY <1>1, <1>2, <1>8, CalmIs DEF EditRight
  <2>2. \A p \in Requests \ {r} : DOMAIN dirty[p] = {}
    BY <1>2, <2>1 DEF Before
  <2>3. L!Free(r, Loan)
    BY <2>2 DEF L!Free
  <2> QED BY <1>6, <2>3
<1>9. ASSUME ~overlap PROVE LocalRight(row, d, q) /\ (row[Loan].state = "free" /\ DOMAIN d # {} => q.op = "CreateLoan")
  <2>1. /\ row[Loan].state = "free" /\ DOMAIN dirty[r] = {} /\ Good(row) /\ Before(row, dirty, req)
    BY <1>1, <1>2, <1>9, CalmIs DEF EditRight, Holds, Waiting
  <2>2. v = row /\ Right(v, {}, {})
    BY <2>1, Before1, ViewPlain DEF Good, v
  <2>3. \A k \in Records : ~IsLive(v, k)
    BY <2>1, <2>2 DEF Before, IsLive, L!Rows
  <2>4. Right(View(row, d), {}, {})
    BY <1>1, <1>5, <2>2, <2>3, LoanSaved DEF new, v
  <2> HIDE DEF d
  <2>5. Holds(d, q)
    BY <1>3, <1>5, <1>6, <1>7, <2>1 DEF Holds, Waiting
  <2>6. EditRight(row, d, q)
    BY <1>3, <2>1, <2>4 DEF EditRight, Good
  <2>7. EachRight(row, d, q) /\ UnbookRight(row, d, q) /\ SweepRight(row, d, q)
    BY <1>3 DEF EachRight, UnbookRight, SweepRight, Deleters
  <2> QED BY <1>3, <2>5, <2>6, <2>7 DEF LocalRight
<1> QED BY <1>1, <1>2, <1>3, <1>4, <1>6, <1>8, <1>9, WriteStep

\* The view of who has only locked the loan's row is what is committed.
LEMMA LockedPlain ==
  ASSUME LoansInv, ~overlap, NEW r \in Requests, req[r].pc \in {"UpdateLoan", "CreateLoanRecord", "UpdateLoanRecord"}
  PROVE  /\ View(row, dirty[r]) = row /\ DOMAIN dirty[r] = {Loan} /\ IsLive(row, Loan) /\ Good(row)
         /\ \A x \in DOMAIN dirty[r] : dirty[r][x].state # "free"
<1>1. /\ DOMAIN dirty[r] = {Loan} /\ dirty[r][Loan] = row[Loan] /\ IsLive(row, Loan) /\ Good(row)
      /\ \A x \in DOMAIN dirty[r] : dirty[r][x].state # "free"
  BY CalmIs DEF EditRight, Holds
<1>2. row \in [L!Rows -> L!Row]
  BY Before1
<1> QED BY <1>1, <1>2 DEF View

\* The loan is changed with its booking, and its records' bookings are listed.
LEMMA UpdateLoanStep == ASSUME LoansSetting, LoansInv, NEW r \in Requests, L!UpdateLoan(r) PROVE LoansInv'
<1> DEFINE loan == [L!Sees(r, Loan) EXCEPT !.booked = req[r].account, !.terms = <<1 - @[1], 0>>]
           new == LoanRows(r, loan)
           v == View(row, dirty[r])
           todo == L!ListLoanRecords(r)
           q == [req[r] EXCEPT !.pc = "each", !.todo = todo]
           d == dirty'[r]
<1>1. /\ req[r].pc = "UpdateLoan" /\ L!WroteLoan(r, loan) /\ UNCHANGED <<row, open, overlap>>
      /\ req' = [req EXCEPT ![r] = q]
  BY Before1 DEF L!UpdateLoan
<1>2. /\ req[r].op = "UpdateLoan" /\ Busy(req[r])
  BY <1>1, Before1 DEF Stage, Busy
<1>3. /\ todo = {k \in Records : IsLive(v, k) /\ v[k].booked} /\ todo \subseteq L!Rows
  <2>1. Records \subseteq L!Rows /\ \A k \in Records : L!Sees(r, k) = v[k]
    BY Before1 DEF L!Rows
  <2> HIDE DEF v
  <2> QED BY <2>1 DEF L!ListLoanRecords, L!Live, IsLive
<1> HIDE DEF todo
<1>4. /\ q \in L!RequestState /\ q.op = "UpdateLoan" /\ q.pc = "each" /\ q.todo = todo /\ q.seen = req[r].seen
  BY <1>2, <1>3, Before1 DEF L!RequestState, L!Pcs
<1>5. Stage(q)
  BY <1>3, <1>4 DEF Stage
<1>6. loan \in L!Row /\ loan.state = L!Sees(r, Loan).state
  <2> DEFINE a == L!Sees(r, Loan)
             c == req[r].account
             p == <<1 - a.terms[1], 0>>
  <2>1. a \in L!Row /\ c \in BOOLEAN
    BY Before1 DEF L!RequestState, L!Rows
  <2>2. a.terms \in {0, 1} \X {0, 1}
    BY <2>1 DEF L!Row
  <2>3. 1 - a.terms[1] \in {0, 1}
    BY <2>2
  <2>4. p \in {0, 1} \X {0, 1}
    BY <2>3
  <2>5. loan = [a EXCEPT !.booked = c, !.terms = p]
    BY <2>1 DEF L!Row
  <2> HIDE DEF a, c, p, loan
  <2>6. loan \in L!Row /\ loan.state = a.state
    BY <2>1, <2>4, <2>5 DEF L!Row
  <2> QED BY <2>6 DEF a
<1> HIDE DEF loan, new, q, v
<1>7. /\ L!Wrote(r, new) /\ DOMAIN new \subseteq {Loan} \cup Txns /\ DOMAIN new \subseteq L!Rows
      /\ Loan \in DOMAIN new /\ new[Loan] = loan /\ \A x \in DOMAIN new : new[x] \in L!Row
      /\ \A x \in DOMAIN new : x # Loan => new[x].state # "free" /\ L!Free(r, x)
  BY <1>1, <1>6, LoanSaved DEF new, v
<1>8. /\ DOMAIN d = DOMAIN dirty[r] \cup DOMAIN new /\ \A x \in DOMAIN new : d[x] = new[x]
      /\ \A x \in L!Rows : View(row, d)[x] = IF x \in DOMAIN new THEN new[x] ELSE v[x]
  BY <1>7, WroteIs DEF v
<1>9. ASSUME ~overlap PROVE \A x \in DOMAIN new : L!Free(r, x)
  <2>1. \A p \in Requests \ {r} : Loan \notin DOMAIN dirty[p]
    BY <1>1, <1>9, CalmIs, LockedPlain
  <2> QED BY <1>7, <2>1 DEF L!Free
<1>10. ASSUME ~overlap PROVE LocalRight(row, d, q) /\ (row[Loan].state = "free" /\ DOMAIN d # {} => q.op = "CreateLoan")
  <2> DEFINE w == View(row, d)
  <2>1. v = row /\ DOMAIN dirty[r] = {Loan} /\ IsLive(row, Loan) /\ Right(v, {}, {})
    BY <1>1, <1>10, LockedPlain DEF v, Good
  <2>2. loan.state = "live" /\ Loan \in L!Rows /\ Loan \notin Records /\ Records \cap Txns = {} /\ req[r].seen = None
    BY <1>1, <1>2, <1>6, <1>10, <2>1, Before1, CalmIs DEF L!Rows, LoansSetting, IsLive, v, EditRight
  <2>3. \A k \in Records : IsLive(v, k) /\ v[k].booked => k \in todo
    BY <1>3
  <2>4. Right(w, todo, {})
    BY <1>1, <1>6, <2>1, <2>2, <2>3, LoanSaved DEF new, v
  <2>5. IsLive(w, Loan)
    BY <1>7, <1>8, <2>2 DEF IsLive
  <2> HIDE DEF d, w
  <2>6. DOMAIN d = DOMAIN new /\ todo \cap DOMAIN d = {} /\ todo \subseteq Records
    BY <1>3, <1>7, <1>8, <2>1, <2>2, ZenonT(40)
  <2>7. EachRight(row, d, q)
    BY <1>3, <1>4, <2>1, <2>2, <2>4, <2>5, <2>6 DEF EachRight, w
  <2>8. Holds(d, q)
    BY <1>4, <1>7, <1>8, <2>2, <2>6 DEF Holds, Waiting
  <2>9. EditRight(row, d, q) /\ UnbookRight(row, d, q) /\ SweepRight(row, d, q)
    BY <1>4 DEF EditRight, UnbookRight, SweepRight, Deleters
  <2> QED BY <2>1, <2>7, <2>8, <2>9 DEF LocalRight, IsLive
<1> QED BY <1>1, <1>2, <1>4, <1>5, <1>7, <1>9, <1>10, WriteStep

\* A record is created with its booking.
LEMMA CreateLoanRecordStep ==
  ASSUME LoansSetting, LoansInv, NEW r \in Requests, L!CreateLoanRecord(r) PROVE LoansInv'
<1> DEFINE k == req[r].id
           rec == [L!Sees(r, k) EXCEPT !.state = "live", !.booked = req[r].account]
           new == RecordRows(r, k, rec)
           v == View(row, dirty[r])
           q == [req[r] EXCEPT !.pc = "commit"]
           d == dirty'[r]
<1>1. /\ req[r].pc = "CreateLoanRecord" /\ L!Sees(r, k).state = "free" /\ L!Free(r, k)
      /\ L!CanSync(r, k, rec.booked, rec.txn) /\ L!Wrote(r, new) /\ UNCHANGED <<row, open, overlap>>
      /\ req' = [req EXCEPT ![r] = q]
  BY Before1 DEF L!CreateLoanRecord, L!Save, RecordRows
<1>2. /\ req[r].op = "CreateLoanRecord" /\ Busy(req[r]) /\ k \in Records /\ k \in L!Rows /\ k # Loan /\ k \notin Txns
      /\ Loan \notin Txns /\ Loan \notin Records
  BY <1>1, Before1, ZenonT(40) DEF Stage, Busy, L!RequestState, L!Rows, LoansSetting
<1>3. /\ q \in L!RequestState /\ q.op = "CreateLoanRecord" /\ q.pc = "commit" /\ q.id = k
  BY <1>2, Before1, ZenonT(40) DEF L!RequestState, L!Pcs
<1>4. Stage(q)
  BY <1>3 DEF Stage
<1>5. rec \in L!Row /\ rec.state = "live" /\ rec.txn = L!Sees(r, k).txn
  <2> DEFINE a == L!Sees(r, k)
             c == req[r].account
  <2>1. a \in L!Row /\ c \in BOOLEAN
    BY <1>2, Before1 DEF L!RequestState
  <2>2. rec = [a EXCEPT !.state = "live", !.booked = c]
    OBVIOUS
  <2> HIDE DEF a, c, rec
  <2>3. rec \in L!Row /\ rec.state = "live" /\ rec.txn = a.txn
    BY <2>1, <2>2 DEF L!Row
  <2> QED BY <2>3 DEF a
<1>6. L!Sees(r, k) = v[k]
  BY <1>2, Before1
<1> HIDE DEF rec, new, q, v, k
<1>7. /\ DOMAIN new \subseteq {k} \cup Txns /\ DOMAIN new \subseteq L!Rows /\ k \in DOMAIN new
      /\ \A x \in DOMAIN new : new[x] \in L!Row
      /\ \A x \in DOMAIN new : new[x].state # "free" /\ (x # k => L!Free(r, x))
  BY <1>1, <1>2, <1>5, RecordSaved DEF new, v
<1>8. /\ DOMAIN d = DOMAIN dirty[r] \cup DOMAIN new /\ \A x \in DOMAIN new : d[x] = new[x]
      /\ \A x \in DOMAIN dirty[r] \ DOMAIN new : d[x] = dirty[r][x]
  BY <1>1, <1>7, WroteIs
<1>9. \A x \in DOMAIN new : L!Free(r, x)
  BY <1>1, <1>7
<1>10. ASSUME ~overlap PROVE LocalRight(row, d, q) /\ (row[Loan].state = "free" /\ DOMAIN d # {} => q.op = "CreateLoan")
  <2>1. /\ v = row /\ DOMAIN dirty[r] = {Loan} /\ IsLive(row, Loan) /\ Good(row)
        /\ \A x \in DOMAIN dirty[r] : dirty[r][x].state # "free"
    BY <1>1, <1>10, LockedPlain DEF v
  <2>2. /\ Good(View(row, d)) /\ \A t \in DOMAIN new \cap Txns : new[t].owner = k
        /\ BookingsOf(v, k) = {} => \A t \in DOMAIN new \cap Txns : row[t].state = "free"
    BY <1>1, <1>2, <1>5, <1>6, <2>1, RecordSaved DEF new, v
  <2>3. row[k].state = "free" /\ BookingsOf(v, k) = {}
    BY <1>1, <1>6, <2>1 DEF Good, Right, Sound, BookingsOf, IsLive
  <2> HIDE DEF d
  <2>4. DOMAIN d = {Loan} \cup DOMAIN new /\ \A x \in DOMAIN d : d[x].state # "free"
    BY <1>7, <1>8, <2>1
  <2>5. Holds(d, q)
    BY <1>3, <2>4 DEF Holds, Waiting
  <2>6. DOMAIN d \cap Records = {q.id} /\ \A t \in DOMAIN d \cap Txns : d[t].owner = q.id /\ row[t].state = "free"
    <3>1. DOMAIN d \cap Records = {k}
      BY <1>2, <1>7, <2>4 DEF LoansSetting
    <3>2. ASSUME NEW t \in DOMAIN d \cap Txns PROVE d[t].owner = k /\ row[t].state = "free"
      BY <1>2, <1>8, <2>2, <2>3, <2>4, <3>2
    <3> QED BY <1>3, <3>1, <3>2
  <2>7. EditRight(row, d, q)
    BY <1>3, <2>2, <2>3, <2>6 DEF EditRight
  <2>8. EachRight(row, d, q) /\ UnbookRight(row, d, q) /\ SweepRight(row, d, q)
    BY <1>3 DEF EachRight, UnbookRight, SweepRight, Deleters
  <2> QED BY <2>1, <2>5, <2>7, <2>8 DEF LocalRight, IsLive
<1> QED BY <1>1, <1>2, <1>3, <1>4, <1>7, <1>9, <1>10, WriteStep

\* A record is changed with its booking.
LEMMA UpdateLoanRecordStep ==
  ASSUME LoansSetting, LoansInv, NEW r \in Requests, L!UpdateLoanRecord(r) PROVE LoansInv'
<1> DEFINE k == req[r].id
           rec == [L!Sees(r, k) EXCEPT !.booked = req[r].account, !.terms = <<0, 1 - @[2]>>]
           new == RecordRows(r, k, rec)
           v == View(row, dirty[r])
           q == [req[r] EXCEPT !.pc = "commit"]
           d == dirty'[r]
<1>1. CASE ~L!Live(r, k)
  BY <1>1, FailStep DEF L!UpdateLoanRecord
<1>2. CASE L!Live(r, k)
  <2>1. /\ req[r].pc = "UpdateLoanRecord" /\ L!Sees(r, k).state = "live" /\ L!Free(r, k)
        /\ L!CanSync(r, k, rec.booked, rec.txn) /\ L!Wrote(r, new) /\ UNCHANGED <<row, open, overlap>>
        /\ req' = [req EXCEPT ![r] = q]
    BY <1>2, Before1 DEF L!UpdateLoanRecord, L!Save, RecordRows, L!Live
  <2>2. /\ req[r].op = "UpdateLoanRecord" /\ Busy(req[r]) /\ k \in Records /\ k \in L!Rows
    BY <2>1, Before1 DEF Stage, Busy, L!RequestState, L!Rows
  <2>3. /\ q \in L!RequestState /\ q.op = "UpdateLoanRecord" /\ q.pc = "commit"
    BY <2>2, Before1, ZenonT(40) DEF L!RequestState, L!Pcs
  <2>4. Stage(q)
    BY <2>3 DEF Stage
  <2>5. rec \in L!Row /\ rec.state = "live" /\ rec.txn = L!Sees(r, k).txn
    <3> DEFINE a == L!Sees(r, k)
               c == req[r].account
               p == <<0, 1 - a.terms[2]>>
    <3>1. a \in L!Row /\ c \in BOOLEAN /\ a.state = "live"
      BY <2>1, <2>2, Before1 DEF L!RequestState
    <3>2. a.terms \in {0, 1} \X {0, 1}
      BY <3>1 DEF L!Row
    <3>3. 1 - a.terms[2] \in {0, 1}
      BY <3>2
    <3>4. p \in {0, 1} \X {0, 1}
      BY <3>3
    <3>5. rec = [a EXCEPT !.booked = c, !.terms = p]
      BY <3>1 DEF L!Row
    <3> HIDE DEF a, c, p, rec
    <3>6. rec \in L!Row /\ rec.state = "live" /\ rec.txn = a.txn
      BY <3>1, <3>4, <3>5 DEF L!Row
    <3> QED BY <3>6 DEF a
  <2>6. L!Sees(r, k) = v[k]
    BY <2>2, Before1
  <2> HIDE DEF rec, new, q, v, k
  <2>7. /\ DOMAIN new \subseteq {k} \cup Txns /\ DOMAIN new \subseteq L!Rows /\ k \in DOMAIN new
        /\ \A x \in DOMAIN new : new[x] \in L!Row
        /\ \A x \in DOMAIN new : new[x].state # "free" /\ (x # k => L!Free(r, x))
    BY <2>1, <2>2, <2>5, RecordSaved DEF new, v
  <2>8. /\ DOMAIN d = DOMAIN dirty[r] \cup DOMAIN new /\ \A x \in DOMAIN new : d[x] = new[x]
        /\ \A x \in DOMAIN dirty[r] \ DOMAIN new : d[x] = dirty[r][x]
    BY <2>1, <2>7, WroteIs
  <2>9. \A x \in DOMAIN new : L!Free(r, x)
    BY <2>1, <2>7
  <2>10. ASSUME ~overlap PROVE LocalRight(row, d, q) /\ (row[Loan].state = "free" /\ DOMAIN d # {} => q.op = "CreateLoan")
    <3>1. /\ v = row /\ DOMAIN dirty[r] = {Loan} /\ IsLive(row, Loan) /\ Good(row)
          /\ \A x \in DOMAIN dirty[r] : dirty[r][x].state # "free"
      BY <2>1, <2>10, LockedPlain DEF v
    <3>2. Good(View(row, d))
      BY <2>1, <2>2, <2>5, <2>6, <3>1, RecordSaved DEF new, v
    <3> HIDE DEF d
    <3>3. DOMAIN d = {Loan} \cup DOMAIN new /\ \A x \in DOMAIN d : d[x].state # "free"
      BY <2>7, <2>8, <3>1
    <3>4. Holds(d, q)
      BY <2>3, <3>3 DEF Holds, Waiting
    <3>5. EditRight(row, d, q)
      BY <2>3, <3>2 DEF EditRight
    <3>6. EachRight(row, d, q) /\ UnbookRight(row, d, q) /\ SweepRight(row, d, q)
      BY <2>3 DEF EachRight, UnbookRight, SweepRight, Deleters
    <3> QED BY <3>1, <3>4, <3>5, <3>6 DEF LocalRight, IsLive
  <2> QED BY <2>1, <2>2, <2>3, <2>4, <2>7, <2>9, <2>10, WriteStep
<1> QED BY <1>1, <1>2

\* The booking of one of the listed records is rewritten or made.
LEMMA SaveRecordBookingStep ==
  ASSUME LoansSetting, LoansInv, NEW r \in Requests, L!SaveRecordBooking(r) PROVE LoansInv'
<1>1. PICK k \in req[r].todo :
         LET booking == L!SyncBooking(r, k, TRUE, row[k].txn, L!RecordTerms(r, L!Sees(r, k)))
         IN  /\ L!CanSync(r, k, TRUE, row[k].txn)
             /\ L!Wrote(r, booking.txns)
             /\ req' = [req EXCEPT ![r].seen = booking.id, ![r].id = k]
  BY DEF L!SaveRecordBooking
<1> DEFINE terms == L!RecordTerms(r, L!Sees(r, k))
           txn == row[k].txn
           v == View(row, dirty[r])
           d == dirty'[r]
<1>2. /\ req[r].pc = "each" /\ req[r].seen = None /\ UNCHANGED <<row, open, overlap>>
  BY DEF L!SaveRecordBooking
<1>3. /\ req[r].op = "UpdateLoan" /\ Busy(req[r]) /\ req[r].todo \subseteq Records /\ k \in Records /\ k \in L!Rows /\ k # Loan
      /\ Loan \in L!Rows /\ Loan \notin Txns /\ Records \cap Txns = {} /\ Txns \subseteq L!Rows /\ None \notin Txns
  BY <1>2, Before1 DEF Stage, Busy, L!Rows, LoansSetting
<1>4. v \in [L!Rows -> L!Row] /\ row[k] \in L!Row /\ L!Sees(r, k) = v[k] /\ L!Sees(r, Loan) = v[Loan]
  BY <1>3, Before1
<1>5. terms = <<v[Loan].terms[1], v[k].terms[2]>> /\ terms \in {0, 1} \X {0, 1} /\ txn \in Txns \cup {None}
  <2>1. terms = <<v[Loan].terms[1], v[k].terms[2]>>
    BY <1>4 DEF L!RecordTerms
  <2>2. v[Loan].terms \in {0, 1} \X {0, 1} /\ v[k].terms \in {0, 1} \X {0, 1} /\ txn \in Txns \cup {None}
    BY <1>3, <1>4 DEF L!Row
  <2> QED BY <2>1, <2>2, TermsAre
<1> HIDE DEF terms, txn
<1>6. PICK yes \in BOOLEAN : /\ yes /\ L!CanSync(r, k, yes, txn)
                             /\ L!Wrote(r, L!SyncBooking(r, k, yes, txn, terms).txns)
                             /\ req' = [req EXCEPT ![r].seen = L!SyncBooking(r, k, yes, txn, terms).id, ![r].id = k]
  BY <1>1 DEF terms, txn
<1> DEFINE sync == L!SyncBooking(r, k, yes, txn, terms)
           old == L!Existing(r, k, txn)
           new == sync.txns
           q == [req[r] EXCEPT !.seen = sync.id, !.id = k]
<1> HIDE DEF sync, old
<1>7. Synced(r, k, yes, terms, old, sync)
  BY <1>3, <1>5, <1>6, SyncIs DEF sync, old
<1>8. /\ DOMAIN new \subseteq Txns /\ sync.id \in Txns
      /\ \A t \in DOMAIN new : new[t] \in L!Row /\ new[t].state # "free" /\ L!Free(r, t)
  BY <1>6, <1>7 DEF Synced
<1>9. L!Wrote(r, new) /\ req' = [req EXCEPT ![r] = q]
  BY <1>6, Before1 DEF sync
<1>10. q \in L!RequestState /\ q.op = "UpdateLoan" /\ q.pc = "each" /\ q.todo = req[r].todo /\ q.seen = sync.id /\ q.id = k
  BY <1>2, <1>3, <1>8, Before1, ZenonT(40) DEF L!RequestState
<1> HIDE DEF q
<1>11. Stage(q)
  BY <1>3, <1>10 DEF Stage
<1>12. DOMAIN new \subseteq L!Rows /\ (\A t \in DOMAIN new : new[t] \in L!Row) /\ \A t \in DOMAIN new : L!Free(r, t)
  BY <1>3, <1>8
<1> HIDE DEF new
<1>13. /\ DOMAIN d = DOMAIN dirty[r] \cup DOMAIN new
       /\ \A x \in DOMAIN new : d[x] = new[x]
       /\ \A x \in DOMAIN dirty[r] \ DOMAIN new : d[x] = dirty[r][x]
       /\ View(row, d) \in [L!Rows -> L!Row]
       /\ \A x \in L!Rows : View(row, d)[x] = IF x \in DOMAIN new THEN new[x] ELSE v[x]
  BY <1>9, <1>12, WroteIs
<1>14. ASSUME ~overlap PROVE LocalRight(row, d, q) /\ (row[Loan].state = "free" /\ DOMAIN d # {} => q.op = "CreateLoan")
  <2> DEFINE w == View(row, d)
             todo == req[r].todo
  <2>1. Holds(dirty[r], req[r]) /\ EachRight(row, dirty[r], req[r]) /\ Before(row, dirty, req)
    BY <1>14, CalmIs
  <2>2. /\ todo \cap DOMAIN dirty[r] = {} /\ k \in todo /\ \A j \in todo : IsLive(row, j) /\ row[j].booked
        /\ IsLive(v, Loan) /\ Right(v, todo, {})
    BY <1>1, <1>2, <2>1 DEF EachRight
  <2>3. v[k] = row[k] /\ IsLive(v, k) /\ v[k].booked /\ txn = v[k].txn
    BY <1>3, <2>2, Before1, ViewIs DEF IsLive, txn
  <2> HIDE DEF d, v
  <2>4. old = BookingsOf(v, k)
    BY <1>3, <1>4, <2>2, <2>3, RecordBookingIs DEF old, v
  <2> HIDE DEF w, todo
  <2>5. /\ w \in [L!Rows -> L!Row] /\ \A t \in DOMAIN sync.txns : w[t] = sync.txns[t]
        /\ \A y \in L!Rows : y \notin DOMAIN sync.txns => w[y] = v[y]
        /\ w[k] = v[k] /\ w[Loan] = v[Loan]
    BY <1>3, <1>8, <1>12, <1>13 DEF w, new
  <2>6. Savable(v, w, k, yes, terms, sync, todo, todo, {k})
    BY <1>3, <1>5, <1>6, <2>2, <2>3, <2>5 DEF Savable, IsLive
  <2>7. k \in {Loan} \cup Records /\ v = View(row, dirty[r])
    BY <1>3 DEF v
  <2>8. Saved(v, w, k, yes, sync, todo, {k})
    BY <1>4, <1>7, <2>2, <2>4, <2>5, <2>6, <2>7, SavedRight
  <2>9. Right(w, todo, {k}) /\ Says(w, sync.id, k) /\ IsLive(w, Loan)
    BY <1>6, <2>2, <2>5, <2>8 DEF Saved, IsLive
  <2>10. todo \cap DOMAIN d = {} /\ todo \subseteq Records
    BY <1>3, <1>8, <1>13, <2>2 DEF todo, new
  <2>11. EachRight(row, d, q)
    BY <1>3, <1>8, <1>10, <2>2, <2>9, <2>10 DEF EachRight, w, todo
  <2>12. \A x \in DOMAIN d : d[x].state # "free"
    BY <1>8, <1>13, <2>1 DEF Holds, new
  <2>13. Loan \in DOMAIN d
    BY <1>2, <1>3, <1>13, <2>1 DEF Holds, Waiting, Lockers
  <2>14. Holds(d, q)
    BY <1>10, <2>12, <2>13 DEF Holds, Waiting
  <2>15. EditRight(row, d, q) /\ UnbookRight(row, d, q) /\ SweepRight(row, d, q)
    BY <1>10 DEF EditRight, UnbookRight, SweepRight, Deleters
  <2>16. row[Loan].state # "free"
    BY <1>3, <2>1, <2>3 DEF Before, IsLive
  <2> QED BY <2>11, <2>14, <2>15, <2>16 DEF LocalRight
<1> QED BY <1>2, <1>3, <1>9, <1>10, <1>11, <1>12, <1>14, WriteStep

\* Two requests in their transactions: c is at its end, with d written, p at some statement,
\* with e written.
Beside(f, d, c, e, p) ==
    /\ DOMAIN d \cap DOMAIN e = {} /\ Stage(c) /\ Stage(p) /\ Busy(p) /\ Good(f)
    /\ c.pc = "commit" \/ (c.pc = "each" /\ c.todo = {})
    /\ ~L!Clashes(c.op, p.op) /\ ~L!Clashes(p.op, c.op)
    /\ LocalRight(f, d, c) /\ LocalRight(f, e, p)
    /\ c.op = "CreateLoan" => p.op # "CreateLoan"
    /\ f[Loan].state = "free" =>
           /\ \A x \in L!Rows : f[x].state = "free"
           /\ DOMAIN d # {} => c.op = "CreateLoan"

\* Only one of them has the loan's row, and a deletion of the loan or of the account has only
\* deletions beside it.
LEMMA BesideIs ==
  ASSUME LoansSetting, NEW f, NEW d, NEW c, NEW e, NEW p, Beside(f, d, c, e, p)
  PROVE  /\ c.op \in L!Ops /\ p.op \in L!Ops /\ c.pc \in {"commit", "each"}
         /\ c.op \in Lockers => Loan \in DOMAIN d
         /\ Loan \in DOMAIN e => c.op \in {"DeleteLoanRecord", "DeleteAccount"}
         /\ p.op \in Lockers /\ p.pc \notin Waiting \cup {"fail"} => Loan \in DOMAIN e
         /\ p.op = "DeleteAccount" => c.op \in Deleters
         /\ c.op = "DeleteAccount" => p.op \in Deleters
         /\ "DeleteLoanRecord" \in {c.op, p.op} => /\ c.op \notin {"UpdateLoan", "UpdateLoanRecord"}
                                                   /\ p.op \notin {"UpdateLoan", "UpdateLoanRecord"}
<1>1. /\ Stage(c) /\ Stage(p) /\ Busy(p) /\ DOMAIN d \cap DOMAIN e = {}
      /\ c.pc = "commit" \/ (c.pc = "each" /\ c.todo = {})
      /\ Holds(d, c) /\ Holds(e, p) /\ ~L!Clashes(c.op, p.op) /\ ~L!Clashes(p.op, c.op)
  BY DEF Beside, LocalRight
<1>2. c.op \in L!Ops /\ c.pc \in {"commit", "each"}
  BY <1>1 DEF Stage, L!Ops
<1>3. p.op \in L!Ops
  BY <1>1 DEF Stage, Busy, L!Ops
<1>4. /\ c.op \in Lockers => Loan \in DOMAIN d
      /\ p.op \in Lockers /\ p.pc \notin Waiting \cup {"fail"} => Loan \in DOMAIN e
  BY <1>1, <1>2 DEF Holds, Waiting
<1>5. Loan \in DOMAIN e => c.op \in {"DeleteLoanRecord", "DeleteAccount"}
  BY <1>1, <1>2, <1>4 DEF L!Ops, Lockers
<1>6. /\ p.op = "DeleteAccount" => c.op \in Deleters
      /\ c.op = "DeleteAccount" => p.op \in Deleters
  BY <1>1, <1>2, <1>3 DEF L!Clashes, L!Ops, Deleters
<1>7. "DeleteLoanRecord" \in {c.op, p.op} => /\ c.op \notin {"UpdateLoan", "UpdateLoanRecord"}
                                             /\ p.op \notin {"UpdateLoan", "UpdateLoanRecord"}
  BY <1>1 DEF L!Clashes
<1> QED BY <1>2, <1>3, <1>4, <1>5, <1>6, <1>7

\* What commits, and how the other one sees the rows from then on
LEMMA CommittedIs ==
  ASSUME NEW f \in [L!Rows -> L!Row], NEW d, NEW e, NEW g, g = View(f, d),
         \A x \in DOMAIN d : d[x] \in L!Row, \A x \in DOMAIN e : e[x] \in L!Row, DOMAIN d \cap DOMAIN e = {}
  PROVE  /\ g \in [L!Rows -> L!Row] /\ View(f, e) \in [L!Rows -> L!Row] /\ View(g, e) \in [L!Rows -> L!Row]
         /\ \A x \in L!Rows : g[x] = IF x \in DOMAIN d THEN d[x] ELSE f[x]
         /\ \A x \in L!Rows : View(f, e)[x] = IF x \in DOMAIN e THEN e[x] ELSE f[x]
         /\ \A x \in L!Rows : View(g, e)[x] = IF x \in DOMAIN e THEN e[x] ELSE g[x]
         /\ \A x \in L!Rows : x \in DOMAIN e => g[x] = f[x]
<1>1. g \in [L!Rows -> L!Row] /\ \A x \in L!Rows : g[x] = IF x \in DOMAIN d THEN d[x] ELSE f[x]
  BY ViewIs
<1>2. View(f, e) \in [L!Rows -> L!Row] /\ \A x \in L!Rows : View(f, e)[x] = IF x \in DOMAIN e THEN e[x] ELSE f[x]
  BY ViewIs
<1>3. View(g, e) \in [L!Rows -> L!Row] /\ \A x \in L!Rows : View(g, e)[x] = IF x \in DOMAIN e THEN e[x] ELSE g[x]
  BY <1>1, ViewIs
<1> QED BY <1>1, <1>2, <1>3

\* Where a deletion commits, the other one sees less than before.
LEMMA DeletedIs ==
  ASSUME LoansSetting, NEW f \in [L!Rows -> L!Row], NEW d, NEW c, NEW e, NEW p, Beside(f, d, c, e, p), NEW g, g = View(f, d),
         \A x \in DOMAIN d : d[x] \in L!Row, \A x \in DOMAIN e : e[x] \in L!Row, c.op \in Deleters
  PROVE  \A x \in L!Rows : /\ g[x] = f[x] \/ Shrinks(f[x], g[x])
                           /\ View(g, e)[x] = View(f, e)[x] \/ Shrinks(View(f, e)[x], View(g, e)[x])
<1>1. DOMAIN d \cap DOMAIN e = {} /\ \A x \in DOMAIN d : Shrinks(f[x], d[x])
  BY DEF Beside, LocalRight, SweepRight
<1> SUFFICES ASSUME NEW x \in L!Rows
             PROVE  /\ g[x] = f[x] \/ Shrinks(f[x], g[x])
                    /\ View(g, e)[x] = View(f, e)[x] \/ Shrinks(View(f, e)[x], View(g, e)[x])
  OBVIOUS
<1>2. g[x] = IF x \in DOMAIN d THEN d[x] ELSE f[x]
  BY ViewIs
<1>3. View(f, e)[x] = IF x \in DOMAIN e THEN e[x] ELSE f[x]
  BY <1>1, CommittedIs, SMTT(30)
<1>4. View(g, e)[x] = IF x \in DOMAIN e THEN e[x] ELSE g[x]
  BY <1>1, CommittedIs
<1>5. CASE x \in DOMAIN d
  BY <1>1, <1>2, <1>3, <1>4, <1>5
<1>6. CASE x \notin DOMAIN d
  BY <1>2, <1>3, <1>4, <1>6
<1> QED BY <1>5, <1>6

\* A sweep still finds what is left.
LEMMA OtherSweep ==
  ASSUME LoansSetting, NEW f \in [L!Rows -> L!Row], NEW d, NEW c, NEW e, NEW p, Beside(f, d, c, e, p), NEW g, g = View(f, d),
         \A x \in DOMAIN d : d[x] \in L!Row, \A x \in DOMAIN e : e[x] \in L!Row, DOMAIN e \subseteq L!Rows
  PROVE  SweepRight(g, e, p)
<1> DEFINE v == View(f, e)
           w == View(g, e)
<1>1. DOMAIN d \cap DOMAIN e = {} /\ SweepRight(f, e, p) /\ Stage(p) /\ Holds(e, p)
  BY DEF Beside, LocalRight
<1>2. \A x \in DOMAIN e : g[x] = f[x]
  <2>1. \A x \in L!Rows : g[x] = IF x \in DOMAIN d THEN d[x] ELSE f[x]
    BY ViewIs
  <2> QED BY <1>1, <2>1
<1>3. p.op \in Deleters => \A x \in DOMAIN e : Shrinks(g[x], e[x])
  BY <1>1, <1>2 DEF SweepRight
<1>4. CASE p.op \notin {"DeleteLoan", "DeleteAccount"}
  <2>1. p.pc \notin {"records", "txns", "account txns", "account loans", "account records"}
    BY <1>1, <1>4 DEF Stage
  <2> QED BY <1>3, <1>4, <2>1 DEF SweepRight
<1>5. CASE p.op = "DeleteLoan" /\ p.pc \in {"lock", "fail", "close", "done", "failed"}
  BY <1>3, <1>5 DEF SweepRight
<1>6. CASE p.op = "DeleteAccount" \/ (p.op = "DeleteLoan" /\ p.pc \in {"records", "txns", "commit"})
  <2>1. c.op \in Deleters
    <3>1. CASE p.op = "DeleteAccount"
      BY <3>1, BesideIs
    <3>2. CASE p.op = "DeleteLoan" /\ p.pc \in {"records", "txns", "commit"}
      <4>1. p.op \in Lockers /\ p.pc \notin Waiting \cup {"fail"}
        BY <3>2 DEF Lockers, Waiting
      <4>2. c.op \in {"DeleteLoanRecord", "DeleteAccount"}
        BY <4>1, BesideIs
      <4> QED BY <4>2 DEF Deleters
    <3> QED BY <1>6, <3>1, <3>2
  <2>2. \A x \in L!Rows : w[x] = v[x] \/ Shrinks(v[x], w[x])
    BY <2>1, DeletedIs
  <2>3. Loan \in L!Rows /\ Records \subseteq L!Rows /\ Txns \subseteq L!Rows
    BY DEF L!Rows
  <2> HIDE DEF v, w
  <2>4. /\ \A t \in Txns : ~IsLive(v, t) => ~IsLive(w, t)
        /\ ~v[Loan].booked => ~w[Loan].booked
        /\ \A k \in Records : ~v[k].booked => ~w[k].booked
    BY <2>2, <2>3 DEF Shrinks, IsLive
  <2>5. v[Loan].state = "gone" => w[Loan].state = "gone"
    BY <2>2, <2>3 DEF Shrinks
  <2>6. NoBooking(v) => NoBooking(w)
    BY <2>4 DEF NoBooking
  <2>7. /\ p.op = "DeleteLoan" /\ p.pc \in {"records", "txns", "commit"} => w[Loan].state = "gone"
        /\ p.pc \in {"txns", "account txns"} /\ p.todo # {} => \A t \in Txns \ p.todo : ~IsLive(w, t)
        /\ p.op = "DeleteLoan" /\ p.pc = "commit" => NoBooking(w)
    BY <1>1, <2>4, <2>5, <2>6 DEF SweepRight, v
  <2>8. /\ p.op = "DeleteAccount" /\ p.pc \in {"account loans", "account records", "commit"} => NoBooking(w)
        /\ p.pc = "account loans" /\ p.todo # {} => Loan \in p.todo
        /\ p.op = "DeleteAccount" /\ p.pc \in {"account records", "commit"} => ~w[Loan].booked
        /\ p.pc = "account records" /\ p.todo # {} => \A k \in Records \ p.todo : ~w[k].booked
        /\ p.op = "DeleteAccount" /\ p.pc = "commit" => \A k \in Records : ~w[k].booked
    BY <1>1, <2>4, <2>6 DEF SweepRight, v
  <2> QED BY <1>3, <2>7, <2>8 DEF SweepRight, w
<1> QED BY <1>1, <1>4, <1>5, <1>6 DEF Stage

\* A deletion of a record still knows its booking.
LEMMA OtherUnbook ==
  ASSUME LoansSetting, NEW f \in [L!Rows -> L!Row], NEW d, NEW c, NEW e, NEW p \in L!RequestState, Beside(f, d, c, e, p),
         NEW g, g = View(f, d), \A x \in DOMAIN d : d[x] \in L!Row, \A x \in DOMAIN e : e[x] \in L!Row,
         DOMAIN e \subseteq L!Rows
  PROVE  UnbookRight(g, e, p)
<1> SUFFICES ASSUME p.op = "DeleteLoanRecord", p.pc \in {"delete record", "unbook", "commit"} PROVE UnbookRight(g, e, p)
  BY DEF UnbookRight
<1> DEFINE k == p.id
           s == p.seen
           v == View(f, e)
           w == View(g, e)
<1>1. DOMAIN d \cap DOMAIN e = {} /\ UnbookRight(f, e, p) /\ k \in Records /\ k \in L!Rows /\ Txns \subseteq L!Rows
  BY DEF Beside, LocalRight, L!RequestState, L!Rows
<1> HIDE DEF k, s
<1>2. /\ f[k].state # "free" /\ \A t \in Txns : IsLive(f, t) /\ f[t].owner = k => t = s
      /\ s \in Txns => f[s].state # "free" /\ f[s].owner = k
      /\ p.pc # "delete record" => k \in DOMAIN e /\ e[k] = [f[k] EXCEPT !.state = "gone"]
      /\ p.pc = "unbook" => DOMAIN e = {k}
      /\ p.pc = "commit" => /\ DOMAIN e \subseteq {k, s}
                            /\ s \in DOMAIN e => e[s] = [f[s] EXCEPT !.state = "gone"]
                            /\ s \in Txns => ~IsLive(v, s)
  BY <1>1 DEF UnbookRight, k, s
<1>3. /\ g \in [L!Rows -> L!Row]
      /\ \A x \in L!Rows : g[x] = IF x \in DOMAIN d THEN d[x] ELSE f[x]
      /\ \A x \in L!Rows : v[x] = IF x \in DOMAIN e THEN e[x] ELSE f[x]
      /\ \A x \in L!Rows : w[x] = IF x \in DOMAIN e THEN e[x] ELSE g[x]
      /\ \A x \in L!Rows : x \in DOMAIN e => g[x] = f[x]
  <2>0. View(f, d) \in [L!Rows -> L!Row] /\ \A x \in L!Rows : View(f, d)[x] = IF x \in DOMAIN d THEN d[x] ELSE f[x]
    BY ViewIs, ZenonT(40)
  <2>1. g \in [L!Rows -> L!Row] /\ \A x \in L!Rows : g[x] = IF x \in DOMAIN d THEN d[x] ELSE f[x]
    BY <2>0
  <2>2. \A x \in L!Rows : v[x] = IF x \in DOMAIN e THEN e[x] ELSE f[x]
    BY ViewIs, ZenonT(40)
  <2>3. \A x \in L!Rows : w[x] = IF x \in DOMAIN e THEN e[x] ELSE g[x]
    BY DEF View
  <2> HIDE DEF v, w
  <2> QED BY <1>1, <2>1, <2>2, <2>3
<1>4. /\ g[k].state # "free" /\ \A t \in Txns : IsLive(g, t) /\ g[t].owner = k => t = s
      /\ s \in Txns => g[s].state # "free" /\ g[s].owner = k /\ (~IsLive(v, s) => ~IsLive(w, s))
  <2>1. CASE c.op \in Deleters
    <3>1. \A x \in L!Rows : (g[x] = f[x] \/ Shrinks(f[x], g[x])) /\ (w[x] = v[x] \/ Shrinks(v[x], w[x]))
      BY <2>1, DeletedIs
    <3>2. \A x \in L!Rows : /\ g[x].owner = f[x].owner /\ (f[x].state # "free" => g[x].state # "free")
                            /\ (IsLive(g, x) => IsLive(f, x))
      BY <3>1 DEF Shrinks, IsLive
    <3>3. \A x \in L!Rows : ~IsLive(v, x) => ~IsLive(w, x)
      BY <3>1 DEF Shrinks, IsLive
    <3> HIDE DEF v, w
    <3> QED BY <1>1, <1>2, <3>2, <3>3
  <2>2. CASE c.op = "CreateLoanRecord"
    <3>1. /\ f[c.id].state = "free" /\ DOMAIN d \cap Records = {c.id}
          /\ \A t \in DOMAIN d \cap Txns : d[t].owner = c.id /\ f[t].state = "free"
      <4>1. c.pc = "commit"
        BY <2>2, BesideIs DEF Beside, Stage
      <4> QED BY <2>2, <4>1 DEF Beside, LocalRight, EditRight
    <3>2. k # c.id /\ k \notin DOMAIN d /\ g[k] = f[k]
      BY <1>1, <1>2, <1>3, <3>1
    <3>3. \A t \in Txns : t \in DOMAIN d => g[t].owner # k
      <4> SUFFICES ASSUME NEW t \in Txns, t \in DOMAIN d PROVE g[t].owner # k
        OBVIOUS
      <4>1. g[t] = d[t] /\ d[t].owner = c.id
        BY <1>1, <1>3, <3>1
      <4> QED BY <3>2, <4>1
    <3>4. \A t \in Txns : IsLive(g, t) /\ g[t].owner = k => t = s
      BY <1>1, <1>2, <1>3, <3>3 DEF IsLive
    <3>5. s \in Txns => s \notin DOMAIN d
      BY <1>2, <3>1
    <3>6. s \in Txns => g[s] = f[s] /\ w[s] = v[s]
      BY <1>1, <1>3, <3>5
    <3> QED BY <1>2, <3>2, <3>4, <3>6 DEF IsLive
  <2>3. c.op # "CreateLoan"
    <3> SUFFICES ASSUME c.op = "CreateLoan" PROVE FALSE
      OBVIOUS
    <3>1. c.pc = "commit"
      BY BesideIs DEF Beside, Stage
    <3>2. f[Loan].state = "free"
      BY <3>1 DEF Beside, LocalRight, EditRight
    <3> QED BY <1>1, <1>2, <3>2 DEF Beside
  <2>4. c.op \in Deleters \/ c.op = "CreateLoanRecord"
    BY <2>3, BesideIs DEF L!Ops, Deleters
  <2> QED BY <2>1, <2>2, <2>4
<1>5. /\ p.pc # "delete record" => k \in DOMAIN e /\ e[k] = [g[k] EXCEPT !.state = "gone"]
      /\ p.pc = "commit" => (s \in DOMAIN e => s \in L!Rows /\ e[s] = [g[s] EXCEPT !.state = "gone"])
  BY <1>1, <1>2, <1>3
<1> QED BY <1>2, <1>4, <1>5 DEF UnbookRight, k, s

\* An edit or a creation stays right: beside it only the deletion of another record ends.
LEMMA OtherEdit ==
  ASSUME LoansSetting, NEW f \in [L!Rows -> L!Row], NEW d, NEW c \in L!RequestState, NEW e, NEW p \in L!RequestState,
         Beside(f, d, c, e, p), NEW g, g = View(f, d),
         \A x \in DOMAIN d : d[x] \in L!Row, \A x \in DOMAIN e : e[x] \in L!Row, DOMAIN e \subseteq L!Rows
  PROVE  EditRight(g, e, p) /\ EachRight(g, e, p)
<1> DEFINE v == View(f, e)
           w == View(g, e)
<1>1. /\ DOMAIN d \cap DOMAIN e = {} /\ Stage(p) /\ Stage(c)
      /\ EditRight(f, e, p) /\ EachRight(f, e, p) /\ UnbookRight(f, d, c)
      /\ c.op = "CreateLoan" => p.op # "CreateLoan"
      /\ f[Loan].state = "free" => (\A x \in L!Rows : f[x].state = "free") /\ (DOMAIN d # {} => c.op = "CreateLoan")
  BY DEF Beside, LocalRight
<1>2. \A x \in L!Rows : g[x] = IF x \in DOMAIN d THEN d[x] ELSE f[x]
  BY ViewIs
<1>3. /\ v \in [L!Rows -> L!Row] /\ \A x \in L!Rows : v[x] = IF x \in DOMAIN e THEN e[x] ELSE f[x]
      /\ w \in [L!Rows -> L!Row] /\ \A x \in L!Rows : w[x] = IF x \in DOMAIN e THEN e[x] ELSE g[x]
  BY <1>1, CommittedIs, SMTT(30)
<1>4. \A x \in DOMAIN e : g[x] = f[x]
  BY <1>1, <1>2
<1>5. /\ Loan \in L!Rows /\ Loan \notin Records /\ Loan \notin Txns /\ Records \cap Txns = {} /\ None \notin L!Rows
      /\ Records \subseteq L!Rows /\ Txns \subseteq L!Rows /\ c.id \in Records /\ c.seen \in Txns \cup {None}
  BY DEF LoansSetting, L!Rows, L!RequestState
<1> HIDE DEF v, w
<1>6. p.op = "UpdateLoan" => p.pc # "each"
  <2> SUFFICES ASSUME p.op = "UpdateLoan", p.pc = "each" PROVE FALSE
    OBVIOUS
  <2>0. p.op \in Lockers /\ p.pc \notin Waiting \cup {"fail"}
    BY DEF Lockers, Waiting
  <2>1. Loan \in DOMAIN e
    BY <2>0, BesideIs
  <2>2. c.op \in {"DeleteLoanRecord", "DeleteAccount"}
    BY <2>1, BesideIs
  <2>3. c.op # "DeleteAccount"
    BY BesideIs DEF Deleters
  <2> QED BY <2>2, <2>3, BesideIs
<1>7. EachRight(g, e, p)
  BY <1>1, <1>6 DEF EachRight, Stage
<1>8. p.pc \in {"UpdateLoan", "CreateLoanRecord", "UpdateLoanRecord"} => DOMAIN e = {Loan} /\ e[Loan] = g[Loan] /\ IsLive(g, Loan)
  BY <1>1, <1>4 DEF EditRight, IsLive
<1>9. p.op = "CreateLoan" /\ p.pc \in {"create", "commit"} => g[Loan].state = "free"
  BY <1>1, <1>2, <1>5 DEF EditRight
<1>10. p.op = "CreateLoanRecord" /\ p.pc = "commit" =>
           /\ g[p.id].state = "free" /\ DOMAIN e \cap Records = {p.id}
           /\ \A t \in DOMAIN e \cap Txns : e[t].owner = p.id /\ g[t].state = "free"
  BY <1>1, <1>4 DEF EditRight
<1>11. ASSUME p.op \notin Deleters, p.pc = "commit" PROVE Good(w)
  <2>1. p.op \in {"CreateLoan", "CreateLoanRecord", "UpdateLoanRecord"}
    BY <1>1, <1>11 DEF Stage, Deleters
  <2>2. Loan \in DOMAIN e
    BY <1>11, <2>1, BesideIs DEF Lockers, Waiting
  <2>3. c.op = "DeleteLoanRecord" /\ p.op # "UpdateLoanRecord"
    <3>1. c.op \in {"DeleteLoanRecord", "DeleteAccount"}
      BY <2>2, BesideIs
    <3>2. c.op # "DeleteAccount"
      BY <1>11, BesideIs
    <3> QED BY <3>1, <3>2, BesideIs
  <2>4. c.pc = "commit"
    BY <2>3, BesideIs DEF Beside, Stage
  <2> DEFINE k == c.id
             s == c.seen
  <2>5. /\ f[k].state # "free" /\ \A t \in Txns : IsLive(f, t) /\ f[t].owner = k => t = s
        /\ s \in Txns => f[s].state # "free" /\ f[s].owner = k
        /\ k \in DOMAIN d /\ d[k] = [f[k] EXCEPT !.state = "gone"] /\ DOMAIN d \subseteq {k, s}
        /\ s \in DOMAIN d => d[s] = [f[s] EXCEPT !.state = "gone"]
        /\ s \in Txns => ~IsLive(g, s)
    BY <1>1, <2>3, <2>4 DEF UnbookRight
  <2>6. k \in Records /\ k \in L!Rows /\ (s \in Txns => s \in L!Rows) /\ (s \notin Txns => s \notin L!Rows)
    BY <1>5
  <2> HIDE DEF k, s
  <2>7. p.op # "CreateLoan"
    BY <1>1, <1>11, <2>5, <2>6 DEF EditRight
  <2>8. /\ f[p.id].state = "free" /\ DOMAIN e \cap Records = {p.id}
        /\ \A t \in DOMAIN e \cap Txns : e[t].owner = p.id /\ f[t].state = "free"
        /\ Good(v)
    BY <1>1, <1>11, <2>1, <2>3, <2>7 DEF EditRight, v
  <2>9. k \notin DOMAIN e /\ k # p.id /\ (s \in Txns => s \notin DOMAIN e)
    BY <2>5, <2>6, <2>8
  <2>10. v[k] = f[k] /\ w[k] = [v[k] EXCEPT !.state = "gone"]
    BY <1>2, <1>3, <2>5, <2>6, <2>9
  <2>11. \A t \in Txns : IsLive(v, t) /\ v[t].owner = k => t = s
    BY <1>3, <1>5, <2>5, <2>8, <2>9 DEF IsLive
  <2>12. s \in Txns => /\ v[s].state # "free" /\ v[s].owner = k /\ ~IsLive(w, s)
                       /\ w[s] = v[s] \/ w[s] = [v[s] EXCEPT !.state = "gone"]
    BY <1>2, <1>3, <2>5, <2>6, <2>9 DEF IsLive
  <2>13. \A y \in L!Rows : y # k /\ ~(y = s /\ s \in Txns) => w[y] = v[y]
    BY <1>2, <1>3, <2>5, <2>6
  <2>14. v[k].state # "free"
    BY <2>5, <2>10
  <2>15. Removed(v, w, k, s)
    BY <2>10, <2>11, <2>12, <2>13, <2>14 DEF Removed
  <2> QED BY <1>3, <2>6, <2>8, <2>15, RemovalRight
<1>12. p.op = "UpdateLoan" /\ p.pc \in {"lock", "UpdateLoan"} => p.seen = None
  BY <1>1 DEF EditRight
<1> QED BY <1>7, <1>8, <1>9, <1>10, <1>11, <1>12 DEF EditRight, w

\* Nothing is written and nothing is left to write outside a transaction.
LEMMA AtRest ==
  ASSUME NEW f, NEW d, NEW q, DOMAIN d = {}, q.todo = {}, ~Busy(q) PROVE LocalRight(f, d, q)
BY DEF LocalRight, Holds, EditRight, EachRight, UnbookRight, SweepRight, Busy, Lockers, Deleters, Waiting

\* What a request leaves at its end is right.
LEMMA EndsRight ==
  ASSUME LoansSetting, LoansInv, ~overlap, NEW r \in Requests,
         req[r].pc = "commit" \/ (req[r].pc = "each" /\ req[r].todo = {})
  PROVE  Good(View(row, dirty[r]))
<1> DEFINE c == req[r]
           d == dirty[r]
           v == View(row, d)
<1>1. /\ row \in [L!Rows -> L!Row] /\ c \in L!RequestState /\ Stage(c) /\ v \in [L!Rows -> L!Row]
      /\ \A x \in DOMAIN d : d[x] \in L!Row
  BY Before1
<1>2. \A x \in L!Rows : v[x] = IF x \in DOMAIN d THEN d[x] ELSE row[x]
  BY <1>1, ViewIs
<1>3. Good(row) /\ EditRight(row, d, c) /\ EachRight(row, d, c) /\ UnbookRight(row, d, c) /\ SweepRight(row, d, c)
  BY CalmIs
<1>4. c.pc = "commit" \/ (c.pc = "each" /\ c.todo = {})
  OBVIOUS
<1>5. /\ c.id \in Records /\ c.seen \in Txns \cup {None} /\ Records \subseteq L!Rows /\ Txns \subseteq L!Rows
      /\ None \notin L!Rows
  BY <1>1 DEF LoansSetting, L!Rows, L!RequestState
<1> SUFFICES Good(v)
  OBVIOUS
<1> HIDE DEF c, d
<1>6. CASE c.pc = "each"
  <2>1. Right(v, {}, IF c.seen = None THEN {} ELSE {c.id}) /\ c.seen = None
    BY <1>3, <1>4, <1>6 DEF EachRight
  <2> QED BY <2>1 DEF Good
<1>7. CASE c.pc = "commit" /\ c.op \notin Deleters
  BY <1>3, <1>7 DEF EditRight
<1>8. CASE c.pc = "commit" /\ c.op = "DeleteLoanRecord"
  <2> DEFINE k == c.id
             s == c.seen
  <2>1. /\ row[k].state # "free" /\ \A t \in Txns : IsLive(row, t) /\ row[t].owner = k => t = s
        /\ s \in Txns => row[s].state # "free" /\ row[s].owner = k
        /\ k \in DOMAIN d /\ d[k] = [row[k] EXCEPT !.state = "gone"] /\ DOMAIN d \subseteq {k, s}
        /\ s \in DOMAIN d => d[s] = [row[s] EXCEPT !.state = "gone"]
        /\ s \in Txns => ~IsLive(v, s)
    BY <1>3, <1>8 DEF UnbookRight
  <2>2. k \in Records /\ k \in L!Rows /\ (s \in Txns => s \in L!Rows) /\ (s \notin Txns => s \notin L!Rows)
    BY <1>5
  <2> HIDE DEF k, s, v
  <2>3. Removed(row, v, k, s)
    BY <1>2, <2>1, <2>2 DEF Removed
  <2> QED BY <1>1, <1>3, <2>2, <2>3, RemovalRight
<1>9. CASE c.pc = "commit" /\ c.op \in {"DeleteLoan", "DeleteAccount"}
  <2>1. NoBooking(v) /\ (v[Loan].state = "gone" \/ \A x \in {Loan} \cup Records : ~v[x].booked)
    BY <1>3, <1>9 DEF SweepRight
  <2>2. \A x \in DOMAIN d : Shrinks(row[x], d[x])
    BY <1>3, <1>9 DEF SweepRight, Deleters
  <2> HIDE DEF v
  <2>3. \A x \in L!Rows : v[x] = row[x] \/ Shrinks(row[x], v[x])
    BY <1>2, <2>2
  <2>4. ~IsLive(v, Loan) \/ \A x \in {Loan} \cup Records : ~v[x].booked
    BY <2>1 DEF IsLive
  <2> QED BY <1>1, <1>3, <2>1, <2>3, <2>4, SweptRight
<1> QED BY <1>4, <1>6, <1>7, <1>8, <1>9 DEF Deleters

\* The others go on as before.
LEMMA OthersRight ==
  ASSUME LoansSetting, LoansInv, ~overlap, NEW r \in Requests, NEW p \in Requests \ {r}, NEW g, g = View(row, dirty[r]),
         req[r].pc = "commit" \/ (req[r].pc = "each" /\ req[r].todo = {})
  PROVE  LocalRight(g, dirty[p], req[p])
<1>1. CASE ~Busy(req[p])
  <2>1. Holds(dirty[p], req[p])
    BY CalmIs
  <2>2. DOMAIN dirty[p] = {} /\ req[p].todo = {}
    BY <1>1, <2>1 DEF Holds, Busy, Waiting
  <2> QED BY <1>1, <2>2, AtRest
<1>2. CASE Busy(req[p])
  <2>1. /\ row \in [L!Rows -> L!Row] /\ req[r] \in L!RequestState /\ Stage(req[r])
        /\ \A x \in DOMAIN dirty[r] : dirty[r][x] \in L!Row
    BY Before1
  <2>2. /\ req[p] \in L!RequestState /\ Stage(req[p]) /\ DOMAIN dirty[p] \subseteq L!Rows
        /\ \A x \in DOMAIN dirty[p] : dirty[p][x] \in L!Row
    BY Before1
  <2>3. Good(row) /\ Apart(req) /\ Before(row, dirty, req) /\ DOMAIN dirty[r] \cap DOMAIN dirty[p] = {}
    BY CalmIs
  <2>4. LocalRight(row, dirty[r], req[r]) /\ LocalRight(row, dirty[p], req[p])
    BY DEF LoansInv, Calm
  <2>5. Busy(req[r])
    BY DEF Busy
  <2>6. ~L!Clashes(req[r].op, req[p].op) /\ ~L!Clashes(req[p].op, req[r].op)
    BY <1>2, <2>3, <2>5 DEF Apart
  <2>7. /\ req[r].op = "CreateLoan" => req[p].op # "CreateLoan"
        /\ row[Loan].state = "free" =>
               (\A x \in L!Rows : row[x].state = "free") /\ (DOMAIN dirty[r] # {} => req[r].op = "CreateLoan")
    BY <2>3 DEF Before
  <2>8. Beside(row, dirty[r], req[r], dirty[p], req[p])
    BY <1>2, <2>1, <2>2, <2>3, <2>4, <2>6, <2>7 DEF Beside
  <2>9. Holds(dirty[p], req[p])
    BY <2>4 DEF LocalRight
  <2>10. EditRight(g, dirty[p], req[p]) /\ EachRight(g, dirty[p], req[p])
    BY <2>1, <2>2, <2>8, OtherEdit
  <2>11. UnbookRight(g, dirty[p], req[p])
    BY <2>1, <2>2, <2>8, OtherUnbook
  <2>12. SweepRight(g, dirty[p], req[p])
    BY <2>1, <2>2, <2>8, OtherSweep
  <2> QED BY <2>9, <2>10, <2>11, <2>12 DEF LocalRight
<1> QED BY <1>1, <1>2

\* A transaction commits.
LEMMA CommitStep == ASSUME LoansSetting, LoansInv, NEW r \in Requests, L!Commit(r) PROVE LoansInv'
<1> DEFINE g == View(row, dirty[r])
           q == [req[r] EXCEPT !.pc = "done", !.todo = {}, !.seen = None]
<1>1. /\ req[r].pc = "commit" \/ (req[r].pc = "each" /\ req[r].todo = {})
      /\ open' = (open /\ req[r].op # "DeleteAccount") /\ overlap' = overlap
      /\ dirty' = [dirty EXCEPT ![r] = [x \in {} |-> L!Blank(Loan)]]
  BY DEF L!Commit, L!Ended
<1>2. req' = [req EXCEPT ![r] = q]
  BY Before1 DEF L!Commit, L!Ended
<1>3. /\ row \in [L!Rows -> L!Row] /\ req \in [Requests -> L!RequestState] /\ DOMAIN dirty = Requests
      /\ open \in BOOLEAN /\ overlap \in BOOLEAN
      /\ \A p \in Requests : DOMAIN dirty[p] \subseteq L!Rows /\ \A x \in DOMAIN dirty[p] : dirty[p][x] \in L!Row
      /\ \A p \in Requests : Stage(req[p])
  BY DEF LoansInv, L!TypeOK
<1>4. g \in [L!Rows -> L!Row] /\ \A x \in L!Rows : g[x] = IF x \in DOMAIN dirty[r] THEN dirty[r][x] ELSE row[x]
  BY <1>3, ViewIs
<1>5. row' = g
  BY DEF L!Commit, L!Sees, View
<1>6. /\ q \in L!RequestState /\ q.pc = "done" /\ q.op = req[r].op /\ q.todo = {}
  BY Before1 DEF L!RequestState, L!Pcs
<1> HIDE DEF q, g
<1>7. DOMAIN dirty' = Requests /\ DOMAIN dirty'[r] = {} /\ \A p \in Requests \ {r} : dirty'[p] = dirty[p]
  BY <1>1, <1>3
<1>8. /\ req' \in [Requests -> L!RequestState] /\ req'[r] = q /\ \A p \in Requests \ {r} : req'[p] = req[p]
      /\ \A p \in Requests : req'[p].op = req[p].op
  BY <1>2, <1>3, <1>6
<1>9. L!TypeOK'
  <2>1. open' \in BOOLEAN
    BY <1>1, <1>3
  <2>2. {open', overlap'} \subseteq BOOLEAN
    BY <1>1, <1>3, <2>1
  <2>3. \A p \in Requests : DOMAIN dirty'[p] \subseteq L!Rows /\ \A x \in DOMAIN dirty'[p] : dirty'[p][x] \in L!Row
    BY <1>3, <1>7
  <2> QED BY <1>4, <1>5, <1>8, <2>2, <2>3 DEF L!TypeOK
<1>10. req[r].op \in L!Ops
  BY <1>1, <1>3 DEF Stage, L!Ops
<1>11. \A p \in Requests : Stage(req'[p])
  <2>1. Stage(q)
    BY <1>6, <1>10 DEF Stage
  <2> QED BY <1>3, <1>8, <2>1
<1>12. ~Busy(q)
  BY <1>6 DEF Busy
<1>13. ASSUME ~overlap PROVE Calm(row', dirty', req')
  <2>1. /\ Apart(req) /\ Before(row, dirty, req) /\ OneWriter(dirty) /\ Holds(dirty[r], req[r])
    BY <1>13, CalmIs DEF LoansInv, Calm
  <2>2. Good(row')
    BY <1>1, <1>5, <1>13, EndsRight DEF g
  <2>3. OneWriter(dirty')
    BY <1>7, <2>1 DEF OneWriter
  <2>4. Apart(req')
    <3> SUFFICES ASSUME NEW p \in Requests, NEW s \in Requests, p # s, Busy(req'[p]), Busy(req'[s])
                 PROVE  ~L!Clashes(req'[p].op, req'[s].op)
      BY DEF Apart
    <3>1. p # r /\ s # r
      BY <1>8, <1>12
    <3> QED BY <1>8, <2>1, <3>1 DEF Apart
  <2>5. Before(row', dirty', req')
    <3>1. \A p, s \in Requests : p # s /\ req'[p].op = "CreateLoan" => req'[s].op # "CreateLoan"
      BY <1>8, <2>1 DEF Before
    <3>2. ASSUME g[Loan].state = "free"
          PROVE  /\ \A x \in L!Rows : g[x].state = "free"
                 /\ \A p \in Requests : DOMAIN dirty'[p] # {} => req'[p].op = "CreateLoan"
      <4>1. Loan \in L!Rows
        BY DEF L!Rows
      <4>2. Loan \notin DOMAIN dirty[r] /\ row[Loan].state = "free"
        BY <1>4, <2>1, <3>2, <4>1 DEF Holds
      <4>3. req[r].op # "CreateLoan"
        <5> SUFFICES ASSUME req[r].op = "CreateLoan" PROVE FALSE
          OBVIOUS
        <5>1. req[r].op \in Lockers /\ req[r].pc \notin Waiting \cup {"fail"}
          BY <1>1 DEF Lockers, Waiting
        <5> QED BY <2>1, <4>2, <5>1 DEF Holds
      <4>4. DOMAIN dirty[r] = {} /\ \A x \in L!Rows : row[x].state = "free"
        BY <2>1, <4>2, <4>3 DEF Before
      <4>5. \A p \in Requests : DOMAIN dirty[p] # {} => req[p].op = "CreateLoan"
        BY <2>1, <4>2 DEF Before
      <4> QED BY <1>4, <1>7, <1>8, <4>4, <4>5
    <3> QED BY <1>5, <3>1, <3>2 DEF Before
  <2>6. \A p \in Requests : LocalRight(row', dirty'[p], req'[p])
    <3> SUFFICES ASSUME NEW p \in Requests PROVE LocalRight(row', dirty'[p], req'[p])
      OBVIOUS
    <3>1. CASE p = r
      BY <1>6, <1>7, <1>8, <1>12, <3>1, AtRest
    <3>2. CASE p # r
      <4>1. LocalRight(g, dirty[p], req[p])
        BY <1>1, <1>13, <3>2, OthersRight DEF g
      <4> QED BY <1>5, <1>7, <1>8, <3>2, <4>1
    <3> QED BY <3>1, <3>2
  <2> QED BY <2>2, <2>3, <2>4, <2>5, <2>6 DEF Calm
<1> QED BY <1>1, <1>7, <1>9, <1>11, <1>13 DEF LoansInv

\* A request arrives, and what it reads before its transaction is right.
LEMMA StartStep == ASSUME LoansSetting, LoansInv, NEW r \in Requests, L!Start(r) PROVE LoansInv'
<1>1. req[r].pc = "idle" /\ UNCHANGED <<row, open, dirty>>
  BY DEF L!Start
<1>2. PICK op \in L!Ops, id \in Records, account \in BOOLEAN :
           /\ op \in {"DeleteLoan", "DeleteLoanRecord", "DeleteAccount"} => ~account
           /\ op \in {"CreateLoan", "UpdateLoan", "DeleteLoan", "DeleteAccount"} => id = Recorded
           /\ op = "CreateLoan" => row[Loan].state = "free" /\ \A q \in Requests : req[q].op # "CreateLoan"
           /\ op \in {"UpdateLoan", "CreateLoanRecord"} => row[Loan].state # "free"
           /\ op = "DeleteLoanRecord" => row[id].state = "live" /\ row[Loan].state = "live"
           /\ op = "CreateLoanRecord" => row[id].state = "free"
           /\ op \in {"UpdateLoanRecord"} => row[id].state = "live"
           /\ req' = [req EXCEPT ![r] = [op |-> op, id |-> id, account |-> account, todo |-> {},
                         seen |-> IF op = "DeleteLoanRecord" THEN row[id].txn ELSE None,
                         pc |-> CASE op = "DeleteLoanRecord" -> "delete record"
                                  [] op = "DeleteAccount" -> "close"
                                  [] op = "CreateLoan" -> "create"
                                  [] OTHER -> "lock"]]
           /\ overlap' = (overlap \/ \E q \in Requests :
                            L!InTx(q) /\ (L!Clashes(op, req[q].op) \/ L!Clashes(req[q].op, op)))
  BY DEF L!Start
<1> DEFINE read == IF op = "DeleteLoanRecord" THEN row[id].txn ELSE None
           at == CASE op = "DeleteLoanRecord" -> "delete record"
                   [] op = "DeleteAccount" -> "close"
                   [] op = "CreateLoan" -> "create"
                   [] OTHER -> "lock"
           q == [op |-> op, id |-> id, account |-> account, todo |-> {}, seen |-> read, pc |-> at]
<1>3. req' = [req EXCEPT ![r] = q]
  BY <1>2
<1>4. /\ row \in [L!Rows -> L!Row] /\ req \in [Requests -> L!RequestState] /\ DOMAIN dirty = Requests
      /\ open \in BOOLEAN /\ overlap \in BOOLEAN
      /\ \A p \in Requests : DOMAIN dirty[p] \subseteq L!Rows /\ \A x \in DOMAIN dirty[p] : dirty[p][x] \in L!Row
      /\ \A p \in Requests : Stage(req[p])
  BY DEF LoansInv, L!TypeOK
<1>5. /\ id \in L!Rows /\ Records \subseteq L!Rows /\ Txns \subseteq L!Rows /\ Loan \notin Records
  BY DEF L!Rows, LoansSetting
<1>6. /\ read \in Txns \cup {None} /\ (op = "DeleteLoanRecord" => read = row[id].txn) /\ (op = "UpdateLoan" => read = None)
  <2>1. row[id].txn \in Txns \cup {None}
    BY <1>4, <1>5 DEF L!Row
  <2> QED BY <2>1
<1>7. /\ op = "DeleteLoanRecord" => at = "delete record"
      /\ op = "DeleteAccount" => at = "close"
      /\ op = "CreateLoan" => at = "create"
      /\ op \notin {"DeleteLoanRecord", "DeleteAccount", "CreateLoan"} => at = "lock"
  OBVIOUS
<1> HIDE DEF read, at
<1>8. at \in {"lock", "create", "close", "delete record"}
  BY <1>7
<1>9. /\ q.op = op /\ q.id = id /\ q.pc = at /\ q.seen = read /\ q.todo = {} /\ q.account = account
      /\ q \in L!RequestState
  <2>1. at \in L!Pcs
    BY <1>8 DEF L!Pcs
  <2> QED BY <1>6, <2>1 DEF L!RequestState
<1> HIDE DEF q
<1>10. Stage(q)
  BY <1>7, <1>9 DEF Stage, L!Ops
<1>11. /\ req' \in [Requests -> L!RequestState] /\ req'[r] = q /\ \A p \in Requests \ {r} : req'[p] = req[p]
  BY <1>3, <1>4, <1>9
<1>12. overlap' \in BOOLEAN
  BY <1>2
<1>13. L!TypeOK'
  <2>1. {open', overlap'} \subseteq BOOLEAN
    BY <1>1, <1>4, <1>12
  <2>2. row' \in [L!Rows -> L!Row] /\ \A p \in Requests : DOMAIN dirty'[p] \subseteq L!Rows /\ \A x \in DOMAIN dirty'[p] : dirty'[p][x] \in L!Row
    BY <1>1, <1>4
  <2> QED BY <1>11, <2>1, <2>2 DEF L!TypeOK
<1>14. \A p \in Requests : Stage(req'[p])
  BY <1>4, <1>10, <1>11
<1>15. ASSUME ~overlap' PROVE Calm(row', dirty', req')
  <2>1. ~overlap /\ \A p \in Requests : L!InTx(p) => ~L!Clashes(op, req[p].op) /\ ~L!Clashes(req[p].op, op)
    BY <1>2, <1>15
  <2>2. Calm(row, dirty, req)
    BY <2>1 DEF LoansInv
  <2>3. /\ Good(row) /\ OneWriter(dirty) /\ Apart(req) /\ Before(row, dirty, req)
        /\ \A p \in Requests : LocalRight(row, dirty[p], req[p])
    BY <2>2 DEF Calm
  <2>4. DOMAIN dirty[r] = {}
    BY <1>1, <2>3 DEF LocalRight, Holds, Waiting
  <2>5. Apart(req')
    <3> SUFFICES ASSUME NEW p \in Requests, NEW s \in Requests, p # s, Busy(req'[p]), Busy(req'[s])
                 PROVE  ~L!Clashes(req'[p].op, req'[s].op)
      BY DEF Apart
    <3>1. \A m \in Requests : Busy(req[m]) => L!InTx(m)
      BY DEF Busy, L!InTx
    <3>2. CASE p = r
      BY <1>9, <1>11, <2>1, <3>1, <3>2
    <3>3. CASE s = r
      BY <1>9, <1>11, <2>1, <3>1, <3>3
    <3>4. CASE p # r /\ s # r
      BY <1>11, <2>3, <3>4 DEF Apart
    <3> QED BY <3>2, <3>3, <3>4
  <2>6. Before(row, dirty, req')
    <3>1. ASSUME NEW p \in Requests, NEW s \in Requests, p # s, req'[p].op = "CreateLoan" PROVE req'[s].op # "CreateLoan"
      <4>1. CASE p = r
        BY <1>2, <1>9, <1>11, <3>1, <4>1
      <4>2. CASE s = r
        BY <1>2, <1>9, <1>11, <3>1, <4>2
      <4>3. CASE p # r /\ s # r
        BY <1>11, <2>3, <3>1, <4>3 DEF Before
      <4> QED BY <4>1, <4>2, <4>3
    <3>2. row[Loan].state = "free" => /\ \A x \in L!Rows : row[x].state = "free"
                                      /\ \A p \in Requests : DOMAIN dirty[p] # {} => req'[p].op = "CreateLoan"
      BY <1>11, <2>3, <2>4 DEF Before
    <3> QED BY <3>1, <3>2 DEF Before
  <2>7. LocalRight(row, dirty[r], q)
    <3>1. Holds(dirty[r], q)
      BY <1>8, <1>9, <2>4 DEF Holds, Waiting
    <3>2. EditRight(row, dirty[r], q)
      BY <1>2, <1>6, <1>8, <1>9 DEF EditRight
    <3>3. EachRight(row, dirty[r], q)
      BY <1>8, <1>9 DEF EachRight
    <3>4. UnbookRight(row, dirty[r], q)
      <4> SUFFICES ASSUME op = "DeleteLoanRecord"
                   PROVE  /\ row[id].state # "free"
                          /\ \A t \in Txns : IsLive(row, t) /\ row[t].owner = id => t = read
                          /\ read \in Txns => row[read].state # "free" /\ row[read].owner = id
        BY <1>7, <1>9 DEF UnbookRight
      <4>1. row[id].state = "live" /\ read = row[id].txn
        BY <1>2, <1>6
      <4>2. Linked(row, {}) /\ Named(row)
        BY <2>3 DEF Good, Right
      <4> QED BY <1>5, <4>1, <4>2 DEF Linked, Named
    <3>5. SweepRight(row, dirty[r], q)
      BY <1>8, <1>9, <2>4 DEF SweepRight
    <3> QED BY <3>1, <3>2, <3>3, <3>4, <3>5 DEF LocalRight
  <2>8. \A p \in Requests : LocalRight(row, dirty[p], req'[p])
    BY <1>11, <2>3, <2>7
  <2>9. row' = row /\ dirty' = dirty
    BY <1>1
  <2> QED BY <2>3, <2>5, <2>6, <2>8, <2>9 DEF Calm
<1>16. DOMAIN dirty' = Requests
  BY <1>1, <1>4
<1> QED BY <1>13, <1>14, <1>15, <1>16 DEF LoansInv

\* Both beginnings are right: there is no loan, or one with a record, both booked.
LEMMA InitRight == ASSUME LoansSetting, L!Init PROVE LoansInv
<1>1. /\ Loan \notin Records /\ Loan \notin Txns /\ Records \cap Txns = {} /\ None \notin L!Rows
      /\ Recorded \in Records /\ Lent \in Txns /\ Repaid \in Txns /\ Lent # Repaid
      /\ L!Rows = {Loan} \cup Records \cup Txns
  BY DEF LoansSetting, L!Rows
<1>2. \A o \in {Loan} \cup Records : /\ L!Blank(o) \in L!Row /\ L!Blank(o).state = "free" /\ ~L!Blank(o).booked
                                     /\ L!Blank(o).txn = None /\ L!Blank(o).owner = o
                                     /\ L!Blank(o).terms = <<0, 0>>
  BY DEF L!Blank, L!Row
<1>3. row \in [L!Rows -> L!Row] /\ Good(row) /\ (row[Loan].state = "free" => \A x \in L!Rows : row[x].state = "free")
  <2>1. CASE row = L!NoLoan
    <3>1. \A x \in L!Rows : row[x] \in L!Row /\ row[x].state = "free" /\ ~row[x].booked /\ row[x].txn = None
      BY <1>1, <1>2, <2>1 DEF L!NoLoan
    <3>2. row \in [L!Rows -> L!Row]
      BY <2>1, <3>1 DEF L!NoLoan
    <3>3. Good(row)
      BY <1>1, <3>1 DEF Good, Right, Sound, Single, Linked, Named, Empty, Follows, IsLive
    <3> QED BY <3>1, <3>2, <3>3
  <2>2. CASE row = L!OneLoan
    <3> DEFINE b == L!Blank(Loan)
               c == L!Blank(Recorded)
    <3>1. row[Loan] = [b EXCEPT !.state = "live", !.booked = TRUE]
      BY <1>1, <2>2 DEF L!OneLoan
    <3>2. row[Recorded] = [c EXCEPT !.state = "live", !.booked = TRUE, !.txn = Repaid]
      BY <1>1, <2>2 DEF L!OneLoan
    <3>3. \A k \in Records \ {Recorded} : row[k] = L!Blank(k)
      BY <1>1, <2>2 DEF L!OneLoan
    <3>4. row[Lent] = L!CreateTransaction(Loan, <<0, 0>>)
      BY <1>1, <2>2 DEF L!OneLoan
    <3>5. row[Repaid] = L!CreateTransaction(Recorded, <<0, 0>>)
      BY <1>1, <2>2 DEF L!OneLoan
    <3>6. \A t \in Txns \ {Lent, Repaid} : row[t] = L!Blank(Loan)
      BY <1>1, <2>2 DEF L!OneLoan
    <3>7. \A o \in {Loan} \cup Records : /\ L!CreateTransaction(o, <<0, 0>>) \in L!Row
                                         /\ L!CreateTransaction(o, <<0, 0>>).state = "live"
                                         /\ L!CreateTransaction(o, <<0, 0>>).owner = o
                                         /\ L!CreateTransaction(o, <<0, 0>>).terms = <<0, 0>>
      BY DEF L!CreateTransaction, L!Row
    <3>19. b \in L!Row /\ b.terms = <<0, 0>> /\ c \in L!Row /\ c.terms = <<0, 0>>
      BY <1>1, <1>2
    <3> HIDE DEF b, c
    <3>8. /\ row[Loan] \in L!Row /\ row[Loan].state = "live" /\ row[Loan].booked /\ row[Loan].terms = <<0, 0>>
      BY <3>1, <3>19 DEF L!Row
    <3>9. /\ row[Recorded] \in L!Row /\ row[Recorded].state = "live" /\ row[Recorded].booked
          /\ row[Recorded].terms = <<0, 0>> /\ row[Recorded].txn = Repaid
      BY <1>1, <3>2, <3>19 DEF L!Row
    <3>10. /\ row[Lent] \in L!Row /\ row[Lent].state = "live" /\ row[Lent].owner = Loan /\ row[Lent].terms = <<0, 0>>
           /\ row[Repaid] \in L!Row /\ row[Repaid].state = "live" /\ row[Repaid].owner = Recorded
           /\ row[Repaid].terms = <<0, 0>>
      BY <1>1, <3>4, <3>5, <3>7
    <3>11. /\ \A k \in Records \ {Recorded} : row[k] \in L!Row /\ row[k].state = "free" /\ ~row[k].booked /\ row[k].txn = None
           /\ \A t \in Txns \ {Lent, Repaid} : row[t] \in L!Row /\ row[t].state = "free" /\ ~row[t].booked /\ row[t].txn = None
      BY <1>2, <3>3, <3>6
    <3>12. \A x \in L!Rows : row[x] \in L!Row
      BY <1>1, <3>8, <3>9, <3>10, <3>11
    <3>13. row \in [L!Rows -> L!Row]
      BY <2>2, <3>12 DEF L!OneLoan
    <3>14. \A t \in Txns : IsLive(row, t) => t \in {Lent, Repaid}
      BY <3>11 DEF IsLive
    <3>15. Sound(row) /\ Single(row) /\ Linked(row, {})
      BY <1>1, <3>8, <3>9, <3>10, <3>14 DEF Sound, Single, Linked, IsLive
    <3>16. Named(row) /\ Empty(row)
      BY <1>1, <3>8, <3>9, <3>10, <3>11 DEF Named, Empty
    <3>17. Follows(row, {})
      <4> SUFFICES ASSUME NEW x \in {Loan} \cup Records, IsLive(row, x) PROVE \E t \in Txns : Says(row, t, x)
        BY DEF Follows
      <4>1. x = Loan \/ x = Recorded
        BY <3>11 DEF IsLive
      <4>2. Says(row, Lent, Loan) /\ Says(row, Repaid, Recorded)
        BY <3>8, <3>9, <3>10 DEF Says, IsLive
      <4> QED BY <1>1, <4>1, <4>2
    <3>18. Good(row)
      BY <3>15, <3>16, <3>17 DEF Good, Right
    <3> QED BY <3>8, <3>13, <3>18
  <2> QED BY <2>1, <2>2 DEF L!Init
<1>4. /\ DOMAIN dirty = Requests /\ \A r \in Requests : DOMAIN dirty[r] = {}
      /\ open = TRUE /\ overlap = FALSE
  BY DEF L!Init
<1>5. /\ req = [r \in Requests |-> [op |-> "none", pc |-> "idle", id |-> Recorded, account |-> FALSE, seen |-> None, todo |-> {}]]
  BY DEF L!Init
<1>6. \A r \in Requests : req[r] \in L!RequestState /\ req[r].op = "none" /\ req[r].pc = "idle" /\ req[r].todo = {}
  BY <1>1, <1>5 DEF L!RequestState, L!Pcs
<1>7. req \in [Requests -> L!RequestState]
  BY <1>5, <1>6
<1>8. L!TypeOK
  BY <1>3, <1>4, <1>7 DEF L!TypeOK
<1>9. \A r \in Requests : Stage(req[r]) /\ ~Busy(req[r])
  BY <1>6 DEF Stage, Busy
<1>10. \A r \in Requests : LocalRight(row, dirty[r], req[r])
  BY <1>4, <1>6, <1>9, AtRest
<1>11. OneWriter(dirty) /\ Apart(req) /\ Before(row, dirty, req)
  BY <1>3, <1>4, <1>6, <1>9 DEF OneWriter, Apart, Before
<1> QED BY <1>3, <1>4, <1>8, <1>9, <1>10, <1>11 DEF LoansInv, Calm

\* Every statement of every request keeps it.
LEMMA LoansStep == ASSUME LoansSetting, LoansInv, [L!Next]_L!vars PROVE LoansInv'
<1>1. CASE UNCHANGED L!vars
  <2>1. row' = row /\ open' = open /\ dirty' = dirty /\ req' = req /\ overlap' = overlap
    BY <1>1 DEF L!vars
  <2> QED BY <2>1 DEF LoansInv, L!TypeOK
<1>2. CASE L!Next
  <2>1. PICK r \in Requests : L!Start(r) \/ L!Step(r) \/ L!Rollback(r)
    BY <1>2 DEF L!Next
  <2>2. CASE L!Start(r)
    BY <2>2, StartStep
  <2>3. CASE L!Rollback(r)
    BY <2>3, RollbackStep
  <2>4. CASE L!Step(r)
    BY <2>4, LockLoanStep, SoftDeleteLoanStep, CreateLoanStep, UpdateLoanStep, SaveRecordBookingStep, LinkStep,
       CreateLoanRecordStep, UpdateLoanRecordStep, SoftDeleteLoanRecordStep, UnbookStep, CloseAccountStep, FindRowsStep,
       SweepStep, CommitStep DEF L!Step
  <2> QED BY <2>1, <2>2, <2>3, <2>4
<1> QED BY <1>1, <1>2

\* LoansInv gives what is wanted of the committed rows.
LEMMA LoansInvGives == ASSUME LoansInv PROVE L!TypeOK /\ L!NoOrphanBooking /\ L!OneBooking /\ L!BookingFollows
<1>1. ~overlap => Good(row)
  BY DEF LoansInv, Calm
<1>2. L!NoOrphanBooking /\ L!OneBooking
  BY <1>1 DEF Good, Right, Sound, Single, IsLive, L!NoOrphanBooking, L!OneBooking, L!Orphan, L!OwnerOf
<1>3. L!BookingFollows
  BY <1>1 DEF Good, Right, Follows, Says, IsLive, L!BookingFollows
<1> QED BY <1>2, <1>3 DEF LoansInv

\* For any number of concurrent requests and of records: unless a deletion that does not
\* lock the loan overlapped a write beside it, every booking stands for a live loan or
\* record that is booked, stands alone for it, and is there, with the terms of both, for
\* everything that is booked (loans.go:440-569).
THEOREM LoansSafe ==
  ASSUME LoansSetting PROVE L!Spec => [](L!TypeOK /\ L!NoOrphanBooking /\ L!OneBooking /\ L!BookingFollows)
<1>1. L!Init => LoansInv
  BY InitRight
<1>2. LoansInv /\ [L!Next]_L!vars => LoansInv'
  BY LoansStep
<1>3. LoansInv => L!TypeOK /\ L!NoOrphanBooking /\ L!OneBooking /\ L!BookingFollows
  BY LoansInvGives
<1> QED BY <1>1, <1>2, <1>3, PTL DEF L!Spec
=============================================================================
