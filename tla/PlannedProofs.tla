--------------------------- MODULE PlannedProofs ---------------------------
(***************************************************************************)
(* What the planned-payment handlers guarantee for any number of plans,    *)
(* transactions, accounts and dates, proved from Planned.                  *)
(***************************************************************************)
EXTENDS Planned, FiniteSets, FiniteSetTheorems, TLAPS

Table == [Txn -> TxnRow \cup {NoTxn}]

(***************************************************************************)
(* The schedule arithmetic.                                                *)
(***************************************************************************)

\* Integer division by a positive step
LEMMA Division ==
    ASSUME NEW a \in Int, NEW n \in Nat, n > 0
    PROVE  /\ a \div n \in Int
           /\ n * (a \div n) <= a
           /\ a < n * (a \div n) + n
OBVIOUS

\* The next occurrence is after the given date.
LEMMA NextIsAfter ==
    ASSUME NEW start \in Int, NEW step \in Nat, step > 0, NEW date \in Int
    PROVE  NextAfter(start, step, date) \in Int /\ NextAfter(start, step, date) > date
<1>1. CASE start > date
  BY <1>1 DEF NextAfter
<1>2. CASE start <= date
  <2> DEFINE q == (date - start) \div step
  <2>1. q \in Int /\ date - start < step * q + step
    BY Division
  <2>2. step * (q + 1) = step * q + step
    BY <2>1
  <2>3. NextAfter(start, step, date) = start + step * (q + 1)
    BY <1>2 DEF NextAfter
  <2> HIDE DEF q
  <2> QED BY <2>1, <2>2, <2>3
<1> QED BY <1>1, <1>2

\* A longer wait holds at least as many whole steps.
LEMMA Monotone ==
    ASSUME NEW n \in Nat, NEW a \in Int, NEW b \in Int, a <= b
    PROVE  n * a <= n * b
<1>1. n * (b - a) >= 0
  OBVIOUS
<1>2. n * (b - a) = n * b - n * a
  OBVIOUS
<1> QED BY <1>1, <1>2

\* Whole steps cancel.
LEMMA Cancel ==
    ASSUME NEW n \in Nat, NEW a \in Int, NEW b \in Int, n * a < n * b
    PROVE  a < b
<1> SUFFICES ASSUME b <= a PROVE FALSE
  OBVIOUS
<1>1. n * b <= n * a
  BY Monotone
<1> QED BY <1>1

\* A row's schedule is a number of days every positive number of days.
LEMMA Schedule ==
    ASSUME NEW r \in PlanRow
    PROVE  /\ r.start \in Nat /\ r.start >= 1 /\ r.step \in Nat /\ r.step > 0
           /\ r.resolved \in 0..Horizon /\ Horizon \in Nat
<1>1. r.step \in Step /\ r.start \in 1..Horizon /\ r.resolved \in 0..Horizon
  BY DEF PlanRow, Date
<1>2. Horizon \in Nat /\ Step \subseteq Nat \ {0}
  BY PlannedAssumption
<1>3. r.step \in Nat \ {0}
  BY <1>1, <1>2
<1> QED BY <1>1, <1>2, <1>3

\* The next occurrence is a whole number of steps after the start.
LEMMA NextOnSchedule ==
    ASSUME NEW start \in Int, NEW step \in Nat, step > 0, NEW date \in Int
    PROVE  \E m \in Int : NextAfter(start, step, date) = start + step * m
<1>1. CASE start > date
  <2>1. NextAfter(start, step, date) = start + step * 0
    BY <1>1 DEF NextAfter
  <2> QED BY <2>1
<1>2. CASE ~(start > date)
  <2> DEFINE d == (date - start) \div step
  <2>1. d + 1 \in Int
    BY Division
  <2>2. NextAfter(start, step, date) = start + step * (d + 1)
    BY <1>2 DEF NextAfter
  <2> HIDE DEF d
  <2> QED BY <2>1, <2>2
<1> QED BY <1>1, <1>2

\* The last occurrence before a date is not before any other that precedes it.
LEMMA LastIsLast ==
    ASSUME NEW start \in Int, NEW step \in Nat, step > 0, NEW date \in Int,
           NEW m \in Int, start + step * m < date
    PROVE  LET last == start + step * ((date - 1 - start) \div step)
           IN  last \in Int /\ last < date /\ start + step * m <= last
<1> DEFINE q == (date - 1 - start) \div step
<1>1. /\ q \in Int /\ step * q <= date - 1 - start
      /\ date - 1 - start < step * q + step
  BY Division
<1> HIDE DEF q
<1>2. step * (q + 1) = step * q + step
  BY <1>1
<1>3. step * m < step * (q + 1)
  BY <1>1, <1>2
<1>4. m < q + 1
  BY <1>1, <1>3, Cancel
<1>5. step * m <= step * q
  BY <1>1, <1>4, Monotone
<1>6. start + step * q \in Int /\ start + step * q < date /\ start + step * m <= start + step * q
  BY <1>1, <1>5
<1> QED BY <1>6 DEF q

\* Stepping over the overdue occurrences never steps back, nor past the clock.
LEMMA CaughtUpForward ==
    ASSUME NEW r \in PlanRow, NEW date \in 0..Horizon, now \in Date
    PROVE  CaughtUp(r, date) \in 0..Horizon /\ CaughtUp(r, date) >= date
<1>0. /\ r.start \in Int /\ r.step \in Nat /\ r.step > 0
      /\ date \in Int /\ date >= 0 /\ date <= Horizon
      /\ now \in Int /\ now <= Horizon /\ Horizon \in Int
  BY Schedule DEF Date
<1>1. CASE ~(NextAfter(r.start, r.step, date) < now)
  BY <1>0, <1>1 DEF CaughtUp
<1>2. CASE NextAfter(r.start, r.step, date) < now
  <2>1. PICK m \in Int : NextAfter(r.start, r.step, date) = r.start + r.step * m
    BY <1>0, NextOnSchedule
  <2>2. /\ LastBefore(r, now) \in Int /\ LastBefore(r, now) < now
        /\ NextAfter(r.start, r.step, date) <= LastBefore(r, now)
    <3>1. r.start + r.step * m < now
      BY <1>2, <2>1
    <3>2. /\ LastBefore(r, now) \in Int /\ LastBefore(r, now) < now
          /\ r.start + r.step * m <= LastBefore(r, now)
      BY <1>0, <3>1, LastIsLast, Zenon DEF LastBefore
    <3> QED BY <2>1, <3>2, Zenon
  <2>3. NextAfter(r.start, r.step, date) \in Int /\ NextAfter(r.start, r.step, date) > date
    BY <1>0, NextIsAfter
  <2>4. CaughtUp(r, date) = LastBefore(r, now)
    BY <1>2 DEF CaughtUp
  <2> HIDE DEF LastBefore
  <2> QED BY <1>0, <2>2, <2>3, <2>4
<1> QED BY <1>1, <1>2

(***************************************************************************)
(* The rows the handlers write.                                            *)
(***************************************************************************)
\* advancePlan writes a well-typed row whose resolved_until is not earlier.
LEMMA AdvancedRow ==
    ASSUME NEW r \in PlanRow, NEW due \in 0..Horizon, NEW skip \in BOOLEAN, now \in Date
    PROVE  /\ Advanced(r, due, skip) \in PlanRow
           /\ Advanced(r, due, skip).phase = r.phase
           /\ Advanced(r, due, skip).account = r.account
           /\ Advanced(r, due, skip).resolved >= r.resolved
<1>1. r.resolved \in 0..Horizon /\ Horizon \in Nat
  BY PlannedAssumption DEF PlanRow
<1>2. Later(due, r.resolved) \in 0..Horizon /\ Later(due, r.resolved) >= r.resolved
  BY <1>1 DEF Later
<1>3. /\ CaughtUp(r, Later(due, r.resolved)) \in 0..Horizon
      /\ CaughtUp(r, Later(due, r.resolved)) >= r.resolved
  BY <1>1, <1>2, CaughtUpForward
<1> QED BY <1>1, <1>2, <1>3 DEF Advanced, PlanRow

\* Pending and Paid build well-typed transactions rows.
LEMMA RowTypes ==
    ASSUME NEW p \in Plan, NEW due \in 0..Horizon, NEW a \in Account \cup {NoAccount}
    PROVE  /\ Pending(p, due, a) \in TxnRow /\ Pending(p, due, a) # NoTxn
           /\ Pending(p, due, a).plan = p /\ Pending(p, due, a).state = "pending"
           /\ Pending(p, due, a).due = due /\ Pending(p, due, a).account = a
           /\ Paid(p, a) \in TxnRow /\ Paid(p, a) # NoTxn
           /\ Paid(p, a).plan = p /\ Paid(p, a).state = "paid"
           /\ Paid(p, a).account = a
  BY PlannedAssumption DEF Pending, Paid, TxnRow, Never

\* SoftDeletePlannedPayment writes a well-typed row without a due date.
LEMMA DeletedRow ==
    ASSUME NEW r \in PlanRow
    PROVE  /\ Deleted(r) \in PlanRow /\ Deleted(r).phase = "deleted"
           /\ Deleted(r).resolved = r.resolved
  BY DEF Deleted, PlanRow

(***************************************************************************)
(* syncPending and Store, on whatever table the handler left.              *)
(***************************************************************************)
OnePer(table) ==
    \A t, u \in Txn :
        IsPending(table[t]) /\ IsPending(table[u]) /\ table[t].plan = table[u].plan => t = u

OnUsable(table) == \A t \in Txn : table[t] # NoTxn => table[t].account \in Usable

\* The new table agrees with the old one except on the pending rows of p, of
\* which the plan row r decides the content.
Follows(p, r, table, new) ==
    \A t \in Txn : \/ new[t] = NoTxn
                   \/ new[t] = table[t] /\ (IsPending(new[t]) => new[t].plan # p)
                   \/ new[t] = Pending(p, NextDue(r), r.account)

\* syncPending leaves each row alone or makes it the plan's pending occurrence.
LEMMA SyncFollows ==
    ASSUME NEW p \in Plan, NEW r \in PlanRow, NEW table \in Table, OnePer(table),
           SyncPending(p, r, table)
    PROVE  txn' \in Table /\ OnePer(txn') /\ Follows(p, r, table, txn')
<1> DEFINE row == Pending(p, NextDue(r), r.account)
<1>0. r.account \in Account \cup {NoAccount}
  BY DEF PlanRow
<1>1. NextDue(r) \in Date => /\ row \in TxnRow /\ row # NoTxn /\ row.plan = p
                            /\ row.state = "pending" /\ IsPending(row)
  BY <1>0, RowTypes DEF Date, IsPending
<1> HIDE DEF row
<1>2. CASE txn' = [t \in Txn |-> IF t \in PendingFor(p, table) THEN NoTxn ELSE table[t]]
  <2>1. txn' \in Table
    BY <1>2 DEF Table
  <2>2. OnePer(txn')
    BY <1>2 DEF OnePer, IsPending
  <2>3. Follows(p, r, table, txn')
    BY <1>2 DEF Follows, PendingFor, IsPending
  <2> QED BY <2>1, <2>2, <2>3
<1>3. CASE /\ NextDue(r) \in Date
           /\ txn' = [t \in Txn |-> IF t \in PendingFor(p, table) THEN row ELSE table[t]]
  <2>1. txn' \in Table
    BY <1>1, <1>3 DEF Table
  <2>2. \A t \in Txn : IsPending(txn'[t]) <=> IsPending(table[t])
    BY <1>1, <1>3 DEF PendingFor
  <2>3. \A t \in Txn : IsPending(table[t]) => txn'[t].plan = table[t].plan
    BY <1>1, <1>3 DEF PendingFor
  <2>4. OnePer(txn')
    BY <2>2, <2>3 DEF OnePer
  <2>5. Follows(p, r, table, txn')
    BY <1>3 DEF Follows, PendingFor, row
  <2> QED BY <2>1, <2>4, <2>5
<1>4. ASSUME NextDue(r) \in Date, PendingFor(p, table) = {},
             NEW n \in Txn, table[n] = NoTxn, txn' = [table EXCEPT ![n] = row]
      PROVE  txn' \in Table /\ OnePer(txn') /\ Follows(p, r, table, txn')
  <2>1. txn' \in Table
    BY <1>1, <1>4 DEF Table
  <2>2. \A t \in Txn : txn'[t] = IF t = n THEN row ELSE table[t]
    BY <1>4 DEF Table
  <2>3. \A t \in Txn : IsPending(table[t]) => table[t].plan # p
    BY <1>4 DEF PendingFor
  <2>4. OnePer(txn')
    BY <1>1, <1>4, <2>2, <2>3 DEF OnePer
  <2>5. Follows(p, r, table, txn')
    BY <2>2, <2>3 DEF Follows, row
  <2> QED BY <2>1, <2>4, <2>5
<1> QED BY <1>2, <1>3, <1>4 DEF SyncPending, row

\* What a stored plan row and its synced table satisfy.
LEMMA StoreFacts ==
    ASSUME TypeOK, NEW p \in Plan, NEW r \in PlanRow, NEW table \in Table,
           OnePer(table), OnUsable(table), Store(p, r, table), UNCHANGED live,
           r.phase = "live" => r.account \in Usable
    PROVE  /\ plan' \in [Plan -> PlanRow] /\ plan' = [plan EXCEPT ![p] = r]
           /\ txn' \in Table /\ OnePer(txn')
           /\ \A t \in Txn : txn'[t] # NoTxn => txn'[t].account \in Usable'
           /\ \A t \in Txn : IsPending(txn'[t]) =>
                 IF txn'[t].plan = p /\ r.phase = "live"
                 THEN txn'[t].due = NextDue(r) ELSE txn'[t] = table[t]
<1>1. plan' \in [Plan -> PlanRow] /\ plan' = [plan EXCEPT ![p] = r]
  BY DEF TypeOK, Store
<1>2. Usable' = Usable
  BY DEF Usable
<1>3. CASE r.phase # "live"
  <2>1. txn' = table
    BY <1>3 DEF Store
  <2> QED BY <1>1, <1>2, <1>3, <2>1 DEF OnUsable
<1>4. CASE r.phase = "live"
  <2>1. txn' \in Table /\ OnePer(txn') /\ Follows(p, r, table, txn')
    BY <1>4, SyncFollows DEF Store
  <2> DEFINE row == Pending(p, NextDue(r), r.account)
  <2>2. row.plan = p /\ row.due = NextDue(r) /\ row.account = r.account /\ row.state = "pending"
    BY DEF Pending
  <2> HIDE DEF row
  <2>3. \A t \in Txn :
          \/ txn'[t] = NoTxn
          \/ txn'[t] = table[t] /\ (IsPending(txn'[t]) => txn'[t].plan # p)
          \/ txn'[t] = row
    BY <2>1 DEF Follows, row
  <2>4. \A t \in Txn : txn'[t] # NoTxn => txn'[t].account \in Usable'
    BY <1>2, <1>4, <2>2, <2>3 DEF OnUsable
  <2>5. ASSUME NEW t \in Txn, IsPending(txn'[t])
        PROVE  IF txn'[t].plan = p /\ r.phase = "live"
               THEN txn'[t].due = NextDue(r) ELSE txn'[t] = table[t]
    BY <1>4, <2>2, <2>3, <2>5 DEF IsPending
  <2> QED BY <1>1, <2>1, <2>4, <2>5
<1> QED BY <1>3, <1>4

(***************************************************************************)
(* One lemma per action: it keeps the invariant, resolves forward, and, if *)
(* due dates are not edited, keeps pending items on schedule.              *)
(***************************************************************************)
\* A plan not yet created has resolved nothing.
Untouched == \A p \in Plan : plan[p].phase = "none" => plan[p].resolved = Never

IInv == TypeOK /\ Untouched /\ AtMostOnePending /\ NothingOnDeletedAccount

Kept == /\ IInv'
        /\ \A p \in Plan : NeverBack(p)
        /\ "due" \notin Patch /\ PendingIsNext => PendingIsNext'

\* What IInv says of the transactions, in the terms of the lemmas above
LEMMA InTerms == ASSUME IInv PROVE txn \in Table /\ OnePer(txn) /\ OnUsable(txn)
  BY DEF IInv, TypeOK, Table, OnePer, OnUsable, AtMostOnePending, NothingOnDeletedAccount

\* A handler that stores one plan row and syncs it keeps the invariant.
LEMMA StoreStep ==
    ASSUME IInv, NEW p \in Plan, NEW r \in PlanRow, NEW table \in Table,
           OnePer(table), OnUsable(table), Store(p, r, table), UNCHANGED <<live, now>>,
           r.phase = "live" => r.account \in Usable,
           r.phase # "live" => r = plan[p],
           r.resolved >= plan[p].resolved \/ Reopens(plan[p], r.active, r.oneTime),
           \A t \in Txn : IsPending(table[t]) => table[t] = txn[t]
    PROVE  Kept
<1>1. /\ plan' \in [Plan -> PlanRow] /\ plan' = [plan EXCEPT ![p] = r]
      /\ txn' \in Table /\ OnePer(txn')
      /\ \A t \in Txn : txn'[t] # NoTxn => txn'[t].account \in Usable'
      /\ \A t \in Txn : IsPending(txn'[t]) =>
            IF txn'[t].plan = p /\ r.phase = "live"
            THEN txn'[t].due = NextDue(r) ELSE txn'[t] = table[t]
  BY StoreFacts DEF IInv
<1>2. plan'[p] = r /\ \A q \in Plan \ {p} : plan'[q] = plan[q]
  BY <1>1 DEF IInv, TypeOK
<1>3. TypeOK'
  BY <1>1 DEF IInv, TypeOK, Table
<1>4. AtMostOnePending'
  BY <1>1 DEF OnePer, AtMostOnePending
<1>5. NothingOnDeletedAccount'
  <2>1. Usable' = Usable
    BY DEF Usable
  <2> QED BY <1>1, <1>2, <2>1 DEF NothingOnDeletedAccount, IInv, Live
<1>6. \A q \in Plan : NeverBack(q)
  <2>1. \A q \in Plan : plan[q].resolved >= plan[q].resolved
    BY Schedule DEF IInv, TypeOK
  <2> QED BY <1>2, <2>1 DEF NeverBack
<1>7. ASSUME PendingIsNext PROVE PendingIsNext'
  <2> SUFFICES ASSUME NEW t \in Txn, IsPending(txn'[t]),
                      plan'[txn'[t].plan].phase = "live"
               PROVE  txn'[t].due = NextDue(plan'[txn'[t].plan])
    BY DEF PendingIsNext, Live
  <2>1. txn'[t].plan \in Plan
    BY <1>1 DEF Table, TxnRow, IsPending
  <2>2. CASE txn'[t].plan = p
    BY <1>1, <1>2, <2>2
  <2>3. CASE txn'[t].plan # p
    <3>1. txn'[t] = txn[t]
      BY <1>1, <2>3
    <3>2. plan'[txn[t].plan] = plan[txn[t].plan]
      BY <1>2, <2>1, <2>3, <3>1
    <3> QED BY <1>7, <3>1, <3>2 DEF PendingIsNext, Live
  <2> QED BY <2>2, <2>3
<1>8. Untouched'
  BY <1>1, <1>2 DEF Untouched, IInv
<1> QED BY <1>3, <1>4, <1>5, <1>6, <1>7, <1>8 DEF Kept, IInv

\* CreatePlanned keeps the invariant.
LEMMA CreateStep == ASSUME IInv, NEW p \in Plan, CreatePlanned(p) PROVE Kept
<1>1. PICK start \in Date, step \in Step, one \in BOOLEAN, act \in BOOLEAN, a \in Usable :
        Store(p, [phase |-> "live", active |-> act, oneTime |-> one,
                  start |-> start, step |-> step, resolved |-> Never,
                  account |-> a], txn)
  BY DEF CreatePlanned
<1> DEFINE r == [phase |-> "live", active |-> act, oneTime |-> one, start |-> start,
                 step |-> step, resolved |-> Never, account |-> a]
<1>2. r \in PlanRow /\ r.phase = "live" /\ r.account = a
  BY PlannedAssumption DEF PlanRow, Never, Usable, IInv, TypeOK
<1>3. r.resolved >= plan[p].resolved
  BY DEF CreatePlanned, IInv, Untouched, Never
<1>4. Store(p, r, txn)
  BY <1>1
<1> HIDE DEF r
<1> QED BY <1>2, <1>3, <1>4, InTerms, StoreStep DEF CreatePlanned

\* UpdatePlanned keeps the invariant.
LEMMA UpdateStep == ASSUME IInv, NEW p \in Plan, UpdatePlanned(p) PROVE Kept
<1>1. PICK start \in Date, step \in Step, one \in BOOLEAN, act \in BOOLEAN, a \in Usable :
        Store(p, [phase |-> "live", active |-> act, oneTime |-> one,
                  start |-> start, step |-> step,
                  resolved |-> IF Reopens(plan[p], act, one)
                               THEN Never ELSE plan[p].resolved,
                  account |-> a], txn)
  BY DEF UpdatePlanned
<1> DEFINE r == [phase |-> "live", active |-> act, oneTime |-> one, start |-> start,
                 step |-> step,
                 resolved |-> IF Reopens(plan[p], act, one)
                              THEN Never ELSE plan[p].resolved,
                 account |-> a]
<1>0. plan[p].resolved \in 0..Horizon /\ Horizon \in Nat
  BY Schedule DEF IInv, TypeOK
<1>2. r \in PlanRow /\ r.phase = "live" /\ r.account = a
  BY <1>0 DEF PlanRow, Never, Usable, IInv, TypeOK
<1>3. r.resolved >= plan[p].resolved \/ Reopens(plan[p], r.active, r.oneTime)
  BY <1>0
<1>4. Store(p, r, txn)
  BY <1>1
<1> HIDE DEF r
<1> QED BY <1>2, <1>3, <1>4, InTerms, StoreStep DEF UpdatePlanned

\* The table a handler leaves when occurrence t becomes paid or goes away
LEMMA ResolveStep ==
    ASSUME IInv, NEW t \in Txn, IsPending(txn[t]), NEW row,
           \/ row = NoTxn
           \/ \E a \in live : row = Paid(txn[t].plan, a),
           Resolve(t, row, FALSE), UNCHANGED <<live, now>>
    PROVE  Kept
<1> DEFINE p == txn[t].plan
           r == Advanced(plan[p], txn[t].due, FALSE)
           table == [txn EXCEPT ![t] = row]
<1>1. txn \in Table /\ txn[t] \in TxnRow /\ p \in Plan /\ txn[t].due \in 0..Horizon
  BY InTerms DEF Table, TxnRow, IsPending
<1>2. plan[p] \in PlanRow /\ now \in Date
  BY <1>1 DEF IInv, TypeOK
<1>3. /\ r \in PlanRow /\ r.phase = plan[p].phase /\ r.account = plan[p].account
      /\ r.resolved >= plan[p].resolved /\ (r.phase # "live" => r = plan[p])
  BY <1>1, <1>2, AdvancedRow DEF Advanced
<1>4. /\ row \in TxnRow \cup {NoTxn} /\ ~IsPending(row)
      /\ row # NoTxn => row.account \in Usable
  BY <1>1, RowTypes DEF IsPending, Usable, IInv, TypeOK
<1>5. table \in Table /\ OnePer(table) /\ OnUsable(table)
  BY <1>1, <1>4, InTerms DEF Table, OnePer, OnUsable
<1>6. \A u \in Txn : IsPending(table[u]) => table[u] = txn[u]
  BY <1>1, <1>4 DEF Table
<1>7. r.phase = "live" => r.account \in Usable
  BY <1>1, <1>3 DEF IInv, NothingOnDeletedAccount, Live
<1>8. Store(p, r, table)
  BY DEF Resolve
<1> HIDE DEF r, p, table
<1> QED BY <1>1, <1>3, <1>5, <1>6, <1>7, <1>8, StoreStep

\* PayTransaction keeps the invariant.
LEMMA PayStep == ASSUME IInv, NEW t \in Txn, PayTransaction(t) PROVE Kept
<1>1. PICK a \in live : Resolve(t, Paid(txn[t].plan, a), FALSE)
  BY DEF PayTransaction
<1> DEFINE row == Paid(txn[t].plan, a)
<1>2. \E b \in live : row = Paid(txn[t].plan, b)
  OBVIOUS
<1>3. Resolve(t, row, FALSE)
  BY <1>1
<1> HIDE DEF row
<1> QED BY <1>2, <1>3, ResolveStep DEF PayTransaction

\* SkipTransaction keeps the invariant.
LEMMA SkipStep == ASSUME IInv, NEW t \in Txn, SkipTransaction(t) PROVE Kept
  BY ResolveStep DEF SkipTransaction

\* A plan's resolved_until never falls where its row is not written.
LEMMA NotBack ==
    ASSUME IInv, NEW p \in Plan, plan'[p].resolved = plan[p].resolved
    PROVE  NeverBack(p)
<1>1. plan[p].resolved >= plan[p].resolved
  BY Schedule DEF IInv, TypeOK
<1> QED BY <1>1 DEF NeverBack

\* One row is rewritten in place or freed; the plans stay.
LEMMA RowStep ==
    ASSUME IInv, NEW t \in Txn, NEW row \in TxnRow \cup {NoTxn},
           txn[t] # NoTxn,
           txn' = [txn EXCEPT ![t] = row], UNCHANGED <<plan, live, now>>,
           row # NoTxn => row.account \in Usable,
           IsPending(row) => /\ IsPending(txn[t]) /\ row.plan = txn[t].plan
                             /\ row.due = txn[t].due \/ "due" \in Patch
    PROVE  Kept
<1>1. \A u \in Txn : txn'[u] = IF u = t THEN row ELSE txn[u]
  BY DEF IInv, TypeOK
<1>2. TypeOK'
  BY DEF IInv, TypeOK
<1>3. AtMostOnePending'
  BY <1>1 DEF AtMostOnePending, IInv
<1>4. NothingOnDeletedAccount' /\ Untouched'
  BY <1>1 DEF NothingOnDeletedAccount, IInv, Usable, Live, Untouched
<1>5. \A p \in Plan : NeverBack(p)
  BY NotBack
<1>6. "due" \notin Patch /\ PendingIsNext => PendingIsNext'
  BY <1>1 DEF PendingIsNext, Live
<1> QED BY <1>2, <1>3, <1>4, <1>5, <1>6 DEF Kept, IInv

\* A PATCH of a pending occurrence keeps the invariant.
LEMMA UpdatePendingStep == ASSUME IInv, NEW t \in Txn, UpdatePending(t) PROVE Kept
<1>1. PICK due \in Date, a \in Usable :
        /\ due # txn[t].due => "due" \in Patch
        /\ txn' = [txn EXCEPT ![t] = Pending(txn[t].plan, due, a)]
  BY DEF UpdatePending
<1>2. txn[t].plan \in Plan
  BY DEF UpdatePending, IsPending, IInv, TypeOK, TxnRow
<1>3. due \in 0..Horizon /\ a \in Account \cup {NoAccount}
  BY PlannedAssumption DEF Date, Usable, IInv, TypeOK
<1> DEFINE row == Pending(txn[t].plan, due, a)
<1>4. /\ row \in TxnRow /\ row.plan = txn[t].plan /\ row.due = due /\ row.account = a
  BY <1>2, <1>3, RowTypes
<1>5. txn' = [txn EXCEPT ![t] = row]
  BY <1>1
<1>6. row.due = txn[t].due \/ "due" \in Patch
  BY <1>1, <1>4
<1> HIDE DEF row
<1> QED BY <1>4, <1>5, <1>6, RowStep DEF UpdatePending, IsPending

\* A PATCH or a delete of a paid occurrence keeps the invariant.
LEMMA PaidStep == ASSUME IInv, NEW t \in Txn, UpdatePaid(t) \/ DeletePaid(t) PROVE Kept
<1>1. CASE DeletePaid(t)
  <2>1. ~IsPending(NoTxn)
    BY DEF IsPending
  <2> QED BY <1>1, <2>1, RowStep DEF DeletePaid, IsPaid
<1>2. CASE UpdatePaid(t)
  <2>1. PICK a \in live : txn' = [txn EXCEPT ![t] = Paid(txn[t].plan, a)]
    BY <1>2 DEF UpdatePaid
  <2>2. txn[t] # NoTxn /\ txn[t].plan \in Plan /\ a \in Account
    BY <1>2 DEF UpdatePaid, IsPaid, IInv, TypeOK, TxnRow
  <2> DEFINE row == Paid(txn[t].plan, a)
  <2>3. row \in TxnRow /\ ~IsPending(row) /\ row.account = a
    BY <2>2, RowTypes, PlannedAssumption DEF IsPending, Date
  <2>4. txn' = [txn EXCEPT ![t] = row]
    BY <2>1
  <2> HIDE DEF row
  <2> QED BY <1>2, <2>2, <2>3, <2>4, RowStep DEF UpdatePaid, Usable
<1> QED BY <1>1, <1>2

\* Rows are freed and plans deleted: DeletePlanned, DeleteAccount.
LEMMA FreeStep ==
    ASSUME IInv, NEW gone, NEW dropped,
           txn' = [t \in Txn |-> IF t \in gone THEN NoTxn ELSE txn[t]],
           plan' = [p \in Plan |-> IF p \in dropped THEN Deleted(plan[p]) ELSE plan[p]],
           UNCHANGED now, live' \subseteq live,
           \A t \in Txn : txn[t] # NoTxn /\ t \notin gone => txn[t].account \in Usable',
           \A p \in Plan : Live(p) /\ p \notin dropped => plan[p].account \in Usable'
    PROVE  Kept
<1>1. \A p \in Plan :
        /\ plan'[p] \in PlanRow
        /\ plan'[p] = plan[p] \/ plan'[p].phase = "deleted"
        /\ plan'[p].resolved = plan[p].resolved
        /\ p \in dropped => plan'[p].phase = "deleted"
  BY DeletedRow DEF IInv, TypeOK
<1>2. TypeOK'
  BY <1>1 DEF IInv, TypeOK
<1>3. AtMostOnePending'
  BY DEF AtMostOnePending, IInv, IsPending
<1>4. NothingOnDeletedAccount' /\ Untouched'
  BY <1>1 DEF NothingOnDeletedAccount, IInv, Live, Untouched
<1>5. \A p \in Plan : NeverBack(p)
  BY <1>1, NotBack
<1>6. PendingIsNext => PendingIsNext'
  <2> SUFFICES ASSUME PendingIsNext, NEW t \in Txn, IsPending(txn'[t]),
                      plan'[txn'[t].plan].phase = "live"
               PROVE  txn'[t].due = NextDue(plan'[txn'[t].plan])
    BY DEF PendingIsNext, Live
  <2>1. txn'[t] = txn[t] /\ IsPending(txn[t])
    BY DEF IsPending
  <2>2. txn[t].plan \in Plan
    BY <2>1 DEF IInv, TypeOK, TxnRow, IsPending
  <2>3. plan'[txn[t].plan] = plan[txn[t].plan]
    BY <1>1, <2>1, <2>2
  <2> QED BY <2>1, <2>3 DEF PendingIsNext, Live
<1> QED BY <1>2, <1>3, <1>4, <1>5, <1>6 DEF Kept, IInv

\* DeletePlanned keeps the invariant.
LEMMA DeletePlannedStep == ASSUME IInv, NEW p \in Plan, DeletePlanned(p) PROVE Kept
<1>1. plan' = [q \in Plan |-> IF q \in {p} THEN Deleted(plan[q]) ELSE plan[q]]
  BY DEF DeletePlanned, IInv, TypeOK
<1>2. Usable' = Usable
  BY DEF DeletePlanned, Usable
<1>3. /\ \A t \in Txn : txn[t] # NoTxn => txn[t].account \in Usable'
      /\ \A q \in Plan : Live(q) => plan[q].account \in Usable'
  BY <1>2 DEF IInv, NothingOnDeletedAccount
<1> QED BY <1>1, <1>3, FreeStep DEF DeletePlanned

\* DeleteAccount keeps the invariant.
LEMMA DeleteAccountStep == ASSUME IInv, NEW a \in Account, DeleteAccount(a) PROVE Kept
<1> DEFINE gone == {t \in Txn : OnAccount(txn[t], a)}
           dropped == {p \in Plan : plan[p].account = a /\ plan[p].phase = "live"}
<1>1. txn' = [t \in Txn |-> IF t \in gone THEN NoTxn ELSE txn[t]]
  BY DEF DeleteAccount
<1>2. plan' = [p \in Plan |-> IF p \in dropped THEN Deleted(plan[p]) ELSE plan[p]]
  BY DEF DeleteAccount
<1>3. /\ \A t \in Txn : txn[t] # NoTxn /\ t \notin gone => txn[t].account \in Usable'
      /\ \A p \in Plan : Live(p) /\ p \notin dropped => plan[p].account \in Usable'
  BY DEF DeleteAccount, IInv, NothingOnDeletedAccount, Usable, OnAccount, Live
<1> HIDE DEF gone, dropped
<1> QED BY <1>1, <1>2, <1>3, FreeStep DEF DeleteAccount

\* What SkipOverdue writes: each listed plan moves forward, and its overdue
\* occurrence becomes the next one of the moved plan.
LEMMA SkippedFacts ==
    ASSUME IInv, NEW listed \in SUBSET Plan, SkipOverdue(listed)
    PROVE  /\ \A p \in listed :
                /\ SkippedRow(p) \in PlanRow /\ SkippedRow(p).phase = plan[p].phase
                /\ SkippedRow(p).resolved >= plan[p].resolved
                /\ NextDue(SkippedRow(p)) # Never => plan[p].phase = "live"
           /\ \A p \in listed : NextTxn(p) # NoTxn =>
                /\ NextTxn(p) \in TxnRow /\ NextTxn(p).plan = p
                /\ NextTxn(p).due = NextDue(SkippedRow(p))
                /\ NextTxn(p).account \in Usable
           /\ \A t \in Txn :
                IF IsPending(txn[t]) /\ txn[t].plan \in listed /\ t \in Overdue(txn[t].plan)
                THEN txn'[t] = NextTxn(txn[t].plan) ELSE txn'[t] = txn[t]
           /\ \A p \in Plan : plan'[p] = IF p \in listed THEN SkippedRow(p) ELSE plan[p]
           /\ \A p \in listed, t \in Txn :
                IsPending(txn[t]) /\ txn[t].plan = p => t \in Overdue(p)
<1>0. \A p \in Plan, t \in Txn : t \in Overdue(p) => IsPending(txn[t]) /\ txn[t].plan = p
  BY DEF Overdue, PendingFor
<1>1. ASSUME NEW p \in listed
      PROVE  /\ SkippedRow(p) \in PlanRow /\ SkippedRow(p).phase = plan[p].phase
             /\ SkippedRow(p).resolved >= plan[p].resolved
             /\ NextDue(SkippedRow(p)) # Never => plan[p].phase = "live"
  <2> DEFINE t == CHOOSE t \in Overdue(p) : TRUE
  <2>1. t \in Overdue(p)
    BY DEF SkipOverdue
  <2>2. t \in Txn /\ IsPending(txn[t])
    BY <2>1, <1>0 DEF Overdue, PendingFor
  <2>3. txn[t].due \in 0..Horizon /\ plan[p] \in PlanRow /\ now \in Date
    BY <2>2 DEF IInv, TypeOK, TxnRow, IsPending
  <2>4. SkippedRow(p) = Advanced(plan[p], txn[t].due, TRUE)
    BY DEF SkippedRow
  <2> HIDE DEF t
  <2>5. /\ SkippedRow(p) \in PlanRow /\ SkippedRow(p).phase = plan[p].phase
        /\ SkippedRow(p).resolved >= plan[p].resolved
    <3>1. \A r \in PlanRow, due \in 0..Horizon :
            /\ Advanced(r, due, TRUE) \in PlanRow
            /\ Advanced(r, due, TRUE).phase = r.phase
            /\ Advanced(r, due, TRUE).resolved >= r.resolved
      BY <2>3, AdvancedRow
    <3> QED BY <2>3, <2>4, <3>1
  <2>6. NextDue(SkippedRow(p)) # Never => SkippedRow(p).phase = "live"
    BY DEF NextDue
  <2> QED BY <2>5, <2>6
<1>2. ASSUME NEW p \in listed, NextTxn(p) # NoTxn
      PROVE  /\ NextTxn(p) \in TxnRow /\ NextTxn(p).plan = p
             /\ NextTxn(p).due = NextDue(SkippedRow(p))
             /\ NextTxn(p).account \in Usable
  <2>1. NextDue(SkippedRow(p)) \in 0..Horizon /\ NextDue(SkippedRow(p)) # Never
    BY <1>2, PlannedAssumption DEF SkipOverdue, NextTxn, Date, Never
  <2>2. NextTxn(p) = Pending(p, NextDue(SkippedRow(p)), plan[p].account)
    BY <2>1 DEF NextTxn
  <2>3. plan[p].account \in Account \cup {NoAccount} /\ plan[p].account \in Usable
    BY <1>1, <2>1 DEF IInv, TypeOK, PlanRow, NothingOnDeletedAccount, Live
  <2> QED BY <2>1, <2>2, <2>3, RowTypes
<1>3. ASSUME NEW t \in Txn
      PROVE  IF IsPending(txn[t]) /\ txn[t].plan \in listed /\ t \in Overdue(txn[t].plan)
             THEN txn'[t] = NextTxn(txn[t].plan) ELSE txn'[t] = txn[t]
  BY <1>0 DEF SkipOverdue
<1>4. \A p \in Plan : plan'[p] = IF p \in listed THEN SkippedRow(p) ELSE plan[p]
  BY DEF SkipOverdue
<1>5. ASSUME NEW p \in listed, NEW t \in Txn, IsPending(txn[t]), txn[t].plan = p
      PROVE  t \in Overdue(p)
  <2>1. PICK u \in Txn : u \in Overdue(p)
    BY DEF SkipOverdue, Overdue, PendingFor
  <2>2. u = t
    BY <1>0, <1>5, <2>1 DEF AtMostOnePending, IInv
  <2> QED BY <2>1, <2>2
<1> QED BY <1>1, <1>2, <1>3, <1>4, <1>5

\* SkipOverdue, over all listed plans at once, keeps the invariant.
LEMMA SkipOverdueStep ==
    ASSUME IInv, NEW listed \in SUBSET Plan, SkipOverdue(listed) PROVE Kept
<1>1. ASSUME NEW p \in listed
      PROVE  /\ SkippedRow(p) \in PlanRow /\ SkippedRow(p).phase = plan[p].phase
             /\ SkippedRow(p).resolved >= plan[p].resolved
             /\ NextDue(SkippedRow(p)) # Never => plan[p].phase = "live"
  BY SkippedFacts
<1>2. ASSUME NEW p \in listed, NextTxn(p) # NoTxn
      PROVE  /\ NextTxn(p) \in TxnRow /\ NextTxn(p).plan = p
             /\ NextTxn(p).due = NextDue(SkippedRow(p))
             /\ NextTxn(p).account \in Usable
  BY <1>2, SkippedFacts
<1>3. ASSUME NEW t \in Txn
      PROVE  IF IsPending(txn[t]) /\ txn[t].plan \in listed /\ t \in Overdue(txn[t].plan)
             THEN txn'[t] = NextTxn(txn[t].plan) ELSE txn'[t] = txn[t]
  BY SkippedFacts
<1>4. \A p \in Plan : plan'[p] = IF p \in listed THEN SkippedRow(p) ELSE plan[p]
  BY SkippedFacts
<1>5. TypeOK'
  <2>1. plan' \in [Plan -> PlanRow]
    BY <1>1 DEF SkipOverdue, IInv, TypeOK
  <2>2. \A t \in Txn : txn'[t] \in TxnRow \cup {NoTxn}
    BY <1>2, <1>3 DEF IInv, TypeOK
  <2> QED BY <2>1, <2>2 DEF SkipOverdue, IInv, TypeOK
<1>6. AtMostOnePending'
  BY <1>2, <1>3 DEF AtMostOnePending, IInv, IsPending
<1>7. NothingOnDeletedAccount'
  <2>1. Usable' = Usable
    BY DEF Usable, SkipOverdue
  <2>2. \A t \in Txn : txn'[t] # NoTxn => txn'[t].account \in Usable
    BY <1>2, <1>3 DEF IInv, NothingOnDeletedAccount
  <2>3. \A p \in listed : SkippedRow(p).account = plan[p].account
    BY DEF SkippedRow, Advanced
  <2>4. \A p \in Plan : plan'[p].phase = "live" => plan'[p].account \in Usable
    BY <1>1, <1>4, <2>3 DEF IInv, NothingOnDeletedAccount, Live
  <2> QED BY <2>1, <2>2, <2>4 DEF NothingOnDeletedAccount, Live
<1>8. Untouched'
  <2>1. ASSUME NEW p \in listed PROVE SkippedRow(p).phase = "none" => SkippedRow(p) = plan[p]
    BY <1>1 DEF SkippedRow, Advanced
  <2> QED BY <1>1, <1>4, <2>1 DEF Untouched, IInv
<1>9. \A p \in Plan : NeverBack(p)
  BY <1>1, <1>4, NotBack DEF NeverBack
<1>10. ASSUME PendingIsNext PROVE PendingIsNext'
  <2> SUFFICES ASSUME NEW t \in Txn, IsPending(txn'[t]),
                      plan'[txn'[t].plan].phase = "live"
               PROVE  txn'[t].due = NextDue(plan'[txn'[t].plan])
    BY DEF PendingIsNext, Live
  <2> DEFINE p == txn[t].plan
  <2>1. CASE IsPending(txn[t]) /\ p \in listed /\ t \in Overdue(p)
    BY <1>2, <1>3, <1>4, <2>1 DEF IsPending
  <2>2. CASE ~(IsPending(txn[t]) /\ p \in listed /\ t \in Overdue(p))
    <3>1. txn'[t] = txn[t] /\ IsPending(txn[t])
      BY <1>3, <2>2 DEF IsPending
    <3>2. p \in Plan
      BY <3>1 DEF IInv, TypeOK, TxnRow, IsPending
    <3>3. p \notin listed
      BY <2>2, <3>1, SkippedFacts
    <3>4. plan'[p] = plan[p]
      BY <1>4, <3>2, <3>3
    <3> QED BY <1>10, <3>1, <3>4 DEF PendingIsNext, Live
  <2> QED BY <2>1, <2>2
<1> QED BY <1>5, <1>6, <1>7, <1>8, <1>9, <1>10 DEF Kept, IInv

\* The clock and a stutter keep the invariant.
LEMMA IdleStep == ASSUME IInv, Tick \/ UNCHANGED vars PROVE Kept
<1>1. UNCHANGED <<plan, txn, live>> /\ now' \in Date
  <2>1. CASE Tick
    BY <2>1, PlannedAssumption DEF Tick, IInv, TypeOK, Date
  <2>2. CASE UNCHANGED vars
    BY <2>2 DEF vars, IInv, TypeOK
  <2> QED BY <2>1, <2>2
<1>2. IInv'
  BY <1>1 DEF IInv, TypeOK, Untouched, AtMostOnePending, NothingOnDeletedAccount, Usable, Live
<1>3. \A p \in Plan : NeverBack(p)
  BY <1>1, NotBack
<1>4. PendingIsNext => PendingIsNext'
  BY <1>1 DEF PendingIsNext, Live
<1> QED BY <1>2, <1>3, <1>4 DEF Kept

\* Every step keeps the invariant.
LEMMA NextStep == ASSUME IInv, [Next]_vars PROVE Kept
  BY CreateStep, UpdateStep, DeletePlannedStep, PayStep, SkipStep, UpdatePendingStep,
     PaidStep, SkipOverdueStep, DeleteAccountStep, IdleStep DEF Next

(***************************************************************************)
(* The theorems.                                                           *)
(***************************************************************************)
\* The invariant holds initially.
LEMMA Initially == Init => IInv /\ PendingIsNext
<1> SUFFICES ASSUME Init PROVE IInv /\ PendingIsNext
  OBVIOUS
<1>1. \A p \in Plan : plan[p] \in PlanRow /\ Unborn(plan[p])
  BY DEF Init
<1>2. TypeOK
  BY PlannedAssumption DEF Init, TypeOK, Date
<1>3. Untouched
  BY <1>1 DEF Untouched, Unborn
<1>4. AtMostOnePending /\ PendingIsNext
  BY DEF Init, AtMostOnePending, PendingIsNext, IsPending
<1>5. NothingOnDeletedAccount
  BY <1>1 DEF Init, NothingOnDeletedAccount, Unborn, Live
<1> QED BY <1>2, <1>3, <1>4, <1>5 DEF IInv

(* IInv is inductive: types, one pending occurrence per plan and nothing    *)
(* on a deleted account support each other through every handler.           *)
THEOREM Inductive == Spec => []IInv
<1>1. IInv /\ [Next]_vars => IInv'
  BY NextStep DEF Kept
<1> QED BY <1>1, Initially, PTL DEF Spec

(* Plans and transactions keep their types: a due date, a resolved_until   *)
(* and an account reference are always values the tables can hold.         *)
THEOREM TypeCorrect == Spec => []TypeOK
<1>1. IInv => TypeOK
  BY DEF IInv
<1> QED BY <1>1, Inductive, PTL

(* syncPending never inserts a second pending occurrence of a plan: the    *)
(* unique index never rejects what pay, skip, PATCH or skip-overdue store. *)
THEOREM OnePending == Spec => []AtMostOnePending
<1>1. IInv => AtMostOnePending
  BY DEF IInv
<1> QED BY <1>1, Inductive, PTL

(* DeleteAccount leaves no live transaction and no live plan on the        *)
(* account, and no handler books one on it later.                          *)
THEOREM NothingLeftBehind == Spec => []NothingOnDeletedAccount
<1>1. IInv => NothingOnDeletedAccount
  BY DEF IInv
<1> QED BY <1>1, Inductive, PTL

(* resolved_until moves back only when a completed one-time plan is        *)
(* re-opened: advancePlan takes the later date, and its catch-up loop      *)
(* never steps back.                                                       *)
THEOREM ResolvedForward == Spec => ResolvedNeverBack
<1>1. IInv /\ [Next]_vars => [\A p \in Plan : NeverBack(p)]_vars
  BY NextStep DEF Kept
<1> QED BY <1>1, Inductive, PTL DEF Spec, ResolvedNeverBack

(* Unless a client edits due dates, the pending occurrence of a live plan  *)
(* is the one nextDue computes from the plan's row, whatever was paid,     *)
(* skipped, re-scheduled, paused or re-opened before.                      *)
THEOREM OnSchedule == ASSUME "due" \notin Patch PROVE Spec => []PendingIsNext
<1>1. IInv /\ PendingIsNext /\ [Next]_vars => PendingIsNext'
  BY NextStep DEF Kept
<1> QED BY <1>1, Initially, Inductive, PTL DEF Spec
-----------------------------------------------------------------------------
(***************************************************************************)
(* skip-overdue.                                                           *)
(***************************************************************************)
\* NextAfter skips no date of the schedule.
LEMMA NextIsFirst ==
    ASSUME NEW start \in Int, NEW step \in Nat, step > 0, NEW date \in Int,
           NEW m \in Int, start + step * m > date, start + step * m >= start
    PROVE  NextAfter(start, step, date) <= start + step * m
<1>1. CASE start > date
  BY <1>1 DEF NextAfter
<1>2. CASE start <= date
  <2> DEFINE q == (date - start) \div step
  <2>1. q \in Int /\ step * q <= date - start
    BY Division
  <2>2. NextAfter(start, step, date) = start + step * (q + 1)
    BY <1>2 DEF NextAfter
  <2> HIDE DEF q
  <2>3. step * q < step * m
    BY <2>1
  <2>4. q + 1 <= m
    BY <2>1, <2>3, Cancel
  <2>5. step * (q + 1) <= step * m
    BY <2>1, <2>4, Monotone
  <2> QED BY <2>1, <2>2, <2>5
<1> QED BY <1>1, <1>2

\* Every date of the schedule is one NextAfter gives, and no date in between.
LEMMA NothingBetween ==
    ASSUME NEW start \in Int, NEW step \in Nat, step > 0,
           NEW date \in Int, NEW d \in Int, date < d, d < NextAfter(start, step, date)
    PROVE  d # NextAfter(start, step, d - 1)
<1> SUFFICES ASSUME d = NextAfter(start, step, d - 1) PROVE FALSE
  OBVIOUS
<1>0. d - 1 \in Int
  OBVIOUS
<1>1. PICK m \in Int : NextAfter(start, step, d - 1) = start + step * m
  BY <1>0, NextOnSchedule
<1>2. d >= start
  <2>1. CASE start > d - 1
    BY <2>1 DEF NextAfter
  <2>2. CASE ~(start > d - 1)
    BY <2>2
  <2> QED BY <2>1, <2>2
<1>3. NextAfter(start, step, date) <= start + step * m
  BY <1>1, <1>2, NextIsFirst
<1>4. NextAfter(start, step, date) \in Int
  BY NextIsAfter
<1> QED BY <1>1, <1>3, <1>4

\* After catching up, the next occurrence is the first one due now or later
\* that was not resolved before.
LEMMA CaughtUpFirst ==
    ASSUME NEW r \in PlanRow, NEW due \in 0..Horizon, due < now, now \in Date
    PROVE  LET until == Later(due, r.resolved)
               next  == NextAfter(r.start, r.step, CaughtUp(r, until))
           IN  /\ next \in Int /\ next >= now
               /\ \A d \in now..(next - 1) :
                     d <= r.resolved \/ d # NextAfter(r.start, r.step, d - 1)
<1> DEFINE until == Later(due, r.resolved)
           after == CaughtUp(r, until)
           next  == NextAfter(r.start, r.step, after)
<1>1. /\ r.start \in Int /\ r.step \in Nat /\ r.step > 0
      /\ r.resolved \in Int /\ due \in Int /\ now \in Int
  BY Schedule, PlannedAssumption DEF Date
<1>2. until \in 0..Horizon /\ until \in Int /\ (until = r.resolved \/ until = due)
  BY PlannedAssumption, Schedule DEF Later
<1> HIDE DEF until
<1>3. after \in Int
  BY <1>2, CaughtUpForward, PlannedAssumption
<1>4. next \in Int /\ next > after
  BY <1>1, <1>3, NextIsAfter
<1>5. CASE ~(NextAfter(r.start, r.step, until) < now)
  <2>1. after = until
    BY <1>5 DEF CaughtUp
  <2>2. next >= now
    BY <1>1, <1>4, <1>5, <2>1
  <2>3. ASSUME NEW d \in now..(next - 1), ~(d <= r.resolved)
        PROVE  d # NextAfter(r.start, r.step, d - 1)
    <3>1. d \in Int /\ until < d /\ d < next
      BY <1>1, <1>2, <1>4, <2>3
    <3> QED BY <1>1, <1>2, <2>1, <3>1, NothingBetween
  <2> QED BY <1>4, <2>2, <2>3 DEF until
<1>6. CASE NextAfter(r.start, r.step, until) < now
  <2>1. after = LastBefore(r, now)
    BY <1>6 DEF CaughtUp
  <2>2. PICK m \in Int : NextAfter(r.start, r.step, until) = r.start + r.step * m
    BY <1>1, <1>2, NextOnSchedule
  <2>3. after < now
    <3>1. r.start + r.step * m < now
      BY <1>6, <2>2
    <3>2. LastBefore(r, now) < now
      BY <1>1, <3>1, LastIsLast, Zenon DEF LastBefore
    <3> QED BY <2>1, <3>2
  <2>4. next >= now
    <3> SUFFICES ASSUME next < now PROVE FALSE
      BY <1>1, <1>4
    <3>1. PICK k \in Int : next = r.start + r.step * k
      BY <1>1, <1>3, NextOnSchedule
    <3>2. r.start + r.step * k < now
      BY <3>1
    <3>3. r.start + r.step * k <= LastBefore(r, now)
      BY <1>1, <3>2, LastIsLast, Zenon DEF LastBefore
    <3> QED BY <1>3, <1>4, <2>1, <3>1, <3>3
  <2>5. ASSUME NEW d \in now..(next - 1)
        PROVE  d # NextAfter(r.start, r.step, d - 1)
    <3>1. d \in Int /\ after < d /\ d < next
      BY <1>1, <1>3, <1>4, <2>3, <2>5
    <3> QED BY <1>1, <1>3, <3>1, NothingBetween
  <2> QED BY <1>4, <2>4, <2>5 DEF until
<1> QED BY <1>5, <1>6

\* skip-overdue leaves a recurring plan at its first occurrence due now or later.
LEMMA SkipCatchesUp ==
    ASSUME IInv, NEW listed \in SUBSET Plan, SkipOverdue(listed),
           NEW p \in listed, ~plan[p].oneTime, NEW t \in PendingFor(p, txn')
    PROVE  /\ txn'[t].due >= now
           /\ \A d \in now..(txn'[t].due - 1) :
                 \/ d <= plan[p].resolved
                 \/ d # NextAfter(plan[p].start, plan[p].step, d - 1)
<1>1. t \in Txn /\ IsPending(txn'[t]) /\ txn'[t].plan = p
  BY DEF PendingFor
<1>2. IsPending(txn[t]) /\ t \in Overdue(p) /\ txn[t].plan = p /\ txn'[t] = NextTxn(p)
  <2>1. CASE IsPending(txn[t]) /\ txn[t].plan \in listed /\ t \in Overdue(txn[t].plan)
    <3>1. txn'[t] = NextTxn(txn[t].plan)
      BY <1>1, <2>1, SkippedFacts
    <3>2. NextTxn(txn[t].plan).plan = txn[t].plan
      BY <1>1, <2>1, <3>1, SkippedFacts DEF IsPending
    <3> QED BY <1>1, <2>1, <3>1, <3>2
  <2>2. CASE ~(IsPending(txn[t]) /\ txn[t].plan \in listed /\ t \in Overdue(txn[t].plan))
    <3>1. txn'[t] = txn[t]
      BY <1>1, <2>2, SkippedFacts
    <3> QED BY <1>1, <2>2, <3>1, SkippedFacts
  <2> QED BY <2>1, <2>2
<1>3. txn[t].due \in 0..Horizon /\ txn[t].due < now
  BY <1>1, <1>2 DEF Overdue, IInv, TypeOK, TxnRow, IsPending
<1>4. \A u \in Overdue(p) : u = t
  BY <1>1, <1>2 DEF Overdue, PendingFor, AtMostOnePending, IInv
<1>5. SkippedRow(p) = Advanced(plan[p], txn[t].due, TRUE)
  BY <1>2, <1>4 DEF SkippedRow
<1>6. /\ NextTxn(p) # NoTxn /\ txn'[t].due = NextDue(SkippedRow(p))
      /\ NextDue(SkippedRow(p)) # Never /\ plan[p].phase = "live"
  <2>1. NextTxn(p) # NoTxn
    BY <1>1, <1>2 DEF IsPending
  <2>2. NextDue(SkippedRow(p)) # Never
    BY <2>1 DEF NextTxn
  <2> QED BY <1>2, <2>1, <2>2, SkippedFacts
<1> DEFINE r == plan[p]
           until == Later(txn[t].due, r.resolved)
           after == CaughtUp(r, until)
           next  == NextAfter(r.start, r.step, after)
<1>7. r \in PlanRow /\ now \in Date
  BY DEF IInv, TypeOK
<1>8. /\ next \in Int /\ next >= now
      /\ \A d \in now..(next - 1) :
            d <= r.resolved \/ d # NextAfter(r.start, r.step, d - 1)
  BY <1>3, <1>7, CaughtUpFirst
<1>9. /\ SkippedRow(p).resolved = after /\ SkippedRow(p).start = r.start
      /\ SkippedRow(p).step = r.step /\ SkippedRow(p).oneTime = FALSE
      /\ SkippedRow(p).phase = "live"
  BY <1>5, <1>6, <1>7 DEF Advanced, PlanRow
<1>10. after \in 0..Horizon /\ after >= until /\ until \in 0..Horizon
  <2>1. until \in 0..Horizon
    BY <1>3, <1>7, Schedule, PlannedAssumption DEF Later
  <2> QED BY <1>7, <2>1, CaughtUpForward
<1>11. CASE after # Never
  <2>1. NextDue(SkippedRow(p)) = next
    BY <1>6, <1>9, <1>11 DEF NextDue
  <2> QED BY <1>6, <1>8, <2>1
<1>12. CASE after = Never
  <2>1. NextDue(SkippedRow(p)) = r.start
    BY <1>6, <1>9, <1>12 DEF NextDue
  <2>2. next = r.start
    BY <1>7, <1>12, Schedule DEF NextAfter, Never
  <2> QED BY <1>6, <1>8, <2>1, <2>2
<1> QED BY <1>11, <1>12

(* skip-overdue leaves a recurring plan at its first occurrence due now or  *)
(* later that was not resolved already: it skips neither too few nor one   *)
(* too many, wherever the clock, the schedule and earlier payments stand.  *)
THEOREM SkipsJustTheOverdue == Spec => SkipOverdueCatchesUp
<1>1. IInv /\ [Next]_vars => [\A p \in Plan : CatchesUp(p)]_vars
  <2> SUFFICES ASSUME IInv, NEW p \in Plan, NEW listed \in SUBSET Plan,
                      p \in listed, SkipOverdue(listed), ~plan[p].oneTime,
                      NEW t \in PendingFor(p, txn')
               PROVE  /\ txn'[t].due >= now
                      /\ \A d \in now..(txn'[t].due - 1) :
                            \/ d <= plan[p].resolved
                            \/ d # NextAfter(plan[p].start, plan[p].step, d - 1)
    BY DEF CatchesUp
  <2> QED BY SkipCatchesUp
<1> QED BY <1>1, Inductive, PTL DEF Spec, SkipOverdueCatchesUp
-----------------------------------------------------------------------------
(***************************************************************************)
(* A pending occurrence exactly while the plan is active, for clients that *)
(* neither move an occurrence to an account of its own nor change whether  *)
(* a plan repeats.                                                         *)
(***************************************************************************)
\* A pending occurrence belongs to an active plan and is booked where the plan is; an
\* active plan has one; and one that is due once has not been resolved.
InStep ==
    /\ \A t \in Txn : IsPending(txn[t]) =>
          /\ Live(txn[t].plan) /\ plan[txn[t].plan].active
          /\ txn[t].account = plan[txn[t].plan].account
    /\ ActivePlanHasPending
    /\ \A p \in Plan : Live(p) /\ plan[p].active /\ plan[p].oneTime => plan[p].resolved = Never

\* Only a row that is not live, is paused, or is due once and resolved has no due date.
LEMMA DueUnlessOver ==
    ASSUME NEW r \in PlanRow, r.phase = "live"
    PROVE  /\ ~r.active => NextDue(r) = Never
           /\ r.active /\ (r.oneTime => r.resolved = Never) => NextDue(r) # Never
<1>1. /\ r.start \in Nat /\ r.start >= 1 /\ r.step \in Nat /\ r.step > 0 /\ r.resolved \in 0..Horizon
      /\ Horizon \in Nat
  BY Schedule
<1>2. r.start \in Int /\ r.resolved \in Int
  BY <1>1
<1>3. /\ NextAfter(r.start, r.step, r.resolved) \in Int
      /\ NextAfter(r.start, r.step, r.resolved) > r.resolved
  BY <1>1, <1>2, NextIsAfter
<1> QED BY <1>1, <1>2, <1>3 DEF NextDue, Never

\* What syncPending leaves: for its plan the occurrence the row calls for or none, and the
\* other plans' as they were.
LEMMA SyncLeaves ==
    ASSUME NEW p \in Plan, NEW r \in PlanRow, NEW table \in Table, SyncPending(p, r, table)
    PROVE  /\ \A t \in Txn : IsPending(txn'[t]) =>
                 \/ txn'[t] = table[t] /\ table[t].plan # p
                 \/ /\ NextDue(r) # Never
                    /\ txn'[t].plan = p /\ txn'[t].account = r.account
           /\ \A t \in Txn : IsPending(table[t]) /\ table[t].plan # p => txn'[t] = table[t]
           /\ NextDue(r) # Never => \E t \in Txn : IsPending(txn'[t]) /\ txn'[t].plan = p
<1> DEFINE row == Pending(p, NextDue(r), r.account)
<1>0. r.account \in Account \cup {NoAccount}
  BY DEF PlanRow
<1>1. NextDue(r) \in Date => /\ NextDue(r) # Never /\ row.plan = p /\ row.account = r.account
                            /\ IsPending(row)
  BY <1>0, RowTypes, PlannedAssumption DEF Date, IsPending, Never
<1>2. ~IsPending(NoTxn)
  BY DEF IsPending
<1>3. SyncPending(p, r, table) <=>
        \/ /\ NextDue(r) = Never
           /\ txn' = [t \in Txn |-> IF t \in PendingFor(p, table) THEN NoTxn ELSE table[t]]
        \/ /\ NextDue(r) \in Date /\ PendingFor(p, table) # {}
           /\ txn' = [t \in Txn |-> IF t \in PendingFor(p, table) THEN row ELSE table[t]]
        \/ /\ NextDue(r) \in Date /\ PendingFor(p, table) = {}
           /\ \E t \in Txn : table[t] = NoTxn /\ txn' = [table EXCEPT ![t] = row]
  BY DEF SyncPending
<1> HIDE DEF row
<1>4. CASE /\ NextDue(r) = Never
           /\ txn' = [t \in Txn |-> IF t \in PendingFor(p, table) THEN NoTxn ELSE table[t]]
  BY <1>2, <1>4 DEF PendingFor
<1>5. CASE /\ NextDue(r) \in Date /\ PendingFor(p, table) # {}
           /\ txn' = [t \in Txn |-> IF t \in PendingFor(p, table) THEN row ELSE table[t]]
  BY <1>1, <1>5 DEF PendingFor
<1>6. ASSUME NextDue(r) \in Date, PendingFor(p, table) = {}, NEW n \in Txn,
             table[n] = NoTxn, txn' = [table EXCEPT ![n] = row]
      PROVE  /\ \A t \in Txn : IsPending(txn'[t]) =>
                   \/ txn'[t] = table[t] /\ table[t].plan # p
                   \/ /\ NextDue(r) # Never
                      /\ txn'[t].plan = p /\ txn'[t].account = r.account
             /\ \A t \in Txn : IsPending(table[t]) /\ table[t].plan # p => txn'[t] = table[t]
             /\ NextDue(r) # Never => \E t \in Txn : IsPending(txn'[t]) /\ txn'[t].plan = p
  <2>1. \A t \in Txn : txn'[t] = IF t = n THEN row ELSE table[t]
    BY <1>6 DEF Table
  <2>2. \A t \in Txn : IsPending(table[t]) => table[t].plan # p
    BY <1>6 DEF PendingFor
  <2> QED BY <1>1, <1>2, <1>6, <2>1, <2>2
<1> QED BY <1>3, <1>4, <1>5, <1>6

\* A handler that stores a plan's row and syncs it: the plan is in step if the row, being
\* active, has a due date; and the other plans were.
LEMMA StoreInStep ==
    ASSUME IInv, InStep, NEW p \in Plan, NEW r \in PlanRow, NEW table \in Table,
           r.phase = "live", Store(p, r, table),
           r.active /\ r.oneTime => r.resolved = Never,
           \A t \in Txn : IsPending(table[t]) => table[t] = txn[t],
           \A t \in Txn : IsPending(txn[t]) /\ txn[t].plan # p => table[t] = txn[t]
    PROVE  InStep'
<1>1. \A q \in Plan : plan'[q] = IF q = p THEN r ELSE plan[q]
  BY DEF Store, IInv, TypeOK
<1>2. SyncPending(p, r, table)
  BY DEF Store
<1>3. /\ \A t \in Txn : IsPending(txn'[t]) =>
            \/ txn'[t] = table[t] /\ table[t].plan # p
            \/ /\ NextDue(r) # Never
               /\ txn'[t].plan = p /\ txn'[t].account = r.account
      /\ \A t \in Txn : IsPending(table[t]) /\ table[t].plan # p => txn'[t] = table[t]
      /\ NextDue(r) # Never => \E t \in Txn : IsPending(txn'[t]) /\ txn'[t].plan = p
  BY <1>2, SyncLeaves
<1>4. r.active <=> NextDue(r) # Never
  BY DueUnlessOver DEF PlanRow
<1>5. ASSUME NEW t \in Txn, IsPending(txn'[t])
      PROVE  /\ plan'[txn'[t].plan].phase = "live" /\ plan'[txn'[t].plan].active
             /\ txn'[t].account = plan'[txn'[t].plan].account
  <2>1. CASE txn'[t] = table[t] /\ table[t].plan # p
    <3>1. txn'[t] = txn[t] /\ IsPending(txn[t]) /\ txn[t].plan # p
      BY <1>5, <2>1
    <3>2. txn[t].plan \in Plan
      BY <3>1 DEF IInv, TypeOK, TxnRow, IsPending
    <3> QED BY <1>1, <3>1, <3>2 DEF InStep, Live
  <2>2. CASE NextDue(r) # Never /\ txn'[t].plan = p /\ txn'[t].account = r.account
    BY <1>1, <1>4, <2>2
  <2> QED BY <1>3, <1>5, <2>1, <2>2
<1>6. ASSUME NEW q \in Plan, plan'[q].phase = "live", plan'[q].active
      PROVE  \E t \in Txn : IsPending(txn'[t]) /\ txn'[t].plan = q
  <2>1. CASE q = p
    BY <1>1, <1>3, <1>4, <1>6, <2>1
  <2>2. CASE q # p
    <3>1. PICK t \in Txn : IsPending(txn[t]) /\ txn[t].plan = q
      BY <1>1, <1>6, <2>2 DEF InStep, ActivePlanHasPending, PendingFor, Live
    <3>2. txn'[t] = txn[t]
      BY <1>3, <2>2, <3>1
    <3> QED BY <3>1, <3>2
  <2> QED BY <2>1, <2>2
<1>7. \A q \in Plan : plan'[q].phase = "live" /\ plan'[q].active /\ plan'[q].oneTime
                        => plan'[q].resolved = Never
  BY <1>1 DEF InStep, Live
<1> QED BY <1>5, <1>6, <1>7 DEF InStep, ActivePlanHasPending, PendingFor, Live

\* The occurrence of a plan is paid or skipped, and the plan advances.
LEMMA ResolveInStep ==
    ASSUME IInv, InStep, NEW t \in Txn, IsPending(txn[t]), NEW row,
           \/ row = NoTxn
           \/ \E a \in live : row = Paid(txn[t].plan, a),
           Resolve(t, row, FALSE)
    PROVE  InStep'
<1> DEFINE p == txn[t].plan
           r == Advanced(plan[p], txn[t].due, FALSE)
           table == [txn EXCEPT ![t] = row]
<1>1. txn \in Table /\ txn[t] \in TxnRow /\ p \in Plan /\ txn[t].due \in 0..Horizon
  BY InTerms DEF Table, TxnRow, IsPending
<1>2. plan[p] \in PlanRow /\ now \in Date /\ plan[p].phase = "live"
  BY <1>1 DEF IInv, TypeOK, InStep, Live
<1>3. r \in PlanRow /\ r.phase = "live"
  BY <1>1, <1>2, AdvancedRow
<1>4. ~(r.active /\ r.oneTime)
  BY <1>2 DEF Advanced
<1>5. row \in TxnRow \cup {NoTxn} /\ ~IsPending(row)
  BY <1>1, RowTypes DEF IsPending, Usable, IInv, TypeOK
<1>6. table \in Table
  BY <1>1, <1>5 DEF Table
<1>7. /\ \A u \in Txn : IsPending(table[u]) => table[u] = txn[u]
      /\ \A u \in Txn : IsPending(txn[u]) /\ txn[u].plan # p => table[u] = txn[u]
  BY <1>1, <1>5 DEF Table
<1>8. Store(p, r, table)
  BY DEF Resolve
<1> HIDE DEF r, p, table
<1> QED BY <1>1, <1>3, <1>4, <1>6, <1>7, <1>8, StoreInStep

\* The pending rows stay, or go with the plans that are deleted.
LEMMA FreeInStep ==
    ASSUME IInv, InStep, NEW gone, NEW dropped,
           txn' = [t \in Txn |-> IF t \in gone THEN NoTxn ELSE txn[t]],
           plan' = [p \in Plan |-> IF p \in dropped THEN Deleted(plan[p]) ELSE plan[p]],
           \A t \in Txn : IsPending(txn[t]) => (t \in gone <=> txn[t].plan \in dropped)
    PROVE  InStep'
<1>1. \A p \in Plan : plan'[p].phase = "live" => p \notin dropped /\ plan'[p] = plan[p]
  BY DEF Deleted
<1>2. ~IsPending(NoTxn)
  BY DEF IsPending
<1>3. \A t \in Txn : IsPending(txn'[t]) => IsPending(txn[t]) /\ txn'[t] = txn[t] /\ t \notin gone
  BY <1>2
<1>4. \A t \in Txn : IsPending(txn[t]) => txn[t].plan \in Plan
  BY DEF IInv, TypeOK, TxnRow, IsPending
<1>5. \A t \in Txn : IsPending(txn'[t]) =>
         /\ plan'[txn'[t].plan].phase = "live" /\ plan'[txn'[t].plan].active
         /\ txn'[t].account = plan'[txn'[t].plan].account
  BY <1>3, <1>4 DEF InStep, Live
<1>6. \A p \in Plan : plan'[p].phase = "live" /\ plan'[p].active =>
         \E t \in Txn : IsPending(txn'[t]) /\ txn'[t].plan = p
  BY <1>1 DEF InStep, ActivePlanHasPending, PendingFor, Live
<1>7. \A p \in Plan : plan'[p].phase = "live" /\ plan'[p].active /\ plan'[p].oneTime
                        => plan'[p].resolved = Never
  BY <1>1 DEF InStep, Live
<1> QED BY <1>5, <1>6, <1>7 DEF InStep, ActivePlanHasPending, PendingFor, Live

\* A row changes that is not pending, or a pending one keeps its plan and account.
LEMMA RowInStep ==
    ASSUME IInv, InStep, NEW t \in Txn, NEW row, txn' = [txn EXCEPT ![t] = row],
           UNCHANGED plan, IsPending(row) <=> IsPending(txn[t]),
           IsPending(row) => row.plan = txn[t].plan /\ row.account = txn[t].account
    PROVE  InStep'
<1>1. \A u \in Txn : txn'[u] = IF u = t THEN row ELSE txn[u]
  BY DEF IInv, TypeOK
<1>2. \A u \in Txn : /\ IsPending(txn'[u]) <=> IsPending(txn[u])
                     /\ IsPending(txn[u]) => /\ txn'[u].plan = txn[u].plan
                                             /\ txn'[u].account = txn[u].account
  BY <1>1
<1> QED BY <1>2 DEF InStep, ActivePlanHasPending, PendingFor, Live

\* Every listed plan has one pending occurrence, which becomes the next or goes.
LEMMA SkipOverdueInStep ==
    ASSUME IInv, InStep, NEW listed \in SUBSET Plan, SkipOverdue(listed) PROVE InStep'
<1>1. ASSUME NEW p \in listed
      PROVE  /\ SkippedRow(p) \in PlanRow /\ SkippedRow(p).phase = plan[p].phase
             /\ SkippedRow(p).account = plan[p].account
             /\ ~(SkippedRow(p).active /\ SkippedRow(p).oneTime /\ SkippedRow(p).phase = "live")
  <2>1. SkippedRow(p) \in PlanRow /\ SkippedRow(p).phase = plan[p].phase
    BY SkippedFacts
  <2> QED BY <2>1 DEF SkippedRow, Advanced
<1>2. ASSUME NEW p \in listed
      PROVE  /\ \E t \in Txn : IsPending(txn[t]) /\ txn[t].plan = p
             /\ plan[p].phase = "live"
  <2>1. PICK t \in Txn : IsPending(txn[t]) /\ txn[t].plan = p
    BY DEF SkipOverdue, Overdue, PendingFor
  <2> QED BY <2>1 DEF InStep, Live
<1>3. ASSUME NEW p \in listed
      PROVE  SkippedRow(p).active <=> NextDue(SkippedRow(p)) # Never
  BY <1>1, <1>2, DueUnlessOver DEF PlanRow
<1>4. ASSUME NEW p \in listed
      PROVE  IF NextDue(SkippedRow(p)) = Never THEN ~IsPending(NextTxn(p))
             ELSE /\ IsPending(NextTxn(p)) /\ NextTxn(p).plan = p
                  /\ NextTxn(p).account = plan[p].account
  <2>1. CASE NextDue(SkippedRow(p)) = Never
    BY <2>1 DEF NextTxn, IsPending
  <2>2. CASE NextDue(SkippedRow(p)) # Never
    <3>1. NextDue(SkippedRow(p)) \in 0..Horizon
      BY <2>2, PlannedAssumption DEF SkipOverdue, Date, Never
    <3>2. plan[p].account \in Account \cup {NoAccount}
      BY DEF IInv, TypeOK, PlanRow
    <3>3. NextTxn(p) = Pending(p, NextDue(SkippedRow(p)), plan[p].account)
      BY <2>2 DEF NextTxn
    <3> QED BY <2>2, <3>1, <3>2, <3>3, RowTypes DEF IsPending
  <2> QED BY <2>1, <2>2
<1>5. \A t \in Txn : IF IsPending(txn[t]) /\ txn[t].plan \in listed
                     THEN txn'[t] = NextTxn(txn[t].plan) ELSE txn'[t] = txn[t]
  BY SkippedFacts
<1>6. \A p \in Plan : plan'[p] = IF p \in listed THEN SkippedRow(p) ELSE plan[p]
  BY SkippedFacts
<1>7. \A t \in Txn : IsPending(txn[t]) => txn[t].plan \in Plan
  BY DEF IInv, TypeOK, TxnRow, IsPending
<1>8. ASSUME NEW t \in Txn, IsPending(txn'[t])
      PROVE  /\ plan'[txn'[t].plan].phase = "live" /\ plan'[txn'[t].plan].active
             /\ txn'[t].account = plan'[txn'[t].plan].account
  <2>1. CASE IsPending(txn[t]) /\ txn[t].plan \in listed
    <3> DEFINE p == txn[t].plan
    <3>1. txn'[t] = NextTxn(p) /\ p \in listed /\ p \in Plan
      BY <1>5, <2>1
    <3>2. plan'[p] = SkippedRow(p)
      BY <1>6, <3>1
    <3> HIDE DEF p
    <3> QED BY <1>1, <1>2, <1>3, <1>4, <1>8, <3>1, <3>2
  <2>2. CASE ~(IsPending(txn[t]) /\ txn[t].plan \in listed)
    <3>1. txn'[t] = txn[t]
      BY <1>5, <2>2
    <3>2. IsPending(txn[t]) /\ txn[t].plan \in Plan /\ txn[t].plan \notin listed
      BY <1>7, <1>8, <2>2, <3>1
    <3> QED BY <1>6, <3>1, <3>2 DEF InStep, Live
  <2> QED BY <2>1, <2>2
<1>9. ASSUME NEW q \in Plan, plan'[q].phase = "live", plan'[q].active
      PROVE  \E t \in Txn : IsPending(txn'[t]) /\ txn'[t].plan = q
  <2>1. CASE q \in listed
    <3>1. PICK t \in Txn : IsPending(txn[t]) /\ txn[t].plan = q
      BY <1>2, <2>1
    <3>2. txn'[t] = NextTxn(q)
      BY <1>5, <2>1, <3>1
    <3>3. NextDue(SkippedRow(q)) # Never
      BY <1>3, <1>6, <1>9, <2>1
    <3> QED BY <1>4, <2>1, <3>2, <3>3
  <2>2. CASE q \notin listed
    <3>1. PICK t \in Txn : IsPending(txn[t]) /\ txn[t].plan = q
      BY <1>6, <1>9, <2>2 DEF InStep, ActivePlanHasPending, PendingFor, Live
    <3> QED BY <1>5, <2>2, <3>1
  <2> QED BY <2>1, <2>2
<1>10. \A q \in Plan : plan'[q].phase = "live" /\ plan'[q].active /\ plan'[q].oneTime
                         => plan'[q].resolved = Never
  BY <1>1, <1>6 DEF InStep, Live
<1> QED BY <1>8, <1>9, <1>10 DEF InStep, ActivePlanHasPending, PendingFor, Live

\* Every step keeps plans and pending occurrences in step.
LEMMA StaysInStep ==
    ASSUME {"account", "one_time"} \cap Patch = {}, IInv, InStep, [Next]_vars
    PROVE  InStep'
<1>1. ASSUME NEW p \in Plan, CreatePlanned(p) PROVE InStep'
  <2>1. PICK start \in Date, step \in Step, one \in BOOLEAN, act \in BOOLEAN, a \in Usable :
          Store(p, [phase |-> "live", active |-> act, oneTime |-> one,
                    start |-> start, step |-> step, resolved |-> Never,
                    account |-> a], txn)
    BY <1>1 DEF CreatePlanned
  <2> DEFINE r == [phase |-> "live", active |-> act, oneTime |-> one, start |-> start,
                   step |-> step, resolved |-> Never, account |-> a]
  <2>2. r \in PlanRow /\ r.phase = "live" /\ r.resolved = Never
    BY PlannedAssumption DEF PlanRow, Never, Usable, IInv, TypeOK
  <2>3. Store(p, r, txn)
    BY <2>1
  <2> HIDE DEF r
  <2> QED BY <2>2, <2>3, InTerms, StoreInStep
<1>2. ASSUME NEW p \in Plan, UpdatePlanned(p) PROVE InStep'
  <2>1. PICK start \in Date, step \in Step, one \in BOOLEAN, act \in BOOLEAN, a \in Usable :
          /\ one # plan[p].oneTime => "one_time" \in Patch
          /\ Store(p, [phase |-> "live", active |-> act, oneTime |-> one,
                       start |-> start, step |-> step,
                       resolved |-> IF Reopens(plan[p], act, one)
                                    THEN Never ELSE plan[p].resolved,
                       account |-> a], txn)
    BY <1>2 DEF UpdatePlanned
  <2> DEFINE r == [phase |-> "live", active |-> act, oneTime |-> one, start |-> start,
                   step |-> step,
                   resolved |-> IF Reopens(plan[p], act, one)
                                THEN Never ELSE plan[p].resolved,
                   account |-> a]
  <2>0. plan[p].resolved \in 0..Horizon /\ Horizon \in Nat /\ plan[p].phase = "live"
    BY <1>2, Schedule DEF IInv, TypeOK, UpdatePlanned
  <2>2. r \in PlanRow /\ r.phase = "live"
    BY <2>0 DEF PlanRow, Never, Usable, IInv, TypeOK
  <2>3. r.active /\ r.oneTime => r.resolved = Never
    <3>1. one = plan[p].oneTime
      BY <2>1
    <3>2. one /\ plan[p].active => plan[p].resolved = Never
      BY <2>0, <3>1 DEF InStep, Live
    <3> QED BY <3>2 DEF Reopens
  <2>4. Store(p, r, txn)
    BY <2>1
  <2> HIDE DEF r
  <2> QED BY <2>2, <2>3, <2>4, InTerms, StoreInStep
<1>3. ASSUME NEW p \in Plan, DeletePlanned(p) PROVE InStep'
  <2> DEFINE gone == PendingFor(p, txn)
  <2>1. /\ txn' = [t \in Txn |-> IF t \in gone THEN NoTxn ELSE txn[t]]
        /\ plan' = [q \in Plan |-> IF q \in {p} THEN Deleted(plan[q]) ELSE plan[q]]
    BY <1>3 DEF DeletePlanned, IInv, TypeOK
  <2>2. \A t \in Txn : IsPending(txn[t]) => (t \in gone <=> txn[t].plan \in {p})
    BY DEF PendingFor
  <2> HIDE DEF gone
  <2> QED BY <2>1, <2>2, FreeInStep
<1>4. ASSUME NEW t \in Txn, PayTransaction(t) PROVE InStep'
  <2>1. PICK a \in live : Resolve(t, Paid(txn[t].plan, a), FALSE)
    BY <1>4 DEF PayTransaction
  <2> DEFINE row == Paid(txn[t].plan, a)
  <2>2. (\E b \in live : row = Paid(txn[t].plan, b)) /\ Resolve(t, row, FALSE)
    BY <2>1
  <2> HIDE DEF row
  <2> QED BY <1>4, <2>2, ResolveInStep DEF PayTransaction
<1>5. ASSUME NEW t \in Txn, SkipTransaction(t) PROVE InStep'
  BY <1>5, ResolveInStep DEF SkipTransaction
<1>6. ASSUME NEW t \in Txn, UpdatePending(t) PROVE InStep'
  <2>1. PICK due \in Date, a \in Usable :
          /\ a # txn[t].account => "account" \in Patch
          /\ txn' = [txn EXCEPT ![t] = Pending(txn[t].plan, due, a)]
    BY <1>6 DEF UpdatePending
  <2>2. txn[t].plan \in Plan /\ IsPending(txn[t])
    BY <1>6 DEF UpdatePending, IsPending, IInv, TypeOK, TxnRow
  <2>3. due \in 0..Horizon /\ a \in Account \cup {NoAccount}
    BY PlannedAssumption DEF Date, Usable, IInv, TypeOK
  <2> DEFINE row == Pending(txn[t].plan, due, a)
  <2>4. IsPending(row) /\ row.plan = txn[t].plan /\ row.account = txn[t].account
    BY <2>1, <2>2, <2>3, RowTypes DEF IsPending
  <2>5. txn' = [txn EXCEPT ![t] = row] /\ UNCHANGED plan
    BY <1>6, <2>1 DEF UpdatePending
  <2> HIDE DEF row
  <2> QED BY <2>2, <2>4, <2>5, RowInStep
<1>7. ASSUME NEW t \in Txn, UpdatePaid(t) PROVE InStep'
  BY <1>7 DEF UpdatePaid
<1>8. ASSUME NEW t \in Txn, DeletePaid(t) PROVE InStep'
  <2>1. ~IsPending(NoTxn) /\ ~IsPending(txn[t])
    BY <1>8 DEF DeletePaid, IsPaid, IsPending
  <2> QED BY <1>8, <2>1, RowInStep DEF DeletePaid
<1>9. ASSUME NEW listed \in SUBSET Plan, SkipOverdue(listed) PROVE InStep'
  BY <1>9, SkipOverdueInStep
<1>10. ASSUME NEW a \in Account, DeleteAccount(a) PROVE InStep'
  <2> DEFINE gone == {t \in Txn : OnAccount(txn[t], a)}
             dropped == {p \in Plan : plan[p].account = a /\ plan[p].phase = "live"}
  <2>1. /\ txn' = [t \in Txn |-> IF t \in gone THEN NoTxn ELSE txn[t]]
        /\ plan' = [p \in Plan |-> IF p \in dropped THEN Deleted(plan[p]) ELSE plan[p]]
    BY <1>10 DEF DeleteAccount
  <2>2. ASSUME NEW t \in Txn, IsPending(txn[t]) PROVE t \in gone <=> txn[t].plan \in dropped
    <3>1. txn[t].plan \in Plan
      BY <2>2 DEF IInv, TypeOK, TxnRow, IsPending
    <3>2. /\ plan[txn[t].plan].phase = "live"
          /\ txn[t].account = plan[txn[t].plan].account /\ txn[t] # NoTxn
      BY <2>2 DEF InStep, Live, IsPending
    <3> QED BY <3>1, <3>2 DEF OnAccount
  <2> HIDE DEF gone, dropped
  <2> QED BY <2>1, <2>2, FreeInStep
<1>11. ASSUME Tick \/ UNCHANGED vars PROVE InStep'
  <2>1. UNCHANGED <<plan, txn>>
    BY <1>11 DEF Tick, vars
  <2> QED BY <2>1 DEF InStep, ActivePlanHasPending, PendingFor, Live
<1> QED BY <1>1, <1>2, <1>3, <1>4, <1>5, <1>6, <1>7, <1>8, <1>9, <1>10, <1>11 DEF Next

(* "Exactly one pending transaction per active plan" (planned.go): at most *)
(* one is OnePending; here, one for every active plan and none for a       *)
(* paused, completed or deleted one, also if due dates are edited.         *)
THEOREM PendingWhileActive ==
    ASSUME {"account", "one_time"} \cap Patch = {}
    PROVE  Spec => [](ActivePlanHasPending /\ PendingHasActivePlan)
<1>1. Init => InStep
  BY DEF Init, Unborn, InStep, ActivePlanHasPending, IsPending, Live
<1>2. IInv /\ InStep /\ [Next]_vars => InStep'
  BY StaysInStep
<1>3. InStep => ActivePlanHasPending /\ PendingHasActivePlan
  BY DEF InStep, PendingHasActivePlan
<1> QED BY <1>1, <1>2, <1>3, Inductive, PTL DEF Spec

(***************************************************************************)
(* Recurring.tla, the job of the group side, for any number of schedules,  *)
(* processes, faults and days: each occurrence once and on its grid.       *)
(***************************************************************************)
CONSTANTS Schedules, Period, ByShares, Jobs, MaxTime, MaxEdits, MaxFaults

VARIABLES clock, schedule, job, posted, edits, faults

R == INSTANCE Recurring WITH now <- clock

\* A schedule recurs after some days at least; the bounds are numbers.
RecurringSetting ==
    /\ Period \in [Schedules -> Nat \ {0}]
    /\ MaxTime \in Nat /\ MaxEdits \in Nat /\ MaxFaults \in Nat

\* A job holds the one schedule of its turn, ...
OneTurn ==
    \A j \in Jobs :
        /\ job[j].pc # "materialize" => job[j].on = {}
        /\ \A s, o \in job[j].on : s = o

\* ... which no other job holds, ...
OwnTurn == \A j, k \in Jobs, s \in Schedules : s \in job[j].on /\ s \in job[k].on => j = k

\* ... and posts an occurrence of its grid that is not behind its next run.
OnTime ==
    \A j \in Jobs : \A s \in job[j].on :
        /\ schedule[s].state = "active"
        /\ job[j].runAt >= schedule[s].next
        /\ (job[j].runAt - schedule[s].start) % Period[s] = 0

\* What is not there yet has posted nothing.
Unused ==
    \A s \in Schedules : schedule[s].state = "none" =>
        /\ schedule[s].start = 0 /\ schedule[s].next = 0
        /\ \A t \in 0..MaxTime : posted[s][t] = 0

RecurringInv ==
    R!TypeOK /\ OneTurn /\ OwnTurn /\ OnTime /\ Unused /\ R!OnSchedule /\ R!OncePerOccurrence

\* A multiple leaves no rest.
LEMMA MultipleMod ==
  ASSUME NEW P \in Nat, P > 0, NEW m \in Nat, NEW x \in Nat, x = P * m
  PROVE  x % P = 0
<1> DEFINE q == x \div P
           e == x % P
<1>1. q \in Nat /\ e \in Nat /\ e < P /\ x = P * q + e
  OBVIOUS
<1> HIDE DEF q, e
<1>2. P * (m - q) = e
  BY <1>1
<1>3. CASE m - q >= 1
  <2>1. P * (m - q) >= P
    BY <1>1, <1>3
  <2> QED BY <1>1, <1>2, <2>1
<1>4. CASE m - q <= -1
  <2>1. P * (m - q) <= -P
    BY <1>1, <1>4
  <2> QED BY <1>1, <1>2, <2>1
<1>5. CASE m = q
  BY <1>1, <1>2, <1>5 DEF e
<1> QED BY <1>1, <1>3, <1>4, <1>5

\* Whole periods later the grid goes on.
LEMMA GridGoesOn ==
  ASSUME NEW P \in Nat, P > 0, NEW a \in Nat, a % P = 0, NEW b \in Nat
  PROVE  a + b * P \in Nat /\ (a + b * P) % P = 0
<1> DEFINE q == a \div P
           x == a + b * P
<1>1. q \in Nat /\ a = P * q
  OBVIOUS
<1> HIDE DEF q
<1>2. x \in Nat /\ q + b \in Nat /\ x = P * (q + b)
  BY <1>1
<1> HIDE DEF x
<1>3. x % P = 0
  <2> DEFINE m == q + b
  <2>1. m \in Nat /\ x = P * m
    BY <1>2
  <2> HIDE DEF m
  <2> QED BY <1>2, <2>1, MultipleMod
<1> QED BY <1>2, <1>3 DEF x

\* What a job claims is due now or earlier, and a whole number of periods after the next run.
LEMMA RunAtFacts ==
  ASSUME RecurringSetting, RecurringInv, NEW s \in Schedules, R!Due(s)
  PROVE  /\ R!RunAt(s) \in 0..MaxTime /\ R!RunAt(s) >= schedule[s].next
         /\ (R!RunAt(s) - schedule[s].start) % Period[s] = 0
<1> DEFINE P == Period[s]
           n == schedule[s].next
           b == (clock - n) \div P
           a == n - schedule[s].start
<1>1. P \in Nat /\ P > 0
  BY DEF RecurringSetting
<1>2. /\ n \in Nat /\ clock \in Nat /\ clock <= MaxTime /\ MaxTime \in Nat
      /\ schedule[s].start \in Nat
  BY DEF RecurringSetting, RecurringInv, R!TypeOK, R!Schedule
<1>3. n <= clock
  BY DEF R!Due
<1>4. a \in Nat /\ a % P = 0
  BY <1>2 DEF RecurringInv, R!OnSchedule
<1> HIDE DEF P, n
<1>5. b \in Nat /\ b * P <= clock - n
  BY <1>1, <1>2, <1>3
<1>6. R!RunAt(s) = n + b * P
  BY DEF R!RunAt, P, n
<1> HIDE DEF b, a
<1>7. b * P \in Nat
  BY <1>1, <1>5
<1>8. a + b * P \in Nat /\ (a + b * P) % P = 0
  BY <1>1, <1>4, <1>5, GridGoesOn
<1>9. R!RunAt(s) - schedule[s].start = a + b * P
  BY <1>2, <1>6, <1>7 DEF a, n
<1> QED BY <1>2, <1>3, <1>5, <1>6, <1>7, <1>8, <1>9 DEF n, P

\* The invariant holds before anything runs.
LEMMA RecurringInit == ASSUME RecurringSetting, R!Init PROVE RecurringInv
<1>1. R!TypeOK
  <2>1. R!Nothing \in R!Schedule
    BY DEF RecurringSetting, R!Nothing, R!Schedule
  <2>2. [pc |-> "idle", failed |-> {}, on |-> {}, runAt |-> 0] \in R!JobState
    BY DEF RecurringSetting, R!JobState
  <2>3. clock = 0 /\ edits = 0 /\ faults = 0
    BY DEF R!Init
  <2>4. schedule \in [Schedules -> R!Schedule]
    BY <2>1 DEF R!Init
  <2>5. job \in [Jobs -> R!JobState]
    BY <2>2 DEF R!Init
  <2>6. posted \in [Schedules -> [0..MaxTime -> Nat]]
    BY DEF R!Init
  <2> QED BY <2>3, <2>4, <2>5, <2>6 DEF RecurringSetting, R!TypeOK
<1>2. OneTurn /\ OwnTurn /\ OnTime
  BY DEF R!Init, OneTurn, OwnTurn, OnTime
<1>3. \A s \in Schedules : schedule[s].start = 0 /\ schedule[s].next = 0
  BY DEF R!Init, R!Nothing
<1>4. \A s \in Schedules, t \in 0..MaxTime : posted[s][t] = 0
  BY DEF R!Init
<1>5. R!OnSchedule
  <2>1. ASSUME NEW s \in Schedules PROVE (schedule[s].next - schedule[s].start) % Period[s] = 0
    <3>1. Period[s] \in Nat /\ Period[s] > 0
      BY DEF RecurringSetting
    <3>2. 0 % Period[s] = 0
      BY <3>1
    <3> QED BY <1>3, <3>2
  <2> QED BY <1>3, <1>4, <2>1 DEF R!OnSchedule
<1> QED BY <1>1, <1>2, <1>3, <1>4, <1>5 DEF RecurringInv, Unused, R!OncePerOccurrence

\* A request of a member touches one schedule that no job holds.
LEMMA EditKeeps ==
  ASSUME RecurringSetting, RecurringInv, R!Edit, NEW s \in Schedules, NEW row \in R!Schedule,
         schedule' = [schedule EXCEPT ![s] = row],
         \A j \in Jobs : s \notin job[j].on,
         \/ row.start = schedule[s].start /\ row.next = schedule[s].next
         \/ row.next = row.start /\ schedule[s].state = "none",
         row.state # "none"
  PROVE  RecurringInv'
<1>1. /\ clock' = clock /\ job' = job /\ posted' = posted /\ faults' = faults
      /\ edits' \in 0..MaxEdits
  BY DEF R!Edit, RecurringInv, R!TypeOK, RecurringSetting
<1>2. /\ schedule' \in [Schedules -> R!Schedule] /\ schedule'[s] = row
      /\ \A o \in Schedules : o # s => schedule'[o] = schedule[o]
  BY DEF RecurringInv, R!TypeOK
<1>3. R!TypeOK'
  BY <1>1, <1>2 DEF RecurringInv, R!TypeOK
<1>4. OneTurn' /\ OwnTurn'
  BY <1>1 DEF RecurringInv, OneTurn, OwnTurn
<1>5. OnTime'
  <2>1. \A j \in Jobs : \A o \in job[j].on : o \in Schedules /\ schedule'[o] = schedule[o]
    BY <1>2 DEF RecurringInv, R!TypeOK, R!JobState
  <2> QED BY <1>1, <2>1 DEF RecurringInv, OnTime
<1>6. Unused'
  BY <1>1, <1>2 DEF RecurringInv, Unused
<1>7. R!OnSchedule'
  <2>1. ASSUME NEW o \in Schedules
        PROVE  /\ schedule'[o].next >= schedule'[o].start
               /\ (schedule'[o].next - schedule'[o].start) % Period[o] = 0
               /\ \A t \in 0..MaxTime : posted[o][t] > 0 =>
                    t >= schedule'[o].start /\ t < schedule'[o].next
                    /\ (t - schedule'[o].start) % Period[o] = 0
    <3>1. CASE o # s
      BY <1>2, <3>1 DEF RecurringInv, R!OnSchedule
    <3>2. CASE o = s /\ row.start = schedule[s].start /\ row.next = schedule[s].next
      BY <1>2, <3>2 DEF RecurringInv, R!OnSchedule
    <3>3. CASE o = s /\ row.next = row.start /\ schedule[s].state = "none"
      <4>1. row.start \in Nat /\ schedule'[o].start = row.start /\ schedule'[o].next = row.start
        BY <1>2, <3>3 DEF R!Schedule
      <4>2. Period[o] \in Nat /\ Period[o] > 0
        BY DEF RecurringSetting
      <4>3. 0 % Period[o] = 0
        BY <4>2
      <4>4. \A t \in 0..MaxTime : posted[o][t] = 0
        BY <3>3 DEF RecurringInv, Unused
      <4> QED BY <4>1, <4>3, <4>4
    <3> QED BY <3>1, <3>2, <3>3
  <2> QED BY <1>1, <2>1 DEF R!OnSchedule
<1>8. R!OncePerOccurrence'
  BY <1>1 DEF RecurringInv, R!OncePerOccurrence
<1> QED BY <1>3, <1>4, <1>5, <1>6, <1>7, <1>8 DEF RecurringInv

\* A job that lets go of its schedule, or holds none, changes nothing else.
LEMMA IdleKeeps ==
  ASSUME RecurringSetting, RecurringInv, NEW j \in Jobs, NEW js \in R!JobState,
         job' = [job EXCEPT ![j] = js], js.on = {},
         UNCHANGED <<clock, schedule, posted, edits>>, faults' \in 0..MaxFaults
  PROVE  RecurringInv'
<1>1. /\ job' \in [Jobs -> R!JobState] /\ job'[j] = js
      /\ \A k \in Jobs : k # j => job'[k] = job[k]
  BY DEF RecurringInv, R!TypeOK
<1>2. R!TypeOK'
  BY <1>1 DEF RecurringInv, R!TypeOK
<1>3. OneTurn' /\ OwnTurn' /\ OnTime'
  BY <1>1 DEF RecurringInv, OneTurn, OwnTurn, OnTime
<1>4. Unused' /\ R!OnSchedule' /\ R!OncePerOccurrence'
  BY DEF RecurringInv, Unused, R!OnSchedule, R!OncePerOccurrence
<1> QED BY <1>2, <1>3, <1>4 DEF RecurringInv

\* ClaimDueRecurring: a schedule that nobody holds, with its latest occurrence.
LEMMA ClaimKeeps ==
  ASSUME RecurringSetting, RecurringInv, NEW j \in Jobs, R!ClaimDueRecurring(j)
  PROVE  RecurringInv'
<1>1. PICK s \in R!Claimable(j) :
         job' = [job EXCEPT ![j].pc = "materialize", ![j].on = {s}, ![j].runAt = R!RunAt(s)]
  BY DEF R!ClaimDueRecurring
<1>2. s \in Schedules /\ R!Due(s) /\ \A k \in Jobs : s \notin job[k].on
  BY DEF R!Claimable, R!Locked
<1>3. /\ R!RunAt(s) \in 0..MaxTime /\ R!RunAt(s) >= schedule[s].next
      /\ (R!RunAt(s) - schedule[s].start) % Period[s] = 0
  BY <1>2, RunAtFacts
<1> DEFINE js == [job[j] EXCEPT !.pc = "materialize", !.on = {s}, !.runAt = R!RunAt(s)]
<1>4. job[j] \in R!JobState /\ job \in [Jobs -> R!JobState]
  BY DEF RecurringInv, R!TypeOK
<1>5. js \in R!JobState /\ js.pc = "materialize" /\ js.on = {s} /\ js.runAt = R!RunAt(s)
  BY <1>2, <1>3, <1>4 DEF R!JobState
<1>6. job' = [job EXCEPT ![j] = js]
  BY <1>1
<1> HIDE DEF js
<1>7. /\ job' \in [Jobs -> R!JobState] /\ job'[j] = js
      /\ \A k \in Jobs : k # j => job'[k] = job[k]
  BY <1>4, <1>5, <1>6
<1>8. UNCHANGED <<clock, schedule, posted, edits, faults>>
  BY DEF R!ClaimDueRecurring
<1>9. R!TypeOK'
  BY <1>7, <1>8 DEF RecurringInv, R!TypeOK
<1>10. OneTurn'
  BY <1>5, <1>7 DEF RecurringInv, OneTurn
<1>11. OwnTurn'
  BY <1>2, <1>5, <1>7 DEF RecurringInv, OwnTurn
<1>12. OnTime'
  <2>1. schedule[s].state = "active"
    BY <1>2 DEF R!Due
  <2>2. ASSUME NEW k \in Jobs, NEW o \in job'[k].on
        PROVE  /\ schedule[o].state = "active" /\ job'[k].runAt >= schedule[o].next
               /\ (job'[k].runAt - schedule[o].start) % Period[o] = 0
    <3>1. CASE k = j
      <4>1. o = s /\ job'[k].runAt = R!RunAt(s)
        BY <1>5, <1>7, <2>2, <3>1
      <4> HIDE DEF R!RunAt
      <4> QED BY <1>3, <2>1, <4>1
    <3>2. CASE k # j
      BY <1>7, <2>2, <3>2 DEF RecurringInv, OnTime
    <3> QED BY <3>1, <3>2
  <2> QED BY <1>8, <2>2 DEF OnTime
<1>13. Unused' /\ R!OnSchedule' /\ R!OncePerOccurrence'
  BY <1>8 DEF RecurringInv, Unused, R!OnSchedule, R!OncePerOccurrence
<1> QED BY <1>9, <1>10, <1>11, <1>12, <1>13 DEF RecurringInv

\* Materialize: nothing was posted at or after the next run, so this is the first.
LEMMA MaterializeKeeps ==
  ASSUME RecurringSetting, RecurringInv, NEW j \in Jobs, R!Materialize(j)
  PROVE  RecurringInv'
<1>1. PICK s \in job[j].on :
         /\ schedule' = [schedule EXCEPT ![s].last = job[j].runAt, ![s].next = job[j].runAt + Period[s]]
         /\ posted' = [posted EXCEPT ![s][job[j].runAt] = @ + 1]
  BY DEF R!Materialize
<1> DEFINE at == job[j].runAt
           P == Period[s]
           row == [schedule[s] EXCEPT !.last = at, !.next = at + P]
           js == [job[j] EXCEPT !.pc = "claim", !.on = {}]
           start == schedule[s].start
<1>2. job[j] \in R!JobState /\ job \in [Jobs -> R!JobState] /\ s \in Schedules /\ at \in 0..MaxTime
  BY DEF RecurringInv, R!TypeOK, R!JobState
<1>3. P \in Nat /\ P > 0 /\ MaxTime \in Nat
  BY <1>2 DEF RecurringSetting
<1>4. schedule[s] \in R!Schedule /\ schedule \in [Schedules -> R!Schedule]
      /\ posted \in [Schedules -> [0..MaxTime -> Nat]]
  BY <1>2 DEF RecurringInv, R!TypeOK
<1>5. /\ schedule[s].state = "active" /\ at >= schedule[s].next /\ (at - start) % P = 0
      /\ schedule[s].next >= start /\ schedule[s].next \in Nat /\ start \in Nat
  BY <1>2, <1>4 DEF RecurringInv, OnTime, R!OnSchedule, R!Schedule
<1>6. /\ row \in R!Schedule /\ row.state = "active" /\ row.start = start
      /\ row.next = at + P
  <2>1. at + P \in Nat
    BY <1>2, <1>3
  <2> HIDE DEF P, at
  <2> QED BY <1>2, <1>4, <1>5, <2>1 DEF R!Schedule
<1>7. schedule' = [schedule EXCEPT ![s] = row]
  BY <1>1
<1>8. js \in R!JobState /\ js.on = {} /\ job' = [job EXCEPT ![j] = js]
  BY <1>2 DEF R!JobState, R!Materialize
<1>9. UNCHANGED <<clock, edits, faults>>
  BY DEF R!Materialize
<1> HIDE DEF row, js, P, at, start
<1>10. /\ schedule' \in [Schedules -> R!Schedule] /\ schedule'[s] = row
       /\ \A o \in Schedules : o # s => schedule'[o] = schedule[o]
  BY <1>2, <1>4, <1>6, <1>7
<1>11. /\ job' \in [Jobs -> R!JobState] /\ job'[j] = js
       /\ \A k \in Jobs : k # j => job'[k] = job[k]
  BY <1>2, <1>8
<1>12. /\ posted' \in [Schedules -> [0..MaxTime -> Nat]]
       /\ posted'[s][at] = posted[s][at] + 1
       /\ \A t \in 0..MaxTime : t # at => posted'[s][t] = posted[s][t]
       /\ \A o \in Schedules : o # s => posted'[o] = posted[o]
  <2> DEFINE f == [posted[s] EXCEPT ![at] = @ + 1]
  <2>1. posted[s] \in [0..MaxTime -> Nat]
    BY <1>2, <1>4
  <2>2. f \in [0..MaxTime -> Nat] /\ f[at] = posted[s][at] + 1
        /\ \A t \in 0..MaxTime : t # at => f[t] = posted[s][t]
    <3>1. posted[s][at] \in Nat
      BY <1>2, <2>1
    <3>2. posted[s][at] + 1 \in Nat
      BY <3>1
    <3> QED BY <1>2, <2>1, <3>2
  <2>3. posted' = [posted EXCEPT ![s] = f]
    BY <1>1 DEF at
  <2> HIDE DEF f
  <2> QED BY <1>2, <1>4, <2>2, <2>3
<1>13. posted[s][at] = 0
  <2>1. posted[s][at] \in Nat
    BY <1>2, <1>4
  <2>2. posted[s][at] > 0 => at < schedule[s].next
    BY <1>2 DEF RecurringInv, R!OnSchedule
  <2> QED BY <1>2, <1>5, <2>1, <2>2
<1>14. R!TypeOK'
  BY <1>9, <1>10, <1>11, <1>12 DEF RecurringInv, R!TypeOK
<1>15. OneTurn' /\ OwnTurn'
  BY <1>8, <1>11 DEF RecurringInv, OneTurn, OwnTurn
<1>16. OnTime'
  <2>1. ASSUME NEW k \in Jobs, NEW o \in job'[k].on
        PROVE  k # j /\ o \in job[k].on /\ job'[k] = job[k] /\ schedule'[o] = schedule[o]
    <3>1. k # j /\ job'[k] = job[k] /\ o \in job[k].on
      BY <1>8, <1>11, <2>1
    <3>2. o \in Schedules
      BY <1>2, <3>1 DEF R!JobState
    <3>3. o # s
      BY <1>2, <3>1, <3>2 DEF RecurringInv, OwnTurn
    <3> QED BY <1>10, <3>1, <3>2, <3>3
  <2> QED BY <2>1 DEF RecurringInv, OnTime
<1>17. Unused'
  BY <1>6, <1>10, <1>12 DEF RecurringInv, Unused
<1>18. R!OnSchedule'
  <2>1. ASSUME NEW o \in Schedules, o # s
        PROVE  /\ schedule'[o].next >= schedule'[o].start
               /\ (schedule'[o].next - schedule'[o].start) % Period[o] = 0
               /\ \A t \in 0..MaxTime : posted'[o][t] > 0 =>
                    t >= schedule'[o].start /\ t < schedule'[o].next
                    /\ (t - schedule'[o].start) % Period[o] = 0
    <3>1. schedule'[o] = schedule[o] /\ posted'[o] = posted[o]
      BY <1>10, <1>12, <2>1
    <3> QED BY <3>1 DEF RecurringInv, R!OnSchedule
  <2>2. row.next >= row.start /\ (row.next - row.start) % P = 0
    <3> DEFINE a == at - start
               b == 1
    <3>1. a \in Nat /\ a % P = 0 /\ b \in Nat
      BY <1>2, <1>5
    <3>2. row.next - row.start = a + b * P
      BY <1>2, <1>3, <1>5, <1>6
    <3>3. row.next >= row.start
      BY <1>2, <1>3, <1>5, <1>6
    <3> HIDE DEF a, b
    <3>4. (a + b * P) % P = 0
      BY <1>3, <3>1, GridGoesOn
    <3> QED BY <3>2, <3>3, <3>4
  <2>3. ASSUME NEW t \in 0..MaxTime, posted'[s][t] > 0
        PROVE  t >= row.start /\ t < row.next /\ (t - row.start) % P = 0
    <3>1. CASE t = at
      BY <1>2, <1>3, <1>5, <1>6, <3>1
    <3>2. CASE t # at
      <4>1. posted[s][t] > 0
        BY <1>12, <2>3, <3>2
      <4>2. t >= start /\ t < schedule[s].next /\ (t - start) % P = 0
        BY <1>2, <4>1 DEF RecurringInv, R!OnSchedule, start, P
      <4> QED BY <1>2, <1>3, <1>5, <1>6, <4>2
    <3> QED BY <3>1, <3>2
  <2> QED BY <1>10, <2>1, <2>2, <2>3 DEF R!OnSchedule, P
<1>19. R!OncePerOccurrence'
  <2>1. ASSUME NEW o \in Schedules, NEW t \in 0..MaxTime PROVE posted'[o][t] <= 1
    <3>1. CASE o = s /\ t = at
      BY <1>12, <1>13, <3>1
    <3>2. CASE ~(o = s /\ t = at)
      BY <1>12, <3>2 DEF RecurringInv, R!OncePerOccurrence
    <3> QED BY <3>1, <3>2
  <2> QED BY <2>1 DEF R!OncePerOccurrence
<1> QED BY <1>14, <1>15, <1>16, <1>17, <1>18, <1>19 DEF RecurringInv

\* Every step keeps the invariant.
LEMMA RecurringStep == ASSUME RecurringSetting, RecurringInv, [R!Next]_(R!vars) PROVE RecurringInv'
<1>0. /\ schedule \in [Schedules -> R!Schedule] /\ job \in [Jobs -> R!JobState]
      /\ faults \in 0..MaxFaults /\ clock \in 0..MaxTime /\ MaxTime \in Nat /\ MaxFaults \in Nat
  BY DEF RecurringInv, R!TypeOK, RecurringSetting
<1>1. ASSUME NEW s \in Schedules, R!Create(s) PROVE RecurringInv'
  <2>1. PICK start \in 0..MaxTime :
           schedule' = [schedule EXCEPT ![s] = [state |-> "active", start |-> start, next |-> start, last |-> 0]]
    BY <1>1 DEF R!Create
  <2> DEFINE row == [state |-> "active", start |-> start, next |-> start, last |-> 0]
  <2>2. row \in R!Schedule /\ row.state = "active" /\ row.next = row.start
    BY <1>0 DEF R!Schedule
  <2>3. schedule' = [schedule EXCEPT ![s] = row] /\ schedule[s].state = "none" /\ R!Edit
    BY <1>1, <2>1 DEF R!Create
  <2>4. \A j \in Jobs : s \notin job[j].on
    BY <2>3 DEF RecurringInv, OnTime
  <2> HIDE DEF row
  <2> QED BY <2>2, <2>3, <2>4, EditKeeps
<1>2. ASSUME NEW s \in Schedules, R!Update(s) \/ R!Delete(s) PROVE RecurringInv'
  <2>1. PICK state \in {"active", "paused", "deleted"} : schedule' = [schedule EXCEPT ![s].state = state]
    BY <1>2 DEF R!Update, R!Delete
  <2> DEFINE row == [schedule[s] EXCEPT !.state = state]
  <2>2. schedule[s] \in R!Schedule
    BY <1>0
  <2>3. /\ row \in R!Schedule /\ row.state # "none"
        /\ row.start = schedule[s].start /\ row.next = schedule[s].next
    BY <2>2 DEF R!Schedule
  <2>4. schedule' = [schedule EXCEPT ![s] = row]
    BY <2>1
  <2>5. R!Edit /\ \A j \in Jobs : s \notin job[j].on
    BY <1>2 DEF R!Update, R!Delete, R!Locked
  <2> HIDE DEF row
  <2> QED BY <2>3, <2>4, <2>5, EditKeeps
<1>3. ASSUME NEW j \in Jobs, R!RunDue(j) PROVE RecurringInv'
  <2> DEFINE js == [pc |-> "claim", failed |-> {}, on |-> {}, runAt |-> 0]
  <2>1. js \in R!JobState /\ js.on = {}
    BY <1>0 DEF R!JobState
  <2>2. job' = [job EXCEPT ![j] = js] /\ UNCHANGED <<clock, schedule, posted, edits>> /\ faults' = faults
    BY <1>3 DEF R!RunDue
  <2> HIDE DEF js
  <2> QED BY <1>0, <2>1, <2>2, IdleKeeps
<1>4. ASSUME NEW j \in Jobs, R!NothingDue(j) PROVE RecurringInv'
  <2> DEFINE js == [job[j] EXCEPT !.pc = "idle"]
  <2>1. job[j] \in R!JobState /\ job[j].on = {}
    BY <1>0, <1>4 DEF R!NothingDue, RecurringInv, OneTurn
  <2>2. js \in R!JobState /\ js.on = {}
    BY <2>1 DEF R!JobState
  <2>3. job' = [job EXCEPT ![j] = js] /\ UNCHANGED <<clock, schedule, posted, edits>> /\ faults' = faults
    BY <1>4 DEF R!NothingDue
  <2> HIDE DEF js
  <2> QED BY <1>0, <2>2, <2>3, IdleKeeps
<1>5. ASSUME NEW j \in Jobs, R!SplitsFail(j) \/ R!Fail(j) PROVE RecurringInv'
  <2> DEFINE js == [job[j] EXCEPT !.pc = "claim", !.on = {}, !.failed = @ \cup job[j].on]
  <2>1. job[j] \in R!JobState
    BY <1>0
  <2>2. js \in R!JobState /\ js.on = {}
    BY <2>1 DEF R!JobState
  <2>3. job' = [job EXCEPT ![j] = js] /\ UNCHANGED <<clock, schedule, posted, edits>>
    BY <1>5 DEF R!SplitsFail, R!Fail, R!LeftOut
  <2>4. faults' \in 0..MaxFaults
    BY <1>0, <1>5 DEF R!SplitsFail, R!Fail, R!Faulty
  <2> HIDE DEF js
  <2> QED BY <2>2, <2>3, <2>4, IdleKeeps
<1>6. ASSUME NEW j \in Jobs, R!Crash(j) PROVE RecurringInv'
  <2> DEFINE js == [job[j] EXCEPT !.pc = "idle", !.on = {}]
  <2>1. job[j] \in R!JobState
    BY <1>0
  <2>2. js \in R!JobState /\ js.on = {}
    BY <2>1 DEF R!JobState
  <2>3. job' = [job EXCEPT ![j] = js] /\ UNCHANGED <<clock, schedule, posted, edits>>
    BY <1>6 DEF R!Crash
  <2>4. faults' \in 0..MaxFaults
    BY <1>0, <1>6 DEF R!Crash, R!Faulty
  <2> HIDE DEF js
  <2> QED BY <2>2, <2>3, <2>4, IdleKeeps
<1>7. CASE R!Tick
  <2>1. clock' \in 0..MaxTime /\ UNCHANGED <<schedule, job, posted, edits, faults>>
    BY <1>0, <1>7 DEF R!Tick
  <2> QED BY <2>1 DEF RecurringInv, R!TypeOK, OneTurn, OwnTurn, OnTime, Unused, R!OnSchedule,
             R!OncePerOccurrence
<1>8. CASE UNCHANGED R!vars
  BY <1>8 DEF R!vars, RecurringInv, R!TypeOK, OneTurn, OwnTurn, OnTime, Unused, R!OnSchedule,
     R!OncePerOccurrence
<1> QED
  BY <1>1, <1>2, <1>3, <1>4, <1>5, <1>6, <1>7, <1>8, ClaimKeeps, MaterializeKeeps
  DEF R!Next, R!Turn

(* The inductive invariant: a job holds one schedule, alone, and posts an   *)
(* occurrence of its grid that nobody has posted.                          *)
THEOREM RecurringInductive == ASSUME RecurringSetting PROVE R!Spec => []RecurringInv
<1>1. R!Init => RecurringInv
  BY RecurringInit
<1>2. RecurringInv /\ [R!Next]_(R!vars) => RecurringInv'
  BY RecurringStep
<1> QED BY <1>1, <1>2, PTL DEF R!Spec

(* However many processes run the job, fail and die, no occurrence is      *)
(* posted twice, and none outside its schedule's grid or ahead of its next *)
(* run.                                                                    *)
THEOREM PostedRight ==
  ASSUME RecurringSetting PROVE R!Spec => [](R!OncePerOccurrence /\ R!OnSchedule)
<1>1. RecurringInv => R!OncePerOccurrence /\ R!OnSchedule
  BY DEF RecurringInv
<1> QED BY <1>1, RecurringInductive, PTL

-----------------------------------------------------------------------------
(***************************************************************************)
(* Accounts.tla, the wallet accounts of a user, for any number of accounts *)
(* and of overlapping requests: each row has one writer at a time, nobody  *)
(* sees two default accounts, and one transaction at a time makes one.     *)
(***************************************************************************)

CONSTANTS Accounts, First, Existing, Requests, Nobody

VARIABLES account, dirty, req, wallet, raced

A == INSTANCE Accounts

\* The user's default account is one of those the user starts with.
AccountsSetting ==
    /\ First \in Accounts /\ \A old \in Existing : old \subseteq Accounts
    /\ Nobody \notin Requests

\* Each request writes rows of its own, ...
Tables == dirty = [r \in Requests |-> dirty[r]]

OwnRows == \A q, r \in Requests : \A a \in DOMAIN dirty[q] : a \in DOMAIN dirty[r] => q = r

\* ... no request and nobody outside sees two default accounts, ...
SeesOne ==
    /\ \A a, b \in Accounts : A!IsDefault(account[a]) /\ A!IsDefault(account[b]) => a = b
    /\ \A r \in Requests : \A a, b \in A!Default(r) : a = b

\* ... and who has made an account the default is the only one with an entry of the
\* index in flux.
Raises(r) == \E a \in DOMAIN dirty[r] : A!IsDefault(dirty[r][a]) /\ ~A!IsDefault(account[a])

InFlux(q) == \E a \in DOMAIN dirty[q] : A!IsDefault(dirty[q][a]) \/ A!IsDefault(account[a])

OneInFlux == \A q, r \in Requests : Raises(r) /\ InFlux(q) => q = r

AccountsInv == A!TypeOK /\ Tables /\ OwnRows /\ SeesOne /\ OneInFlux

\* The invariant holds before the first request.
LEMMA AccountsInit == ASSUME AccountsSetting, A!Init PROVE AccountsInv
<1>1. PICK old \in Existing :
         account = [a \in Accounts |->
                      IF a \in old THEN [live |-> TRUE, default |-> a = First, home |-> a = First,
                                         cash |-> FALSE, new |-> FALSE]
                      ELSE A!Fresh]
  BY DEF A!Init
<1>2. account \in [Accounts -> A!Row]
  BY <1>1 DEF A!Row, A!Fresh
<1>3. \A a \in Accounts : A!IsDefault(account[a]) => a = First
  BY <1>1 DEF A!IsDefault, A!Fresh
<1>4. Tables /\ \A r \in Requests : DOMAIN dirty[r] = {}
  BY DEF A!Init, Tables
<1>5. A!TypeOK
  <2>1. [op |-> "none", pc |-> "idle", id |-> First, flag |-> FALSE, home |-> TRUE, found |-> {}]
           \in A!RequestState
    BY DEF AccountsSetting, A!RequestState, A!Places, A!Ops
  <2>2. req \in [Requests -> A!RequestState]
    BY <2>1 DEF A!Init
  <2>3. wallet \in Requests \cup {Nobody} /\ raced \in BOOLEAN
    BY DEF A!Init
  <2> QED BY <1>2, <1>4, <2>2, <2>3 DEF A!TypeOK
<1>6. OwnRows /\ OneInFlux
  BY <1>4 DEF OwnRows, OneInFlux, Raises, InFlux
<1>7. SeesOne
  <2>1. \A r \in Requests, a \in Accounts : A!Sees(r, a) = account[a]
    BY <1>4 DEF A!Sees, A!Holds
  <2> QED BY <1>3, <2>1 DEF SeesOne, A!Default
<1> QED BY <1>4, <1>5, <1>6, <1>7 DEF AccountsInv

\* Where nothing is written the invariant is a matter of types.
LEMMA ReadKeeps ==
  ASSUME AccountsInv, UNCHANGED <<account, dirty>>, req' \in [Requests -> A!RequestState],
         wallet' \in Requests \cup {Nobody}, raced' \in BOOLEAN
  PROVE  AccountsInv'
<1>1. A!TypeOK'
  BY DEF AccountsInv, A!TypeOK
<1>2. Tables' /\ OwnRows' /\ OneInFlux'
  BY DEF AccountsInv, Tables, OwnRows, OneInFlux, Raises, InFlux
<1>3. SeesOne'
  BY DEF AccountsInv, SeesOne, A!Default, A!Sees, A!Holds
<1> QED BY <1>1, <1>2, <1>3 DEF AccountsInv

\* Going to another statement
LEMMA GotoTypes ==
  ASSUME AccountsInv, NEW r \in Requests, NEW pc \in A!Places, A!Goto(r, pc)
  PROVE  req' \in [Requests -> A!RequestState]
<1> DEFINE c == [req[r] EXCEPT !.pc = pc, !.found = {}]
<1>1. req \in [Requests -> A!RequestState] /\ req[r] \in A!RequestState
  BY DEF AccountsInv, A!TypeOK
<1>2. c \in A!RequestState
  BY <1>1 DEF A!RequestState
<1>3. req' = [req EXCEPT ![r] = c]
  BY DEF A!Goto
<1> HIDE DEF c
<1> QED BY <1>1, <1>2, <1>3

\* Whoever has raised an account holds the one that was the default.
LEMMA RaisedHolds ==
  ASSUME AccountsInv, NEW r \in Requests, Raises(r), NEW a \in Accounts, A!IsDefault(account[a])
  PROVE  a \in DOMAIN dirty[r]
<1>1. PICK b \in DOMAIN dirty[r] : A!IsDefault(dirty[r][b]) /\ ~A!IsDefault(account[b])
  BY DEF Raises
<1>2. b \in A!Default(r)
  BY <1>1 DEF AccountsInv, A!TypeOK, A!Default, A!Sees, A!Holds
<1>3. a \notin DOMAIN dirty[r] => a \in A!Default(r)
  BY DEF A!Default, A!Sees, A!Holds
<1> QED BY <1>1, <1>2, <1>3 DEF AccountsInv, SeesOne

\* A statement writes one row that no other request holds; what enters the index finds
\* nothing in flux and no other default account.
LEMMA WriteKeeps ==
  ASSUME AccountsInv, NEW r \in Requests, NEW a \in Accounts, NEW row \in A!Row, A!Wrote(r, a, row),
         \A q \in Requests : q # r => a \notin DOMAIN dirty[q],
         \/ A!IsDefault(row) => A!IsDefault(A!Sees(r, a))
         \/ ~A!IndexBusy(r) /\ ~A!IndexTaken(r, a),
         account' = account, req' \in [Requests -> A!RequestState],
         wallet' \in Requests \cup {Nobody}, raced' \in BOOLEAN
  PROVE  AccountsInv'
<1> DEFINE D == [b \in DOMAIN dirty[r] \cup {a} |-> IF b = a THEN row ELSE dirty[r][b]]
<1>1. Tables /\ dirty' = [dirty EXCEPT ![r] = D]
  BY DEF AccountsInv, A!Wrote
<1>2. /\ DOMAIN D = DOMAIN dirty[r] \cup {a} /\ D[a] = row
      /\ \A b \in DOMAIN dirty[r] : b # a => D[b] = dirty[r][b]
  OBVIOUS
<1>3. /\ Tables' /\ dirty'[r] = D
      /\ \A q \in Requests : q # r => dirty'[q] = dirty[q]
  BY <1>1 DEF Tables
<1> HIDE DEF D
<1>4. A!TypeOK'
  <2>1. \A q \in Requests : DOMAIN dirty[q] \subseteq Accounts /\ \A b \in DOMAIN dirty[q] : dirty[q][b] \in A!Row
    BY DEF AccountsInv, A!TypeOK
  <2>2. \A q \in Requests : DOMAIN dirty'[q] \subseteq Accounts /\ \A b \in DOMAIN dirty'[q] : dirty'[q][b] \in A!Row
    <3> SUFFICES ASSUME NEW q \in Requests
                 PROVE  DOMAIN dirty'[q] \subseteq Accounts /\ \A b \in DOMAIN dirty'[q] : dirty'[q][b] \in A!Row
      OBVIOUS
    <3>1. CASE q = r
      BY <1>2, <1>3, <2>1, <3>1
    <3>2. CASE q # r
      BY <1>3, <2>1, <3>2
    <3> QED BY <3>1, <3>2
  <2> QED BY <2>2 DEF AccountsInv, A!TypeOK
<1>5. OwnRows'
  <2> SUFFICES ASSUME NEW p \in Requests, NEW q \in Requests,
                      NEW b \in DOMAIN dirty'[p], b \in DOMAIN dirty'[q]
               PROVE  p = q
    BY DEF OwnRows
  <2>1. CASE b = a
    <3>1. \A o \in Requests : o # r => b \notin DOMAIN dirty'[o]
      BY <1>3, <2>1
    <3> QED BY <3>1
  <2>2. CASE b # a
    <3>1. b \in DOMAIN dirty[p] /\ b \in DOMAIN dirty[q]
      BY <1>2, <1>3, <2>2
    <3> QED BY <3>1 DEF AccountsInv, OwnRows
  <2> QED BY <2>1, <2>2
<1>6. /\ A!Sees(r, a)' = row
      /\ \A b \in Accounts : b # a => A!Sees(r, b)' = A!Sees(r, b)
      /\ \A q \in Requests, b \in Accounts : q # r => A!Sees(q, b)' = A!Sees(q, b)
  BY <1>2, <1>3 DEF A!Sees, A!Holds
<1>7. SeesOne'
  <2>1. \A b, c \in Accounts : A!IsDefault(account'[b]) /\ A!IsDefault(account'[c]) => b = c
    BY DEF AccountsInv, SeesOne
  <2>2. ASSUME NEW q \in Requests, NEW b \in A!Default(q)', NEW c \in A!Default(q)' PROVE b = c
    <3>0. /\ b \in Accounts /\ A!IsDefault(A!Sees(q, b)')
          /\ c \in Accounts /\ A!IsDefault(A!Sees(q, c)')
      BY <2>2 DEF A!Default, A!IsDefault
    <3>1. CASE q # r
      <4>1. b \in A!Default(q) /\ c \in A!Default(q)
        BY <1>6, <3>0, <3>1 DEF A!Default
      <4> QED BY <4>1 DEF AccountsInv, SeesOne
    <3>2. CASE q = r /\ (A!IsDefault(row) => A!IsDefault(A!Sees(r, a)))
      <4>1. b \in A!Default(r) /\ c \in A!Default(r)
        BY <1>6, <3>0, <3>2 DEF A!Default
      <4> QED BY <4>1 DEF AccountsInv, SeesOne
    <3>3. CASE q = r /\ ~A!IndexTaken(r, a)
      <4>1. \A o \in Accounts : o # a => ~A!IsDefault(A!Sees(r, o))
        BY <3>3 DEF A!IndexTaken, A!Default
      <4>2. b = a /\ c = a
        BY <1>6, <3>0, <3>3, <4>1
      <4> QED BY <4>2
    <3> QED BY <3>1, <3>2, <3>3
  <2> QED BY <2>1, <2>2 DEF SeesOne
<1>8. OneInFlux'
  <2> SUFFICES ASSUME NEW p \in Requests, NEW q \in Requests, Raises(p)', InFlux(q)'
               PROVE  p = q
    BY DEF OneInFlux
  <2>1. \A o \in Requests : o # r => (Raises(o)' <=> Raises(o)) /\ (InFlux(o)' <=> InFlux(o))
    BY <1>3 DEF Raises, InFlux
  <2>2. CASE p # r /\ q # r
    BY <2>1, <2>2 DEF AccountsInv, OneInFlux
  <2>3. CASE p # r /\ q = r
    <3>1. Raises(p)
      BY <2>1, <2>3
    <3>2. ~InFlux(r)
      BY <2>3, <3>1 DEF AccountsInv, OneInFlux
    <3>3. A!IsDefault(row) \/ A!IsDefault(account[a])
      <4>1. PICK b \in DOMAIN dirty'[r] : A!IsDefault(dirty'[r][b]) \/ A!IsDefault(account[b])
        BY <2>3 DEF InFlux
      <4>2. b # a => b \in DOMAIN dirty[r] /\ dirty'[r][b] = dirty[r][b]
        BY <1>2, <1>3, <4>1
      <4>3. b = a
        BY <3>2, <4>1, <4>2 DEF InFlux
      <4> QED BY <1>2, <1>3, <4>1, <4>3
    <3>4. ~A!IsDefault(account[a])
      BY <2>3, <3>1, RaisedHolds
    <3>5. A!IsDefault(A!Sees(r, a)) => FALSE
      BY <3>2, <3>4 DEF A!Sees, A!Holds, InFlux
    <3>6. A!IndexBusy(r)
      BY <2>3, <3>1 DEF A!IndexBusy, Raises
    <3>7. ~A!IsDefault(row)
      BY <3>5, <3>6
    <3> QED BY <3>3, <3>4, <3>7
  <2>4. CASE p = r /\ q # r
    <3>1. InFlux(q)
      BY <2>1, <2>4
    <3>2. A!IndexBusy(r)
      BY <2>4, <3>1 DEF A!IndexBusy, InFlux
    <3>3. A!IsDefault(row) => A!IsDefault(A!Sees(r, a))
      BY <3>2
    <3>4. Raises(r)
      <4>1. PICK b \in DOMAIN dirty'[r] : A!IsDefault(dirty'[r][b]) /\ ~A!IsDefault(account[b])
        BY <2>4 DEF Raises
      <4>2. CASE b # a
        <5>1. b \in DOMAIN dirty[r] /\ dirty'[r][b] = dirty[r][b]
          BY <1>2, <1>3, <4>1, <4>2
        <5> QED BY <4>1, <5>1 DEF Raises
      <4>3. CASE b = a
        <5>1. A!IsDefault(A!Sees(r, a)) /\ ~A!IsDefault(account[a])
          BY <1>2, <1>3, <3>3, <4>1, <4>3
        <5> QED BY <5>1 DEF A!Sees, A!Holds, Raises
      <4> QED BY <4>2, <4>3
    <3> QED BY <2>4, <3>1, <3>4 DEF AccountsInv, OneInFlux
  <2> QED BY <2>2, <2>3, <2>4
<1> QED BY <1>3, <1>4, <1>5, <1>7, <1>8 DEF AccountsInv

\* The end of a transaction drops its rows.
LEMMA RowsDropped ==
  ASSUME AccountsInv, NEW r \in Requests, dirty' = [dirty EXCEPT ![r] = [a \in {} |-> A!Fresh]]
  PROVE  /\ Tables' /\ DOMAIN dirty'[r] = {}
         /\ \A q \in Requests : q # r => dirty'[q] = dirty[q]
         /\ \A q \in Requests : /\ DOMAIN dirty'[q] \subseteq Accounts
                                /\ \A a \in DOMAIN dirty'[q] : dirty'[q][a] \in A!Row
         /\ OwnRows'
<1> DEFINE D == [a \in {} |-> A!Fresh]
<1>1. DOMAIN D = {}
  OBVIOUS
<1> HIDE DEF D
<1>2. Tables /\ dirty' = [dirty EXCEPT ![r] = D]
  BY DEF AccountsInv, D
<1>3. Tables' /\ dirty'[r] = D /\ \A q \in Requests : q # r => dirty'[q] = dirty[q]
  BY <1>2 DEF Tables
<1>4. \A q \in Requests : DOMAIN dirty[q] \subseteq Accounts /\ \A a \in DOMAIN dirty[q] : dirty[q][a] \in A!Row
  BY DEF AccountsInv, A!TypeOK
<1>5. ASSUME NEW q \in Requests
      PROVE  DOMAIN dirty'[q] \subseteq Accounts /\ \A a \in DOMAIN dirty'[q] : dirty'[q][a] \in A!Row
  <2>1. CASE q = r
    BY <1>1, <1>3, <2>1
  <2>2. CASE q # r
    BY <1>3, <1>4, <2>2
  <2> QED BY <2>1, <2>2
<1>6. OwnRows'
  <2> SUFFICES ASSUME NEW p \in Requests, NEW q \in Requests,
                      NEW b \in DOMAIN dirty'[p], b \in DOMAIN dirty'[q]
               PROVE  p = q
    BY DEF OwnRows
  <2>1. b \in DOMAIN dirty[p] /\ b \in DOMAIN dirty[q]
    BY <1>1, <1>3
  <2> QED BY <2>1 DEF AccountsInv, OwnRows
<1> QED BY <1>1, <1>3, <1>5, <1>6

\* A rollback leaves the others as they were.
LEMMA RollbackKeeps ==
  ASSUME AccountsSetting, AccountsInv, NEW r \in Requests, A!Rollback(r)
  PROVE  AccountsInv'
<1>1. /\ dirty' = [dirty EXCEPT ![r] = [a \in {} |-> A!Fresh]] /\ account' = account
      /\ A!Goto(r, "failed") /\ raced' = raced /\ wallet' \in Requests \cup {Nobody}
  BY DEF A!Rollback, A!Released, AccountsInv, A!TypeOK
<1>2. "failed" \in A!Places
  BY DEF A!Places
<1>3. req' \in [Requests -> A!RequestState]
  BY <1>1, <1>2, GotoTypes
<1>4. /\ Tables' /\ OwnRows' /\ DOMAIN dirty'[r] = {}
      /\ \A q \in Requests : q # r => dirty'[q] = dirty[q]
      /\ \A q \in Requests : /\ DOMAIN dirty'[q] \subseteq Accounts
                             /\ \A a \in DOMAIN dirty'[q] : dirty'[q][a] \in A!Row
  BY <1>1, RowsDropped
<1>5. A!TypeOK'
  BY <1>1, <1>3, <1>4 DEF AccountsInv, A!TypeOK
<1>6. SeesOne'
  <2>1. \A a, b \in Accounts : A!IsDefault(account[a]) /\ A!IsDefault(account[b]) => a = b
    BY DEF AccountsInv, SeesOne
  <2>2. ASSUME NEW q \in Requests, NEW b \in A!Default(q)', NEW c \in A!Default(q)' PROVE b = c
    <3>0. /\ b \in Accounts /\ A!IsDefault(A!Sees(q, b)')
          /\ c \in Accounts /\ A!IsDefault(A!Sees(q, c)')
      BY <2>2 DEF A!Default, A!IsDefault
    <3>1. CASE q = r
      <4>1. \A a \in Accounts : A!Sees(r, a)' = account[a]
        BY <1>1, <1>4 DEF A!Sees, A!Holds
      <4> QED BY <2>1, <3>0, <3>1, <4>1
    <3>2. CASE q # r
      <4>1. \A a \in Accounts : A!Sees(q, a)' = A!Sees(q, a)
        BY <1>1, <1>4, <3>2 DEF A!Sees, A!Holds
      <4>2. b \in A!Default(q) /\ c \in A!Default(q)
        BY <3>0, <4>1 DEF A!Default
      <4> QED BY <4>2 DEF AccountsInv, SeesOne
    <3> QED BY <3>1, <3>2
  <2> QED BY <1>1, <2>1, <2>2 DEF SeesOne
<1>7. OneInFlux'
  <2>1. \A q \in Requests : (Raises(q)' => q # r /\ Raises(q)) /\ (InFlux(q)' => q # r /\ InFlux(q))
    BY <1>1, <1>4 DEF Raises, InFlux
  <2> QED BY <2>1 DEF AccountsInv, OneInFlux
<1> QED BY <1>4, <1>5, <1>6, <1>7 DEF AccountsInv

\* A commit shows what the request saw: one default account.
LEMMA CommitKeeps ==
  ASSUME AccountsSetting, AccountsInv, NEW r \in Requests, A!Commit(r)
  PROVE  AccountsInv'
<1>1. /\ dirty' = [dirty EXCEPT ![r] = [a \in {} |-> A!Fresh]]
      /\ account' = [a \in Accounts |-> A!Sees(r, a)]
      /\ A!Goto(r, "done") /\ raced' = raced /\ wallet' \in Requests \cup {Nobody}
  BY DEF A!Commit, A!Released, AccountsInv, A!TypeOK
<1>2. "done" \in A!Places
  BY DEF A!Places
<1>3. req' \in [Requests -> A!RequestState]
  BY <1>1, <1>2, GotoTypes
<1>4. /\ Tables' /\ OwnRows' /\ DOMAIN dirty'[r] = {}
      /\ \A q \in Requests : q # r => dirty'[q] = dirty[q]
      /\ \A q \in Requests : /\ DOMAIN dirty'[q] \subseteq Accounts
                             /\ \A a \in DOMAIN dirty'[q] : dirty'[q][a] \in A!Row
  BY <1>1, RowsDropped
<1>5. A!TypeOK'
  <2>1. \A a \in Accounts : A!Sees(r, a) \in A!Row
    BY DEF A!Sees, A!Holds, AccountsInv, A!TypeOK
  <2>2. account' \in [Accounts -> A!Row]
    BY <1>1, <2>1
  <2> QED BY <1>1, <1>3, <1>4, <2>2 DEF AccountsInv, A!TypeOK
<1>6. \A a \in Accounts : account'[a] = A!Sees(r, a)
  BY <1>1
<1>7. \A q \in Requests : \A a \in DOMAIN dirty[q] : q # r => account'[a] = account[a] /\ a \in Accounts
  <2>1. \A q \in Requests : \A a \in DOMAIN dirty[q] : q # r => a \notin DOMAIN dirty[r] /\ a \in Accounts
    BY DEF AccountsInv, OwnRows, A!TypeOK
  <2> QED BY <1>6, <2>1 DEF A!Sees, A!Holds
<1>8. SeesOne'
  <2>1. \A a, b \in Accounts : A!IsDefault(account'[a]) /\ A!IsDefault(account'[b]) => a = b
    BY <1>6 DEF AccountsInv, SeesOne, A!Default
  <2>2. ASSUME NEW q \in Requests, NEW b \in A!Default(q)', NEW c \in A!Default(q)' PROVE b = c
    <3>0. /\ b \in Accounts /\ A!IsDefault(A!Sees(q, b)')
          /\ c \in Accounts /\ A!IsDefault(A!Sees(q, c)')
      BY <2>2 DEF A!Default, A!IsDefault
    <3>1. CASE q = r
      <4>1. \A a \in Accounts : A!Sees(r, a)' = account'[a]
        BY <1>4 DEF A!Sees, A!Holds
      <4> QED BY <2>1, <3>0, <3>1, <4>1
    <3>2. CASE q # r
      <4>1. \A a \in Accounts : A!Sees(q, a)' = IF a \in DOMAIN dirty[q] THEN dirty[q][a] ELSE A!Sees(r, a)
        BY <1>4, <1>6, <3>2 DEF A!Sees, A!Holds
      <4>2. CASE Raises(r)
        <5>1. \A a \in DOMAIN dirty[q] : ~A!IsDefault(dirty[q][a])
          BY <3>2, <4>2 DEF AccountsInv, OneInFlux, InFlux
        <5>2. A!IsDefault(A!Sees(r, b)) /\ A!IsDefault(A!Sees(r, c))
          BY <3>0, <4>1, <5>1
        <5>3. b \in A!Default(r) /\ c \in A!Default(r)
          BY <3>0, <5>2 DEF A!Default
        <5> QED BY <5>3 DEF AccountsInv, SeesOne
      <4>3. CASE ~Raises(r)
        <5>1. \A a \in Accounts : A!IsDefault(A!Sees(r, a)) => A!IsDefault(account[a])
          BY <4>3 DEF A!Sees, A!Holds, Raises
        <5>2. \A a \in Accounts : A!IsDefault(A!Sees(q, a)') => A!IsDefault(A!Sees(q, a))
          BY <4>1, <5>1 DEF A!Sees, A!Holds
        <5>3. b \in A!Default(q) /\ c \in A!Default(q)
          BY <3>0, <5>2 DEF A!Default
        <5> QED BY <5>3 DEF AccountsInv, SeesOne
      <4> QED BY <4>2, <4>3
    <3> QED BY <3>1, <3>2
  <2> QED BY <2>1, <2>2 DEF SeesOne
<1>9. OneInFlux'
  <2>1. \A q \in Requests : (Raises(q)' => q # r /\ Raises(q)) /\ (InFlux(q)' => q # r /\ InFlux(q))
    BY <1>4, <1>7 DEF Raises, InFlux
  <2> QED BY <2>1 DEF AccountsInv, OneInFlux
<1> QED BY <1>4, <1>5, <1>8, <1>9 DEF AccountsInv

\* Every statement finds accounts.
LEMMA FindTypes ==
  ASSUME AccountsInv, NEW r \in Requests, A!Find(r)
  PROVE  req' \in [Requests -> A!RequestState]
<1>1. req \in [Requests -> A!RequestState] /\ req[r] \in A!RequestState /\ req[r].pc \in A!Updates
  BY DEF AccountsInv, A!TypeOK, A!Find
<1>2. PICK f \in A!Targets(r) :
         IF f = {} THEN A!Goto(r, A!After(r, FALSE)) ELSE req' = [req EXCEPT ![r].found = f]
  BY DEF A!Find
<1>3. f \subseteq Accounts
  BY DEF A!Targets, A!ClearDefaultAccount, A!PromoteDefaultAccount, A!Own, A!Live
<1>4. CASE f = {}
  <2>1. A!After(r, FALSE) \in A!Places
    BY <1>1 DEF A!After, A!Updates, A!Places, A!AfterDeletion
  <2> QED BY <1>2, <1>4, <2>1, GotoTypes
<1>5. CASE f # {}
  <2> DEFINE c == [req[r] EXCEPT !.found = f]
  <2>1. c \in A!RequestState
    BY <1>1, <1>3 DEF A!RequestState
  <2>2. req' = [req EXCEPT ![r] = c]
    BY <1>2, <1>5
  <2> HIDE DEF c
  <2> QED BY <1>1, <2>1, <2>2
<1> QED BY <1>4, <1>5

\* An UPDATE writes the row it found, as it is now, if nobody holds it.
LEMMA UpdateKeeps ==
  ASSUME AccountsSetting, AccountsInv, NEW r \in Requests, A!Update(r)
  PROVE  AccountsInv'
<1>1. /\ req[r] \in A!RequestState /\ req[r].pc \in A!Updates
      /\ UNCHANGED <<account, wallet, raced>> /\ wallet \in Requests \cup {Nobody} /\ raced \in BOOLEAN
  BY DEF AccountsInv, A!TypeOK, A!Update
<1>2. /\ A!After(r, TRUE) \in A!Places /\ A!After(r, FALSE) \in A!Places /\ "fail" \in A!Places
  BY <1>1 DEF A!After, A!Updates, A!Places, A!AfterDeletion
<1>3. ASSUME NEW pc \in A!Places, A!Goto(r, pc), UNCHANGED dirty PROVE AccountsInv'
  BY <1>1, <1>3, GotoTypes, ReadKeeps
<1>4. PICK a \in req[r].found :
         LET row == A!Sees(r, a)  new == A!Effect(r, row)
         IN  /\ ~A!RowLocked(r, a)
             /\ IF ~A!StillMatches(req[r].pc, row) THEN A!Goto(r, A!After(r, FALSE)) /\ UNCHANGED dirty
                ELSE IF A!IsDefault(new) /\ ~A!IsDefault(row)
                     THEN /\ ~A!IndexBusy(r)
                          /\ IF A!IndexTaken(r, a) THEN A!Goto(r, "fail") /\ UNCHANGED dirty
                             ELSE A!Wrote(r, a, new) /\ A!Goto(r, A!After(r, TRUE))
                     ELSE A!Wrote(r, a, new) /\ A!Goto(r, A!After(r, TRUE))
  BY DEF A!Update
<1>5. a \in Accounts
  BY <1>1 DEF A!RequestState
<1> DEFINE new == A!Effect(r, A!Sees(r, a))
<1>6. A!Sees(r, a) \in A!Row
  BY <1>5 DEF AccountsInv, A!TypeOK, A!Sees, A!Holds
<1>7. new \in A!Row
  <2> DEFINE row == A!Sees(r, a)
  <2>1. row \in A!Row
    BY <1>6
  <2> HIDE DEF row
  <2>2. A!Effect(r, row) \in A!Row
    BY <1>1, <2>1 DEF A!Effect, A!Updates, A!MarkDefaultAccount, A!SoftDeleteAccount, A!UpdateAccount, A!Row
  <2> QED BY <2>2 DEF row
<1>8. \A q \in Requests : q # r => a \notin DOMAIN dirty[q]
  BY <1>4 DEF A!RowLocked, A!Holds
<1>9. \/ \E pc \in A!Places : A!Goto(r, pc) /\ UNCHANGED dirty
      \/ /\ A!Wrote(r, a, new) /\ A!Goto(r, A!After(r, TRUE))
         /\ \/ A!IsDefault(new) => A!IsDefault(A!Sees(r, a))
            \/ ~A!IndexBusy(r) /\ ~A!IndexTaken(r, a)
  BY <1>2, <1>4
<1>10. CASE A!Wrote(r, a, new) /\ A!Goto(r, A!After(r, TRUE))
         /\ (\/ A!IsDefault(new) => A!IsDefault(A!Sees(r, a))
             \/ ~A!IndexBusy(r) /\ ~A!IndexTaken(r, a))
  <2>1. req' \in [Requests -> A!RequestState]
    BY <1>2, <1>10, GotoTypes
  <2> HIDE DEF new
  <2> QED BY <1>1, <1>5, <1>7, <1>8, <1>10, <2>1, WriteKeeps
<1> QED BY <1>3, <1>9, <1>10

\* CreateAccount inserts a row nobody has used.
LEMMA CreateKeeps ==
  ASSUME AccountsSetting, AccountsInv, NEW r \in Requests, A!CreateAccount(r)
  PROVE  AccountsInv'
<1>1. /\ req[r] \in A!RequestState
      /\ UNCHANGED <<account, wallet, raced>> /\ wallet \in Requests \cup {Nobody} /\ raced \in BOOLEAN
  BY DEF AccountsInv, A!TypeOK, A!CreateAccount
<1>2. "fail" \in A!Places /\ "choose" \in A!Places /\ "commit" \in A!Places
  BY DEF A!Places
<1>3. ASSUME NEW pc \in A!Places, A!Goto(r, pc), UNCHANGED dirty PROVE AccountsInv'
  BY <1>1, <1>3, GotoTypes, ReadKeeps
<1> DEFINE new == A!NewRow(r)
<1>4. PICK a \in Accounts :
         /\ \A q \in Requests : ~A!Holds(q, a)
         /\ new.default => ~A!IndexBusy(r)
         /\ IF new.default /\ A!IndexTaken(r, a) THEN A!Goto(r, "fail") /\ UNCHANGED dirty
            ELSE /\ A!Wrote(r, a, new)
                 /\ \E pc \in {"choose", "commit"} : A!Goto(r, pc)
  BY DEF A!CreateAccount
<1>5. new \in A!Row /\ (A!IsDefault(new) => new.default)
  <2>1. req[r].home \in BOOLEAN
    BY <1>1 DEF A!RequestState
  <2> QED BY <2>1 DEF A!NewRow, A!Row, A!IsDefault
<1>6. \A q \in Requests : q # r => a \notin DOMAIN dirty[q]
  BY <1>4 DEF A!Holds
<1> HIDE DEF new
<1>7. CASE A!Wrote(r, a, new) /\ (\E pc \in {"choose", "commit"} : A!Goto(r, pc))
         /\ ~(new.default /\ A!IndexTaken(r, a))
  <2>1. req' \in [Requests -> A!RequestState]
    BY <1>2, <1>7, GotoTypes
  <2>2. \/ A!IsDefault(new) => A!IsDefault(A!Sees(r, a))
        \/ ~A!IndexBusy(r) /\ ~A!IndexTaken(r, a)
    BY <1>4, <1>5, <1>7
  <2> QED BY <1>1, <1>5, <1>6, <1>7, <2>1, <2>2, WriteKeeps
<1>8. CASE A!Goto(r, "fail") /\ UNCHANGED dirty
  BY <1>2, <1>3, <1>8
<1> QED BY <1>4, <1>7, <1>8

\* Every step keeps the invariant.
LEMMA AccountsStep == ASSUME AccountsSetting, AccountsInv, [A!Next]_(A!vars) PROVE AccountsInv'
<1>0. /\ wallet \in Requests \cup {Nobody} /\ raced \in BOOLEAN
      /\ req \in [Requests -> A!RequestState]
  BY DEF AccountsInv, A!TypeOK
<1>1. ASSUME NEW r \in Requests, NEW pc \in A!Places, A!Goto(r, pc), UNCHANGED <<account, dirty, raced>>,
             wallet' \in Requests \cup {Nobody}
      PROVE  AccountsInv'
  BY <1>0, <1>1, GotoTypes, ReadKeeps
<1>2. ASSUME NEW r \in Requests, A!Start(r) PROVE AccountsInv'
  <2>1. PICK op \in A!Ops, id \in Accounts, flag, home \in BOOLEAN :
           /\ op \in {"create", "book"} => id = First /\ A!Room
           /\ op \in {"delete", "book"} => ~flag
           /\ op \in {"delete", "patch"} => home /\ ~account[id].new
           /\ req' = [req EXCEPT ![r] = [@ EXCEPT !.op = op, !.id = id, !.flag = flag, !.home = home,
                         !.pc = CASE op = "patch" -> "read" [] op = "delete" -> "softdelete"
                                  [] OTHER -> "lock"]]
           /\ raced' = (raced \/ \E q \in Requests : /\ A!InTx(q)
                                                     /\ "delete" \in {op, req[q].op}
                                                     /\ {op, req[q].op} \subseteq {"delete", "create", "book"})
    BY <1>2 DEF A!Start
  <2> DEFINE pc == CASE op = "patch" -> "read" [] op = "delete" -> "softdelete" [] OTHER -> "lock"
             c == [req[r] EXCEPT !.op = op, !.id = id, !.flag = flag, !.home = home, !.pc = pc]
  <2>2. pc \in A!Places
    BY DEF A!Places, A!Updates
  <2> HIDE DEF pc
  <2>3. req[r] \in A!RequestState
    BY <1>0
  <2>4. c \in A!RequestState
    BY <2>2, <2>3 DEF A!RequestState
  <2>5. req' = [req EXCEPT ![r] = c]
    BY <2>1 DEF pc
  <2> HIDE DEF c
  <2>6. req' \in [Requests -> A!RequestState] /\ UNCHANGED <<account, dirty, wallet>>
    BY <1>0, <1>2, <2>4, <2>5 DEF A!Start
  <2>7. raced' \in BOOLEAN
    BY <2>1, Zenon
  <2> QED BY <1>0, <2>6, <2>7, ReadKeeps
<1>3. ASSUME NEW r \in Requests, A!ReadAccount(r) PROVE AccountsInv'
  <2>1. PICK pc \in {"failed", "write", "clear"} : A!Goto(r, pc)
    BY <1>3 DEF A!ReadAccount
  <2>2. pc \in A!Places /\ UNCHANGED <<account, dirty, raced, wallet>>
    BY <1>3 DEF A!ReadAccount, A!Places, A!Updates
  <2> QED BY <1>0, <1>1, <2>1, <2>2
<1>4. ASSUME NEW r \in Requests, A!LockUserWallet(r) PROVE AccountsInv'
  <2>1. A!Goto(r, "default") /\ wallet' = r /\ UNCHANGED <<account, dirty, raced>>
    BY <1>4 DEF A!LockUserWallet
  <2>2. "default" \in A!Places
    BY DEF A!Places
  <2> QED BY <1>1, <2>1, <2>2
<1>5. ASSUME NEW r \in Requests, A!GetDefaultAccount(r) \/ A!GetFirstAccountByCurrency(r) PROVE AccountsInv'
  <2>1. PICK pc \in {"bootstrap", "clear", "insert", "commit", "choose", "promote"} : A!Goto(r, pc)
    <3>1. CASE A!GetDefaultAccount(r)
      BY <3>1 DEF A!GetDefaultAccount, A!Booked
    <3>2. CASE A!GetFirstAccountByCurrency(r)
      BY <3>2 DEF A!GetFirstAccountByCurrency
    <3> QED BY <1>5, <3>1, <3>2
  <2>2. pc \in A!Places /\ UNCHANGED <<account, dirty, raced, wallet>>
    BY <1>5 DEF A!GetDefaultAccount, A!GetFirstAccountByCurrency, A!Places, A!Updates
  <2> QED BY <1>0, <1>1, <2>1, <2>2
<1>6. ASSUME NEW r \in Requests, A!Find(r) PROVE AccountsInv'
  <2>1. UNCHANGED <<account, dirty, wallet, raced>>
    BY <1>6 DEF A!Find
  <2> QED BY <1>0, <1>6, <2>1, FindTypes, ReadKeeps
<1>7. ASSUME NEW r \in Requests, A!Fail(r) \/ A!Abort(r) \/ A!BreakDeadlock(r) PROVE AccountsInv'
  BY <1>7, RollbackKeeps DEF A!Fail, A!Abort, A!BreakDeadlock
<1>8. CASE UNCHANGED A!vars
  <2>1. UNCHANGED <<account, dirty, req, wallet, raced>>
    BY <1>8 DEF A!vars
  <2> QED BY <1>0, <2>1, ReadKeeps
<1> QED
  BY <1>2, <1>3, <1>4, <1>5, <1>6, <1>7, <1>8, UpdateKeeps, CreateKeeps, CommitKeeps
  DEF A!Next, A!Advance

(* The inductive invariant: every transaction and everybody outside sees   *)
(* at most one default account, and one transaction at a time makes one.   *)
THEOREM AccountsInductive == ASSUME AccountsSetting PROVE A!Spec => []AccountsInv
<1>1. A!Init => AccountsInv
  BY AccountsInit
<1>2. AccountsInv /\ [A!Next]_(A!vars) => AccountsInv'
  BY AccountsStep
<1> QED BY <1>1, <1>2, PTL DEF A!Spec

(* However creations, patches, deletions and bookings overlap, a user      *)
(* never has two default accounts.                                         *)
THEOREM OneDefault == ASSUME AccountsSetting PROVE A!Spec => [](A!TypeOK /\ A!OneDefault)
<1>1. ASSUME AccountsInv PROVE A!OneDefault
  <2> DEFINE S == {a \in Accounts : A!IsDefault(account[a])}
  <2>1. \A a, b \in S : a = b
    BY <1>1 DEF AccountsInv, SeesOne
  <2> HIDE DEF S
  <2>2. ASSUME S = {} PROVE Cardinality(S) = 0
    BY <2>2, FS_EmptySet
  <2>3. ASSUME S # {} PROVE Cardinality(S) = 1
    <3>1. PICK a \in S : TRUE
      BY <2>3
    <3>2. S = {a}
      BY <2>1, <3>1
    <3> QED BY <3>2, FS_Singleton
  <2>4. Cardinality(S) <= 1
    BY <2>2, <2>3
  <2>5. A!Cardinality(S) = Cardinality(S)
    BY DEF A!Cardinality, Cardinality
  <2>6. A!Cardinality(S) <= 1
    BY <2>4, <2>5
  <2> QED BY <2>6 DEF S, A!OneDefault
<1>2. AccountsInv => A!TypeOK
  BY DEF AccountsInv
<1> QED BY <1>1, <1>2, AccountsInductive, PTL

-----------------------------------------------------------------------------
(***************************************************************************)
(* The user's default account stays.  Beyond the rows in flux, this needs  *)
(* what each request has seen and done at each of its statements, as long  *)
(* as no deletion overlapped another or a creation.                        *)
(***************************************************************************)

\* A user starts without accounts or with a default one.
DefaultSetting == AccountsSetting /\ \A old \in Existing : old = {} \/ First \in old

\* What everybody sees of live accounts and of defaults
SomeLive == \E a \in Accounts : account[a].live
SomeDefault == \E a \in Accounts : A!IsDefault(account[a])

\* The row of a request is new, or says of its account what is committed: no request
\* revives an account, and only a deletion ends one.
RowKept(r, a) ==
    /\ ~dirty[r][a].new
    /\ account[a].new => req[r].op \in {"create", "book"}
    /\ ~account[a].new =>
           /\ dirty[r][a].cash = account[a].cash /\ dirty[r][a].home = account[a].home
           /\ dirty[r][a].live => account[a].live
           /\ account[a].live /\ req[r].op # "delete" => dirty[r][a].live

RowsKept ==
    /\ \A a \in Accounts : account[a].new => ~account[a].live /\ ~account[a].default
    /\ \A r \in Requests : \A a \in DOMAIN dirty[r] : RowKept(r, a)

\* Which request is at which statement
Stage(q) ==
    \/ q.op = "none" /\ q.pc = "idle"
    \/ q.op \in A!Ops /\ q.pc \in {"commit", "fail", "done", "failed"}
    \/ q.op = "patch" /\ q.pc \in {"read", "clear", "mark", "write"}
    \/ q.op = "delete" /\ q.pc \in {"softdelete", "promote"}
    \/ q.op = "create" /\ q.pc \in {"lock", "default", "clear", "insert", "bootstrap"}
    \/ q.op = "book" /\ q.pc \in {"lock", "default", "promote", "again", "bootstrap", "choose", "insert"}

\* Those that may make an account do so one at a time.
Makes(r) == req[r].op \in {"create", "book"}

WroteNothing(r) == DOMAIN dirty[r] = {}
OwnDefault(r) == \E a \in DOMAIN dirty[r] : A!IsDefault(dirty[r][a])
OnlyNew(r) == \A a \in DOMAIN dirty[r] : account[a].new
Plain(r) == \A a \in DOMAIN dirty[r] : dirty[r][a] = account[a]

Sane(r) ==
    /\ Stage(req[r])
    /\ req[r].pc = "idle" => req[r].found = {}
    /\ \A a \in req[r].found : ~A!Sees(r, a).new
    /\ req[r].pc \in {"idle", "read", "lock", "default", "softdelete", "done", "failed"} => WroteNothing(r)
    /\ Makes(r) /\ A!InTx(r) /\ req[r].pc # "lock" => wallet = r
    /\ req[r].op \in {"patch", "delete"} => ~account[req[r].id].new
    /\ req[r].pc \in {"mark", "write", "softdelete"} => req[r].found \subseteq {req[r].id}

\* A patch writes what is there, or has made its account the default, or its account is gone.
PatchRight(r) ==
    /\ req[r].op = "patch" /\ req[r].pc = "write" => Plain(r) \/ OwnDefault(r) \/ ~A!Sees(r, req[r].id).live
    /\ req[r].op = "patch" /\ req[r].pc = "commit" => Plain(r) \/ OwnDefault(r)

\* A deletion promotes an account that is live, ...
DeleteRight(r) ==
    /\ req[r].op = "delete" /\ req[r].pc = "promote" => \A a \in req[r].found : A!Sees(r, a).live
    /\ req[r].op = "delete" /\ req[r].pc = "commit" => A!Live(r) = {} \/ A!Default(r) # {}

\* ... and a creation adds to a user who has a default account or makes one.
MakeRight(r) ==
    /\ req[r].op = "create" /\ req[r].pc = "insert" => WroteNothing(r) /\ SomeLive
    /\ req[r].op = "book" /\ req[r].pc \in {"promote", "again", "bootstrap"} =>
           WroteNothing(r) /\ ~SomeLive /\ req[r].found = {}
    /\ req[r].op = "book" /\ req[r].pc \in {"choose", "insert"} => OwnDefault(r) \/ (WroteNothing(r) /\ SomeLive)
    /\ req[r].op = "book" /\ req[r].pc = "insert" => \A a \in A!Live(r) : A!Sees(r, a).home # req[r].home
    /\ Makes(r) /\ req[r].pc = "commit" => OwnDefault(r) \/ (OnlyNew(r) /\ SomeLive)

\* One account per currency of those the legacy API makes, as a request sees them
CashSeen(r) ==
    \A a, b \in A!Live(r) : A!Sees(r, a).cash /\ A!Sees(r, b).cash /\ A!Sees(r, a).home = A!Sees(r, b).home => a = b

\* What holds as long as no deletion overlapped another or a creation
Local(r) == PatchRight(r) /\ DeleteRight(r) /\ MakeRight(r) /\ CashSeen(r)

DeletesAlone == \A q, r \in Requests : q # r /\ A!InTx(q) /\ A!InTx(r) /\ req[q].op = "delete" => req[r].op = "patch"

Calm ==
    /\ SomeLive => SomeDefault
    /\ A!OneCash /\ DeletesAlone
    /\ \A r \in Requests : Local(r)

DefaultInv == AccountsInv /\ RowsKept /\ (\A r \in Requests : Sane(r)) /\ (~raced => Calm)

\* What a request reads that is not written
LEMMA ViewStays ==
  ASSUME NEW q \in Requests, account' = account, dirty'[q] = dirty[q]
  PROVE  /\ \A a \in Accounts : A!Sees(q, a)' = A!Sees(q, a)
         /\ (WroteNothing(q)' <=> WroteNothing(q)) /\ (OwnDefault(q)' <=> OwnDefault(q))
         /\ (OnlyNew(q)' <=> OnlyNew(q)) /\ (Plain(q)' <=> Plain(q))
         /\ (SomeLive' <=> SomeLive) /\ (SomeDefault' <=> SomeDefault)
         /\ A!Live(q)' = A!Live(q) /\ A!Default(q)' = A!Default(q)
<1>1. \A a \in Accounts : A!Sees(q, a)' = A!Sees(q, a)
  BY DEF A!Sees, A!Holds
<1>2. A!Live(q)' = A!Live(q) /\ A!Default(q)' = A!Default(q)
  BY <1>1 DEF A!Live, A!Default, A!IsDefault
<1> QED BY <1>1, <1>2 DEF WroteNothing, OwnDefault, OnlyNew, Plain, SomeLive, SomeDefault, A!IsDefault

\* A request that takes no step, and whose rows and lock are left alone, is as it was.
LEMMA OthersLocal ==
  ASSUME DefaultInv, NEW q \in Requests, account' = account, dirty'[q] = dirty[q], req'[q] = req[q],
         wallet = q => wallet' = q
  PROVE  /\ Sane(q)' /\ (\A a \in DOMAIN dirty'[q] : RowKept(q, a)')
         /\ (Local(q) => Local(q)')
<1>1. Sane(q) /\ \A a \in DOMAIN dirty[q] : RowKept(q, a)
  BY DEF DefaultInv, RowsKept
<1>2. /\ \A a \in Accounts : A!Sees(q, a)' = A!Sees(q, a)
      /\ (WroteNothing(q)' <=> WroteNothing(q)) /\ (OwnDefault(q)' <=> OwnDefault(q))
      /\ (OnlyNew(q)' <=> OnlyNew(q)) /\ (Plain(q)' <=> Plain(q))
      /\ (SomeLive' <=> SomeLive)
      /\ A!Live(q)' = A!Live(q) /\ A!Default(q)' = A!Default(q)
  BY ViewStays
<1>3. req[q] \in A!RequestState
  BY DEF DefaultInv, AccountsInv, A!TypeOK
<1>4. req[q].id \in Accounts /\ req[q].found \subseteq Accounts
  BY <1>3 DEF A!RequestState
<1>5. Sane(q)'
  BY <1>1, <1>2, <1>4 DEF Sane, Stage, Makes, A!InTx
<1>6. \A a \in DOMAIN dirty'[q] : RowKept(q, a)'
  BY <1>1 DEF RowKept
<1>7. (PatchRight(q) => PatchRight(q)') /\ (DeleteRight(q) => DeleteRight(q)')
  BY <1>2, <1>4 DEF PatchRight, DeleteRight
<1>8. MakeRight(q) => MakeRight(q)'
  BY <1>2 DEF MakeRight, Makes, A!Live
<1>9. CashSeen(q) => CashSeen(q)'
  BY <1>2 DEF CashSeen, A!Live
<1> QED BY <1>5, <1>6, <1>7, <1>8, <1>9 DEF Local

\* A step that commits nothing keeps the invariant if it does so for its request.
LEMMA StepLocal ==
  ASSUME DefaultInv, AccountsInv', NEW r \in Requests, UNCHANGED <<account, raced>>,
         \A q \in Requests : q # r => dirty'[q] = dirty[q] /\ req'[q] = req[q],
         \A q \in Requests : q # r /\ wallet = q => wallet' = q,
         Sane(r)', \A a \in DOMAIN dirty'[r] : RowKept(r, a)', ~raced => Local(r)',
         req'[r].op = req[r].op, A!InTx(r)' => A!InTx(r) \/ req[r].op = "patch"
  PROVE  DefaultInv'
<1>1. ASSUME NEW q \in Requests, q # r
      PROVE  Sane(q)' /\ (\A a \in DOMAIN dirty'[q] : RowKept(q, a)') /\ (Local(q) => Local(q)')
  BY <1>1, OthersLocal
<1>2. RowsKept' /\ \A q \in Requests : Sane(q)'
  BY <1>1 DEF DefaultInv, RowsKept
<1>3. ASSUME ~raced PROVE Calm'
  <2>1. Calm
    BY <1>3 DEF DefaultInv
  <2>2. (SomeLive => SomeDefault)' /\ A!OneCash'
    BY <2>1 DEF Calm, SomeLive, SomeDefault, A!OneCash, A!IsDefault
  <2>3. DeletesAlone'
    BY <2>1 DEF Calm, DeletesAlone, A!InTx
  <2>4. \A q \in Requests : Local(q)'
    BY <1>1, <1>3, <2>1 DEF Calm
  <2> QED BY <2>2, <2>3, <2>4 DEF Calm
<1> QED BY <1>2, <1>3 DEF DefaultInv

\* What Goto does
LEMMA GoesTo ==
  ASSUME AccountsInv, NEW r \in Requests, NEW pc \in A!Places, A!Goto(r, pc)
  PROVE  /\ req'[r].pc = pc /\ req'[r].found = {} /\ req'[r].op = req[r].op /\ req'[r].id = req[r].id
         /\ req'[r].flag = req[r].flag /\ req'[r].home = req[r].home
         /\ \A q \in Requests : q # r => req'[q] = req[q]
<1> DEFINE c == [req[r] EXCEPT !.pc = pc, !.found = {}]
<1>1. req \in [Requests -> A!RequestState] /\ req[r] \in A!RequestState
  BY DEF AccountsInv, A!TypeOK
<1>2. /\ c.pc = pc /\ c.found = {} /\ c.op = req[r].op /\ c.id = req[r].id
      /\ c.flag = req[r].flag /\ c.home = req[r].home
  BY <1>1 DEF A!RequestState
<1>3. req' = [req EXCEPT ![r] = c]
  BY DEF A!Goto
<1> HIDE DEF c
<1> QED BY <1>1, <1>2, <1>3


\* A statement that writes nothing keeps the invariant if its request is right where it goes.
LEMMA GotoLocal ==
  ASSUME DefaultInv, AccountsInv', NEW r \in Requests, NEW pc \in A!Places, A!Goto(r, pc),
         UNCHANGED <<account, dirty, raced>>, \A q \in Requests : q # r /\ wallet = q => wallet' = q,
         Sane(r)', ~raced => PatchRight(r)' /\ DeleteRight(r)' /\ MakeRight(r)',
         A!InTx(r) \/ req[r].op = "patch"
  PROVE  DefaultInv'
<1>1. /\ req'[r].op = req[r].op /\ \A q \in Requests : q # r => req'[q] = req[q]
  BY GoesTo DEF DefaultInv
<1>2. \A a \in DOMAIN dirty'[r] : RowKept(r, a)'
  BY <1>1 DEF DefaultInv, RowsKept, RowKept
<1>3. ASSUME ~raced PROVE CashSeen(r)'
  <2>1. A!Live(r)' = A!Live(r) /\ \A a \in Accounts : A!Sees(r, a)' = A!Sees(r, a)
    BY ViewStays
  <2> QED BY <1>3, <2>1 DEF DefaultInv, Calm, Local, CashSeen, A!Live
<1> QED BY <1>1, <1>2, <1>3, StepLocal DEF Local

\* Reading the account that a patch is about
LEMMA ReadLocal ==
  ASSUME DefaultInv, AccountsInv', NEW r \in Requests, A!ReadAccount(r)
  PROVE  DefaultInv'
<1>1. PICK pc \in {"failed", "write", "clear"} : A!Goto(r, pc)
  BY DEF A!ReadAccount
<1>2. pc \in A!Places /\ UNCHANGED <<account, dirty, raced, wallet>> /\ req[r].pc = "read"
  BY DEF A!ReadAccount, A!Places, A!Updates
<1>3. Sane(r)
  BY DEF DefaultInv
<1>4. req[r].op = "patch" /\ WroteNothing(r) /\ ~account[req[r].id].new
  BY <1>2, <1>3 DEF Sane, Stage, A!Ops
<1>5. /\ req'[r].pc = pc /\ req'[r].found = {} /\ req'[r].op = "patch" /\ req'[r].id = req[r].id
  BY <1>1, <1>2, <1>4, GoesTo DEF DefaultInv
<1>6. WroteNothing(r)' /\ Plain(r)'
  BY <1>2, <1>4 DEF WroteNothing, Plain
<1>7. Sane(r)'
  BY <1>2, <1>4, <1>5, <1>6 DEF Sane, Stage, Makes, A!Ops
<1>8. PatchRight(r)' /\ DeleteRight(r)' /\ MakeRight(r)'
  BY <1>5, <1>6 DEF PatchRight, DeleteRight, MakeRight, Makes
<1> QED BY <1>1, <1>2, <1>4, <1>7, <1>8, GotoLocal

\* Taking the wallet's lock
LEMMA LockLocal ==
  ASSUME AccountsSetting, DefaultInv, AccountsInv', NEW r \in Requests, A!LockUserWallet(r)
  PROVE  DefaultInv'
<1>1. /\ A!Goto(r, "default") /\ "default" \in A!Places /\ UNCHANGED <<account, dirty, raced>>
      /\ wallet = Nobody /\ wallet' = r /\ req[r].pc = "lock"
  BY DEF A!LockUserWallet, A!WalletFree, A!Places
<1>2. Sane(r)
  BY DEF DefaultInv
<1>3. Makes(r) /\ WroteNothing(r) /\ A!InTx(r)
  BY <1>1, <1>2 DEF Sane, Stage, Makes, A!Ops, A!InTx
<1>4. /\ req'[r].pc = "default" /\ req'[r].found = {} /\ req'[r].op = req[r].op
  BY <1>1, GoesTo DEF DefaultInv
<1>5. WroteNothing(r)'
  BY <1>1, <1>3 DEF WroteNothing
<1>6. Sane(r)'
  BY <1>1, <1>3, <1>4, <1>5 DEF Sane, Stage, Makes
<1>7. PatchRight(r)' /\ DeleteRight(r)' /\ MakeRight(r)'
  BY <1>3, <1>4 DEF PatchRight, DeleteRight, MakeRight, Makes
<1> QED BY <1>1, <1>3, <1>6, <1>7, GotoLocal DEF AccountsSetting

\* Looking for the default account
LEMMA GetDefaultLocal ==
  ASSUME AccountsSetting, DefaultInv, AccountsInv', NEW r \in Requests, A!GetDefaultAccount(r)
  PROVE  DefaultInv'
<1> DEFINE has == A!Default(r) # {}
<1>1. PICK pc \in {"bootstrap", "clear", "insert", "commit", "choose", "promote"} :
        /\ A!Goto(r, pc)
        /\ req[r].op = "create" => IF has THEN pc \in {"clear", "insert"} ELSE pc = "bootstrap"
        /\ req[r].op # "create" /\ has => pc \in {"commit", "choose"}
        /\ req[r].op # "create" /\ ~has => pc = IF req[r].pc = "default" THEN "promote" ELSE "bootstrap"
  BY DEF A!GetDefaultAccount, A!Booked
<1>2. pc \in A!Places /\ UNCHANGED <<account, dirty, raced, wallet>> /\ req[r].pc \in {"default", "again"}
  BY DEF A!GetDefaultAccount, A!Places, A!Updates
<1>3. Sane(r)
  BY DEF DefaultInv
<1>4. /\ (req[r].op = "create" /\ req[r].pc = "default") \/ req[r].op = "book"
      /\ A!InTx(r) /\ wallet = r /\ (req[r].pc = "default" => WroteNothing(r))
  BY <1>2, <1>3 DEF Sane, Stage, Makes, A!Ops, A!InTx
<1>5. /\ req'[r].pc = pc /\ req'[r].found = {} /\ req'[r].op = req[r].op
  BY <1>1, <1>2, GoesTo DEF DefaultInv
<1>6. /\ (WroteNothing(r)' <=> WroteNothing(r)) /\ (OnlyNew(r)' <=> OnlyNew(r))
      /\ (SomeLive' <=> SomeLive) /\ A!Live(r)' = A!Live(r)
  BY <1>2, ViewStays
<1>7. Sane(r)'
  <2>1. Stage(req'[r])
    BY <1>1, <1>2, <1>4, <1>5 DEF Stage, A!Ops
  <2>2. pc \notin {"idle", "read", "lock", "default", "softdelete", "done", "failed", "mark", "write"}
    OBVIOUS
  <2>3. req'[r].op \notin {"patch", "delete"}
    BY <1>4, <1>5
  <2> QED BY <1>2, <1>4, <1>5, <2>1, <2>2, <2>3 DEF Sane
<1>8. ASSUME ~raced PROVE PatchRight(r)' /\ DeleteRight(r)' /\ MakeRight(r)'
  <2>1. Calm /\ MakeRight(r)
    BY <1>8 DEF DefaultInv, Calm, Local
  <2>2. WroteNothing(r)
    BY <1>2, <1>4, <2>1 DEF MakeRight
  <2>3. \A a \in Accounts : A!Sees(r, a) = account[a]
    BY <2>2 DEF WroteNothing, A!Sees, A!Holds
  <2>4. has <=> SomeDefault
    BY <2>3 DEF A!Default, SomeDefault
  <2>5. has <=> SomeLive
    BY <2>1, <2>4 DEF Calm, SomeLive, SomeDefault, A!IsDefault
  <2>6. OnlyNew(r)
    BY <2>2 DEF WroteNothing, OnlyNew
  <2> QED BY <1>1, <1>2, <1>4, <1>5, <1>6, <2>2, <2>5, <2>6 DEF PatchRight, DeleteRight, MakeRight, Makes
<1> QED BY <1>1, <1>2, <1>4, <1>7, <1>8, GotoLocal

\* Looking for an account in the currency
LEMMA ChooseLocal ==
  ASSUME AccountsSetting, DefaultInv, AccountsInv', NEW r \in Requests, A!GetFirstAccountByCurrency(r)
  PROVE  DefaultInv'
<1>1. PICK pc \in {"commit", "insert"} :
        A!Goto(r, pc) /\ (pc = "insert" => \A a \in A!Live(r) : A!Sees(r, a).home # req[r].home)
  BY DEF A!GetFirstAccountByCurrency
<1>2. pc \in A!Places /\ UNCHANGED <<account, dirty, raced, wallet>> /\ req[r].pc = "choose"
  BY DEF A!GetFirstAccountByCurrency, A!Places
<1>3. Sane(r)
  BY DEF DefaultInv
<1>4. req[r].op = "book" /\ A!InTx(r) /\ wallet = r
  BY <1>2, <1>3 DEF Sane, Stage, Makes, A!Ops, A!InTx
<1>5. /\ req'[r].pc = pc /\ req'[r].found = {} /\ req'[r].op = req[r].op /\ req'[r].home = req[r].home
  BY <1>1, <1>2, GoesTo DEF DefaultInv
<1>6. /\ (WroteNothing(r)' <=> WroteNothing(r)) /\ (OnlyNew(r)' <=> OnlyNew(r)) /\ (OwnDefault(r)' <=> OwnDefault(r))
      /\ (SomeLive' <=> SomeLive) /\ A!Live(r)' = A!Live(r)
      /\ \A a \in Accounts : A!Sees(r, a)' = A!Sees(r, a)
  BY <1>2, ViewStays
<1>7. Sane(r)'
  BY <1>2, <1>4, <1>5, <1>6 DEF Sane, Stage, Makes, A!Ops, A!InTx
<1>8. ASSUME ~raced PROVE PatchRight(r)' /\ DeleteRight(r)' /\ MakeRight(r)'
  <2>1. OwnDefault(r) \/ (WroteNothing(r) /\ SomeLive)
    BY <1>2, <1>4, <1>8 DEF DefaultInv, Calm, Local, MakeRight
  <2>2. WroteNothing(r) => OnlyNew(r)
    BY DEF WroteNothing, OnlyNew
  <2>3. pc = "insert" => \A a \in A!Live(r)' : A!Sees(r, a)'.home # req'[r].home
    BY <1>1, <1>5, <1>6 DEF A!Live
  <2> QED BY <1>4, <1>5, <1>6, <2>1, <2>2, <2>3 DEF PatchRight, DeleteRight, MakeRight, Makes
<1> QED BY <1>1, <1>2, <1>4, <1>7, <1>8, GotoLocal

\* An UPDATE finds its rows, or none and goes on.
LEMMA FindLocal ==
  ASSUME AccountsSetting, DefaultInv, AccountsInv', NEW r \in Requests, A!Find(r)
  PROVE  DefaultInv'
<1>1. req \in [Requests -> A!RequestState] /\ req[r] \in A!RequestState /\ Sane(r) /\ AccountsInv
  BY DEF DefaultInv, AccountsInv, A!TypeOK
<1>2. UNCHANGED <<account, dirty, raced, wallet>> /\ req[r].pc \in A!Updates
  BY DEF A!Find
<1>3. PICK f \in A!Targets(r) :
         IF f = {} THEN A!Goto(r, A!After(r, FALSE)) ELSE req' = [req EXCEPT ![r].found = f]
  BY DEF A!Find
<1>4. /\ req[r].pc \in {"mark", "write", "softdelete"} => f = {req[r].id} \cap A!Live(r)
      /\ req[r].pc = "promote" =>
             IF A!Default(r) # {} \/ A!Live(r) = {} THEN f = {} ELSE \E a \in A!Live(r) : f = {a}
      /\ req[r].pc = "clear" => f = {a \in Accounts : A!Sees(r, a).default}
  BY <1>2 DEF A!Targets, A!ClearDefaultAccount, A!PromoteDefaultAccount, A!Own, A!Updates
<1>5. /\ A!InTx(r) /\ (Makes(r) => wallet = r) /\ (req[r].pc = "softdelete" => WroteNothing(r))
      /\ req[r].op \in {"patch", "delete"} => ~account[req[r].id].new
      /\ \/ req[r].op = "patch" /\ req[r].pc \in {"clear", "mark", "write"}
         \/ req[r].op = "delete" /\ req[r].pc \in {"softdelete", "promote"}
         \/ req[r].op = "create" /\ req[r].pc = "clear"
         \/ req[r].op = "book" /\ req[r].pc = "promote"
  BY <1>1, <1>2 DEF Sane, Stage, Makes, A!Ops, A!InTx, A!Updates
<1>6. /\ (WroteNothing(r)' <=> WroteNothing(r)) /\ (OwnDefault(r)' <=> OwnDefault(r)) /\ (Plain(r)' <=> Plain(r))
      /\ (SomeLive' <=> SomeLive) /\ A!Live(r)' = A!Live(r) /\ A!Default(r)' = A!Default(r)
      /\ \A a \in Accounts : A!Sees(r, a)' = A!Sees(r, a)
  BY <1>2, ViewStays
<1>7. ASSUME ~raced, req[r].op = "book" PROVE WroteNothing(r) /\ ~SomeLive /\ f = {}
  <2>1. WroteNothing(r) /\ ~SomeLive /\ req[r].pc = "promote"
    BY <1>5, <1>7 DEF DefaultInv, Calm, Local, MakeRight
  <2>2. A!Live(r) = {}
    BY <2>1 DEF WroteNothing, SomeLive, A!Live, A!Sees, A!Holds
  <2> QED BY <1>4, <2>1, <2>2
<1>8. CASE f = {}
  <2>1. PICK pc \in A!Places : pc = A!After(r, FALSE) /\ A!Goto(r, pc)
    <3>1. A!After(r, FALSE) \in A!Places
      BY <1>2 DEF A!After, A!Updates, A!Places, A!AfterDeletion
    <3> QED BY <1>3, <1>8, <3>1
  <2>2. /\ req[r].op = "patch" /\ req[r].pc = "clear" => pc = "mark"
        /\ req[r].op = "patch" /\ req[r].pc = "mark" => pc = "write"
        /\ req[r].op = "patch" /\ req[r].pc = "write" => pc = "fail"
        /\ req[r].op = "delete" /\ req[r].pc = "softdelete" => pc = "fail"
        /\ req[r].op = "delete" /\ req[r].pc = "promote" => pc = "commit"
        /\ req[r].op = "create" => pc = "bootstrap"
        /\ req[r].op = "book" => pc = "again"
    <3>1. CASE req[r].pc = "clear"
      BY <1>5, <2>1, <3>1 DEF A!After
    <3>2. CASE req[r].pc = "mark"
      BY <1>5, <2>1, <3>2 DEF A!After
    <3>3. CASE req[r].pc = "promote"
      BY <1>5, <2>1, <3>3 DEF A!After
    <3>4. CASE req[r].pc = "write"
      BY <1>5, <2>1, <3>4 DEF A!After
    <3>5. CASE req[r].pc = "softdelete"
      BY <1>5, <2>1, <3>5 DEF A!After
    <3> QED BY <1>2, <3>1, <3>2, <3>3, <3>4, <3>5 DEF A!Updates
  <2>3. /\ req'[r].pc = pc /\ req'[r].found = {} /\ req'[r].op = req[r].op /\ req'[r].id = req[r].id
    BY <1>1, <2>1, GoesTo
  <2>4. Sane(r)'
    BY <1>2, <1>5, <2>2, <2>3 DEF Sane, Stage, Makes, A!Ops, A!InTx
  <2>5. req[r].pc = "mark" => ~A!Sees(r, req[r].id).live
    BY <1>1, <1>4, <1>8 DEF A!Live, A!RequestState
  <2>6. PatchRight(r)'
    BY <1>1, <1>5, <1>6, <2>2, <2>3, <2>5 DEF PatchRight, A!RequestState
  <2>7. DeleteRight(r)'
    BY <1>4, <1>5, <1>6, <1>8, <2>2, <2>3 DEF DeleteRight
  <2>8. ~raced => MakeRight(r)'
    BY <1>5, <1>6, <1>7, <2>2, <2>3 DEF MakeRight, Makes
  <2> QED BY <1>2, <1>5, <2>1, <2>4, <2>6, <2>7, <2>8, GotoLocal
<1>9. CASE f # {}
  <2> DEFINE c == [req[r] EXCEPT !.found = f]
  <2>1. /\ c.pc = req[r].pc /\ c.found = f /\ c.op = req[r].op /\ c.id = req[r].id /\ c.home = req[r].home
    BY <1>1 DEF A!RequestState
  <2>2. req' = [req EXCEPT ![r] = c]
    BY <1>3, <1>9
  <2> HIDE DEF c
  <2>3. /\ req'[r].pc = req[r].pc /\ req'[r].found = f /\ req'[r].op = req[r].op /\ req'[r].id = req[r].id
        /\ \A q \in Requests : q # r => req'[q] = req[q]
    BY <1>1, <2>1, <2>2
  <2>4. ASSUME NEW a \in f PROVE a \in Accounts /\ ~A!Sees(r, a).new
    <3>1. a \in Accounts /\ (A!Sees(r, a).live \/ A!Sees(r, a).default)
      BY <1>4, <1>5, <2>4 DEF A!Live
    <3>2. A!Holds(r, a) => ~dirty[r][a].new
      BY DEF DefaultInv, RowsKept, RowKept, A!Holds
    <3>3. account[a].new => ~account[a].live /\ ~account[a].default
      BY <3>1 DEF DefaultInv, RowsKept
    <3> QED BY <3>1, <3>2, <3>3 DEF A!Sees
  <2>5. Sane(r)'
    BY <1>1, <1>2, <1>4, <1>5, <1>6, <2>3, <2>4 DEF Sane, Stage, Makes, A!Ops, A!InTx
  <2>6. \A a \in DOMAIN dirty'[r] : RowKept(r, a)'
    BY <1>2, <2>3 DEF DefaultInv, RowsKept, RowKept
  <2>7. ASSUME ~raced PROVE Local(r)'
    <3>1. Local(r) /\ req[r].op # "book"
      BY <1>7, <1>9, <2>7 DEF DefaultInv, Calm
    <3>2. PatchRight(r)'
      BY <1>1, <1>6, <2>3, <3>1 DEF Local, PatchRight, A!RequestState
    <3>3. DeleteRight(r)'
      BY <1>4, <1>5, <1>6, <1>9, <2>3 DEF DeleteRight, A!Live
    <3>4. MakeRight(r)'
      BY <1>5, <2>3, <3>1 DEF MakeRight, Makes
    <3>5. CashSeen(r)'
      BY <1>6, <3>1 DEF Local, CashSeen, A!Live
    <3> QED BY <3>2, <3>3, <3>4, <3>5 DEF Local
  <2> QED BY <1>2, <1>5, <2>3, <2>5, <2>6, <2>7, StepLocal DEF A!InTx
<1> QED BY <1>8, <1>9


\* What everybody sees once a request has written a row
LEMMA WroteView ==
  ASSUME AccountsInv, NEW r \in Requests, NEW a \in Accounts, NEW row \in A!Row, A!Wrote(r, a, row),
         account' = account
  PROVE  /\ DOMAIN dirty'[r] = DOMAIN dirty[r] \cup {a} /\ dirty'[r][a] = row
         /\ \A b \in DOMAIN dirty[r] : b # a => dirty'[r][b] = dirty[r][b]
         /\ \A q \in Requests : q # r => dirty'[q] = dirty[q]
         /\ A!Sees(r, a)' = row
         /\ \A b \in Accounts : b # a => A!Sees(r, b)' = A!Sees(r, b)
<1> DEFINE D == [b \in DOMAIN dirty[r] \cup {a} |-> IF b = a THEN row ELSE dirty[r][b]]
<1>1. Tables /\ dirty' = [dirty EXCEPT ![r] = D]
  BY DEF AccountsInv, A!Wrote
<1>2. /\ DOMAIN D = DOMAIN dirty[r] \cup {a} /\ D[a] = row
      /\ \A b \in DOMAIN dirty[r] : b # a => D[b] = dirty[r][b]
  OBVIOUS
<1>3. dirty'[r] = D /\ \A q \in Requests : q # r => dirty'[q] = dirty[q]
  BY <1>1 DEF Tables
<1> HIDE DEF D
<1>4. A!Sees(r, a)' = row /\ \A b \in Accounts : b # a => A!Sees(r, b)' = A!Sees(r, b)
  BY <1>2, <1>3 DEF A!Sees, A!Holds
<1> QED BY <1>2, <1>3, <1>4

\* A request sees no row that was never used once it has found it, ...
LEMMA FoundKept ==
  ASSUME DefaultInv, NEW r \in Requests, NEW a \in Accounts, ~A!Sees(r, a).new
  PROVE  /\ account[a].new => Makes(r)
         /\ ~account[a].new =>
                /\ A!Sees(r, a).cash = account[a].cash /\ A!Sees(r, a).home = account[a].home
                /\ A!Sees(r, a).live => account[a].live
                /\ account[a].live /\ req[r].op # "delete" => A!Sees(r, a).live
<1>1. CASE A!Holds(r, a)
  BY <1>1 DEF DefaultInv, RowsKept, RowKept, A!Sees, A!Holds, Makes
<1>2. CASE ~A!Holds(r, a)
  BY <1>2 DEF A!Sees
<1> QED BY <1>1, <1>2

\* ... and writes it back with the currency it has.
LEMMA WrittenKept ==
  ASSUME DefaultInv, NEW r \in Requests, NEW a \in Accounts, NEW row \in A!Row, A!Wrote(r, a, row),
         account' = account, req'[r].op = req[r].op, ~A!Sees(r, a).new, ~row.new,
         row.cash = A!Sees(r, a).cash, row.home = A!Sees(r, a).home, row.live => A!Sees(r, a).live,
         req[r].op # "delete" => row.live = A!Sees(r, a).live
  PROVE  /\ \A b \in DOMAIN dirty'[r] : RowKept(r, b)'
         /\ CashSeen(r) => CashSeen(r)'
<1>1. /\ DOMAIN dirty'[r] = DOMAIN dirty[r] \cup {a} /\ dirty'[r][a] = row
      /\ \A b \in DOMAIN dirty[r] : b # a => dirty'[r][b] = dirty[r][b]
      /\ A!Sees(r, a)' = row
      /\ \A b \in Accounts : b # a => A!Sees(r, b)' = A!Sees(r, b)
  BY WroteView DEF DefaultInv
<1>2. ASSUME NEW b \in DOMAIN dirty'[r] PROVE RowKept(r, b)'
  <2>1. CASE b = a
    <3>1. /\ account[a].new => Makes(r)
          /\ ~account[a].new =>
                /\ A!Sees(r, a).cash = account[a].cash /\ A!Sees(r, a).home = account[a].home
                /\ A!Sees(r, a).live => account[a].live
                /\ account[a].live /\ req[r].op # "delete" => A!Sees(r, a).live
      BY FoundKept
    <3> QED BY <1>1, <2>1, <3>1 DEF RowKept, Makes
  <2>2. CASE b # a
    <3>1. b \in DOMAIN dirty[r] /\ dirty'[r][b] = dirty[r][b] /\ RowKept(r, b)
      BY <1>1, <1>2, <2>2 DEF DefaultInv, RowsKept
    <3> QED BY <3>1 DEF RowKept
  <2> QED BY <2>1, <2>2
<1>3. ASSUME NEW b \in A!Live(r)'
      PROVE  b \in A!Live(r) /\ A!Sees(r, b)'.cash = A!Sees(r, b).cash /\ A!Sees(r, b)'.home = A!Sees(r, b).home
  <2>1. b \in Accounts /\ A!Sees(r, b)'.live
    BY <1>3 DEF A!Live
  <2>2. CASE b = a
    BY <1>1, <2>1, <2>2 DEF A!Live
  <2>3. CASE b # a
    BY <1>1, <2>1, <2>3 DEF A!Live
  <2> QED BY <2>2, <2>3
<1>4. ASSUME CashSeen(r) PROVE CashSeen(r)'
  BY <1>3, <1>4 DEF CashSeen
<1> QED BY <1>2, <1>4

\* An UPDATE writes its row, or finds that it no longer matches.
LEMMA UpdateLocal ==
  ASSUME AccountsSetting, DefaultInv, AccountsInv', NEW r \in Requests, A!Update(r)
  PROVE  DefaultInv'
<1>1. req \in [Requests -> A!RequestState] /\ req[r] \in A!RequestState /\ Sane(r) /\ AccountsInv
  BY DEF DefaultInv, AccountsInv, A!TypeOK
<1>2. UNCHANGED <<account, raced, wallet>> /\ req[r].pc \in A!Updates
  BY DEF A!Update
<1> DEFINE Eff(a) == A!Effect(r, A!Sees(r, a))
<1>3. PICK a \in req[r].found :
         \/ ~A!StillMatches(req[r].pc, A!Sees(r, a)) /\ A!Goto(r, A!After(r, FALSE)) /\ UNCHANGED dirty
         \/ A!Goto(r, "fail") /\ UNCHANGED dirty
         \/ /\ A!StillMatches(req[r].pc, A!Sees(r, a))
            /\ A!Wrote(r, a, Eff(a)) /\ A!Goto(r, A!After(r, TRUE))
  BY DEF A!Update
<1>4. a \in Accounts /\ ~A!Sees(r, a).new
  BY <1>1 DEF A!RequestState, Sane
<1>5. /\ A!InTx(r) /\ (Makes(r) => wallet = r)
      /\ req[r].op \in {"patch", "delete"} => ~account[req[r].id].new
      /\ req[r].pc \in {"mark", "write", "softdelete"} => a = req[r].id
      /\ \/ req[r].op = "patch" /\ req[r].pc \in {"clear", "mark", "write"}
         \/ req[r].op = "delete" /\ req[r].pc \in {"softdelete", "promote"}
         \/ req[r].op = "create" /\ req[r].pc = "clear"
         \/ req[r].op = "book" /\ req[r].pc = "promote"
  BY <1>1, <1>2 DEF Sane, Stage, Makes, A!Ops, A!InTx, A!Updates
<1>6. ASSUME NEW hit \in BOOLEAN
      PROVE  /\ A!After(r, hit) \in A!Places
             /\ req[r].op = "patch" /\ req[r].pc = "clear" => A!After(r, hit) = "mark"
             /\ req[r].op = "patch" /\ req[r].pc = "mark" => A!After(r, hit) = "write"
             /\ req[r].op = "patch" /\ req[r].pc = "write" => A!After(r, hit) = IF hit THEN "commit" ELSE "fail"
             /\ req[r].op = "delete" /\ req[r].pc = "softdelete" => A!After(r, hit) = IF hit THEN "promote" ELSE "fail"
             /\ req[r].op = "delete" /\ req[r].pc = "promote" => A!After(r, hit) = "commit"
             /\ req[r].op = "create" => A!After(r, hit) = "bootstrap"
             /\ req[r].op = "book" => A!After(r, hit) = "again"
  <2>1. A!After(r, hit) \in A!Places
    BY <1>2 DEF A!After, A!Updates, A!Places, A!AfterDeletion
  <2>2. CASE req[r].pc = "clear"
    BY <1>5, <2>1, <2>2 DEF A!After
  <2>3. CASE req[r].pc = "mark"
    BY <1>5, <2>1, <2>3 DEF A!After
  <2>4. CASE req[r].pc = "promote"
    BY <1>5, <2>1, <2>4 DEF A!After
  <2>5. CASE req[r].pc = "write"
    BY <1>5, <2>1, <2>5 DEF A!After
  <2>6. CASE req[r].pc = "softdelete"
    BY <1>5, <2>1, <2>6 DEF A!After, A!AfterDeletion
  <2> QED BY <1>2, <2>2, <2>3, <2>4, <2>5, <2>6 DEF A!Updates
<1>7. ASSUME NEW hit \in BOOLEAN, A!Goto(r, A!After(r, hit))
      PROVE  /\ req'[r].pc = A!After(r, hit) /\ req'[r].found = {}
             /\ req'[r].op = req[r].op /\ req'[r].id = req[r].id
             /\ \A q \in Requests : q # r => req'[q] = req[q]
             /\ Sane(r)'
  <2>1. PICK pc \in A!Places : pc = A!After(r, hit) /\ A!Goto(r, pc)
    BY <1>6, <1>7
  <2>2. /\ req'[r].pc = pc /\ req'[r].found = {} /\ req'[r].op = req[r].op /\ req'[r].id = req[r].id
        /\ \A q \in Requests : q # r => req'[q] = req[q]
    BY <1>1, <2>1, GoesTo
  <2>3. /\ req[r].op = "patch" => pc \in {"mark", "write", "commit", "fail"}
        /\ req[r].op = "delete" => pc \in {"promote", "commit", "fail"}
        /\ req[r].op = "create" => pc = "bootstrap"
        /\ req[r].op = "book" => pc = "again"
    BY <1>5, <1>6, <2>1
  <2>4. Sane(r)'
    BY <1>2, <1>5, <2>2, <2>3 DEF Sane, Stage, Makes, A!Ops, A!InTx
  <2> QED BY <2>1, <2>2, <2>4
<1>8. CASE A!Goto(r, "fail") /\ UNCHANGED dirty
  <2>1. "fail" \in A!Places
    BY DEF A!Places
  <2>2. req'[r].pc = "fail" /\ req'[r].found = {} /\ req'[r].op = req[r].op /\ req'[r].id = req[r].id
    BY <1>1, <1>8, <2>1, GoesTo
  <2>3. Sane(r)'
    BY <1>2, <1>5, <2>2 DEF Sane, Stage, Makes, A!Ops, A!InTx
  <2>4. PatchRight(r)' /\ DeleteRight(r)' /\ MakeRight(r)'
    BY <2>2 DEF PatchRight, DeleteRight, MakeRight, Makes
  <2> QED BY <1>2, <1>5, <1>8, <2>1, <2>3, <2>4, GotoLocal
<1>9. CASE ~A!StillMatches(req[r].pc, A!Sees(r, a)) /\ A!Goto(r, A!After(r, FALSE)) /\ UNCHANGED dirty
  <2>1. PICK pc \in A!Places : pc = A!After(r, FALSE) /\ A!Goto(r, pc)
    BY <1>6, <1>9
  <2>2. /\ req'[r].pc = pc /\ req'[r].found = {} /\ req'[r].op = req[r].op /\ req'[r].id = req[r].id
        /\ Sane(r)'
    BY <1>7, <1>9, <2>1
  <2>3. req[r].pc # "promote" /\ (req[r].pc = "mark" => ~A!Sees(r, a).live)
    BY <1>9 DEF A!StillMatches
  <2>4. \A b \in Accounts : A!Sees(r, b)' = A!Sees(r, b)
    BY <1>2, <1>9, ViewStays
  <2>5. PatchRight(r)'
    <3>1. req[r].op = "patch" /\ req'[r].pc = "write" => req[r].pc = "mark" /\ req'[r].id = a
      BY <1>5, <1>6, <2>1, <2>2, <2>3
    <3>2. req[r].op = "patch" /\ req'[r].pc = "write" => ~A!Sees(r, a)'.live
      BY <1>4, <2>3, <2>4, <3>1
    <3>3. req[r].op = "patch" => req'[r].pc # "commit"
      BY <1>5, <1>6, <2>1, <2>2
    <3> QED BY <1>4, <2>2, <2>4, <3>1, <3>2, <3>3 DEF PatchRight
  <2>6. DeleteRight(r)'
    <3>1. req[r].op = "delete" => req'[r].pc = "fail"
      BY <1>5, <1>6, <2>1, <2>2, <2>3
    <3> QED BY <2>2, <3>1 DEF DeleteRight
  <2>7. MakeRight(r)'
    <3>1. req[r].op # "book" /\ (req[r].op = "create" => req'[r].pc = "bootstrap")
      BY <1>5, <1>6, <2>1, <2>2, <2>3
    <3> QED BY <2>2, <3>1 DEF MakeRight, Makes
  <2> QED BY <1>2, <1>5, <1>9, <2>1, <2>2, <2>5, <2>6, <2>7, GotoLocal
<1>10. CASE /\ A!StillMatches(req[r].pc, A!Sees(r, a))
            /\ A!Wrote(r, a, Eff(a)) /\ A!Goto(r, A!After(r, TRUE))
  <2> DEFINE row == A!Sees(r, a)
             new == Eff(a)
  <2>1. row \in A!Row
    BY <1>4 DEF DefaultInv, AccountsInv, A!TypeOK, A!Sees, A!Holds
  <2>2. /\ req[r].pc = "clear" => new = [row EXCEPT !.default = FALSE]
        /\ req[r].pc \in {"mark", "promote"} => new = [row EXCEPT !.default = TRUE]
        /\ req[r].pc = "softdelete" => new = [row EXCEPT !.live = FALSE, !.default = FALSE]
        /\ req[r].pc = "write" => new = row
    BY <1>2 DEF A!Effect, A!Updates, A!MarkDefaultAccount, A!SoftDeleteAccount, A!UpdateAccount
  <2>3. req[r].pc \in {"mark", "write", "softdelete"} => row.live
    BY <1>10 DEF A!StillMatches
  <2> HIDE DEF row, Eff
  <2>4. /\ new \in A!Row /\ new.new = row.new /\ new.cash = row.cash /\ new.home = row.home
        /\ new.live => row.live
        /\ req[r].pc # "softdelete" => new.live = row.live
        /\ req[r].pc \in {"mark", "promote"} => new.default
    BY <1>2, <2>1, <2>2 DEF A!Row, A!Updates
  <2>5. req[r].op # "delete" => new.live = row.live
    BY <1>5, <2>4
  <2>6. /\ req'[r].pc = A!After(r, TRUE) /\ req'[r].found = {}
        /\ req'[r].op = req[r].op /\ req'[r].id = req[r].id
        /\ \A q \in Requests : q # r => req'[q] = req[q]
        /\ Sane(r)'
    BY <1>7, <1>10
  <2>7. /\ DOMAIN dirty'[r] = DOMAIN dirty[r] \cup {a} /\ dirty'[r][a] = new
        /\ \A b \in DOMAIN dirty[r] : b # a => dirty'[r][b] = dirty[r][b]
        /\ \A q \in Requests : q # r => dirty'[q] = dirty[q]
        /\ A!Sees(r, a)' = new
    BY <1>1, <1>2, <1>4, <1>10, <2>4, WroteView
  <2>8. /\ \A b \in DOMAIN dirty'[r] : RowKept(r, b)'
        /\ CashSeen(r) => CashSeen(r)'
    BY <1>2, <1>4, <1>10, <2>4, <2>5, <2>6, WrittenKept DEF row
  <2>9. ASSUME ~raced PROVE Local(r)'
    <3>1. Local(r) /\ req[r].op # "book"
      <4>1. Local(r)
        BY <2>9 DEF DefaultInv, Calm
      <4> QED BY <1>5, <4>1 DEF Local, MakeRight
    <3>2. PatchRight(r)'
      <4>1. ASSUME req[r].op = "patch", req'[r].pc = "write" PROVE OwnDefault(r)'
        <5>1. req[r].pc = "mark"
          BY <1>5, <1>6, <2>6, <4>1
        <5>2. A!IsDefault(dirty'[r][a]) /\ a \in DOMAIN dirty'[r]
          BY <2>3, <2>4, <2>7, <5>1 DEF A!IsDefault
        <5> QED BY <5>2 DEF OwnDefault
      <4>2. ASSUME req[r].op = "patch", req'[r].pc = "commit" PROVE Plain(r)' \/ OwnDefault(r)'
        <5>1. req[r].pc = "write" /\ new = row /\ row.live /\ a = req[r].id
          BY <1>5, <1>6, <2>2, <2>3, <2>6, <4>2
        <5>2. Plain(r) \/ OwnDefault(r)
          BY <3>1, <4>2, <5>1 DEF Local, PatchRight, row
        <5>3. ASSUME Plain(r) PROVE Plain(r)'
          <6>1. row = account[a]
            BY <5>3 DEF Plain, row, A!Sees, A!Holds
          <6> QED BY <1>2, <2>7, <5>1, <5>3, <6>1 DEF Plain
        <5>4. ASSUME OwnDefault(r) PROVE OwnDefault(r)'
          <6>1. PICK b \in DOMAIN dirty[r] : A!IsDefault(dirty[r][b])
            BY <5>4 DEF OwnDefault
          <6>2. b = a => row = dirty[r][b]
            BY <6>1 DEF row, A!Sees, A!Holds
          <6>3. b \in DOMAIN dirty'[r] /\ dirty'[r][b] = dirty[r][b]
            BY <2>7, <5>1, <6>1, <6>2
          <6> QED BY <6>1, <6>3 DEF OwnDefault
        <5> QED BY <5>2, <5>3, <5>4
      <4> QED BY <2>6, <4>1, <4>2 DEF PatchRight
    <3>3. DeleteRight(r)'
      <4>1. ASSUME req[r].op = "delete", req'[r].pc = "commit" PROVE A!Default(r)' # {}
        <5>1. req[r].pc = "promote"
          BY <1>5, <1>6, <2>6, <4>1
        <5>2. row.live
          BY <3>1, <4>1, <5>1 DEF Local, DeleteRight, row
        <5>3. A!IsDefault(A!Sees(r, a)')
          BY <2>4, <2>7, <5>1, <5>2 DEF A!IsDefault
        <5> QED BY <1>4, <5>3 DEF A!Default, A!IsDefault
      <4> QED BY <2>6, <4>1 DEF DeleteRight
    <3>4. MakeRight(r)'
      <4>1. req[r].op = "create" => req'[r].pc = "bootstrap"
        BY <1>6, <2>6
      <4> QED BY <2>6, <3>1, <4>1 DEF MakeRight, Makes
    <3> QED BY <2>8, <3>1, <3>2, <3>3, <3>4 DEF Local
  <2> QED BY <1>2, <1>5, <2>6, <2>7, <2>8, <2>9, StepLocal
<1> QED BY <1>3, <1>8, <1>9, <1>10

\* CreateAccount inserts a row: the default one of a user who has none, or one beside
\* the default.
LEMMA CreateLocal ==
  ASSUME AccountsSetting, DefaultInv, AccountsInv', NEW r \in Requests, A!CreateAccount(r)
  PROVE  DefaultInv'
<1>1. req \in [Requests -> A!RequestState] /\ req[r] \in A!RequestState /\ Sane(r) /\ AccountsInv
  BY DEF DefaultInv, AccountsInv, A!TypeOK
<1>2. UNCHANGED <<account, raced, wallet>> /\ req[r].pc \in {"insert", "bootstrap"}
  BY DEF A!CreateAccount
<1>3. PICK a \in Accounts :
         /\ account[a].new /\ \A q \in Requests : ~A!Holds(q, a)
         /\ \/ A!Goto(r, "fail") /\ UNCHANGED dirty
            \/ /\ A!Wrote(r, a, A!NewRow(r))
               /\ A!Goto(r, IF req[r].pc = "bootstrap" /\ req[r].op = "book" /\ ~req[r].home
                             THEN "choose" ELSE "commit")
  BY DEF A!CreateAccount
<1>4. A!InTx(r) /\ Makes(r) /\ wallet = r /\ req[r].op \in {"create", "book"}
  BY <1>1, <1>2 DEF Sane, Stage, Makes, A!Ops, A!InTx
<1>5. CASE A!Goto(r, "fail") /\ UNCHANGED dirty
  <2>1. "fail" \in A!Places
    BY DEF A!Places
  <2>2. req'[r].pc = "fail" /\ req'[r].found = {} /\ req'[r].op = req[r].op
    BY <1>1, <1>5, <2>1, GoesTo
  <2>3. Sane(r)'
    BY <1>2, <1>4, <2>2 DEF Sane, Stage, Makes, A!Ops, A!InTx
  <2>4. PatchRight(r)' /\ DeleteRight(r)' /\ MakeRight(r)'
    BY <2>2 DEF PatchRight, DeleteRight, MakeRight, Makes
  <2> QED BY <1>2, <1>4, <1>5, <2>1, <2>3, <2>4, GotoLocal
<1> DEFINE row == A!NewRow(r)
<1>6. /\ row \in A!Row /\ row.live /\ ~row.new
      /\ req[r].pc = "bootstrap" => A!IsDefault(row)
      /\ req[r].op = "create" => ~row.cash
      /\ req[r].pc = "insert" => row.home = req[r].home
  BY <1>1, <1>2, <1>4 DEF A!NewRow, A!Row, A!RequestState, A!IsDefault
<1> HIDE DEF row
<1>7. ASSUME NEW pc \in {"choose", "commit"}, A!Wrote(r, a, row), A!Goto(r, pc),
             pc = "choose" => req[r].op = "book" /\ req[r].pc = "bootstrap"
      PROVE  DefaultInv'
  <2>1. pc \in A!Places
    BY DEF A!Places
  <2>2. /\ req'[r].pc = pc /\ req'[r].found = {} /\ req'[r].op = req[r].op
        /\ \A q \in Requests : q # r => req'[q] = req[q]
    BY <1>1, <1>7, <2>1, GoesTo
  <2>3. /\ DOMAIN dirty'[r] = DOMAIN dirty[r] \cup {a} /\ dirty'[r][a] = row
        /\ \A b \in DOMAIN dirty[r] : b # a => dirty'[r][b] = dirty[r][b]
        /\ \A q \in Requests : q # r => dirty'[q] = dirty[q]
        /\ A!Sees(r, a)' = row
        /\ \A b \in Accounts : b # a => A!Sees(r, b)' = A!Sees(r, b)
    BY <1>1, <1>2, <1>6, <1>7, WroteView
  <2>4. Sane(r)'
    BY <1>2, <1>4, <1>7, <2>2 DEF Sane, Stage, Makes, A!Ops, A!InTx
  <2>5. ASSUME NEW b \in DOMAIN dirty'[r] PROVE RowKept(r, b)'
    <3>1. CASE b = a
      BY <1>2, <1>3, <1>4, <1>6, <2>2, <2>3, <3>1 DEF RowKept
    <3>2. CASE b # a
      <4>1. b \in DOMAIN dirty[r] /\ dirty'[r][b] = dirty[r][b] /\ RowKept(r, b)
        BY <2>3, <2>5, <3>2 DEF DefaultInv, RowsKept
      <4> QED BY <1>2, <2>2, <4>1 DEF RowKept
    <3> QED BY <3>1, <3>2
  <2>6. ASSUME ~raced PROVE Local(r)'
    <3>1. MakeRight(r) /\ CashSeen(r)
      BY <2>6 DEF DefaultInv, Calm, Local
    <3>2. OwnDefault(r)' \/ (req[r].pc = "insert" /\ OnlyNew(r)' /\ SomeLive')
      <4>1. CASE req[r].pc = "bootstrap"
        <5>1. a \in DOMAIN dirty'[r] /\ A!IsDefault(dirty'[r][a])
          BY <1>6, <2>3, <4>1
        <5> QED BY <5>1 DEF OwnDefault
      <4>2. CASE req[r].pc = "insert" /\ OwnDefault(r)
        <5>1. PICK b \in DOMAIN dirty[r] : A!IsDefault(dirty[r][b])
          BY <4>2 DEF OwnDefault
        <5>2. b # a
          BY <1>3, <5>1 DEF A!Holds
        <5>3. b \in DOMAIN dirty'[r] /\ A!IsDefault(dirty'[r][b])
          BY <2>3, <5>1, <5>2
        <5> QED BY <5>3 DEF OwnDefault
      <4>3. CASE req[r].pc = "insert" /\ WroteNothing(r) /\ SomeLive
        <5>1. OnlyNew(r)'
          BY <1>2, <1>3, <2>3, <4>3 DEF WroteNothing, OnlyNew
        <5>2. SomeLive'
          BY <1>2, <4>3 DEF SomeLive
        <5> QED BY <4>3, <5>1, <5>2
      <4> QED BY <1>2, <1>4, <3>1, <4>1, <4>2, <4>3 DEF MakeRight
    <3>3. MakeRight(r)'
      BY <1>7, <2>2, <3>2 DEF MakeRight
    <3>4. PatchRight(r)' /\ DeleteRight(r)'
      BY <1>4, <2>2 DEF PatchRight, DeleteRight
    <3>5. CashSeen(r)'
      <4>1. ASSUME NEW b \in A!Live(r), b # a, row.cash, A!Sees(r, b).home = row.home PROVE FALSE
        <5>1. req[r].op = "book"
          BY <1>4, <1>6, <4>1
        <5>2. CASE req[r].pc = "insert"
          BY <1>6, <3>1, <4>1, <5>1, <5>2 DEF MakeRight
        <5>3. CASE req[r].pc = "bootstrap"
          <6>1. WroteNothing(r) /\ ~SomeLive
            BY <3>1, <5>1, <5>3 DEF MakeRight
          <6> QED BY <4>1, <6>1 DEF WroteNothing, SomeLive, A!Live, A!Sees, A!Holds
        <5> QED BY <1>2, <5>2, <5>3
      <4>2. ASSUME NEW b \in A!Live(r)', b # a
            PROVE  b \in A!Live(r) /\ A!Sees(r, b)' = A!Sees(r, b)
        BY <2>3, <4>2 DEF A!Live
      <4> SUFFICES ASSUME NEW b \in A!Live(r)', NEW c \in A!Live(r)',
                          A!Sees(r, b)'.cash, A!Sees(r, c)'.cash, A!Sees(r, b)'.home = A!Sees(r, c)'.home,
                          b # c
                   PROVE  FALSE
        BY DEF CashSeen
      <4>3. CASE b = a
        BY <2>3, <4>1, <4>2, <4>3
      <4>4. CASE c = a
        BY <2>3, <4>1, <4>2, <4>4
      <4>5. CASE b # a /\ c # a
        BY <3>1, <4>2, <4>5 DEF CashSeen
      <4> QED BY <4>3, <4>4, <4>5
    <3> QED BY <3>3, <3>4, <3>5 DEF Local
  <2> QED BY <1>2, <1>4, <2>2, <2>3, <2>4, <2>5, <2>6, StepLocal
<1> QED BY <1>3, <1>5, <1>7 DEF row

\* A rollback leaves the request with what is committed.
LEMMA RollbackLocal ==
  ASSUME AccountsSetting, DefaultInv, AccountsInv', NEW r \in Requests, A!InTx(r), A!Rollback(r)
  PROVE  DefaultInv'
<1>1. /\ dirty' = [dirty EXCEPT ![r] = [a \in {} |-> A!Fresh]] /\ UNCHANGED <<account, raced>>
      /\ A!Goto(r, "failed") /\ "failed" \in A!Places
      /\ \A q \in Requests : q # r /\ wallet = q => wallet' = q
  BY DEF A!Rollback, A!Released, A!Places
<1>2. Sane(r) /\ AccountsInv
  BY DEF DefaultInv
<1>3. DOMAIN dirty'[r] = {} /\ \A q \in Requests : q # r => dirty'[q] = dirty[q]
  BY <1>1, <1>2, RowsDropped
<1>4. /\ req'[r].pc = "failed" /\ req'[r].found = {} /\ req'[r].op = req[r].op /\ req'[r].id = req[r].id
      /\ \A q \in Requests : q # r => req'[q] = req[q]
  BY <1>1, <1>2, GoesTo
<1>5. req[r].op \in A!Ops
  BY <1>2 DEF Sane, Stage, A!InTx, A!Ops
<1>6. Sane(r)'
  BY <1>1, <1>2, <1>3, <1>4, <1>5 DEF Sane, Stage, WroteNothing, Makes, A!InTx
<1>7. \A a \in Accounts : A!Sees(r, a)' = account[a]
  BY <1>1, <1>3 DEF A!Sees, A!Holds
<1>8. ASSUME ~raced PROVE Local(r)'
  <2>1. CashSeen(r)'
    BY <1>7, <1>8 DEF DefaultInv, Calm, A!OneCash, CashSeen, A!Live
  <2> QED BY <1>4, <2>1 DEF Local, PatchRight, DeleteRight, MakeRight
<1>9. ~A!InTx(r)'
  BY <1>4 DEF A!InTx
<1> QED BY <1>1, <1>3, <1>4, <1>6, <1>8, <1>9, StepLocal

\* A request arrives.
LEMMA StartLocal ==
  ASSUME AccountsSetting, DefaultInv, AccountsInv', NEW r \in Requests, A!Start(r)
  PROVE  DefaultInv'
<1>1. PICK op \in A!Ops, id \in Accounts, flag, home \in BOOLEAN :
         /\ op \in {"create", "book"} => id = First /\ A!Room
         /\ op \in {"delete", "book"} => ~flag
         /\ op \in {"delete", "patch"} => home /\ ~account[id].new
         /\ req' = [req EXCEPT ![r] = [@ EXCEPT !.op = op, !.id = id, !.flag = flag, !.home = home,
                       !.pc = CASE op = "patch" -> "read" [] op = "delete" -> "softdelete"
                                [] OTHER -> "lock"]]
         /\ raced' = (raced \/ \E q \in Requests : /\ A!InTx(q)
                                                   /\ "delete" \in {op, req[q].op}
                                                   /\ {op, req[q].op} \subseteq {"delete", "create", "book"})
  BY DEF A!Start
<1>2. UNCHANGED <<account, dirty, wallet>> /\ req[r].pc = "idle"
  BY DEF A!Start
<1>3. req \in [Requests -> A!RequestState] /\ req[r] \in A!RequestState /\ Sane(r) /\ AccountsInv
  BY DEF DefaultInv, AccountsInv, A!TypeOK
<1>4. WroteNothing(r) /\ req[r].found = {} /\ ~A!InTx(r)
  BY <1>2, <1>3 DEF Sane, A!InTx
<1>5. PICK pc \in A!Places :
        pc = CASE op = "patch" -> "read" [] op = "delete" -> "softdelete" [] OTHER -> "lock"
  BY DEF A!Places, A!Updates
<1>6. /\ op = "patch" => pc = "read"
      /\ op = "delete" => pc = "softdelete"
      /\ op \in {"create", "book"} => pc = "lock"
  BY <1>5
<1> DEFINE c == [req[r] EXCEPT !.op = op, !.id = id, !.flag = flag, !.home = home, !.pc = pc]
<1>7. c.op = op /\ c.id = id /\ c.pc = pc /\ c.found = req[r].found
  BY <1>3 DEF A!RequestState
<1>8. req' = [req EXCEPT ![r] = c]
  BY <1>1, <1>5
<1> HIDE DEF c
<1>9. /\ req'[r].op = op /\ req'[r].id = id /\ req'[r].pc = pc /\ req'[r].found = {}
      /\ \A q \in Requests : q # r => req'[q] = req[q]
  BY <1>3, <1>4, <1>7, <1>8
<1>10. WroteNothing(r)' /\ \A a \in Accounts : A!Sees(r, a)' = account[a]
  BY <1>2, <1>4 DEF WroteNothing, A!Sees, A!Holds
<1>11. op = "patch" \/ op = "delete" \/ op \in {"create", "book"}
  BY DEF A!Ops
<1>12. Sane(r)'
  BY <1>1, <1>2, <1>6, <1>9, <1>10, <1>11 DEF Sane, Stage, Makes
<1>13. ASSUME NEW q \in Requests, q # r
       PROVE  Sane(q)' /\ (\A a \in DOMAIN dirty'[q] : RowKept(q, a)') /\ (Local(q) => Local(q)')
  BY <1>2, <1>9, <1>13, OthersLocal
<1>14. RowsKept' /\ \A q \in Requests : Sane(q)'
  <2>1. \A a \in DOMAIN dirty'[r] : RowKept(r, a)'
    BY <1>10 DEF WroteNothing
  <2> QED BY <1>2, <1>12, <1>13, <2>1 DEF DefaultInv, RowsKept
<1>15. ASSUME ~raced' PROVE Calm'
  <2>1. Calm /\ ~raced
    BY <1>1, <1>15 DEF DefaultInv
  <2>2. (SomeLive => SomeDefault)' /\ A!OneCash'
    BY <1>2, <2>1 DEF Calm, SomeLive, SomeDefault, A!OneCash, A!IsDefault
  <2>3. ASSUME NEW q \in Requests, A!InTx(q) PROVE op = "delete" \/ req[q].op = "delete" => op = "patch" \/ req[q].op = "patch"
    <3>1. req[q].op \in A!Ops
      BY <2>3 DEF DefaultInv, Sane, Stage, A!InTx, A!Ops
    <3>2. ~("delete" \in {op, req[q].op} /\ {op, req[q].op} \subseteq {"delete", "create", "book"})
      BY <1>1, <1>15, <2>3
    <3> QED BY <3>1, <3>2 DEF A!Ops
  <2>4. DeletesAlone'
    <3> SUFFICES ASSUME NEW p \in Requests, NEW q \in Requests, p # q, A!InTx(p)', A!InTx(q)', req'[p].op = "delete"
                 PROVE  req'[q].op = "patch"
      BY DEF DeletesAlone
    <3>1. CASE p # r /\ q # r
      BY <1>9, <2>1, <3>1 DEF Calm, DeletesAlone, A!InTx
    <3>2. CASE p = r
      <4>1. A!InTx(q) /\ req'[q] = req[q] /\ op = "delete"
        BY <1>9, <3>2 DEF A!InTx
      <4> QED BY <2>3, <4>1
    <3>3. CASE q = r
      <4>1. A!InTx(p) /\ req[p].op = "delete" /\ req'[r].op = op
        BY <1>9, <3>3 DEF A!InTx
      <4> QED BY <2>3, <3>3, <4>1
    <3> QED BY <3>1, <3>2, <3>3
  <2>5. Local(r)'
    <3>1. CashSeen(r)'
      BY <1>2, <1>10, <2>1 DEF Calm, A!OneCash, CashSeen, A!Live
    <3>2. pc \notin {"write", "commit", "promote", "insert", "again", "bootstrap", "choose"}
      BY <1>6, <1>11
    <3> QED BY <1>9, <3>1, <3>2 DEF Local, PatchRight, DeleteRight, MakeRight
  <2>6. \A q \in Requests : Local(q)'
    BY <1>13, <2>1, <2>5 DEF Calm
  <2> QED BY <2>2, <2>4, <2>6 DEF Calm
<1> QED BY <1>14, <1>15 DEF DefaultInv

\* A patch leaves every account in its currency and as live as it was.
LEMMA PatchSees ==
  ASSUME DefaultInv, NEW r \in Requests, req[r].op = "patch", NEW a \in Accounts
  PROVE  /\ A!Sees(r, a).live = account[a].live /\ A!Sees(r, a).cash = account[a].cash
         /\ A!Sees(r, a).home = account[a].home /\ A!Sees(r, a).new = account[a].new
<1>0. A!Sees(r, a) \in A!Row /\ account[a] \in A!Row
  BY DEF DefaultInv, AccountsInv, A!TypeOK, A!Sees, A!Holds
<1>1. /\ A!Sees(r, a).live \in BOOLEAN /\ account[a].live \in BOOLEAN
      /\ A!Sees(r, a).new \in BOOLEAN /\ account[a].new \in BOOLEAN
  BY <1>0 DEF A!Row
<1>2. CASE A!Holds(r, a)
  <2>1. RowKept(r, a) /\ A!Sees(r, a) = dirty[r][a]
    BY <1>2 DEF DefaultInv, RowsKept, A!Holds, A!Sees
  <2> QED BY <1>1, <2>1 DEF RowKept
<1>3. CASE ~A!Holds(r, a)
  BY <1>3 DEF A!Sees
<1> QED BY <1>2, <1>3

\* A commit shows the accounts as its request saw them: it leaves a default account, ...
LEMMA CommitLeavesDefault ==
  ASSUME DefaultInv, Calm, NEW r \in Requests, req[r].pc = "commit",
         \A a \in Accounts : account'[a] = A!Sees(r, a)
  PROVE  SomeLive' => SomeDefault'
<1>1. Sane(r) /\ Local(r) /\ (SomeLive => SomeDefault)
  BY DEF DefaultInv, Calm
<1>2. ASSUME OwnDefault(r) PROVE SomeDefault'
  <2>1. PICK a \in DOMAIN dirty[r] : A!IsDefault(dirty[r][a])
    BY <1>2 DEF OwnDefault
  <2>2. a \in Accounts /\ account'[a] = dirty[r][a]
    BY <2>1 DEF DefaultInv, AccountsInv, A!TypeOK, A!Sees, A!Holds
  <2> QED BY <2>1, <2>2 DEF SomeDefault, A!IsDefault
<1>3. CASE req[r].op = "patch"
  <2>1. ASSUME Plain(r) PROVE \A a \in Accounts : account'[a] = account[a]
    BY <2>1 DEF Plain, A!Sees, A!Holds
  <2> QED BY <1>1, <1>2, <1>3, <2>1 DEF Local, PatchRight, SomeLive, SomeDefault, A!IsDefault
<1>4. CASE req[r].op = "delete"
  BY <1>1, <1>4 DEF Local, DeleteRight, SomeLive, SomeDefault, A!Live, A!Default, A!IsDefault
<1>5. CASE Makes(r)
  <2>1. ASSUME OnlyNew(r), SomeLive PROVE SomeDefault'
    <3>1. PICK a \in Accounts : A!IsDefault(account[a])
      BY <1>1, <2>1 DEF SomeDefault
    <3>2. ~A!Holds(r, a)
      BY <2>1, <3>1 DEF OnlyNew, A!Holds, DefaultInv, RowsKept, A!IsDefault
    <3> QED BY <3>1, <3>2 DEF A!Sees, SomeDefault, A!IsDefault
  <2> QED BY <1>1, <1>2, <1>5, <2>1 DEF Local, MakeRight
<1> QED BY <1>1, <1>3, <1>4, <1>5 DEF Sane, Stage, A!Ops, Makes

\* ... and the other requests as right as they were: only patches run beside a deletion,
\* and a creation runs alone with them.
LEMMA CommitOthers ==
  ASSUME DefaultInv, NEW r \in Requests, req[r].pc = "commit",
         \A a \in Accounts : account'[a] = A!Sees(r, a),
         NEW q \in Requests, q # r, dirty'[q] = dirty[q], req'[q] = req[q], wallet = q => wallet' = q
  PROVE  /\ Sane(q)' /\ (\A a \in DOMAIN dirty'[q] : RowKept(q, a)')
         /\ (Calm /\ A!OneCash' /\ ~raced' => Local(q)')
<1>1. Sane(q) /\ Sane(r) /\ AccountsInv /\ A!InTx(r)
  BY DEF DefaultInv, A!InTx
<1>2. req[q].id \in Accounts /\ req[q].found \subseteq Accounts
  BY <1>1 DEF AccountsInv, A!TypeOK, A!RequestState
<1>3. ASSUME NEW a \in DOMAIN dirty[q] PROVE a \in Accounts /\ account'[a] = account[a] /\ a \notin DOMAIN dirty[r]
  <2>1. a \notin DOMAIN dirty[r] /\ a \in Accounts
    BY <1>1 DEF AccountsInv, OwnRows, A!TypeOK
  <2> QED BY <2>1 DEF A!Sees, A!Holds
<1>4. ASSUME NEW a \in Accounts
      PROVE  /\ A!Holds(q, a) => A!Sees(q, a)' = A!Sees(q, a)
             /\ ~A!Holds(q, a) => A!Sees(q, a)' = A!Sees(r, a) /\ A!Sees(q, a) = account[a]
  BY DEF A!Sees, A!Holds
<1>5. ASSUME NEW a \in Accounts, ~account[a].new PROVE ~A!Sees(r, a).new /\ ~account'[a].new
  BY <1>5 DEF DefaultInv, RowsKept, RowKept, A!Sees, A!Holds
<1>6. \A a \in DOMAIN dirty'[q] : RowKept(q, a)'
  BY <1>3 DEF DefaultInv, RowsKept, RowKept
<1>7. Sane(q)'
  <2>1. \A a \in req[q].found : ~A!Sees(q, a)'.new
    BY <1>1, <1>2, <1>4, <1>5 DEF Sane
  <2>2. req[q].op \in {"patch", "delete"} => ~account'[req[q].id].new
    BY <1>1, <1>2, <1>5 DEF Sane
  <2> QED BY <1>1, <2>1, <2>2 DEF Sane, WroteNothing, Makes, A!InTx
<1>8. ASSUME Calm, A!OneCash', ~raced' PROVE Local(q)'
  <2>1. Local(q) /\ Local(r)
    BY <1>8 DEF Calm
  <2>2. (WroteNothing(q)' <=> WroteNothing(q)) /\ (OwnDefault(q)' <=> OwnDefault(q))
    BY DEF WroteNothing, OwnDefault, A!IsDefault
  <2>3. (OnlyNew(q)' <=> OnlyNew(q)) /\ (Plain(q)' <=> Plain(q))
    BY <1>3 DEF OnlyNew, Plain
  <2>4. PatchRight(q)'
    <3>1. PICK i \in Accounts : i = req[q].id
      BY <1>2
    <3>2. ASSUME req[q].op = "patch", ~A!Sees(q, i).live PROVE ~A!Sees(q, i)'.live
      <4>1. CASE A!Holds(q, i)
        BY <1>4, <3>2, <4>1
      <4>2. CASE ~A!Holds(q, i)
        <5>1. ~account[i].live /\ ~account[i].new /\ ~A!Sees(r, i).new
          BY <1>1, <1>4, <1>5, <3>1, <3>2, <4>2 DEF Sane
        <5>2. ~A!Sees(r, i).live
          BY <5>1, FoundKept
        <5> QED BY <1>4, <4>2, <5>2
      <4> QED BY <4>1, <4>2
    <3> QED BY <2>1, <2>2, <2>3, <3>1, <3>2 DEF Local, PatchRight
  <2>5. ASSUME req[r].op = "patch", NEW a \in Accounts
        PROVE  /\ A!Sees(q, a)'.live = A!Sees(q, a).live /\ A!Sees(q, a)'.cash = A!Sees(q, a).cash
               /\ A!Sees(q, a)'.home = A!Sees(q, a).home
               /\ account'[a].live = account[a].live
    BY <1>4, <2>5, PatchSees
  <2>6. DeleteRight(q)'
    <3>1. ASSUME req[q].op = "delete", A!InTx(q) PROVE req[r].op = "patch"
      BY <1>1, <1>8, <3>1 DEF Calm, DeletesAlone
    <3>2. ASSUME req[q].op = "delete", req[q].pc = "promote" PROVE \A a \in req[q].found : A!Sees(q, a)'.live
      <4>1. req[r].op = "patch"
        BY <3>1, <3>2 DEF A!InTx
      <4>2. \A a \in req[q].found : A!Sees(q, a).live
        BY <2>1, <3>2 DEF Local, DeleteRight
      <4> QED BY <1>2, <2>5, <4>1, <4>2
    <3>3. ASSUME req[q].op = "delete", req[q].pc = "commit" PROVE A!Live(q)' = {} \/ A!Default(q)' # {}
      <4>1. req[r].op = "patch"
        BY <3>1, <3>3 DEF A!InTx
      <4>2. ASSUME A!Live(q) = {} PROVE A!Live(q)' = {}
        BY <2>5, <4>1, <4>2 DEF A!Live
      <4>3. ASSUME A!Default(q) # {} PROVE A!Default(q)' # {}
        <5>1. PICK d \in Accounts : A!IsDefault(A!Sees(q, d))
          BY <4>3 DEF A!Default
        <5>2. CASE A!Holds(q, d)
          BY <1>4, <5>1, <5>2 DEF A!Default, A!IsDefault
        <5>3. CASE ~A!Holds(q, d) /\ A!IsDefault(A!Sees(r, d))
          BY <1>4, <5>3 DEF A!Default, A!IsDefault
        <5>4. CASE ~A!Holds(q, d) /\ ~A!IsDefault(A!Sees(r, d))
          <6>1. A!IsDefault(account[d])
            BY <1>4, <5>1, <5>4
          <6>2. ~Plain(r)
            BY <5>4, <6>1 DEF Plain, A!Sees, A!Holds
          <6>3. PICK b \in DOMAIN dirty[r] : A!IsDefault(dirty[r][b])
            BY <2>1, <4>1, <6>2 DEF Local, PatchRight, OwnDefault
          <6>4. b \in Accounts /\ A!Sees(r, b) = dirty[r][b] /\ ~A!Holds(q, b)
            BY <1>1, <1>3, <6>3 DEF AccountsInv, A!TypeOK, A!Sees, A!Holds
          <6>5. A!IsDefault(A!Sees(q, b)')
            BY <1>4, <6>3, <6>4
          <6> QED BY <6>4, <6>5 DEF A!Default, A!IsDefault
        <5> QED BY <5>2, <5>3, <5>4
      <4> QED BY <2>1, <3>3, <4>2, <4>3 DEF Local, DeleteRight
    <3> QED BY <3>2, <3>3 DEF DeleteRight
  <2>7. ASSUME A!InTx(q), req[q].op # "patch", req[q].pc # "lock" PROVE req[r].op = "patch"
    <3>1. req[q].op \in {"delete", "create", "book"} /\ req[r].op \in A!Ops /\ req[r].pc # "lock"
      BY <1>1, <2>7 DEF Sane, Stage, A!InTx, A!Ops
    <3>2. CASE req[q].op = "delete"
      BY <1>1, <1>8, <2>7, <3>2 DEF Calm, DeletesAlone
    <3>3. CASE req[r].op = "delete"
      BY <1>1, <1>8, <2>7, <3>3 DEF Calm, DeletesAlone
    <3>4. CASE Makes(q) /\ Makes(r)
      BY <1>1, <2>7, <3>1, <3>4 DEF Sane
    <3> QED BY <3>1, <3>2, <3>3, <3>4 DEF Makes, A!Ops
  <2>8. MakeRight(q)'
    <3>1. CASE A!InTx(q) /\ req[q].pc # "lock" /\ Makes(q)
      <4>1. req[r].op = "patch"
        BY <2>7, <3>1 DEF Makes
      <4>2. SomeLive' <=> SomeLive
        BY <2>5, <4>1 DEF SomeLive
      <4>3. \A a \in A!Live(q)' : a \in A!Live(q) /\ A!Sees(q, a)'.home = A!Sees(q, a).home
        BY <2>5, <4>1 DEF A!Live
      <4> QED BY <2>1, <2>2, <2>3, <4>2, <4>3 DEF Local, MakeRight, Makes
    <3>2. CASE ~(A!InTx(q) /\ req[q].pc # "lock" /\ Makes(q))
      BY <3>2 DEF MakeRight, Makes, A!InTx
    <3> QED BY <3>1, <3>2
  <2>9. CashSeen(q)'
    <3>1. CASE req[r].op = "patch"
      <4>1. \A a \in A!Live(q)' : /\ a \in A!Live(q) /\ A!Sees(q, a)'.home = A!Sees(q, a).home
                                  /\ A!Sees(q, a)'.cash = A!Sees(q, a).cash
        BY <2>5, <3>1 DEF A!Live
      <4> QED BY <2>1, <4>1 DEF Local, CashSeen
    <3>2. CASE req[r].op # "patch"
      <4>1. ASSUME NEW a \in Accounts
            PROVE  /\ A!Sees(q, a)'.live = account'[a].live /\ A!Sees(q, a)'.cash = account'[a].cash
                   /\ A!Sees(q, a)'.home = account'[a].home
        <5>1. CASE ~A!Holds(q, a)
          BY <1>4, <5>1
        <5>2. CASE A!Holds(q, a)
          <6>1. req[q].op = "patch"
            BY <1>1, <2>7, <3>2, <5>2 DEF Sane, WroteNothing, A!InTx, A!Holds
          <6>2. A!Sees(q, a)' = A!Sees(q, a) /\ account'[a] = account[a]
            BY <1>3, <1>4, <5>2 DEF A!Holds
          <6> QED BY <6>1, <6>2, PatchSees
        <5> QED BY <5>1, <5>2
      <4> QED BY <1>8, <4>1 DEF A!OneCash, CashSeen, A!Live
    <3> QED BY <3>1, <3>2
  <2> QED BY <2>4, <2>6, <2>8, <2>9 DEF Local
<1> QED BY <1>6, <1>7, <1>8

\* A commit keeps the invariant.
LEMMA CommitLocal ==
  ASSUME AccountsSetting, DefaultInv, AccountsInv', NEW r \in Requests, A!Commit(r)
  PROVE  DefaultInv'
<1>1. /\ dirty' = [dirty EXCEPT ![r] = [a \in {} |-> A!Fresh]] /\ raced' = raced
      /\ A!Goto(r, "done") /\ "done" \in A!Places /\ req[r].pc = "commit"
      /\ \A q \in Requests : q # r /\ wallet = q => wallet' = q
      /\ \A a \in Accounts : account'[a] = A!Sees(r, a)
  BY DEF A!Commit, A!Released, A!Places
<1>2. Sane(r) /\ AccountsInv /\ req[r] \in A!RequestState
  BY DEF DefaultInv, AccountsInv, A!TypeOK
<1>3. DOMAIN dirty'[r] = {} /\ \A q \in Requests : q # r => dirty'[q] = dirty[q]
  BY <1>1, <1>2, RowsDropped
<1>4. /\ req'[r].pc = "done" /\ req'[r].found = {} /\ req'[r].op = req[r].op /\ req'[r].id = req[r].id
      /\ \A q \in Requests : q # r => req'[q] = req[q]
  BY <1>1, <1>2, GoesTo
<1>5. ASSUME NEW q \in Requests, q # r
      PROVE  /\ Sane(q)' /\ (\A a \in DOMAIN dirty'[q] : RowKept(q, a)')
             /\ (Calm /\ A!OneCash' /\ ~raced' => Local(q)')
  BY <1>1, <1>3, <1>4, <1>5, CommitOthers
<1>6. \A a \in Accounts : ~account[a].new => ~account'[a].new
  BY <1>1 DEF DefaultInv, RowsKept, RowKept, A!Sees, A!Holds
<1>7. Sane(r)'
  <2>1. req[r].op \in A!Ops /\ req[r].id \in Accounts
    BY <1>1, <1>2 DEF Sane, Stage, A!Ops, A!RequestState
  <2> QED BY <1>2, <1>3, <1>4, <1>6, <2>1 DEF Sane, Stage, WroteNothing, Makes, A!InTx
<1>8. RowsKept'
  <2>1. \A a \in Accounts : account'[a].new => ~account'[a].live /\ ~account'[a].default
    BY <1>1 DEF DefaultInv, RowsKept, RowKept, A!Sees, A!Holds
  <2> QED BY <1>3, <1>5, <2>1 DEF RowsKept
<1>9. ASSUME ~raced' PROVE Calm'
  <2>1. Calm
    BY <1>1, <1>9 DEF DefaultInv
  <2>2. (SomeLive => SomeDefault)'
    BY <1>1, <2>1, CommitLeavesDefault
  <2>3. A!OneCash'
    BY <1>1, <2>1 DEF Calm, Local, CashSeen, A!Live, A!OneCash
  <2>4. DeletesAlone'
    BY <1>4, <2>1 DEF Calm, DeletesAlone, A!InTx
  <2>5. Local(r)'
    <3>1. \A a \in Accounts : A!Sees(r, a)' = account'[a]
      BY <1>3 DEF A!Sees, A!Holds
    <3>2. CashSeen(r)'
      BY <1>9, <2>3, <3>1 DEF A!OneCash, CashSeen, A!Live
    <3> QED BY <1>4, <3>2 DEF Local, PatchRight, DeleteRight, MakeRight
  <2>6. \A q \in Requests : Local(q)'
    BY <1>5, <1>9, <2>1, <2>3, <2>5
  <2> QED BY <2>2, <2>3, <2>4, <2>6 DEF Calm
<1> QED BY <1>5, <1>7, <1>8, <1>9 DEF DefaultInv

\* The invariant holds before the first request.
LEMMA DefaultInit == ASSUME DefaultSetting, A!Init PROVE DefaultInv
<1>1. PICK old \in Existing :
         account = [a \in Accounts |->
                      IF a \in old THEN [live |-> TRUE, default |-> a = First, home |-> a = First,
                                         cash |-> FALSE, new |-> FALSE]
                      ELSE A!Fresh]
  BY DEF A!Init
<1>2. AccountsInv
  BY AccountsInit DEF DefaultSetting
<1>3. \A r \in Requests : WroteNothing(r)
  BY DEF A!Init, WroteNothing
<1>4. \A r \in Requests : req[r].op = "none" /\ req[r].pc = "idle" /\ req[r].found = {}
  BY DEF A!Init
<1>5. \A a \in Accounts : ~account[a].cash /\ (account[a].new => ~account[a].live /\ ~account[a].default)
  BY <1>1 DEF A!Fresh
<1>6. RowsKept
  BY <1>3, <1>5 DEF RowsKept, WroteNothing
<1>7. ASSUME NEW r \in Requests PROVE Sane(r)
  BY <1>3, <1>4 DEF Sane, Stage, Makes, A!InTx
<1>8. SomeLive => SomeDefault
  <2>1. ASSUME SomeLive PROVE A!IsDefault(account[First]) /\ First \in Accounts
    <3>1. First \in old /\ First \in Accounts
      BY <1>1, <2>1 DEF SomeLive, A!Fresh, DefaultSetting, AccountsSetting
    <3> QED BY <1>1, <3>1 DEF A!IsDefault
  <2> QED BY <2>1 DEF SomeDefault
<1>9. ASSUME NEW r \in Requests PROVE Local(r)
  <2>1. \A a \in Accounts : ~A!Sees(r, a).cash
    BY <1>3, <1>5 DEF WroteNothing, A!Sees, A!Holds
  <2> QED BY <1>4, <2>1 DEF Local, PatchRight, DeleteRight, MakeRight, CashSeen, A!Live
<1>10. A!OneCash /\ DeletesAlone
  BY <1>4, <1>5 DEF A!OneCash, DeletesAlone, A!InTx
<1> QED BY <1>2, <1>6, <1>7, <1>8, <1>9, <1>10 DEF DefaultInv, Calm

\* Every step keeps the invariant.
LEMMA DefaultStep == ASSUME AccountsSetting, DefaultInv, [A!Next]_(A!vars) PROVE DefaultInv'
<1>1. AccountsInv'
  BY AccountsStep DEF DefaultInv
<1>2. ASSUME NEW r \in Requests, A!Fail(r) \/ A!Abort(r) \/ A!BreakDeadlock(r) PROVE DefaultInv'
  <2>1. A!InTx(r)
    BY <1>2 DEF A!Fail, A!Abort, A!BreakDeadlock, A!WaitsFor, A!InTx, A!Updates
  <2>2. A!Rollback(r)
    BY <1>2 DEF A!Fail, A!Abort, A!BreakDeadlock
  <2> QED BY <1>1, <2>1, <2>2, RollbackLocal
<1>3. CASE UNCHANGED A!vars
  <2>1. UNCHANGED <<account, dirty, req, wallet, raced>>
    BY <1>3 DEF A!vars
  <2>2. ASSUME NEW q \in Requests
        PROVE  Sane(q)' /\ (\A a \in DOMAIN dirty'[q] : RowKept(q, a)') /\ (Local(q) => Local(q)')
    BY <2>1, OthersLocal
  <2>3. RowsKept' /\ \A q \in Requests : Sane(q)'
    BY <2>1, <2>2 DEF DefaultInv, RowsKept
  <2>4. Calm => Calm'
    BY <2>1, <2>2 DEF Calm, SomeLive, SomeDefault, A!OneCash, DeletesAlone, A!InTx, A!IsDefault
  <2> QED BY <1>1, <2>1, <2>3, <2>4 DEF DefaultInv
<1> QED
  BY <1>1, <1>2, <1>3, StartLocal, ReadLocal, LockLocal, GetDefaultLocal, ChooseLocal, FindLocal,
     UpdateLocal, CreateLocal, CommitLocal
  DEF A!Next, A!Advance

(* The inductive invariant: as long as no deletion overlapped another or a *)
(* creation, a user with accounts has a default one between any two        *)
(* commits, and each request is right about it at its statement.           *)
THEOREM DefaultInductive == ASSUME DefaultSetting PROVE A!Spec => []DefaultInv
<1>1. A!Init => DefaultInv
  BY DefaultInit
<1>2. DefaultInv /\ [A!Next]_(A!vars) => DefaultInv'
  BY DefaultStep DEF DefaultSetting
<1> QED BY <1>1, <1>2, PTL DEF A!Spec

(* Patches that move the default, creations, bookings and deletions that   *)
(* do not overlap leave a user with accounts a default one.                *)
THEOREM HasDefault == ASSUME DefaultSetting PROVE A!Spec => []A!HasDefault
<1>1. DefaultInv => A!HasDefault
  BY DEF DefaultInv, Calm, SomeLive, SomeDefault, A!HasDefault
<1> QED BY <1>1, DefaultInductive, PTL

(* The advisory lock keeps first bookings from making two accounts for one *)
(* currency.                                                               *)
THEOREM OneCash == ASSUME DefaultSetting PROVE A!Spec => []A!OneCash
<1>1. DefaultInv => A!OneCash
  BY DEF DefaultInv, Calm, A!OneCash
<1> QED BY <1>1, DefaultInductive, PTL

=============================================================================
