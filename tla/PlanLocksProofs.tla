-------------------------- MODULE PlanLocksProofs --------------------------
(***************************************************************************)
(* Proofs about PlanLocks without DeleteAccount, for any number of plans,  *)
(* accounts, requests and connections, and occurrences without end.        *)
(*                                                                         *)
(* The argument: a plan's lock is taken before anything of the plan is     *)
(* locked or written (PlanFirst, HasPlan), so what a transaction is going  *)
(* to write nobody else has changed since it was read (Got), and a commit  *)
(* turns a plan that offers one occurrence into one that offers the next   *)
(* (Offers).  Within a transaction plans are locked in their order         *)
(* (InOrder), so that the plans waiting transactions are at only rise.     *)
(***************************************************************************)
EXTENDS PlanLocks, FiniteSetTheorems, WellFoundedInduction, TLAPS

\* Requests of the plan handlers only; there is always a row for the next occurrence.
PlansOnly == Slot = Nat \ {0} /\ \A r \in Request : r.op # "unbook"

TxnRows == {T(t) : t \in Txn}
ByTxn(j) == Op(j) \in {"pay", "skip", "overdue"}
ByPlan(j) == Op(j) \in {"edit", "drop"}
Within(j) == job[j].pc \in InTx

-----------------------------------------------------------------------------
\* Slots are used in order; a live plan offers one occurrence, the first that is
\* not resolved, and a deleted one none.
Offers(p) ==
    /\ \E n \in Slot : \A s \in Slot : Is(<<p, s>>, "none") <=> s > n
    /\ plan[p].live <=> PendingFor(p) # {}
    /\ \A t, u \in PendingFor(p) : t = u /\ txn[t].due = plan[p].resolved + 1

\* A plan's row is not locked once the plan is deleted.
LockedLives == \A p \in Plan : lock[P(p)] # Nobody => plan[p].live

\* Who locked an occurrence of a live plan has locked the plan.
PlanFirst == \A t \in Txn : lock[T(t)] # Nobody /\ plan[PlanOf(t)].live
                               => lock[P(PlanOf(t))] = lock[T(t)]

\* The statements of each kind of request, and the rows they are about
Walks(j) ==
    /\ Op(j) = "pay" => job[j].pc \in {"find", "plan", "txn", "check", "advance", "commit"}
    /\ Op(j) \in {"skip", "overdue"} => job[j].pc \in {"find", "plan", "txn", "advance", "commit"}
    /\ Op(j) = "edit" => job[j].pc \in {"plan", "check", "sync", "row", "commit"}
    /\ Op(j) = "drop" => job[j].pc \in {"plan", "sync", "row", "commit"}
    /\ Op(j) \in {"pay", "skip"} => job[j].at = T(req[j].txn) /\ job[j].got \subseteq {T(req[j].txn)}
    /\ Op(j) = "overdue" /\ job[j].pc # "commit" => job[j].at \in TxnRows
    /\ job[j].pc = "row" => \E t \in PendingFor(req[j].plan) : job[j].at = T(t)
    /\ ByPlan(j) /\ job[j].pc = "commit" => \E t \in PendingFor(req[j].plan) : job[j].got = {T(t)}

\* SkipOverdue has one item of a plan, and goes from plan to later plan.
OnePerPlan(rows) == \A r, s \in rows : PlanOf(r[2]) = PlanOf(s[2]) => r = s

Itinerary(j) ==
    /\ job[j].listed \subseteq TxnRows /\ OnePerPlan(job[j].listed)
    /\ Within(j) /\ Op(j) = "overdue" =>
          /\ job[j].todo \subseteq TxnRows /\ OnePerPlan(job[j].todo)
          /\ job[j].pc # "commit" => \A r \in job[j].todo : PlanOf(r[2]) > MyPlan(j)

\* Locks are taken in the order of plans, a plan before its occurrence.
InOrder(j) ==
    /\ \A p \in Plan : lock[P(p)] = j =>
          /\ Within(j)
          /\ job[j].pc # "commit" => p <= MyPlan(j)
          /\ job[j].pc \in {"find", "plan"} => p < MyPlan(j)
    /\ \A t \in Txn : lock[T(t)] = j =>
          /\ Within(j)
          /\ job[j].pc # "commit" => PlanOf(t) <= MyPlan(j)
          /\ job[j].pc \in {"find", "plan", "txn"} => PlanOf(t) < MyPlan(j)

\* Past its lock of a plan a transaction has it, if there is a plan.
HasPlan(j) ==
    /\ job[j].pc \in {"txn", "check", "advance", "sync", "row"} /\ plan[MyPlan(j)].live
          => lock[P(MyPlan(j))] = j
    /\ Within(j) /\ ByPlan(j) /\ job[j].pc # "plan" => lock[P(MyPlan(j))] = j

\* What a transaction will write it has locked, still pending.
Got(j) ==
    \A r \in job[j].got : \E t \in Txn :
        /\ r = T(t) /\ lock[r] = j /\ Is(t, "pending")
        /\ Op(j) = "overdue" => txn[t].due <= Now

Mine(j) == /\ Itinerary(j) /\ InOrder(j) /\ HasPlan(j)
           /\ Within(j) => Walks(j) /\ Got(j)

Book1 == (\A p \in Plan : Offers(p)) /\ LockedLives /\ PlanFirst
IInv == TypeOK /\ Book1 /\ \A j \in Job : Mine(j)

-----------------------------------------------------------------------------
\* Rows of plans and of occurrences are told apart.
LEMMA RowFacts ==
    /\ \A p \in Plan : P(p) \in Row /\ P(p) # NoTarget /\ p \in Nat
    /\ \A t \in Txn : /\ T(t) \in Row /\ T(t)[2] = t /\ T(t) # NoTarget
                      /\ PlanOf(t) \in Plan /\ PlanOf(t) \in Nat
    /\ \A p, q \in Plan : P(p) = P(q) => p = q
    /\ \A t, u \in Txn : T(t) = T(u) => t = u
    /\ \A p \in Plan, t \in Txn : P(p) # T(t)
<1>0. \A p \in Plan : p \in Nat
  BY PlanLocksAssumption
<1>1. \A t \in Txn : PlanOf(t) \in Plan
  BY DEF Txn, PlanOf
<1>2. \A p \in Plan : P(p) \in Row
  BY DEF P, Row
<1>3. \A t \in Txn : T(t) \in Row /\ T(t)[2] = t
  BY DEF T, Row
<1>4. \A p \in Plan : P(p) # NoTarget
  BY DEF P, NoTarget
<1>5. \A t \in Txn : T(t) # NoTarget
  BY DEF T, NoTarget
<1>6. \A p, q \in Plan : P(p) = P(q) => p = q
  BY DEF P
<1>7. \A t, u \in Txn : T(t) = T(u) => t = u
  BY DEF T
<1>8. \A p \in Plan, t \in Txn : P(p) # T(t)
  BY DEF P, T
<1> QED BY <1>0, <1>1, <1>2, <1>3, <1>4, <1>5, <1>6, <1>7, <1>8

\* A set of numbers that is not empty has a least one.
LEMMA Least ==
    ASSUME NEW S \in SUBSET Nat, S # {}
    PROVE  \E m \in S : \A n \in S : m <= n
<1> DEFINE Smaller == {ss \in Nat \X Nat : ss[1] < ss[2]}
<1>1. IsWellFoundedOn(Smaller, Nat)
  BY NatLessThanWellFounded DEF OpToRel
<1>2. \E m \in S : \A n \in S : ~ (<<n, m>> \in Smaller)
  <2> HIDE DEF Smaller
  <2> QED BY <1>1, WFMin
<1>3. ASSUME NEW m \in Nat, NEW n \in Nat, n < m
      PROVE  <<n, m>> \in Smaller
  <2> DEFINE ss == <<n, m>>
  <2>1. ss \in Nat \X Nat /\ ss[1] = n /\ ss[2] = m
    OBVIOUS
  <2> HIDE DEF ss
  <2>2. ss \in Smaller
    BY <1>3, <2>1
  <2> QED BY <2>2 DEF ss
<1> HIDE DEF Smaller
<1>4. PICK m \in S : \A n \in S : ~ (<<n, m>> \in Smaller)
  BY <1>2
<1>5. \A n \in S : ~ (n < m)
  BY <1>3, <1>4
<1> QED BY <1>5

\* What a request asks for has its type.
LEMMA RequestFacts ==
    ASSUME PlansOnly, TypeOK, NEW j \in Job
    PROVE  /\ Op(j) \in {"pay", "skip", "overdue", "edit", "drop"}
           /\ Op(j) \in {"pay", "skip"} => req[j].txn \in Txn
           /\ ByPlan(j) => req[j].plan \in Plan
           /\ Op(j) \in {"pay", "edit"} => req[j].to \in Account \cup {Same}
           /\ Op(j) = "edit" => req[j].to \in Account
           /\ job[j] \in JobState /\ req[j] \in Request
<1>1. req[j] \in Requests /\ req[j].op # "unbook"
  BY PlanLocksAssumption DEF TypeOK, PlansOnly
<1> QED BY <1>1 DEF Requests, Op, ByPlan, TypeOK

\* The plan a transaction is at is one of the plans.
LEMMA AtPlan ==
    ASSUME PlansOnly, TypeOK, NEW j \in Job, Within(j), job[j].pc # "commit", Walks(j)
    PROVE  MyPlan(j) \in Plan /\ MyPlan(j) \in Nat
<1> SUFFICES MyPlan(j) \in Plan
  BY PlanLocksAssumption
<1>1. CASE ByPlan(j)
  BY <1>1, RequestFacts DEF MyPlan, ByPlan
<1>2. CASE Op(j) \in {"pay", "skip"}
  BY <1>2, RequestFacts, RowFacts DEF MyPlan, Walks
<1>3. CASE Op(j) = "overdue"
  BY <1>3, RowFacts DEF MyPlan, Walks, TxnRows
<1> QED BY <1>1, <1>2, <1>3, RequestFacts DEF ByPlan

-----------------------------------------------------------------------------
\* The locks of others stay, and so does what is said of these jobs, when j moves
\* and takes or gives back locks.
LEMMA Frame ==
    ASSUME PlansOnly, IInv, NEW j \in Job, UNCHANGED <<data, req>>,
           job' \in [Job -> JobState], \A k \in Job \ {j} : job'[k] = job[k],
           lock' \in [Row -> Job \cup {Nobody}],
           \A r \in Row : \/ lock'[r] = lock[r]
                          \/ lock[r] \in {Nobody, j} /\ lock'[r] \in {Nobody, j},
           \A p \in Plan : lock'[P(p)] = j => plan[p].live,
           \A t \in Txn : lock'[T(t)] = j /\ plan[PlanOf(t)].live => lock'[P(PlanOf(t))] = j,
           Mine(j)'
    PROVE  IInv'
<1>1. TypeOK'
  BY DEF IInv, TypeOK, data
<1>2. \A p \in Plan : Offers(p)'
  BY DEF IInv, Book1, Offers, data, PendingFor, Is
<1>3. \A k \in Job \ {j}, r \in Row : lock'[r] = k <=> lock[r] = k
  BY PlanLocksAssumption
<1>4. LockedLives'
  <2> SUFFICES ASSUME NEW p \in Plan, lock'[P(p)] # Nobody
               PROVE  plan[p].live
    BY DEF LockedLives, data
  <2>1. CASE lock'[P(p)] = j
    BY <2>1
  <2>2. CASE lock'[P(p)] # j
    <3>1. lock[P(p)] # Nobody
      BY <2>2, <1>3, RowFacts
    <3> QED BY <3>1 DEF IInv, Book1, LockedLives
  <2> QED BY <2>1, <2>2
<1>5. PlanFirst'
  <2> SUFFICES ASSUME NEW t \in Txn, lock'[T(t)] # Nobody, plan[PlanOf(t)].live
               PROVE  lock'[P(PlanOf(t))] = lock'[T(t)]
    BY DEF PlanFirst, data
  <2>1. CASE lock'[T(t)] = j
    BY <2>1
  <2>2. CASE lock'[T(t)] # j
    <3>1. T(t) \in Row /\ P(PlanOf(t)) \in Row
      BY RowFacts
    <3>2. lock[T(t)] = lock'[T(t)] /\ lock[T(t)] \in Job \ {j}
      BY <2>2, <3>1
    <3>3. lock[P(PlanOf(t))] = lock[T(t)]
      BY <3>2 DEF IInv, Book1, PlanFirst
    <3> QED BY <3>1, <3>2, <3>3, <1>3
  <2> QED BY <2>1, <2>2
<1>6. \A k \in Job \ {j} : Mine(k)'
  <2> SUFFICES ASSUME NEW k \in Job \ {j} PROVE Mine(k)'
    OBVIOUS
  <2>1. Mine(k) /\ job'[k] = job[k] /\ req' = req /\ plan' = plan /\ txn' = txn
    BY DEF IInv, data
  <2>2. /\ Itinerary(k)' <=> Itinerary(k)
        /\ Walks(k)' <=> Walks(k)
        /\ Within(k)' <=> Within(k)
        /\ MyPlan(k)' = MyPlan(k) /\ Op(k)' = Op(k)
    BY <2>1 DEF Itinerary, Walks, Within, MyPlan, Op, PendingFor, Is, ByPlan, OnePerPlan
  <2>3. InOrder(k)'
    BY <2>1, <2>2, <1>3, RowFacts DEF Mine, InOrder
  <2>4. HasPlan(k)'
    <3>1. CASE job[k].pc \in {"txn", "check", "advance", "sync", "row"} \/ (Within(k) /\ ByPlan(k))
      <4>1. job[k].pc \in {"txn", "check", "advance", "sync", "row"} => Within(k)
        BY DEF Within, InTx
      <4>2. MyPlan(k) \in Plan
        <5>1. CASE ByPlan(k)
          BY <5>1, RequestFacts DEF MyPlan, ByPlan, IInv
        <5>2. CASE ~ ByPlan(k)
          BY <5>2, <3>1, <4>1, <2>1, AtPlan DEF IInv, Mine
        <5> QED BY <5>1, <5>2
      <4> QED BY <2>1, <2>2, <1>3, <4>2, RowFacts DEF Mine, HasPlan, ByPlan
    <3>2. CASE ~ (job[k].pc \in {"txn", "check", "advance", "sync", "row"} \/ (Within(k) /\ ByPlan(k)))
      BY <3>2, <2>1, <2>2 DEF HasPlan, ByPlan
    <3> QED BY <3>1, <3>2
  <2>5. Within(k) => Got(k)'
    BY <2>1, <2>2, <1>3, RowFacts DEF Mine, Got, Is
  <2> QED BY <2>1, <2>2, <2>3, <2>4, <2>5 DEF Mine
<1> QED BY <1>1, <1>2, <1>4, <1>5, <1>6 DEF IInv, Book1

-----------------------------------------------------------------------------
\* Where Goto leaves the jobs.
LEMMA GotoFacts ==
    ASSUME TypeOK, NEW j \in Job,
           NEW pc \in {"new", "listed", "done", "failed"} \cup InTx,
           NEW at \in Row \cup {NoTarget}, NEW todo \in SUBSET Row, NEW got \in SUBSET Row,
           Goto(j, pc, at, todo, got)
    PROVE  /\ job' \in [Job -> JobState] /\ \A k \in Job \ {j} : job'[k] = job[k]
           /\ job'[j].pc = pc /\ job'[j].at = at /\ job'[j].todo = todo /\ job'[j].got = got
           /\ job'[j].listed = job[j].listed
<1> DEFINE js == [job[j] EXCEPT !.pc = pc, !.at = at, !.todo = todo, !.got = got]
<1>1. job[j] \in JobState /\ job \in [Job -> JobState]
  BY DEF TypeOK
<1>2. /\ js \in JobState /\ js.pc = pc /\ js.at = at /\ js.todo = todo /\ js.got = got
      /\ js.listed = job[j].listed
  BY <1>1 DEF JobState
<1>3. job' = [job EXCEPT ![j] = js]
  BY DEF Goto
<1> HIDE DEF js
<1> QED BY <1>1, <1>2, <1>3

\* A job that is in no transaction holds no lock.
LEMMA NoLocks ==
    ASSUME IInv, NEW j \in Job, ~ Within(j)
    PROVE  (\A p \in Plan : lock[P(p)] # j) /\ (\A t \in Txn : lock[T(t)] # j)
  BY DEF IInv, Mine, InOrder

\* A transaction that ends without writing, or did not begin, leaves nothing.
LEMMA Leaves ==
    ASSUME PlansOnly, IInv, NEW j \in Job, UNCHANGED <<data, req>>,
           job' \in [Job -> JobState], \A k \in Job \ {j} : job'[k] = job[k],
           job'[j].pc \notin InTx, Itinerary(j)',
           lock' = Released(j) \/ (lock' = lock /\ ~ Within(j))
    PROVE  IInv'
<1>1. lock \in [Row -> Job \cup {Nobody}] /\ Nobody \notin Job
  BY PlanLocksAssumption DEF IInv, TypeOK
<1>2. lock' \in [Row -> Job \cup {Nobody}]
  BY <1>1 DEF Released
<1>3. \A r \in Row : \/ lock'[r] = lock[r]
                     \/ lock[r] \in {Nobody, j} /\ lock'[r] \in {Nobody, j}
  BY DEF Released
<1>4. (\A p \in Plan : lock'[P(p)] # j) /\ (\A t \in Txn : lock'[T(t)] # j)
  <2>1. CASE lock' = Released(j)
    BY <1>1, <2>1, RowFacts DEF Released
  <2>2. CASE lock' = lock /\ ~ Within(j)
    BY <2>2, NoLocks
  <2> QED BY <2>1, <2>2
<1>5. job'[j].pc \notin {"txn", "check", "advance", "sync", "row"} /\ ~ Within(j)'
  BY DEF Within, InTx
<1>6. Mine(j)'
  BY <1>4, <1>5 DEF Mine, InOrder, HasPlan
<1> QED BY <1>2, <1>3, <1>4, <1>6, Frame

\* A job that moves with the locks it has.
LEMMA Moves ==
    ASSUME PlansOnly, IInv, NEW j \in Job, UNCHANGED <<data, req, lock>>,
           job' \in [Job -> JobState], \A k \in Job \ {j} : job'[k] = job[k],
           Mine(j)'
    PROVE  IInv'
<1>1. lock \in [Row -> Job \cup {Nobody}] /\ Nobody \notin Job
  BY PlanLocksAssumption DEF IInv, TypeOK
<1>2. \A p \in Plan : lock'[P(p)] = j => plan[p].live
  BY <1>1 DEF IInv, Book1, LockedLives
<1>3. \A t \in Txn : lock'[T(t)] = j /\ plan[PlanOf(t)].live => lock'[P(PlanOf(t))] = j
  BY <1>1 DEF IInv, Book1, PlanFirst
<1> QED BY <1>1, <1>2, <1>3, Frame

\* SkipOverdue goes to the item of the first plan, or to its commit.
LEMMA NextItemFacts ==
    ASSUME PlansOnly, TypeOK, NEW j \in Job,
           NEW todo, todo \subseteq TxnRows, OnePerPlan(todo), NEW got \in SUBSET Row,
           NextItem(j, todo, got)
    PROVE  /\ job' \in [Job -> JobState] /\ \A k \in Job \ {j} : job'[k] = job[k]
           /\ job'[j].got = got /\ job'[j].listed = job[j].listed
           /\ \/ /\ todo = {} /\ job'[j].pc = "commit"
                 /\ job'[j].at = NoTarget /\ job'[j].todo = {}
              \/ \E t \in Txn : /\ T(t) \in todo /\ job'[j].pc = "find"
                                /\ job'[j].at = T(t) /\ job'[j].todo = todo \ {T(t)}
                                /\ \A r \in job'[j].todo : PlanOf(r[2]) > PlanOf(t)
<1>1. CASE todo = {}
  <2>1. Goto(j, "commit", NoTarget, {}, got)
    BY <1>1 DEF NextItem
  <2>2. "commit" \in InTx
    BY DEF InTx
  <2> HIDE DEF Goto
  <2> QED BY <1>1, <2>1, <2>2, GotoFacts
<1>2. CASE todo # {}
  <2>1. \A r \in todo : \E t \in Txn : r = T(t) /\ r[2] = t /\ PlanOf(r[2]) \in Nat
    BY RowFacts, PlanLocksAssumption DEF TxnRows
  <2>2. PICK m \in {PlanOf(r[2]) : r \in todo} : \A n \in {PlanOf(r[2]) : r \in todo} : m <= n
    <3> DEFINE S == {PlanOf(r[2]) : r \in todo}
    <3>1. S \in SUBSET Nat /\ S # {}
      BY <1>2, <2>1
    <3> HIDE DEF S
    <3>2. \E m \in S : \A n \in S : m <= n
      BY <3>1, Least
    <3> QED BY <3>2 DEF S
  <2>3. \E r \in todo : \A s \in todo : PlanOf(r[2]) <= PlanOf(s[2])
    BY <2>2
  <2>4. First(todo) \in todo /\ \A s \in todo : PlanOf(First(todo)[2]) <= PlanOf(s[2])
    BY <2>3 DEF First
  <2>5. PICK t \in Txn : First(todo) = T(t) /\ First(todo)[2] = t
    BY <2>1, <2>4
  <2>6. \A s \in todo \ {T(t)} : PlanOf(s[2]) > PlanOf(t)
    BY <2>1, <2>4, <2>5 DEF OnePerPlan
  <2>7. Goto(j, "find", T(t), todo \ {T(t)}, got)
    BY <1>2, <2>5 DEF NextItem
  <2>8. "find" \in InTx /\ T(t) \in Row /\ todo \ {T(t)} \in SUBSET Row
    BY RowFacts, <2>1 DEF InTx
  <2>9. /\ job' \in [Job -> JobState] /\ \A k \in Job \ {j} : job'[k] = job[k]
        /\ job'[j].pc = "find" /\ job'[j].at = T(t) /\ job'[j].todo = todo \ {T(t)}
        /\ job'[j].got = got /\ job'[j].listed = job[j].listed
    BY <2>7, <2>8, GotoFacts
  <2> QED BY <2>4, <2>5, <2>6, <2>9
<1> QED BY <1>1, <1>2

-----------------------------------------------------------------------------
\* List: at most one pending occurrence of each plan is listed.
LEMMA ListStep ==
    ASSUME PlansOnly, IInv, NEW j \in Job, List(j), UNCHANGED req
    PROVE  IInv'
<1> DEFINE overdue == {T(t) : t \in {u \in Txn : Is(u, "pending") /\ txn[u].due <= Now}}
<1>1. overdue \subseteq TxnRows /\ overdue \subseteq Row
  BY RowFacts DEF TxnRows
<1>2. OnePerPlan(overdue)
  <2> SUFFICES ASSUME NEW t \in Txn, NEW u \in Txn, Is(t, "pending"), Is(u, "pending"),
                      PlanOf(T(t)[2]) = PlanOf(T(u)[2])
               PROVE  T(t) = T(u)
    BY DEF OnePerPlan
  <2>1. PlanOf(t) = PlanOf(u) /\ PlanOf(t) \in Plan
    BY RowFacts
  <2> QED BY <2>1 DEF IInv, Book1, Offers, PendingFor
<1>3. job' = [job EXCEPT ![j].pc = "listed", ![j].listed = overdue]
  BY DEF List
<1> HIDE DEF overdue
<1>4. /\ job' \in [Job -> JobState] /\ \A k \in Job \ {j} : job'[k] = job[k]
      /\ job'[j].pc = "listed" /\ job'[j].listed = overdue
  <2> DEFINE js == [job[j] EXCEPT !.pc = "listed", !.listed = overdue]
  <2>1. job[j] \in JobState /\ job \in [Job -> JobState]
    BY DEF IInv, TypeOK
  <2>2. js \in JobState /\ js.pc = "listed" /\ js.listed = overdue
    BY <1>1, <2>1 DEF JobState
  <2>3. job' = [job EXCEPT ![j] = js]
    BY <1>3
  <2> HIDE DEF js
  <2> QED BY <2>1, <2>2, <2>3
<1>5. "listed" \notin InTx /\ "new" \notin InTx
  BY DEF InTx
<1>6. Itinerary(j)'
  BY <1>1, <1>2, <1>4, <1>5 DEF Itinerary, Within, TxnRows, OnePerPlan
<1>7. ~ Within(j) /\ lock' = lock /\ UNCHANGED data
  BY <1>5 DEF List, At, Within
<1> QED BY <1>4, <1>5, <1>6, <1>7, Leaves

\* Begin: nothing is locked, nothing got.
LEMMA BeginStep ==
    ASSUME PlansOnly, IInv, NEW j \in Job, Begin(j), UNCHANGED req
    PROVE  IInv'
<1>1. UNCHANGED <<data, req, lock>> /\ ~ Within(j) /\ TypeOK
  BY DEF Begin, IInv, Within, At, InTx
<1>2. (\A p \in Plan : lock'[P(p)] # j) /\ (\A t \in Txn : lock'[T(t)] # j)
  BY <1>1, NoLocks
<1>3. InOrder(j)'
  BY <1>2 DEF InOrder
<1>4. Op(j)' = Op(j) /\ Op(j) \in {"pay", "skip", "overdue", "edit", "drop"}
  BY <1>1, RequestFacts DEF Op
<1>5. CASE Op(j) = "overdue"
  <2>1. NextItem(j, job[j].listed, {}) /\ job[j].listed \subseteq TxnRows /\ OnePerPlan(job[j].listed)
    BY <1>5 DEF Begin, At, IInv, Mine, Itinerary
  <2>2. {} \in SUBSET Row
    OBVIOUS
  <2>3. /\ job' \in [Job -> JobState] /\ \A k \in Job \ {j} : job'[k] = job[k]
        /\ job'[j].got = {} /\ job'[j].listed = job[j].listed
        /\ \/ /\ job'[j].pc = "commit" /\ job'[j].todo = {}
           \/ \E t \in Txn : /\ job'[j].pc = "find" /\ job'[j].at = T(t)
                             /\ job'[j].todo = job[j].listed \ {T(t)}
                             /\ \A r \in job'[j].todo : PlanOf(r[2]) > PlanOf(t)
    <3> HIDE DEF NextItem
    <3> QED BY <1>1, <2>1, <2>2, NextItemFacts
  <2>4. Itinerary(j)'
    BY <1>4, <1>5, <2>1, <2>3, RowFacts DEF Itinerary, MyPlan, Within, TxnRows, OnePerPlan
  <2>5. Walks(j)' /\ HasPlan(j)' /\ Got(j)'
    BY <1>4, <1>5, <2>3 DEF Walks, HasPlan, Got, ByPlan, TxnRows
  <2> QED BY <1>1, <1>3, <2>3, <2>4, <2>5, Moves DEF Mine
<1>6. CASE Op(j) # "overdue"
  <2>1. \/ Op(j) \in {"pay", "skip"} /\ Goto(j, "find", T(req[j].txn), {}, {})
        \/ Op(j) \in {"edit", "drop"} /\ Goto(j, "plan", NoTarget, {}, {})
    BY <1>4, <1>6 DEF Begin
  <2>2. /\ job' \in [Job -> JobState] /\ \A k \in Job \ {j} : job'[k] = job[k]
        /\ job'[j].got = {} /\ job'[j].listed = job[j].listed /\ Itinerary(j)
        /\ \/ Op(j) \in {"pay", "skip"} /\ job'[j].pc = "find" /\ job'[j].at = T(req[j].txn)
           \/ Op(j) \in {"edit", "drop"} /\ job'[j].pc = "plan"
    <3>1. "find" \in InTx /\ "plan" \in InTx
      BY DEF InTx
    <3>2. Op(j) \in {"pay", "skip"} => T(req[j].txn) \in Row
      BY <1>1, RequestFacts, RowFacts
    <3>3. Itinerary(j) /\ TypeOK /\ {} \in SUBSET Row
      BY DEF IInv, Mine
    <3>4. ASSUME Op(j) \in {"pay", "skip"}, Goto(j, "find", T(req[j].txn), {}, {})
          PROVE  /\ job' \in [Job -> JobState] /\ \A k \in Job \ {j} : job'[k] = job[k]
                 /\ job'[j].got = {} /\ job'[j].listed = job[j].listed
                 /\ job'[j].pc = "find" /\ job'[j].at = T(req[j].txn)
      <4> DEFINE t == T(req[j].txn)
                 none == {}
      <4>1. /\ "find" \in {"new", "listed", "done", "failed"} \cup InTx
            /\ t \in Row \cup {NoTarget} /\ none \in SUBSET Row
        BY <3>1, <3>2, <3>4
      <4>2. Goto(j, "find", t, none, none)
        BY <3>4
      <4> HIDE DEF t, none
      <4>3. /\ job' \in [Job -> JobState] /\ \A k \in Job \ {j} : job'[k] = job[k]
            /\ job'[j].got = none /\ job'[j].listed = job[j].listed
            /\ job'[j].pc = "find" /\ job'[j].at = t
        BY <3>3, <4>1, <4>2, GotoFacts
      <4> QED BY <4>3 DEF t, none
    <3>5. ASSUME Op(j) \in {"edit", "drop"}, Goto(j, "plan", NoTarget, {}, {})
          PROVE  /\ job' \in [Job -> JobState] /\ \A k \in Job \ {j} : job'[k] = job[k]
                 /\ job'[j].got = {} /\ job'[j].listed = job[j].listed /\ job'[j].pc = "plan"
      BY <3>1, <3>3, <3>5, GotoFacts
    <3> QED BY <2>1, <3>3, <3>4, <3>5
  <2>3. Itinerary(j)' /\ HasPlan(j)' /\ Got(j)'
    BY <1>4, <1>6, <2>2 DEF Itinerary, HasPlan, Got, ByPlan
  <2>4. Walks(j)'
    BY <1>1, <1>4, <1>6, <2>2 DEF Walks, ByPlan
  <2> QED BY <1>1, <1>3, <2>2, <2>3, <2>4, Moves DEF Mine
<1> QED BY <1>5, <1>6

-----------------------------------------------------------------------------
\* j locks nothing, or a row of the plan it is at: the plan if there is one, or an
\* occurrence while it has the plan.
Took(j) ==
    \/ lock' = lock
    \/ /\ lock' = [lock EXCEPT ![P(MyPlan(j))] = j] /\ CanLock(j, P(MyPlan(j)))
       /\ plan[MyPlan(j)].live
    \/ \E t \in Txn :
          /\ lock' = [lock EXCEPT ![T(t)] = j] /\ CanLock(j, T(t))
          /\ PlanOf(t) = MyPlan(j)
          /\ plan[MyPlan(j)].live => lock[P(MyPlan(j))] = j

\* Who takes its own rows keeps the order.
LEMMA TookFacts ==
    ASSUME PlansOnly, IInv, NEW j \in Job, Within(j), job[j].pc # "commit", Took(j)
    PROVE  /\ lock' \in [Row -> Job \cup {Nobody}]
           /\ \A r \in Row : \/ lock'[r] = lock[r]
                             \/ lock[r] \in {Nobody, j} /\ lock'[r] = j
           /\ \A p \in Plan : lock'[P(p)] = j => plan[p].live /\ p <= MyPlan(j)
           /\ \A t \in Txn : lock'[T(t)] = j =>
                 /\ PlanOf(t) <= MyPlan(j)
                 /\ plan[PlanOf(t)].live => lock'[P(PlanOf(t))] = j
<1>1. /\ lock \in [Row -> Job \cup {Nobody}] /\ Nobody # j
      /\ MyPlan(j) \in Plan /\ MyPlan(j) <= MyPlan(j) /\ Mine(j)
  <2>1. TypeOK /\ Mine(j) /\ Walks(j)
    BY DEF IInv, Mine
  <2>2. MyPlan(j) \in Plan /\ MyPlan(j) \in Nat
    BY <2>1, AtPlan
  <2>3. MyPlan(j) <= MyPlan(j)
    BY <2>2
  <2> QED BY <2>1, <2>2, <2>3, PlanLocksAssumption DEF TypeOK
<1>2. /\ \A p \in Plan : lock[P(p)] = j => plan[p].live /\ p <= MyPlan(j)
      /\ \A t \in Txn : lock[T(t)] = j =>
            /\ PlanOf(t) <= MyPlan(j)
            /\ plan[PlanOf(t)].live => lock[P(PlanOf(t))] = j
  BY <1>1 DEF IInv, Book1, LockedLives, PlanFirst, Mine, InOrder
<1>3. CASE lock' = lock
  BY <1>1, <1>2, <1>3
<1>4. CASE /\ lock' = [lock EXCEPT ![P(MyPlan(j))] = j] /\ CanLock(j, P(MyPlan(j)))
           /\ plan[MyPlan(j)].live
  BY <1>1, <1>2, <1>4, RowFacts DEF CanLock
<1>5. ASSUME NEW u \in Txn,
             lock' = [lock EXCEPT ![T(u)] = j], CanLock(j, T(u)),
             PlanOf(u) = MyPlan(j), plan[MyPlan(j)].live => lock[P(MyPlan(j))] = j
      PROVE  /\ lock' \in [Row -> Job \cup {Nobody}]
             /\ \A r \in Row : \/ lock'[r] = lock[r]
                               \/ lock[r] \in {Nobody, j} /\ lock'[r] = j
             /\ \A p \in Plan : lock'[P(p)] = j => plan[p].live /\ p <= MyPlan(j)
             /\ \A t \in Txn : lock'[T(t)] = j =>
                   /\ PlanOf(t) <= MyPlan(j)
                   /\ plan[PlanOf(t)].live => lock'[P(PlanOf(t))] = j
  BY <1>1, <1>2, <1>5, RowFacts DEF CanLock
<1> QED BY <1>3, <1>4, <1>5 DEF Took

\* A transaction goes on to another statement, with a row of its plan or without.
LEMMA GoesOn ==
    ASSUME PlansOnly, IInv, NEW j \in Job, Within(j), job[j].pc # "commit", Took(j),
           UNCHANGED <<data, req>>,
           job' \in [Job -> JobState], \A k \in Job \ {j} : job'[k] = job[k],
           Mine(j)'
    PROVE  IInv'
  BY TookFacts, Frame

\* What j got it still has, whatever row it takes.
LEMMA GotKept ==
    ASSUME PlansOnly, IInv, NEW j \in Job, Within(j), job[j].pc # "commit", Took(j),
           UNCHANGED <<data, req>>, job'[j].got = job[j].got
    PROVE  Got(j)'
<1>1. /\ Got(j) /\ txn' = txn /\ req' = req
      /\ \A r \in Row : lock[r] = j => lock'[r] = j
  BY TookFacts DEF IInv, Mine, data
<1> QED BY <1>1, RowFacts DEF Got, Is, Op

\* SkipOverdue goes on to the next item.
LEMMA NextItemKeeps ==
    ASSUME PlansOnly, IInv, NEW j \in Job, Within(j), job[j].pc # "commit", Took(j),
           UNCHANGED <<data, req>>,
           Op(j) = "overdue", NextItem(j, job[j].todo, job[j].got)
    PROVE  IInv'
<1>1. /\ TypeOK /\ Itinerary(j) /\ Mine(j) /\ job[j].todo \subseteq TxnRows
      /\ OnePerPlan(job[j].todo) /\ job[j].got \in SUBSET Row
      /\ \A r \in job[j].todo : PlanOf(r[2]) > MyPlan(j)
      /\ MyPlan(j) \in Plan /\ MyPlan(j) \in Nat /\ Op(j)' = Op(j)
  BY AtPlan DEF IInv, Mine, Itinerary, TypeOK, JobState, Op
<1>2. /\ job' \in [Job -> JobState] /\ \A k \in Job \ {j} : job'[k] = job[k]
      /\ job'[j].got = job[j].got /\ job'[j].listed = job[j].listed
      /\ \/ /\ job'[j].pc = "commit" /\ job'[j].todo = {}
         \/ \E t \in Txn : /\ job'[j].pc = "find" /\ job'[j].at = T(t)
                           /\ T(t) \in job[j].todo
                           /\ job'[j].todo = job[j].todo \ {T(t)}
                           /\ \A r \in job'[j].todo : PlanOf(r[2]) > PlanOf(t)
  <2> HIDE DEF NextItem
  <2> QED BY <1>1, NextItemFacts
<1>3. \/ job'[j].pc = "commit"
      \/ job'[j].pc = "find" /\ MyPlan(j)' \in Nat /\ MyPlan(j)' > MyPlan(j)
  BY <1>1, <1>2, RowFacts DEF MyPlan, Op
<1>4. Itinerary(j)'
  BY <1>1, <1>2, RowFacts DEF Itinerary, MyPlan, TxnRows, OnePerPlan, Op
<1>5. Within(j)'
  BY <1>2 DEF Within, InTx
<1>6. InOrder(j)'
  <2>1. /\ \A p \in Plan : lock'[P(p)] = j => p <= MyPlan(j)
        /\ \A t \in Txn : lock'[T(t)] = j => PlanOf(t) <= MyPlan(j) /\ PlanOf(t) \in Plan
    BY TookFacts, RowFacts
  <2>2. CASE job'[j].pc = "commit"
    BY <2>2, <1>5 DEF InOrder
  <2>3. CASE job'[j].pc = "find" /\ MyPlan(j)' \in Nat /\ MyPlan(j)' > MyPlan(j)
    <3>1. /\ \A p \in Plan : lock'[P(p)] = j => p < MyPlan(j)' /\ p <= MyPlan(j)'
          /\ \A t \in Txn : lock'[T(t)] = j => PlanOf(t) < MyPlan(j)' /\ PlanOf(t) <= MyPlan(j)'
      BY <2>1, <2>3, <1>1, RowFacts
    <3> QED BY <3>1, <1>5 DEF InOrder
  <2> QED BY <2>2, <2>3, <1>3
<1>7. HasPlan(j)' /\ Walks(j)'
  BY <1>1, <1>2 DEF HasPlan, Walks, ByPlan, TxnRows
<1>8. Got(j)'
  BY <1>2, GotKept
<1> QED BY <1>2, <1>4, <1>6, <1>7, <1>8, GoesOn DEF Mine

\* What is known of a transaction between two statements.
LEMMA WithinFacts ==
    ASSUME PlansOnly, IInv, NEW j \in Job, Within(j), job[j].pc # "commit"
    PROVE  /\ TypeOK /\ Walks(j) /\ Got(j) /\ Itinerary(j) /\ InOrder(j) /\ HasPlan(j)
           /\ MyPlan(j) \in Plan /\ MyPlan(j) \in Nat
           /\ Op(j) \in {"pay", "skip", "overdue", "edit", "drop"}
           /\ job[j].todo \in SUBSET Row /\ job[j].got \in SUBSET Row
           /\ job[j].at \in Row \cup {NoTarget}
           /\ ByTxn(j) => \E t \in Txn : job[j].at = T(t) /\ MyPlan(j) = PlanOf(t)
           /\ ByPlan(j) => MyPlan(j) = req[j].plan
<1>1. TypeOK /\ Walks(j) /\ Got(j) /\ Itinerary(j) /\ InOrder(j) /\ HasPlan(j)
  BY DEF IInv, Mine
<1>2. /\ job[j].todo \in SUBSET Row /\ job[j].got \in SUBSET Row
      /\ job[j].at \in Row \cup {NoTarget}
  BY <1>1 DEF TypeOK, JobState
<1>3. ByTxn(j) => \E t \in Txn : job[j].at = T(t) /\ MyPlan(j) = PlanOf(t)
  BY <1>1, RequestFacts, RowFacts DEF ByTxn, Walks, MyPlan, TxnRows
<1>4. ByPlan(j) => MyPlan(j) = req[j].plan
  BY DEF ByPlan, MyPlan
<1> QED BY <1>1, <1>2, <1>3, <1>4, AtPlan, RequestFacts

\* A statement of the same plan: where the job stays the same, ...
LEMMA StaysFacts ==
    ASSUME PlansOnly, IInv, NEW j \in Job, Within(j), job[j].pc # "commit",
           UNCHANGED <<data, req>>, NEW pc \in InTx, NEW got \in SUBSET Row,
           Goto(j, pc, job[j].at, job[j].todo, got)
    PROVE  /\ job' \in [Job -> JobState] /\ \A k \in Job \ {j} : job'[k] = job[k]
           /\ job'[j].pc = pc /\ job'[j].at = job[j].at /\ job'[j].got = got
           /\ Op(j)' = Op(j) /\ MyPlan(j)' = MyPlan(j) /\ Within(j)'
           /\ ByPlan(j)' = ByPlan(j) /\ Itinerary(j)'
<1>1. /\ job' \in [Job -> JobState] /\ \A k \in Job \ {j} : job'[k] = job[k]
      /\ job'[j].pc = pc /\ job'[j].at = job[j].at /\ job'[j].todo = job[j].todo
      /\ job'[j].got = got /\ job'[j].listed = job[j].listed
  <2> DEFINE at == job[j].at
             todo == job[j].todo
  <2>1. /\ TypeOK /\ pc \in {"new", "listed", "done", "failed"} \cup InTx
        /\ at \in Row \cup {NoTarget} /\ todo \in SUBSET Row /\ Goto(j, pc, at, todo, got)
    BY WithinFacts
  <2> HIDE DEF Goto, at, todo
  <2>2. /\ job' \in [Job -> JobState] /\ \A k \in Job \ {j} : job'[k] = job[k]
        /\ job'[j].pc = pc /\ job'[j].at = at /\ job'[j].todo = todo
        /\ job'[j].got = got /\ job'[j].listed = job[j].listed
    BY <2>1, GotoFacts
  <2> QED BY <2>2 DEF at, todo
<1>2. /\ Op(j)' = Op(j) /\ MyPlan(j)' = MyPlan(j) /\ Within(j)'
      /\ ByPlan(j)' = ByPlan(j)
  BY <1>1 DEF Op, MyPlan, Within, ByPlan
<1>3. Itinerary(j)'
  BY <1>1, <1>2, WithinFacts DEF Itinerary
<1> QED BY <1>1, <1>2, <1>3

\* ... and past the locks of the plan and the occurrence, or at the commit, the order.
LEMMA OrderKept ==
    ASSUME PlansOnly, IInv, NEW j \in Job, Within(j), job[j].pc # "commit", Took(j),
           Within(j)',
           \/ job'[j].pc \in {"check", "advance", "sync", "row"} /\ MyPlan(j)' = MyPlan(j)
           \/ job'[j].pc = "commit"
    PROVE  InOrder(j)'
<1>1. /\ \A p \in Plan : lock'[P(p)] = j => p <= MyPlan(j)
      /\ \A t \in Txn : lock'[T(t)] = j => PlanOf(t) <= MyPlan(j)
  BY TookFacts
<1> QED BY <1>1 DEF InOrder

\* A request that is refused gives its locks back.
LEMMA FailedLeaves ==
    ASSUME PlansOnly, IInv, NEW j \in Job, Within(j), Failed(j), lock' = Released(j),
           UNCHANGED <<data, req>>
    PROVE  IInv'
<1>1. TypeOK /\ Itinerary(j)
  BY DEF IInv, Mine
<1>2. /\ job' \in [Job -> JobState] /\ \A k \in Job \ {j} : job'[k] = job[k]
      /\ job'[j].pc = "failed" /\ job'[j].listed = job[j].listed
  <2> DEFINE js == [job[j] EXCEPT !.pc = "failed"]
  <2>1. job[j] \in JobState /\ job \in [Job -> JobState]
    BY <1>1 DEF TypeOK
  <2>2. js \in JobState /\ js.pc = "failed" /\ js.listed = job[j].listed
    BY <2>1 DEF JobState
  <2>3. job' = [job EXCEPT ![j] = js]
    BY DEF Failed
  <2> HIDE DEF js
  <2> QED BY <2>1, <2>2, <2>3
<1>3. "failed" \notin InTx
  BY DEF InTx
<1>4. Itinerary(j)'
  BY <1>1, <1>2, <1>3 DEF Itinerary, Within
<1> QED BY <1>2, <1>3, <1>4, Leaves

\* The plan's row is taken where there is one, before the occurrence's.
LEMMA FindStep ==
    ASSUME PlansOnly, IInv, NEW j \in Job, Find(j), UNCHANGED req
    PROVE  IInv'
<1>1. job[j].pc = "find" /\ Within(j) /\ UNCHANGED <<data, req>>
  BY DEF Find, At, Within, InTx
<1>2. ByTxn(j) /\ ~ ByPlan(j)
  BY <1>1, WithinFacts DEF Walks, ByTxn, ByPlan
<1>3. CASE Visible(job[j].at[2])
  <2>1. Goto(j, "plan", job[j].at, job[j].todo, job[j].got) /\ lock' = lock
    BY <1>3 DEF Find, Stay, FirstLock
  <2>2. "plan" \in InTx
    BY DEF InTx
  <2>3. /\ job' \in [Job -> JobState] /\ \A k \in Job \ {j} : job'[k] = job[k]
        /\ job'[j].pc = "plan" /\ job'[j].at = job[j].at /\ job'[j].got = job[j].got
        /\ Op(j)' = Op(j) /\ MyPlan(j)' = MyPlan(j) /\ Within(j)'
        /\ ByPlan(j)' = ByPlan(j) /\ Itinerary(j)'
    <3> HIDE DEF Goto
    <3> QED BY <1>1, <2>1, <2>2, WithinFacts, StaysFacts
  <2>4. InOrder(j)'
    BY <1>1, <2>1, <2>3, WithinFacts DEF InOrder
  <2>5. HasPlan(j)'
    BY <1>2, <2>3 DEF HasPlan
  <2>6. Walks(j)'
    BY <1>1, <1>2, <2>3, WithinFacts DEF Walks, ByTxn
  <2>7. Took(j)
    BY <2>1 DEF Took
  <2>8. Got(j)'
    BY <1>1, <2>3, <2>7, GotKept
  <2> QED BY <1>1, <2>3, <2>4, <2>5, <2>6, <2>7, <2>8, GoesOn DEF Mine
<1>4. CASE ~ Visible(job[j].at[2])
  <2>1. NotThere(j) /\ lock' = IF Op(j) = "overdue" THEN lock ELSE Released(j)
    BY <1>4 DEF Find
  <2>2. CASE Op(j) = "overdue"
    BY <1>1, <2>1, <2>2, NextItemKeeps DEF NotThere, Took
  <2>3. CASE Op(j) # "overdue"
    BY <1>1, <2>1, <2>3, FailedLeaves DEF NotThere
  <2> QED BY <2>2, <2>3
<1> QED BY <1>3, <1>4

\* The plan's lock is taken, for the occurrence or before the next is offered.
LEMMA LockPlanStep ==
    ASSUME PlansOnly, IInv, NEW j \in Job, LockPlan(j), UNCHANGED req
    PROVE  IInv'
<1>1. /\ job[j].pc \in {"plan", "advance"} /\ Within(j) /\ UNCHANGED <<data, req>>
      /\ ByTxn(j) /\ ~ ByPlan(j)
  BY DEF LockPlan, At, Within, InTx, ByTxn, ByPlan
<1>2. Took(j) /\ (plan[MyPlan(j)].live => lock'[P(MyPlan(j))] = j)
      /\ lock' \in {lock, [lock EXCEPT ![P(MyPlan(j))] = j]}
  <2>1. /\ lock' = IF plan[MyPlan(j)].live THEN [lock EXCEPT ![P(MyPlan(j))] = j] ELSE lock
        /\ CanLock(j, P(MyPlan(j)))
    BY DEF LockPlan
  <2>2. lock \in [Row -> Job \cup {Nobody}] /\ P(MyPlan(j)) \in Row
    BY <1>1, WithinFacts, RowFacts DEF TypeOK
  <2> QED BY <2>1, <2>2 DEF Took
<1>3. CASE job[j].pc = "plan"
  <2>1. Goto(j, "txn", job[j].at, job[j].todo, job[j].got)
    BY <1>3 DEF LockPlan, Stay, At
  <2>2. "txn" \in InTx
    BY DEF InTx
  <2>3. /\ job' \in [Job -> JobState] /\ \A k \in Job \ {j} : job'[k] = job[k]
        /\ job'[j].pc = "txn" /\ job'[j].at = job[j].at /\ job'[j].got = job[j].got
        /\ Op(j)' = Op(j) /\ MyPlan(j)' = MyPlan(j) /\ Within(j)'
        /\ ByPlan(j)' = ByPlan(j) /\ Itinerary(j)'
    <3> HIDE DEF Goto
    <3> QED BY <1>1, <1>3, <2>1, <2>2, WithinFacts, StaysFacts
  <2>4. InOrder(j)'
    <3>1. \A p \in Plan : lock'[P(p)] = j => p <= MyPlan(j)
      BY <1>1, <1>2, <1>3, TookFacts
    <3>2. \A t \in Txn : lock'[T(t)] = lock[T(t)]
      BY <1>1, <1>2, <1>3, WithinFacts, RowFacts DEF TypeOK
    <3>3. \A t \in Txn : lock'[T(t)] = j => PlanOf(t) < MyPlan(j) /\ PlanOf(t) <= MyPlan(j)
      BY <1>1, <1>3, <3>2, WithinFacts, RowFacts DEF InOrder
    <3> QED BY <2>3, <3>1, <3>3 DEF InOrder
  <2>5. HasPlan(j)'
    BY <1>1, <1>2, <2>3 DEF HasPlan, data
  <2>6. Walks(j)'
    BY <1>1, <1>3, <2>3, WithinFacts DEF Walks, ByTxn
  <2>7. Got(j)'
    BY <1>1, <1>2, <1>3, <2>3, GotKept
  <2> QED BY <1>1, <1>2, <1>3, <2>3, <2>4, <2>5, <2>6, <2>7, GoesOn DEF Mine
<1>4. CASE job[j].pc = "advance"
  <2>1. CASE Op(j) = "overdue"
    BY <1>1, <1>2, <1>4, <2>1, NextItemKeeps DEF LockPlan, At
  <2>2. CASE Op(j) # "overdue"
    <3>1. Goto(j, "commit", job[j].at, job[j].todo, job[j].got)
      BY <1>4, <2>2 DEF LockPlan, Stay, At
    <3>2. "commit" \in InTx
      BY DEF InTx
    <3>3. /\ job' \in [Job -> JobState] /\ \A k \in Job \ {j} : job'[k] = job[k]
          /\ job'[j].pc = "commit" /\ job'[j].at = job[j].at /\ job'[j].got = job[j].got
          /\ Op(j)' = Op(j) /\ MyPlan(j)' = MyPlan(j) /\ Within(j)'
          /\ ByPlan(j)' = ByPlan(j) /\ Itinerary(j)'
      <4> HIDE DEF Goto
      <4> QED BY <1>1, <1>4, <3>1, <3>2, WithinFacts, StaysFacts
    <3>4. InOrder(j)'
      BY <1>1, <1>2, <1>4, <3>3, OrderKept
    <3>5. HasPlan(j)'
      BY <1>1, <3>3 DEF HasPlan
    <3>6. Walks(j)'
      BY <1>1, <1>4, <3>3, WithinFacts DEF Walks, ByTxn, ByPlan
    <3>7. Got(j)'
      BY <1>1, <1>2, <1>4, <3>3, GotKept
    <3> QED BY <1>1, <1>2, <1>4, <3>3, <3>4, <3>5, <3>6, <3>7, GoesOn DEF Mine
  <2> QED BY <2>1, <2>2
<1> QED BY <1>1, <1>3, <1>4

\* LockTransaction: the row is still pending, or the item is passed over or refused.
LEMMA LockTxnStep ==
    ASSUME PlansOnly, IInv, NEW j \in Job, LockTxn(j), UNCHANGED req
    PROVE  IInv'
<1>1. job[j].pc = "txn" /\ Within(j) /\ UNCHANGED <<data, req>>
  BY DEF LockTxn, At, Within, InTx
<1>2. ByTxn(j) /\ ~ ByPlan(j)
  BY <1>1, WithinFacts DEF Walks, ByTxn, ByPlan
<1>3. PICK t \in Txn : job[j].at = T(t) /\ job[j].at[2] = t /\ MyPlan(j) = PlanOf(t)
  BY <1>1, <1>2, WithinFacts, RowFacts
<1> DEFINE ok == Visible(t) /\ Payable(j, t)
<1>4. /\ CanLock(j, T(t))
      /\ IF ok THEN Goto(j, IF Op(j) = "pay" THEN "check" ELSE "advance", T(t), job[j].todo,
                         job[j].got \cup {T(t)})
         ELSE NotThere(j)
      /\ lock' = IF ~ok /\ Op(j) # "overdue" THEN Released(j)
                 ELSE IF Visible(t) THEN [lock EXCEPT ![T(t)] = j] ELSE lock
  BY <1>3 DEF LockTxn
<1>5. plan[MyPlan(j)].live => lock[P(MyPlan(j))] = j
  BY <1>1, WithinFacts DEF HasPlan
<1>6. ok \/ Op(j) = "overdue" => Took(j)
  BY <1>3, <1>4, <1>5 DEF Took
<1>7. CASE ok
  <2> DEFINE pc == IF Op(j) = "pay" THEN "check" ELSE "advance"
             got == job[j].got \cup {T(t)}
  <2>1. /\ pc \in InTx /\ got \in SUBSET Row
        /\ Goto(j, pc, job[j].at, job[j].todo, got)
    BY <1>1, <1>3, <1>4, <1>7, WithinFacts, RowFacts DEF InTx
  <2>2. /\ job' \in [Job -> JobState] /\ \A k \in Job \ {j} : job'[k] = job[k]
        /\ job'[j].pc = pc /\ job'[j].at = job[j].at /\ job'[j].got = got
        /\ Op(j)' = Op(j) /\ MyPlan(j)' = MyPlan(j) /\ Within(j)'
        /\ ByPlan(j)' = ByPlan(j) /\ Itinerary(j)'
    <3> HIDE DEF Goto, pc, got
    <3> QED BY <1>1, <2>1, WithinFacts, StaysFacts
  <2>3. lock' = [lock EXCEPT ![T(t)] = j]
    BY <1>4, <1>7
  <2>4. lock \in [Row -> Job \cup {Nobody}]
    BY DEF IInv, TypeOK
  <2>5. InOrder(j)'
    BY <1>1, <1>6, <1>7, <2>2, OrderKept
  <2>6. HasPlan(j)'
    <3>1. P(MyPlan(j)) \in Row /\ P(MyPlan(j)) # T(t)
      BY <1>3, RowFacts
    <3> QED BY <1>1, <1>2, <1>5, <2>2, <2>3, <2>4, <3>1 DEF HasPlan, data
  <2>7. Walks(j)'
    BY <1>1, <1>2, <1>3, <2>2, WithinFacts DEF Walks, ByTxn, ByPlan
  <2>8. Got(j)'
    <3>1. /\ T(t) \in Row /\ Is(t, "pending")
          /\ Op(j) = "overdue" => txn[t].due <= Now
      BY <1>7, RowFacts DEF Payable
    <3>2. lock'[T(t)] = j /\ \A u \in Txn : lock[T(u)] = j => lock'[T(u)] = j
      BY <2>3, <2>4, <3>1, RowFacts
    <3>3. Got(j) /\ txn' = txn
      BY <1>1, WithinFacts DEF data
    <3>4. \A r \in job[j].got \cup {T(t)} : \E u \in Txn :
             /\ r = T(u) /\ lock'[r] = j /\ txn'[u].state = "pending"
             /\ Op(j) = "overdue" => txn'[u].due <= Now
      BY <3>1, <3>2, <3>3 DEF Got, Is
    <3> QED BY <2>2, <3>4 DEF Got, Is
  <2> QED BY <1>1, <1>6, <1>7, <2>2, <2>5, <2>6, <2>7, <2>8, GoesOn DEF Mine
<1>8. CASE ~ ok
  <2>1. CASE Op(j) = "overdue"
    BY <1>1, <1>4, <1>6, <1>8, <2>1, NextItemKeeps DEF NotThere
  <2>2. CASE Op(j) # "overdue"
    BY <1>1, <1>4, <1>8, <2>2, FailedLeaves DEF NotThere
  <2> QED BY <2>1, <2>2
<1> QED BY <1>7, <1>8

\* UpdatePlanned and DeletePlanned lock their plan, or find that there is none.
LEMMA LockOwnPlanStep ==
    ASSUME PlansOnly, IInv, NEW j \in Job, LockOwnPlan(j), UNCHANGED req
    PROVE  IInv'
<1>1. /\ job[j].pc = "plan" /\ Within(j) /\ UNCHANGED <<data, req>>
      /\ ~ ByTxn(j) /\ ByPlan(j) /\ Op(j) \in {"edit", "drop"}
  BY DEF LockOwnPlan, At, Within, InTx, ByTxn, ByPlan
<1>2. MyPlan(j) = req[j].plan /\ MyPlan(j) \in Plan
  BY <1>1, WithinFacts
<1>3. CASE ~ plan[MyPlan(j)].live
  <2>1. Failed(j) /\ lock' = Released(j)
    BY <1>2, <1>3 DEF LockOwnPlan
  <2> QED BY <1>1, <2>1, FailedLeaves
<1>4. CASE plan[MyPlan(j)].live
  <2> DEFINE pc == IF Op(j) = "edit" THEN "check" ELSE "sync"
  <2>1. /\ Goto(j, pc, job[j].at, job[j].todo, job[j].got) /\ CanLock(j, P(MyPlan(j)))
        /\ lock' = [lock EXCEPT ![P(MyPlan(j))] = j]
    BY <1>2, <1>4 DEF LockOwnPlan, Stay
  <2>2. Took(j)
    BY <1>4, <2>1 DEF Took
  <2>3. pc \in InTx /\ pc \in {"check", "sync"}
    BY DEF InTx
  <2>4. /\ job' \in [Job -> JobState] /\ \A k \in Job \ {j} : job'[k] = job[k]
        /\ job'[j].pc = pc /\ job'[j].at = job[j].at /\ job'[j].got = job[j].got
        /\ Op(j)' = Op(j) /\ MyPlan(j)' = MyPlan(j) /\ Within(j)'
        /\ ByPlan(j)' = ByPlan(j) /\ Itinerary(j)'
    <3> DEFINE got == job[j].got
    <3>1. /\ got \in SUBSET Row /\ Goto(j, pc, job[j].at, job[j].todo, got)
          /\ job[j].pc # "commit"
      BY <1>1, <2>1, WithinFacts
    <3> HIDE DEF Goto, pc, got
    <3>2. /\ job' \in [Job -> JobState] /\ \A k \in Job \ {j} : job'[k] = job[k]
          /\ job'[j].pc = pc /\ job'[j].at = job[j].at /\ job'[j].got = got
          /\ Op(j)' = Op(j) /\ MyPlan(j)' = MyPlan(j) /\ Within(j)'
          /\ ByPlan(j)' = ByPlan(j) /\ Itinerary(j)'
      BY <1>1, <2>3, <3>1, StaysFacts
    <3> QED BY <3>2 DEF got
  <2>5. InOrder(j)'
    <3> HIDE DEF pc
    <3> QED BY <1>1, <2>2, <2>3, <2>4, OrderKept
  <2>6. HasPlan(j)'
    <3>1. lock'[P(MyPlan(j))] = j
      BY <1>2, <2>1, RowFacts DEF IInv, TypeOK
    <3> QED BY <2>4, <3>1 DEF HasPlan
  <2>7. Walks(j)'
    BY <1>1, <2>4, WithinFacts DEF Walks, ByPlan
  <2>8. Got(j)'
    BY <1>1, <2>2, <2>4, GotKept
  <2> HIDE DEF pc
  <2> QED BY <1>1, <2>2, <2>4, <2>5, <2>6, <2>7, <2>8, GoesOn DEF Mine
<1> QED BY <1>3, <1>4

\* The account of a payment or of an edit is there, or the request ends.
LEMMA CheckStep ==
    ASSUME PlansOnly, IInv, NEW j \in Job, Check(j), UNCHANGED req
    PROVE  IInv'
<1>1. job[j].pc = "check" /\ Within(j) /\ UNCHANGED <<data, req>>
  BY DEF Check, At, Within, InTx
<1>2. Op(j) \in {"pay", "edit"}
  BY <1>1, WithinFacts DEF Walks
<1>3. CASE ~ (Target(j) \in live)
  BY <1>1, <1>3, FailedLeaves DEF Check
<1>4. CASE Target(j) \in live
  <2> DEFINE pc == IF Op(j) = "pay" THEN "advance" ELSE "sync"
  <2>1. Goto(j, pc, job[j].at, job[j].todo, job[j].got) /\ lock' = lock
    BY <1>4 DEF Check, Stay
  <2>2. Took(j)
    BY <2>1 DEF Took
  <2>3. pc \in InTx /\ pc \in {"advance", "sync"}
    BY DEF InTx
  <2>4. /\ job' \in [Job -> JobState] /\ \A k \in Job \ {j} : job'[k] = job[k]
        /\ job'[j].pc = pc /\ job'[j].at = job[j].at /\ job'[j].got = job[j].got
        /\ Op(j)' = Op(j) /\ MyPlan(j)' = MyPlan(j) /\ Within(j)'
        /\ ByPlan(j)' = ByPlan(j) /\ Itinerary(j)'
    <3> DEFINE got == job[j].got
    <3>1. /\ got \in SUBSET Row /\ Goto(j, pc, job[j].at, job[j].todo, got)
          /\ job[j].pc # "commit"
      BY <1>1, <2>1, WithinFacts
    <3> HIDE DEF Goto, pc, got
    <3>2. /\ job' \in [Job -> JobState] /\ \A k \in Job \ {j} : job'[k] = job[k]
          /\ job'[j].pc = pc /\ job'[j].at = job[j].at /\ job'[j].got = got
          /\ Op(j)' = Op(j) /\ MyPlan(j)' = MyPlan(j) /\ Within(j)'
          /\ ByPlan(j)' = ByPlan(j) /\ Itinerary(j)'
      BY <1>1, <2>3, <3>1, StaysFacts
    <3> QED BY <3>2 DEF got
  <2>5. Walks(j)'
    BY <1>1, <1>2, <2>4, WithinFacts DEF Walks, ByPlan
  <2> HIDE DEF pc
  <2>6. InOrder(j)'
    BY <1>1, <2>2, <2>3, <2>4, OrderKept
  <2>7. HasPlan(j)'
    BY <1>1, <2>1, <2>3, <2>4, WithinFacts DEF HasPlan, data
  <2>8. Got(j)'
    BY <1>1, <2>2, <2>4, GotKept
  <2> QED BY <1>1, <2>2, <2>4, <2>5, <2>6, <2>7, <2>8, GoesOn DEF Mine
<1> QED BY <1>3, <1>4

\* An edit or a deletion finds the occurrence its plan offers: it has the plan, so
\* the plan lives.
LEMMA OwnPending ==
    ASSUME PlansOnly, IInv, NEW j \in Job, Within(j), job[j].pc \in {"sync", "row"}
    PROVE  /\ ByPlan(j) /\ ~ ByTxn(j)
           /\ lock[P(req[j].plan)] = j /\ plan[req[j].plan].live
           /\ req[j].plan \in Plan /\ PendingFor(req[j].plan) # {}
<1>1. ByPlan(j) /\ ~ ByTxn(j)
  BY WithinFacts DEF Walks, ByTxn, ByPlan
<1>2. MyPlan(j) = req[j].plan /\ MyPlan(j) \in Plan /\ lock[P(MyPlan(j))] = j
  BY <1>1, WithinFacts DEF HasPlan
<1>3. plan[req[j].plan].live
  BY <1>2, PlanLocksAssumption DEF IInv, Book1, LockedLives
<1>4. Offers(req[j].plan)
  BY <1>2 DEF IInv, Book1
<1>5. PendingFor(req[j].plan) # {}
  BY <1>3, <1>4 DEF Offers
<1> QED BY <1>1, <1>2, <1>3, <1>5

\* GetPendingForPlan of an edit or a deletion finds that occurrence.
LEMMA FindPendingStep ==
    ASSUME PlansOnly, IInv, NEW j \in Job, FindPending(j), UNCHANGED req
    PROVE  IInv'
<1>1. job[j].pc = "sync" /\ Within(j) /\ UNCHANGED <<data, req>> /\ lock' = lock
  BY DEF FindPending, At, Within, InTx
<1>2. /\ ByPlan(j) /\ ~ ByTxn(j) /\ PendingFor(req[j].plan) # {}
      /\ lock[P(req[j].plan)] = j
  BY <1>1, OwnPending
<1>3. PICK t \in PendingFor(req[j].plan) : Goto(j, "row", T(t), {}, {})
  BY <1>2 DEF FindPending, ItsPending
<1>4. "row" \in InTx /\ T(t) \in Row /\ t \in Txn
  BY RowFacts DEF InTx, PendingFor
<1>5. /\ job' \in [Job -> JobState] /\ \A k \in Job \ {j} : job'[k] = job[k]
      /\ job'[j].pc = "row" /\ job'[j].at = T(t) /\ job'[j].got = {}
      /\ job'[j].listed = job[j].listed
  <2> HIDE DEF Goto
  <2> QED BY <1>3, <1>4, GotoFacts DEF IInv
<1>6. /\ Op(j)' = Op(j) /\ MyPlan(j)' = MyPlan(j) /\ Within(j)' /\ ByPlan(j)' = ByPlan(j)
      /\ MyPlan(j) = req[j].plan
  BY <1>1, <1>2, <1>4, <1>5 DEF Op, MyPlan, Within, ByPlan
<1>7. Took(j)
  BY <1>1 DEF Took
<1>8. InOrder(j)'
  BY <1>1, <1>5, <1>6, <1>7, OrderKept
<1>9. Itinerary(j)'
  BY <1>1, <1>2, <1>5, <1>6, WithinFacts DEF Itinerary, ByPlan
<1>10. HasPlan(j)'
  BY <1>1, <1>2, <1>5, <1>6 DEF HasPlan
<1>11. Walks(j)'
  <2>1. t \in PendingFor(req[j].plan)' /\ req'[j].plan = req[j].plan
    BY <1>1 DEF PendingFor, Is, data
  <2> QED BY <1>2, <1>5, <1>6, <2>1 DEF Walks, ByPlan
<1>12. Got(j)'
  BY <1>5 DEF Got
<1> QED BY <1>1, <1>5, <1>7, <1>8, <1>9, <1>10, <1>11, <1>12, GoesOn DEF Mine

\* syncPending and SkipPendingTransaction get the occurrence, which is still pending.
LEMMA LockPendingStep ==
    ASSUME PlansOnly, IInv, NEW j \in Job, LockPending(j), UNCHANGED req
    PROVE  IInv'
<1>1. job[j].pc = "row" /\ Within(j) /\ UNCHANGED <<data, req>>
  BY DEF LockPending, At, Within, InTx
<1>2. /\ ByPlan(j) /\ ~ ByTxn(j) /\ lock[P(req[j].plan)] = j
      /\ Op(j) \in {"edit", "drop"} /\ req[j].plan \in Plan
  BY <1>1, OwnPending DEF ByPlan
<1>3. PICK t \in PendingFor(req[j].plan) : job[j].at = T(t)
  BY <1>1, WithinFacts DEF Walks
<1>4. t \in Txn /\ Is(t, "pending") /\ PlanOf(t) = req[j].plan /\ T(t) \in Row
      /\ T(t)[2] = t
  BY RowFacts DEF PendingFor
<1>5. Visible(t)
  BY <1>4 DEF Visible
<1>6. /\ CanLock(j, T(t)) /\ Goto(j, "commit", NoTarget, {}, {T(t)})
      /\ lock' = [lock EXCEPT ![T(t)] = j]
  BY <1>2, <1>3, <1>4, <1>5 DEF LockPending
<1>7. "commit" \in InTx /\ {T(t)} \in SUBSET Row
  BY <1>4 DEF InTx
<1>8. /\ job' \in [Job -> JobState] /\ \A k \in Job \ {j} : job'[k] = job[k]
      /\ job'[j].pc = "commit" /\ job'[j].got = {T(t)}
      /\ job'[j].listed = job[j].listed
  <2> DEFINE got == {T(t)}
  <2>1. Goto(j, "commit", NoTarget, {}, got) /\ got \in SUBSET Row
    BY <1>6, <1>7
  <2> HIDE DEF Goto, got
  <2>2. /\ job' \in [Job -> JobState] /\ \A k \in Job \ {j} : job'[k] = job[k]
        /\ job'[j].pc = "commit" /\ job'[j].got = got
        /\ job'[j].listed = job[j].listed
    BY <2>1, <1>7, GotoFacts DEF IInv
  <2> QED BY <2>2 DEF got
<1>9. /\ Op(j)' = Op(j) /\ MyPlan(j)' = MyPlan(j) /\ Within(j)' /\ ByPlan(j)' = ByPlan(j)
      /\ MyPlan(j) = req[j].plan
  BY <1>1, <1>2, <1>7, <1>8 DEF Op, MyPlan, Within, ByPlan
<1>10. Took(j)
  BY <1>2, <1>4, <1>6, <1>9 DEF Took
<1>11. InOrder(j)'
  BY <1>1, <1>8, <1>9, <1>10, OrderKept
<1>12. Itinerary(j)'
  BY <1>1, <1>2, <1>8, <1>9, WithinFacts DEF Itinerary, ByPlan
<1>13. HasPlan(j)'
  <2>1. lock'[P(req[j].plan)] = j
    BY <1>2, <1>4, <1>6, RowFacts DEF IInv, TypeOK
  <2> QED BY <1>8, <1>9, <2>1 DEF HasPlan
<1>14. Walks(j)'
  <2>1. t \in PendingFor(req[j].plan)' /\ req'[j].plan = req[j].plan
    BY <1>1 DEF PendingFor, Is, data
  <2> QED BY <1>2, <1>8, <1>9, <2>1 DEF Walks, ByPlan
<1>15. Got(j)'
  <2>1. lock'[T(t)] = j /\ txn' = txn
    BY <1>1, <1>4, <1>6 DEF IInv, TypeOK, data
  <2> QED BY <1>2, <1>4, <1>8, <1>9, <2>1 DEF Got, Is
<1> QED BY <1>1, <1>8, <1>10, <1>11, <1>12, <1>13, <1>14, <1>15, GoesOn DEF Mine

\* PostgreSQL aborts a transaction, which may begin again.
LEMMA AbortStep ==
    ASSUME PlansOnly, IInv, NEW j \in Job, Abort(j), UNCHANGED req
    PROVE  IInv'
<1>1. TypeOK /\ Itinerary(j) /\ UNCHANGED <<data, req>> /\ lock' = Released(j)
  BY DEF IInv, Mine, Abort
<1>2. /\ job' \in [Job -> JobState] /\ \A k \in Job \ {j} : job'[k] = job[k]
      /\ job'[j].pc \in {"failed", "listed", "new"} /\ job'[j].listed = job[j].listed
  <2> DEFINE pc == IF Op(j) = "overdue" THEN "listed" ELSE "new"
             gone == [job[j] EXCEPT !.pc = "failed"]
             again == [job[j] EXCEPT !.pc = pc, !.retried = TRUE]
  <2>1. job[j] \in JobState /\ job \in [Job -> JobState]
    BY <1>1 DEF TypeOK
  <2>2. /\ gone \in JobState /\ gone.pc = "failed" /\ gone.listed = job[j].listed
        /\ again \in JobState /\ again.pc \in {"listed", "new"} /\ again.listed = job[j].listed
    BY <2>1 DEF JobState
  <2>3. job' = [job EXCEPT ![j] = gone] \/ job' = [job EXCEPT ![j] = again]
    BY DEF Abort
  <2> HIDE DEF gone, again
  <2> QED BY <2>1, <2>2, <2>3
<1>3. job'[j].pc \notin InTx
  BY <1>2 DEF InTx
<1>4. Itinerary(j)'
  BY <1>1, <1>2, <1>3 DEF Itinerary, Within
<1> QED BY <1>1, <1>2, <1>3, <1>4, Leaves

\* Only DeleteAccount has these statements.
LEMMA NoUnbook ==
    ASSUME PlansOnly, IInv, NEW j \in Job
    PROVE  ~ LockAccount(j) /\ ~ UpdateRows(j)
<1>1. job[j].pc \in {"account", "txns", "plans"} => Within(j)
  BY DEF Within, InTx
<1>2. ~ (job[j].pc \in {"account", "txns", "plans"})
  BY <1>1, WithinFacts DEF Walks
<1> QED BY <1>2 DEF LockAccount, UpdateRows, At

-----------------------------------------------------------------------------
\* At first each plan offers its first occurrence, and nobody holds anything.
LEMMA Begins ==
    ASSUME PlansOnly, Init
    PROVE  IInv
<1>1. PICK a \in [Plan -> Account] :
        /\ plan = [p \in Plan |-> [live |-> TRUE, resolved |-> 0, account |-> a[p]]]
        /\ txn = [t \in Txn |-> [state |-> IF t[2] = 1 THEN "pending" ELSE "none",
                                 due |-> IF t[2] = 1 THEN 1 ELSE 0,
                                 account |-> a[PlanOf(t)]]]
        /\ live = Account
        /\ lock = [r \in Row |-> Nobody]
        /\ req \in [Job -> Request]
        /\ job = [j \in Job |-> [pc |-> "new", retried |-> FALSE, at |-> NoTarget,
                                 listed |-> {}, todo |-> {}, got |-> {}]]
  BY DEF Init
<1>2. plan \in [Plan -> PlanRow]
  BY <1>1 DEF PlanRow
<1>3. txn \in [Txn -> TxnRow]
  <2>1. \A t \in Txn : a[PlanOf(t)] \in Account
    BY <1>1, RowFacts
  <2> QED BY <1>1, <2>1 DEF TxnRow
<1>4. TypeOK
  BY <1>1, <1>2, <1>3 DEF TypeOK, JobState
<1>5. ASSUME NEW p \in Plan PROVE Offers(p)
  <2>1. 1 \in Slot /\ \A s \in Slot : s \in Nat /\ (s > 1 <=> s # 1)
    BY DEF PlansOnly
  <2>2. \A s \in Slot : <<p, s>> \in Txn /\ <<p, s>>[2] = s /\ PlanOf(<<p, s>>) = p
    BY DEF Txn, PlanOf
  <2>3. \A s \in Slot : txn[<<p, s>>].state = IF s = 1 THEN "pending" ELSE "none"
    BY <1>1, <2>2
  <2>4. txn[<<p, 1>>].due = 1 /\ plan[p].live /\ plan[p].resolved = 0
    BY <1>1, <2>1, <2>2
  <2>5. PendingFor(p) = {<<p, 1>>}
    <3>1. ASSUME NEW t \in Txn, PlanOf(t) = p, Is(t, "pending") PROVE t = <<p, 1>>
      <4>1. t = <<p, t[2]>> /\ t[2] \in Slot
        BY <3>1 DEF Txn, PlanOf
      <4> QED BY <3>1, <4>1, <2>3 DEF Is
    <3>2. <<p, 1>> \in PendingFor(p)
      BY <2>1, <2>2, <2>3 DEF PendingFor, Is
    <3> QED BY <3>1, <3>2 DEF PendingFor
  <2>6. \A s \in Slot : Is(<<p, s>>, "none") <=> s > 1
    BY <2>1, <2>3 DEF Is
  <2> QED BY <2>1, <2>4, <2>5, <2>6 DEF Offers
<1>6. \A r \in Row : lock[r] = Nobody
  BY <1>1
<1>7. LockedLives /\ PlanFirst
  BY <1>6, RowFacts DEF LockedLives, PlanFirst
<1>8. ASSUME NEW j \in Job PROVE Mine(j)
  <2>1. job[j].pc = "new" /\ job[j].listed = {} /\ ~ Within(j)
    BY <1>1 DEF Within, InTx
  <2>2. Itinerary(j)
    BY <2>1 DEF Itinerary, OnePerPlan
  <2>3. InOrder(j)
    BY <1>6, RowFacts, PlanLocksAssumption DEF InOrder
  <2>4. HasPlan(j)
    BY <2>1 DEF HasPlan
  <2> QED BY <2>1, <2>2, <2>3, <2>4 DEF Mine
<1> QED BY <1>4, <1>5, <1>7, <1>8 DEF IInv, Book1

-----------------------------------------------------------------------------
\* Where a pending occurrence says its plan is
LEMMA PendingFacts ==
    ASSUME IInv, NEW t \in Txn, Is(t, "pending")
    PROVE  /\ PlanOf(t) \in Plan /\ PendingFor(PlanOf(t)) = {t} /\ plan[PlanOf(t)].live
           /\ txn[t].due = plan[PlanOf(t)].resolved + 1
           /\ lock[T(t)] # Nobody => lock[P(PlanOf(t))] = lock[T(t)]
<1>1. PlanOf(t) \in Plan /\ t \in PendingFor(PlanOf(t))
  BY RowFacts DEF PendingFor
<1>2. Offers(PlanOf(t)) /\ PlanFirst
  BY <1>1 DEF IInv, Book1
<1>3. PendingFor(PlanOf(t)) = {t} /\ plan[PlanOf(t)].live
  BY <1>1, <1>2 DEF Offers
<1>4. txn[t].due = plan[PlanOf(t)].resolved + 1
  BY <1>1, <1>2 DEF Offers
<1> QED BY <1>1, <1>2, <1>3, <1>4 DEF PlanFirst

\* A transaction that ends may have changed plans it holds, and their occurrences,
\* and leave them as they are to be.
LEMMA Ends ==
    ASSUME PlansOnly, IInv, NEW j \in Job, TypeOK', UNCHANGED req,
           \A k \in Job \ {j} : job'[k] = job[k],
           job'[j].pc = "done", job'[j].listed = job[j].listed, lock' = Released(j),
           NEW S \in SUBSET Plan,
           \A p \in S : lock[P(p)] = j /\ Offers(p)',
           \A p \in Plan \ S : plan'[p] = plan[p],
           \A t \in Txn : PlanOf(t) \notin S => txn'[t] = txn[t]
    PROVE  IInv'
<1>1. \A k \in Job \ {j} : job'[k] = job[k]
  OBVIOUS
<1>2. lock \in [Row -> Job \cup {Nobody}] /\ Nobody \notin Job
  BY PlanLocksAssumption DEF IInv, TypeOK
<1>3. /\ \A k \in Job \ {j}, r \in Row : lock'[r] = k <=> lock[r] = k
      /\ \A r \in Row : lock'[r] # j /\ (lock'[r] # Nobody => lock'[r] = lock[r])
  BY <1>2 DEF Released
<1>4. \A p \in Plan \ S : Offers(p)'
  <2> SUFFICES ASSUME NEW p \in Plan \ S PROVE Offers(p)'
    OBVIOUS
  <2>1. \A s \in Slot : <<p, s>> \in Txn /\ PlanOf(<<p, s>>) = p
    BY DEF Txn, PlanOf
  <2>2. PendingFor(p)' = PendingFor(p) /\ \A t \in PendingFor(p) : txn'[t] = txn[t]
    BY DEF PendingFor, Is
  <2>3. \A s \in Slot : Is(<<p, s>>, "none")' <=> Is(<<p, s>>, "none")
    BY <2>1 DEF Is
  <2>4. Offers(p) /\ plan'[p] = plan[p]
    BY DEF IInv, Book1
  <2> QED BY <2>2, <2>3, <2>4 DEF Offers
<1>5. \A p \in Plan : lock'[P(p)] # Nobody => p \notin S /\ lock'[P(p)] = lock[P(p)]
  BY <1>3, RowFacts
<1>6. LockedLives'
  <2> SUFFICES ASSUME NEW p \in Plan, lock'[P(p)] # Nobody PROVE plan'[p].live
    BY DEF LockedLives
  <2>1. plan'[p] = plan[p] /\ lock[P(p)] # Nobody
    BY <1>5
  <2> QED BY <2>1 DEF IInv, Book1, LockedLives
<1>7. \A p \in Plan : plan'[p].live => plan[p].live
  <2> SUFFICES ASSUME NEW p \in Plan, plan'[p].live PROVE plan[p].live
    OBVIOUS
  <2>1. CASE p \in S
    <3>1. lock[P(p)] # Nobody
      BY <2>1, <1>2
    <3> QED BY <3>1 DEF IInv, Book1, LockedLives
  <2>2. CASE p \notin S
    BY <2>2
  <2> QED BY <2>1, <2>2
<1>8. PlanFirst'
  <2> SUFFICES ASSUME NEW t \in Txn, lock'[T(t)] # Nobody, plan'[PlanOf(t)].live
               PROVE  lock'[P(PlanOf(t))] = lock'[T(t)]
    BY DEF PlanFirst
  <2>1. PlanOf(t) \in Plan /\ T(t) \in Row /\ P(PlanOf(t)) \in Row
    BY RowFacts
  <2>2. lock'[T(t)] = lock[T(t)] /\ lock[T(t)] \in Job \ {j}
    BY <2>1, <1>2, <1>3
  <2>3. lock[P(PlanOf(t))] = lock[T(t)]
    BY <2>1, <2>2, <1>2, <1>7 DEF IInv, Book1, PlanFirst
  <2> QED BY <2>1, <2>2, <2>3, <1>3
<1>9. ASSUME NEW k \in Job \ {j} PROVE Mine(k)'
  <2>1. Mine(k) /\ job'[k] = job[k] /\ req' = req
    BY <1>1 DEF IInv
  <2>2. /\ Itinerary(k)' <=> Itinerary(k)
        /\ Within(k)' <=> Within(k)
        /\ MyPlan(k)' = MyPlan(k) /\ Op(k)' = Op(k)
    BY <2>1 DEF Itinerary, Within, MyPlan, Op, OnePerPlan
  <2>3. InOrder(k)'
    BY <2>1, <2>2, <1>3, RowFacts DEF Mine, InOrder
  <2>4. HasPlan(k)'
    <3>1. CASE job[k].pc \in {"txn", "check", "advance", "sync", "row"} \/ (Within(k) /\ ByPlan(k))
      <4>1. job[k].pc \in {"txn", "check", "advance", "sync", "row"} => Within(k)
        BY DEF Within, InTx
      <4>2. MyPlan(k) \in Plan
        <5>1. CASE ByPlan(k)
          BY <5>1, RequestFacts DEF MyPlan, ByPlan, IInv
        <5>2. CASE ~ ByPlan(k)
          BY <5>2, <3>1, <4>1, <2>1, AtPlan DEF IInv, Mine
        <5> QED BY <5>1, <5>2
      <4>3. HasPlan(k) /\ P(MyPlan(k)) \in Row /\ (plan'[MyPlan(k)].live => plan[MyPlan(k)].live)
        BY <2>1, <4>2, <1>7, RowFacts DEF Mine
      <4>4. lock'[P(MyPlan(k))] = k <=> lock[P(MyPlan(k))] = k
        BY <1>3, <4>3
      <4> QED BY <2>1, <2>2, <4>3, <4>4 DEF HasPlan, ByPlan
    <3>2. CASE ~ (job[k].pc \in {"txn", "check", "advance", "sync", "row"} \/ (Within(k) /\ ByPlan(k)))
      BY <3>2, <2>1, <2>2 DEF HasPlan, ByPlan
    <3> QED BY <3>1, <3>2
  <2>5. ASSUME Within(k) PROVE Walks(k)'
    <3>1. Walks(k)
      BY <2>1, <2>5 DEF Mine
    <3>2. ASSUME job[k].pc = "row" \/ (ByPlan(k) /\ job[k].pc = "commit")
          PROVE  PendingFor(req[k].plan)' = PendingFor(req[k].plan)
      <4>1. ByPlan(k) /\ job[k].pc # "plan"
        BY <3>1, <3>2, <2>1, RequestFacts DEF Walks, ByPlan, IInv
      <4>2. req[k].plan \in Plan /\ lock[P(req[k].plan)] = k
        BY <4>1, <2>1, <2>5, RequestFacts DEF Mine, HasPlan, MyPlan, ByPlan, IInv
      <4>3. req[k].plan \notin S
        BY <4>2
      <4> QED BY <4>3 DEF PendingFor, Is
    <3> QED BY <2>1, <2>2, <3>1, <3>2 DEF Walks, ByPlan
  <2>6. ASSUME Within(k) PROVE Got(k)'
    <3>1. Got(k)
      BY <2>1, <2>6 DEF Mine
    <3>2. ASSUME NEW t \in Txn, lock[T(t)] = k, Is(t, "pending")
          PROVE  lock'[T(t)] = k /\ txn'[t] = txn[t]
      <4>1. lock[P(PlanOf(t))] = k /\ T(t) \in Row
        BY <3>2, <1>2, PendingFacts, RowFacts
      <4>2. PlanOf(t) \notin S
        BY <4>1
      <4> QED BY <3>2, <4>1, <4>2, <1>3
    <3>3. \A r \in job[k].got : \E t \in Txn :
             /\ r = T(t) /\ lock'[r] = k /\ txn'[t].state = "pending"
             /\ Op(k) = "overdue" => txn'[t].due <= Now
      BY <3>1, <3>2 DEF Got, Is
    <3> QED BY <2>1, <2>2, <3>3 DEF Got, Is
  <2> QED BY <2>1, <2>2, <2>3, <2>4, <2>5, <2>6 DEF Mine
<1>10. Mine(j)'
  <2>1. ~ Within(j)'
    BY DEF Within, InTx
  <2>2. Itinerary(j)'
    BY <2>1 DEF IInv, Mine, Itinerary
  <2>3. InOrder(j)'
    BY <1>3, RowFacts DEF InOrder
  <2>4. HasPlan(j)'
    BY <2>1 DEF HasPlan
  <2> QED BY <2>1, <2>2, <2>3, <2>4 DEF Mine
<1> QED BY <1>4, <1>6, <1>8, <1>9, <1>10 DEF IInv, Book1

-----------------------------------------------------------------------------
\* The row syncPending inserts: the first slot that was not used.
LEMMA NewRowFacts ==
    ASSUME PlansOnly, NEW p \in Plan, Offers(p)
    PROVE  /\ NewRow(p) \in Txn /\ PlanOf(NewRow(p)) = p /\ Is(NewRow(p), "none")
           /\ NewRow(p)[2] \in Slot /\ NewRow(p) = <<p, NewRow(p)[2]>>
           /\ \A s \in Slot : Is(<<p, s>>, "none") <=> s >= NewRow(p)[2]
<1>1. PICK n \in Slot : \A s \in Slot : Is(<<p, s>>, "none") <=> s > n
  BY DEF Offers
<1>2. n \in Nat /\ n + 1 \in Slot /\ Slot \subseteq Nat
  BY DEF PlansOnly
<1>3. \A s \in Slot : <<p, s>> \in Txn /\ PlanOf(<<p, s>>) = p /\ <<p, s>>[2] = s
  BY DEF Txn, PlanOf
<1>4. \A u \in Txn : PlanOf(u) = p => u = <<p, u[2]>> /\ u[2] \in Slot
  BY DEF Txn, PlanOf
<1>5. \A u \in Txn : PlanOf(u) = p /\ Is(u, "none") => n + 1 <= u[2]
  <2> SUFFICES ASSUME NEW u \in Txn, PlanOf(u) = p, Is(u, "none") PROVE n + 1 <= u[2]
    OBVIOUS
  <2>1. u[2] \in Nat /\ u[2] > n
    BY <1>1, <1>2, <1>4
  <2> QED BY <2>1, <1>2
<1>6. Is(<<p, n + 1>>, "none")
  BY <1>1, <1>2
<1>7. /\ NewRow(p) \in Txn /\ PlanOf(NewRow(p)) = p /\ Is(NewRow(p), "none")
      /\ \A u \in Txn : PlanOf(u) = p /\ Is(u, "none") => NewRow(p)[2] <= u[2]
  BY <1>2, <1>3, <1>5, <1>6 DEF NewRow
<1>8. NewRow(p)[2] = n + 1
  <2>1. NewRow(p)[2] <= n + 1 /\ n + 1 <= NewRow(p)[2] /\ NewRow(p)[2] \in Nat
    BY <1>2, <1>3, <1>4, <1>5, <1>6, <1>7
  <2> QED BY <2>1, <1>2
<1>9. \A s \in Slot : Is(<<p, s>>, "none") <=> s >= n + 1
  BY <1>1, <1>2
<1> QED BY <1>4, <1>7, <1>8, <1>9

\* When the occurrence on offer is resolved the new row is what its plan offers.
LEMMA Succeeds ==
    ASSUME PlansOnly, NEW p \in Plan, Offers(p), NEW t \in Txn, PendingFor(p) = {t},
           NEW u \in Txn, u = NewRow(p),
           ~ Is(t, "pending")', ~ Is(t, "none")', plan'[p].live,
           Is(u, "pending")', txn'[u].due = plan'[p].resolved + 1,
           \A v \in Txn : PlanOf(v) = p /\ v # t /\ v # u => txn'[v] = txn[v]
    PROVE  Offers(p)' /\ PendingFor(p)' = {u}
<1> DEFINE n == u[2]
<1>1. /\ u \in Txn /\ PlanOf(u) = p /\ Is(u, "none") /\ n \in Slot /\ u = <<p, n>>
      /\ \A s \in Slot : Is(<<p, s>>, "none") <=> s >= n
  BY NewRowFacts
<1>2. PlanOf(t) = p /\ Is(t, "pending")
  BY DEF PendingFor
<1>3. \A s \in Slot : <<p, s>> \in Txn /\ PlanOf(<<p, s>>) = p /\ s \in Nat
  BY DEF Txn, PlanOf, PlansOnly
<1> HIDE DEF n
<1>4. PendingFor(p)' = {u}
  <2>1. ASSUME NEW v \in Txn, PlanOf(v) = p, Is(v, "pending")' PROVE v = u
    <3>1. v # t
      BY <2>1
    <3>2. v # u => Is(v, "pending")
      BY <2>1, <3>1 DEF Is
    <3> QED BY <2>1, <3>1, <3>2 DEF PendingFor
  <2> QED BY <1>1, <2>1 DEF PendingFor
<1>5. \A s \in Slot : Is(<<p, s>>, "none")' <=> s > n
  <2> SUFFICES ASSUME NEW s \in Slot PROVE Is(<<p, s>>, "none")' <=> s > n
    OBVIOUS
  <2>1. s \in Nat /\ n \in Nat /\ <<p, s>> \in Txn /\ PlanOf(<<p, s>>) = p
    BY <1>1, <1>3
  <2>2. CASE <<p, s>> = u
    <3>1. s = n
      BY <1>1, <2>2
    <3>2. ~ Is(<<p, s>>, "none")'
      BY <2>2 DEF Is
    <3> QED BY <2>1, <3>1, <3>2
  <2>3. CASE <<p, s>> # u
    <3>1. s # n
      BY <1>1, <2>3
    <3>2. CASE <<p, s>> = t
      <4>1. ~ Is(<<p, s>>, "none")' /\ ~ Is(<<p, s>>, "none")
        BY <3>2, <1>2 DEF Is
      <4> QED BY <4>1, <1>1, <2>1
    <3>3. CASE <<p, s>> # t
      <4>1. Is(<<p, s>>, "none")' <=> Is(<<p, s>>, "none")
        BY <3>3, <2>1, <2>3 DEF Is
      <4> QED BY <4>1, <1>1, <2>1, <3>1
    <3> QED BY <3>2, <3>3
  <2> QED BY <2>2, <2>3
<1>6. \A v \in PendingFor(p)' : v = u /\ txn'[v].due = plan'[p].resolved + 1
  BY <1>4
<1>7. Offers(p)'
  BY <1>1, <1>4, <1>5, <1>6 DEF Offers
<1> QED BY <1>4, <1>7

\* The commit of a payment or of skips: each plan that it advances had the one
\* occurrence that is resolved, and offers the next after all that are.
LEMMA ResolvedFacts ==
    ASSUME PlansOnly, IInv, NEW j \in Job, At(j, "commit"), CommitResolved(j)
    PROVE  /\ \A p \in Advanced(j) : \E t \in Txn, m \in Nat :
                 /\ T(t) \in job[j].got /\ PendingFor(p) = {t} /\ lock[P(p)] = j
                 /\ m >= txn[t].due /\ (Op(j) # "overdue" => m = txn[t].due)
                 /\ plan'[p] = [plan[p] EXCEPT !.resolved = m]
                 /\ txn'[NewRow(p)] = Pending(m + 1, plan[p].account)
                 /\ txn'[t] = IF Op(j) = "pay"
                              THEN [state |-> "paid", due |-> txn[t].due, account |-> BookedOn(j)]
                              ELSE Gone(t)
                 /\ \A v \in Txn : PlanOf(v) = p /\ v # t /\ v # NewRow(p) => txn'[v] = txn[v]
           /\ \A p \in Plan \ Advanced(j) : plan'[p] = plan[p]
           /\ \A t \in Txn : PlanOf(t) \notin Advanced(j) => txn'[t] = txn[t]
           /\ \A t \in Txn : T(t) \in job[j].got => PlanOf(t) \in Advanced(j)
           /\ Advanced(j) \subseteq Plan
<1>1. TypeOK /\ Got(j) /\ Op(j) \in {"pay", "skip", "overdue"}
  BY DEF IInv, Mine, CommitResolved, Within, InTx, At
<1>2. ASSUME NEW t \in Txn, T(t) \in job[j].got
      PROVE  /\ Is(t, "pending") /\ lock[T(t)] = j /\ (Op(j) = "overdue" => txn[t].due <= Now)
             /\ PlanOf(t) \in Plan /\ PendingFor(PlanOf(t)) = {t} /\ plan[PlanOf(t)].live
             /\ txn[t].due = plan[PlanOf(t)].resolved + 1 /\ lock[P(PlanOf(t))] = j
             /\ PlanOf(t) \in Advanced(j)
  <2>1. Is(t, "pending") /\ lock[T(t)] = j /\ (Op(j) = "overdue" => txn[t].due <= Now)
    BY <1>1, <1>2, RowFacts DEF Got
  <2>2. /\ PlanOf(t) \in Plan /\ PendingFor(PlanOf(t)) = {t} /\ plan[PlanOf(t)].live
        /\ txn[t].due = plan[PlanOf(t)].resolved + 1 /\ lock[P(PlanOf(t))] = j
    BY <2>1, PendingFacts, PlanLocksAssumption
  <2>3. PlanOf(t) \in Advanced(j)
    BY <1>2, <2>2 DEF Advanced
  <2> QED BY <2>1, <2>2, <2>3
<1>3. /\ \A t \in Txn : txn'[t] =
            IF T(t) \in job[j].got
            THEN IF Op(j) = "pay"
                 THEN [state |-> "paid", due |-> txn[t].due, account |-> BookedOn(j)]
                 ELSE IF Is(t, "pending") THEN Gone(t) ELSE txn[t]
            ELSE IF PlanOf(t) \in Advanced(j) /\ t = Offered(j, PlanOf(t))
            THEN Pending(ResolvedUntil(j, PlanOf(t)) + 1, plan[PlanOf(t)].account)
            ELSE txn[t]
      /\ \A p \in Plan : plan'[p] = IF p \in Advanced(j)
                                   THEN [plan[p] EXCEPT !.resolved = ResolvedUntil(j, p)]
                                   ELSE plan[p]
  BY DEF CommitResolved
<1>4. ASSUME NEW p \in Advanced(j)
      PROVE  \E t \in Txn, m \in Nat :
                 /\ T(t) \in job[j].got /\ PendingFor(p) = {t} /\ lock[P(p)] = j
                 /\ m >= txn[t].due /\ (Op(j) # "overdue" => m = txn[t].due)
                 /\ plan'[p] = [plan[p] EXCEPT !.resolved = m]
                 /\ txn'[NewRow(p)] = Pending(m + 1, plan[p].account)
                 /\ txn'[t] = IF Op(j) = "pay"
                              THEN [state |-> "paid", due |-> txn[t].due, account |-> BookedOn(j)]
                              ELSE Gone(t)
                 /\ \A v \in Txn : PlanOf(v) = p /\ v # t /\ v # NewRow(p) => txn'[v] = txn[v]
  <2>1. p \in Plan
    BY DEF Advanced
  <2>2. PICK t \in Txn : T(t) \in job[j].got /\ PlanOf(t) = p
    BY DEF Advanced
  <2>3. /\ Is(t, "pending") /\ PendingFor(p) = {t} /\ lock[P(p)] = j
        /\ txn[t].due = plan[p].resolved + 1 /\ (Op(j) = "overdue" => txn[t].due <= Now)
    BY <1>2, <2>2
  <2> DEFINE m == ResolvedUntil(j, p)
             mine == {v \in Txn : T(v) \in job[j].got /\ PlanOf(v) = p}
             last == CHOOSE v \in mine : \A w \in mine : txn[w].due <= txn[v].due
  <2>4. mine = {t}
    <3>1. \A v \in Txn : T(v) \in job[j].got /\ PlanOf(v) = p => v = t
      BY <1>2, <2>3
    <3> QED BY <2>2, <3>1
  <2>5. last = t
    <3>1. txn[t].due <= txn[t].due
      BY <1>1 DEF TypeOK, TxnRow
    <3> HIDE DEF mine
    <3>2. \E v \in mine : \A w \in mine : txn[w].due <= txn[v].due
      BY <2>4, <3>1
    <3>3. last \in mine
      BY <3>2
    <3> QED BY <2>4, <3>3
  <2>6. m = Later(plan[p].resolved, IF Op(j) = "overdue" THEN Later(txn[t].due, Now) ELSE txn[t].due)
    <3>1. m = Later(plan[p].resolved,
                    IF Op(j) = "overdue" THEN Later(txn[last].due, Now) ELSE txn[last].due)
      BY DEF ResolvedUntil
    <3> HIDE DEF last, m
    <3> QED BY <2>5, <3>1
  <2> HIDE DEF mine, last
  <2>7. m \in Nat /\ m >= txn[t].due /\ (Op(j) # "overdue" => m = txn[t].due)
    <3>1. plan[p].resolved \in Nat /\ txn[t].due \in Nat /\ Now \in Nat
      BY <1>1, <2>1, PlanLocksAssumption DEF TypeOK, PlanRow, TxnRow
    <3> QED BY <2>3, <2>6, <3>1 DEF Later
  <2>8. {v \in PendingFor(p) : T(v) \notin job[j].got} = {}
    BY <2>2, <2>3
  <2>9. Offered(j, p) = NewRow(p)
    BY <2>8 DEF Offered
  <2>10. /\ NewRow(p) \in Txn /\ PlanOf(NewRow(p)) = p /\ Is(NewRow(p), "none")
    BY <2>1, NewRowFacts DEF IInv, Book1
  <2>11. T(NewRow(p)) \notin job[j].got
    BY <1>2, <2>10 DEF Is
  <2>12. plan'[p] = [plan[p] EXCEPT !.resolved = m]
    BY <1>3, <2>1
  <2>13. txn'[NewRow(p)] = Pending(m + 1, plan[p].account)
    <3> HIDE DEF m
    <3> QED BY <1>3, <2>9, <2>10, <2>11 DEF m
  <2>14. txn'[t] = IF Op(j) = "pay"
                   THEN [state |-> "paid", due |-> txn[t].due, account |-> BookedOn(j)]
                   ELSE Gone(t)
    BY <1>3, <2>2, <2>3
  <2>15. \A v \in Txn : PlanOf(v) = p /\ v # t /\ v # NewRow(p) => txn'[v] = txn[v]
    <3> SUFFICES ASSUME NEW v \in Txn, PlanOf(v) = p, v # t, v # NewRow(p)
                 PROVE  txn'[v] = txn[v]
      OBVIOUS
    <3>1. T(v) \notin job[j].got
      BY <1>2, <2>3
    <3> QED BY <1>3, <2>9, <3>1
  <2> HIDE DEF m
  <2> QED BY <2>2, <2>3, <2>7, <2>12, <2>13, <2>14, <2>15
<1>5. \A p \in Plan \ Advanced(j) : plan'[p] = plan[p]
  BY <1>3
<1>6. \A t \in Txn : PlanOf(t) \notin Advanced(j) => txn'[t] = txn[t]
  <2> SUFFICES ASSUME NEW t \in Txn, PlanOf(t) \notin Advanced(j) PROVE txn'[t] = txn[t]
    OBVIOUS
  <2>1. T(t) \notin job[j].got
    BY <1>2
  <2> QED BY <1>3, <2>1
<1>7. Advanced(j) \subseteq Plan
  BY DEF Advanced
<1> QED BY <1>2, <1>4, <1>5, <1>6, <1>7

\* A transaction that commits
LEMMA CommitFacts ==
    ASSUME PlansOnly, IInv, NEW j \in Job, Commit(j), UNCHANGED req
    PROVE  /\ At(j, "commit") /\ Within(j) /\ lock' = Released(j) /\ TypeOK /\ Walks(j)
           /\ lock' \in [Row -> Job \cup {Nobody}] /\ req' \in [Job -> Request]
           /\ job' \in [Job -> JobState] /\ \A k \in Job \ {j} : job'[k] = job[k]
           /\ job'[j].pc = "done" /\ job'[j].listed = job[j].listed
           /\ CommitResolved(j) \/ CommitEdit(j) \/ CommitDeletion(j)
<1>1. At(j, "commit") /\ Within(j) /\ lock' = Released(j)
  BY DEF Commit, At, Within, InTx
<1>2. TypeOK /\ Walks(j)
  BY <1>1 DEF IInv, Mine
<1>3. lock' \in [Row -> Job \cup {Nobody}] /\ req' \in [Job -> Request]
  BY <1>1, <1>2 DEF TypeOK, Released
<1>4. /\ job' \in [Job -> JobState] /\ \A k \in Job \ {j} : job'[k] = job[k]
      /\ job'[j].pc = "done" /\ job'[j].listed = job[j].listed
  <2> DEFINE js == [job[j] EXCEPT !.pc = "done"]
  <2>1. job[j] \in JobState /\ job \in [Job -> JobState]
    BY <1>2 DEF TypeOK
  <2>2. js \in JobState /\ js.pc = "done" /\ js.listed = job[j].listed
    BY <2>1 DEF JobState
  <2>3. job' = [job EXCEPT ![j] = js]
    BY DEF Commit
  <2> HIDE DEF js
  <2> QED BY <2>1, <2>2, <2>3
<1>5. CommitResolved(j) \/ CommitEdit(j) \/ CommitDeletion(j)
  BY DEF Commit
<1> QED BY <1>1, <1>2, <1>3, <1>4, <1>5

\* PayTransaction, SkipTransaction, SkipOverdue
LEMMA CommitResolvedStep ==
    ASSUME PlansOnly, IInv, NEW j \in Job, Commit(j), CommitResolved(j), UNCHANGED req
    PROVE  IInv'
<1> DEFINE S == Advanced(j)
<1>1. /\ At(j, "commit") /\ lock' = Released(j) /\ TypeOK /\ S \subseteq Plan
      /\ \A p \in Plan \ S : plan'[p] = plan[p]
      /\ \A t \in Txn : PlanOf(t) \notin S => txn'[t] = txn[t]
  BY CommitFacts, ResolvedFacts
<1>2. ASSUME NEW p \in S
      PROVE  /\ plan'[p] \in PlanRow /\ lock[P(p)] = j /\ Offers(p)'
             /\ \A v \in Txn : PlanOf(v) = p => txn'[v] \in TxnRow
  <2>1. PICK t \in Txn, m \in Nat :
                 /\ T(t) \in job[j].got /\ PendingFor(p) = {t} /\ lock[P(p)] = j
                 /\ m >= txn[t].due /\ (Op(j) # "overdue" => m = txn[t].due)
                 /\ plan'[p] = [plan[p] EXCEPT !.resolved = m]
                 /\ txn'[NewRow(p)] = Pending(m + 1, plan[p].account)
                 /\ txn'[t] = IF Op(j) = "pay"
                              THEN [state |-> "paid", due |-> txn[t].due, account |-> BookedOn(j)]
                              ELSE Gone(t)
                 /\ \A v \in Txn : PlanOf(v) = p /\ v # t /\ v # NewRow(p) => txn'[v] = txn[v]
    BY <1>1, ResolvedFacts
  <2>2. p \in Plan /\ Offers(p) /\ plan[p] \in PlanRow /\ txn[t] \in TxnRow
    BY <1>1 DEF IInv, Book1, TypeOK
  <2>3. t \in Txn /\ PlanOf(t) = p /\ Is(t, "pending") /\ plan[p].live
    <3>1. t \in PendingFor(p)
      BY <2>1
    <3> QED BY <3>1, <2>2 DEF PendingFor, Offers
  <2>4. /\ NewRow(p) \in Txn /\ PlanOf(NewRow(p)) = p /\ Is(NewRow(p), "none")
    BY <2>2, NewRowFacts
  <2>5. plan'[p] \in PlanRow /\ plan'[p].live /\ plan'[p].resolved = m
    BY <2>1, <2>2, <2>3 DEF PlanRow
  <2>6. Op(j) = "pay" => BookedOn(j) \in Account
    <3>1. Op(j) = "pay" => req[j].to \in Account \cup {Same} /\ req[j].txn \in Txn
      BY <1>1, RequestFacts
    <3>2. \A v \in Txn : txn[v].account \in Account
      BY <1>1 DEF TypeOK, TxnRow
    <3> QED BY <3>1, <3>2 DEF BookedOn, Target
  <2>7. txn'[t] \in TxnRow /\ txn'[t].state \in {"paid", "deleted"}
    BY <2>1, <2>2, <2>6 DEF TxnRow, Gone
  <2>8. /\ txn'[NewRow(p)] \in TxnRow /\ txn'[NewRow(p)].state = "pending"
        /\ txn'[NewRow(p)].due = m + 1
    BY <2>1, <2>2 DEF TxnRow, PlanRow, Pending
  <2>9. \A v \in Txn : PlanOf(v) = p => txn'[v] \in TxnRow
    BY <1>1, <2>1, <2>7, <2>8 DEF TypeOK
  <2>10. Offers(p)'
    <3>1. PICK u \in Txn : u = NewRow(p)
      BY <2>4
    <3>2. /\ ~ Is(t, "pending")' /\ ~ Is(t, "none")' /\ Is(u, "pending")'
          /\ txn'[u].due = plan'[p].resolved + 1
      BY <2>5, <2>7, <2>8, <3>1 DEF Is
    <3>3. \A v \in Txn : PlanOf(v) = p /\ v # t /\ v # u => txn'[v] = txn[v]
      BY <2>1, <3>1
    <3> QED BY <2>1, <2>2, <2>5, <3>1, <3>2, <3>3, Succeeds
  <2> QED BY <2>1, <2>5, <2>9, <2>10
<1> HIDE DEF S
<1>3. TypeOK'
  <2>1. plan' \in [Plan -> PlanRow]
    <3>1. plan' = [p \in Plan |-> plan'[p]]
      BY DEF CommitResolved
    <3>2. \A p \in Plan : plan'[p] \in PlanRow
      BY <1>1, <1>2 DEF TypeOK
    <3> QED BY <3>1, <3>2
  <2>2. txn' \in [Txn -> TxnRow]
    <3>1. txn' = [t \in Txn |-> txn'[t]]
      BY DEF CommitResolved
    <3>2. \A t \in Txn : txn'[t] \in TxnRow
      BY <1>1, <1>2 DEF TypeOK
    <3> QED BY <3>1, <3>2
  <2>3. live' \subseteq Account
    BY <1>1 DEF CommitResolved, TypeOK
  <2> QED BY <2>1, <2>2, <2>3, CommitFacts DEF TypeOK
<1> QED BY <1>1, <1>2, <1>3, CommitFacts, Ends

\* UpdatePlanned writes the occurrence its plan offers, due when it was.
LEMMA CommitEditStep ==
    ASSUME PlansOnly, IInv, NEW j \in Job, Commit(j), CommitEdit(j), UNCHANGED req
    PROVE  /\ IInv'
           /\ \A p \in Plan : PendingFor(p)' = PendingFor(p)
           /\ \A t \in Txn : txn'[t].state = txn[t].state /\ txn'[t].due = txn[t].due
<1>0. PICK p \in Plan : p = req[j].plan
  BY CommitFacts, RequestFacts DEF CommitEdit, CommitDeletion, ByPlan
<1>1. /\ At(j, "commit") /\ lock' = Released(j) /\ TypeOK /\ Op(j) = "edit" /\ ByPlan(j)
      /\ Walks(j) /\ Within(j) /\ p \in Plan /\ req[j].to \in Account /\ MyPlan(j) = p
  BY <1>0, CommitFacts, RequestFacts DEF CommitEdit, ByPlan, MyPlan
<1>2. PICK t \in PendingFor(p) : job[j].got = {T(t)}
  BY <1>0, <1>1 DEF Walks, At
<1>3. lock[P(p)] = j
  BY <1>1 DEF IInv, Mine, HasPlan, At
<1>4. t \in Txn /\ PlanOf(t) = p /\ Is(t, "pending") /\ txn[t].due = plan[p].resolved + 1
  BY <1>2, PendingFacts DEF PendingFor
<1>5. /\ plan' = [plan EXCEPT ![p].account = req[j].to] /\ live' = live
      /\ txn' = [v \in Txn |->
                   IF T(v) \in job[j].got \/ (job[j].got = {} /\ v = NewRow(p))
                   THEN Pending(plan[p].resolved + 1, req[j].to) ELSE txn[v]]
  BY <1>0 DEF CommitEdit
<1>6. \A v \in Txn : T(v) \in job[j].got <=> v = t
  BY <1>2, <1>4, RowFacts
<1>7. \A v \in Txn : txn'[v] = IF v = t THEN Pending(txn[t].due, req[j].to) ELSE txn[v]
  BY <1>2, <1>4, <1>5, <1>6
<1>8. /\ plan' \in [Plan -> PlanRow] /\ \A q \in Plan : q # p => plan'[q] = plan[q]
      /\ plan'[p].live = plan[p].live /\ plan'[p].resolved = plan[p].resolved
  BY <1>1, <1>5 DEF TypeOK, PlanRow
<1>9. \A v \in Txn : /\ txn'[v].state = txn[v].state /\ txn'[v].due = txn[v].due
                     /\ txn'[v] \in TxnRow
  BY <1>1, <1>4, <1>7 DEF Pending, TypeOK, TxnRow, Is
<1>10. txn' \in [Txn -> TxnRow]
  BY <1>5, <1>9
<1>11. TypeOK'
  BY <1>1, <1>5, <1>8, <1>10, CommitFacts DEF TypeOK
<1>12. \A q \in Plan : PendingFor(q)' = PendingFor(q)
  BY <1>9 DEF PendingFor, Is
<1>13. Offers(p)'
  <2>1. Offers(p) /\ PendingFor(p)' = PendingFor(p)
    BY <1>1, <1>12 DEF IInv, Book1
  <2>2. \A s \in Slot : Is(<<p, s>>, "none")' <=> Is(<<p, s>>, "none")
    <3>1. p \in Plan
      BY <1>1
    <3>2. \A s \in Slot : <<p, s>> \in Txn
      BY <3>1 DEF Txn
    <3>3. \A s \in Slot : txn'[<<p, s>>].state = txn[<<p, s>>].state
      BY <1>9, <3>2
    <3> QED BY <3>3 DEF Is
  <2>3. \A v \in PendingFor(p) : v \in Txn
    BY DEF PendingFor
  <2> QED BY <1>8, <1>9, <2>1, <2>2, <2>3 DEF Offers
<1>14. IInv'
  <2> DEFINE S == {p}
  <2>1. /\ S \in SUBSET Plan
        /\ \A q \in S : lock[P(q)] = j /\ Offers(q)'
        /\ \A q \in Plan \ S : plan'[q] = plan[q]
        /\ \A v \in Txn : PlanOf(v) \notin S => txn'[v] = txn[v]
    BY <1>1, <1>3, <1>4, <1>7, <1>8, <1>13
  <2> HIDE DEF S
  <2> QED BY <1>1, <1>11, <2>1, CommitFacts, Ends
<1> QED BY <1>9, <1>12, <1>14

\* DeletePlanned takes the occurrence its plan offers with the plan.
LEMMA CommitDropStep ==
    ASSUME PlansOnly, IInv, NEW j \in Job, Commit(j), CommitDeletion(j), UNCHANGED req
    PROVE  /\ IInv'
           /\ \E p \in Plan : /\ PendingFor(p)' = {}
                              /\ \A q \in Plan \ {p} : PendingFor(q)' = PendingFor(q)
           /\ \A t \in Txn : /\ txn'[t].due = txn[t].due
                             /\ Is(t, "paid")' <=> Is(t, "paid")
<1>0. PICK p \in Plan : p = req[j].plan
  BY CommitFacts, RequestFacts DEF CommitEdit, CommitDeletion, ByPlan
<1>1. /\ At(j, "commit") /\ lock' = Released(j) /\ TypeOK /\ Op(j) = "drop" /\ ByPlan(j)
      /\ Walks(j) /\ Within(j) /\ p \in Plan /\ MyPlan(j) = p
  BY <1>0, CommitFacts, RequestFacts DEF CommitDeletion, ByPlan, MyPlan
<1>2. PICK t \in PendingFor(p) : job[j].got = {T(t)}
  BY <1>0, <1>1 DEF Walks, At
<1>3. lock[P(p)] = j
  BY <1>1 DEF IInv, Mine, HasPlan, At
<1>4. t \in Txn /\ PlanOf(t) = p /\ Is(t, "pending") /\ PendingFor(p) = {t}
  BY <1>2, PendingFacts DEF PendingFor
<1>5. /\ txn' = [v \in Txn |-> IF T(v) \in job[j].got THEN Gone(v) ELSE txn[v]]
      /\ plan' = [q \in Plan |-> IF P(q) \in job[j].got \/ (Op(j) = "drop" /\ q = p)
                                THEN [plan[q] EXCEPT !.live = FALSE] ELSE plan[q]]
      /\ live' = live
  BY <1>0, <1>1 DEF CommitDeletion
<1>6. /\ \A v \in Txn : T(v) \in job[j].got <=> v = t
      /\ \A q \in Plan : P(q) \notin job[j].got
  BY <1>2, <1>4, RowFacts
<1>7. \A v \in Txn : txn'[v] = IF v = t THEN Gone(t) ELSE txn[v]
  BY <1>4, <1>5, <1>6
<1>8. \A q \in Plan : plan'[q] = IF q = p THEN [plan[p] EXCEPT !.live = FALSE] ELSE plan[q]
  BY <1>1, <1>5, <1>6
<1>9. /\ plan' \in [Plan -> PlanRow] /\ ~ plan'[p].live
  <2>1. \A q \in Plan : plan'[q] \in PlanRow
    BY <1>1, <1>8 DEF TypeOK, PlanRow
  <2>2. ~ plan'[p].live
    BY <1>1, <1>8 DEF TypeOK, PlanRow
  <2> QED BY <1>5, <2>1, <2>2
<1>10. \A v \in Txn : /\ txn'[v] \in TxnRow /\ txn'[v].due = txn[v].due
                      /\ (v = t => txn'[v].state = "deleted")
                      /\ (v # t => txn'[v].state = txn[v].state)
  BY <1>1, <1>4, <1>7 DEF Gone, TypeOK, TxnRow
<1>11. TypeOK'
  <2>1. txn' \in [Txn -> TxnRow]
    BY <1>5, <1>10
  <2> QED BY <1>1, <1>5, <1>9, <2>1, CommitFacts DEF TypeOK
<1>12. PendingFor(p)' = {} /\ \A q \in Plan \ {p} : PendingFor(q)' = PendingFor(q)
  <2>2. \A v \in Txn : (PlanOf(v) = p /\ txn[v].state = "pending") => v = t
    BY <1>4 DEF PendingFor, Is
  <2>3. \A v \in Txn : ~ (PlanOf(v) = p /\ txn'[v].state = "pending")
    BY <1>10, <2>2
  <2>4. \A v \in Txn : PlanOf(v) # p => txn'[v].state = txn[v].state
    BY <1>4, <1>10
  <2> QED BY <2>3, <2>4 DEF PendingFor, Is
<1>13. Offers(p)'
  <2>1. p \in Plan /\ Offers(p)
    BY <1>1 DEF IInv, Book1
  <2>2. \A s \in Slot : <<p, s>> \in Txn
    BY <2>1 DEF Txn
  <2>3. \A s \in Slot : txn'[<<p, s>>].state = "none" <=> txn[<<p, s>>].state = "none"
    BY <1>4, <1>10, <2>2 DEF Is
  <2>4. \A s \in Slot : Is(<<p, s>>, "none")' <=> Is(<<p, s>>, "none")
    BY <2>1, <2>3 DEF Is
  <2> QED BY <1>9, <1>12, <2>1, <2>4 DEF Offers
<1>14. IInv'
  <2> DEFINE S == {p}
  <2>1. /\ S \in SUBSET Plan
        /\ \A q \in S : lock[P(q)] = j /\ Offers(q)'
        /\ \A q \in Plan \ S : plan'[q] = plan[q]
        /\ \A v \in Txn : PlanOf(v) \notin S => txn'[v] = txn[v]
    BY <1>1, <1>3, <1>4, <1>7, <1>8, <1>13
  <2> HIDE DEF S
  <2> QED BY <1>1, <1>11, <2>1, CommitFacts, Ends
<1>15. \A v \in Txn : Is(v, "paid")' <=> Is(v, "paid")
  BY <1>4, <1>10 DEF Is
<1> QED BY <1>1, <1>10, <1>12, <1>14, <1>15

-----------------------------------------------------------------------------
\* Every statement of every request keeps the invariant.
LEMMA NextKeeps ==
    ASSUME PlansOnly, IInv, [Next]_vars
    PROVE  IInv'
<1>1. CASE UNCHANGED vars
  <2>1. TypeOK'
    BY <1>1 DEF IInv, TypeOK, vars
  <2>2. Book1'
    BY <1>1 DEF IInv, Book1, Offers, LockedLives, PlanFirst, PendingFor, Is, vars
  <2>3. \A j \in Job : Mine(j)'
    <3> SUFFICES ASSUME NEW j \in Job PROVE Mine(j)'
      OBVIOUS
    <3>1. Mine(j)
      BY DEF IInv
    <3>2. /\ Itinerary(j)' <=> Itinerary(j)
          /\ InOrder(j)' <=> InOrder(j)
          /\ HasPlan(j)' <=> HasPlan(j)
      BY <1>1 DEF Itinerary, InOrder, HasPlan, OnePerPlan, Within, MyPlan, Op, ByPlan, vars
    <3>3. /\ Within(j)' <=> Within(j)
          /\ Walks(j)' <=> Walks(j)
          /\ Got(j)' <=> Got(j)
      BY <1>1 DEF Within, Walks, Got, Op, ByPlan, PendingFor, Is, vars
    <3> QED BY <3>1, <3>2, <3>3 DEF Mine
  <2> QED BY <2>1, <2>2, <2>3 DEF IInv
<1>2. CASE Next
  <2>1. PICK j \in Job : Step(j) \/ Abort(j)
    BY <1>2 DEF Next
  <2>2. UNCHANGED req
    BY <1>2 DEF Next
  <2>3. CASE Commit(j)
    <3>1. CASE CommitResolved(j)
      BY <2>2, <2>3, <3>1, CommitResolvedStep
    <3>2. CASE CommitEdit(j)
      BY <2>2, <2>3, <3>2, CommitEditStep
    <3>3. CASE CommitDeletion(j)
      BY <2>2, <2>3, <3>3, CommitDropStep
    <3> QED BY <2>3, <3>1, <3>2, <3>3 DEF Commit
  <2>4. CASE List(j)
    BY <2>2, <2>4, ListStep
  <2>5. CASE Begin(j)
    BY <2>2, <2>5, BeginStep
  <2>6. CASE Find(j)
    BY <2>2, <2>6, FindStep
  <2>7. CASE LockPlan(j)
    BY <2>2, <2>7, LockPlanStep
  <2>8. CASE LockTxn(j)
    BY <2>2, <2>8, LockTxnStep
  <2>9. CASE LockOwnPlan(j)
    BY <2>2, <2>9, LockOwnPlanStep
  <2>10. CASE Check(j)
    BY <2>2, <2>10, CheckStep
  <2>11. CASE FindPending(j)
    BY <2>2, <2>11, FindPendingStep
  <2>12. CASE LockPending(j)
    BY <2>2, <2>12, LockPendingStep
  <2>13. CASE Abort(j)
    BY <2>2, <2>13, AbortStep
  <2> QED BY <2>1, <2>3, <2>4, <2>5, <2>6, <2>7, <2>8, <2>9, <2>10, <2>11, <2>12, <2>13,
             NoUnbook DEF Step
<1> QED BY <1>1, <1>2

\* The invariant holds of the plan handlers, however many requests there are.
THEOREM Inductive ==
    ASSUME PlansOnly
    PROVE  Spec => []IInv
<1>1. Init => IInv
  BY Begins
<1>2. IInv /\ [Next]_vars => IInv'
  BY NextKeeps
<1> QED BY <1>1, <1>2, PTL DEF Spec

\* Types
THEOREM TypeCorrect ==
    ASSUME PlansOnly
    PROVE  Spec => []TypeOK
<1>1. IInv => TypeOK
  BY DEF IInv
<1> QED BY <1>1, Inductive, PTL

\* No plan has two pending occurrences.
LEMMA OnlyOne ==
    ASSUME IInv
    PROVE  OnePending
<1> SUFFICES ASSUME NEW p \in Plan PROVE Cardinality(PendingFor(p)) <= 1
  BY DEF OnePending
<1>1. CASE PendingFor(p) = {}
  BY <1>1, FS_EmptySet
<1>2. CASE PendingFor(p) # {}
  <2>1. PICK t \in PendingFor(p) : TRUE
    BY <1>2
  <2>2. Offers(p)
    BY DEF IInv, Book1
  <2>3. PendingFor(p) = {t}
    BY <2>1, <2>2 DEF Offers
  <2>4. Cardinality(PendingFor(p)) = 1
    BY <2>3, FS_Singleton
  <2> QED BY <2>4
<1> QED BY <1>1, <1>2

\* No plan ever has two pending occurrences, so idx_transactions_plan_pending is never hit.
THEOREM OnePendingAlways ==
    ASSUME PlansOnly
    PROVE  Spec => []OnePending
<1>1. IInv => OnePending
  BY OnlyOne
<1> QED BY <1>1, Inductive, PTL

-----------------------------------------------------------------------------
\* A waiting transaction is at the lock of its plan, or at that of an occurrence of
\* a plan that was deleted.
LEMMA WaitsAt ==
    ASSUME PlansOnly, IInv, NEW j \in Job, NEW k \in Job, Waits(j, k)
    PROVE  /\ job[j].pc \in {"plan", "txn"} /\ Within(j)
           /\ MyPlan(j) \in Plan /\ MyPlan(j) \in Nat
           /\ job[j].pc = "plan" => lock[P(MyPlan(j))] = k /\ plan[MyPlan(j)].live
           /\ job[j].pc = "txn" => /\ ~ plan[MyPlan(j)].live
                                   /\ \E t \in Txn : PlanOf(t) = MyPlan(j) /\ lock[T(t)] = k
<1>1. /\ job[j].pc \in {"plan", "advance", "txn", "row", "account", "txns", "plans"}
      /\ Within(j) /\ job[j].pc # "commit" /\ j # k /\ k # Nobody
  BY PlanLocksAssumption DEF Waits, Within, InTx
<1>2. /\ Walks(j) /\ HasPlan(j) /\ MyPlan(j) \in Plan /\ MyPlan(j) \in Nat
      /\ ByTxn(j) => \E t \in Txn : job[j].at = T(t) /\ MyPlan(j) = PlanOf(t)
      /\ Op(j) \in {"pay", "skip", "overdue", "edit", "drop"}
  BY <1>1, WithinFacts
<1>3. job[j].pc \in {"plan", "advance", "txn", "row"}
  BY <1>1, <1>2 DEF Walks
<1>4. lock[P(MyPlan(j))] = k => plan[MyPlan(j)].live
  BY <1>1, <1>2 DEF IInv, Book1, LockedLives
<1>5. CASE job[j].pc = "plan"
  <2>1. lock[P(MyPlan(j))] = k
    BY <1>5 DEF Waits
  <2> QED BY <1>1, <1>2, <1>4, <1>5, <2>1
<1>6. CASE job[j].pc = "advance"
  <2>1. lock[P(MyPlan(j))] = k
    BY <1>6 DEF Waits
  <2> QED BY <1>1, <1>2, <1>4, <1>6, <2>1 DEF HasPlan
<1>7. CASE job[j].pc = "txn"
  <2>1. ByTxn(j)
    BY <1>2, <1>7 DEF Walks, ByTxn
  <2>2. PICK t \in Txn : job[j].at = T(t) /\ MyPlan(j) = PlanOf(t)
    BY <1>2, <2>1
  <2>3. lock[T(t)] = k
    BY <1>7, <2>2 DEF Waits
  <2>4. plan[PlanOf(t)].live => lock[P(PlanOf(t))] = k
    BY <1>1, <2>3 DEF IInv, Book1, PlanFirst
  <2>5. ~ plan[MyPlan(j)].live
    BY <1>1, <1>2, <1>7, <2>2, <2>4 DEF HasPlan
  <2> QED BY <1>1, <1>2, <1>7, <2>2, <2>3, <2>5
<1>8. CASE job[j].pc = "row"
  <2>1. /\ lock[P(req[j].plan)] = j /\ plan[req[j].plan].live
        /\ \E t \in PendingFor(req[j].plan) : job[j].at = T(t)
    BY <1>1, <1>2, <1>8, OwnPending DEF Walks
  <2>2. PICK t \in Txn : PlanOf(t) = req[j].plan /\ job[j].at = T(t)
    BY <2>1 DEF PendingFor
  <2>3. lock[T(t)] = k
    BY <1>8, <2>2 DEF Waits
  <2>4. lock[P(PlanOf(t))] = k
    BY <1>1, <2>1, <2>2, <2>3 DEF IInv, Book1, PlanFirst
  <2> QED BY <1>1, <2>1, <2>2, <2>4
<1> QED BY <1>3, <1>5, <1>6, <1>7, <1>8

\* Who is waited for and waits is at a later plan.
LEMMA Rises ==
    ASSUME PlansOnly, IInv, NEW j \in Job, NEW k \in Job, NEW l \in Job,
           Waits(j, k), Waits(k, l)
    PROVE  MyPlan(j) < MyPlan(k)
<1>1. /\ job[j].pc \in {"plan", "txn"}
      /\ MyPlan(j) \in Plan /\ MyPlan(j) \in Nat
      /\ job[j].pc = "plan" => lock[P(MyPlan(j))] = k /\ plan[MyPlan(j)].live
      /\ job[j].pc = "txn" => \E t \in Txn : PlanOf(t) = MyPlan(j) /\ lock[T(t)] = k
  BY WaitsAt
<1>2. /\ job[k].pc \in {"plan", "txn"}
      /\ MyPlan(k) \in Nat
      /\ job[k].pc = "txn" => ~ plan[MyPlan(k)].live
  BY WaitsAt
<1>3. InOrder(k)
  BY DEF IInv, Mine
<1>4. CASE job[j].pc = "plan"
  <2>1. /\ MyPlan(j) <= MyPlan(k) /\ (job[k].pc = "plan" => MyPlan(j) < MyPlan(k))
    BY <1>1, <1>2, <1>3, <1>4 DEF InOrder
  <2>2. job[k].pc = "txn" => MyPlan(j) # MyPlan(k)
    BY <1>1, <1>2, <1>4
  <2> QED BY <1>1, <1>2, <2>1, <2>2
<1>5. CASE job[j].pc = "txn"
  BY <1>1, <1>2, <1>3, <1>5 DEF InOrder
<1> QED BY <1>1, <1>4, <1>5

\* So there is no circle of waiting transactions: its last plan would have a later one.
LEMMA NobodyStuck ==
    ASSUME PlansOnly, IInv
    PROVE  NoDeadlock
<1> SUFFICES ASSUME NEW S \in SUBSET Job, S # {}, \A j \in S : \E k \in S : Waits(j, k)
             PROVE  FALSE
  BY DEF NoDeadlock, Deadlocked
<1>1. PICK last \in Plan : last \in Nat /\ \A p \in Plan : p \in Nat /\ p <= last
  BY PlanLocksAssumption
<1>2. \A j \in S : MyPlan(j) \in Plan
  BY WaitsAt
<1> DEFINE Before == {last - MyPlan(j) : j \in S}
<1>3. Before \in SUBSET Nat /\ Before # {}
  <2>1. \A j \in S : MyPlan(j) \in Nat /\ MyPlan(j) <= last
    BY <1>1, <1>2
  <2>2. \A j \in S : last - MyPlan(j) \in Nat
    BY <1>1, <2>1
  <2> QED BY <2>2
<1>4. PICK m \in Before : \A n \in Before : m <= n
  <2> HIDE DEF Before
  <2> QED BY <1>3, Least
<1>5. PICK j \in S : m = last - MyPlan(j)
  BY <1>4
<1>6. PICK k \in S : Waits(j, k)
  OBVIOUS
<1>7. PICK l \in S : Waits(k, l)
  OBVIOUS
<1>8. MyPlan(j) < MyPlan(k)
  BY <1>6, <1>7, Rises
<1>9. last - MyPlan(k) \in Before
  BY <1>6
<1> HIDE DEF Before
<1>10. last - MyPlan(j) <= last - MyPlan(k)
  BY <1>4, <1>5, <1>9
<1>11. last \in Nat /\ MyPlan(j) \in Nat /\ MyPlan(k) \in Nat
  BY <1>1, <1>2
<1> QED BY <1>8, <1>10, <1>11

\* "the two orders can never deadlock" (planned.go:70-72), but for DeleteAccount.
THEOREM NeverDeadlocked ==
    ASSUME PlansOnly
    PROVE  Spec => []NoDeadlock
<1>1. IInv => NoDeadlock
  BY NobodyStuck
<1> QED BY <1>1, Inductive, PTL

-----------------------------------------------------------------------------
(***************************************************************************)
(* The refinement of PlanBook: each commit is one of its steps, the other  *)
(* statements none.                                                        *)
(***************************************************************************)
Paid(p) == {txn[t].due : t \in {u \in Txn : PlanOf(u) = p /\ Is(u, "paid")}}
Dues == [p \in Plan |-> Due(p)]
Pays == [p \in Plan |-> Paid(p)]

\* What a plan offers is due later than never.
LEMMA DueFacts ==
    ASSUME PlansOnly, IInv, NEW p \in Plan
    PROVE  /\ Due(p) \in Nat
           /\ \A t \in Txn : PendingFor(p) = {t} => Due(p) = txn[t].due /\ Due(p) # 0
<1>1. ASSUME NEW t \in Txn, PendingFor(p) = {t}
      PROVE  Due(p) = txn[t].due /\ Due(p) \in Nat /\ Due(p) # 0
  <2>1. Due(p) = txn[t].due
    BY <1>1 DEF Due
  <2>2. PlanOf(t) = p /\ Is(t, "pending")
    BY <1>1 DEF PendingFor
  <2>3. txn[t].due = plan[p].resolved + 1
    BY <2>2, PendingFacts
  <2>4. plan[p].resolved \in Nat
    BY DEF IInv, TypeOK, PlanRow
  <2> QED BY <2>1, <2>3, <2>4
<1>2. CASE PendingFor(p) = {}
  BY <1>1, <1>2 DEF Due
<1>3. CASE PendingFor(p) # {}
  <2>1. PICK t \in PendingFor(p) : TRUE
    BY <1>3
  <2>2. Offers(p) /\ t \in Txn
    BY <2>1 DEF IInv, Book1, PendingFor
  <2>3. PendingFor(p) = {t}
    BY <2>1, <2>2 DEF Offers
  <2> QED BY <1>1, <2>2, <2>3
<1> QED BY <1>2, <1>3

\* Where no occurrence is changed the book says the same.
LEMMA SameBook ==
    ASSUME NEW p \in Plan, \A t \in Txn : PlanOf(t) = p => txn'[t] = txn[t]
    PROVE  Due(p)' = Due(p) /\ Paid(p)' = Paid(p)
<1>1. PendingFor(p)' = PendingFor(p) /\ \A t \in PendingFor(p) : txn'[t] = txn[t]
  BY DEF PendingFor, Is
<1>2. Due(p)' = Due(p)
  BY <1>1 DEF Due
<1>3. Paid(p)' = Paid(p)
  BY DEF Paid, Is
<1> QED BY <1>2, <1>3

\* A plan that is advanced offers a later occurrence, after a payment the next; what
\* was on offer is paid, if that is what the request does.
LEMMA ResolvedBook ==
    ASSUME PlansOnly, IInv, NEW j \in Job, At(j, "commit"), CommitResolved(j),
           NEW p \in Advanced(j)
    PROVE  /\ Due(p) # 0 /\ Due(p)' \in Nat /\ Due(p)' > Due(p)
           /\ Op(j) # "overdue" => Due(p)' = Due(p) + 1
           /\ Paid(p)' = IF Op(j) = "pay" THEN Paid(p) \cup {Due(p)} ELSE Paid(p)
<1>1. PICK t \in Txn, m \in Nat :
                 /\ T(t) \in job[j].got /\ PendingFor(p) = {t} /\ lock[P(p)] = j
                 /\ m >= txn[t].due /\ (Op(j) # "overdue" => m = txn[t].due)
                 /\ plan'[p] = [plan[p] EXCEPT !.resolved = m]
                 /\ txn'[NewRow(p)] = Pending(m + 1, plan[p].account)
                 /\ txn'[t] = IF Op(j) = "pay"
                              THEN [state |-> "paid", due |-> txn[t].due, account |-> BookedOn(j)]
                              ELSE Gone(t)
                 /\ \A v \in Txn : PlanOf(v) = p /\ v # t /\ v # NewRow(p) => txn'[v] = txn[v]
  BY ResolvedFacts
<1>2. p \in Plan /\ Offers(p) /\ plan[p] \in PlanRow /\ txn[t] \in TxnRow
  BY ResolvedFacts DEF IInv, Book1, TypeOK
<1>3. PICK u \in Txn : u = NewRow(p) /\ PlanOf(u) = p /\ Is(u, "none")
  BY <1>2, NewRowFacts
<1>4. PlanOf(t) = p /\ Is(t, "pending") /\ plan[p].live
  <2>1. t \in PendingFor(p)
    BY <1>1
  <2> QED BY <2>1, <1>2 DEF PendingFor, Offers
<1>5. plan'[p].live /\ plan'[p].resolved = m
  BY <1>1, <1>2, <1>4 DEF PlanRow
<1>6. /\ txn'[u].state = "pending" /\ txn'[u].due = m + 1
      /\ txn'[t].due = txn[t].due
      /\ txn'[t].state = IF Op(j) = "pay" THEN "paid" ELSE "deleted"
  BY <1>1, <1>2, <1>3 DEF Pending, Gone, TxnRow
<1>7. \A v \in Txn : PlanOf(v) = p /\ v # t /\ v # u => txn'[v] = txn[v]
  BY <1>1, <1>3
<1>8. PendingFor(p)' = {u}
  BY <1>1, <1>2, <1>3, <1>5, <1>6, <1>7, Succeeds DEF Is
<1>9. Due(p)' = m + 1
  BY <1>6, <1>8 DEF Due
<1>10. Due(p) = txn[t].due /\ Due(p) \in Nat /\ Due(p) # 0
  BY <1>1, <1>2, DueFacts
<1>11. Paid(p)' = IF Op(j) = "pay" THEN Paid(p) \cup {Due(p)} ELSE Paid(p)
  <2>1. \A v \in Txn : PlanOf(v) = p /\ txn'[v].state = "paid"
                        => (txn[v].state = "paid" /\ txn'[v].due = txn[v].due)
                              \/ (v = t /\ Op(j) = "pay")
    BY <1>6, <1>7
  <2>2. \A v \in Txn : PlanOf(v) = p /\ txn[v].state = "paid"
                        => txn'[v].state = "paid" /\ txn'[v].due = txn[v].due
    BY <1>3, <1>4, <1>7 DEF Is
  <2>3. CASE Op(j) = "pay"
    BY <1>4, <1>6, <1>10, <2>1, <2>2, <2>3 DEF Paid, Is
  <2>4. CASE Op(j) # "pay"
    BY <2>1, <2>2, <2>4 DEF Paid, Is
  <2> QED BY <2>3, <2>4
<1> QED BY <1>1, <1>9, <1>10, <1>11

\* At first each plan offers its first occurrence and none is paid.
LEMMA BookInit ==
    ASSUME PlansOnly, Init
    PROVE  Book!Init
<1>1. IInv
  BY Begins
<1>2. PICK a \in [Plan -> Account] :
        /\ plan = [p \in Plan |-> [live |-> TRUE, resolved |-> 0, account |-> a[p]]]
        /\ txn = [t \in Txn |-> [state |-> IF t[2] = 1 THEN "pending" ELSE "none",
                                 due |-> IF t[2] = 1 THEN 1 ELSE 0,
                                 account |-> a[PlanOf(t)]]]
  BY DEF Init
<1>3. ASSUME NEW p \in Plan PROVE Due(p) \in Nat \ {0}
  <2>1. plan[p].live /\ Offers(p)
    BY <1>1, <1>2, <1>3 DEF IInv, Book1
  <2>2. PICK t \in PendingFor(p) : TRUE
    BY <2>1 DEF Offers
  <2>3. t \in Txn /\ PendingFor(p) = {t}
    BY <2>1, <2>2 DEF Offers, PendingFor
  <2> QED BY <1>1, <2>3, DueFacts
<1>4. ASSUME NEW p \in Plan PROVE Paid(p) = {}
  BY <1>2 DEF Paid, Is
<1> QED BY <1>3, <1>4 DEF Book!Init, Paid

\* A commit is a payment, skips, a deletion or, of an edit, nothing to the book.
LEMMA BookStep ==
    ASSUME PlansOnly, IInv, [Next]_vars
    PROVE  Book!Next \/ UNCHANGED <<Dues, Pays>>
<1>1. CASE txn' = txn
  <2>1. \A p \in Plan : Due(p)' = Due(p) /\ Paid(p)' = Paid(p)
    BY <1>1, SameBook
  <2> QED BY <2>1 DEF Dues, Pays
<1>2. ASSUME NEW j \in Job, Commit(j), CommitResolved(j), UNCHANGED req
      PROVE  Book!Next \/ UNCHANGED <<Dues, Pays>>
  <2> DEFINE S == Advanced(j)
  <2>1. /\ At(j, "commit") /\ Walks(j) /\ Op(j) \in {"pay", "skip", "overdue"}
    BY <1>2, CommitFacts DEF CommitResolved
  <2>2. S \in SUBSET Plan /\ \A t \in Txn : PlanOf(t) \notin S => txn'[t] = txn[t]
    BY <1>2, <2>1, ResolvedFacts
  <2>3. \A p \in Plan \ S : Due(p)' = Due(p) /\ Paid(p)' = Paid(p)
    BY <2>2, SameBook
  <2>4. \A p \in S : /\ Due(p) # 0 /\ Due(p)' \in Nat /\ Due(p)' > Due(p)
                     /\ Op(j) # "overdue" => Due(p)' = Due(p) + 1
                     /\ Paid(p)' = IF Op(j) = "pay" THEN Paid(p) \cup {Due(p)} ELSE Paid(p)
    BY <1>2, <2>1, ResolvedBook
  <2>5. \A p \in Plan : Due(p)' \in Nat
    BY <2>3, <2>4, DueFacts
  <2>6. CASE Op(j) # "pay"
    <3> HIDE DEF S
    <3>1. \A p \in Plan : Paid(p)' = Paid(p)
      BY <2>3, <2>4, <2>6
    <3>2. Book!Skip(S)
      BY <2>2, <2>3, <2>4, <2>5, <3>1 DEF Book!Skip, Paid
    <3> QED BY <2>2, <3>2 DEF Book!Next
  <2>7. CASE Op(j) = "pay" /\ S = {}
    <3>1. \A p \in Plan : Due(p)' = Due(p) /\ Paid(p)' = Paid(p)
      BY <2>3, <2>7
    <3> QED BY <3>1 DEF Dues, Pays
  <2>8. CASE Op(j) = "pay" /\ S # {}
    <3>1. PICK p \in S : TRUE
      BY <2>8
    <3>2. S = {p} /\ p \in Plan
      BY <2>1, <2>2, <2>8, <3>1, RowFacts DEF Advanced, Walks
    <3> HIDE DEF S
    <3>3. /\ Due(p) # 0 /\ Due(p)' = Due(p) + 1 /\ Paid(p)' = Paid(p) \cup {Due(p)}
          /\ \A q \in Plan : q # p => Due(q)' = Due(q) /\ Paid(q)' = Paid(q)
      BY <2>3, <2>4, <2>8, <3>2
    <3>4. /\ Dues[p] # 0 /\ Dues' = [Dues EXCEPT ![p] = @ + 1]
          /\ Pays' = [Pays EXCEPT ![p] = @ \cup {Dues[p]}]
      <4>1. Dues[p] = Due(p) /\ Pays[p] = Paid(p)
        BY <3>2 DEF Dues, Pays
      <4>2. \A q \in Plan : Due(q)' = IF q = p THEN Dues[p] + 1 ELSE Dues[q]
        BY <3>3, <4>1 DEF Dues
      <4>3. \A q \in Plan : Paid(q)' = IF q = p THEN Pays[p] \cup {Dues[p]} ELSE Pays[q]
        BY <3>3, <4>1 DEF Pays
      <4> QED BY <3>2, <3>3, <4>1, <4>2, <4>3 DEF Dues, Pays
    <3>5. Book!Pay(p)
      BY <3>4 DEF Book!Pay, Dues, Pays, Paid
    <3> QED BY <3>2, <3>5 DEF Book!Next
  <2> QED BY <2>6, <2>7, <2>8
<1>3. ASSUME NEW j \in Job, Commit(j), CommitEdit(j), UNCHANGED req
      PROVE  UNCHANGED <<Dues, Pays>>
  <2>1. /\ \A p \in Plan : PendingFor(p)' = PendingFor(p)
        /\ \A t \in Txn : txn'[t].state = txn[t].state /\ txn'[t].due = txn[t].due
    BY <1>3, CommitEditStep
  <2>2. \A p \in Plan : PendingFor(p) \subseteq Txn
    BY DEF PendingFor
  <2>3. \A p \in Plan : Due(p)' = Due(p)
    BY <2>1, <2>2 DEF Due
  <2>4. \A p \in Plan : Paid(p)' = Paid(p)
    BY <2>1 DEF Paid, Is
  <2> QED BY <2>3, <2>4 DEF Dues, Pays
<1>4. ASSUME NEW j \in Job, Commit(j), CommitDeletion(j), UNCHANGED req
      PROVE  Book!Next
  <2>1. /\ \A t \in Txn : /\ txn'[t].due = txn[t].due
                          /\ Is(t, "paid")' <=> Is(t, "paid")
        /\ \E p \in Plan : /\ PendingFor(p)' = {}
                           /\ \A q \in Plan \ {p} : PendingFor(q)' = PendingFor(q)
    BY <1>4, CommitDropStep
  <2>2. PICK p \in Plan : /\ PendingFor(p)' = {}
                          /\ \A q \in Plan \ {p} : PendingFor(q)' = PendingFor(q)
    BY <2>1
  <2>3. \A q \in Plan : PendingFor(q) \subseteq Txn
    BY DEF PendingFor
  <2>4. Due(p)' = 0 /\ \A q \in Plan : q # p => Due(q)' = Due(q)
    <3>1. Due(p)' = 0
      BY <2>2 DEF Due
    <3>2. ASSUME NEW q \in Plan, q # p PROVE Due(q)' = Due(q)
      <4>1. PendingFor(q)' = PendingFor(q) /\ \A t \in PendingFor(q) : txn'[t].due = txn[t].due
        BY <2>1, <2>2, <2>3, <3>2
      <4> QED BY <4>1 DEF Due
    <3> QED BY <3>1, <3>2
  <2>5. \A q \in Plan : Paid(q)' = Paid(q)
    <3>1. \A t \in Txn : /\ txn'[t].due = txn[t].due
                         /\ txn'[t].state = "paid" <=> txn[t].state = "paid"
      BY <2>1 DEF Is
    <3> QED BY <3>1 DEF Paid, Is
  <2>6. Book!Drop(p)
    BY <2>4, <2>5 DEF Book!Drop, Paid
  <2> QED BY <2>6 DEF Book!Next
<1>5. CASE UNCHANGED vars
  BY <1>1, <1>5 DEF vars
<1>6. CASE Next
  <2>1. PICK j \in Job : Step(j) \/ Abort(j)
    BY <1>6 DEF Next
  <2>2. UNCHANGED req
    BY <1>6 DEF Next
  <2>3. CASE Commit(j)
    BY <1>2, <1>3, <1>4, <2>2, <2>3 DEF Commit
  <2>4. CASE ~ Commit(j)
    <3>1. txn' = txn
      BY <2>1, <2>4 DEF Step, List, Begin, Find, LockPlan, LockTxn, LockOwnPlan, Check,
            FindPending, LockPending, LockAccount, UpdateRows, Abort, data
    <3> QED BY <1>1, <3>1
  <2> QED BY <2>3, <2>4
<1> QED BY <1>5, <1>6

\* The plan handlers, statement by statement, do what PlanBook says: "a concurrent
\* pay/skip is never undone" (planned.go:671).
THEOREM HandlersAreSerial ==
    ASSUME PlansOnly
    PROVE  Spec => Serial
<1>1. Init => Book!Init
  BY BookInit
<1>2. IInv /\ [Next]_vars => [Book!Next]_<<Dues, Pays>>
  BY BookStep
<1>3. Spec => Book!Spec
  BY <1>1, <1>2, Inductive, PTL DEF Spec, Book!Spec, Dues, Pays, Paid
<1> QED BY <1>3, TypeCorrect, OnePendingAlways, PTL DEF Serial
=============================================================================
