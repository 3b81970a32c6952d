------------------------------- MODULE Debts -------------------------------
(***************************************************************************)
(* debts.Simplify (internal/debts/simplify.go): from the balances of a     *)
(* group's members to the payments that settle them.  The greedy loop is   *)
(* one action per iteration.                                               *)
(*                                                                         *)
(* The sorted lists of creditors and debtors are kept as what each is      *)
(* still owed or still owes: `left` is the entry's amount, and the loop's  *)
(* indices i and j point at the first entry, in sorting order, with        *)
(* something left.  Sorting goes by the amount an entry had at first, so   *)
(* `balance`, which nothing changes, gives the order.                      *)
(***************************************************************************)
EXTENDS Integers, FiniteSets, Functions

CONSTANTS
    User,      \* members, as numbers: their order is that of the UUID strings
    MaxAmount  \* bound: the largest balance, up or down

ASSUME DebtsAssumption == User \subseteq Int /\ IsFiniteSet(User) /\ MaxAmount \in Nat

VARIABLES
    balance,  \* [User -> Int], the argument
    left,     \* [User -> Nat], the amounts of creditors and debtors
    debts     \* the payments found: from, to and amount

vars == <<balance, left, debts>>

Debt == [from : User, to : User, amount : Nat \ {0}]

Magnitude(a) == IF a < 0 THEN -a ELSE a

Creditors == {u \in User : balance[u] > 0}
\* Broken: who owes the smallest unit owes nothing
MoreThanACent == {u \in User : balance[u] < -1}
Debtors   == {u \in User : balance[u] < 0}

\* less: by amount, the largest first, then by UUID
Before(u, v) ==
    \/ Magnitude(balance[u]) > Magnitude(balance[v])
    \/ Magnitude(balance[u]) = Magnitude(balance[v]) /\ u <= v

\* The entry the loop's index points at
IsHead(u, list) == u \in list /\ left[u] > 0
                     /\ \A v \in list : left[v] > 0 => Before(u, v)

\* Any balances: computeBalances hands over what it read, and GroupLedger shows
\* that this need not add up to zero.
Init ==
    /\ balance \in [User -> -MaxAmount..MaxAmount]
    /\ left = [u \in User |-> Magnitude(balance[u])]
    /\ debts = {}

\* The smaller of the two amounts
Payment(c, d) == IF left[d] < left[c] THEN left[d] ELSE left[c]

\* What is taken off the two entries; broken: the debtor is done with at once,
\* or the creditor's entry is a copy and keeps its amount.
Forgiven(c, d, amt) == [left EXCEPT ![c] = @ - amt, ![d] = 0]
Copied(c, d, amt) == [left EXCEPT ![d] = @ - amt]
Charged(c, d, amt) == [left EXCEPT ![c] = @ - amt, ![d] = @ - amt]

\* One iteration of the loop
Pair(c, d) ==
    /\ IsHead(c, Creditors) /\ IsHead(d, Debtors)
    /\ LET amt == Payment(c, d)
       IN  /\ debts' = debts \cup {[from |-> d, to |-> c, amount |-> amt]}
           /\ left' = Charged(c, d, amt)
    /\ UNCHANGED balance

Next == \E c, d \in User : Pair(c, d)

\* A sequential function: it goes on until the loop's condition fails.
Spec == Init /\ [][Next]_vars /\ WF_vars(Next)

-----------------------------------------------------------------------------
TypeOK ==
    /\ balance \in [User -> Int]
    /\ left \in [User -> Nat]
    /\ debts \subseteq Debt

Out(u) == SumFunction([d \in {x \in debts : x.from = u} |-> d.amount])
In(u)  == SumFunction([d \in {x \in debts : x.to = u} |-> d.amount])

\* No money is made or lost on the way: what a member pays and still owes, or is
\* paid and is still owed, is the balance.
Conserved ==
    \A u \in User : IF balance[u] > 0 THEN In(u) + left[u] = balance[u] /\ Out(u) = 0
                    ELSE Out(u) + left[u] = -balance[u] /\ In(u) = 0

\* "At most n-1 debts for n participants with non-zero balances" (simplify.go:26),
\* also when the balances do not add up to zero.
FewDebts ==
    LET n == Cardinality(Creditors \cup Debtors)
    IN  Cardinality(debts) <= IF n = 0 THEN 0 ELSE n - 1

\* The loop ends, and balances that add up to zero are then all settled; of others
\* at least the creditors or the debtors are.
Settles ==
    <>[] /\ \/ \A c \in Creditors : left[c] = 0
            \/ \A d \in Debtors : left[d] = 0
         /\ SumFunction(balance) = 0 => \A u \in User : left[u] = 0
=============================================================================
