---------------------------- MODULE DebtsProofs ----------------------------
(***************************************************************************)
(* Proofs about Debts, for any members and any balances.  FewDebts counts: *)
(* an iteration adds at most one payment and settles at least one entry,   *)
(* so payments and open entries together never exceed the members with a   *)
(* balance.  The last payment of all settles two entries at once, which is *)
(* where the bound of n - 1 comes from.  Conserved needs that no payment   *)
(* is made twice, which a set of payments would lose: one of its two       *)
(* entries is closed (PaidOnce).                                           *)
(***************************************************************************)
EXTENDS Debts, Sequences, SumTheorems

Open == {u \in Creditors \cup Debtors : left[u] > 0}

\* Payments and open entries, against all members with a balance
Counted ==
    /\ IsFiniteSet(debts)
    /\ Cardinality(debts) + Cardinality(Open) <= Cardinality(Creditors \cup Debtors)
    /\ Open = {} => \/ debts = {}
                    \/ Cardinality(debts) + 1 <= Cardinality(Creditors \cup Debtors)

Inv == TypeOK /\ Counted

\* What an iteration pays: something, and at most what each of the two has left.
LEMMA PaymentSettles ==
  ASSUME TypeOK, NEW c \in User, NEW d \in User, left[c] > 0, left[d] > 0
  PROVE  /\ Payment(c, d) \in Nat \ {0}
         /\ Payment(c, d) <= left[c]
         /\ Payment(c, d) <= left[d]
         /\ Payment(c, d) = left[c] \/ Payment(c, d) = left[d]
  BY DEF TypeOK, Payment

\* The balances a simplification starts from have the type.
LEMMA TypeInit == Init => TypeOK
<1> SUFFICES ASSUME Init PROVE TypeOK
  OBVIOUS
<1>1. balance \in [User -> Int]
  BY DebtsAssumption DEF Init
<1>2. \A u \in User : Magnitude(balance[u]) \in Nat
  BY <1>1 DEF Magnitude
<1>3. QED
  BY <1>1, <1>2 DEF Init, TypeOK

\* A payment keeps the type: of two entries with something left both are members, and
\* nobody ends below nothing.
LEMMA TypeStep ==
  ASSUME TypeOK, NEW c \in User, NEW d \in User, Pair(c, d)
  PROVE  TypeOK'
<1> DEFINE amt == Payment(c, d)
<1>1. left[c] > 0 /\ left[d] > 0
  BY DEF Pair, IsHead
<1>2. amt \in Nat \ {0} /\ amt <= left[c] /\ amt <= left[d]
  BY <1>1, PaymentSettles
<1>3. left' = Charged(c, d, amt) /\ balance' = balance
      /\ debts' = debts \cup {[from |-> d, to |-> c, amount |-> amt]}
  BY DEF Pair
<1> HIDE DEF amt
<1>4. c # d
  BY DebtsAssumption DEF Pair, IsHead, Creditors, Debtors, TypeOK
<1>5. left' \in [User -> Nat]
  BY <1>2, <1>3, <1>4 DEF Charged, TypeOK
<1>6. debts' \subseteq Debt
  BY <1>2, <1>3 DEF TypeOK, Debt
<1>7. QED
  BY <1>3, <1>5, <1>6 DEF TypeOK

\* At first there are no payments, and no more open entries than members with a balance.
LEMMA CountedInit == Init => Counted
<1> SUFFICES ASSUME Init PROVE Counted
  OBVIOUS
<1> DEFINE Nonzero == Creditors \cup Debtors
<1>1. IsFiniteSet(Nonzero) /\ Open \subseteq Nonzero
  BY DebtsAssumption, FS_Subset DEF Creditors, Debtors, Open
<1>2. Cardinality(Open) <= Cardinality(Nonzero)
      /\ Cardinality(Open) \in Nat /\ Cardinality(Nonzero) \in Nat
  BY <1>1, FS_Subset, FS_CardinalityType
<1>3. debts = {} /\ IsFiniteSet({}) /\ Cardinality({}) = 0
  BY FS_EmptySet DEF Init
<1>4. QED
  BY <1>2, <1>3 DEF Counted

\* A payment closes an entry, or is the last and closes two.
LEMMA CountedStep ==
  ASSUME Inv, NEW c \in User, NEW d \in User, Pair(c, d)
  PROVE  Counted'
<1> DEFINE amt == Payment(c, d)
           e == [from |-> d, to |-> c, amount |-> amt]
           n == Cardinality(Creditors \cup Debtors)
<1>1. /\ left[c] > 0 /\ left[d] > 0
      /\ c \in Open /\ d \in Open /\ c # d
  BY DebtsAssumption DEF Pair, IsHead, Open, Creditors, Debtors, Inv, TypeOK
<1>2. /\ amt \in Nat \ {0} /\ amt <= left[c] /\ amt <= left[d]
      /\ amt = left[c] \/ amt = left[d]
  BY <1>1, PaymentSettles DEF Inv
<1>3. left' = Charged(c, d, amt) /\ debts' = debts \cup {e} /\ balance' = balance
  BY DEF Pair
<1>4. Creditors' = Creditors /\ Debtors' = Debtors
  BY <1>3 DEF Creditors, Debtors
<1>5. IsFiniteSet(Open) /\ IsFiniteSet(Creditors \cup Debtors)
  BY DebtsAssumption, FS_Subset DEF Creditors, Debtors, Open
<1>6. IsFiniteSet(debts') /\ Cardinality(debts') <= Cardinality(debts) + 1
  <2>1. Cardinality(debts) \in Nat
    BY FS_CardinalityType DEF Inv, Counted
  <2> HIDE DEF e
  <2>2. QED
    BY <1>3, <2>1, FS_AddElement DEF Inv, Counted
<1> HIDE DEF amt, e
<1>7. Open' = {u \in Open : left'[u] > 0}
  BY <1>2, <1>3, <1>4 DEF Open, Charged, Inv, TypeOK, Creditors, Debtors
<1>8. /\ left'[c] = left[c] - amt /\ left'[d] = left[d] - amt
      /\ \A u \in User \ {c, d} : left'[u] = left[u]
  BY <1>1, <1>2, <1>3 DEF Charged, Inv, TypeOK
<1>9. /\ Cardinality(debts) \in Nat /\ Cardinality(debts') \in Nat
      /\ Cardinality(Open) \in Nat /\ n \in Nat
  BY <1>5, <1>6, FS_CardinalityType DEF Inv, Counted
<1>10. /\ IsFiniteSet(Open \ {c}) /\ Cardinality(Open \ {c}) = Cardinality(Open) - 1
       /\ IsFiniteSet(Open \ {d}) /\ Cardinality(Open \ {d}) = Cardinality(Open) - 1
       /\ Cardinality((Open \ {c}) \ {d}) = Cardinality(Open) - 2
       /\ Cardinality(Open) >= 2
  <2>1. /\ IsFiniteSet(Open \ {c}) /\ Cardinality(Open \ {c}) = Cardinality(Open) - 1
        /\ IsFiniteSet(Open \ {d}) /\ Cardinality(Open \ {d}) = Cardinality(Open) - 1
    BY <1>1, <1>5, FS_RemoveElement
  <2>2. d \in Open \ {c}
    BY <1>1
  <2>3. Cardinality((Open \ {c}) \ {d}) = Cardinality(Open \ {c}) - 1
    BY <2>1, <2>2, FS_RemoveElement
  <2>4. Cardinality((Open \ {c}) \ {d}) \in Nat
    BY <2>1, FS_RemoveElement, FS_CardinalityType
  <2>5. QED
    BY <1>9, <2>1, <2>3, <2>4
<1>11. \A u \in Open \ {c, d} : left'[u] > 0
  BY <1>8 DEF Open, Creditors, Debtors
<1>12. CASE left[c] = amt /\ left[d] = amt
  <2>1. left'[c] = 0 /\ left'[d] = 0
    BY <1>8, <1>12, <1>2
  <2>2. Open' = (Open \ {c}) \ {d}
    BY <1>7, <1>11, <2>1
  <2>3. Cardinality(debts') + 1 <= n /\ Cardinality(debts') + Cardinality(Open') <= n
    BY <1>6, <1>9, <1>10, <2>2 DEF Inv, Counted
  <2>4. QED
    BY <1>4, <1>6, <2>3 DEF Counted
<1>13. CASE left[c] = amt /\ left[d] # amt
  <2>1. left'[c] = 0 /\ left'[d] > 0
    BY <1>8, <1>13, <1>2 DEF Inv, TypeOK
  <2>2. Open' = Open \ {c} /\ d \in Open'
    BY <1>1, <1>7, <1>11, <2>1
  <2>3. Cardinality(debts') + Cardinality(Open') <= n
    BY <1>6, <1>9, <1>10, <2>2 DEF Inv, Counted
  <2>4. QED
    BY <1>4, <1>6, <2>2, <2>3 DEF Counted
<1>14. CASE left[c] # amt /\ left[d] = amt
  <2>1. left'[c] > 0 /\ left'[d] = 0
    BY <1>8, <1>14, <1>2 DEF Inv, TypeOK
  <2>2. Open' = Open \ {d} /\ c \in Open'
    BY <1>1, <1>7, <1>11, <2>1
  <2>3. Cardinality(debts') + Cardinality(Open') <= n
    BY <1>6, <1>9, <1>10, <2>2 DEF Inv, Counted
  <2>4. QED
    BY <1>4, <1>6, <2>2, <2>3 DEF Counted
<1>15. QED
  BY <1>2, <1>12, <1>13, <1>14

\* Every step keeps the invariant.
LEMMA InvStep == Inv /\ [Next]_vars => Inv'
<1> SUFFICES ASSUME Inv, [Next]_vars PROVE Inv'
  OBVIOUS
<1>1. ASSUME NEW c \in User, NEW d \in User, Pair(c, d) PROVE Inv'
  BY <1>1, TypeStep, CountedStep DEF Inv
<1>2. CASE UNCHANGED vars
  BY <1>2 DEF vars, Inv, TypeOK, Counted, Open, Creditors, Debtors
<1>3. QED
  BY <1>1, <1>2 DEF Next

\* The invariant and its parts hold of every execution, whatever the balances.
THEOREM Inductive == Spec => []Inv
<1>1. Init => Inv
  BY TypeInit, CountedInit DEF Inv
<1>2. QED
  BY <1>1, InvStep, PTL DEF Spec

\* No amount goes below zero and no payment is of nothing, for any balances.
THEOREM TypeCorrect == Spec => []TypeOK
<1>1. Inv => TypeOK
  BY DEF Inv
<1>2. QED
  BY Inductive, <1>1, PTL

\* At most one payment less than there are members with a balance, for any number
\* of members and any balances, those that do not add up to zero included.
THEOREM FewPayments == Spec => []FewDebts
<1>1. Inv => FewDebts
  <2> SUFFICES ASSUME Inv PROVE FewDebts
    OBVIOUS
  <2> DEFINE n == Cardinality(Creditors \cup Debtors)
  <2>1. IsFiniteSet(Open) /\ IsFiniteSet(Creditors \cup Debtors)
    BY DebtsAssumption, FS_Subset DEF Creditors, Debtors, Open
  <2>2. Cardinality(debts) \in Nat /\ Cardinality(Open) \in Nat /\ n \in Nat
    BY <2>1, FS_CardinalityType DEF Inv, Counted
  <2>3. CASE Open = {}
    <3>1. Cardinality({}) = 0
      BY FS_EmptySet
    <3>2. QED
      BY <2>2, <2>3, <3>1 DEF Inv, Counted, FewDebts
  <2>4. CASE Open # {}
    <3>1. Cardinality(Open) # 0
      BY <2>1, <2>4, FS_EmptySet
    <3>2. QED
      BY <2>2, <3>1 DEF Inv, Counted, FewDebts
  <2>5. QED
    BY <2>3, <2>4
<1>2. QED
  BY Inductive, <1>1, PTL

-----------------------------------------------------------------------------
\* No payment is found twice: it closes an entry of whoever pays or is paid.
PaidOnce == \A x \in debts : left[x.from] = 0 \/ left[x.to] = 0

MoneyInv == Inv /\ PaidOnce /\ Conserved

Sum(D) == SumFunction([x \in D |-> x.amount])

\* One more payment adds its amount.
LEMMA OneMore ==
  ASSUME NEW D, IsFiniteSet(D), D \subseteq Debt, NEW e \in Debt, e \notin D
  PROVE  Sum(D \cup {e}) = e.amount + Sum(D) /\ Sum(D) \in Int
<1> DEFINE T == D \cup {e}
           f == [x \in T |-> x.amount]
           g == [x \in D |-> x.amount]
<1>1. \A x \in Debt : x.amount \in Int
  BY DEF Debt
<1>2. IsFiniteSet(D \cup {e})
  BY FS_AddElement
<1>3. IntegersOn(f, T) /\ IntegersOn(g, D)
  BY <1>1, <1>2 DEF IntegersOn
<1>4. (\A y \in D : f[y] = g[y]) /\ f[e] = e.amount /\ e \notin D
  OBVIOUS
<1>7. T = D \cup {e}
  OBVIOUS
<1> HIDE DEF T, f, g
<1>5. SumFunction(f) = f[e] + SumFunction(g)
  BY <1>3, <1>4, <1>7, SumAdds
<1>6. SumFunction(g) \in Int
  BY <1>3, SumIsInt
<1> QED BY <1>4, <1>5, <1>6 DEF Sum, T, f, g

\* Nothing is paid at first, and what is left is the balance.
LEMMA MoneyInit == Init => PaidOnce /\ Conserved
<1> SUFFICES ASSUME Init PROVE PaidOnce /\ Conserved
  OBVIOUS
<1>1. debts = {} /\ balance \in [User -> Int] /\ left = [u \in User |-> Magnitude(balance[u])]
  BY DebtsAssumption DEF Init
<1>2. \A u \in User : Out(u) = 0 /\ In(u) = 0
  <2> SUFFICES ASSUME NEW u \in User PROVE Out(u) = 0 /\ In(u) = 0
    OBVIOUS
  <2>1. {x \in debts : x.from = u} = {} /\ {x \in debts : x.to = u} = {}
    BY <1>1
  <2> QED BY <2>1, SumOfNothing DEF Out, In
<1> QED BY <1>1, <1>2 DEF PaidOnce, Conserved, Magnitude

\* An iteration moves one amount: the debtor has paid it, the creditor been paid it.
LEMMA Moves ==
  ASSUME Inv, PaidOnce, NEW c \in User, NEW d \in User, Pair(c, d)
  PROVE  /\ \A u \in User : Out(u)' = Out(u) + (IF u = d THEN Payment(c, d) ELSE 0)
         /\ \A u \in User : In(u)' = In(u) + (IF u = c THEN Payment(c, d) ELSE 0)
         /\ \A u \in User : Out(u) \in Int /\ In(u) \in Int
<1> DEFINE amt == Payment(c, d)
           e == [from |-> d, to |-> c, amount |-> amt]
<1>1. left[c] > 0 /\ left[d] > 0
  BY DEF Pair, IsHead
<1>2. amt \in Nat \ {0}
  BY <1>1, PaymentSettles DEF Inv
<1>3. e \in Debt /\ debts' = debts \cup {e} /\ e.from = d /\ e.to = c /\ e.amount = amt
  BY <1>2 DEF Pair, Debt
<1> HIDE DEF amt, e
<1>4. e \notin debts
  BY <1>1, <1>3 DEF PaidOnce, Inv, TypeOK
<1>5. IsFiniteSet(debts) /\ debts \subseteq Debt
  BY DEF Inv, TypeOK, Counted
<1>6. ASSUME NEW u \in User
      PROVE  Out(u)' = Out(u) + (IF u = d THEN amt ELSE 0) /\ Out(u) \in Int
  <2> DEFINE D == {x \in debts : x.from = u}
  <2>1. IsFiniteSet(D) /\ D \subseteq Debt /\ e \notin D
    BY <1>4, <1>5, FS_Subset
  <2>2. Out(u) = Sum(D)
    BY DEF Out, Sum
  <2>6.  Out(u)' = Sum({x \in debts' : x.from = u})
    BY DEF Out, Sum
  <2>3. {x \in debts' : x.from = u} = IF u = d THEN D \cup {e} ELSE D
    BY <1>3
  <2> HIDE DEF D
  <2>4. Sum(D \cup {e}) = amt + Sum(D) /\ Sum(D) \in Int
    BY <1>3, <2>1, OneMore
  <2>5. Sum(IF u = d THEN D \cup {e} ELSE D) = Sum(D) + (IF u = d THEN amt ELSE 0)
    BY <1>2, <2>4
  <2> QED BY <2>2, <2>6, <2>3, <2>4, <2>5
<1>7. ASSUME NEW u \in User
      PROVE  In(u)' = In(u) + (IF u = c THEN amt ELSE 0) /\ In(u) \in Int
  <2> DEFINE D == {x \in debts : x.to = u}
  <2>1. IsFiniteSet(D) /\ D \subseteq Debt /\ e \notin D
    BY <1>4, <1>5, FS_Subset
  <2>2. In(u) = Sum(D)
    BY DEF In, Sum
  <2>6.  In(u)' = Sum({x \in debts' : x.to = u})
    BY DEF In, Sum
  <2>3. {x \in debts' : x.to = u} = IF u = c THEN D \cup {e} ELSE D
    BY <1>3
  <2> HIDE DEF D
  <2>4. Sum(D \cup {e}) = amt + Sum(D) /\ Sum(D) \in Int
    BY <1>3, <2>1, OneMore
  <2>5. Sum(IF u = c THEN D \cup {e} ELSE D) = Sum(D) + (IF u = c THEN amt ELSE 0)
    BY <1>2, <2>4
  <2> QED BY <2>2, <2>6, <2>3, <2>4, <2>5
<1> QED BY <1>6, <1>7 DEF amt

\* A payment takes from what its two members have left exactly what it moves.
LEMMA MoneyStep ==
  ASSUME Inv, PaidOnce, Conserved, NEW c \in User, NEW d \in User, Pair(c, d)
  PROVE  PaidOnce' /\ Conserved'
<1> DEFINE amt == Payment(c, d)
<1>1. left[c] > 0 /\ left[d] > 0 /\ balance[c] > 0 /\ balance[d] < 0
  BY DEF Pair, IsHead, Creditors, Debtors
<1>2. /\ amt \in Nat \ {0} /\ amt <= left[c] /\ amt <= left[d]
      /\ amt = left[c] \/ amt = left[d]
  BY <1>1, PaymentSettles DEF Inv
<1>3. c # d /\ balance' = balance /\ left' = Charged(c, d, amt)
  BY <1>1 DEF Pair, Inv, TypeOK
<1>4. /\ \A u \in User : Out(u)' = Out(u) + (IF u = d THEN amt ELSE 0)
      /\ \A u \in User : In(u)' = In(u) + (IF u = c THEN amt ELSE 0)
      /\ \A u \in User : Out(u) \in Int /\ In(u) \in Int
  BY Moves
<1>5. debts' = debts \cup {[from |-> d, to |-> c, amount |-> amt]}
  BY DEF Pair
<1> HIDE DEF amt
<1>6. /\ left'[c] = left[c] - amt /\ left'[d] = left[d] - amt
      /\ \A u \in User \ {c, d} : left'[u] = left[u]
      /\ \A u \in User : left[u] \in Nat /\ balance[u] \in Int
  BY <1>3 DEF Charged, Inv, TypeOK
<1>7. PaidOnce'
  <2> SUFFICES ASSUME NEW x \in debts' PROVE left'[x.from] = 0 \/ left'[x.to] = 0
    BY DEF PaidOnce
  <2>1. CASE x \in debts
    <3>1. x.from \in User /\ x.to \in User
      BY <2>1 DEF Inv, TypeOK, Debt
    <3>2. left[x.from] = 0 \/ left[x.to] = 0
      BY <2>1 DEF PaidOnce
    <3> QED BY <1>1, <1>6, <3>1, <3>2
  <2>2. CASE x = [from |-> d, to |-> c, amount |-> amt]
    BY <1>2, <1>6, <2>2
  <2> QED BY <1>5, <2>1, <2>2
<1>8. ASSUME NEW u \in User
      PROVE  IF balance'[u] > 0 THEN In(u)' + left'[u] = balance'[u] /\ Out(u)' = 0
             ELSE Out(u)' + left'[u] = -balance'[u] /\ In(u)' = 0
  <2>1. /\ balance'[u] = balance[u] /\ In(u) \in Int /\ Out(u) \in Int
        /\ left[u] \in Nat /\ balance[u] \in Int
    BY <1>3, <1>4, <1>6
  <2>2. IF balance[u] > 0 THEN In(u) + left[u] = balance[u] /\ Out(u) = 0
        ELSE Out(u) + left[u] = -balance[u] /\ In(u) = 0
    BY DEF Conserved
  <2>3. CASE u = c
    <3>1. Out(u)' = Out(u) /\ In(u)' = In(u) + amt /\ left'[u] = left[u] - amt /\ balance[u] > 0
      BY <1>1, <1>3, <1>4, <1>6, <2>1, <2>3
    <3> QED BY <1>2, <2>1, <2>2, <3>1
  <2>4. CASE u = d
    <3>1. Out(u)' = Out(u) + amt /\ In(u)' = In(u) /\ left'[u] = left[u] - amt /\ balance[u] < 0
      BY <1>1, <1>3, <1>4, <1>6, <2>1, <2>4
    <3> QED BY <1>2, <2>1, <2>2, <3>1
  <2>5. CASE u # c /\ u # d
    <3>1. Out(u)' = Out(u) /\ In(u)' = In(u) /\ left'[u] = left[u]
      BY <1>4, <1>6, <2>1, <2>5
    <3> QED BY <2>1, <2>2, <3>1
  <2> QED BY <2>3, <2>4, <2>5
<1> QED BY <1>7, <1>8 DEF Conserved

\* No money is made or lost by any iteration, for any members and any balances: what a
\* member has paid and still owes is the balance, and so for what a member is paid.
THEOREM MoneyConserved == Spec => []Conserved
<1>1. Init => MoneyInv
  BY TypeInit, CountedInit, MoneyInit DEF MoneyInv, Inv
<1>2. MoneyInv /\ [Next]_vars => MoneyInv'
  <2> SUFFICES ASSUME MoneyInv, [Next]_vars PROVE MoneyInv'
    OBVIOUS
  <2>1. Inv'
    BY InvStep DEF MoneyInv
  <2>2. ASSUME NEW c \in User, NEW d \in User, Pair(c, d) PROVE PaidOnce' /\ Conserved'
    BY <2>2, MoneyStep DEF MoneyInv
  <2>3. ASSUME UNCHANGED vars PROVE PaidOnce' /\ Conserved'
    BY <2>3 DEF vars, MoneyInv, PaidOnce, Conserved, In, Out
  <2>4. PaidOnce' /\ Conserved'
    BY <2>2, <2>3 DEF Next
  <2> QED BY <2>1, <2>4 DEF MoneyInv
<1>3. MoneyInv => Conserved
  BY DEF MoneyInv
<1> QED BY <1>1, <1>2, <1>3, PTL DEF Spec

-----------------------------------------------------------------------------
(***************************************************************************)
(* Splitting of amounts, which an expense goes through before it counts in *)
(* any balance: proofs about Split for every amount, list of shares and    *)
(* rotation.  The invariant counts the cents that are left against the     *)
(* members still waiting whose exact share is not whole (Shared).          *)
(***************************************************************************)
CONSTANTS MaxSplit, MaxMembers, MaxShare, Whole

VARIABLES mode, amount, shares, offset, split, given

S == INSTANCE Split WITH MaxAmount <- MaxSplit

\* The bounds are numbers, and so are the percents of a whole: 10000 or 100 in the code
SplitSetting ==
    MaxSplit \in Nat /\ MaxMembers \in Nat /\ MaxShare \in Nat /\ Whole \in Nat \ {0}

\* The sum in Split is the fold of SumTheorems.
LEMMA SumOfIs == ASSUME NEW s PROVE S!SumOf(s) = SumFunction(s)
  BY DEF S!SumOf, S!MapThenSumSet, S!MapThenFoldSet,
         SumFunction, SumFunctionOnSet, FoldFunctionOnSet, MapThenFoldSet

\* Division with a remainder
LEMMA DivMod == ASSUME NEW x \in Nat, NEW T \in Nat \ {0}
  PROVE x = T * (x \div T) + (x % T) /\ x % T \in Nat /\ x % T < T /\ x \div T \in Nat
  OBVIOUS

\* The number of members is the length of the list of shares.
LEMMA LenIs == ASSUME NEW n \in Nat, NEW X, shares \in [1..n -> X] PROVE S!N = n
  BY DEF S!N

\* The modes of Split, and those that go through apportion
Modes == {"equal", "percentage", "shares", "job equal", "job exact", "job percentage"}
Apportioned == {"equal", "percentage", "shares"}

\* What a split is asked for: an amount, at least one member, and shares of which an
\* apportioned mode has some
Asked ==
    /\ amount \in Nat \ {0} /\ S!N \in Nat \ {0} /\ shares \in [S!Members -> Nat]
    /\ mode \in Modes /\ offset \in 0..(S!N - 1)
    /\ mode \in Apportioned => S!Total \in Nat \ {0}
    /\ mode \in {"equal", "job equal"} => \A i \in S!Members : shares[i] = 1

\* The members whose exact share is not a whole number of cents
Fraction == {i \in S!Members : S!Remainder(i) > 0}

\* The whole cents of the exact share
Quota(i) == (amount * shares[i]) \div S!Total

\* apportion: everybody has the quota, those given a cent one more; they come first in the
\* order and their exact shares are not whole, and what is left suffices for no more than
\* the others of that kind
Shared ==
    mode \in Apportioned =>
      /\ \A i \in S!Members : split[i] = Quota(i) + (IF i \in given THEN 1 ELSE 0)
      /\ given \subseteq Fraction
      /\ \A i \in given, j \in S!Members \ given : S!Before(i, j)
      /\ S!Left >= 0 /\ S!Left <= Cardinality(Fraction \ given)

\* The job's even split hands out nothing or everything.
JobShared ==
    mode = "job equal" =>
      IF given = {} THEN \A i \in S!Members : split[i] = amount \div S!N
      ELSE S!Left = 0

\* The invariant, but for the rotation
SplitInv ==
    Asked /\ split \in [S!Members -> Nat] /\ given \subseteq S!Members /\ Shared /\ JobShared

\* The members are as many as the list is long.
LEMMA MembersFinite == ASSUME Asked PROVE /\ IsFiniteSet(S!Members) /\ Cardinality(S!Members) = S!N
                                          /\ IsFiniteSet(Fraction)
<1>1. IsFiniteSet(S!Members) /\ Cardinality(S!Members) = S!N
  <2> DEFINE n == S!N
  <2>1. n \in Nat \ {0}
    BY DEF Asked
  <2> HIDE DEF n
  <2>2. IsFiniteSet(1..n) /\ Cardinality(1..n) = n
    BY <2>1, 1 \in Int, n \in Int, FS_Interval
  <2> QED BY <2>2 DEF n, S!Members
<1>2. Fraction \subseteq S!Members
  BY DEF Fraction
<1> QED BY <1>1, <1>2, FS_Subset

\* A quota and its remainder make the exact share.
LEMMA QuotaIs ==
  ASSUME Asked, mode \in Apportioned, NEW i \in S!Members
  PROVE  /\ amount * shares[i] \in Nat
         /\ Quota(i) \in Nat /\ S!Remainder(i) \in Nat /\ S!Remainder(i) < S!Total
         /\ amount * shares[i] = S!Total * Quota(i) + S!Remainder(i)
<1> DEFINE x == amount * shares[i]
           T == S!Total
<1>1. x \in Nat /\ T \in Nat \ {0}
  <2>1. amount \in Nat /\ shares[i] \in Nat
    BY DEF Asked
  <2>2. x \in Nat
    BY <2>1
  <2>3. T \in Nat \ {0}
    BY DEF Asked
  <2> QED BY <2>2, <2>3
<1>2. Quota(i) = x \div T /\ S!Remainder(i) = x % T
  BY DEF Quota, S!Remainder
<1> HIDE DEF x, T
<1>3. x = T * (x \div T) + (x % T) /\ x % T \in Nat /\ x % T < T /\ x \div T \in Nat
  BY <1>1, DivMod
<1> QED BY <1>1, <1>2, <1>3 DEF x, T

\* The quotas leave at least nothing, and at most a cent for each participant whose
\* exact share is not whole.
LEMMA QuotasLeave ==
  ASSUME Asked, mode \in Apportioned, split \in [S!Members -> Nat],
         \A i \in S!Members : split[i] = Quota(i)
  PROVE  S!Left >= 0 /\ S!Left <= Cardinality(Fraction)
<1> DEFINE M == S!Members
           T == S!Total
           exact == [i \in M |-> amount * shares[i]]
           whole == [i \in M |-> T * split[i]]
           rest == [i \in M |-> S!Remainder(i)]
           some == [i \in M |-> IF i \in Fraction THEN T ELSE 0]
           somewhere == [i \in Fraction |-> T]
           nothing == [i \in M |-> 0]
<1>1. IsFiniteSet(M) /\ IsFiniteSet(Fraction) /\ Fraction \subseteq M
  BY MembersFinite DEF Fraction
<1>2. T \in Nat \ {0} /\ shares \in [M -> Nat] /\ amount \in Nat \ {0}
  BY DEF Asked
<1>3. \A i \in M : /\ exact[i] \in Int /\ whole[i] \in Int /\ rest[i] \in Int
                   /\ exact[i] = whole[i] + rest[i]
                   /\ 0 <= rest[i] /\ rest[i] < T
  BY <1>2, QuotaIs
<1>4. \A i \in M : rest[i] <= some[i] /\ some[i] \in Int
  BY <1>2, <1>3 DEF Fraction
<1>5. /\ IntegersOn(exact, M) /\ IntegersOn(whole, M) /\ IntegersOn(rest, M)
      /\ IntegersOn(some, M) /\ IntegersOn(somewhere, Fraction) /\ IntegersOn(nothing, M)
      /\ IntegersOn(split, M) /\ IntegersOn(shares, M)
  BY <1>1, <1>2, <1>3, <1>4 DEF IntegersOn
<1>6. /\ \A i \in M : exact[i] = amount * shares[i]
      /\ \A i \in M : whole[i] = T * split[i]
      /\ \A i \in M : nothing[i] = 0 * nothing[i] /\ nothing[i] <= rest[i]
      /\ \A i \in Fraction : some[i] = somewhere[i] /\ somewhere[i] = T
      /\ \A i \in M \ Fraction : some[i] = 0
  BY <1>1, <1>3
<1>7. S!Left = amount - SumFunction(split) /\ T = SumFunction(shares)
  BY SumOfIs DEF S!Left, S!Total
<1> DEFINE c == Cardinality(Fraction)
<1>8. c \in Nat
  BY <1>1, FS_CardinalityType
<1> HIDE DEF M, T, exact, whole, rest, some, somewhere, nothing
<1>9. SumFunction(exact) = amount * SumFunction(shares)
  BY <1>2, <1>5, <1>6, SumOfMultiples
<1>10. SumFunction(whole) = T * SumFunction(split)
  BY <1>2, <1>5, <1>6, SumOfMultiples
<1>11. SumFunction(exact) = SumFunction(whole) + SumFunction(rest)
  BY <1>3, <1>5, SumOfSums
<1>12. SumFunction(rest) <= SumFunction(some)
  BY <1>4, <1>5, SumOrdered
<1>13. SumFunction(some) = SumFunction(somewhere)
  BY <1>1, <1>5, <1>6, SumOfSupport
<1>14. SumFunction(somewhere) = T * c
  BY <1>2, <1>5, <1>6, SumOfEqual
<1>15. SumFunction(nothing) <= SumFunction(rest)
  BY <1>5, <1>6, SumOrdered
<1>16. SumFunction(nothing) = 0 * SumFunction(nothing) /\ SumFunction(nothing) \in Int
  BY <1>5, <1>6, SumOfMultiples, SumIsInt
<1>17. SumFunction(nothing) = 0
  BY <1>16
<1>18. SumFunction(split) \in Int /\ SumFunction(rest) \in Int
  BY <1>5, SumIsInt
<1> DEFINE p == SumFunction(split)
           q == SumFunction(rest)
<1>19. amount * T = T * p + q /\ 0 <= q /\ q <= T * c
  BY <1>7, <1>9, <1>10, <1>11, <1>12, <1>13, <1>14, <1>15, <1>17
<1>20. p \in Int /\ q \in Int
  BY <1>18
<1> HIDE DEF p, q, c
<1>21. T * (amount - p) = q
  BY <1>2, <1>19, <1>20
<1>22. amount - p >= 0 /\ amount - p <= c
  <2> DEFINE d == amount - p
  <2>1. d \in Int /\ T * d = q
    BY <1>2, <1>20, <1>21
  <2> HIDE DEF d
  <2>2. d >= 0
    <3> SUFFICES ASSUME d < 0 PROVE FALSE
      BY <2>1
    <3>1. T * d < 0
      BY <1>2, <2>1
    <3> QED BY <1>19, <1>20, <2>1, <3>1
  <2>3. d <= c
    <3> SUFFICES ASSUME d > c PROVE FALSE
      BY <1>8, <2>1 DEF c
    <3>1. c \in Nat
      BY <1>8 DEF c
    <3>2. T * d > T * c
      BY <1>2, <2>1, <3>1
    <3>3. T * c \in Int /\ T * d \in Int
      BY <1>2, <2>1, <3>1
    <3> QED BY <1>19, <1>20, <2>1, <3>2, <3>3
  <2> QED BY <2>2, <2>3 DEF d
<1> QED BY <1>7, <1>22 DEF p, c

\* A single share of an amount is the amount.
LEMMA TimesOne == ASSUME NEW x \in Int PROVE x * 1 = x
  OBVIOUS

\* The amount is a number.
LEMMA AmountIs == ASSUME Asked PROVE amount \in Int /\ amount \in Nat
<1>1. amount \in Nat
  BY DEF Asked
<1> QED BY <1>1

\* Even shares add up to the number of members.
LEMMA EvenTotal ==
  ASSUME Asked, \A i \in S!Members : shares[i] = 1
  PROVE  S!Total = S!N
<1> DEFINE M == S!Members
           n == S!N
<1>1. shares \in [M -> Nat] /\ n \in Nat
  BY DEF Asked
<1>2. IsFiniteSet(M) /\ Cardinality(M) = n
  BY MembersFinite
<1>3. S!Total = SumFunction(shares)
  BY SumOfIs DEF S!Total
<1>4. \A i \in M : shares[i] = 1
  OBVIOUS
<1> HIDE DEF M, n
<1>5. IntegersOn(shares, M)
  BY <1>1, <1>2 DEF IntegersOn
<1>6. SumFunction(shares) = 1 * Cardinality(M)
  BY <1>4, <1>5, 1 \in Int, SumOfEqual
<1>7. S!Total = n
  BY <1>1, <1>2, <1>3, <1>6
<1> QED BY <1>7 DEF n

\* Even parts leave the remainder of the division.
LEMMA EvenLeaves ==
  ASSUME Asked, split \in [S!Members -> Nat],
         \A i \in S!Members : split[i] = amount \div S!N
  PROVE  S!Left = amount % S!N
<1> DEFINE n == S!N
           k == amount \div n
<1>1. n \in Nat \ {0} /\ amount \in Nat
  BY DEF Asked
<1> HIDE DEF n
<1>2. k \in Nat /\ amount = n * k + (amount % n) /\ amount % n \in Nat
  BY <1>1, DivMod
<1>3. IntegersOn(split, S!Members) /\ \A i \in S!Members : split[i] = k
  BY MembersFinite DEF IntegersOn, n
<1> HIDE DEF k
<1>4. SumFunction(split) = k * Cardinality(S!Members)
  BY <1>2, <1>3, SumOfEqual
<1>5. SumFunction(split) = k * n
  BY <1>4, MembersFinite DEF n
<1>6. S!Left = amount - k * n
  BY <1>5, SumOfIs DEF S!Left
<1>7. k * n = n * k
  BY <1>1, <1>2
<1>8. S!Left = amount % n
  BY <1>1, <1>2, <1>6, <1>7
<1> QED BY <1>8 DEF n

\* The rotation numbers the members from 0, one each.
LEMMA RotateIs ==
  ASSUME Asked, NEW i \in S!Members
  PROVE  /\ S!Rotate(i) \in 0..(S!N - 1)
         /\ S!Rotate(i) = IF i - 1 >= offset THEN i - 1 - offset ELSE i - 1 - offset + S!N
<1> DEFINE n == S!N
           d == i - 1 - offset + n
<1>1. n \in Nat \ {0} /\ i \in 1..n /\ offset \in 0..(n - 1)
  BY DEF Asked, S!Members
<1>2. S!Rotate(i) = d % n
  BY DEF S!Rotate
<1> HIDE DEF n
<1>3. d \in Nat /\ d < 2 * n
  BY <1>1
<1>4. d % n = IF d < n THEN d ELSE d - n
  BY <1>1, <1>3
<1>5. d % n \in 0..(n - 1) /\ d % n = IF i - 1 >= offset THEN i - 1 - offset ELSE i - 1 - offset + n
  BY <1>1, <1>3, <1>4
<1> QED BY <1>2, <1>5 DEF n

\* Every place of the rotation is taken.
LEMMA RotateReaches ==
  ASSUME Asked, NEW k \in 0..(S!N - 1)
  PROVE  /\ ((offset + k) % S!N) + 1 \in S!Members
         /\ S!Rotate(((offset + k) % S!N) + 1) = k
<1> DEFINE n == S!N
           i == ((offset + k) % n) + 1
<1>1. n \in Nat \ {0} /\ offset \in 0..(n - 1) /\ k \in 0..(n - 1)
  BY DEF Asked
<1> HIDE DEF n
<1>2. (offset + k) % n = IF offset + k < n THEN offset + k ELSE offset + k - n
  BY <1>1
<1>3. i \in 1..n
  BY <1>1, <1>2
<1>4. i \in S!Members
  BY <1>3 DEF n, S!Members
<1>5. i - 1 = (IF offset + k < n THEN offset + k ELSE offset + k - n)
  BY <1>1, <1>2
<1> HIDE DEF i
<1>6. S!Rotate(i) = IF i - 1 >= offset THEN i - 1 - offset ELSE i - 1 - offset + n
  BY <1>4, RotateIs DEF n
<1>7. S!Rotate(i) = k
  BY <1>1, <1>3, <1>5, <1>6
<1> QED BY <1>4, <1>7 DEF i, n

\* No two members share a place.
LEMMA RotateTellsApart ==
  ASSUME Asked, NEW i \in S!Members, NEW j \in S!Members, S!Rotate(i) = S!Rotate(j)
  PROVE  i = j
<1> DEFINE n == S!N
           r == S!Rotate(i)
           t == S!Rotate(j)
<1>1. n \in Nat \ {0} /\ offset \in 0..(n - 1)
  BY DEF Asked
<1>2. i \in 1..n /\ j \in 1..n
  BY DEF S!Members
<1>3. /\ r = IF i - 1 >= offset THEN i - 1 - offset ELSE i - 1 - offset + n
      /\ t = IF j - 1 >= offset THEN j - 1 - offset ELSE j - 1 - offset + n
  BY RotateIs
<1>4. r = t
  OBVIOUS
<1> HIDE DEF n, r, t
<1> QED BY <1>1, <1>2, <1>3, <1>4

\* In an even split the cents have gone to the first places of the rotation.
Rotated ==
    mode = "equal" =>
      /\ S!Left <= amount % S!N
      /\ given = {i \in S!Members : S!Rotate(i) < (amount % S!N) - S!Left}

\* The invariant
FullInv == SplitInv /\ Rotated

\* What the entry points accept is what the invariant asks.
LEMMA AskedInit ==
  ASSUME SplitSetting, S!Init
  PROVE  Asked /\ split = S!Base(mode, amount, shares) /\ given = {}
<1> USE DEF S!Init
<1>1. PICK n \in 1..MaxMembers :
         /\ shares \in [1..n -> 0..S!Max({MaxShare, Whole})]
         /\ mode \in Modes
         /\ S!Accepted(mode, shares)
         /\ offset \in IF mode \in Apportioned THEN 0..(n - 1) ELSE {0}
  BY DEF Modes, Apportioned
<1> HIDE DEF S!Init
<1>2. amount \in Nat \ {0} /\ split = S!Base(mode, amount, shares) /\ given = {}
  <2>1. amount \in 1..MaxSplit
    BY DEF S!Init
  <2>2. amount \in Nat \ {0}
    BY <2>1 DEF SplitSetting
  <2>3. split = S!Base(mode, amount, shares)
    BY Zenon DEF S!Init
  <2>4. given = {}
    BY Zenon DEF S!Init
  <2> QED BY <2>2, <2>3, <2>4
<1>3. shares \in [1..n -> Nat] /\ n \in Nat \ {0}
  BY <1>1 DEF SplitSetting
<1>4. S!N = n /\ S!Members = 1..n
  BY <1>3, LenIs DEF S!Members
<1>5. offset \in 0..(n - 1)
  BY <1>1, <1>3
<1>6. mode \in {"equal", "job equal"} => \A i \in 1..n : shares[i] = 1
  BY <1>1, <1>3 DEF S!Accepted
<1>7. mode \in Apportioned => S!Total \in Nat \ {0}
  <2>1. CASE mode = "percentage"
    BY <1>1, <2>1 DEF S!Accepted, S!Total, SplitSetting
  <2>2. CASE mode \in {"equal", "shares"}
    <3> DEFINE M == 1..n
               ones == [i \in M |-> 1]
    <3>1. n \in Int /\ n >= 1 /\ 1 \in Int
      BY <1>3
    <3>2. IsFiniteSet(M) /\ Cardinality(M) = n
      BY <3>1, FS_Interval
    <3>3. \A i \in M : shares[i] \in Nat /\ shares[i] >= 1
      <4> TAKE i \in M
      <4>1. shares[i] \in Nat
        BY <1>3
      <4>2. CASE mode = "equal"
        BY <1>6, <4>2
      <4>3. CASE mode = "shares"
        <5>1. DOMAIN shares = M
          BY <1>3
        <5>2. shares[i] > 0
          BY <1>1, <4>3, <5>1 DEF S!Accepted
        <5> QED BY <4>1, <5>2
      <4> QED BY <2>2, <4>1, <4>2, <4>3
    <3>4. S!Total = SumFunction(shares)
      BY SumOfIs DEF S!Total
    <3>5. DOMAIN shares = M
      BY <1>3
    <3>6. \A i \in M : ones[i] = 1
      OBVIOUS
    <3>7. DOMAIN ones = M
      OBVIOUS
    <3> HIDE DEF M, ones
    <3>8. IntegersOn(shares, M) /\ IntegersOn(ones, M)
      BY <3>2, <3>3, <3>5, <3>6, <3>7 DEF IntegersOn
    <3>9. SumFunction(ones) = 1 * Cardinality(M)
      BY <3>1, <3>6, <3>8, SumOfEqual
    <3>10. SumFunction(ones) <= SumFunction(shares) /\ SumFunction(shares) \in Int
      BY <3>3, <3>6, <3>8, SumOrdered, SumIsInt
    <3> QED BY <3>1, <3>2, <3>4, <3>9, <3>10
  <2> QED BY <2>1, <2>2 DEF Apportioned
<1> QED BY <1>1, <1>2, <1>3, <1>4, <1>5, <1>6, <1>7 DEF Asked

\* The floors of the quotas satisfy the invariant.
LEMMA SplitInit == ASSUME SplitSetting, S!Init PROVE FullInv
<1>1. Asked /\ split = S!Base(mode, amount, shares) /\ given = {}
  BY AskedInit
<1>2. DOMAIN shares = S!Members /\ shares \in [S!Members -> Nat] /\ amount \in Nat
  BY <1>1 DEF Asked
<1>3. mode \in Apportioned => \A i \in S!Members : split[i] = Quota(i) /\ Quota(i) \in Nat
  BY <1>1, <1>2, QuotaIs DEF S!Base, Quota, S!Total, Apportioned
<1>4. mode = "job equal" => \A i \in S!Members : split[i] = amount \div S!N
  <2> SUFFICES ASSUME mode = "job equal" PROVE \A i \in S!Members : split[i] = amount \div S!N
    OBVIOUS
  <2>1. \A i \in S!Members : shares[i] = 1
    BY <1>1 DEF Asked
  <2>2. S!SumOf(shares) = S!N
    BY <1>1, <2>1, EvenTotal DEF S!Total
  <2>3. \A i \in S!Members : split[i] = (amount * shares[i]) \div S!SumOf(shares)
    BY <1>1, <1>2 DEF S!Base
  <2>5. amount \in Int
    BY <1>1, AmountIs
  <2>4. amount * 1 = amount
    BY <2>5, TimesOne
  <2> QED BY <2>1, <2>2, <2>3, <2>4
<1>5. \A i \in S!Members : split[i] \in Nat
  <2> TAKE i \in S!Members
  <2>1. shares[i] \in Nat /\ amount * shares[i] \in Nat
    BY <1>2
  <2>2. CASE mode \in Apportioned
    BY <1>3, <2>2
  <2>3. CASE mode = "job equal"
    <3>1. S!N \in Nat \ {0}
      BY <1>1 DEF Asked
    <3>2. amount \div S!N \in Nat
      BY <1>2, <3>1, DivMod
    <3> QED BY <1>4, <2>3, <3>2
  <2>4. CASE mode = "job exact"
    BY <1>1, <1>2, <2>1, <2>4 DEF S!Base
  <2>5. CASE mode = "job percentage"
    <3>1. (amount * shares[i]) \div Whole \in Nat
      BY <2>1, DivMod DEF SplitSetting
    <3> QED BY <1>1, <1>2, <2>5, <3>1 DEF S!Base
  <2> QED BY <1>1, <2>2, <2>3, <2>4, <2>5 DEF Asked, Modes, Apportioned
<1>6. split \in [S!Members -> Nat]
  BY <1>1, <1>2, <1>5 DEF S!Base
<1>7. Shared
  <2>1. ASSUME mode \in Apportioned PROVE S!Left >= 0 /\ S!Left <= Cardinality(Fraction)
    BY <1>1, <1>3, <1>6, <2>1, QuotasLeave
  <2>2. Fraction \ given = Fraction
    BY <1>1
  <2> QED BY <1>1, <1>3, <2>1, <2>2 DEF Shared
<1>8. JobShared
  BY <1>1, <1>4 DEF JobShared
<1>9. Rotated
  <2> SUFFICES ASSUME mode = "equal" PROVE S!Left = amount % S!N /\ amount % S!N \in Nat
    <3>1. \A i \in S!Members : S!Rotate(i) \in 0..(S!N - 1)
      BY <1>1, RotateIs
    <3> QED BY <1>1, <3>1 DEF Rotated
  <2>1. \A i \in S!Members : shares[i] = 1
    BY <1>1 DEF Asked
  <2>2. S!Total = S!N
    BY <1>1, <2>1, EvenTotal
  <2>3. \A i \in S!Members : split[i] = amount \div S!N
    BY <1>2, <1>3, <2>1, <2>2 DEF Apportioned, Quota
  <2>4. S!N \in Nat \ {0}
    BY <1>1 DEF Asked
  <2> QED BY <1>1, <1>2, <1>6, <2>3, <2>4, EvenLeaves, DivMod
<1> QED BY <1>1, <1>6, <1>7, <1>8, <1>9 DEF FullInv, SplitInv

\* One cent more for one participant leaves one cent less.
LEMMA CentLess ==
  ASSUME Asked, split \in [S!Members -> Nat], NEW i \in S!Members,
         NEW after, after = [split EXCEPT ![i] = @ + 1]
  PROVE  amount - S!SumOf(after) = S!Left - 1
<1> DEFINE M == S!Members
<1>1. IsFiniteSet(M)
  BY MembersFinite
<1>2. i \in M /\ split \in [M -> Nat]
  OBVIOUS
<1>3. S!SumOf(after) = SumFunction(after) /\ S!Left = amount - SumFunction(split)
  BY SumOfIs DEF S!Left
<1>4. amount \in Int
  BY AmountIs
<1> HIDE DEF M
<1>5. after \in [M -> Nat] /\ after[i] = split[i] + 1 /\ \A j \in M \ {i} : after[j] = split[j]
  BY <1>2
<1>6. IntegersOn(split, M) /\ IntegersOn(after, M)
  BY <1>1, <1>2, <1>5 DEF IntegersOn
<1>7. SumFunction(after) = SumFunction(split) + after[i] - split[i]
  <2> DEFINE a == after
             s == split
  <2>1. \A j \in M \ {i} : a[j] = s[j]
    BY <1>5
  <2>2. IntegersOn(s, M) /\ IntegersOn(a, M)
    BY <1>6
  <2> HIDE DEF a, s
  <2>3. SumFunction(a) = SumFunction(s) + a[i] - s[i]
    BY <1>2, <2>1, <2>2, SumChanges
  <2> QED BY <2>3 DEF a, s
<1>8. SumFunction(split) \in Int /\ SumFunction(after) \in Int /\ split[i] \in Int
  BY <1>2, <1>6, SumIsInt
<1> QED BY <1>3, <1>4, <1>5, <1>7, <1>8

\* S!Left is a number.
LEMMA LeftIsInt == ASSUME Asked, split \in [S!Members -> Nat] PROVE S!Left \in Int
<1>1. IntegersOn(split, S!Members)
  BY MembersFinite DEF IntegersOn
<1>2. SumFunction(split) \in Int /\ amount \in Int
  BY <1>1, SumIsInt, AmountIs
<1> QED BY <1>2, SumOfIs DEF S!Left

\* A cent to the next in the order keeps the invariant: its exact share is not whole, as
\* some other such share is still waiting, and in an even split it stands next in line.
LEMMA HandOutStep == ASSUME FullInv, S!HandOut PROVE FullInv'
<1> DEFINE M == S!Members
<1>0. Asked /\ split \in [M -> Nat] /\ given \subseteq M /\ Shared /\ JobShared /\ Rotated
  BY DEF FullInv, SplitInv
<1>1. PICK i \in M \ given :
         /\ \A j \in M \ (given \cup {i}) : S!Before(i, j)
         /\ split' = [split EXCEPT ![i] = @ + 1]
         /\ given' = given \cup {i}
  BY DEF S!HandOut
<1>2. mode \in Apportioned /\ S!Left > 0
      /\ mode' = mode /\ amount' = amount /\ shares' = shares /\ offset' = offset
  BY DEF S!HandOut, Apportioned
<1>3. /\ S!N' = S!N /\ M' = M /\ S!Total' = S!Total /\ Fraction' = Fraction
      /\ \A j : /\ S!Remainder(j)' = S!Remainder(j)
                /\ Quota(j)' = Quota(j) /\ S!Rotate(j)' = S!Rotate(j)
  <2>1. S!N' = S!N
    BY <1>2 DEF S!N
  <2>2. M' = M
    BY <2>1 DEF S!Members
  <2>3. S!Total' = S!Total
    <3>1. S!Total = SumFunction(shares) /\ (S!Total = SumFunction(shares))'
      BY SumOfIs DEF S!Total
    <3> QED BY <1>2, <3>1
  <2>4. \A j : /\ S!Remainder(j)' = S!Remainder(j)
            /\ Quota(j)' = Quota(j) /\ S!Rotate(j)' = S!Rotate(j)
    BY <1>2, <2>1, <2>3 DEF S!Remainder, Quota, S!Rotate
  <2> QED BY <2>1, <2>2, <2>3, <2>4 DEF Fraction
<1>4. Asked'
  BY <1>0, <1>2, <1>3 DEF Asked
<1>5. split' \in [M -> Nat] /\ given' \subseteq M
  BY <1>0, <1>1
<1>6. S!Left' = S!Left - 1 /\ S!Left \in Int
  BY <1>0, <1>1, <1>2, CentLess, LeftIsInt DEF S!Left
<1>7. \A j \in M : S!Remainder(j) \in Nat
  BY <1>0, <1>2, QuotaIs
<1>8. IsFiniteSet(Fraction) /\ IsFiniteSet(Fraction \ given)
  BY <1>0, MembersFinite, FS_Subset
<1>9. S!Left <= Cardinality(Fraction \ given) /\ Cardinality(Fraction \ given) \in Nat
  BY <1>0, <1>2, <1>8, FS_CardinalityType DEF Shared
<1>10. Fraction \ given # {}
  <2> SUFFICES ASSUME Fraction \ given = {} PROVE FALSE
    OBVIOUS
  <2>1. Cardinality(Fraction \ given) = 0
    BY FS_EmptySet
  <2> QED BY <1>2, <1>6, <1>9, <2>1
<1>11. i \in Fraction
  <2>1. PICK f \in Fraction : f \notin given
    BY <1>10
  <2>2. f \in M /\ S!Remainder(f) > 0
    BY <2>1 DEF Fraction
  <2>3. f = i \/ S!Before(i, f)
    BY <1>1, <2>1, <2>2
  <2>4. S!Remainder(i) > 0
    BY <1>1, <1>7, <2>2, <2>3 DEF S!Before
  <2> QED BY <1>1, <2>4 DEF Fraction
<1>12. Cardinality(Fraction \ given') = Cardinality(Fraction \ given) - 1
  <2>1. Fraction \ given' = (Fraction \ given) \ {i} /\ i \in Fraction \ given
    BY <1>1, <1>11
  <2> QED BY <1>8, <2>1, FS_RemoveElement
<1>13. Shared'
  <2>1. \A j \in M : split'[j] = Quota(j) + (IF j \in given' THEN 1 ELSE 0)
    <3> TAKE j \in M
    <3>1. split[j] = Quota(j) + (IF j \in given THEN 1 ELSE 0) /\ Quota(j) \in Nat
      BY <1>0, <1>2, QuotaIs DEF Shared
    <3>2. CASE j = i
      BY <1>0, <1>1, <3>1, <3>2
    <3>3. CASE j # i
      BY <1>0, <1>1, <3>1, <3>3
    <3> QED BY <3>2, <3>3
  <2>2. given' \subseteq Fraction
    BY <1>0, <1>1, <1>2, <1>11 DEF Shared
  <2>3. \A k \in given', j \in M \ given' : S!Before(k, j)
    BY <1>0, <1>1, <1>2 DEF Shared
  <2>4. \A k \in given', j \in M \ given' : S!Before(k, j)'
    BY <1>3, <2>3 DEF S!Before
  <2>5. S!Left' >= 0 /\ S!Left' <= Cardinality(Fraction \ given')
    BY <1>2, <1>6, <1>9, <1>12
  <2>6. \A j \in M : (split[j])' = Quota(j)' + (IF j \in given' THEN 1 ELSE 0)
    BY <1>3, <2>1
  <2> QED BY <1>3, <2>2, <2>4, <2>5, <2>6 DEF Shared
<1>14. JobShared'
  BY <1>2 DEF JobShared, Apportioned
<1>15. Rotated'
  <2> SUFFICES ASSUME mode = "equal" PROVE Rotated'
    BY <1>2 DEF Rotated
  <2> DEFINE c == (amount % S!N) - S!Left
  <2>1. S!N \in Nat \ {0} /\ amount \in Nat /\ amount % S!N \in Nat /\ amount % S!N < S!N
    BY <1>0, DivMod DEF Asked
  <2>2. c \in Nat /\ given = {j \in M : S!Rotate(j) < c} /\ S!Left <= amount % S!N
    BY <1>0, <1>6, <2>1 DEF Rotated
  <2>3. c \in 0..(S!N - 1)
    BY <1>2, <1>6, <2>1, <2>2
  <2>4. \A j, k \in M : S!Remainder(j) = S!Remainder(k)
    <3>1. \A j \in M : shares[j] = 1
      BY <1>0 DEF Asked
    <3> QED BY <3>1 DEF S!Remainder
  <2>5. \A j \in M : S!Rotate(j) \in Nat
    BY <1>0, RotateIs
  <2>6. S!Rotate(i) = c
    <3> DEFINE f == ((offset + c) % S!N) + 1
    <3>1. f \in M /\ S!Rotate(f) = c
      <4> HIDE DEF c
      <4> QED BY <1>0, <2>3, RotateReaches
    <3> HIDE DEF f, c
    <3>2. f \notin given
      BY <2>2, <3>1
    <3>3. f = i \/ S!Before(i, f)
      BY <1>1, <3>1, <3>2
    <3>4. ~(S!Remainder(i) > S!Remainder(f))
      BY <1>1, <1>7, <2>4, <3>1
    <3>5. S!Rotate(i) <= c
      BY <1>1, <2>2, <2>5, <3>1, <3>3, <3>4 DEF S!Before
    <3>6. ~(S!Rotate(i) < c)
      BY <1>1, <2>2
    <3> QED BY <1>1, <2>2, <2>5, <3>5, <3>6
  <2>7. \A j \in M : S!Rotate(j) = c => j = i
    BY <1>0, <1>1, <2>6, RotateTellsApart
  <2>8. given' = {j \in M : S!Rotate(j) < c + 1}
    <3> HIDE DEF c
    <3>1. \A j \in M : S!Rotate(j) < c + 1 <=> (S!Rotate(j) < c \/ j = i)
      BY <2>2, <2>5, <2>6, <2>7
    <3> QED BY <1>1, <2>2, <3>1
  <2>9. c + 1 = (amount % S!N) - S!Left'
    BY <1>6, <2>1
  <2>10. given' = {j \in M' : S!Rotate(j)' < (amount' % S!N') - S!Left'}
    BY <1>2, <1>3, <2>8, <2>9
  <2>11. S!Left' <= amount' % S!N'
    BY <1>2, <1>3, <1>6, <2>1, <2>2
  <2> QED BY <2>10, <2>11 DEF Rotated
<1>16. (split \in [S!Members -> Nat])' /\ (given \subseteq S!Members)'
  BY <1>3, <1>5
<1> QED BY <1>4, <1>13, <1>14, <1>15, <1>16 DEF FullInv, SplitInv

\* The recurring job's even split: the first participants, as many as cents are over,
\* pay one more, and nothing is left.
LEMMA JobHandOutStep == ASSUME FullInv, S!JobHandOut PROVE FullInv'
<1> DEFINE M == S!Members
           n == S!N
           r == amount % n
           ones == [i \in M |-> IF i \in S!Extra THEN 1 ELSE 0]
           one == [i \in S!Extra |-> 1]
<1>0. Asked /\ split \in [M -> Nat] /\ given \subseteq M /\ JobShared
  BY DEF FullInv, SplitInv
<1>1. /\ mode = "job equal" /\ given = {} /\ S!Left > 0 /\ given' = S!Extra
      /\ split' = [i \in M |-> IF i \in given' THEN split[i] + 1 ELSE split[i]]
      /\ mode' = mode /\ amount' = amount /\ shares' = shares /\ offset' = offset
  BY DEF S!JobHandOut
<1>2. S!N' = n /\ M' = M /\ S!Total' = S!Total
  <2>1. S!N' = n
    BY <1>1 DEF S!N
  <2>2. S!Total = SumFunction(shares) /\ (S!Total = SumFunction(shares))'
    BY SumOfIs DEF S!Total
  <2> QED BY <1>1, <2>1, <2>2 DEF S!Members
<1>3. Asked'
  BY <1>0, <1>1, <1>2 DEF Asked
<1>4. n \in Nat \ {0} /\ amount \in Nat /\ r \in Nat /\ r < n
  BY <1>0, DivMod DEF Asked
<1>5. S!Left = r
  BY <1>0, <1>1, EvenLeaves DEF JobShared
<1>6. S!Extra = 1..r /\ S!Extra \subseteq M
  <2>1. M = 1..n
    BY DEF S!Members
  <2> HIDE DEF M, n, r
  <2>2. S!Extra = {i \in M : i <= r}
    BY DEF S!Extra, M, n, r
  <2> QED BY <1>4, <2>1, <2>2
<1>7. IsFiniteSet(S!Extra) /\ Cardinality(S!Extra) = r
  <2>1. r \in Int /\ 1 \in Int /\ r >= 1
    <3> DEFINE z == S!Left
    <3>1. z > 0 /\ z = r
      BY <1>1, <1>5
    <3> HIDE DEF n, r, z
    <3> QED BY <1>4, <3>1
  <2> HIDE DEF n, r
  <2>2. IsFiniteSet(1..r) /\ Cardinality(1..r) = r
    BY <2>1, FS_Interval
  <2> QED BY <1>6, <2>2
<1>8. split' \in [M -> Nat] /\ given' \subseteq M
  <2> HIDE DEF M, n, r
  <2>1. given' \subseteq M
    BY <1>1, <1>6
  <2>2. \A i \in M : (IF i \in given' THEN split[i] + 1 ELSE split[i]) \in Nat
    BY <1>0
  <2> QED BY <1>1, <2>1, <2>2
<1>9. S!Left' = 0
  <2> DEFINE E == S!Extra
             a == split'
             s == split
  <2>1. \A i \in M : a[i] = s[i] + ones[i] /\ ones[i] \in Int /\ s[i] \in Int /\ a[i] \in Int
    <3> TAKE i \in M
    <3>1. s[i] \in Int
      BY <1>0
    <3>2. a[i] = s[i] + (IF i \in S!Extra THEN 1 ELSE 0)
      <4> HIDE DEF M, n, r
      <4>1. a[i] = IF i \in S!Extra THEN s[i] + 1 ELSE s[i]
        BY <1>1
      <4> HIDE DEF a, s
      <4> QED BY <3>1, <4>1
    <3>3. ones[i] = IF i \in S!Extra THEN 1 ELSE 0
      OBVIOUS
    <3> HIDE DEF M, a, s, ones
    <3> QED BY <3>1, <3>2, <3>3
  <2>2. (\A i \in E : ones[i] = one[i] /\ one[i] = 1) /\ \A i \in M \ E : ones[i] = 0
    BY <1>6
  <2>3. DOMAIN ones = M /\ DOMAIN one = E /\ DOMAIN s = M /\ DOMAIN a = M
    BY <1>0, <1>8
  <2>4. IsFiniteSet(M) /\ IsFiniteSet(E) /\ E \subseteq M /\ Cardinality(E) = r
    BY <1>0, <1>6, <1>7, MembersFinite
  <2>5. S!Left = amount - SumFunction(s) /\ S!Left' = amount' - SumFunction(a)
    BY SumOfIs DEF S!Left
  <2> HIDE DEF M, E, ones, one, s, a
  <2>6. IntegersOn(s, M) /\ IntegersOn(a, M) /\ IntegersOn(ones, M) /\ IntegersOn(one, E)
    BY <2>1, <2>2, <2>3, <2>4, 1 \in Int DEF IntegersOn
  <2>7. SumFunction(a) = SumFunction(s) + SumFunction(ones)
    BY <2>1, <2>6, SumOfSums
  <2>8. SumFunction(ones) = SumFunction(one)
    BY <2>2, <2>4, <2>6, SumOfSupport
  <2>9. SumFunction(one) = 1 * Cardinality(E)
    BY <2>2, <2>6, 1 \in Int, SumOfEqual
  <2>10. SumFunction(s) \in Int
    BY <2>6, SumIsInt
  <2> DEFINE x == SumFunction(s)
             y == SumFunction(a)
             z == S!Left
  <2>11. y = x + r /\ x \in Int
    BY <1>4, <2>4, <2>7, <2>8, <2>9, <2>10
  <2>12. z = amount - x /\ z = r /\ S!Left' = amount - y
    BY <1>1, <1>5, <2>5
  <2> HIDE DEF n, r, x, y, z
  <2>13. amount - y = 0
    BY <1>4, <2>11, <2>12
  <2> QED BY <2>12, <2>13
<1>10. given' # {}
  <2>1. 1 \in 1..r
    <3> DEFINE z == S!Left
    <3>1. z > 0 /\ z = r
      BY <1>1, <1>5
    <3> HIDE DEF n, r, z
    <3> QED BY <1>4, <3>1
  <2> QED BY <1>1, <1>6, <2>1
<1>11. Shared' /\ Rotated'
  BY <1>1 DEF Shared, Rotated, Apportioned
<1>12. JobShared'
  BY <1>9, <1>10 DEF JobShared
<1>13. (split \in [S!Members -> Nat])' /\ (given \subseteq S!Members)'
  BY <1>2, <1>8
<1> QED BY <1>3, <1>11, <1>12, <1>13 DEF FullInv, SplitInv

\* In the job's other modes the first participant takes the difference.
LEMMA TopUpStep == ASSUME FullInv, S!TopUp PROVE FullInv'
<1> DEFINE M == S!Members
<1>0. Asked /\ split \in [M -> Nat]
  BY DEF FullInv, SplitInv
<1>1. /\ mode \in {"job exact", "job percentage"} /\ split[1] + S!Left >= 0
      /\ split' = [split EXCEPT ![1] = @ + S!Left] /\ given' = {1}
      /\ mode' = mode /\ amount' = amount /\ shares' = shares /\ offset' = offset
  BY DEF S!TopUp
<1>2. S!N' = S!N /\ M' = M /\ S!Total' = S!Total
  <2>1. S!N' = S!N
    BY <1>1 DEF S!N
  <2>2. S!Total = SumFunction(shares) /\ (S!Total = SumFunction(shares))'
    BY SumOfIs DEF S!Total
  <2> QED BY <1>1, <2>1, <2>2 DEF S!Members
<1>3. Asked'
  BY <1>0, <1>1, <1>2 DEF Asked
<1>4. 1 \in M
  <2> DEFINE n == S!N
  <2>1. n \in Nat \ {0}
    BY <1>0 DEF Asked
  <2> HIDE DEF n
  <2>2. 1 \in 1..n
    BY <2>1
  <2> QED BY <2>2 DEF n, S!Members
<1>5. split[1] + S!Left \in Nat
  <2>1. split[1] \in Int
    BY <1>0, <1>4
  <2>2. S!Left \in Int
    BY <1>0, LeftIsInt
  <2> DEFINE x == split[1]
             z == S!Left
  <2>3. x \in Int /\ z \in Int /\ x + z >= 0
    BY <1>1, <2>1, <2>2
  <2> HIDE DEF x, z
  <2>4. x + z \in Nat
    BY <2>3
  <2> QED BY <2>4 DEF x, z
<1>6. split' \in [M -> Nat] /\ given' \subseteq M
  BY <1>0, <1>1, <1>4, <1>5
<1>7. (split \in [S!Members -> Nat])' /\ (given \subseteq S!Members)'
  BY <1>2, <1>6
<1>8. Shared' /\ JobShared' /\ Rotated'
  BY <1>1 DEF Shared, JobShared, Rotated, Apportioned
<1> QED BY <1>3, <1>7, <1>8 DEF FullInv, SplitInv

\* Every step of the three keeps the invariant.
LEMMA SplitStep == ASSUME FullInv, [S!Next]_(S!vars) PROVE FullInv'
<1>1. CASE S!HandOut
  BY <1>1, HandOutStep
<1>2. CASE S!JobHandOut
  BY <1>2, JobHandOutStep
<1>3. CASE S!TopUp
  BY <1>3, TopUpStep
<1>4. CASE UNCHANGED S!vars
  <2>1. /\ mode' = mode /\ amount' = amount /\ shares' = shares /\ offset' = offset
        /\ split' = split /\ given' = given
    BY <1>4 DEF S!vars
  <2>2. S!N' = S!N
    BY <2>1 DEF S!N
  <2>3. S!Members' = S!Members
    BY <2>2 DEF S!Members
  <2>4. S!Total' = S!Total /\ S!Left' = S!Left
    <3>1. S!Total = SumFunction(shares) /\ (S!Total = SumFunction(shares))'
      BY SumOfIs DEF S!Total
    <3>2. S!Left = amount - SumFunction(split) /\ (S!Left = amount - SumFunction(split))'
      BY SumOfIs DEF S!Left
    <3> QED BY <2>1, <3>1, <3>2
  <2>5. \A j : /\ S!Remainder(j)' = S!Remainder(j)
            /\ Quota(j)' = Quota(j) /\ S!Rotate(j)' = S!Rotate(j)
    BY <2>1, <2>2, <2>4 DEF S!Remainder, Quota, S!Rotate
  <2>6. Fraction' = Fraction
    BY <2>3, <2>5 DEF Fraction
  <2>7. \A k, j : S!Before(k, j)' <=> S!Before(k, j)
    BY <2>5 DEF S!Before
  <2>8. Asked' /\ (split \in [S!Members -> Nat])' /\ (given \subseteq S!Members)'
    BY <2>1, <2>2, <2>3, <2>4 DEF FullInv, SplitInv, Asked
  <2>9. Shared'
    BY <2>1, <2>3, <2>4, <2>5, <2>6, <2>7 DEF FullInv, SplitInv, Shared
  <2>10. JobShared' /\ Rotated'
    BY <2>1, <2>2, <2>3, <2>4, <2>5 DEF FullInv, SplitInv, JobShared, Rotated
  <2> QED BY <2>8, <2>9, <2>10 DEF FullInv, SplitInv
<1> QED BY <1>1, <1>2, <1>3, <1>4 DEF S!Next

\* So it holds throughout.
LEMMA SplitInvariant == ASSUME SplitSetting PROVE S!Spec => []FullInv
<1>1. S!Init => FullInv
  BY SplitInit
<1>2. FullInv /\ [S!Next]_(S!vars) => FullInv'
  BY SplitStep
<1> QED BY <1>1, <1>2, PTL DEF S!Spec

\* Every cent is handed out and none is invented, once the amounts are final.
THEOREM SplitAddsUp == ASSUME SplitSetting PROVE S!Spec => []S!AddsUp
<1>1. FullInv => S!AddsUp
  <2> SUFFICES ASSUME FullInv, S!Stopped PROVE S!SumOf(split) = amount
    BY DEF S!AddsUp
  <2>1. Asked /\ split \in [S!Members -> Nat] /\ Shared /\ JobShared
    BY DEF FullInv, SplitInv
  <2>2. S!Left = 0
    <3>1. CASE mode = "job equal"
      BY <2>1, <3>1 DEF S!Stopped, JobShared
    <3>2. ASSUME mode \in Apportioned, given = S!Members PROVE S!Left = 0
      <4>1. Fraction \ given = {}
        BY <3>2 DEF Fraction
      <4>2. Cardinality(Fraction \ given) = 0
        BY <4>1, FS_EmptySet
      <4>3. S!Left \in Int
        BY <2>1, LeftIsInt
      <4> QED BY <2>1, <3>2, <4>2, <4>3 DEF Shared
    <3>3. CASE mode \in Apportioned
      BY <3>2, <3>3 DEF S!Stopped, Apportioned
    <3>4. CASE mode \in {"job exact", "job percentage"}
      BY <3>4 DEF S!Stopped
    <3> QED BY <2>1, <3>1, <3>3, <3>4 DEF Asked, Modes, Apportioned
  <2>3. S!SumOf(split) \in Int /\ amount \in Int
    <3>1. IntegersOn(split, S!Members)
      BY <2>1, MembersFinite DEF IntegersOn
    <3> QED BY <2>1, <3>1, SumIsInt, SumOfIs, AmountIs
  <2> QED BY <2>2, <2>3 DEF S!Left
<1> QED BY <1>1, SplitInvariant, PTL

\* Nobody pays a whole cent more or less than the exact share, or anything for no share.
THEOREM SplitWithinQuota == ASSUME SplitSetting PROVE S!Spec => []S!WithinQuota
<1>1. FullInv => S!WithinQuota
  <2> SUFFICES ASSUME FullInv, mode \in Apportioned, NEW i \in S!Members
               PROVE  /\ split[i] * S!Total > amount * shares[i] - S!Total
                      /\ split[i] * S!Total < amount * shares[i] + S!Total
                      /\ shares[i] = 0 => split[i] = 0
    BY DEF S!WithinQuota, Apportioned
  <2> DEFINE T == S!Total
             q == Quota(i)
             R == S!Remainder(i)
             x == amount * shares[i]
             c == IF i \in given THEN 1 ELSE 0
  <2>0. Asked /\ Shared
    BY DEF FullInv, SplitInv
  <2>1. split[i] = q + c
    BY <2>0 DEF Shared
  <2>2. T \in Nat \ {0}
    BY <2>0 DEF Asked
  <2>3. x \in Nat /\ q \in Nat /\ R \in Nat /\ R < T /\ x = T * q + R
    BY <2>0, QuotaIs
  <2>4. c \in {0, 1} /\ (c = 1 => R > 0)
    BY <2>0 DEF Shared, Fraction
  <2>5. shares[i] = 0 => x = 0
    BY <2>0, AmountIs
  <2> HIDE DEF T, q, R, x, c
  <2>6. (q + c) * T = T * q + (IF c = 1 THEN T ELSE 0)
    <3>1. CASE c = 0
      BY <2>2, <2>3, <3>1
    <3>2. CASE c = 1
      BY <2>2, <2>3, <3>2
    <3> QED BY <2>4, <3>1, <3>2
  <2>7. (q + c) * T > x - T /\ (q + c) * T < x + T
    <3> DEFINE p == T * q
    <3>1. p \in Nat
      BY <2>2, <2>3
    <3>2. x = p + R /\ (q + c) * T = p + (IF c = 1 THEN T ELSE 0)
      BY <2>3, <2>6
    <3> HIDE DEF p
    <3> QED BY <2>2, <2>3, <2>4, <3>1, <3>2
  <2>8. x = 0 => q + c = 0
    <3> SUFFICES ASSUME x = 0 PROVE q + c = 0
      OBVIOUS
    <3>1. T * q \in Nat /\ T * q = 0 /\ R = 0
      BY <2>2, <2>3
    <3>2. q = 0
      BY <2>2, <2>3, <3>1
    <3> QED BY <2>4, <3>1, <3>2
  <2> QED BY <2>1, <2>5, <2>7, <2>8 DEF T, x
<1> QED BY <1>1, SplitInvariant, PTL

\* Whoever has more shares never pays less, once the amounts are final.
THEOREM SplitMoreSharesMorePaid == ASSUME SplitSetting PROVE S!Spec => []S!MoreSharesMorePaid
<1>1. FullInv => S!MoreSharesMorePaid
  <2> SUFFICES ASSUME FullInv, mode \in Apportioned,
                      NEW i \in S!Members, NEW j \in S!Members, shares[i] > shares[j]
               PROVE  split[i] >= split[j]
    BY DEF S!MoreSharesMorePaid, Apportioned
  <2> DEFINE T == S!Total
             a == shares[i]
             b == shares[j]
             x == amount * a
             y == amount * b
             p == Quota(i)
             q == Quota(j)
             A == S!Remainder(i)
             B == S!Remainder(j)
  <2>0. Asked /\ Shared /\ split \in [S!Members -> Nat]
    BY DEF FullInv, SplitInv
  <2>1. /\ split[i] = p + (IF i \in given THEN 1 ELSE 0)
        /\ split[j] = q + (IF j \in given THEN 1 ELSE 0)
    BY <2>0 DEF Shared
  <2>2. T \in Nat \ {0}
    BY <2>0 DEF Asked
  <2>3. /\ x \in Nat /\ p \in Nat /\ A \in Nat /\ A < T /\ x = T * p + A
        /\ y \in Nat /\ q \in Nat /\ B \in Nat /\ B < T /\ y = T * q + B
    BY <2>0, QuotaIs
  <2>4. j \in given /\ i \notin given => B >= A
    <3> SUFFICES ASSUME j \in given, i \notin given PROVE B >= A
      OBVIOUS
    <3>1. S!Before(j, i)
      BY <2>0 DEF Shared
    <3>2. B > A \/ B = A
      BY <3>1 DEF S!Before
    <3> HIDE DEF A, B
    <3> QED BY <2>3, <3>2
  <2>5. amount \in Nat \ {0} /\ a \in Nat /\ b \in Nat /\ a > b
    <3>1. a \in Nat /\ b \in Nat
      BY <2>0 DEF Asked
    <3>2. amount \in Nat \ {0}
      BY <2>0 DEF Asked
    <3> QED BY <3>1, <3>2
  <2>6. x > y
    <3> HIDE DEF a, b
    <3> QED BY <2>5
  <2> HIDE DEF T, a, b, x, y, p, q, A, B
  <2>7. p >= q /\ (p = q => A > B)
    <3>1. p >= q
      <4> SUFFICES ASSUME q >= p + 1 PROVE FALSE
        BY <2>3
      <4>1. T * q >= T * (p + 1)
        BY <2>2, <2>3
      <4>2. T * (p + 1) = T * p + T /\ T * p \in Nat /\ T * q \in Nat
        BY <2>2, <2>3
      <4> QED BY <2>2, <2>3, <2>6, <4>1, <4>2
    <3>2. ASSUME p = q PROVE A > B
      <4>1. T * p = T * q /\ T * p \in Nat
        BY <2>2, <2>3, <3>2
      <4> QED BY <2>3, <2>6, <4>1
    <3> QED BY <3>1, <3>2
  <2> QED BY <2>1, <2>3, <2>4, <2>7
<1> QED BY <1>1, SplitInvariant, PTL

\* In an even split the odd cents go round from the participant the rotation names.
THEOREM SplitTiesRotate == ASSUME SplitSetting PROVE S!Spec => []S!TiesRotate
<1>1. FullInv => S!TiesRotate
  <2> DEFINE n == S!N
             r == amount % n
             Named == {((offset + k) % n) + 1 : k \in 0..(r - 1)}
  <2> SUFFICES ASSUME FullInv, mode = "equal", S!Stopped
               PROVE  {i \in S!Members : split[i] > amount \div n} = Named
    BY DEF S!TiesRotate
  <2>0. Asked /\ Shared /\ Rotated /\ split \in [S!Members -> Nat] /\ given \subseteq S!Members
        /\ mode \in Apportioned
    BY DEF FullInv, SplitInv, Apportioned
  <2>1. n \in Nat \ {0} /\ r \in Nat /\ r < n /\ amount \div n \in Nat
    BY <2>0, DivMod, AmountIs DEF Asked
  <2>2. S!Left = 0
    <3>1. CASE given = S!Members
      <4>1. Fraction \ given = {}
        BY <3>1 DEF Fraction
      <4>2. Cardinality(Fraction \ given) = 0
        BY <4>1, FS_EmptySet
      <4>3. S!Left \in Int
        BY <2>0, LeftIsInt
      <4> QED BY <2>0, <4>2, <4>3 DEF Shared
    <3> QED BY <3>1 DEF S!Stopped
  <2>3. given = {i \in S!Members : S!Rotate(i) < r}
    <3>1. given = {i \in S!Members : S!Rotate(i) < r - 0}
      BY <2>0, <2>2 DEF Rotated
    <3> HIDE DEF r
    <3>2. r - 0 = r
      BY <2>1
    <3> QED BY <3>1, <3>2
  <2>4. {i \in S!Members : split[i] > amount \div n} = given
    <3>1. \A i \in S!Members : split[i] = (amount \div n) + (IF i \in given THEN 1 ELSE 0)
      <4> TAKE i \in S!Members
      <4>1. \A j \in S!Members : shares[j] = 1
        BY <2>0 DEF Asked
      <4>2. S!Total = n
        BY <2>0, <4>1, EvenTotal
      <4>3. amount * shares[i] = amount
        BY <2>0, <4>1, AmountIs, TimesOne
      <4>4. Quota(i) = amount \div n
        BY <4>2, <4>3 DEF Quota
      <4> QED BY <2>0, <4>4 DEF Shared
    <3> DEFINE d == amount \div n
    <3> HIDE DEF d
    <3>2. \A i \in S!Members : split[i] > d <=> i \in given
      BY <2>1, <3>1 DEF d
    <3> QED BY <2>0, <3>2 DEF d
  <2>5. given \subseteq Named
    <3> SUFFICES ASSUME NEW i \in S!Members, S!Rotate(i) < r PROVE i \in Named
      BY <2>3
    <3> DEFINE k == S!Rotate(i)
               m == ((offset + k) % n) + 1
    <3>1. k \in 0..(n - 1)
      BY <2>0, RotateIs
    <3>2. m \in S!Members /\ S!Rotate(m) = k
      <4> HIDE DEF k
      <4> QED BY <2>0, <3>1, RotateReaches
    <3>3. i = m
      <4> HIDE DEF m
      <4> QED BY <2>0, <3>2, RotateTellsApart
    <3>4. k \in 0..(r - 1)
      <4> HIDE DEF k, r, n
      <4>1. k < r
        BY DEF k
      <4> QED BY <2>1, <3>1, <4>1
    <3> HIDE DEF k
    <3> QED BY <3>3, <3>4
  <2>6. Named \subseteq given
    <3> SUFFICES ASSUME NEW k \in 0..(r - 1) PROVE ((offset + k) % n) + 1 \in given
      OBVIOUS
    <3>1. k \in 0..(n - 1) /\ k < r
      <4> HIDE DEF r, n
      <4> QED BY <2>1
    <3> QED BY <2>0, <2>3, <3>1, RotateReaches
  <2> QED BY <2>4, <2>5, <2>6
<1> QED BY <1>1, SplitInvariant, PTL

-----------------------------------------------------------------------------
(***************************************************************************)
(* Proofs about Rates.  Whoever is under way has passed over what it could *)
(* not use: the user's rates, the tables asked and the pivots before.  The *)
(* tables quote what the providers have, and those of a day are not older; *)
(* so a rate is one of the request's days, and "no rate" is true, unless   *)
(* an upstream failed.                                                     *)
(***************************************************************************)
CONSTANTS Currency, Pivots, Frankfurter, Fallback, Worth, Pairs, Override, Request,
          failedFetchTTL, DayLength, LastTime

VARIABLES now, cache, call

X == INSTANCE Rates

\* Days are stretches of time; rates are numbers, those of users too; nobody converts a
\* currency to itself.
RatesSetting ==
    /\ DayLength \in Nat \ {0} /\ LastTime \in Nat
    /\ Pivots \in Seq(Currency) /\ Pairs \subseteq Currency \X Currency
    /\ Frankfurter \subseteq Currency /\ Fallback \in [Currency -> SUBSET Currency]
    /\ Worth \in [X!Days -> [Currency -> Int]]
    /\ \A ov \in Override, p \in Currency \X Currency : p \in DOMAIN ov => ov[p] \in Int

\* What a pair may yield to a request up to a day
RatesOf(c, d, x, y) ==
    IF X!HasOverride(c.ov, x, y) THEN {X!OverrideRate(c.ov, x, y)}
    ELSE {Worth[e][x] - Worth[e][y] : e \in c.since..d}

\* A table quotes what one of its providers has, of a day that has come by time t.
TableRight(b, d, table, t) ==
    /\ table.quotes \subseteq X!FullTable(b) /\ (table.err => table.quotes = {})
    /\ table.of <= X!Day(t)
    /\ table.known /\ ~table.err => table.of >= d

\* Who is under way passed over the user's rates of what it asks the tables for, and has
\* the first leg right.
OnItsWay(c, t) ==
    /\ c.pair \in Pairs /\ c.ov \in Override /\ c.since <= X!Day(t)
    /\ c.via = 0 => ~c.onward
    /\ c.via > 0 => c.via \in X!Through(c.pair) /\ ~X!HasOverride(c.ov, c.pair[1], c.pair[2])
    /\ c.side = 2 => ~X!HasOverride(c.ov, X!Leg(c)[1], X!Leg(c)[2])
    /\ c.onward => c.first \in RatesOf(c, X!Day(t), c.pair[1], Pivots[c.via])

AskedRight(c, t) == c.at <= t /\ c.since <= X!Day(c.at) /\ ~X!HasOverride(c.ov, X!Leg(c)[1], X!Leg(c)[2])

\* Unless an upstream failed, what it passed over is not to be had.
Crossed(c, k) == X!Related(c.ov, c.pair[1], Pivots[k]) /\ X!Related(c.ov, Pivots[k], c.pair[2])

Missed(c) ==
    /\ c.via > 0 => ~X!Related(c.ov, c.pair[1], c.pair[2])
    /\ \A k \in X!Through(c.pair) : k < c.via => ~Crossed(c, k)
    /\ c.side = 2 => X!Leg(c)[2] \notin X!FullTable(X!Leg(c)[1])

\* What it answered
Answered(c) ==
    \/ c.rate \in X!LegRates(c, c.pair[1], c.pair[2])
    \/ /\ ~X!HasOverride(c.ov, c.pair[1], c.pair[2])
       /\ \E k \in X!Through(c.pair) :
            \E a \in X!LegRates(c, c.pair[1], Pivots[k]), b \in X!LegRates(c, Pivots[k], c.pair[2]) : c.rate = a + b

CallRight(c, t) ==
    /\ c.pc \in {"ask", "fetch"} => OnItsWay(c, t) /\ (~c.poor => Missed(c))
    /\ c.pc = "fetch" => AskedRight(c, t)
    /\ c.pc = "done" /\ c.ok => Answered(c)
    /\ c.pc = "done" /\ ~c.ok /\ ~c.poor => ~X!Linked(c.ov, c.pair[1], c.pair[2])

RatesInv ==
    /\ X!TypeOK
    /\ \A b \in Currency, d \in X!Days : TableRight(b, d, cache[<<b, d>>], now)
    /\ \A r \in Request : CallRight(call[r], now)

UnderWay(c, t) == c \in X!CallState /\ OnItsWay(c, t) /\ (~c.poor => Missed(c))

\* Days follow the time.
LEMMA DayFollows ==
  ASSUME RatesSetting, NEW s \in Nat, NEW t \in Nat, s <= t
  PROVE  X!Day(s) \in Nat /\ X!Day(t) \in Nat /\ X!Day(s) <= X!Day(t)
<1> DEFINE L == DayLength  a == s \div L  b == t \div L
<1>1. L \in Nat \ {0}
  BY DEF RatesSetting
<1>2. /\ a \in Nat /\ s = L * a + (s % L) /\ s % L \in Nat /\ s % L < L
      /\ b \in Nat /\ t = L * b + (t % L) /\ t % L \in Nat /\ t % L < L
  BY <1>1
<1>3. a <= b
  <2>1. SUFFICES ASSUME b + 1 <= a PROVE FALSE
    BY <1>2
  <2> DEFINE e == a - b - 1
  <2>2. e \in Nat /\ a = b + 1 + e
    BY <1>2, <2>1
  <2> HIDE DEF a, b, e
  <2>3. L * a = L * b + L + L * e /\ L * e \in Nat /\ L * b \in Nat /\ L * a \in Nat
    BY <1>1, <1>2, <2>2
  <2> DEFINE u == s % L  v == t % L  p == L * a  q == L * b  z == L * e
  <2>4. /\ u \in Nat /\ v \in Nat /\ v < L /\ s = p + u /\ t = q + v /\ p = q + L + z
        /\ z \in Nat /\ q \in Nat /\ p \in Nat
    BY <1>2, <2>3
  <2> HIDE DEF u, v, p, q, z
  <2> QED BY <1>1, <2>4
<1> QED BY <1>2, <1>3 DEF X!Day

\* The least of some numbers
LEMMA Least == ASSUME NEW N \in SUBSET Nat, N # {} PROVE \E k \in N : \A l \in N : k <= l
<1>1. PICK n \in N : TRUE
  OBVIOUS
<1> DEFINE few == {k \in N : k <= n}
           B == {1..k : k \in few}
<1>2. IsFiniteSet(1..n)
  BY FS_Interval
<1>3. B \subseteq SUBSET (1..n) /\ B # {}
  BY <1>1
<1>4. \A U \in B : \E k \in few : U = 1..k
  OBVIOUS
<1>5. \A l \in few : 1..l \in B
  OBVIOUS
<1> HIDE DEF B
<1>6. PICK T \in B : \A U \in B : U \subseteq T => U = T
  <2> DEFINE R == 1..n
  <2>1. IsFiniteSet(R) /\ B \subseteq SUBSET R /\ B # {}
    BY <1>2, <1>3
  <2> HIDE DEF R
  <2> QED BY <2>1, Smallest
<1>7. PICK k \in few : T = 1..k
  BY <1>4, <1>6
<1>8. ASSUME NEW l \in N, l < k PROVE FALSE
  <2>1. l \in few /\ 1..l \subseteq 1..k /\ k \in 1..k /\ k \notin 1..l
    BY <1>7, <1>8
  <2> QED BY <1>5, <1>6, <1>7, <2>1
<1> QED BY <1>7, <1>8

\* The currencies of a leg are some, and rates between some are numbers.
LEMMA LegsAre ==
  ASSUME RatesSetting, now \in 0..LastTime, NEW c, UnderWay(c, now)
  PROVE  /\ X!Leg(c)[1] \in Currency /\ X!Leg(c)[2] \in Currency
         /\ RatesOf(c, X!Day(now), X!Leg(c)[1], X!Leg(c)[2]) \subseteq Int
         /\ X!Day(now) \in X!Days /\ X!Day(now) \in Nat /\ c.since \in Nat
<1>1. /\ c.pair \in Currency \X Currency /\ c.via \in Nat /\ (c.via > 0 => c.via \in DOMAIN Pivots)
      /\ c.ov \in Override /\ c.since \in Nat
  BY DEF UnderWay, OnItsWay, RatesSetting, X!CallState, X!Through
<1>2. \A k \in DOMAIN Pivots : Pivots[k] \in Currency
  BY DEF RatesSetting
<1>3. X!Leg(c)[1] \in Currency /\ X!Leg(c)[2] \in Currency
  <2>1. CASE c.via = 0
    BY <1>1, <2>1 DEF X!Leg
  <2>2. CASE c.via > 0 /\ c.onward
    BY <1>1, <1>2, <2>2 DEF X!Leg
  <2>3. CASE c.via > 0 /\ ~c.onward
    BY <1>1, <1>2, <2>3 DEF X!Leg
  <2> QED BY <1>1, <2>1, <2>2, <2>3
<1>4. X!Day(now) \in Nat /\ X!Day(now) \in 0..X!Day(LastTime)
  BY DayFollows DEF RatesSetting
<1> DEFINE x == X!Leg(c)[1]  y == X!Leg(c)[2]
<1>5. RatesOf(c, X!Day(now), x, y) \subseteq Int
  <2> HIDE DEF x, y
  <2> SUFFICES ASSUME x \in Currency, y \in Currency PROVE RatesOf(c, X!Day(now), x, y) \subseteq Int
    BY <1>3 DEF x, y
  <2>1. CASE X!HasOverride(c.ov, x, y)
    <3>1. <<x, y>> \in DOMAIN c.ov => c.ov[<<x, y>>] \in Int
      BY <1>1 DEF RatesSetting
    <3>2. <<y, x>> \in DOMAIN c.ov => c.ov[<<y, x>>] \in Int
      BY <1>1 DEF RatesSetting
    <3>3. X!OverrideRate(c.ov, x, y) \in Int
      BY <2>1, <3>1, <3>2 DEF X!HasOverride, X!OverrideRate
    <3> QED BY <2>1, <3>3 DEF RatesOf
  <2>2. CASE ~X!HasOverride(c.ov, x, y)
    <3> DEFINE m == X!Day(now)  l == X!Day(LastTime)
    <3>0. m \in Nat /\ l \in Nat /\ m <= l /\ c.since \in Nat /\ X!Days = 0..l
      BY <1>1, <1>4, DayFollows DEF RatesSetting, X!Days
    <3>1. \A e \in c.since..X!Day(now) : e \in X!Days
      <4> HIDE DEF m, l
      <4>1. \A e \in c.since..m : e \in X!Days
        BY <3>0
      <4> QED BY <4>1 DEF m
    <3>2. \A e \in X!Days : Worth[e][x] \in Int /\ Worth[e][y] \in Int
      BY DEF RatesSetting
    <3> QED BY <2>2, <3>1, <3>2 DEF RatesOf
  <2> QED BY <2>1, <2>2
<1> QED BY <1>1, <1>3, <1>4, <1>5 DEF X!Days

\* What an answer leaves of a request
LEMMA EndedRight ==
  ASSUME RatesSetting, now \in 0..LastTime, NEW c \in X!CallState, NEW rate \in Int,
         NEW ok \in BOOLEAN, NEW d, d = X!Ended(c, ok, rate)
  PROVE  /\ d \in X!CallState /\ d.pc = "done" /\ d.rate = rate /\ d.at = X!Day(now)
         /\ d.pair = c.pair /\ d.ov = c.ov /\ d.since = c.since /\ d.poor = c.poor
<1> DEFINE day == X!Day(now)
           zero == 0
           e == [c EXCEPT !.via = zero, !.onward = FALSE, !.side = 1, !.first = zero]
           h == [e EXCEPT !.pc = "done", !.rate = rate, !.at = day]
<1>1. day \in Nat /\ zero \in 0..Len(Pivots) /\ zero \in Int
  BY DayFollows DEF RatesSetting
<1>2. e = [c EXCEPT !.via = zero, !.onward = FALSE, !.side = 1, !.first = zero]
  OBVIOUS
<1>3. h = [e EXCEPT !.pc = "done", !.rate = rate, !.at = day]
  OBVIOUS
<1>4. d = [h EXCEPT !.ok = ok]
  BY DEF X!Ended, X!CallState
<1> HIDE DEF e, h, day, zero
<1>5. e \in X!CallState /\ e.pair = c.pair /\ e.ov = c.ov /\ e.since = c.since /\ e.poor = c.poor
  BY <1>1, <1>2 DEF X!CallState
<1>6. /\ h \in X!CallState /\ h.pc = "done" /\ h.rate = rate /\ h.at = day
      /\ h.pair = c.pair /\ h.ov = c.ov /\ h.since = c.since /\ h.poor = c.poor
  BY <1>1, <1>3, <1>5 DEF X!CallState
<1>7. /\ d \in X!CallState /\ d.pc = "done" /\ d.rate = rate /\ d.at = day
      /\ d.pair = h.pair /\ d.ov = h.ov /\ d.since = h.since /\ d.poor = h.poor
  BY <1>4, <1>6 DEF X!CallState
<1> QED BY <1>6, <1>7 DEF day

\* A rate found for a leg is the answer, or the first half of one.
LEMMA FoundRight ==
  ASSUME RatesSetting, now \in 0..LastTime, NEW c, UnderWay(c, now),
         NEW rate \in RatesOf(c, X!Day(now), X!Leg(c)[1], X!Leg(c)[2])
  PROVE  X!Found(c, rate) \in X!CallState /\ CallRight(X!Found(c, rate), now)
<1> DEFINE d == X!Found(c, rate)
<1>1. /\ rate \in Int /\ X!Day(now) \in Nat /\ c \in X!CallState /\ c.via \in Nat /\ c.first \in Int
      /\ c.onward \in BOOLEAN
  BY LegsAre DEF UnderWay, X!CallState
<1>2. CASE c.via > 0 /\ ~c.onward
  <2>1. d = [c EXCEPT !.pc = "ask", !.onward = TRUE, !.side = 1, !.first = rate]
    BY <1>2 DEF X!Found
  <2> HIDE DEF d
  <2>2. /\ d \in X!CallState /\ d.pc = "ask" /\ d.pair = c.pair /\ d.ov = c.ov /\ d.via = c.via
        /\ d.onward /\ d.side = 1 /\ d.first = rate /\ d.since = c.since /\ d.poor = c.poor
    BY <1>1, <2>1 DEF X!CallState
  <2>3. X!Leg(c)[1] = c.pair[1] /\ X!Leg(c)[2] = Pivots[c.via]
    BY <1>1, <1>2 DEF X!Leg
  <2>4. RatesOf(d, X!Day(now), c.pair[1], Pivots[c.via]) = RatesOf(c, X!Day(now), c.pair[1], Pivots[c.via])
    BY <2>2 DEF RatesOf
  <2>5. OnItsWay(d, now)
    BY <1>1, <1>2, <2>2, <2>3, <2>4 DEF OnItsWay, UnderWay
  <2>6. ~d.poor => Missed(d)
    BY <1>1, <1>2, <2>2 DEF Missed, UnderWay, Crossed
  <2>7. CallRight(d, now)
    BY <2>2, <2>5, <2>6 DEF CallRight
  <2> QED BY <2>2, <2>7 DEF d
<1>3. CASE c.via = 0 \/ c.onward
  <2>1. PICK total \in Int : total = IF c.onward THEN c.first + rate ELSE rate
    BY <1>1
  <2>2. d = X!Ended(c, TRUE, total)
    <3>1. ~(c.via > 0 /\ ~c.onward)
      BY <1>1, <1>3
    <3> QED BY <2>1, <3>1 DEF X!Found
  <2> HIDE DEF d
  <2>3. /\ d \in X!CallState /\ d.pc = "done" /\ d.ok /\ d.rate = total /\ d.at = X!Day(now)
        /\ d.pair = c.pair /\ d.ov = c.ov /\ d.since = c.since
    <3>1. d.ok
      BY <1>1, <2>2 DEF X!CallState, X!Ended
    <3>2. PICK ok \in BOOLEAN : d = X!Ended(c, ok, total)
      BY <2>2
    <3>3. /\ d \in X!CallState /\ d.pc = "done" /\ d.rate = total /\ d.at = X!Day(now)
          /\ d.pair = c.pair /\ d.ov = c.ov /\ d.since = c.since
      BY <1>1, <3>2, EndedRight
    <3> QED BY <3>1, <3>3
  <2>4. \A x, y : X!LegRates(d, x, y) = RatesOf(c, X!Day(now), x, y)
    BY <2>3 DEF X!LegRates, RatesOf
  <2>5. Answered(d)
    <3>1. CASE c.via = 0
      <4>1. ~c.onward /\ X!Leg(c) = c.pair
        BY <3>1 DEF X!Leg, UnderWay, OnItsWay
      <4> QED BY <2>1, <2>3, <2>4, <4>1 DEF Answered
    <3>2. CASE c.via > 0 /\ c.onward
      <4>1. /\ c.first \in RatesOf(c, X!Day(now), c.pair[1], Pivots[c.via]) /\ c.via \in X!Through(c.pair)
            /\ ~X!HasOverride(c.ov, c.pair[1], c.pair[2])
        BY <3>2 DEF UnderWay, OnItsWay
      <4>2. X!Leg(c)[1] = Pivots[c.via] /\ X!Leg(c)[2] = c.pair[2]
        BY <1>1, <3>2 DEF X!Leg
      <4> QED BY <2>1, <2>3, <2>4, <3>2, <4>1, <4>2 DEF Answered
    <3> QED BY <1>1, <1>3, <3>1, <3>2 DEF UnderWay, OnItsWay
  <2>6. CallRight(d, now)
    BY <2>3, <2>5 DEF CallRight
  <2> QED BY <2>3, <2>6 DEF d
<1> QED BY <1>1, <1>2, <1>3

\* A leg with no rate ends the search or sends it to the next pivot.
LEMMA NotFoundRight ==
  ASSUME RatesSetting, now \in 0..LastTime, NEW c, UnderWay(c, now),
         ~X!HasOverride(c.ov, X!Leg(c)[1], X!Leg(c)[2]),
         ~c.poor => ~X!Related(c.ov, X!Leg(c)[1], X!Leg(c)[2])
  PROVE  X!NotFound(c) \in X!CallState /\ CallRight(X!NotFound(c), now)
<1> DEFINE d == X!NotFound(c)
           ahead == {k \in X!Through(c.pair) : k > c.via}
<1>1. /\ X!Day(now) \in Nat /\ c \in X!CallState /\ c.via \in 0..Len(Pivots) /\ c.onward \in BOOLEAN
      /\ OnItsWay(c, now) /\ (~c.poor => Missed(c)) /\ Len(Pivots) \in Nat /\ DOMAIN Pivots = 1..Len(Pivots)
  BY LegsAre DEF UnderWay, X!CallState, RatesSetting
<1>2. \A k \in X!Through(c.pair) : k \in 1..Len(Pivots) /\ k \in Nat
  BY <1>1 DEF X!Through
<1>3. c.via = 0 => ~X!HasOverride(c.ov, c.pair[1], c.pair[2]) /\ (~c.poor => ~X!Related(c.ov, c.pair[1], c.pair[2]))
  BY DEF X!Leg
<1>4. c.via > 0 /\ ~c.poor => ~Crossed(c, c.via)
  <2>1. CASE c.onward
    BY <1>1, <2>1 DEF X!Leg, Crossed
  <2>2. CASE ~c.onward
    BY <1>1, <2>2 DEF X!Leg, Crossed
  <2> QED BY <1>1, <2>1, <2>2
<1>5. ~c.poor => /\ ~X!Related(c.ov, c.pair[1], c.pair[2])
                 /\ \A k \in X!Through(c.pair) : k <= c.via => ~Crossed(c, k)
  <2>1. ~c.poor => ~X!Related(c.ov, c.pair[1], c.pair[2])
    BY <1>1, <1>3 DEF Missed
  <2>2. ASSUME ~c.poor, NEW k \in X!Through(c.pair), k <= c.via PROVE ~Crossed(c, k)
    <3>1. CASE k < c.via
      BY <1>1, <2>2, <3>1 DEF Missed
    <3>2. CASE k = c.via
      BY <1>1, <1>2, <1>4, <2>2, <3>2
    <3> QED BY <1>1, <1>2, <2>2, <3>1, <3>2
  <2> QED BY <2>1, <2>2
<1>6. CASE ahead = {}
  <2>1. d = X!Ended(c, FALSE, 0)
    BY <1>6 DEF X!NotFound
  <2> HIDE DEF d
  <2>2. /\ d \in X!CallState /\ d.pc = "done" /\ ~d.ok /\ d.pair = c.pair /\ d.ov = c.ov /\ d.poor = c.poor
    <3>1. ~d.ok
      BY <1>1, <2>1 DEF X!CallState, X!Ended
    <3>2. PICK ok \in BOOLEAN : d = X!Ended(c, ok, 0)
      BY <2>1
    <3>3. d \in X!CallState /\ d.pc = "done" /\ d.pair = c.pair /\ d.ov = c.ov /\ d.poor = c.poor
      BY <1>1, <3>2, EndedRight
    <3> QED BY <3>1, <3>3
  <2>3. ASSUME ~c.poor PROVE ~X!Linked(c.ov, c.pair[1], c.pair[2])
    <3> SUFFICES ASSUME NEW k \in DOMAIN Pivots, Crossed(c, k) PROVE FALSE
      BY <1>5, <2>3 DEF X!Linked, Crossed
    <3>1. Pivots[k] # c.pair[1] /\ Pivots[k] # c.pair[2]
      BY <1>5, <2>3 DEF Crossed
    <3>2. k \in X!Through(c.pair) /\ k \in Nat
      BY <1>2, <3>1 DEF X!Through
    <3>3. k <= c.via
      BY <1>1, <1>6, <3>2
    <3> QED BY <1>5, <2>3, <3>2, <3>3
  <2>4. CallRight(d, now)
    BY <2>2, <2>3 DEF CallRight
  <2> QED BY <2>2, <2>4 DEF d
<1>7. CASE ahead # {}
  <2> DEFINE k == CHOOSE l \in ahead : \A m \in ahead : l <= m
  <2>1. d = [c EXCEPT !.pc = "ask", !.via = k, !.onward = FALSE, !.side = 1]
    BY <1>7 DEF X!NotFound
  <2>2. ahead \subseteq Nat
    BY <1>2
  <2>3. \E l \in ahead : \A m \in ahead : l <= m
    <3> HIDE DEF ahead
    <3> QED BY <1>7, <2>2, Least
  <2>4. k \in ahead /\ \A m \in ahead : k <= m
    BY <2>3
  <2>5. k \in X!Through(c.pair) /\ k > c.via /\ k \in 1..Len(Pivots)
    BY <1>2, <2>4
  <2>6. \A m \in X!Through(c.pair) : m < k => m <= c.via
    BY <1>1, <1>2, <2>4, <2>5
  <2>0. k \in 0..Len(Pivots) /\ c \in X!CallState
    BY <1>1, <2>5
  <2> HIDE DEF d, k, ahead
  <2>7. /\ d \in X!CallState /\ d.pc = "ask" /\ d.pair = c.pair /\ d.ov = c.ov /\ d.via = k
        /\ ~d.onward /\ d.side = 1 /\ d.since = c.since /\ d.poor = c.poor
    BY <2>0, <2>1 DEF X!CallState
  <2>8. OnItsWay(d, now)
    BY <1>1, <1>3, <2>5, <2>7 DEF OnItsWay
  <2>9. ~d.poor => Missed(d)
    BY <1>5, <2>6, <2>7 DEF Missed, Crossed
  <2>10. CallRight(d, now)
    BY <2>7, <2>8, <2>9 DEF CallRight
  <2> QED BY <2>7, <2>10 DEF d
<1> QED BY <1>6, <1>7

\* A table gives the rate or the next thing to ask.
LEMMA UseRight ==
  ASSUME RatesSetting, now \in 0..LastTime, NEW c, UnderWay(c, now),
         ~X!HasOverride(c.ov, X!Leg(c)[1], X!Leg(c)[2]), NEW table \in X!Table,
         X!Quote(c) \in table.quotes => c.since <= table.of /\ table.of <= X!Day(now)
  PROVE  X!Use(c, table) \in X!CallState /\ CallRight(X!Use(c, table), now)
<1> DEFINE d == X!Use(c, table)
           seen == [c EXCEPT !.poor = @ \/ table.quotes # X!FullTable(X!Base(c))]
           x == X!Leg(c)[1]
           y == X!Leg(c)[2]
<1>1. /\ c \in X!CallState /\ c.side \in {1, 2} /\ x \in Currency /\ y \in Currency
      /\ X!Day(now) \in Nat /\ c.since \in Nat /\ table.of \in X!Days /\ table.of \in Nat
  <2>1. c \in X!CallState /\ c.side \in {1, 2} /\ table.of \in X!Days
    BY DEF UnderWay, X!CallState, X!Table
  <2>2. X!Days \subseteq Nat
    BY DEF X!Days
  <2> QED BY <2>1, <2>2, LegsAre
<1>2. /\ seen \in X!CallState /\ \A f \in {"pc", "pair", "ov", "via", "onward", "side", "first", "since"} : seen[f] = c[f]
      /\ ~seen.poor => ~c.poor /\ table.quotes = X!FullTable(X!Base(c))
  BY <1>1 DEF X!CallState
<1>3. d = IF X!Quote(c) \in table.quotes THEN X!Found(seen, X!Turned(c, table))
          ELSE IF c.side < 2 THEN [seen EXCEPT !.pc = "ask", !.side = 2] ELSE X!NotFound(seen)
  BY DEF X!Use, X!Sides
<1> HIDE DEF d, seen
<1>4. /\ seen.pair = c.pair /\ seen.ov = c.ov /\ seen.via = c.via /\ seen.onward = c.onward /\ seen.side = c.side
      /\ seen.first = c.first /\ seen.since = c.since
  BY <1>2
<1>5. X!Leg(seen) = X!Leg(c)
  BY <1>4 DEF X!Leg
<1>6. \A u, v : RatesOf(seen, X!Day(now), u, v) = RatesOf(c, X!Day(now), u, v)
  BY <1>4 DEF RatesOf
<1>7. UnderWay(seen, now)
  <2>1. OnItsWay(seen, now)
    BY <1>4, <1>5, <1>6 DEF UnderWay, OnItsWay
  <2>2. ~seen.poor => Missed(seen)
    BY <1>2, <1>4, <1>5 DEF UnderWay, Missed, Crossed
  <2> QED BY <1>2, <2>1, <2>2 DEF UnderWay
<1>8. /\ c.side = 1 => X!Base(c) = x /\ X!Quote(c) = y
      /\ c.side = 2 => X!Base(c) = y /\ X!Quote(c) = x
  BY DEF X!Base, X!Quote
<1>9. CASE X!Quote(c) \in table.quotes
  <2>1. X!Turned(c, table) = Worth[table.of][x] - Worth[table.of][y]
    <3>1. Worth[table.of][x] \in Int /\ Worth[table.of][y] \in Int
      BY <1>1 DEF RatesSetting
    <3>2. CASE c.side = 1
      BY <1>8, <3>2 DEF X!Turned, X!Rate1
    <3>3. CASE c.side = 2
      BY <1>8, <3>1, <3>3 DEF X!Turned, X!Rate1
    <3> QED BY <1>1, <3>2, <3>3
  <2>2. X!Turned(c, table) \in RatesOf(seen, X!Day(now), X!Leg(seen)[1], X!Leg(seen)[2])
    <3>1. table.of \in c.since..X!Day(now)
      BY <1>1, <1>9
    <3>2. X!Turned(c, table) \in RatesOf(c, X!Day(now), x, y)
      BY <2>1, <3>1 DEF RatesOf
    <3> QED BY <1>5, <1>6, <3>2
  <2>3. X!Found(seen, X!Turned(c, table)) \in X!CallState /\ CallRight(X!Found(seen, X!Turned(c, table)), now)
    BY <1>7, <2>2, FoundRight
  <2> QED BY <1>3, <1>9, <2>3 DEF d
<1>10. CASE X!Quote(c) \notin table.quotes /\ c.side = 1
  <2>1. d = [seen EXCEPT !.pc = "ask", !.side = 2]
    BY <1>3, <1>10
  <2>2. /\ d \in X!CallState /\ d.pc = "ask" /\ d.pair = c.pair /\ d.ov = c.ov /\ d.via = c.via
        /\ d.onward = c.onward /\ d.side = 2 /\ d.first = c.first /\ d.since = c.since /\ d.poor = seen.poor
    BY <1>2, <1>4, <2>1 DEF X!CallState
  <2>3. X!Leg(d) = X!Leg(c)
    BY <2>2 DEF X!Leg
  <2>4. \A u, v : RatesOf(d, X!Day(now), u, v) = RatesOf(c, X!Day(now), u, v)
    BY <2>2 DEF RatesOf
  <2>5. OnItsWay(d, now)
    BY <2>2, <2>3, <2>4 DEF UnderWay, OnItsWay
  <2>6. ~d.poor => Missed(d)
    BY <1>2, <1>8, <1>10, <2>2, <2>3 DEF UnderWay, Missed, Crossed
  <2>7. CallRight(d, now)
    BY <2>2, <2>5, <2>6 DEF CallRight
  <2> QED BY <2>2, <2>7 DEF d
<1>11. CASE X!Quote(c) \notin table.quotes /\ c.side = 2
  <2>1. d = X!NotFound(seen)
    BY <1>3, <1>11
  <2>2. ~seen.poor => ~X!Related(seen.ov, X!Leg(seen)[1], X!Leg(seen)[2])
    <3>1. ~seen.poor => x \notin X!FullTable(y) /\ y \notin X!FullTable(x)
      BY <1>2, <1>8, <1>11 DEF UnderWay, Missed
    <3> QED BY <1>4, <1>5, <3>1 DEF X!Related
  <2>3. X!NotFound(seen) \in X!CallState /\ CallRight(X!NotFound(seen), now)
    BY <1>4, <1>5, <1>7, <2>2, NotFoundRight
  <2> QED BY <2>1, <2>3 DEF d
<1> QED BY <1>1, <1>9, <1>10, <1>11

\* Whoever is asked answers with a table of what the providers have, of a day that has come.
LEMMA LatestRight ==
  ASSUME RatesSetting, now \in 0..LastTime, NEW b \in Currency, NEW at \in Nat, at <= now,
         NEW table \in X!Latest(b, at)
  PROVE  /\ table \in X!Table /\ TableRight(b, X!Day(at), table, now) /\ X!Day(at) <= table.of
<1>1. PICK q \in X!Answers(b) \cup {{}}, d \in {X!Day(at), X!Day(now)} :
        table = [known |-> TRUE, err |-> q = {}, quotes |-> q, of |-> d, fetched |-> IF q = {} THEN at ELSE 0]
  BY DEF X!Latest
<1>2. q \subseteq X!FullTable(b) /\ X!FullTable(b) \subseteq Currency
  BY DEF X!Answers, X!FullTable, X!Quoted, X!Others, RatesSetting
<1>3. /\ X!Day(at) \in Nat /\ X!Day(now) \in Nat /\ X!Day(at) <= X!Day(now)
      /\ X!Day(now) <= X!Day(LastTime) /\ X!Day(LastTime) \in Nat
  BY DayFollows DEF RatesSetting
<1>4. d \in Nat /\ X!Day(at) <= d /\ d <= X!Day(now) /\ d \in X!Days
  BY <1>3 DEF X!Days
<1>5. (IF q = {} THEN at ELSE 0) \in 0..LastTime
  BY DEF RatesSetting
<1>6. (q = {}) \in BOOLEAN
  OBVIOUS
<1>7. table \in X!Table
  BY <1>1, <1>2, <1>4, <1>5, <1>6 DEF X!Table
<1>8. table.quotes = q /\ table.of = d /\ (table.err <=> q = {})
  BY <1>1
<1> QED BY <1>2, <1>4, <1>7, <1>8 DEF TableRight

\* Time passes, and what was right stays so.
LEMMA StillRight ==
  ASSUME RatesSetting, NEW t \in Nat, NEW c \in X!CallState, CallRight(c, t) PROVE CallRight(c, t + 1)
<1>1. X!Day(t) \in Nat /\ X!Day(t + 1) \in Nat /\ X!Day(t) <= X!Day(t + 1)
  BY DayFollows
<1>2. c.since \in Nat /\ c.at \in Nat
  BY DEF X!CallState
<1>3. \A x, y : RatesOf(c, X!Day(t), x, y) \subseteq RatesOf(c, X!Day(t + 1), x, y)
  <2> DEFINE d == X!Day(t)  e == X!Day(t + 1)
  <2>1. d \in Nat /\ e \in Nat /\ d <= e
    BY <1>1
  <2> HIDE DEF d, e
  <2>2. c.since..d \subseteq c.since..e
    BY <1>2, <2>1
  <2>3. \A x, y : RatesOf(c, d, x, y) \subseteq RatesOf(c, e, x, y)
    BY <2>2 DEF RatesOf
  <2> QED BY <2>3 DEF d, e
<1>4. OnItsWay(c, t) => OnItsWay(c, t + 1)
  BY <1>1, <1>2, <1>3 DEF OnItsWay
<1>5. AskedRight(c, t) => AskedRight(c, t + 1)
  BY <1>2 DEF AskedRight
<1> QED BY <1>4, <1>5 DEF CallRight

\* To begin with there are no tables and no conversions.
LEMMA RatesStart == ASSUME RatesSetting, X!Init PROVE RatesInv
<1>1. /\ 0 \in 0..LastTime /\ X!Day(0) = 0 /\ X!Day(LastTime) \in Nat /\ 0 \in X!Days
      /\ Len(Pivots) \in Nat
  <2>1. X!Day(0) = 0
    BY DEF X!Day, RatesSetting
  <2> QED BY <2>1, DayFollows DEF X!Days, RatesSetting
<1>2. X!NoTable \in X!Table
  BY <1>1 DEF X!NoTable, X!Table
<1>3. X!NoCall \in X!CallState /\ X!NoCall.pc = "idle"
  BY <1>1 DEF X!NoCall, X!CallState
<1>4. X!TypeOK
  BY <1>1, <1>2, <1>3 DEF X!Init, X!TypeOK
<1>5. ASSUME NEW b \in Currency, NEW d \in X!Days PROVE TableRight(b, d, cache[<<b, d>>], now)
  BY <1>1 DEF X!Init, TableRight, X!NoTable
<1>6. ASSUME NEW r \in Request PROVE CallRight(call[r], now)
  BY <1>3 DEF X!Init, CallRight
<1> QED BY <1>4, <1>5, <1>6 DEF RatesInv

\* One request moves on.
LEMMA OneMoves ==
  ASSUME RatesInv, NEW r \in Request, NEW d \in X!CallState, CallRight(d, now),
         call' = [call EXCEPT ![r] = d], now' = now
  PROVE  call' \in [Request -> X!CallState] /\ \A q \in Request : CallRight(call'[q], now')
<1>1. call \in [Request -> X!CallState] /\ \A q \in Request : CallRight(call[q], now)
  BY DEF RatesInv, X!TypeOK
<1> QED BY <1>1

\* The tables stay.
LEMMA TablesStay ==
  ASSUME RatesInv, UNCHANGED <<now, cache>>
  PROVE  /\ now' \in 0..LastTime /\ cache' \in [Currency \X X!Days -> X!Table]
         /\ \A b \in Currency, d \in X!Days : TableRight(b, d, cache'[<<b, d>>], now')
BY DEF RatesInv, X!TypeOK

\* A request begins.
LEMMA BeginStep == ASSUME RatesSetting, RatesInv, NEW r \in Request, X!Begin(r) PROVE RatesInv'
<1>1. PICK pair \in Pairs, ov \in Override :
        call' = [call EXCEPT ![r] = [X!NoCall EXCEPT !.pc = "ask", !.pair = pair, !.ov = ov, !.since = X!Day(now)]]
  BY DEF X!Begin
<1> DEFINE d == [X!NoCall EXCEPT !.pc = "ask", !.pair = pair, !.ov = ov, !.since = X!Day(now)]
<1>2. X!Day(now) \in Nat /\ Len(Pivots) \in Nat /\ now \in 0..LastTime
  BY DayFollows DEF RatesSetting, RatesInv, X!TypeOK
<1>3. /\ d \in X!CallState /\ d.pc = "ask" /\ d.pair = pair /\ d.ov = ov /\ d.since = X!Day(now)
      /\ d.via = 0 /\ ~d.onward /\ d.side = 1
  <2> DEFINE c == X!NoCall
             day == X!Day(now)
  <2>1. c \in X!CallState /\ c.via = 0 /\ ~c.onward /\ c.side = 1
    BY <1>2 DEF X!NoCall, X!CallState
  <2>2. d = [c EXCEPT !.pc = "ask", !.pair = pair, !.ov = ov, !.since = day] /\ day \in Nat
    BY <1>2
  <2> HIDE DEF c, d, day
  <2>3. /\ d \in X!CallState /\ d.pc = "ask" /\ d.pair = pair /\ d.ov = ov /\ d.since = day
        /\ d.via = c.via /\ d.onward = c.onward /\ d.side = c.side
    BY <2>1, <2>2 DEF X!CallState
  <2> QED BY <2>1, <2>3 DEF day
<1>4. UNCHANGED <<now, cache>> /\ call' = [call EXCEPT ![r] = d]
  BY <1>1 DEF X!Begin
<1> HIDE DEF d
<1>5. OnItsWay(d, now)
  BY <1>2, <1>3 DEF OnItsWay
<1>6. Missed(d)
  <2>1. \A k \in X!Through(d.pair) : ~(k < 0)
    BY <1>2 DEF X!Through, RatesSetting
  <2> QED BY <1>3, <2>1 DEF Missed
<1>7. CallRight(d, now)
  BY <1>3, <1>5, <1>6 DEF CallRight
<1>8. call' \in [Request -> X!CallState] /\ \A q \in Request : CallRight(call'[q], now')
  BY <1>3, <1>4, <1>7, OneMoves
<1> QED BY <1>4, <1>8, TablesStay DEF RatesInv, X!TypeOK

\* A request asks for a leg.
LEMMA AskStep == ASSUME RatesSetting, RatesInv, NEW r \in Request, X!Ask(r) PROVE RatesInv'
<1> DEFINE c == call[r]
           x == X!Leg(c)[1]
           y == X!Leg(c)[2]
           table == cache[<<X!Base(c), X!Day(now)>>]
           d == IF X!HasOverride(c.ov, x, y) THEN X!Found(c, X!OverrideRate(c.ov, x, y))
                ELSE IF X!Fresh(table) THEN X!Use(c, table) ELSE [c EXCEPT !.pc = "fetch", !.at = now]
<1>1. c.pc = "ask" /\ call' = [call EXCEPT ![r] = d] /\ UNCHANGED <<now, cache>>
  BY DEF X!Ask
<1>2. c \in X!CallState /\ CallRight(c, now) /\ now \in 0..LastTime /\ now \in Nat
  BY DEF RatesInv, X!TypeOK, RatesSetting
<1>3. UnderWay(c, now)
  BY <1>1, <1>2 DEF CallRight, UnderWay
<1>4. /\ x \in Currency /\ y \in Currency /\ X!Day(now) \in X!Days /\ X!Day(now) \in Nat
      /\ c.since \in Nat /\ c.since <= X!Day(now)
  BY <1>2, <1>3, LegsAre DEF UnderWay, OnItsWay
<1>5. d \in X!CallState /\ CallRight(d, now)
  <2>1. CASE X!HasOverride(c.ov, x, y)
    <3>1. X!OverrideRate(c.ov, x, y) \in RatesOf(c, X!Day(now), x, y)
      BY <2>1 DEF RatesOf
    <3> DEFINE rate == X!OverrideRate(c.ov, x, y)
    <3>2. d = X!Found(c, rate)
      BY <2>1
    <3> HIDE DEF c, d, rate
    <3>3. rate \in RatesOf(c, X!Day(now), X!Leg(c)[1], X!Leg(c)[2])
      BY <3>1 DEF rate
    <3>4. X!Found(c, rate) \in X!CallState /\ CallRight(X!Found(c, rate), now)
      BY <1>2, <1>3, <3>3, FoundRight
    <3> QED BY <3>2, <3>4
  <2>2. CASE ~X!HasOverride(c.ov, x, y) /\ X!Fresh(table)
    <3>1. d = X!Use(c, table)
      BY <2>2
    <3>2. X!Base(c) \in Currency
      BY <1>2, <1>4 DEF X!Base, X!CallState
    <3>3. table \in X!Table /\ TableRight(X!Base(c), X!Day(now), table, now)
      BY <1>4, <3>2 DEF RatesInv, X!TypeOK
    <3>4. table.known
      BY <2>2 DEF X!Fresh
    <3> HIDE DEF c, d, table
    <3>5. X!Quote(c) \in table.quotes => c.since <= table.of /\ table.of <= X!Day(now)
      <4>1. table.of \in Nat
        BY <3>3 DEF X!Table, X!Days
      <4>2. ASSUME X!Quote(c) \in table.quotes PROVE ~table.err
        BY <3>3, <4>2 DEF TableRight
      <4>3. ~table.err => table.of >= X!Day(now)
        BY <3>3, <3>4 DEF TableRight
      <4>4. table.of <= X!Day(now)
        BY <3>3 DEF TableRight
      <4> QED BY <1>4, <4>1, <4>2, <4>3, <4>4
    <3>6. X!Use(c, table) \in X!CallState /\ CallRight(X!Use(c, table), now)
      BY <1>2, <1>3, <2>2, <3>3, <3>5, UseRight
    <3> QED BY <3>1, <3>6
  <2>3. CASE ~X!HasOverride(c.ov, x, y) /\ ~X!Fresh(table)
    <3>1. d = [c EXCEPT !.pc = "fetch", !.at = now]
      BY <2>3
    <3> HIDE DEF c, d, table
    <3>2. /\ d \in X!CallState /\ d.pc = "fetch" /\ d.pair = c.pair /\ d.ov = c.ov /\ d.via = c.via
          /\ d.onward = c.onward /\ d.side = c.side /\ d.first = c.first /\ d.since = c.since
          /\ d.poor = c.poor /\ d.at = now
      BY <1>2, <3>1 DEF X!CallState
    <3>3. X!Leg(d) = X!Leg(c)
      BY <3>2 DEF X!Leg
    <3>4. \A u, v : RatesOf(d, X!Day(now), u, v) = RatesOf(c, X!Day(now), u, v)
      BY <3>2 DEF RatesOf
    <3>5. OnItsWay(d, now)
      BY <1>3, <3>2, <3>3, <3>4 DEF OnItsWay, UnderWay
    <3>6. ~d.poor => Missed(d)
      BY <1>3, <3>2, <3>3 DEF Missed, Crossed, UnderWay
    <3>7. AskedRight(d, now)
      BY <1>2, <1>4, <2>3, <3>2, <3>3 DEF AskedRight
    <3> QED BY <3>2, <3>5, <3>6, <3>7 DEF CallRight
  <2> QED BY <2>1, <2>2, <2>3
<1> HIDE DEF d, c
<1>6. call' \in [Request -> X!CallState] /\ \A q \in Request : CallRight(call'[q], now')
  BY <1>1, <1>5, OneMoves
<1> QED BY <1>1, <1>6, TablesStay DEF RatesInv, X!TypeOK

\* A table arrives.
LEMMA FetchedStep == ASSUME RatesSetting, RatesInv, NEW r \in Request, X!Fetched(r) PROVE RatesInv'
<1> DEFINE c == call[r]
           key == <<X!Base(c), X!Day(c.at)>>
           asked == [c EXCEPT !.at = 0]
<1>1. PICK table \in X!Latest(X!Base(c), c.at) :
        cache' = [cache EXCEPT ![key] = table] /\ call' = [call EXCEPT ![r] = X!Use(asked, table)]
  BY DEF X!Fetched, X!DayOfKey
<1>2. c.pc = "fetch" /\ now' = now
  BY DEF X!Fetched
<1>3. c \in X!CallState /\ CallRight(c, now) /\ now \in 0..LastTime /\ now \in Nat
  BY DEF RatesInv, X!TypeOK, RatesSetting
<1>4. asked = [c EXCEPT !.at = 0]
  OBVIOUS
<1> HIDE DEF c, asked
<1>5. UnderWay(c, now) /\ AskedRight(c, now)
  BY <1>2, <1>3 DEF CallRight, UnderWay
<1>6. /\ X!Leg(c)[1] \in Currency /\ X!Leg(c)[2] \in Currency /\ c.at \in Nat /\ c.at <= now
      /\ X!Day(now) \in Nat /\ c.since \in Nat /\ c.since <= X!Day(c.at)
  BY <1>3, <1>5, LegsAre DEF AskedRight, X!CallState
<1>7. X!Base(c) \in Currency
  BY <1>3, <1>6 DEF X!Base, X!CallState
<1>8. /\ table \in X!Table /\ TableRight(X!Base(c), X!Day(c.at), table, now) /\ X!Day(c.at) <= table.of
  BY <1>1, <1>3, <1>6, <1>7, LatestRight
<1>9. X!Day(c.at) \in X!Days /\ X!Day(c.at) \in Nat
  <2>1. c.at <= LastTime /\ LastTime \in Nat
    BY <1>3, <1>6 DEF RatesSetting
  <2> QED BY <1>6, <2>1, DayFollows DEF X!Days
<1>10. /\ asked \in X!CallState /\ asked.pair = c.pair /\ asked.ov = c.ov /\ asked.via = c.via
       /\ asked.onward = c.onward /\ asked.side = c.side /\ asked.first = c.first /\ asked.since = c.since
       /\ asked.poor = c.poor
  BY <1>3, <1>4 DEF X!CallState
<1>11. X!Leg(asked) = X!Leg(c) /\ X!Quote(asked) = X!Quote(c)
  BY <1>10 DEF X!Leg, X!Quote
<1>12. UnderWay(asked, now) /\ ~X!HasOverride(asked.ov, X!Leg(asked)[1], X!Leg(asked)[2])
  <2>1. \A u, v : RatesOf(asked, X!Day(now), u, v) = RatesOf(c, X!Day(now), u, v)
    BY <1>10 DEF RatesOf
  <2>2. OnItsWay(asked, now)
    BY <1>5, <1>10, <1>11, <2>1 DEF OnItsWay, UnderWay
  <2>3. ~asked.poor => Missed(asked)
    BY <1>5, <1>10, <1>11 DEF Missed, Crossed, UnderWay
  <2> QED BY <1>5, <1>10, <1>11, <2>2, <2>3 DEF UnderWay, AskedRight
<1>13. asked.since <= table.of /\ table.of <= X!Day(now)
  <2>1. table.of \in Nat
    BY <1>8 DEF X!Table, X!Days
  <2>2. table.of <= X!Day(now)
    BY <1>8 DEF TableRight
  <2> QED BY <1>6, <1>8, <1>9, <1>10, <2>1, <2>2
<1> DEFINE d == X!Use(asked, table)
<1>14. d \in X!CallState /\ CallRight(d, now)
  BY <1>3, <1>8, <1>12, <1>13, UseRight
<1>15. call' = [call EXCEPT ![r] = d]
  BY <1>1
<1> HIDE DEF d
<1>16. call' \in [Request -> X!CallState] /\ \A q \in Request : CallRight(call'[q], now')
  BY <1>2, <1>14, <1>15, OneMoves
<1>17. cache \in [Currency \X X!Days -> X!Table] /\ key \in Currency \X X!Days
  BY <1>7, <1>9 DEF RatesInv, X!TypeOK
<1>18. cache' \in [Currency \X X!Days -> X!Table]
  BY <1>1, <1>8, <1>17
<1>19. ASSUME NEW b \in Currency, NEW e \in X!Days PROVE TableRight(b, e, cache'[<<b, e>>], now')
  <2>1. CASE <<b, e>> = key
    <3>1. cache'[<<b, e>>] = table /\ b = X!Base(c) /\ e = X!Day(c.at)
      BY <1>1, <1>17, <2>1
    <3> QED BY <1>2, <1>8, <3>1
  <2>2. CASE <<b, e>> # key
    <3>1. cache'[<<b, e>>] = cache[<<b, e>>]
      BY <1>1, <1>17, <2>2
    <3> QED BY <1>2, <3>1 DEF RatesInv
  <2> QED BY <2>1, <2>2
<1> QED BY <1>2, <1>3, <1>16, <1>18, <1>19 DEF RatesInv, X!TypeOK

\* Time passes.
LEMMA TickStep == ASSUME RatesSetting, RatesInv, X!Tick PROVE RatesInv'
<1>1. now \in Nat /\ now' = now + 1 /\ now' \in 0..LastTime /\ cache' = cache /\ call' = call
  BY DEF RatesInv, X!TypeOK, RatesSetting, X!Tick
<1>2. ASSUME NEW q \in Request PROVE CallRight(call[q], now + 1)
  <2>1. call[q] \in X!CallState /\ CallRight(call[q], now)
    BY DEF RatesInv, X!TypeOK
  <2> DEFINE c == call[q]
  <2> HIDE DEF c
  <2>2. CallRight(c, now + 1)
    BY <1>1, <2>1, StillRight DEF c
  <2> QED BY <2>2 DEF c
<1>3. X!Day(now) \in Nat /\ X!Day(now + 1) \in Nat /\ X!Day(now) <= X!Day(now + 1)
  BY <1>1, DayFollows
<1>4. ASSUME NEW b \in Currency, NEW d \in X!Days PROVE TableRight(b, d, cache[<<b, d>>], now + 1)
  <2>1. TableRight(b, d, cache[<<b, d>>], now) /\ cache[<<b, d>>].of \in Nat
    BY DEF RatesInv, X!TypeOK, X!Table, X!Days
  <2> QED BY <1>3, <2>1 DEF TableRight
<1> QED BY <1>1, <1>2, <1>4 DEF RatesInv, X!TypeOK

\* Every step keeps the invariant.
LEMMA RatesStep == ASSUME RatesSetting, RatesInv, [X!Next]_X!vars PROVE RatesInv'
<1>1. CASE X!Tick
  BY <1>1, TickStep
<1>2. ASSUME NEW r \in Request, X!Begin(r) PROVE RatesInv'
  BY <1>2, BeginStep
<1>3. ASSUME NEW r \in Request, X!Ask(r) PROVE RatesInv'
  BY <1>3, AskStep
<1>4. ASSUME NEW r \in Request, X!Fetched(r) PROVE RatesInv'
  BY <1>4, FetchedStep
<1>5. CASE UNCHANGED X!vars
  BY <1>5 DEF X!vars, RatesInv, X!TypeOK
<1> QED BY <1>1, <1>2, <1>3, <1>4, <1>5 DEF X!Next

\* Tables and conversions under way are always right.
THEOREM RatesInductive == ASSUME RatesSetting PROVE X!Spec => []RatesInv
<1>1. X!Init => RatesInv
  BY RatesStart
<1>2. RatesInv /\ [X!Next]_X!vars => RatesInv'
  BY RatesStep
<1> QED BY <1>1, <1>2, PTL DEF X!Spec

\* Rates are right: a conversion that found one used the user's, or one of a day it was under
\* way; one that found none asked for currencies nothing links, or an upstream had failed; and
\* no table of an earlier day is kept as a later day's.
THEOREM RatesRight ==
  ASSUME RatesSetting PROVE X!Spec => [](X!TypeOK /\ X!RateRight /\ X!FoundIfLinked /\ X!NotYesterdays)
<1>1. RatesInv => X!TypeOK
  BY DEF RatesInv
<1>2. RatesInv => X!RateRight
  BY DEF RatesInv, CallRight, Answered, X!RateRight
<1>3. RatesInv => X!FoundIfLinked
  BY DEF RatesInv, CallRight, X!FoundIfLinked
<1>4. RatesInv => X!NotYesterdays
  BY DEF RatesInv, TableRight, X!NotYesterdays
<1> QED BY <1>1, <1>2, <1>3, <1>4, RatesInductive, PTL
=============================================================================
