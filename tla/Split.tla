-------------------------------- MODULE Split --------------------------------
(***************************************************************************)
(* How an amount in cents is divided: apportion of internal/money/split.go *)
(* (Hamilton's largest remainders, ties broken by a rotation), one step    *)
(* per cent handed out, and insertSplits of the recurring job              *)
(* (internal/recurring/handlers.go), which divides on its own.             *)
(***************************************************************************)
EXTENDS Integers, Sequences, FiniteSets, FiniteSetsExt

CONSTANTS MaxAmount,    \* largest amount
          MaxMembers,   \* most participants
          MaxShare,     \* largest number of shares of one participant
          Whole         \* all the percents (10000 basis points, or 100 in the job)

VARIABLES mode, amount, shares, offset, split, given

vars == <<mode, amount, shares, offset, split, given>>

N == Len(shares)
Members == 1..N
SumOf(s) == MapThenSumSet(LAMBDA i : s[i], DOMAIN s)
Total == SumOf(shares)

\* What the three entry points accept: SplitEqualWithID, SplitByPercentageWithID,
\* SplitBySharesWithID; and what a recurring schedule may hold, which nothing checks.
Accepted(m, s) ==
    CASE m = "equal" -> \A i \in DOMAIN s : s[i] = 1
      [] m = "percentage" -> SumOf(s) = Whole
      [] m = "shares" -> \A i \in DOMAIN s : s[i] > 0
      [] m = "job equal" -> \A i \in DOMAIN s : s[i] = 1
      [] OTHER -> TRUE

\* The floor of every quota, in apportion and for the modes of insertSplits.
Base(m, a, s) ==
    [i \in DOMAIN s |->
       CASE m = "job exact" -> s[i]
         [] m = "job percentage" -> (a * s[i]) \div Whole
         [] OTHER -> (a * s[i]) \div SumOf(s)]

Init ==
    /\ amount \in 1..MaxAmount
    /\ \E n \in 1..MaxMembers :
         /\ shares \in [1..n -> 0..Max({MaxShare, Whole})]
         /\ mode \in {"equal", "percentage", "shares", "job equal", "job exact", "job percentage"}
         /\ mode \in {"shares", "job exact"} => \A i \in 1..n : shares[i] <= MaxShare
         /\ Accepted(mode, shares)
         /\ offset \in IF mode \in {"equal", "percentage", "shares"} THEN 0..(n - 1) ELSE {0}
    /\ split = Base(mode, amount, shares)
    /\ given = {}

Remainder(i) == (amount * shares[i]) % Total

\* Broken: ties always favour the first participant.
NoRotation(i) == i - 1
Rotate(i) == (i - 1 - offset + N) % N

\* The order of the cents: largest remainder first, ties by the rotation.  Broken: by
\* the rotation alone, or the smallest remainder first.
ByRotation(i, j) == Rotate(i) < Rotate(j)
SmallestFirst(i, j) ==
    \/ Remainder(i) < Remainder(j)
    \/ Remainder(i) = Remainder(j) /\ Rotate(i) < Rotate(j)
Before(i, j) ==
    \/ Remainder(i) > Remainder(j)
    \/ Remainder(i) = Remainder(j) /\ Rotate(i) < Rotate(j)

Left == amount - SumOf(split)

\* One cent to the next participant in the order.
HandOut ==
    /\ mode \in {"equal", "percentage", "shares"}
    /\ Left > 0
    /\ \E i \in Members \ given :
         /\ \A j \in Members \ (given \cup {i}) : Before(i, j)
         /\ split' = [split EXCEPT ![i] = @ + 1]
         /\ given' = given \cup {i}
    /\ UNCHANGED <<mode, amount, shares, offset>>

\* insertSplits for EQUAL: one cent more for the first participants of the list.
\* Broken: i <= rem over indices that start at 0.
OneTooMany == {i \in Members : i - 1 <= amount % N}
Extra == {i \in Members : i <= amount % N}

JobHandOut ==
    /\ mode = "job equal"
    /\ given = {} /\ Left > 0
    /\ given' = Extra
    /\ split' = [i \in Members |-> IF i \in given' THEN split[i] + 1 ELSE split[i]]
    /\ UNCHANGED <<mode, amount, shares, offset>>

\* insertSplits for EXACT and PERCENTAGE: whatever is missing, or too much, goes to the
\* first participant; the column refuses a negative amount and the turn fails.
TopUp ==
    /\ mode \in {"job exact", "job percentage"}
    /\ Left # 0
    /\ split[1] + Left >= 0
    /\ split' = [split EXCEPT ![1] = @ + Left]
    /\ given' = {1}
    /\ UNCHANGED <<mode, amount, shares, offset>>

Next == HandOut \/ JobHandOut \/ TopUp

Spec == Init /\ [][Next]_vars

-----------------------------------------------------------------------------
TypeOK == /\ split \in [Members -> Nat] /\ given \subseteq Members
          /\ amount \in 1..MaxAmount /\ offset \in 0..(N - 1)

\* The amounts are final: nothing is left over, or no more cents are handed out.
Stopped ==
    CASE mode = "job equal" -> Left = 0 \/ given # {}
      [] mode \in {"equal", "percentage", "shares"} -> Left = 0 \/ given = Members
      [] OTHER -> Left = 0

\* Every cent is handed out and none is invented, in every mode and for every rotation
\* (split.go:18-62, recurring/handlers.go:350-424).
AddsUp == Stopped => SumOf(split) = amount

\* Nobody is a whole cent away from the exact quota, and nobody without a share pays.
WithinQuota ==
    mode \in {"equal", "percentage", "shares"} =>
        \A i \in Members : /\ split[i] * Total > amount * shares[i] - Total
                           /\ split[i] * Total < amount * shares[i] + Total
                           /\ shares[i] = 0 => split[i] = 0

\* Whoever has more shares never pays less.
MoreSharesMorePaid ==
    (Stopped /\ mode \in {"percentage", "shares"}) =>
        \A i, j \in Members : shares[i] > shares[j] => split[i] >= split[j]

\* In an even split the odd cents go round from the participant the rotation names, one
\* to each, so that expenses do not always charge the same person (split.go:15-17).
TiesRotate ==
    (Stopped /\ mode = "equal") =>
        {i \in Members : split[i] > amount \div N} = {((offset + k) % N) + 1 : k \in 0..((amount % N) - 1)}
=============================================================================
