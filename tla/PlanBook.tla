------------------------------ MODULE PlanBook ------------------------------
(***************************************************************************)
(* What the handlers of internal/wallet/planned.go promise a client: each  *)
(* plan offers one occurrence at a time, which is paid or skipped once, in *)
(* one step, whatever other requests are under way.                        *)
(***************************************************************************)
EXTENDS Integers

CONSTANT Plan

VARIABLES
    due,   \* [Plan -> Nat], the occurrence on offer; 0 once the plan is deleted
    paid   \* [Plan -> SUBSET Nat], the occurrences paid

Init == /\ due \in [Plan -> Nat \ {0}]
        /\ paid = [p \in Plan |-> {}]

\* POST /transactions/{id}/pay: the occurrence on offer, and the next is offered
Pay(p) ==
    /\ due[p] # 0
    /\ due' = [due EXCEPT ![p] = @ + 1]
    /\ paid' = [paid EXCEPT ![p] = @ \cup {due[p]}]

\* Skipping one occurrence, or all that are overdue: only later ones are left
Skip(S) ==
    /\ \A p \in S : due[p] # 0 /\ due'[p] > due[p]
    /\ due' \in [Plan -> Nat]
    /\ \A p \in Plan \ S : due'[p] = due[p]
    /\ UNCHANGED paid

\* DELETE /planned/{id}
Drop(p) ==
    /\ due' = [due EXCEPT ![p] = 0]
    /\ UNCHANGED paid

Next == \/ \E p \in Plan : Pay(p) \/ Drop(p)
        \/ \E S \in SUBSET Plan : Skip(S)

Spec == Init /\ [][Next]_<<due, paid>>
=============================================================================
