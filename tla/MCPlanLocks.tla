---------------------------- MODULE MCPlanLocks ----------------------------
\* Small instances of PlanLocks for TLC.
EXTENDS PlanLocks

First1 == <<1, 1>>

\* Everything that can be asked of one plan, next to SkipOverdue on all of them
PlanRequests ==
    {[op |-> "pay", txn |-> First1, to |-> Same], [op |-> "skip", txn |-> First1],
     [op |-> "skip", txn |-> <<1, 2>>], [op |-> "overdue"],
     [op |-> "drop", plan |-> 1]}
      \cup [op : {"edit"}, plan : {1}, to : Account]

\* The same beside the deletion of an account
AccountRequests ==
    {[op |-> "skip", txn |-> First1], [op |-> "overdue"], [op |-> "drop", plan |-> 1]}
      \cup [op : {"pay"}, txn : {First1}, to : Account \cup {Same}]
      \cup [op : {"edit"}, plan : {1}, to : Account]
      \cup [op : {"unbook"}, account : Account]
=============================================================================
