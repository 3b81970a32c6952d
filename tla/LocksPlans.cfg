SPECIFICATION Spec
CONSTANTS
    Plan = {1, 2}
    Slot = {1, 2, 3, 4}
    Account = {a1, a2}
    Same = Same
    Job = {j1, j2, j3}
    Request <- PlanRequests
    Conns = 4
    Now = 1
    Nobody = Nobody
INVARIANT NoDeadlock
PROPERTY Serial
CHECK_DEADLOCK FALSE
