SPECIFICATION Spec
CONSTANTS
    Plan = {1, 2}
    Slot = {1, 2, 3, 4}
    Account = {a1, a2}
    Same = Same
    Job = {j1, j2}
    Request <- AccountRequests
    Conns = 3
    Now = 1
    Nobody = Nobody
INVARIANT NoDeadlock
CHECK_DEADLOCK FALSE
