SPECIFICATION AllSpec
CONSTANTS
    NoRow = NoRow
    Request = {r1, r2}
    Body = {b1, b2}
    TTL = 3
    Lease = 2
    Faults = {"crash", "slow", "late5xx", "db"}
    Plan = {1, 2}
    Slot = {1, 2, 3, 4}
    Account = {a1, a2}
    Same = Same
    Job = {j1, j2}
    Conns = 3
    Now = 1
    Nobody = Nobody
    a3 = a3
    a1 = a1
    a2 = a2
    s1 = s1
    s2 = s2
    Jobs = {j1, j2}
    MaxTime = 2
    MaxEdits = 3
    MaxFaults = 1
INVARIANTS LeaseExclusion ReplayFaithful PostedRight
PROPERTIES EveryRequestSettles EveryRequestEnds DueIsPosted
CHECK_DEADLOCK FALSE
