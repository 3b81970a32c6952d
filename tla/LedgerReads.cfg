SPECIFICATION AllSpec
CONSTANTS
    u1 = u1
    u2 = u2
    u3 = u3
    e1 = e1
    e2 = e2
    s1 = s1
    r1 = r1
    r2 = r2
    r3 = r3
    r4 = r4
    ann = ann
    bob = bob
    eve = eve
    Loan = Loan
    k1 = k1
    k2 = k2
    t1 = t1
    t2 = t2
    t3 = t3
    t4 = t4
    None = None
    NoRow = NoRow
    Member = {u1, u2}
    Expense = {e1}
    Settlement = {s1}
    Request = {r1, r2, r3}
    Amount = {2}
    Rate = {4}
    RateUnit = 2
    Faults = {"query"}
    Kinds = {"create", "update", "delete", "settle", "resettle", "unsettle", "read"}
SYMMETRY Perms
INVARIANTS SplitsSum QuietReadsBalance AdmitsOnce DeletionIsWhole LedgerComplete BookingsFollow
PROPERTIES ReadsAgree DeletedStaysDeleted TokenIsCurrent OwnerlessForever BlockStands
CHECK_DEADLOCK FALSE
