SPECIFICATION AllSpec
CONSTANTS
    Plan = {p1}
    Txn = {t1, t2, t3}
    Account = {a1, a2}
    NoAccount = NoAccount
    NoTxn = NoTxn
    Step = {1, 2}
    Horizon = 4
    Patch = {"due", "account", "one_time"}
    p1 = p1
    p2 = p2
    t1 = t1
    t2 = t2
    t3 = t3
    a1 = a1
    a2 = a2
    home = home
    cash = cash
    spare = spare
    Nobody = Nobody
SYMMETRY Perms
INVARIANTS AtMostOnePending  AccountsKept
PROPERTIES ResolvedNeverBack SkipOverdueCatchesUp
CHECK_DEADLOCK FALSE
