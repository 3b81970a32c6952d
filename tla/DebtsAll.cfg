SPECIFICATION AllSpec
CONSTANTS
    User = {1, 2, 3, 4}
    MaxAmount = 4
    MaxSplit = 9
    MaxMembers = 4
    MaxShare = 3
    Whole = 6
    Plan = {p1}
    Txn = {t1, t2, t3}
    Account = {a1, a2}
    NoAccount = NoAccount
    NoTxn = NoTxn
    Step = {1, 2}
    Horizon = 4
INVARIANTS FewDebts Conserved   RatesHold
PROPERTY Settles
CHECK_DEADLOCK FALSE
