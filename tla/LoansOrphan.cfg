SPECIFICATION Spec
CONSTANTS
    Loan = Loan
    Records = {k1}
    Recorded = k1
    Txns = {t1, t2, t3}
    Lent = t1
    Repaid = t2
    None = None
    Requests = {1, 2}
INVARIANT RecordsDeletedSafely
CHECK_DEADLOCK FALSE
