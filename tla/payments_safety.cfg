SPECIFICATION Spec
CONSTANTS
    h0 = h0
    h1 = h1
    h2 = h2
    f1 = f1
    t1 = t1
    t2 = t2
    t3 = t3
    worker = worker
    a1 = a1
    a2 = a2
    None = None
    Invoice = {h0, h1, h2}
    Foreign = {}
    History <- OneRecorded
    Task = {t1, t2}
    Worker = worker
    Admin = {a1}
    Requests = {"reprocess", "shutdown"}
    Faults = {"lnd", "database", "crash"}
    MaxFaults = 1
INVARIANT TypeOK
INVARIANT OneTaskKeepsRunning
INVARIANT NoLostCancel
INVARIANT NoGaps
PROPERTY LedgerSpec
SYMMETRY TaskSymmetry
CHECK_DEADLOCK FALSE
