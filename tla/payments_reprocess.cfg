SPECIFICATION LiveSpec
CONSTANTS
    h0 = h0
    h1 = h1
    h2 = h2
    f1 = f1
    t1 = t1
    t2 = t2
    t3 = t3
    worker = worker
    a1 = a1
    a2 = a2
    None = None
    Invoice = {h1}
    Foreign = {}
    History <- NothingRecorded
    Task = {t1, t2}
    Worker = worker
    Admin = {a1}
    Requests = {"reprocess"}
    Faults = {"lnd"}
    MaxFaults = 1
PROPERTY ReprocessRecovers
CHECK_DEADLOCK FALSE
