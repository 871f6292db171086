SPECIFICATION LiveSpec
CONSTANTS
    h0 = h0
    h1 = h1
    h2 = h2
    f1 = f1
    t1 = t1
    t2 = t2
    t3 = t3
    worker = worker
    a1 = a1
    a2 = a2
    None = None
    Invoice = {h0, h1, f1}
    Foreign = {f1}
    History <- OneRecorded
    Task = {t1}
    Worker = worker
    Admin = {}
    Requests = {"shutdown"}
    Faults = {"lnd"}
    MaxFaults = 2
PROPERTY StoppedTasksEnd
PROPERTY SettledGetRecorded
PROPERTY RecordedGetPaid
CHECK_DEADLOCK FALSE
