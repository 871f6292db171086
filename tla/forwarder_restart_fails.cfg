SPECIFICATION LiveSpec
CONSTANTS
    h1 = h1
    h2 = h2
    r1 = r1
    r2 = r2
    worker = worker
    None = None
    Handle = {h1, h2}
    Initial = {h1}
    Restarter = {r1}
    Worker = worker
    MaxTasks = 3
    Requests = {"add"}
    Faults = {"stream"}
    MaxFaults = 1
PROPERTY AccountsAlwaysGetForwarded
CHECK_DEADLOCK FALSE
