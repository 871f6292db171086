SPECIFICATION LiveSpec
CONSTANTS
    h1 = h1
    h2 = h2
    r1 = r1
    r2 = r2
    worker = worker
    None = None
    Handle = {h1}
    Initial = {h1}
    Restarter = {r1, r2}
    Worker = worker
    MaxTasks = 3
    Requests = {"add", "delete", "shutdown"}
    Faults = {"stream", "hang"}
    MaxFaults = 1
INVARIANT TypeOK
INVARIANT OneTaskPerAccount
INVARIANT NoLostCancel
CHECK_DEADLOCK FALSE
PROPERTY AccountsGetForwarded
PROPERTY DeletedAccountsStop
