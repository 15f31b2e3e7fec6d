CONSTANTS
    NPROC = 3
    QUANTUM = 2
    NSEM = 1
    Syscalls <- AllSyscalls
    Prios = {1, 2}
    Counts = {}
    Delays = {0, 2}
    MaxCount = 2
SPECIFICATION MsgSpec
INVARIANTS MessageBeforeReceiveReturns
CHECK_DEADLOCK FALSE
