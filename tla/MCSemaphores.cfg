CONSTANTS
    NPROC = 4
    QUANTUM = 1
    NSEM = 1
    Syscalls <- SemSyscalls
    Prios = {1, 2}
    Counts = {0, 2}
    Delays = {1}
    MaxCount = 2
SPECIFICATION SemSpec
INVARIANTS TypeOK QueuesMatchStates CountsMatchQueues HighestPriorityRuns PrcountIsLive
PROPERTIES SemaphoresRefined
