CONSTANTS
    NPROC = 4
    QUANTUM = 1
    NSEM = 1
    Syscalls <- AllSyscalls
    Prios = {1, 2}
    Counts = {}
    Delays = {1, 2}
    MaxCount = 2
SPECIFICATION LiveSpec
PROPERTIES RoundRobin SleepersWake
