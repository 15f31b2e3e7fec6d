SPECIFICATION MCSpec
CONSTANTS
    Proc = {p1, p2, p3}
    NPORTS = 1
    PT_MSGS = 2
    Msgs = {a, b}
    NoMsg = none
    MaxCounts = {1, 3}
    MaxSeq = 3
    PortVictims = {"send", "recv"}
    Heap <- MCHeap
    Sizes = {1, 2}
    User = {p1, p2, p3}
    NBPOOLS = 2
    PoolSizes = {1}
    StackSize = 1
    SemsLast = TRUE
    PoolVictims = TRUE
    Worker = {w1, w2}
    Remover = r
    Nlfl = 1
    Iterations = 1
    FSMAX_SAMPLES = 2
    Delay = 1
    MaxLaunches = 2
    MaxNow = 2
    Width = 3
    Cmd = {p1, p2, p3}
    Desc = {d1, d2, d3}
    Console = console
    NoCmd = none
    ShellCareless = {}
SYMMETRY MCSymmetry
INVARIANTS
    PortsConsistent ClearedCallersGetOut MemoryConserved BuffersOwned MeasurementsSound
    ForegroundReturns
PROPERTIES
    ChannelsRefined
CHECK_DEADLOCK FALSE
