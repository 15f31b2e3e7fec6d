SPECIFICATION MCSpec
CONSTANTS
    NetProc = {n1, n2}
    NetCareless = {}
    ARP_SIZ = 2
    ARP_RETRY = 2
    IPAddr = {i1, i2, i3}
    HwAddr = {h1, h2}
    None = nothing
    UDP_SLOTS = 2
    UDP_QSIZ = 2
    UdpPort = {l}
    Remote = {e}
    AnyRemote = any
    ICMP_SLOTS = 3
    ICMP_QSIZ = 2
    EchoHost = {h1, h2}
    IcmpCareless = {}
    TFTP_MAXRETRIES = 2
    Blocks = 3
    Room = 2
    BlkMod = 4
    MaxGets = 2
    MaxSessions = 3
    TftpCareless = {}
    RfProc = {n1, n2}
    Nrfl = 2
    RfName = {f}
    RfData = {x, y}
    Pad = o
    RfCounts = {1}
    RfSeeks = {0}
    RF_RETRIES = 2
    MaxRfSeq = 3
    RfCareless = {}
SYMMETRY MCSymmetry
VIEW InView
INVARIANTS
    ArpCacheSound EndpointsServed FileInOrder MutexReturned
PROPERTIES
    NeighboursRefined RemoteFilesRefined
CHECK_DEADLOCK FALSE
