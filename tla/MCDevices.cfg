SPECIFICATION MCSpec
CONSTANTS
    User = {p1, p2}
    BLK = {0, 1}
    Data = {x, y}
    Blank = z
    RD_BUFFS = 2
    RD_RETRIES = 2
    MaxNet = 2
    MaxExchange = 3
    MaxSync = 1
    RdsCareless = {}
    NetSender = {p1, p2}
    UdpRoom = 1
    IcmpRoom = 3
    ICMP_QSIZ = 3
    IP_OQSIZ = 2
    StackCareless = {}
    EthWriter = {w}
    EthReader = {p1, p2}
    Load = {x, y}
    devAddress = dev
    ethbcast = bc
    McAddr = {m}
    Noload = none
    ETH_QUARK_TX_RING_SIZE = 3
    ETH_QUARK_RX_RING_SIZE = 3
    ETH_NUM_MCAST = 2
    EthCareless = {"full"}
SYMMETRY MCSymmetry
INVARIANTS
    BuffersCounted WokenForEachRequest SlotsComeBack NetBuffersOwned
PROPERTIES
    RemoteDiskRefined WireRefined
CHECK_DEADLOCK FALSE
