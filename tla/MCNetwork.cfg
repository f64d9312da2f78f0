CONSTANTS
    Process = {p, q}
    NMBUF = 13
    RX_RING_SIZE = 2
    TX_RING_SIZE = 3
    UDP_CB_TABLE_SIZE = 2
    ARP_TABLE_SIZE = 1
    Remote <- MCRemote
    Mac = {"m"}
    GATEWAY_MAC_ADDR = "g"
    MaxOpen = 2
    MaxWire = 3
    MaxSent = 0
    MaxOther = 1
SPECIFICATION AllSpec
SYMMETRY Symmetry
CHECK_DEADLOCK FALSE
INVARIANTS DatagramsExact MbufsOwned ReaderSleepsOnEmpty
