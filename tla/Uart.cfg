SPECIFICATION FairSpec
CONSTANTS
    a = a
    CR = CR
    LF = LF
    Char = {CR, a}
    RX_BUFF_SIZE = 2
    TrigLvl = 2
    FifoDepth = 3
    Text <- MCText
    TX_LIMIT = 2
    TX_DEPTH = 4
INVARIANTS
    TypeOK
    RingHoldsLatest
    NoByteStuck
    AtMostOneMore
    NothingLost
PROPERTIES
    Served
    AllPrinted
