CONSTANTS
    Nodes = {"n1", "n2", "n3", "s"}
    Buffers = {"o1", "o2", "i1", "i2", "so", "i3"}
    BufNode <- MCBufNode
    BufSize <- MCBufSize
    LinkDst <- MCLinkDst
    LinkBw = 1
    NodeBw = 2
    BusBufs = {"o2", "so"}
    Lanes = {"l1"}
    BusBw = 2
    Route <- MCRoute
    Msgs = {"a", "b", "c"}
    MsgSrc <- MCMsgSrc
    MsgDst <- MCMsgDst
    MsgSize <- MCMsgSize
    Switching = "VCT"
    DefBw = 2
    Nil = Nil
SPECIFICATION Spec
INVARIANT TypeOK
INVARIANT Occupancy
INVARIANT BufferListsAgree
INVARIANT FragmentsInOrder
PROPERTY EveryMessageReturned
