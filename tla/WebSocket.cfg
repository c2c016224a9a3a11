SPECIFICATION Spec
CONSTANTS
    c1 = c1
    c2 = c2
    Connection = {c1, c2}
    Plain = {c2}
    MaxSends <- OneSend
    MaxPeer <- BusyPeer
    Message <- Messages
    Text <- Texts
    MaxDecoded = 256
    Mask <- Masks
    Buffer <- Buffers
INVARIANTS
    TypeOK
    NeverDeaf
    UpgradeFirst
    CallsReachOpenConnection
    ContextHeldWhileUsed
    PeerReadsMessage
    ApplicationReadsMessage
    HixieEndsInBuffer
PROPERTIES
    HookOrder
    FramesLeave
CHECK_DEADLOCK FALSE
