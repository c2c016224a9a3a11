SPECIFICATION Spec
CONSTANTS
    c1 = c1
    c2 = c2
    Connection = {c1}
    Plain = {}
    MaxSends <- NoSends
    MaxPeer <- TwoFrames
    Message <- Messages
    Text <- Texts
    MaxDecoded = 256
    Mask <- Masks
    Buffer <- Buffers
INVARIANTS
    ClosedAfterException
CHECK_DEADLOCK FALSE
