SPECIFICATION Spec
CONSTANTS
    k1 = k1
    Client = {k1}
    Inode = {1, 2}
    Word = 8
    LongMax = 15
    Number <- Numbers
    MaxSize = 2
    MaxClock = 3
    MaxVersion = 3
    MaxDescriptors = 1
INVARIANT ContentRangeIsInclusive
CHECK_DEADLOCK FALSE
