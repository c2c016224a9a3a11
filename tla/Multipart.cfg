SPECIFICATION Spec
CONSTANTS
    a = a
    b = b
    o = o
    r = r
    t1 = t1
    t2 = t2
    t3 = t3
    Name = {a, b, o, r}
    Base <- Bases
    Other = {o, r}
    Part <- Parts
    Temp = {t1, t2, t3}
    Limit <- Limits
    MaxParts = 3
SYMMETRY TempSymmetry
INVARIANTS
    FilesAreOnDisk
    PostIsWhatWasSent
    UploadsKeepTheirPlace
CHECK_DEADLOCK FALSE
