CONSTANTS
    Procs = {p1, p2, p3}
    NBUF = 2
    Sectors = {0, 1, 2}
    DiskErrors = TRUE
    NoBuf = NoBuf
    NoProc = NoProc
    NoChan = NoChan
    NoData = NoData
SPECIFICATION Spec
INVARIANT ReadReturnsSector
