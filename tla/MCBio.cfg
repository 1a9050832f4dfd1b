CONSTANTS
    Procs = {p1, p2, p3}
    NBUF = 2
    Sectors = {0, 1, 2}
    DiskErrors = FALSE
    NoBuf = NoBuf
    NoProc = NoProc
    NoChan = NoChan
    NoData = NoData
SPECIFICATION Spec
INVARIANT TypeOK
INVARIANT DataExclusive
INVARIANT PinnedKeepsSector
INVARIANT ReadReturnsSector
INVARIANT CachedUnique
INVARIANT BufferRefsMatchHolders
PROPERTY ReadCompletes
