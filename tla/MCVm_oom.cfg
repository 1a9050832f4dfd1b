\* MCVm.cfg's instance with sbrk allowed to shrink to 0: the kernel must
\* neither panic nor keep a frame it does not use.
CONSTANTS
    PGSIZE = 2
    VStart = 1
    VMid = 9
    VEnd = 26
    Kern = k
    Clients = {k}
    Procs = {p1, p2}
    InitProc = p1
    NoProc = np
    KERNBASE = 8
    NPTE = 4
    NPDE = 2
    Wrap = 16
    SbrkArgs <- MCSbrkArgs
    ShrinkToZero = TRUE
    Exes <- MCExes
    MaxCalls = 8
SPECIFICATION VmSpec
CHECK_DEADLOCK FALSE
INVARIANT ErrorsUnwind
