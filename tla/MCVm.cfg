\* Pages of 2 bytes and 11 frames; user memory is 4 pages under one page
\* table, and the kernel half of a directory needs one page table.
CONSTANTS
    PGSIZE = 2
    VStart = 1
    VMid = 9
    VEnd = 26
    Kern = k
    Clients = {k}
    Procs = {p1, p2}
    InitProc = p1
    NoProc = np
    KERNBASE = 8
    NPTE = 4
    NPDE = 2
    Wrap = 16
    SbrkArgs <- MCSbrkArgs
    ShrinkToZero = FALSE
    Exes <- MCExes
    MaxCalls = 8
SPECIFICATION VmSpec
CHECK_DEADLOCK FALSE
INVARIANT VmTypeOK
INVARIANT NoFrameShared
INVARIANT SizeMatchesMapping
INVARIANT FreeListSound
INVARIANT ManagedPagesExact
