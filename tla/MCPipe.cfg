\* Two processes share one pipe; a 2-byte ring whose counters wrap at 4,
\* and up to 5 bytes written, so that the ring fills, drains and wraps.
CONSTANTS
    Procs = {p1, p2}
    PIPESIZE = 2
    Wrap = 4
    WriteSizes = {1, 3}
    ReadSizes = {1, 2}
    MaxBytes = 5
    NoChan = NoChan
SPECIFICATION Spec
\* Two user programs that both read before writing block for ever: the pipe
\* lets them, so a state with no step is not an error of the kernel.
CHECK_DEADLOCK FALSE
INVARIANT TypeOK
INVARIANT FifoDelivery
INVARIANT NoUseAfterFree
PROPERTY ReaderSeesEof
PROPERTY WriterSeesClosedReader
PROPERTY KilledCallReturns
