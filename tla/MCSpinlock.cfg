\* Two CPUs contend for three locks; lock 1 is also the one the interrupt
\* handler takes, so a thread holding it races its own CPU's handler and
\* the other CPU's handler.
CONSTANTS
    CPUs = {c1, c2}
    Locks = {1, 2, 3}
    IntLock = 1
    NoCpu = NoCpu
SPECIFICATION FairSpec
INVARIANT TypeOK
INVARIANT InterruptsOffWhileHeld
INVARIANT NoReentryPanic
PROPERTY AcquireCompletes
