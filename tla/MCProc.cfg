CONSTANTS
    CPUs = {c1}
    NPROC = 3
    NOFILE = 4
    NFILE = 4
    MaxPid = 4
    SleepTicks = 1
    MaxFileCalls = 2
    KillPids = {2, 3, 4}
    CloseFds = {0}
    DupFds = {1}
    NoSlot = NoSlot
    NoCpu = NoCpu
    NoChan = NoChan
    NoFile = NoFile
    TicksChan = TicksChan
    NullCpu = NullCpu

SPECIFICATION Spec
INVARIANT TypeOK
INVARIANT ParentIsLive
INVARIANT NoLostWaitWakeup
INVARIANT DescriptorsHoldReferences
PROPERTY KilledProcessExits
