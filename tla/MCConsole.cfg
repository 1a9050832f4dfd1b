\* Two readers sharing a two-byte input ring whose indices wrap at 4, and
\* five keys: enough to fill the ring, edit, commit by newline, ^D and a
\* full ring, and to wrap every index.
CONSTANTS
    INPUT_BUF = 2
    Wrap = 4
    Procs = {p1, p2}
    Keys = {"x", "cr", "nl", "eot", "bs", "nak", "nul"}
    ReadSizes = {1, 2}
    MaxKeys = 5
    WriteBufs <- MCWriteBufs
    MaxWrites = 1
    COLS = 2
    ROWS = 2
    NoProc = NoProc
SPECIFICATION Spec
\* Readers may wait for keys that never come.
CHECK_DEADLOCK FALSE
INVARIANT TypeOK
INVARIANT StreamIsTyping
INVARIANT NoSleepWithInput
INVARIANT ScreenShowsEcho
PROPERTY KilledReadReturns
