SPECIFICATION MCSpec
CONSTANTS
    Writer = {w1}
    Reader = {i1, i2}
    NoLock = NoLock
    Byte = {a1, a2}
    PIPESIZE = 2
    UINT = 4
    MaxN = 2
    INT_MAX = 31
    MaxSize = 32
    Tty = {i1, i2}
    NoTty = NoTty
    INPUT_BUF = 3
    TTYUINT = 6
    Counts = {1, 2}
    COLS = 2
    ROWS = 2
    Keys = {30, 42, 54, 58, 157}
    QUEUE = 3
    Sleeper = {i1, i2}
    Naps <- MCNaps
    NTICKS = 6
    CPU = {i1, i2}
    NoCpu = NoCpu
    NLOCK = 2
    p1 = p1
    p2 = p2
    Proc = {p1, p2}
    InitProc = p1
    NPage = 13
    PGSIZE = 2
    NPTE = 2
    NPDE = 2
    Deltas <- MCDeltas
    Ends = {1, 3}
SYMMETRY Symmetry
INVARIANTS
    NoLostWakeup
    FreedUnused
    NoStuckModifier
    Exclusive
    LocksNest
    PagesAccounted
    SizeMapped
PROPERTIES
    FifoSpec
    TtySpec
    SleepsLongEnough
