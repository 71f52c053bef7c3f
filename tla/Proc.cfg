SPECIFICATION Spec
CONSTANTS
    NPROC = 3
    CPU = {c1, c2}
    NoCpu = NoCpu
    MINTICKETS = 1
    TicketArgs <- MCTicketArgs
    KillArgs = {0, 2, 3}
    INT_MAX = 7
    MaxPid = 4
SYMMETRY CpuSymmetry
INVARIANTS
    OneCpuPerProcess
    StackInUse
    WaiterHasReason
    ParentCanWait
    PidFindsOwner
    DrawHasWinner
