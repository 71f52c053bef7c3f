SPECIFICATION InfoSpec
CONSTANTS
    NPROC = 3
    CPU = {c1, c2}
    NoCpu = NoCpu
    MINTICKETS = 1
    TicketArgs = {1}
    KillArgs = {2}
    INT_MAX = 7
    MaxPid = 3
INVARIANT RowHasState
