SPECIFICATION FairSpec
CONSTANTS
    NPROC = 3
    CPU = {c1}
    NoCpu = NoCpu
    MINTICKETS = 1
    TicketArgs = {0, 1}
    KillArgs = {2, 3}
    INT_MAX = 7
    MaxPid = 3
PROPERTIES
    KilledExits
    OrphansReaped
