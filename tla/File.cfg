SPECIFICATION Spec
CONSTANTS
    p1 = p1
    p2 = p2
    Proc = {p1, p2}
    NoProc = NoProc
    Inum = {1, 2}
    NOFILE = 2
    NFILE = 2
    BSIZE = 2
    NDIRECT = 1
    BPB = 1
    MAXOPBLOCKS = 6
    NBlock = 8
    Counts = {1, 3}
    MaxCalls = 6
CHECK_DEADLOCK FALSE
SYMMETRY FileSymmetry
INVARIANTS
    BlocksOwnedOnce
    InodeWritten
    WriteFits
PROPERTIES
    ContentsSpec
    AppendsKept
