SPECIFICATION FairSpec
CONSTANTS
    Block = {b1, b2}
    Value = {v0}
    Op = {p1, p2, p3}
    InitOp = p1
    MAXOPBLOCKS = 1
    LOGSIZE = 2
    LogBlocks = 3
    OpBlocks = 1

    
PROPERTY SleeperGetsIn
