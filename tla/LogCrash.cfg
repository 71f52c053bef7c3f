SPECIFICATION Spec
CONSTANTS
    Block = {b1, b2, b3}
    Value = {v0, v1}
    Op = {p1, p2}
    InitOp = p1
    MAXOPBLOCKS = 3
    LOGSIZE = 6
    LogBlocks = 6
    OpBlocks = 2
SYMMETRY LogSymmetry
INVARIANT CommitIsDurable
PROPERTY AtomicSpec
