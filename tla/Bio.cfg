SPECIFICATION FairSpec
CONSTANTS
    NBUF = 2
    Block = {k1, k2, k3}
    NoBlock = NoBlock
    Value = {v1, v2}
    Proc = {p1, p2}
    NoProc = NoProc
    MaxPin = 1
    DiskErrors = FALSE
PROPERTIES
    StoreSpec
    BreadReturns
