SPECIFICATION Spec
CONSTANTS
    Inum = {1, 2, 3}
    Name = {"a", "b"}
    p1 = p1
    p2 = p2
    Proc = {p1, p2}
    NoProc = NoProc
    Calls <- MCCalls
    MaxLink = 3
SYMMETRY DirSymmetry
CHECK_DEADLOCK FALSE
INVARIANTS
    NamedIsAllocated
    
    CacheIsCurrent
    DotDotIsParent
