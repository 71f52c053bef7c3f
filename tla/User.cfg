SPECIFICATION MCSpec
CONSTANTS
    MAXARGS = 3
    NPROC = 7
    NFD = 6
    NPIPE = 2
    PIPESIZE = 1
    Lines <- MCLines
    MaxLines = 2
    MaxFails = 1
    Chunks = 2
    MaxLine = 5
    BUFSIZE = 4
    Patterns <- MCPatterns
    Inputs <- MCInputs
    HDR = 8
    MINCORE = 4
    HeapStart = 2
    Limit = 11
    Requests = {0, 8, 9, 40}
    Gaps = {1}
    FSSIZE = 16
    LOGSIZE = 2
    NINODES = 4
    IPB = 2
    BPB = 17
    BSIZE = 2
    NDIRECT = 1
    MaxFiles = 3
    Lengths = {0, 1, 3, 6, 7}
CHECK_DEADLOCK FALSE
INVARIANTS
    ForegroundDone
    ProgramsWired
    ParsesGrammar
    
    HeapPartitioned
    ImageConsistent
PROPERTY PromptReturns
