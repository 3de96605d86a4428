CONSTANTS
    p1 = p1
    p2 = p2
    None = None
    Names <- MCNames
    Values <- MCValues
    Tokens <- MCTokens
    Processes <- TwoProcesses
    Configs <- OnlyGood
    Documents <- WithNonObject
    Keys <- AnyKeys
    Marked = {}
    Faults = {}
    MaxHandles = 1
    MaxStamps = 3
    MaxCommits = 2
SPECIFICATION Spec
SYMMETRY Symmetry
INVARIANTS TypeOK WriterLockConsistent NoOrphanState CommitMakesDurable
PROPERTIES BusyMeansContended RejectedWriteTakesNoLock FailedWriteKeepsPending WritesTakeEffect
