CONSTANTS
    p1 = p1
    p2 = p2
    None = None
    Names <- MCNames
    Values <- MCValues
    Tokens <- MCTokens
    Processes <- TwoProcesses
    Configs <- ManyConfigs
    Documents <- WithNonObject
    Keys <- AnyKeys
    Marked = {}
    Faults <- NoLockFault
    MaxHandles = 1
    MaxStamps = 2
    MaxCommits = 2
SPECIFICATION Spec
SYMMETRY Symmetry
INVARIANTS IndexIsUsable
PROPERTIES ImplementsNrtStore BusyMeansContended RejectedWriteTakesNoLock FailedWriteLosesNoOthers
