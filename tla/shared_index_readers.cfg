CONSTANTS
    p1 = p1
    p2 = p2
    None = None
    Names <- MCNames
    Values <- MCValues
    Tokens <- MCTokens
    Processes <- TwoProcesses
    Configs <- OnlyGood
    Documents <- WithNonObject
    Keys <- AnyKeys
    Marked = {}
    Faults <- AllFaults
    MaxHandles = 1
    MaxStamps = 2
    MaxCommits = 1
SPECIFICATION ReaderSpec
PROPERTIES ReaderCatchesUp
