CONSTANTS
    p1 = p1
    p2 = p2
    None = None
    Names <- MCNames
    Values <- MCValues
    Tokens <- MCTokens
    Processes <- OneProcess
    Configs <- OnlyGood
    Documents <- OnlyDocA
    Keys <- ExactKeys
    Marked = {}
    Faults <- AddFault
    MaxHandles = 1
    MaxStamps = 2
    MaxCommits = 1
SPECIFICATION Spec
PROPERTIES FailedWriteKeepsPending
