CONSTANTS
    p1 = p1
    p2 = p2
    None = None
    Names <- MCNames
    Values <- MCValues
    Tokens <- MCTokens
    Processes <- OneProcess
    Configs <- BothHeaps
    Documents <- WithNonObject
    Keys <- AnyKeys
    Marked <- TitleIsMarked
    Faults <- AllFaults
    MaxHandles = 3
    MaxStamps = 1
    MaxCommits = 1
SPECIFICATION ObjectSpec
INVARIANTS WriterLockConsistent
PROPERTIES FreshHandle LockIsReleased
