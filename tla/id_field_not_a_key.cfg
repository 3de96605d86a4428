CONSTANTS
    p1 = p1
    p2 = p2
    None = None
    Names <- MCNames
    Values <- MCValues
    Tokens <- MCTokens
    Processes <- OneProcess
    Configs <- GoodAndTextId
    Documents <- OnlyDocA
    Keys <- ExactKeys
    Marked = {}
    Faults = {}
    MaxHandles = 1
    MaxStamps = 1
    MaxCommits = 1
SPECIFICATION Spec
INVARIANTS IdFieldIsAKey
