CONSTANTS
    p1 = p1
    p2 = p2
    p3 = p3
    d1 = d1
    d2 = d2
    None = None
    Tokens <- MCTokens
    Processes <- ThreeProcesses
    Builders <- OneBuilder
    Configs <- MCConfigs
    Documents <- TwoDocuments
    InitialMetas <- NoneOrEmpty
SPECIFICATION Spec
INVARIANTS CommitsSurvive
PROPERTIES ImplementsOneIndex
