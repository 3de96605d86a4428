CONSTANTS
    None = None
    Malformed = Malformed
    IndexSchema <- MCSchema
    Tokens <- MCTokens
    Snapshots <- MCSnapshots
    Queries <- MCQueries
    Separators <- MCSeparators
    Lowercase <- MCLowercase
    Length <- MCLength
    Distance <- MCDistance
    Extensions <- MCExtensions
    Scores <- MCScores
    Affordable = 2
    MaxResultLimit = 2
    MaxQueryTokens = 2
    DefaultLimit = 2
SPECIFICATION Spec
INVARIANTS HitsAreMeant BestHitsKept UnknownFieldThrows OnlyUnindexedIsRefused
