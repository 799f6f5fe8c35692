SPECIFICATION Spec
CONSTANTS
    m1 = m1
    m2 = m2
    Markets <- MCMarkets
    Pair <- MCPair
    Universes <- MCUniverses
    Coverage = {TRUE}
    ChunkSize = 2
    MaxEvents = 2
    MaxRefreshes = 0
PROPERTIES
    DueEvaluated
    StopsEventually
