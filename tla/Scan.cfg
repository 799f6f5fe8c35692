SPECIFICATION Spec
CONSTANTS
    m1 = m1
    m2 = m2
    Markets <- MCMarkets
    Pair <- MCPair
    Universes <- MCUniverses
    Coverage = {TRUE, FALSE}
    ChunkSize = 2
    MaxEvents = 2
    MaxRefreshes = 1
INVARIANTS
    TypeOK
PROPERTIES
    NothingForgotten
    AddedMarketsDirty
