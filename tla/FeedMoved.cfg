SPECIFICATION Spec
CONSTANTS
    Tokens <- MCTokens
    Prices = {1}
    NoBook = NoBook
    ChunkSize = 1
    Universes <- MCUniverses
    MaxChanges = 0
    MaxBreaks = 1
    MaxFetches = 0
    MaxUpdates = 1
INVARIANTS
    DisconnectClears
