SPECIFICATION Spec
CONSTANTS
    Tokens <- MCTokens
    Prices = {1}
    NoBook = NoBook
    ChunkSize = 1
    Universes <- MCUniverses
    MaxChanges = 2
    MaxBreaks = 1
    MaxFetches = 1
    MaxUpdates = 2
INVARIANTS
    TypeOK
    AskAgrees
    ReadsOwnBook
    SubscribedIsAssigned
    OneWorkerPerToken
