SPECIFICATION Spec
CONSTANTS
    m1 = m1  m2 = m2  f1 = f1  f2 = f2
    Markets = {m1, m2}
    NegRisk = {}
    Plans <- MCPlans
    LegPrices = {2}
    Snapshots = {f1, f2}
    SavedBooks <- MCSavedBooks
    Payout <- MCPayout
    Starting <- MCStarting
    Reserve = 29
    Ceiling = 48
    Merge = 3
    MinSize = 2
    MinProfit = 2
    StepQty = 2
    StepLimits = {0, 1, 3}
    Grow = FALSE
    MergePerStep = TRUE
    BlockReentry = TRUE
    ManageUnmatched = TRUE
    RequireWinner = TRUE
    MaxExecutions = 2
    LegFp = LegFp  NoFile = NoFile  NoBook = NoBook  NoActive = NoActive  NoFp = NoFp
INVARIANTS
    TypeOK MemoryIsDurable RecordedOnce SnapshotTradedOnce LoggedIsDurable
    StepKeepsReserve SettledOnce Conserved PnlExplained
PROPERTIES CashNeverFalls ImplementsLedger
