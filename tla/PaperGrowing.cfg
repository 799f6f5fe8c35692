SPECIFICATION FairSpec
CONSTANTS
    m1 = m1  m2 = m2  f1 = f1  f2 = f2
    Markets = {m1, m2}
    NegRisk = {m2}
    Plans <- GrowingPlans
    LegPrices = {}
    Snapshots = {f1, f2}
    SavedBooks <- GrowingSavedBooks
    Payout <- MCPayout
    Starting <- MCStarting
    Reserve = 2
    Ceiling = 55
    Merge = 3
    MinSize = 2
    MinProfit = 2
    StepQty = 2
    StepLimits = {0, 2, 3}
    Grow = TRUE
    MergePerStep = FALSE
    BlockReentry = FALSE
    ManageUnmatched = TRUE
    RequireWinner = FALSE
    MaxExecutions = 1
    LegFp = LegFp  NoFile = NoFile  NoBook = NoBook  NoActive = NoActive  NoFp = NoFp
INVARIANTS SettledOnce PnlExplained
PROPERTY ActiveEventuallyClosed
