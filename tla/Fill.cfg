SPECIFICATION StrategySpec
CONSTANTS
    Prices <- MCPrices
    Payout <- MCPayout
    Base = 10
    Slip = 1
    Fee = 1
    Merge = 1
    Ceiling = 36
    Reserve = 5
    AskBooks <- MCAskBooks
    TapePairs <- MCTapePairs
    Signals <- MCSignals
    Conditions <- MCConditions
    Cashes = {31, 60}
    MinSize = 2
    Floor <- MCFloor
    Weights <- MCWeights
    AllowPrints = TRUE
    MaxMove = 2
    Throttle = 5
    QueueRatio = 8
    Removal = 3
    AdverseMove = 1
    SlipCap = 3
    TakeMax = TRUE
    Window = 2
    NoOffer = NoOffer
    NoOutcome = NoOutcome
    Markets = {m1, m2, m3}
    Events <- MCEvents
    Capitals = {11, 30}
    NoEvent = NoEvent
    NoDecision = NoDecision
INVARIANTS TypeOK StrategyNeverBehind GroupPaysWhoeverWins BestPlan SameBooksSameFill RestsOnPublicDepth FillsPayAndFit
