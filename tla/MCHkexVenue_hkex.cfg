SPECIFICATION MCSpec
CONSTANTS
    MaxOrders = 3
    Sessions = {"A", "B"}
    Clients = {"A", "B"}
    SessionEntries <- HkexSessions
    MarketConfigs <- HkexMarkets
    Names = {"n", "m"}
    AckOnEntry = TRUE
    RuleChoices <- HkexRules
    MaxRules = 2
    MaxRequests = 3
    Mpids = {"A", "B"}
    StpIds = {"g"}
    Requests <- AllHkexRequests
    Amendments <- HkexChanges
    MaxAmends = 1
    MaxPhases = 3
    Phases = {"OPEN", "PRE_OPEN", "CLOSING_AUCTION", "CLOSED"}
    InitialPhases = {"OPEN", "PRE_OPEN"}
    AuctionPhases = {}
    UncrossInto = {}
    Overrides = {"OPEN", "PRE_OPEN", "CLOSING_AUCTION", "CLOSED"}
    StpChoices = {"NONE"}
    Rules <- STANDARD_RULES
    RefPrice = 0
    BasePrices = {0, 20}
    References = {25}
    QuotationSpreads = 4
    AggressionSpreads = 3
INVARIANT AcknowledgedFirst
PROPERTIES
    NoneTradesThroughTheBand
    LockedVolumeNeverShrinks
CHECK_DEADLOCK FALSE
