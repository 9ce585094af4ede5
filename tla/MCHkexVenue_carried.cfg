SPECIFICATION MCSpec
CONSTANTS
    MaxOrders = 4
    Sessions = {"A", "B"}
    Clients = {"A", "B"}
    SessionEntries <- HkexSessions
    MarketConfigs <- HkexMarkets
    Names = {"n", "m"}
    AckOnEntry = TRUE
    RuleChoices = {}
    MaxRules = 0
    MaxRequests = 4
    Mpids = {"A", "B"}
    StpIds = {"g"}
    Requests <- CarriedRequests
    Amendments <- HkexChanges
    MaxAmends = 0
    MaxPhases = 2
    Phases = {"OPEN", "PRE_OPEN", "CLOSING_AUCTION", "CLOSED"}
    InitialPhases = {"OPEN", "PRE_OPEN"}
    AuctionPhases = {}
    UncrossInto = {}
    Overrides = {"OPEN", "PRE_OPEN", "CLOSING_AUCTION", "CLOSED"}
    StpChoices = {"NONE"}
    Rules <- STANDARD_RULES
    RefPrice = 0
    BasePrices = {0, 20}
    References = {25}
    QuotationSpreads = 4
    AggressionSpreads = 3
PROPERTY CarriedPassiveNeverMatches
CHECK_DEADLOCK FALSE
