SPECIFICATION MCSpec
CONSTANTS
    MaxOrders = 3
    Sessions = {"A", "B", "X"}
    Clients = {"A", "B"}
    Names = {"n", "m"}
    RuleChoices <- EntryRules
    AckOnEntry = FALSE
    MaxRules = 1
    MaxRequests = 3
    Mpids = {"A", "B", "X"}
    StpIds = {}
    Requests <- EntryRequests
    Amendments <- EntryChanges
    MaxAmends = 1
    MaxPhases = 1
    Phases = {"OPEN", "HALTED"}
    InitialPhases = {"OPEN"}
    AuctionPhases = {}
    UncrossInto = {}
    Overrides = {"OPEN", "HALTED"}
    StpChoices = {"NONE", "DECREMENT", "CANCEL_OLDEST", "CANCEL_NEWEST"}
    Rules <- PREOPEN_RULES
    RefPrice = 0
    MarketConfigs <- EntryMarkets
    SessionEntries <- EntrySessions
    SubIds = {"DAYX"}
    MaxLogons = 3
    MaxReloads = 1
INVARIANTS
    IndexIsTheInverseOfTheChains
    ClientKnowsTheVenue
PROPERTIES
    BindingsArePermanent
    EveryEndIsReported
CHECK_DEADLOCK FALSE
