SPECIFICATION MCSpec
CONSTANTS
    MaxOrders = 4
    Sessions = {"A", "B"}
    Mpids = {"A", "B"}
    StpIds = {"K"}
    Scenarios <- MarketScenarios
    Requests <- AllRequests
    Amendments <- AnyChanges
    MaxAmends = 2
    MaxPhases = 3
    Phases <- EveryPhase
    InitialPhases = {"OPEN", "PRE_OPEN"}
    AuctionPhases <- NseCalls
    UncrossInto = {"OPEN"}
    Overrides = {"HALTED"}
    StpChoices <- StpModes
    Rules <- PREOPEN_RULES
    RefPrice = 2
    TickRows <- TickTable
    BandRows <- BandTable
    BasePrice = 4
    LadderRows = 1
    Centers = {2}
INVARIANTS
    MarketIsConsistent
    LadderAccountsForBook
PROPERTIES
    AllOrNothing
    BookFitsThePhase
    TradesAreFair
    EveryTaskEnds
    ImplementsLedger
CHECK_DEADLOCK FALSE
