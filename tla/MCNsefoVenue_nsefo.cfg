SPECIFICATION MCSpec
CONSTANTS
    Boxes = {1}
    Users = {"A"}
    BoxOf <- OneBox
    Capacity = 4
    Interval = 1
    DropLimit = 2
    Clock = {0}
    NoSecret = NoSecret
    MaxSecrets = 2
    MaxStamps = 6
    BrokersOf <- OneBroker
    BrokerOf <- SameBroker
    CancelOnDisconnect = {}
    Trimmed = {}
    RequireEncryption = TRUE
    Stream = 1
    Contracts = {"near", "far", "call"}
    ContractOf <- FoContracts
    Near = "near"
    Far = "far"
    RangeLow = 1
    RangeHigh = 3
    BandPercent = 10
    BasePrices = {20}
    MaxOrders = 2
    Sessions = {"A", "OPS"}
    Clients = {"A"}
    Names = {}
    AckOnEntry = TRUE
    RuleChoices <- OneRule
    MaxRules = 1
    MaxRequests = 2
    Mpids = {}
    StpIds = {}
    Requests <- FoRequests
    Amendments <- FoChanges
    MaxAmends = 1
    MaxPhases = 1
    Phases = {"OPEN", "CLOSED"}
    InitialPhases = {"OPEN"}
    AuctionPhases = {}
    UncrossInto = {}
    Overrides = {"OPEN", "CLOSED"}
    StpChoices = {"NONE"}
    Rules <- STANDARD_RULES
    RefPrice = 0
INVARIANT
    MemberKnowsItsTrades
PROPERTY
    LegsCatchUp
CHECK_DEADLOCK FALSE
