SPECIFICATION MCSpec
CONSTANTS
    Boxes = {1}
    Users = {"A", "B"}
    BoxOf <- OneBox
    Capacity = 2
    Interval = 1
    DropLimit = 2
    Clock = {0}
    NoSecret = NoSecret
    MaxSecrets = 2
    MaxStamps = 5
    BrokersOf <- OneBroker
    BrokerOf <- SameBroker
    CancelOnDisconnect = {"A"}
    Trimmed = {"A"}
    RequireEncryption = TRUE
    Stream = 1
    BandPercent = 10
    BasePrices = {20}
    MaxOrders = 2
    Sessions = {"A", "B", "OPS"}
    Clients = {"A", "B"}
    Names = {}
    AckOnEntry = TRUE
    RuleChoices <- OneRule
    MaxRules = 1
    MaxRequests = 2
    Mpids = {}
    StpIds = {}
    Requests <- NseRequests
    Amendments <- NseChanges
    MaxAmends = 1
    MaxPhases = 1
    Phases = {"OPEN", "PRE_OPEN", "CLOSED"}
    InitialPhases = {"OPEN", "PRE_OPEN"}
    AuctionPhases = {"PRE_OPEN", "OPENING_AUCTION"}
    UncrossInto = {"OPEN"}
    Overrides = {"OPEN", "PRE_OPEN", "CLOSED"}
    StpChoices = {"NONE"}
    Rules <- STANDARD_RULES
    RefPrice = 0
INVARIANTS
    DownloadRecovers
    KeyServesOneConnection
    PunctualMemberStays
    ReportsKeepTheirForm
PROPERTIES
    BrokenBoxIsDropped
CHECK_DEADLOCK FALSE
