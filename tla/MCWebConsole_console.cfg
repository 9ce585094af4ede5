CONSTANTS
    None = None
    Token = secret
    LinkToken = secret
    Capacity = 1
    PageLimit = 1
    Browsers = {b1, b2}
    Tailer = b1
    Leavers = {b2}
    b1 = b1
    b2 = b2
    Asked <- MCAsked
    OneShot = {"instrument.remove"}
    AllowMarketControl = TRUE
    AllowAudit = TRUE
    MaxRequests <- MCMaxRequests
    MaxFaults = 1
    MaxActs = 2
SPECIFICATION Spec
INVARIANTS
    CommandsAreSound
    TailMissesNothing
PROPERTIES
    EveryRequestAnswered
    BoardRecovers
CHECK_DEADLOCK FALSE
