SPECIFICATION MCSpec
CONSTANTS
    ResetOnLogon = FALSE
    AllowLogonReset = TRUE
    NextExpected = TRUE
    Reports = {0, 1}
    MaxOut = 4
    Inbound <- Everything
    MaxSends = 4
    MaxIn = 2
    MaxCrashes = 3
    Tearing = FALSE
INVARIANTS
    DeliveredOnceInOrder
PROPERTIES
    GapFillsHideNoReport
    CrashesLoseNothing
CHECK_DEADLOCK FALSE
