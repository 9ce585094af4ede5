SPECIFICATION LinkSpec
CONSTANTS
    ResetOnLogon = FALSE
    AllowLogonReset = TRUE
    NextExpected = FALSE
    Reports = {0, 1}
    MaxOut = 0
    OrderKinds = {"APP", "BAD"}
    MaxNumber = 12
    Limits <- AnyLimits
    Inbound <- NoPeer
INVARIANTS
    BothSidesAgree
PROPERTY
    MessagesArrive
CHECK_DEADLOCK FALSE
