CONSTANTS
    Tags <- MCTags
    Dictionary <- MCDictionary
    Messages <- MCMessages
    MapBytes = 2
    BlockMapBytes = 2
    Layouts <- MCLayouts
    Nobody = Nobody
    a = a
    b = b
    Members = {a, b}
    Suites <- MCSuites
    Kinds = {"Logon", "Logout", "Fill"}
    Numbered = {"Fill"}
    MaxSent = 5
SPECIFICATION MCSpec
INVARIANTS
    CheckedTablesRoundTrip
    ReadingIsSound
    VerdictsAreFounded
PROPERTIES
    RunnerReturns
CHECK_DEADLOCK FALSE
