CONSTANTS
    None = None
    Clients = {c1, c2}
    c1 = c1
    c2 = c2
    PortsOf <- MCPortsOf
    Wires = {"fix", "binary", "nnf"}
    Scripts <- MCScripts
    Room = 1
    JunkLimit = 1
    MaxRouting = 2
    MaxKills = 1
SPECIFICATION MCSpec
INVARIANTS
    SessionsAreFedInOrder
PROPERTIES
    AllHandled
    LastWords
CHECK_DEADLOCK FALSE
