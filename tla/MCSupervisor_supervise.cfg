CONSTANTS
    None = None
    Pids = {p1, p2, p3}
    Controllers = {c1}
    Declared <- MCDeclared
    Answering <- MCAnswering
SPECIFICATION Spec
INVARIANTS
    OneDaemonPerService
PROPERTIES
    StartedIsServing
    CommandsReturn
