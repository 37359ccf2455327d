SPECIFICATION Spec
CONSTANTS
    Calls = {c1, c2, c3}
    MaxConnections = 1
    MaxGenerations = 2
INVARIANTS
    GenerationClosed
PROPERTIES
    DeactivationReturns
    CallsReturn
