SPECIFICATION WireSpec
CONSTANTS
    Viewers = {"v1"}
    Candidates = {"v1"}
    AuxStates = {"NO_SERVER_AUX", "ACTIVE", "MESCLAR"}
    NoAux = "NO_SERVER_AUX"
    MaxBoots = 3
    Garbage <- MCGarbage
INVARIANTS TypeOK Agreement ObeysItsBootstrap WireCarries
PROPERTIES KeepsPromise NewsArrives
