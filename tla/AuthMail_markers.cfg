SPECIFICATION Spec
CONSTANTS
    None = None
    Users = {u1}
    Emails = {e1}
    Kinds = {"reset", "signin"}
    Jobs = {j1, j2}
    Workers = {}
    Attempts = 0
    MaxStalled = 0
    Requests = {r1, r2}
    Window = 2
    MaxTime = 3
SYMMETRY Symmetric
INVARIANTS TypeOK CloseMailsAreRaces MarkerMeansQueued
PROPERTY DrivesQueueAsSpecified
