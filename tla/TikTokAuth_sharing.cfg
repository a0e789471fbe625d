SPECIFICATION Spec
CONSTANTS
    Users = {u1, u2}
    Shops = {s1, s2}
    Requests = {r1, r2}
    None = None
    Life = 1
    Buffer = 1
    StateMaxAge = 0
    Latency = 0
    MaxTime = 0
SYMMETRY Symmetry
INVARIANTS TypeOK TokensStayWithUser
PROPERTIES OnlyCallbackConnects RegistrySpec
