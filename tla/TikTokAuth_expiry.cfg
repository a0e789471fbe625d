SPECIFICATION FairSpec
CONSTANTS
    Users = {u1}
    Shops = {s1}
    Requests = {r1, r2}
    None = None
    Life = 3
    Buffer = 1
    StateMaxAge = 0
    Latency = 1
    MaxTime = 4
PROPERTIES HandedTokenIsValid RequestsAreAnswered
