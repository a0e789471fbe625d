SPECIFICATION Spec
CONSTANTS
    u1 = u1
    u2 = u2
    s1 = s1
    s2 = s2
    c1 = c1
    c2 = c2
    c3 = c3
    Users = {u1, u2}
    Servers = {s1, s2}
    Sockets = {c1, c2, c3}
    UserOf <- MCUserOf
    ServerOf <- MCServerOf
    None = None
INVARIANTS
    TypeOK
    UndisturbedListIsExact
    SendsReachOnlyTheUser
