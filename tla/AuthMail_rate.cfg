SPECIFICATION Spec
CONSTANTS
    None = None
    Users = {u1}
    Emails = {e1}
    Kinds = {"signin"}
    Jobs = {j1, j2}
    Workers = {w1}
    Attempts = 0
    MaxStalled = 0
    Requests = {r1, r2}
    Window = 2
    MaxTime = 2
INVARIANT OneMailPerWindow
