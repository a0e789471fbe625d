SPECIFICATION QueueSpec
CONSTANTS
    None = None
    Users = {u1}
    Emails = {e1, e2}
    Kinds = {"reset"}
    Jobs = {j1, j2}
    Workers = {w1, w2}
    Attempts = 2
    MaxStalled = 1
INVARIANTS QueueTypeOK MailsPerJobBounded CompletedMeansSentOrGone
PROPERTY EveryJobFinishes
CHECK_DEADLOCK FALSE
