SPECIFICATION Spec
CONSTANTS
    Pages = {p1, p2}
    Workers = {}
    Schedulers = {s1, s2}
    Msgs = {m1}
    NoPage = NoPage
    Replies <- GoodOnly
    MaxAttempts = 1
    MaxEdits = 0
    MaxFaults = 0
SYMMETRY SchedulerSymmetry
PROPERTIES
    PublishAfterCommit
CHECK_DEADLOCK FALSE
