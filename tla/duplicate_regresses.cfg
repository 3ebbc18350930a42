SPECIFICATION Spec
CONSTANTS
    Pages = {p1}
    Workers = {w1, w2}
    Schedulers = {s1}
    Msgs = {m1, m2}
    NoPage = NoPage
    Replies <- GoodOrGone
    MaxAttempts = 1
    MaxEdits = 0
    MaxFaults = 0
PROPERTIES
    SuccessKept
