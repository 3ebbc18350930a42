SPECIFICATION FairSystem
CONSTANTS
    Pages = {p1}
    Workers = {w1}
    Schedulers = {s1}
    Msgs = {m1, m2}
    NoPage = NoPage
    Replies <- GoodOrDown
    MaxAttempts = 1
    MaxEdits = 0
    MaxFaults = 1
INVARIANTS
    TypeOK
PROPERTIES
    MessagesSettle
    PendingResolved
