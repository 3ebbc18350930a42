SPECIFICATION FairWorkers
CONSTANTS
    Pages = {p1}
    Workers = {w1}
    Schedulers = {s1}
    Msgs = {m1}
    NoPage = NoPage
    Replies <- AllReplies
    MaxAttempts = 1
    MaxEdits = 0
    MaxFaults = 0
PROPERTIES
    MessagesSettle
