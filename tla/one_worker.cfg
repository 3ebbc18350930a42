SPECIFICATION Spec
CONSTANTS
    Pages = {p1}
    Workers = {w1}
    Schedulers = {s1}
    Msgs = {m1, m2}
    NoPage = NoPage
    Replies <- AllReplies
    MaxAttempts = 2
    MaxEdits = 1
    MaxFaults = 1
SYMMETRY MsgSymmetry
INVARIANTS
    SuccessDescribesFile
    FetchTimeCoversBody
PROPERTIES
    EditTimeKept
    SuccessKept
    FileKept
