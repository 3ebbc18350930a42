SPECIFICATION FairSpec
CONSTANTS
    Ids <- SmallIds
    Records <- SmallRecords
    FirstList <- SmallList
    MaxChanges = 3
    PageSize = 2
    DeclaredSizes = {0, 1, 2}
    DefaultPageSize = 2
    MaxPages = 4
    Interval = 2
    Jitter = 1
    Headers <- SmallHeaders
INVARIANT ApiTypeOK
INVARIANT MissesBounded
INVARIANT PagesWhole
PROPERTY RetryAfterKept
PROPERTY BehavesPolitely
PROPERTY ApiEnds
