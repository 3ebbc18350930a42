SPECIFICATION FairSpec
CONSTANTS
    Replies <- PolicyReplies
    RetryHeaders <- Headers
    MaxAttempts = 3
    BaseDelay = 2
    Jitter = 1
    RetryDefault = 3
    RetryMax = 6
INVARIANTS
    FetcherTypeOK
    LeavesOnThird429
    TrailTellsStory
PROPERTIES
    RetryAfterKept
    BehavesPolitely
    MessageEnds
