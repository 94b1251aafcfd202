\* One import, every loss and delay; the TTL outlasts the retry windows.
CONSTANTS
    Jobs = {1}
    Fingerprints = {f}
    ClaimAttempts = 1
    TTL = 4
    MaxTime = 8
    Deadline = 5
    MaxRetries = 2
    PostLife = 2
    MaxMuxes = 1
    MaxCrashes = 1
SPECIFICATION FairSpec
INVARIANTS
    AnswerIsTrue
    RowOutlivesRetries
PROPERTY ShimExits
