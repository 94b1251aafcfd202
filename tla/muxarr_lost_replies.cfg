\* Every reply to a POST is lost: the script defers an import that is queued.
CONSTANTS
    Jobs = {1}
    Fingerprints = {f}
    ClaimAttempts = 1
    TTL = 4
    MaxTime = 8
    Deadline = 5
    MaxRetries = 2
    PostLife = 1
    MaxMuxes = 1
    MaxCrashes = 0
SPECIFICATION Spec
INVARIANT DeferMeansUntouched
