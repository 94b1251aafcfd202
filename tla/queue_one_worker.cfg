\* One worker process, as deployed: it dies and restarts, imports run in two
\* slots, and two API requests submit equal or different payloads at once.
CONSTANTS
    Jobs = {1, 2}
    Fingerprints = {fA, fB}
    ClaimAttempts = 1
    TTL = 0
    MaxTime = 1
    Handlers = {r1, r2}
    Workers = {w1}
    MaxMuxes = 2
    MaxPass = 1
    MaxCrashes = 1
SPECIFICATION FairSpec
INVARIANTS
    TableMatchesWorker
    AcksAgree
PROPERTIES
    LifecycleSpec
    PendingIsClaimed
