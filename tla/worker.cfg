\* Two slots, signals, and two kills or failing statements anywhere.
CONSTANTS
    Jobs = {1, 2}
    Fingerprints = {f}
    ClaimAttempts = 2
    TTL = 0
    MaxTime = 1
    Limit = 2
    PageSize = 1
    HistoryMax = 2
    InsertLag = 0
    MaxEvents = 2
SPECIFICATION FairSpec
INVARIANTS
    NothingLeftBehind
    RecordedOnce
PROPERTIES
    TaskEndSettles
    WorkerProgresses
