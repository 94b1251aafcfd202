\* Two requests, a death, a new environment and a statement that raises.
SPECIFICATION FairSpec
CONSTANTS
    r1 = r1
    r2 = r2
    Requests = {r1, r2}
    Changes <- MCChanges
    MaxFaults = 1
INVARIANT
    InForceIsStored
PROPERTIES
    ReadYourWrites
    SavesAreUsable
    OverlapOnlyReverts
    WorkerCatchesUp
