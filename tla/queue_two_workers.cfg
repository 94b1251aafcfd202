\* Two worker processes contend for the table, and the second starts late.
CONSTANTS
    Jobs = {1, 2, 3}
    Fingerprints = {fA}
    ClaimAttempts = 2
    TTL = 1
    MaxTime = 1
    Handlers = {r1}
    Workers = {w1, w2}
    MaxMuxes = 1
    MaxPass = 1
    MaxCrashes = 0
SPECIFICATION Spec
INVARIANT OneOwner
PROPERTY ClaimsOldest
