\* Two imports at once, a failing statement, a walk through the history.
CONSTANTS
    Earlier <- MCEarlier
    HistoryMax = 2
    PageSize = 1
    MaxWalks = 1
    Imports = {1, 2}
    Limit = 3
    MaxSaid = 2
    MaxUpsets = 1
SPECIFICATION JournalFairSpec
INVARIANTS
    AccountIsWhole
    WalkIsComplete
PROPERTIES
    LogOnlyGrows
    Followed
    NewestAreKept
CHECK_DEADLOCK FALSE
