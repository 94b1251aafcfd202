\* Held-up passes, two heartbeats lost in a row, thirds of a second cut off, and
\* three events.
CONSTANTS
    Second = 3
    HeartbeatInterval = 3
    HealthCheckInterval = 4
    Hosts <- MCHosts
    Configs <- MCConfigs
    MaxHeld = 3
    MaxMissed = 2
    MaxEvents = 3
SPECIFICATION FairSpec
INVARIANTS
    LiveIsSeen
    OfflineComesFirst
PROPERTY ReportCatchesUp
