\* One peer with two plans and two transports, one with a command that may fail.
CONSTANTS
    Peers = {a}
    Plans = {x, y}
    Transports = {t, u}
    Flaky = {u}
    Absent = Absent
    MISSES_BEFORE_UNREACHABLE = 2
    MAX_SPAWN_BACKOFF = 3
    HEALTHY_RUN = 1
    MaxMisses = 2
    MaxCount = 4
SPECIFICATION HSpec
INVARIANTS
    HTypeOK
    RecordMatchesEvidence
    PauseServed
    OneSessionPerPeer
    NothingKeptForRemovedPeers
PROPERTIES
    SessionOutlivesSilence
    StartsAreThrottled
    SessionRestored
    ExitedIsReaped
    RemovedIsStopped
    PresenceConverges
