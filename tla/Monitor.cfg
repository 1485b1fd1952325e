\* The metadata, and two more ids, of which one is left for the daemon's own pw-dump.
CONSTANTS
    Ids = {1, 2, 3}
    Metadata = {3}
    Looks = {plain}
    Settings = {here, there}
    Client = Client
    None = None
    Capacity = 1
    MaxBatches = 1
\* Without the fabric task the daemon rests when nothing happens.
CHECK_DEADLOCK FALSE
SPECIFICATION FairSpec
INVARIANTS
    TypeOK
    RelevantIsExact
    ChangesAreUnderWay
PROPERTIES
    ServesReadings
    GraphIsFollowed
    ComesToRest
    OwnConnectionWakesNobody
    OutageIsNoticed
