\* One tray, two states of PipeWire, one file that is accepted and one that is not.
CONSTANTS
    beta = beta
    gamma = gamma
    Peers = {beta, gamma}
    WORD = 524288
    Unset = Unset
    None = None
    Clients = {c}
    Worlds = {v, w}
    Files <- SixAndFive
    Targets = {a}
    OthersAsk = {{a}}
    Revisions = 2
    MaxSignals = 2
SPECIFICATION FairSpec
INVARIANTS
    TypeOK
    LinksAreSound
    HeardIsCurrent
PROPERTIES
    NewsIsNews
    NewsArrives
