\* A tray alone with the daemon, and a stream with two outputs to tick.
CONSTANTS
    beta = beta
    gamma = gamma
    Peers = {beta, gamma}
    WORD = 524288
    Unset = Unset
    None = None
    Clients = {c}
    Worlds = {v}
    Files <- SixAndFive
    Targets = {a, b}
    OthersAsk = {}
    Revisions = 2
    MaxSignals = 2
SPECIFICATION Spec
PROPERTY TicksAddUp
