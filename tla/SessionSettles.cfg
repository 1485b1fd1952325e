\* Two hosts, the second of which has an output that changes its channels.
CONSTANTS
    Here = Here
    There = There
    None = None
    Ids = {1, 2}
    MaxChannels = 2
    Voices = 1
    Layouts <- Growing
    Wanted <- PinnedToSecond
SPECIFICATION FairSpec
INVARIANTS
    TypeOK
    SlicesAreApart
    AgreedSoundIsHeard
PROPERTIES
    AgreementLasts
    PinnedSoundArrives
