\* A stream pinned to an output that is plugged in.
CONSTANTS
    Here = Here
    There = There
    None = None
    Ids = {1, 2}
    MaxChannels = 1
    Voices = 1
    Layouts <- Plugging
    Wanted <- PinnedToFirst
SPECIFICATION FairSpec
PROPERTY NoOtherOutputHears
