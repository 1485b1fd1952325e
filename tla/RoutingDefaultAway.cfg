\* A remembered default whose peer goes away.
CONSTANTS
    s1 = s1
    k1 = k1
    None = None
    Streams = {s1}
    IntentOf <- OneStream
    Local = {l}
    Remote = {r}
    Channels = {left}
SPECIFICATION FairSpec
PROPERTY DefaultFallsBack
