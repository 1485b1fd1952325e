\* One stream of two channels, a local and two remote outputs, from any moment on.
CONSTANTS
    s1 = s1
    k1 = k1
    None = None
    Streams = {s1}
    IntentOf <- OneStream
    Local = {l}
    Remote = {r, q}
    Channels = {left, right}
SPECIFICATION FromAnyMoment
PROPERTIES
    UnpinnedLeftAlone
    OneRefreshSettles
    StreamsSettle
