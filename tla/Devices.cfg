\* Two devices of one model beside a microphone.
CONSTANTS
    left = left
    right = right
    mic = mic
    desk = desk
    None = None
    Sinks = {left, right}
    Sources = {mic}
    Stem <- TwoHeadsets
    NodeIds = {1, 2, 3}
    MaxSerial = 3
SPECIFICATION FairSpec
INVARIANTS
    TypeOK
    PlainChoiceIsUnderstood
PROPERTY
    DefaultsAreInForce
