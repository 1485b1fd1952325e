\* A headset that plays and records under one profile name, and another microphone.
CONSTANTS
    left = left
    right = right
    mic = mic
    desk = desk
    None = None
    Sinks = {left}
    Sources = {mic, desk}
    Stem <- Headset
    NodeIds = {1, 2, 3}
    MaxSerial = 3
SPECIFICATION FairSpec
PROPERTY MicrophoneIsRemembered
