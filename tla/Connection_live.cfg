CONSTANTS
    MaxStreams = 3
    MaxPendingMessages = 1
    MaxPipeline = 2
    UseCompression = {TRUE, FALSE}
    Password = {TRUE, FALSE}
    KeySpace = {TRUE, FALSE}
SPECIFICATION FairSpec
INVARIANTS SidesAgree
PROPERTIES EveryWaitEnds EverySendEnds ReadyEnds KeepsChannels
CHECK_DEADLOCK FALSE
