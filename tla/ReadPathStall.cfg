SPECIFICATION FairSpec
CONSTANTS
    Blank <- MCBlank
    defaultRingBufferSize = 4
    readRingGrowStepBytes = 8
    fillStepBytes = 4
    SocketConfigs <- MCConfigs
    ReadBufSize = 4
    MaxFrames = 3
PROPERTIES
    EveryFrameArrives
CHECK_DEADLOCK FALSE
