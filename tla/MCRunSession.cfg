SPECIFICATION Spec
CONSTANTS
    SegmentSeconds = 2
    FpsTarget = 2
    MinFps = 1
    MaxFps = 3
    StepFps = 1
    MaxQueue = 1
    Hysteresis = 2
    MaxNow = 3
    MaxPause = 1
    MaxFrames = 4
    Mode = "raw"
    MaxEvents = 3
INVARIANTS
    FramesAccounted
    EventsCounted

    
CHECK_DEADLOCK FALSE
