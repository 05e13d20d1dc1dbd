SPECIFICATION Spec
CONSTANTS
    HeaderSize = 8
    Start <- Frames
INVARIANT TypeOK WholeFrames EndsExactly
PROPERTY FramesDelivered
CHECK_DEADLOCK FALSE
