\* The owner alone stops the handler, which has one dispatcher.
SPECIFICATION FairSpec
CONSTANTS
    Owner = owner
    Helpers = {}
    Dispatchers = {d1}
    FrameDuration = 1
    MaxTime = 1
    MaxFrames = 2
    NoFrame = NoFrame
PROPERTY
    StopReturns
