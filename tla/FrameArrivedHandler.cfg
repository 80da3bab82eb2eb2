\* Two overlapping Invokes, a second caller of Stop, three frames.
SPECIFICATION FairSpec
CONSTANTS
    Owner = owner
    Helpers = {helper}
    Dispatchers = {d1, d2}
    FrameDuration = 2
    MaxTime = 3
    MaxFrames = 3
    NoFrame = NoFrame
INVARIANTS
    EveryFrameAccounted
    DeliveredSpaced
PROPERTIES
    ImplementsSource
    FrameEventuallyTaken
    StopReturnsWhenNotAsleep
