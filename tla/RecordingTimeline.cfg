SPECIFICATION Spec
CONSTANTS
    Frequency = 3
    TicksPerSecond = 4
    SampleRate = 2
    SilenceTicks = 2
    MaxTime = 5
    MaxPauses = 2
INVARIANTS
    RelativeTimeIsRecorded
    ClockNeverAhead
    OverlapOnlyByPause
PROPERTY
    VideoTimeForward
CHECK_DEADLOCK FALSE
