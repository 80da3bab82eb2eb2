\* The calls the recorder makes, in any order, fairly scheduled, with two registrations of each callback.
SPECIFICATION FairSpec
CONSTANTS
    MaxId = 2
    NoId = NoId
    StartsPausedSession = FALSE
INVARIANTS
    FailedStartLeavesNothingRunning
    StaysStopped
    MuteHasCause
PROPERTIES
    CallsReturn
    ImplementsContract
    UsesSources
