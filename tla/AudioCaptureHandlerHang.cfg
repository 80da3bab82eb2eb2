\* Initialize and Start on one thread, one Stop on another.
SPECIFICATION FairSpec
CONSTANTS
    Controllers = {c1}
    Stoppers = {s1}
    MaxCalls = 3
    NoOne = NoOne
PROPERTY
    StopReturns
CHECK_DEADLOCK FALSE
