\* One controlling thread and two that may stop the handler at any moment.
SPECIFICATION FairSpec
CONSTANTS
    Controllers = {c1}
    Stoppers = {s1, s2}
    MaxCalls = 5
    NoOne = NoOne
INVARIANTS
    ThreadAssignable
PROPERTIES
    ImplementsSource
    StopQuiesces
    InitializeTruthful
    WaitsEnd
    LoneCallReturns
CHECK_DEADLOCK FALSE
