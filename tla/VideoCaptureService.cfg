\* Two sessions on two client threads, three Starts.
SPECIFICATION FairSpec
CONSTANTS
    Sessions = {s1, s2}
    Clients = {c1, c2}
    MaxStarts = 3
    NoSession = NoSession
    NoOne = NoOne
    Null = Null
INVARIANTS
    RecordingTruthful
    CallbacksOfOwner
    CallbackTargetRooted
    ObserversSeeRecording
PROPERTIES
    CallsReturn
    ImplementsOwnership
CHECK_DEADLOCK FALSE
