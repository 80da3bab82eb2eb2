\* Start may also be called on a paused session.
SPECIFICATION Spec
CONSTANTS
    MaxId = 1
    NoId = NoId
    StartsPausedSession = TRUE
PROPERTY
    StartsOnlyFromInitialized
