\* Two sessions on two client threads, two Starts; a file of four samples is past the limit.
SPECIFICATION FairSpec
CONSTANTS
    Sessions = {s1, s2}
    Clients = {c1, c2}
    Capture = capture
    MaxStarts = 2
    MaxBytes = 4
    Packets = {1, 2}
    Wrap = 4
    HeaderSize = 1
    NoSession = NoSession
    NoOne = NoOne
    Null = Null
INVARIANTS
    RecordingStoppable
    CallbackRooted
    HeaderDescribesFile
    
    NoCyclicWait
PROPERTIES
    CallsReturn
    ImplementsContract
CHECK_DEADLOCK FALSE
