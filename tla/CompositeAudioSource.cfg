SPECIFICATION Spec
CONSTANTS
    OutRate = 8
    Rates = {4, 8, 12, 20}
    CompactFrames = 3
    MaxPacket = 3
    Sources = {s1, s2, s3}
    NoSource = NoSource
INVARIANTS
    BufferBounded
    MixedOnce
    OnlyCurrentSource
    OnlySelectedCaptures
CHECK_DEADLOCK FALSE
