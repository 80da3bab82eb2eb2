\* Two owners, two overlapping Invokes, three registrations.
SPECIFICATION Spec
CONSTANTS
    Owners = {o1, o2}
    Invokers = {t1, t2}
    MaxId = 3
    NoId = NoId
INVARIANTS
    NoLeakedCallback
PROPERTIES
    OwnRegistrationStands
