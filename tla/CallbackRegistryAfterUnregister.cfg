\* One owner, one Invoke.
SPECIFICATION Spec
CONSTANTS
    Owners = {o1}
    Invokers = {t1}
    MaxId = 2
    NoId = NoId
PROPERTY
    NotInvokedAfterUnregister
