SPECIFICATION AutomationSpec
CHECK_DEADLOCK FALSE
CONSTANTS
    Clusters = {c1}
    Second = 2
    Delays = {0, 4}
    NoEvent = NoEvent
    NoCopy = NoCopy
    MaxTime = 5
    MaxEvents = 3
INVARIANTS
    AutomationTypeOK
    AtMostOneJob
    ServedUnlessUnnoticed
    OnceServed
    DelayRespected

PROPERTY
    AutomationRests
