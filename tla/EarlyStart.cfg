SPECIFICATION AutomationSpec
CHECK_DEADLOCK FALSE
CONSTANTS
    Clusters = {c1}
    Second = 3
    Delays = {6}
    NoEvent = NoEvent
    NoCopy = NoCopy
    MaxTime = 7
    MaxEvents = 2
INVARIANT MinimumDelay
