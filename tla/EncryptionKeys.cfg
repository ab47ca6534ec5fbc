SPECIFICATION KeysSpec
CHECK_DEADLOCK FALSE
CONSTANTS
    Policies = {p1, p2}
    Period = 1
    Bad = Bad
    Empty = Empty
    NoStamp = NoStamp
    NoSecret = NoSecret
    NoReplica = NoReplica
    Unset = Unset
    MaxTime = 2
    MaxEvents = 3
INVARIANTS
    KeysTypeOK
    CurrentUnlessMissed
    DecryptableAfterOneMiss
PROPERTIES
    ImplementsKeyRing
    RotatesEventually
