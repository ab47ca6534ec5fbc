SPECIFICATION KeysSpec
CHECK_DEADLOCK FALSE
CONSTANTS
    Policies = {p1}
    Period = 1
    Bad = Bad
    Empty = Empty
    NoStamp = NoStamp
    NoSecret = NoSecret
    NoReplica = NoReplica
    Unset = Unset
    MaxTime = 1
    MaxEvents = 3
INVARIANT ManualKeyReachesPolicies
