SPECIFICATION ResolversSpec
CHECK_DEADLOCK FALSE
CONSTANTS
    Policies = {p1, p2}
    Accounts = {a1}
    MaxResolvers = 5
    MaxChanges = 3
    MaxErrors = 1
INVARIANTS
    ResolversTypeOK
    CountExact
    NeverNil
    ServedUnlessMissed
    CollectedUnlessNeverStored
PROPERTY EventuallyRests
