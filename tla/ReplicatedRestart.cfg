SPECIFICATION Spec
CONSTANTS
    Contents = {c1}
    Absent = Absent
    Relist = TRUE
    MaxChanges = 1
    MaxClusters = 1
    MaxWrites = 1
    MaxErrors = 0
    MaxCrashes = 1
INVARIANT ConvergedUnlessLost
PROPERTY ComesToRest
