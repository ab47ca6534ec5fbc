SPECIFICATION Spec
CONSTANTS
    Contents = {c1, c2}
    Absent = Absent
    Relist = FALSE
    MaxChanges = 1
    MaxClusters = 0
    MaxWrites = 0
    MaxErrors = 0
    MaxCrashes = 0
PROPERTY GoneWhenForgotten
