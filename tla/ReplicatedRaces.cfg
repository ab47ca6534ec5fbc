SPECIFICATION Spec
CONSTANTS
    Contents = {c1, c2}
    Absent = Absent
    Relist = FALSE
    MaxChanges = 2
    MaxClusters = 0
    MaxWrites = 1
    MaxErrors = 1
    MaxCrashes = 0
SYMMETRY Perms
INVARIANTS
    TypeOK
    MarkerSound
    ConvergedUnlessLost
    MapBounded
    TombstoneRevisited
