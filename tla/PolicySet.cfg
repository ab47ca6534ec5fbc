SPECIFICATION PolicySetSpec
CHECK_DEADLOCK FALSE
SYMMETRY ClusterSymmetry
CONSTANTS
    p1 = p1
    p2 = p2
    Policies = {p1, p2}
    Clusters = {c1, c2}
    Bindings = {b1}
    Lists <- MCLists
    States = {"", "Compliant", "NonCompliant", "Pending"}
    NoObj = NoObj
    MaxEvents = 2
INVARIANTS
    SetTypeOK
    ComplianceUnlessOutdated
    MessageUnlessUnseen
