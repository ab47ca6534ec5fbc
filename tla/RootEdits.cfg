SPECIFICATION RootSpec
CONSTANTS
    Clusters = {c1}
    Bindings = {b1}
    Sets = {s1}
    Refs = {p1}
    BadRefs = {}
    Direct = Direct
    NoObj = NoObj
    Specs = {v1}
    MaxEdits = 2
    MaxErrors = 1
INVARIANTS
    RootTypeOK
    ReplicasUnlessGap
    StatusCorrect
