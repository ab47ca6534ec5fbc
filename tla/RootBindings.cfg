SPECIFICATION RootSpec
CONSTANTS
    Clusters = {c1}
    Bindings = {b1, b2}
    Sets = {s1}
    Refs = {p1}
    BadRefs = {}
    Direct = Direct
    NoObj = NoObj
    Specs = {v1}
    MaxEdits = 1
    MaxErrors = 1
PROPERTY AlwaysSettles
INVARIANTS
    ReplicasUnlessGap
    StatusCorrect
    ReplicatedIsDecided
    RemainingExplains
    RemainingStable
