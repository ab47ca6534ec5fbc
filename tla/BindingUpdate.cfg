SPECIFICATION RootSpec
CONSTANTS
    Clusters = {c1}
    Bindings = {b1}
    Sets = {s1}
    Refs = {p1}
    BadRefs = {}
    Direct = Direct
    NoObj = NoObj
    Specs = {v1}
    MaxEdits = 1
    MaxErrors = 1
INVARIANT UpdateTargetsModified
