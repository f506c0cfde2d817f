SPECIFICATION Spec
CONSTANTS
    None = None
    a = a
    b = b
    c = c
    ab = ab
    Nodes = {a, b, c}
    Edges = {ab}
    Ends <- MCEnds
    Versions = {1, 2}
    Form <- MCForm
    SavedModes = {1}
    Spots = {1, 2}
    ChunkSize = 2
    LabelLimit = 2
    MaxWire = 2
    MaxChanges = 4
    MaxEvents = 2
INVARIANTS MirrorIsWhole GlidersMove LooksCurrent
CHECK_DEADLOCK FALSE
