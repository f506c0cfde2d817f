SPECIFICATION Spec
CONSTANTS
    Host = {h1, h2}
    MaxActs = 4
    None = None
    Query = {q1, q2}
    MaxRuns = 3
    MaxTries = 1
    Protocol = {p1, p2}
    Stream = {s1, s2}
SYMMETRY MCSymmetry
INVARIANTS ViewFollowsUser DetailsArrive PopupIsCurrent WindowsAgree
CHECK_DEADLOCK FALSE
