SPECIFICATION FairSpec
CONSTANTS
    None = None
    file1 = file1
    file2 = file2
    gone = gone
    capture1 = capture1
    capture2 = capture2
    Missing = gone
    Controls <- MCControls
    Deferred <- MCDeferred
    Bounds <- MCBounds
    Files = {file1, file2}
    Captures = {capture1, capture2}
    Duration = 1
    MaxSockets = 4
    MaxEvents = 3
INVARIANTS PositionsAgree ScrubSettles OneFileDrawn
PROPERTIES LiveComesBack
CHECK_DEADLOCK FALSE
