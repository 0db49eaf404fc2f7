SPECIFICATION Spec
CONSTANTS
    Names = {f}
    Lines = {l1, l2}
    Marked = {l1}
    None = None
    PipeCap = 1
    MaxFibers = 1
    MaxDepth = 3
    MaxSteps = 5
    MaxRequests = 3
CHECK_DEADLOCK FALSE
INVARIANTS
    OutputWhole
PROPERTIES
    StopsAreRight
    SessionEnds
