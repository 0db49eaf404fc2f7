SPECIFICATION Spec
CONSTANTS
    Tags = {t}
    None = None
    Steps <- StepKinds
    MaxActs = 4
    MaxDepth = 9
INVARIANTS
    TypeOK
    RescuesTheRaisedBarring
    BangIsHandled
    ThrowHasCatch
    ExitStatusIsLast
PROPERTIES
    JumpLands
    EnsureRuns
