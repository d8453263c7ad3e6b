SPECIFICATION Spec
CONSTANTS
    Calls = {c1, c2}
    Outside = Outside
    None = None
    FileOutputs = FALSE
    Routings <- OwnOrShared
INVARIANTS
    OneWorker
    NoResidue
    UnansweredRetires
PROPERTY EveryCallEnds
CHECK_DEADLOCK FALSE
