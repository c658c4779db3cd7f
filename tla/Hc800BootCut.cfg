\* An install in boot-once mode, and one cut, anywhere.
SPECIFICATION Spec
CONSTANTS
    Modes = {TRUE}
    MaxCuts = 1
    MaxOps = 2
INVARIANT NeverUnasked
CHECK_DEADLOCK FALSE
