\* Drives that mount, and a mount stack that goes on while one is ejected.
SPECIFICATION Spec
CONSTANTS
    Drives = {"sdb", "sdc"}
    Label <- MCLabel
    Names <- MCNames
    Unmountable = {}
    MaxPlugs = 3
    MaxEjects = 2
INVARIANT EjectedIsUnmounted
CHECK_DEADLOCK FALSE
