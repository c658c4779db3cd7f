\* The library's constants and the serial port's; the others are in MCIod's instances.
SPECIFICATION MCSpec
CONSTANTS
    t1 = t1
    t2 = t2
    Topics = {t1, t2}
    Capacity = 7
    MaxChanges = 1
    MaxOutages = 1
    Viewers = {"v"}
    Bauds = {9600}
    Default = 115200
    MaxSessions = 2
    MaxHangups = 1
    MaxRestarts = 1
INVARIANTS
    NothingForgotten
    OneReader
    LinesKept
PROPERTIES
    NeverStale
    StateReturns
    CatchesUp
    MirrorSettles
\* A behaviour may end: the bounds on sessions, hangups and commands are reached.
CHECK_DEADLOCK FALSE
