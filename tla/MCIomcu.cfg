\* The contacts' constants are in MCIomcu's instance.
SPECIFICATION MCSpec
CONSTANTS
    MaxTries = 3
    MaxFaults = 5
    MaxRestarts = 2
    Writers = {"gpio", "node"}
    MaxRelayFaults = 3
    MaxFrames = 4
    MaxQueue = 2
    MaxBursts = 1
    MaxResets = 1
INVARIANTS
    OnlyWholeAppsRun
    KnockGoesFirst
    WritesAreTrue
    AppSound
PROPERTIES
    ProbeRecovers
    CacheFollowsPart
    CaptureResumes
