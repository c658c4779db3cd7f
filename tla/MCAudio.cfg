\* The level's, the announcements' and the endpoints' constants; the library's are
\* in MCAudio's instance.
SPECIFICATION MCSpec
CONSTANTS
    Full = 2
    VolMax = 2
    Taper <- MCTaper
    MaxEvents = 3
    Outputs = {"analog1", "hdmi"}
    Steps = 2
    MaxAnnouncements = 3
    MaxDisturbs = 2
    Connected = {"o1"}
    Maps <- MCMaps
    MaxChanges = 2
    MaxFaults = 1
    MaxReports = 1
INVARIANTS
    SetReadsBack
    MusicComesBack
PROPERTIES
    LevelHolds
    TurnsCome
    WhatPlaysIsShown
    OthersPlayOn
\* A behaviour may end: the bounds on changes and announcements are reached.
CHECK_DEADLOCK FALSE
