\* Two controllers, both of them identified.
SPECIFICATION Spec
CONSTANTS
    Hosts = {"core", "hall"}
    Family <- MCFamily
    Vague = {}
    MaxJobs = 2
    MaxSteps = 5
PROPERTY InstallsWhereItSays
CHECK_DEADLOCK FALSE
