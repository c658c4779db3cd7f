\* A channel smaller than the number of topics.
SPECIFICATION FairSpec
CONSTANTS
    Topics = {"relay", "level"}
    Capacity = 2
    MaxChanges = 1
    MaxOutages = 1
PROPERTY ConnectRepublishes
\* Every task may end up waiting for room: that is what the run shows.
CHECK_DEADLOCK FALSE
