\* The daemons of a box; the constants not given here are in MCBox's instances.
SPECIFICATION Spec
CONSTANTS
    Channels = {"stable", "dev"}
    MaxVersion = 3
    MaxUpdateCuts = 1
    Ports = {"lan1", "lan2"}
    Bridges = {"br-lan", "br0"}
    Configs <- MCConfigs
    MaxFaults = 2
    MaxUsbRestarts = 1
    Sensors = {"cpu", "board", "fan"}
    Slug <- MCSlug
    Cap = 2
    Every = 2
    MaxSamples = 4
    Uploads = {"a", "b"}
    Chunks = 2
    Kinds = {"hc800", "ea"}
    MaxCommands = 3
    MaxRestoreCuts = 2
INVARIANTS
    UpToDateIsWhole
    HistoryFree
    UsersOffStays
    SamplesKeepMeaning
    RealIsWhole
    StockIsStock
PROPERTIES
    NeverCooks
    ReplugMounts
    RadioRecovers
    EnableIsObeyed
\* A behaviour may end: the bounds on faults, commands and restarts are reached.
CHECK_DEADLOCK FALSE
