\* The flasher and its boxes.
SPECIFICATION Spec
CONSTANTS
    Modes = {TRUE, FALSE}
    HcCuts = 1
    HcOps = 4
    \* Only r1's rootfs can be staged; r0's kernel has no driver for the SPI flash.
    Releases = {"r0", "r1", "r2"}
    Size <- MCSize
    SlotSize = 2
    Staged = {"r1"}
    MtdKernels = {"stock", "r1", "r2"}
    Boxes = {"slot", "plain", "old"}
    MaxItems = 2
    EaOps = 4
    EaCuts = 2
    \* An EA whose board the flasher cannot pin down, and an HC-800.
    Hosts = {"core", "hall"}
    Family <- MCFamily
    Vague = {"core"}
    MaxJobs = 2
    MaxSteps = 6
    \* Block numbers wrap within the file, and one block's tries are more than
    \* the losses and late answers together.
    FileBlocks = 6
    Wrap = 4
    Tries = 5
    MaxTimeouts = 2
    MaxLosses = 2
    MaxPowerCycles = 3
    MaxFailures = 1
INVARIANTS
    RestoresOnlyAsked
    EaBoxSafe
    OneInstall
    NothingPartialRuns
PROPERTIES
    ArmedReturnsStock
    GoesThrough
\* A behaviour may end: the bounds on operations, cuts and jobs are reached.
CHECK_DEADLOCK FALSE
