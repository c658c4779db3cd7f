\* A box without CEFDK's slot, and power that holds.
SPECIFICATION Spec
CONSTANTS
    Releases = {"r1", "r2"}
    Size <- MCSize
    SlotSize = 2
    Staged = {"r1"}
    MtdKernels = {"stock", "r1", "r2"}
    Boxes = {"plain"}
    MaxItems = 2
    MaxOps = 4
    MaxCuts = 0
INVARIANT OnlyRootsOnP1
CHECK_DEADLOCK FALSE
