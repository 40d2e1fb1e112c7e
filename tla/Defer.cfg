SPECIFICATION LiveSpec
CONSTANTS
    Reqs = {r1, r2}
    Blocks = {b1, b2}
    NoReq = NoReq
    Depth = 3
    MaxBlocks = 2
    MaxSteps = 4
    Copies = TRUE
INVARIANTS NoLateAccess LoadTargetsQuiet NearMonotone
PROPERTY ParkedReturn
