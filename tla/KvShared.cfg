SPECIFICATION Spec
CONSTANTS
    ra = ra
    rb = rb
    rc = rc
    rd = rd
    Reqs = {ra, rb, rc, rd}
    Blocks = {k1, k2, k3, k4, k5}
    NoHash = NoHash
    PromptOf <- Prompts
    MaxLen = 3
    Configs <- FailPair
SYMMETRY Symmetry
INVARIANT DependentsEvicted
CHECK_DEADLOCK FALSE
