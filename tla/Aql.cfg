SPECIFICATION LiveSpec
CONSTANTS
    g = g
    d = d
    e = e
    Producers = {g, d, e}
    Graph = {g}
    Size = 4
    BatchSize = 4
    DoorbellTypes = {0, 1}
    Wrap = 8
    Budget <- MCBudget
CHECK_DEADLOCK FALSE
INVARIANTS NoOverwrite FetchInOrder DoorbellExact
PROPERTY AllFetched
