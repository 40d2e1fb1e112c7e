SPECIFICATION LiveSpec
CONSTANTS
    Prompt = 2
    MaxTokens = 4
    MaxPreempts = 2
    Configs <- MCConfigs
INVARIANTS TypeOK InOrder KVInPlace CountersExact NoOverschedule
PROPERTY Finishes
CHECK_DEADLOCK FALSE
