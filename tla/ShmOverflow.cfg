SPECIFICATION LiveSpec
CONSTANTS
    NLocal = 2
    NRemote = 1
    MaxChunks = 2
    Big = {1, 2}
    MaxMsgs = 3
    Timeouts = FALSE
    WriterDies = FALSE
    ShutDowns = FALSE
CHECK_DEADLOCK FALSE
INVARIANT PayloadMatches
PROPERTIES BroadcastSpec Delivered EnqueueReturns
