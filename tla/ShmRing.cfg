SPECIFICATION Spec
CONSTANTS
    NLocal = 2
    NRemote = 0
    MaxChunks = 3
    Big = {1, 4}
    MaxMsgs = 6
    Timeouts = TRUE
    WriterDies = TRUE
    ShutDowns = TRUE
CHECK_DEADLOCK FALSE
INVARIANT NoTornRead
