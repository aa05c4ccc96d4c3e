CONSTANTS
    OnUnix = FALSE
    MaxFlap = 4
SPECIFICATION FairSpec
INVARIANTS TypeOK TrueMeansConnected WalkSound DataFits
PROPERTIES Reconnects LoopEnds
\* The user may never call, and a loop that has returned stops the client.
CHECK_DEADLOCK FALSE
