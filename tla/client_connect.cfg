CONSTANTS
    OnUnix = TRUE
    MaxFlap = 1
SPECIFICATION FairSpec
PROPERTY AcceptedIsReported
CHECK_DEADLOCK FALSE
