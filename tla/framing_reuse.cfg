CONSTANTS
    HEAD = 1
    TAIL = 2
    Base = 16
    Digest <- MCDigest
    BUFFER_SIZE = 6
    MaxInt = 12
    Streams <- MCStreams
    Payload <- MCPayload
SPECIFICATION Spec
INVARIANT ServesEveryClient
\* Everything has arrived and recvdata has returned.
CHECK_DEADLOCK FALSE
