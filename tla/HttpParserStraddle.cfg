SPECIFICATION Spec
CONSTANTS
    Streams <- StraddlingStreams
    kBlockSize = 8
INVARIANTS AllHandled
\* Everything has arrived, or the connection is closed.
CHECK_DEADLOCK FALSE
