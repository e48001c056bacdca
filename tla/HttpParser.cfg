SPECIFICATION Spec
CONSTANTS
    Streams <- AllStreams
    kBlockSize = 30
INVARIANTS TypeOK HandledIsPrefix SimpleStreamsAreHandled ClosedForCause
\* Everything has arrived, or the connection is closed.
CHECK_DEADLOCK FALSE
