SPECIFICATION FairSpec
CONSTANTS
    thread_count_ = 2
    Owner = 0
PROPERTIES WorkersEnterLoop
\* The process has been aborted, or the pool destroyed.
CHECK_DEADLOCK FALSE
