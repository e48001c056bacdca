SPECIFICATION FairSpec
CONSTANTS
    Fds = {f1, f2}
    MaxConnections = 3
    MaxBytes <- MCMaxBytes
    kReadSize = 2
INVARIANTS NothingDangles DeletionHitsItsConnection EchoIsFaithful
PROPERTIES ClosedIsDeleted
