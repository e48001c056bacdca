SPECIFICATION Spec
CONSTANTS
    Fds = {f1, f2, f3}
    MaxChannels = 9
    MaxUserTasks = 3
SYMMETRY Symmetric
INVARIANTS TypeOK NoDanglingChannel
INVARIANTS PollsExactlyTheOpenSockets EraseHitsItsConnection
INVARIANTS TimersBelongToOpenConnections
