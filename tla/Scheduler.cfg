SPECIFICATION FairSpec
CONSTANTS
    c1 = c1
    c2 = c2
    f1 = f1
    f2 = f2
    Coroutines = {c1, c2}
    Fds = {f1, f2}
    NoCoroutine = none
    MaxReady = 2
    Uses <- OneShared
INVARIANTS TypeOK HeldOnce LoneWaiterIsHeld LoneWaiterWakesReady
PROPERTIES ScheduledRuns LoneWaiterRuns
\* Every coroutine may be done, or asleep.
CHECK_DEADLOCK FALSE
