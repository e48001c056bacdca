SPECIFICATION FairSpec
CONSTANTS
    Threads = {p1, p2}
    RemoteTasks = {r1, r2}
    CallbackTasks = {c1}
    SetupTasks = {s1}
    EventFd = FALSE
    MaxQuits = 2
    MaxLoops = 2
INVARIANTS TypeOK ExactlyOnceInOrder NoLostWakeup NoSleepAfterQuit
PROPERTIES BatchNeverGrows ImplementsTaskQueue
PROPERTIES TaskEventuallyRuns QuitEndsLoop WakeupsDrained
\* loop() has returned for good and no thread has anything left to do.
CHECK_DEADLOCK FALSE
