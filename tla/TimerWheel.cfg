SPECIFICATION WheelSpec
CONSTANTS
    tick_ms_ = 2
    slot_count_ = 4
    UsPerMs = 2
    Delays <- MCDelays
    MaxTimers = 3
    MaxClock = 4
INVARIANTS WheelTypeOK CountMatchesBuckets NoEndlessSleep CancelIsFinal
