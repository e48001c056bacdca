SPECIFICATION WheelSpec
CONSTANTS
    tick_ms_ = 2
    slot_count_ = 4
    UsPerMs = 2
    Delays <- MCDelays
    MaxTimers = 1
    MaxClock = 6
PROPERTIES TickFiresDueTimers
