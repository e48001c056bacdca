----------------------------- MODULE TimerWheel ----------------------------
(***************************************************************************)
(* TimerWheel (reactor/timer_wheel.cpp) and the four timer calls of        *)
(* EventLoop, driven the way EventLoop::loop() drives them: poll for at    *)
(* most next_timeout_ms(), dispatch callbacks, tick(poll_time), pending    *)
(* tasks.  Callbacks and tasks may add and cancel timers; all of it is on  *)
(* the loop thread.                                                        *)
(*                                                                         *)
(* The members of the class are the fields of the record wheel.  A bucket  *)
(* is the set of timers with its slot number: buckets are appended to and  *)
(* identifiers grow, so the order of a bucket's list is the order of id.   *)
(* Times are in the unit of Timestamp (microseconds in the code).          *)
(***************************************************************************)
EXTENDS Integers, FiniteSets, FiniteSetsExt

CONSTANTS
    tick_ms_,       \* milliseconds per slot (10)
    slot_count_,    \* number of slots (6000)
    UsPerMs,        \* Timestamp units in a millisecond (1000)
    Delays,         \* delays and intervals the program asks for, in units
    MaxTimers,      \* bound on the timers ever created
    MaxClock        \* bound on the clock

ASSUME WheelAssumption ==
    /\ tick_ms_ \in Nat \ {0}
    /\ slot_count_ \in Nat \ {0}
    /\ UsPerMs \in Nat \ {0}
ASSUME InputAssumption ==
    /\ Delays \subseteq Nat
    /\ MaxTimers \in Nat
    /\ MaxClock \in Nat

VARIABLES
    wheel,          \* the TimerWheel object
    now,            \* the clock, Timestamp::now()
    stage,          \* "callbacks", "tasks" or "poll": where loop() is
    poll_time,      \* when poll() last returned
    timeout,        \* the timeout of the poll in progress, in ms; -1 for none
    cancelled       \* history: identifiers passed to cancel() and found

wheelVars == <<wheel, now, stage, poll_time, timeout, cancelled>>

Timer == [id : Nat, expiration : Nat, interval : Nat,
          rounds : Nat, slot : 0..(slot_count_ - 1)]

\* Timestamp::diff_ms.  The callers only use it where it is positive, so that
\* rounding towards zero and rounding down agree.
DiffMs(a, b) == (a - b) \div UsPerMs

-----------------------------------------------------------------------------
(* The methods of TimerWheel, as functions of the object.                  *)

\* Wrong on purpose: only one-shot timers are counted.
InsertTimerUncounted(w, id, when, interval) ==
    LET delta_ms == IF when < w.last_tick_ THEN 0 ELSE DiffMs(when, w.last_tick_)
        timer == [id |-> id, expiration |-> when, interval |-> interval,
                  rounds |-> delta_ms \div (tick_ms_ * slot_count_),
                  slot |-> (w.current_slot_ + delta_ms \div tick_ms_) % slot_count_]
    IN  [w EXCEPT !.timers = @ \cup {timer},
                  !.timer_count_ = IF interval = 0 THEN @ + 1 ELSE @]

\* insert_timer(): slot and rounds from the distance to last_tick_; an
\* expiration in the past counts as distance zero.
InsertTimer(w, id, when, interval) ==
    LET delta_ms == IF when < w.last_tick_ THEN 0 ELSE DiffMs(when, w.last_tick_)
        timer == [id |-> id, expiration |-> when, interval |-> interval,
                  rounds |-> delta_ms \div (tick_ms_ * slot_count_),
                  slot |-> (w.current_slot_ + delta_ms \div tick_ms_) % slot_count_]
    IN  [w EXCEPT !.timers = @ \cup {timer}, !.timer_count_ = @ + 1]

\* Wrong on purpose: the identifier comes from the number of timers.
AddTimerCountId(w, when, interval) ==
    InsertTimer([w EXCEPT !.next_timer_id_ = @ + 1], w.timer_count_ + 1, when, interval)

\* add_timer() (interval 0) and add_repeating().
AddTimer(w, when, interval) ==
    InsertTimer([w EXCEPT !.next_timer_id_ = @ + 1], w.next_timer_id_, when, interval)

\* Wrong on purpose: the count is decremented whether or not a timer is found.
CancelTimerAlwaysCounts(w, id) ==
    [w EXCEPT !.timers = {t \in @ : t.id # id}, !.timer_count_ = @ - 1]

\* Wrong on purpose: the count is not decremented.
CancelTimerNoCount(w, id) ==
    IF \E t \in w.timers : t.id = id
    THEN [w EXCEPT !.timers = @ \ {CHOOSE t \in w.timers : t.id = id}]
    ELSE w

\* cancel(): the scan removes one timer with the identifier, if there is one.
CancelTimer(w, id) ==
    IF \E t \in w.timers : t.id = id
    THEN [w EXCEPT !.timers = @ \ {CHOOSE t \in w.timers : t.id = id},
                   !.timer_count_ = @ - 1]
    ELSE w

\* The body of tick()'s while loop, for the timer after identifier last in the
\* bucket of current_slot_: one round less, or the timer leaves, its callback
\* runs and a repeating timer is added again under a new identifier.  The
\* result is paired with the identifier handled.
VisitTimer(w, last, time) ==
    LET rest == {t \in w.timers : t.slot = w.current_slot_ /\ t.id > last}
        timer == CHOOSE t \in rest : \A u \in rest : t.id <= u.id
        without == [w EXCEPT !.timers = @ \ {timer}]
        fired == [without EXCEPT !.timer_count_ = @ - 1]
    IN  IF rest = {} THEN <<w, last>>
        ELSE IF timer.rounds > 0
             THEN <<[without EXCEPT !.timers =
                        @ \cup {[timer EXCEPT !.rounds = @ - 1]}], timer.id>>
        ELSE IF timer.interval > 0
             THEN <<AddTimer(fired, time + timer.interval, timer.interval), timer.id>>
        ELSE <<fired, timer.id>>

\* One turn of tick()'s for loop.  A timer added again to the bucket being
\* walked is visited once more, so twice the bucket is enough visits, unless
\* its interval is below one tick: then the code's loop does not end.
AdvanceSlot(w, time) ==
    LET start == [w EXCEPT !.current_slot_ = (@ + 1) % slot_count_]
        visits == 2 * Cardinality({t \in w.timers : t.slot = start.current_slot_})
        walk[k \in Nat] ==
            IF k = 0 THEN <<start, 0>>
            ELSE VisitTimer(walk[k - 1][1], walk[k - 1][2], time)
    IN  walk[visits][1]

\* tick(): last_tick_ is assigned first, and the elapsed time is then taken
\* from the value just assigned.
Tick(w, time) ==
    LET start == [w EXCEPT !.last_tick_ = time]
        elapsed_ms == DiffMs(time, start.last_tick_)
        slots_to_advance == Min({elapsed_ms \div tick_ms_, slot_count_})
        advanced[i \in Nat] ==
            IF i = 0 THEN start ELSE AdvanceSlot(advanced[i - 1], time)
    IN  IF elapsed_ms <= 0 THEN start ELSE advanced[slots_to_advance]

\* next_timeout_ms(): the nearest occupied slot, forward from current_slot_.
NextTimeoutMs(w) ==
    LET occupied == {offset \in 0..(slot_count_ - 1) :
                        \E t \in w.timers : t.slot = (w.current_slot_ + offset) % slot_count_}
    IN  IF w.timer_count_ = 0 THEN -1
        ELSE IF occupied # {} THEN Min(occupied) * tick_ms_
        ELSE slot_count_ * tick_ms_

-----------------------------------------------------------------------------
WheelInit ==
    /\ wheel = [timers |-> {}, current_slot_ |-> 0, last_tick_ |-> 0,
                next_timer_id_ |-> 1, timer_count_ |-> 0]
    /\ now = 0
    /\ stage = "tasks"
    /\ poll_time = 0
    /\ timeout = -1
    /\ cancelled = {}

\* User code runs outside poll(): before loop(), in callbacks and in tasks.
TimersMayChange == stage \in {"callbacks", "tasks"}

\* run_after(): one shot, relative to the clock.
RunAfter(delay) ==
    /\ TimersMayChange
    /\ wheel.next_timer_id_ <= MaxTimers
    /\ wheel' = AddTimer(wheel, now + delay, 0)
    /\ UNCHANGED <<now, stage, poll_time, timeout, cancelled>>

\* run_at(): any absolute time, the past included.
RunAt(time) ==
    /\ TimersMayChange
    /\ wheel.next_timer_id_ <= MaxTimers
    /\ wheel' = AddTimer(wheel, time, 0)
    /\ UNCHANGED <<now, stage, poll_time, timeout, cancelled>>

\* run_every()
RunEvery(interval) ==
    /\ TimersMayChange
    /\ wheel.next_timer_id_ <= MaxTimers
    /\ wheel' = AddTimer(wheel, now + interval, interval)
    /\ UNCHANGED <<now, stage, poll_time, timeout, cancelled>>

\* cancel_timer(), with an identifier handed out earlier, dead or alive.
Cancel(id) ==
    /\ TimersMayChange
    /\ id < wheel.next_timer_id_
    /\ wheel' = CancelTimer(wheel, id)
    /\ cancelled' = cancelled \cup {id}
    /\ UNCHANGED <<now, stage, poll_time, timeout>>

\* The loop enters poll() with the wheel's timeout ...
BeginPoll ==
    /\ stage = "tasks"
    /\ timeout' = NextTimeoutMs(wheel)
    /\ stage' = "poll"
    /\ UNCHANGED <<wheel, now, poll_time, cancelled>>

\* ... which returns then, or earlier for a descriptor ...
EndPoll ==
    /\ stage = "poll"
    /\ poll_time' = now
    /\ stage' = "callbacks"
    /\ UNCHANGED <<wheel, now, timeout, cancelled>>

\* ... and after the callbacks the wheel is ticked with the time poll()
\* returned, which the callbacks may have left behind.
TickLoop ==
    /\ stage = "callbacks"
    /\ wheel' = Tick(wheel, poll_time)
    /\ stage' = "tasks"
    /\ UNCHANGED <<now, poll_time, timeout, cancelled>>

AdvanceClock ==
    /\ now < MaxClock
    /\ now' = now + 1
    /\ UNCHANGED <<wheel, stage, poll_time, timeout, cancelled>>

WheelNext ==
    \/ \E delay \in Delays : RunAfter(delay)
    \/ \E time \in 0..MaxClock : RunAt(time)
    \/ \E interval \in Delays \ {0} : RunEvery(interval)
    \/ \E id \in 1..MaxTimers : Cancel(id)
    \/ BeginPoll \/ EndPoll \/ TickLoop
    \/ AdvanceClock

WheelSpec == WheelInit /\ [][WheelNext]_wheelVars

-----------------------------------------------------------------------------
(* Properties.                                                             *)

\* The object and the loop around it have their types; timer_count_ is a
\* size_t and never goes below zero.
WheelTypeOK ==
    /\ wheel \in [timers : SUBSET Timer, current_slot_ : 0..(slot_count_ - 1),
                  last_tick_ : Nat, next_timer_id_ : Nat \ {0}, timer_count_ : Nat]
    /\ now \in Nat
    /\ stage \in {"callbacks", "tasks", "poll"}
    /\ poll_time \in Nat
    /\ timeout \in Int
    /\ cancelled \in SUBSET Nat

\* timer_count_ counts the timers in the buckets through any sequence of adds,
\* failed and successful cancels and ticks; next_timeout_ms() trusts it.
CountMatchesBuckets ==
    /\ IsFiniteSet(wheel.timers)
    /\ wheel.timer_count_ = Cardinality(wheel.timers)

\* The loop never blocks in poll() without a timeout, nor for longer than one
\* turn of the wheel, while a timer is scheduled; with none it blocks until
\* something happens (next_timeout_ms() and its use in loop()).
NoEndlessSleep ==
    stage = "poll" =>
        IF wheel.timers = {} THEN timeout = -1
        ELSE timeout \in 0..(slot_count_ * tick_ms_)

\* A cancelled identifier is gone for good: no timer in the wheel carries it,
\* and none that is added later will.
CancelIsFinal == \A t \in wheel.timers : t.id \notin cancelled

\* "Advance the wheel to the current time and fire all due timers."
\* (timer_wheel.h): no timer is left in the wheel a whole slot or more after
\* its expiration.  Refuted: tick() never advances.
TickFiresDueTimers ==
    [][TickLoop =>
        \A t \in wheel'.timers : poll_time < t.expiration + tick_ms_ * UsPerMs]_wheelVars

=============================================================================
