----------------------------- MODULE Scheduler -----------------------------
(***************************************************************************)
(* Coroutines (coro/coroutine.cpp), their Scheduler (coro/scheduler.cpp)   *)
(* and the I/O calls that suspend them (coro/hook.cpp), on the loop's      *)
(* poller.  Everything runs on one thread: the loop dispatches ready       *)
(* descriptors, the program calls tick() from a task or a callback (the    *)
(* loop does not), and inside tick() one coroutine at a time runs until it *)
(* yields.                                                                 *)
(*                                                                         *)
(* A step is a call of on_fd_ready(), a resume(), or what the running      *)
(* coroutine does up to its next call of the library.  When descriptors    *)
(* become ready, and what a coroutine calls, is nondeterministic.  The     *)
(* program may give schedule() any coroutine at any time, queued, waiting, *)
(* running or done.  The timer of co_sleep() never fires (module           *)
(* TimerWheel).                                                            *)
(***************************************************************************)
EXTENDS Integers, Sequences, FiniteSets, Functions

CONSTANTS
    Coroutines,     \* the coroutines the program may create
    Fds,            \* descriptors
    NoCoroutine,    \* the null Coroutine*
    Uses,           \* the calls coroutines make: <<coroutine, call, fd>>
    MaxReady        \* bound: schedule() is called while fewer are queued

Events == {"read", "write"}

\* co_read() and co_accept(), co_write(), co_connect().
Calls == {"read", "write", "connect"}

ASSUME NullAssumption == NoCoroutine \notin Coroutines
ASSUME ReadyAssumption == MaxReady \in Nat
ASSUME UsesAssumption == Uses \subseteq Coroutines \X Calls \X Fds

VARIABLES
    state_,         \* Coroutine::state_; "none" before it is created
    at,             \* where its stack is: "user", a wait or "sleep"
    t_current_,     \* Coroutine::t_current_
    ticking,        \* the loop thread is in Scheduler::tick()
    ready_queue_,   \* Scheduler::ready_queue_
    waiting,        \* waiting_for_read_ and waiting_for_write_, by event
    registered,     \* the events of the Channel the poller has for each fd
    ready,          \* what the kernel says of each descriptor
    careless        \* history: the coroutines schedule() was misused for

vars ==
    <<state_, at, t_current_, ticking, ready_queue_, waiting, registered, ready, careless>>

\* Inside a call.
Waits == Calls \X Fds
User == <<"user">>
Sleep == <<"sleep">>

EventOf(call) == IF call = "read" THEN "read" ELSE "write"

\* No entry in waiting_for_read_ or waiting_for_write_.
Nobody == [fd \in Fds |-> NoCoroutine]

Init ==
    /\ state_ = [c \in Coroutines |-> "none"]
    /\ at = [c \in Coroutines |-> User]
    /\ t_current_ = NoCoroutine
    /\ ticking = FALSE
    /\ ready_queue_ = <<>>
    /\ waiting = [e \in Events |-> Nobody]
    /\ registered = [fd \in Fds |-> {}]
    /\ ready = [fd \in Fds |-> {}]
    /\ careless = {}

-----------------------------------------------------------------------------
(* Scheduler and Coroutine.                                                *)

\* User code runs outside tick(), or in a coroutine that is not in a call.
InUserCode == ticking => t_current_ # NoCoroutine /\ at[t_current_] = User

\* create_coroutine(), called from the program or from a coroutine.
CreateCoroutine(c) ==
    /\ InUserCode
    /\ state_[c] = "none"
    /\ state_' = [state_ EXCEPT ![c] = "READY"]
    /\ ready_queue_' = Append(ready_queue_, c)
    /\ UNCHANGED <<at, t_current_, ticking, waiting, registered, ready, careless>>

\* Is schedule() a mistake for c?  It is queued already, or inside a call that
\* waits for a descriptor.  (It is none for a coroutine that has yielded, for one
\* that queues itself in order to yield, and for one that sleeps or is done.)
Misplaced(c) == at[c] \in Waits \/ c \in Range(ready_queue_)

\* schedule() pushes whatever coroutine it is given.
Schedule(c) ==
    /\ InUserCode
    /\ state_[c] # "none"
    /\ Len(ready_queue_) < MaxReady
    /\ ready_queue_' = Append(ready_queue_, c)
    /\ careless' = IF Misplaced(c) THEN careless \cup {c} ELSE careless
    /\ UNCHANGED <<state_, at, t_current_, ticking, waiting, registered, ready>>

\* tick() returns at once when nothing is ready.
BeginTick ==
    /\ ~ticking
    /\ ready_queue_ # <<>>
    /\ ticking' = TRUE
    /\ UNCHANGED <<state_, at, t_current_, ready_queue_, waiting, registered, ready, careless>>

\* Wrong on purpose: the head of the queue is run and not popped.
ResumeNoPop ==
    /\ ticking
    /\ t_current_ = NoCoroutine
    /\ ready_queue_ # <<>>
    /\ LET c == Head(ready_queue_)
       IN  IF state_[c] = "DONE" THEN UNCHANGED <<state_, t_current_>>
           ELSE state_' = [state_ EXCEPT ![c] = "RUNNING"] /\ t_current_' = c
    /\ UNCHANGED <<ready_queue_, at, ticking, waiting, registered, ready, careless>>

\* A turn of tick()'s loop and the beginning of resume().
Resume ==
    /\ ticking
    /\ t_current_ = NoCoroutine
    /\ ready_queue_ # <<>>
    /\ ready_queue_' = Tail(ready_queue_)
    /\ LET c == Head(ready_queue_)
       IN  IF state_[c] = "DONE" THEN UNCHANGED <<state_, t_current_>>
           ELSE state_' = [state_ EXCEPT ![c] = "RUNNING"] /\ t_current_' = c
    /\ UNCHANGED <<at, ticking, waiting, registered, ready, careless>>

EndTick ==
    /\ ticking
    /\ t_current_ = NoCoroutine
    /\ ready_queue_ = <<>>
    /\ ticking' = FALSE
    /\ UNCHANGED <<state_, at, t_current_, ready_queue_, waiting, registered, ready, careless>>

\* Wrong on purpose: yield() leaves state_ as it is.
LeaveKeepsState(c, state, where) ==
    /\ at' = [at EXCEPT ![c] = where]
    /\ t_current_' = NoCoroutine
    /\ UNCHANGED state_

\* The coroutine leaves its context for the scheduler's: the end of yield()
\* and of entry_point(), and the rest of resume().
Leave(c, state, where) ==
    /\ state_' = [state_ EXCEPT ![c] = state]
    /\ at' = [at EXCEPT ![c] = where]
    /\ t_current_' = NoCoroutine

\* A coroutine yields for its own reasons, or returns from its function.
Yield(c) ==
    /\ t_current_ = c
    /\ at[c] = User
    /\ Leave(c, "SUSPENDED", User)
    /\ UNCHANGED <<ticking, ready_queue_, waiting, registered, ready, careless>>

Finish(c) ==
    /\ t_current_ = c
    /\ at[c] = User
    /\ Leave(c, "DONE", User)
    /\ UNCHANGED <<ticking, ready_queue_, waiting, registered, ready, careless>>

-----------------------------------------------------------------------------
(* Waiting for descriptors.                                                *)

\* A coroutine that queued itself was to yield: to wait instead is a mistake too.
EntersWait(c) ==
    careless' = IF c \in Range(ready_queue_) THEN careless \cup {c} ELSE careless

\* Wrong on purpose: no Channel is registered for the descriptor.
WaitForNoChannel(c, event, fd) ==
    /\ waiting' = [waiting EXCEPT ![event][fd] = c]
    /\ EntersWait(c)
    /\ UNCHANGED registered

\* Wrong on purpose: the Channel is enabled for reading and writing.
WaitForBothEvents(c, event, fd) ==
    /\ waiting' = [waiting EXCEPT ![event][fd] = c]
    /\ registered' = IF registered[fd] = {} THEN [registered EXCEPT ![fd] = Events]
                     ELSE registered
    /\ EntersWait(c)

\* wait_for_read() and wait_for_write(): c takes the place of whoever waited
\* there.  A new Channel is enabled for the event, but the poller only takes
\* the first Channel of a descriptor.
WaitFor(c, event, fd) ==
    /\ waiting' = [waiting EXCEPT ![event][fd] = c]
    /\ registered' = IF registered[fd] = {} THEN [registered EXCEPT ![fd] = {event}]
                     ELSE registered
    /\ EntersWait(c)

\* Wrong on purpose: the coroutine stays in the table.
OnFdReadyKeeps(fd) ==
    /\ ~ticking
    /\ ready[fd] \cap registered[fd] # {}
    /\ LET event == IF waiting["read"][fd] # NoCoroutine THEN "read" ELSE "write"
           c == waiting[event][fd]
       IN  /\ c # NoCoroutine
           /\ ready_queue_' = Append(ready_queue_, c)
    /\ Len(ready_queue_) < 2
    /\ UNCHANGED <<state_, at, t_current_, ticking, waiting, registered, ready, careless>>

\* Wrong on purpose: only readers are looked up.
OnFdReadyReaders(fd) ==
    /\ ~ticking
    /\ ready[fd] \cap registered[fd] # {}
    /\ LET c == waiting["read"][fd]
       IN  /\ c # NoCoroutine
           /\ waiting' = [waiting EXCEPT !["read"][fd] = NoCoroutine]
           /\ ready_queue_' = Append(ready_queue_, c)
    /\ UNCHANGED <<state_, at, t_current_, ticking, registered, ready, careless>>

\* The loop finds the Channel of fd active and calls on_fd_ready(): a reader is
\* preferred whatever the event; with nobody waiting nothing happens.
OnFdReady(fd) ==
    /\ ~ticking
    /\ ready[fd] \cap registered[fd] # {}
    /\ LET event == IF waiting["read"][fd] # NoCoroutine THEN "read" ELSE "write"
           c == waiting[event][fd]
       IN  /\ c # NoCoroutine
           /\ waiting' = [waiting EXCEPT ![event][fd] = NoCoroutine]
           /\ ready_queue_' = Append(ready_queue_, c)
    /\ UNCHANGED <<state_, at, t_current_, ticking, registered, ready, careless>>

\* May c, which runs, be making this call: it is about to, or it is in it?
Calling(c, call, fd) ==
    /\ t_current_ = c
    /\ \/ at[c] = <<call, fd>>
       \/ at[c] = User /\ <<c, call, fd>> \in Uses

\* A turn of the loop of co_read() and co_accept() ("read") and of co_write()
\* ("write"): the call succeeds, possibly taking all there was, or fails, and
\* the coroutine goes on; or it would block.
Transfer(c, call, fd) ==
    /\ Calling(c, call, fd)
    /\ call \in Events
    /\ \/ /\ call \in ready[fd]
          /\ at' = [at EXCEPT ![c] = User]
          /\ ready' \in {ready, [ready EXCEPT ![fd] = @ \ {call}]}
          /\ UNCHANGED <<state_, t_current_, waiting, registered, careless>>
       \/ /\ call \notin ready[fd]
          /\ WaitFor(c, call, fd)
          /\ Leave(c, "SUSPENDED", <<call, fd>>)
          /\ UNCHANGED ready
    /\ UNCHANGED <<ticking, ready_queue_>>

\* co_connect(): in progress, it waits once; then it returns what SO_ERROR says.
Connect(c, fd) ==
    /\ Calling(c, "connect", fd)
    /\ IF at[c] = User
       THEN /\ WaitFor(c, "write", fd)
            /\ Leave(c, "SUSPENDED", <<"connect", fd>>)
       ELSE /\ at' = [at EXCEPT ![c] = User]
            /\ UNCHANGED <<state_, t_current_, waiting, registered, careless>>
    /\ UNCHANGED <<ticking, ready_queue_, ready>>

\* co_sleep(): a timer, and yield; and yield again when resumed before the timer.
CoSleep(c) ==
    /\ t_current_ = c
    /\ at[c] \in {User, Sleep}
    /\ Leave(c, "SUSPENDED", Sleep)
    /\ UNCHANGED <<ticking, ready_queue_, waiting, registered, ready, careless>>

\* The peer sends, or takes what was sent.
BecomeReady(fd, event) ==
    /\ event \notin ready[fd]
    /\ ready' = [ready EXCEPT ![fd] = @ \cup {event}]
    /\ UNCHANGED <<state_, at, t_current_, ticking, ready_queue_, waiting, registered, careless>>

-----------------------------------------------------------------------------
Running(c) ==
    \/ Yield(c) \/ Finish(c) \/ CoSleep(c)
    \/ \E fd \in Fds : Connect(c, fd) \/ \E call \in Events : Transfer(c, call, fd)

Next ==
    \/ \E c \in Coroutines : CreateCoroutine(c) \/ Schedule(c) \/ Running(c)
    \/ BeginTick \/ Resume \/ EndTick
    \/ \E fd \in Fds : OnFdReady(fd) \/ \E event \in Events : BecomeReady(fd, event)

Spec == Init /\ [][Next]_vars

(***************************************************************************)
(* The program goes on calling tick(), and between two ticks the loop      *)
(* polls, which reports every ready descriptor: strong fairness for        *)
(* OnFdReady, which ticks interrupt.  Coroutines are cooperative: one that *)
(* finds its descriptors always ready is expected to yield or finish some  *)
(* time (the library does not make it), hence the strong fairness for its  *)
(* leaving.  Nothing obliges anyone to create or schedule a coroutine, or  *)
(* to send.                                                                *)
(***************************************************************************)
Fairness ==
    /\ WF_vars(BeginTick) /\ WF_vars(Resume) /\ WF_vars(EndTick)
    /\ \A c \in Coroutines :
          WF_vars(Running(c)) /\ SF_vars(Running(c) /\ t_current_' = NoCoroutine)
    /\ \A fd \in Fds : SF_vars(OnFdReady(fd))

FairSpec == Spec /\ Fairness

-----------------------------------------------------------------------------
(* Properties.                                                             *)

\* The types; the current coroutine, and only it, is RUNNING.
TypeOK ==
    /\ state_ \in [Coroutines -> {"none", "READY", "RUNNING", "SUSPENDED", "DONE"}]
    /\ at \in [Coroutines -> Waits \cup {User, Sleep}]
    /\ t_current_ \in Coroutines \cup {NoCoroutine}
    /\ ticking \in BOOLEAN
    /\ ready_queue_ \in Seq(Coroutines)
    /\ waiting \in [Events -> [Fds -> Coroutines \cup {NoCoroutine}]]
    /\ registered \in [Fds -> SUBSET Events]
    /\ ready \in [Fds -> SUBSET Events]
    /\ careless \in SUBSET Coroutines
    /\ \A c \in Coroutines : state_[c] = "RUNNING" <=> t_current_ = c

\* A coroutine that is at where waits for event of fd.
WaitsFor(where, event, fd) ==
    \E call \in Calls : where = <<call, fd>> /\ EventOf(call) = event

\* The ready queue holds no coroutine twice for which schedule() is not misused.
QueueInv ==
    \A i, j \in DOMAIN ready_queue_ :
        ready_queue_[i] = ready_queue_[j] /\ ready_queue_[i] \notin careless => i = j

\* An entry of a table, unless schedule() is misused for it, is a suspended
\* coroutine, not in the ready queue, that is inside a call that
\* waits for just that event of just that descriptor.
TableInv ==
    \A e \in Events, fd \in Fds : \A c \in Coroutines \ careless : waiting[e][fd] = c =>
        /\ state_[c] = "SUSPENDED"
        /\ \A i \in DOMAIN ready_queue_ : ready_queue_[i] # c
        /\ WaitsFor(at[c], e, fd)

\* A coroutine that schedule() is not misused for is held in one place: once in
\* the ready queue, or once in one of the tables.  In two it would be resumed
\* twice, the second time out of a wait it had not finished; schedule() itself
\* lets that happen, and nothing else does, whatever is done to others.
HeldOnce == QueueInv /\ TableInv

\* Whoever is in a table has a Channel in the poller for the descriptor.
WaitersAreWatched ==
    \A e \in Events, fd \in Fds :
        waiting[e][fd] # NoCoroutine => registered[fd] # {}

\* Every coroutine in the ready queue gets its turn, unless it is done.
ScheduledRuns ==
    \A c \in Coroutines :
        c \in Range(ready_queue_) ~> t_current_ = c \/ state_[c] = "DONE"

\* A coroutine in call on fd runs again after the event it waits for, or the
\* event is gone.
Woken(c, call, fd) ==
    at[c] = <<call, fd>> /\ EventOf(call) \in ready[fd] ~>
        at[c] # <<call, fd>> \/ EventOf(call) \notin ready[fd]

\* "When EventLoop detects the fd is readable, the coroutine is re-queued"
\* (scheduler.h): a coroutine that waits for an event runs again after the
\* event, provided tick() always returns (coroutines that schedule each other
\* keep it from doing so).  Refuted where two coroutines share a descriptor.
WaiterRuns ==
    []<>~ticking =>
        \A c \in Coroutines, call \in Calls, fd \in Fds : Woken(c, call, fd)

\* Nobody but c uses fd, and c only for the event it waits for in call.
Alone(c, call, fd) ==
    \A use \in Uses : use[3] = fd => use[1] = c /\ EventOf(use[2]) = EventOf(call)

\* A coroutine that is alone on its descriptor is always woken, whatever other
\* coroutines do to each other on theirs.
LoneWaiterRuns ==
    []<>~ticking =>
        \A c \in Coroutines, call \in Calls, fd \in Fds :
            Alone(c, call, fd) => Woken(c, call, fd)

\* c, suspended in call on fd, is in the table on_fd_ready() looks in, with a
\* Channel that watches for the event, or it is in the ready queue.
Held(c, call, fd) ==
    state_[c] = "SUSPENDED" /\ at[c] = <<call, fd>> =>
        \/ waiting[EventOf(call)][fd] = c /\ EventOf(call) \in registered[fd]
        \/ c \in Range(ready_queue_)

\* A suspended coroutine that is alone on its descriptor is not forgotten,
\* whatever schedule() is given.
LoneWaiterIsHeld ==
    \A c \in Coroutines, call \in Calls, fd \in Fds :
        Alone(c, call, fd) => Held(c, call, fd)

\* A coroutine that is alone on its descriptor, and that schedule() is not
\* misused for, comes out of a wait only after the event it waited for:
\* co_connect(), which does not try again, would take an unfinished connection
\* for a finished one.
LoneWaiterWakesReady ==
    \A c \in Coroutines \ careless, call \in Calls, fd \in Fds :
        /\ Alone(c, call, fd)
        /\ at[c] = <<call, fd>>
        /\ c \in Range(ready_queue_) \/ state_[c] = "RUNNING"
        => EventOf(call) \in ready[fd]

=============================================================================
