-------------------------- MODULE SchedulerProofs --------------------------
(***************************************************************************)
(* TypeOK and HeldOnce together are inductive, given that only coroutines  *)
(* that exist are held (CreatedInv): the state of a coroutine tells the    *)
(* running one from those the queue and the tables hold, and the wait it   *)
(* is in (at) tells which entry of which table is its own.  On top of      *)
(* them, LoneWaiterIsHeld and LoneWaiterWakesReady are inductive with      *)
(* UsesInv.                                                                *)
(***************************************************************************)
EXTENDS Scheduler, TLAPS

USE NullAssumption, UsesAssumption

\* A coroutine that does not exist yet is nowhere.
CreatedInv ==
    \A c \in Coroutines : state_[c] = "none" =>
        /\ at[c] = User
        /\ \A i \in DOMAIN ready_queue_ : ready_queue_[i] # c
        /\ \A e \in Events, fd \in Fds : waiting[e][fd] # c

SchedulerInv == TypeOK /\ HeldOnce /\ WaitersAreWatched /\ CreatedInv

\* The places of a queue that has grown by one.
LEMMA AppendPlaces ==
    ASSUME NEW S, NEW s \in Seq(S), NEW x \in S
    PROVE  /\ Append(s, x) \in Seq(S)
           /\ \A i \in DOMAIN Append(s, x) :
                 \/ i = Len(s) + 1 /\ Append(s, x)[i] = x
                 \/ i \in DOMAIN s /\ Append(s, x)[i] = s[i]
  OBVIOUS

\* The places of a queue whose head is taken out.
LEMMA TailPlaces ==
    ASSUME NEW S, NEW s \in Seq(S), s # <<>>
    PROVE  /\ Head(s) \in S
           /\ Tail(s) \in Seq(S)
           /\ 1 \in DOMAIN s /\ Head(s) = s[1]
           /\ \A i \in DOMAIN Tail(s) :
                 i \in Nat /\ i + 1 # 1 /\ i + 1 \in DOMAIN s /\ Tail(s)[i] = s[i + 1]
  OBVIOUS

\* A wait is not user code and not sleep, and tells its event and its descriptor.
LEMMA WaitsAreDistinct ==
    ASSUME NEW e, NEW fd, NEW e2, NEW fd2, NEW where
    PROVE  /\ ~WaitsFor(User, e, fd) /\ ~WaitsFor(Sleep, e, fd)
           /\ WaitsFor(where, e, fd) /\ WaitsFor(where, e2, fd2) => e = e2 /\ fd = fd2
  BY DEF WaitsFor, User, Sleep

\* A coroutine inside a call waits for the call's event.
LEMMA CallWaits ==
    ASSUME NEW call \in Calls, NEW fd
    PROVE  WaitsFor(<<call, fd>>, EventOf(call), fd)
  BY Zenon DEF WaitsFor

\* Who waits for something is in a call on a descriptor.
LEMMA WaitersAreInCalls ==
    ASSUME NEW e, NEW fd \in Fds, NEW where, WaitsFor(where, e, fd)
    PROVE  where \in Waits
  BY DEF WaitsFor, Waits

\* What TableInv says of one entry.
LEMMA TableEntry ==
    ASSUME SchedulerInv, NEW e \in Events, NEW fd \in Fds, NEW c \in Coroutines \ careless,
           waiting[e][fd] = c
    PROVE  /\ state_[c] = "SUSPENDED"
           /\ \A i \in DOMAIN ready_queue_ : ready_queue_[i] # c
           /\ WaitsFor(at[c], e, fd)
  BY Zenon DEF SchedulerInv, HeldOnce, TableInv

\* The initial state.
LEMMA InitEstablishes == Init => SchedulerInv
<1> SUFFICES ASSUME Init PROVE SchedulerInv
  OBVIOUS
<1>1. waiting \in [Events -> [Fds -> Coroutines \cup {NoCoroutine}]]
  BY DEF Init, Nobody
<1>2. \A e \in Events, fd \in Fds : waiting[e][fd] = NoCoroutine
  BY DEF Init, Nobody
<1>3. TypeOK
  <2>1. /\ state_ \in [Coroutines -> {"none", "READY", "RUNNING", "SUSPENDED", "DONE"}]
        /\ \A c \in Coroutines : state_[c] = "RUNNING" <=> t_current_ = c
    BY DEF Init
  <2>2. at \in [Coroutines -> Waits \cup {User, Sleep}]
    BY DEF Init
  <2>3. registered \in [Fds -> SUBSET Events] /\ ready \in [Fds -> SUBSET Events]
    BY DEF Init
  <2>4. ready_queue_ \in Seq(Coroutines) /\ careless \in SUBSET Coroutines
    BY DEF Init
  <2> QED
    BY <1>1, <2>1, <2>2, <2>3, <2>4 DEF Init, TypeOK
<1>4. HeldOnce
  BY <1>2 DEF Init, HeldOnce, QueueInv, TableInv
<1>5. WaitersAreWatched
  BY <1>2 DEF WaitersAreWatched
<1>6. CreatedInv
  BY <1>2 DEF Init, CreatedInv
<1> QED
  BY <1>3, <1>4, <1>5, <1>6 DEF SchedulerInv

\* Whatever happens while the running coroutine c leaves its context, at is
\* another place and the queue is as it was, keeps the queue in order; and c, if
\* it is no careless one, is in no table.
LEMMA LeavingKeepsQueue ==
    ASSUME SchedulerInv, NEW c \in Coroutines, t_current_ = c,
           NEW state \in {"SUSPENDED", "DONE"}, NEW where \in Waits \cup {User, Sleep},
           Leave(c, state, where), careless \subseteq careless', UNCHANGED ready_queue_
    PROVE  /\ state_' \in [Coroutines -> {"none", "READY", "RUNNING", "SUSPENDED", "DONE"}]
           /\ at' \in [Coroutines -> Waits \cup {User, Sleep}]
           /\ t_current_' = NoCoroutine
           /\ \A d \in Coroutines : state_'[d] = "RUNNING" <=> t_current_' = d
           /\ QueueInv'
           /\ c \notin careless => \A e \in Events, fd \in Fds : waiting[e][fd] # c
           /\ state_'[c] = state /\ at'[c] = where
           /\ \A d \in Coroutines : d # c => state_'[d] = state_[d] /\ at'[d] = at[d]
<1>1. state_[c] = "RUNNING"
  BY DEF SchedulerInv, TypeOK
<1>2. c \notin careless => \A e \in Events, fd \in Fds : waiting[e][fd] # c
  BY <1>1 DEF SchedulerInv, HeldOnce, TableInv
<1>3. /\ state_' \in [Coroutines -> {"none", "READY", "RUNNING", "SUSPENDED", "DONE"}]
      /\ at' \in [Coroutines -> Waits \cup {User, Sleep}]
      /\ state_'[c] = state /\ at'[c] = where
      /\ \A d \in Coroutines : d # c => state_'[d] = state_[d] /\ at'[d] = at[d]
  BY DEF SchedulerInv, TypeOK, Leave
<1>4. t_current_' = NoCoroutine
  BY DEF Leave
<1>5. \A d \in Coroutines : state_'[d] = "RUNNING" <=> t_current_' = d
  BY <1>3, <1>4 DEF SchedulerInv, TypeOK
<1>6. QueueInv'
  BY DEF SchedulerInv, HeldOnce, QueueInv
<1> QED
  BY <1>2, <1>3, <1>4, <1>5, <1>6

\* c begins to wait for an event of fd and leaves.
LEMMA WaitPreserves ==
    ASSUME SchedulerInv, NEW c \in Coroutines, t_current_ = c,
           NEW call \in Calls, NEW fd \in Fds,
           WaitFor(c, EventOf(call), fd), Leave(c, "SUSPENDED", <<call, fd>>),
           UNCHANGED <<ticking, ready_queue_, ready>>
    PROVE  SchedulerInv'
<1> DEFINE event == EventOf(call)
<1>1. event \in Events
  BY DEF EventOf, Events
<1>2. <<call, fd>> \in Waits \cup {User, Sleep}
  BY DEF Waits
<1> HIDE DEF event
<1>3. /\ waiting' \in [Events -> [Fds -> Coroutines \cup {NoCoroutine}]]
      /\ waiting'[event][fd] = c
      /\ \A e \in Events, f \in Fds :
            e # event \/ f # fd => waiting'[e][f] = waiting[e][f]
  <2>1. waiting' = [waiting EXCEPT ![event][fd] = c]
    BY DEF WaitFor, event
  <2> QED
    BY <1>1, <2>1 DEF SchedulerInv, TypeOK
<1>4. /\ registered' \in [Fds -> SUBSET Events]
      /\ registered'[fd] # {}
      /\ \A f \in Fds : registered[f] # {} => registered'[f] # {}
  <2>1. registered' = IF registered[fd] = {} THEN [registered EXCEPT ![fd] = {event}]
                      ELSE registered
    BY DEF WaitFor, event
  <2> QED
    BY <1>1, <2>1 DEF SchedulerInv, TypeOK
<1>5. /\ careless \subseteq careless'
      /\ careless' \in SUBSET Coroutines
      /\ c \notin careless' => \A i \in DOMAIN ready_queue_ : ready_queue_[i] # c
  BY DEF WaitFor, EntersWait, Range, SchedulerInv, TypeOK
<1>6. TypeOK'
  BY <1>2, <1>3, <1>4, <1>5, LeavingKeepsQueue DEF SchedulerInv, TypeOK
<1>7. TableInv'
  <2> SUFFICES ASSUME NEW e \in Events, NEW f \in Fds, NEW d \in Coroutines \ careless',
                      waiting'[e][f] = d
               PROVE  /\ state_'[d] = "SUSPENDED"
                      /\ \A i \in DOMAIN ready_queue_' : ready_queue_'[i] # d
                      /\ WaitsFor(at'[d], e, f)
    BY DEF TableInv
  <2>1. CASE e = event /\ f = fd
    <3>1. d = c
      BY <1>3, <2>1
    <3>2. state_'[c] = "SUSPENDED" /\ at'[c] = <<call, fd>>
      BY <1>2, <1>5, LeavingKeepsQueue
    <3>3. WaitsFor(at'[d], e, f)
      BY <2>1, <3>1, <3>2, CallWaits DEF event
    <3> QED
      BY <1>5, <3>1, <3>2, <3>3
  <2>2. CASE e # event \/ f # fd
    <3>1. waiting[e][f] = d /\ d \in Coroutines \ careless
      BY <1>3, <1>5, <2>2
    <3>2. d # c
      BY <1>2, <1>5, <3>1, LeavingKeepsQueue
    <3>3. state_'[d] = state_[d] /\ at'[d] = at[d]
      BY <1>2, <1>5, <3>2, LeavingKeepsQueue
    <3> QED
      BY <3>1, <3>3, TableEntry
  <2> QED
    BY <2>1, <2>2
<1>8. WaitersAreWatched'
  BY <1>3, <1>4 DEF SchedulerInv, WaitersAreWatched
<1>9. CreatedInv'
  <2> SUFFICES ASSUME NEW d \in Coroutines, state_'[d] = "none"
               PROVE  /\ at'[d] = User
                      /\ \A i \in DOMAIN ready_queue_' : ready_queue_'[i] # d
                      /\ \A e \in Events, f \in Fds : waiting'[e][f] # d
    BY DEF CreatedInv
  <2>1. d # c /\ state_[d] = "none" /\ at'[d] = at[d]
    BY <1>2, <1>5, LeavingKeepsQueue
  <2> QED
    BY <1>3, <2>1 DEF SchedulerInv, CreatedInv
<1> QED
  BY <1>2, <1>5, <1>6, <1>7, <1>8, <1>9, LeavingKeepsQueue DEF SchedulerInv, HeldOnce

\* c leaves for a place that is not a wait: yield(), the end of its function,
\* co_sleep().
LEMMA LeavePreserves ==
    ASSUME SchedulerInv, NEW c \in Coroutines, t_current_ = c,
           NEW state \in {"SUSPENDED", "DONE"}, NEW where \in {User, Sleep},
           Leave(c, state, where),
           UNCHANGED <<ticking, ready_queue_, waiting, registered, ready, careless>>
    PROVE  SchedulerInv'
<1>1. TypeOK'
  BY LeavingKeepsQueue DEF SchedulerInv, TypeOK
<1>2. TableInv'
  <2> SUFFICES ASSUME NEW e \in Events, NEW f \in Fds, NEW d \in Coroutines \ careless,
                      waiting[e][f] = d
               PROVE  /\ state_'[d] = "SUSPENDED"
                      /\ \A i \in DOMAIN ready_queue_' : ready_queue_'[i] # d
                      /\ WaitsFor(at'[d], e, f)
    BY DEF TableInv
  <2>1. d # c
    BY LeavingKeepsQueue
  <2>2. state_'[d] = state_[d] /\ at'[d] = at[d]
    BY <2>1, LeavingKeepsQueue
  <2> QED
    BY <2>2, TableEntry
<1>3. WaitersAreWatched'
  BY DEF SchedulerInv, WaitersAreWatched
<1>4. CreatedInv'
  <2>1. \A d \in Coroutines : state_'[d] = "none" => state_[d] = "none" /\ at'[d] = at[d]
    BY LeavingKeepsQueue
  <2> QED
    BY <2>1 DEF SchedulerInv, CreatedInv
<1> QED
  BY <1>1, <1>2, <1>3, <1>4, LeavingKeepsQueue DEF SchedulerInv, HeldOnce

\* The running coroutine gets on inside or out of a call: no table has it, so
\* that where it is concerns nobody.
LEMMA GoingOnPreserves ==
    ASSUME SchedulerInv, NEW c \in Coroutines, t_current_ = c,
           at' = [at EXCEPT ![c] = User], ready' \in [Fds -> SUBSET Events],
           UNCHANGED <<state_, t_current_, ticking, ready_queue_, waiting, registered, careless>>
    PROVE  SchedulerInv'
<1>1. at' \in [Coroutines -> Waits \cup {User, Sleep}]
  BY DEF SchedulerInv, TypeOK
<1>2. TypeOK'
  BY <1>1 DEF SchedulerInv, TypeOK
<1>3. c \notin careless => \A e \in Events, fd \in Fds : waiting[e][fd] # c
  BY DEF SchedulerInv, TypeOK, HeldOnce, TableInv
<1>4. at'[c] = User /\ \A d \in Coroutines : d # c => at'[d] = at[d]
  BY DEF SchedulerInv, TypeOK
<1>5. TableInv'
  <2> SUFFICES ASSUME NEW e \in Events, NEW f \in Fds, NEW d \in Coroutines \ careless,
                      waiting[e][f] = d
               PROVE  /\ state_'[d] = "SUSPENDED"
                      /\ \A i \in DOMAIN ready_queue_' : ready_queue_'[i] # d
                      /\ WaitsFor(at'[d], e, f)
    BY DEF TableInv
  <2>1. at'[d] = at[d]
    BY <1>3, <1>4
  <2> QED
    BY <2>1, TableEntry
<1>6. QueueInv' /\ WaitersAreWatched'
  BY DEF SchedulerInv, HeldOnce, QueueInv, WaitersAreWatched
<1>7. CreatedInv'
  BY <1>4 DEF SchedulerInv, CreatedInv
<1> QED
  BY <1>2, <1>5, <1>6, <1>7 DEF SchedulerInv, HeldOnce

\* A coroutine that exists, or is just created, enters the ready queue: if it is
\* no careless one, it was neither there nor in a table.
LEMMA QueueingPreserves ==
    ASSUME SchedulerInv, NEW c \in Coroutines,
           careless \subseteq careless', careless' \in SUBSET Coroutines,
           c \notin careless' => \A i \in DOMAIN ready_queue_ : ready_queue_[i] # c,
           c \notin careless' => \A e \in Events, fd \in Fds : waiting'[e][fd] # c,
           \A e \in Events, fd \in Fds :
               waiting'[e][fd] = waiting[e][fd] \/ waiting'[e][fd] = NoCoroutine,
           waiting' \in [Events -> [Fds -> Coroutines \cup {NoCoroutine}]],
           state_'[c] # "none",
           state_'[c] = "RUNNING" <=> state_[c] = "RUNNING",
           \A d \in Coroutines : d # c => state_'[d] = state_[d],
           state_' \in [Coroutines -> {"none", "READY", "RUNNING", "SUSPENDED", "DONE"}],
           ready_queue_' = Append(ready_queue_, c),
           UNCHANGED <<at, t_current_, ticking, registered, ready>>
    PROVE  SchedulerInv'
<1>1. /\ ready_queue_' \in Seq(Coroutines)
      /\ \A i \in DOMAIN ready_queue_' :
            \/ i = Len(ready_queue_) + 1 /\ ready_queue_'[i] = c
            \/ i \in DOMAIN ready_queue_ /\ ready_queue_'[i] = ready_queue_[i]
  BY AppendPlaces DEF SchedulerInv, TypeOK
<1>2. TypeOK'
  <2>1. \A d \in Coroutines : state_'[d] = "RUNNING" <=> t_current_' = d
    BY DEF SchedulerInv, TypeOK
  <2> QED
    BY <1>1, <2>1 DEF SchedulerInv, TypeOK
<1>3. QueueInv'
  <2> SUFFICES ASSUME NEW i \in DOMAIN ready_queue_', NEW j \in DOMAIN ready_queue_',
                      ready_queue_'[i] = ready_queue_'[j], ready_queue_'[i] \notin careless'
               PROVE  i = j
    BY DEF QueueInv
  <2>1. CASE i \in DOMAIN ready_queue_ /\ j \in DOMAIN ready_queue_
            /\ ready_queue_'[i] = ready_queue_[i] /\ ready_queue_'[j] = ready_queue_[j]
    BY <2>1 DEF SchedulerInv, HeldOnce, QueueInv
  <2> QED
    BY <1>1, <2>1
<1>4. TableInv'
  <2> SUFFICES ASSUME NEW e \in Events, NEW f \in Fds, NEW d \in Coroutines \ careless',
                      waiting'[e][f] = d
               PROVE  /\ state_'[d] = "SUSPENDED"
                      /\ \A i \in DOMAIN ready_queue_' : ready_queue_'[i] # d
                      /\ WaitsFor(at'[d], e, f)
    BY DEF TableInv
  <2>1. d # c /\ waiting[e][f] = d /\ d \in Coroutines \ careless
    OBVIOUS
  <2>2. /\ state_[d] = "SUSPENDED"
        /\ \A i \in DOMAIN ready_queue_ : ready_queue_[i] # d
        /\ WaitsFor(at[d], e, f)
    BY <2>1, TableEntry
  <2> QED
    BY <1>1, <2>1, <2>2
<1>5. WaitersAreWatched'
  BY DEF SchedulerInv, WaitersAreWatched
<1>6. CreatedInv'
  <2> SUFFICES ASSUME NEW d \in Coroutines, state_'[d] = "none"
               PROVE  /\ at'[d] = User
                      /\ \A i \in DOMAIN ready_queue_' : ready_queue_'[i] # d
                      /\ \A e \in Events, f \in Fds : waiting'[e][f] # d
    BY DEF CreatedInv
  <2>1. d # c /\ state_[d] = "none"
    OBVIOUS
  <2>2. /\ at[d] = User
        /\ \A i \in DOMAIN ready_queue_ : ready_queue_[i] # d
        /\ \A e \in Events, f \in Fds : waiting[e][f] # d
    BY <2>1 DEF SchedulerInv, CreatedInv
  <2> QED
    BY <1>1, <2>1, <2>2
<1> QED
  BY <1>2, <1>3, <1>4, <1>5, <1>6 DEF SchedulerInv, HeldOnce

\* The invariant is inductive: one step for each action.
LEMMA NextPreserves == SchedulerInv /\ [Next]_vars => SchedulerInv'
<1> SUFFICES ASSUME SchedulerInv, [Next]_vars PROVE SchedulerInv'
  OBVIOUS
<1>1. ASSUME NEW c \in Coroutines, CreateCoroutine(c) PROVE SchedulerInv'
  <2>1. /\ state_' = [state_ EXCEPT ![c] = "READY"]
        /\ state_[c] = "none"
        /\ ready_queue_' = Append(ready_queue_, c)
        /\ UNCHANGED <<at, t_current_, ticking, waiting, registered, ready, careless>>
    BY <1>1 DEF CreateCoroutine
  <2>2. /\ \A i \in DOMAIN ready_queue_ : ready_queue_[i] # c
        /\ \A e \in Events, fd \in Fds : waiting'[e][fd] # c
    BY <2>1 DEF SchedulerInv, CreatedInv
  <2>3. /\ state_' \in [Coroutines -> {"none", "READY", "RUNNING", "SUSPENDED", "DONE"}]
        /\ state_'[c] = "READY"
        /\ \A d \in Coroutines : d # c => state_'[d] = state_[d]
    BY <2>1 DEF SchedulerInv, TypeOK
  <2>4. /\ waiting' \in [Events -> [Fds -> Coroutines \cup {NoCoroutine}]]
        /\ careless' \in SUBSET Coroutines
    BY <2>1 DEF SchedulerInv, TypeOK
  <2> QED
    BY <2>1, <2>2, <2>3, <2>4, QueueingPreserves
<1>2. ASSUME NEW c \in Coroutines, Schedule(c) PROVE SchedulerInv'
  <2>1. /\ state_[c] # "none"
        /\ ready_queue_' = Append(ready_queue_, c)
        /\ careless' = IF Misplaced(c) THEN careless \cup {c} ELSE careless
        /\ UNCHANGED <<state_, at, t_current_, ticking, waiting, registered, ready>>
    BY <1>2 DEF Schedule
  <2>2. /\ careless \subseteq careless' /\ careless' \in SUBSET Coroutines
        /\ c \notin careless' => c \notin careless /\ ~Misplaced(c)
    BY <2>1 DEF SchedulerInv, TypeOK
  <2>3. c \notin careless' => \A i \in DOMAIN ready_queue_ : ready_queue_[i] # c
    BY <2>2 DEF Misplaced, Range
  <2>4. c \notin careless' => \A e \in Events, fd \in Fds : waiting'[e][fd] # c
    BY <2>1, <2>2, TableEntry, WaitersAreInCalls DEF Misplaced
  <2>5. /\ state_' \in [Coroutines -> {"none", "READY", "RUNNING", "SUSPENDED", "DONE"}]
        /\ waiting' \in [Events -> [Fds -> Coroutines \cup {NoCoroutine}]]
    BY <2>1 DEF SchedulerInv, TypeOK
  <2> QED
    BY <2>1, <2>2, <2>3, <2>4, <2>5, QueueingPreserves
<1>3. ASSUME NEW c \in Coroutines, Yield(c) \/ Finish(c) \/ CoSleep(c) PROVE SchedulerInv'
  <2>1. CASE Yield(c)
    BY <2>1, LeavePreserves DEF Yield
  <2>2. CASE Finish(c)
    BY <2>2, LeavePreserves DEF Finish
  <2>3. CASE CoSleep(c)
    BY <2>3, LeavePreserves DEF CoSleep
  <2> QED
    BY <1>3, <2>1, <2>2, <2>3
<1>4. ASSUME NEW c \in Coroutines, NEW fd \in Fds, Connect(c, fd) PROVE SchedulerInv'
  <2>1. t_current_ = c /\ UNCHANGED <<ticking, ready_queue_, ready>>
    BY <1>4 DEF Connect, Calling
  <2>2. CASE at[c] = User
    <3>1. "connect" \in Calls /\ EventOf("connect") = "write"
      BY DEF Calls, EventOf
    <3> QED
      BY <1>4, <2>1, <2>2, <3>1, WaitPreserves DEF Connect
  <2>3. CASE at[c] # User
    <3>1. ready' \in [Fds -> SUBSET Events]
      BY <2>1 DEF SchedulerInv, TypeOK
    <3> QED
      BY <1>4, <2>1, <2>3, <3>1, GoingOnPreserves DEF Connect
  <2> QED
    BY <2>2, <2>3
<1>5. ASSUME NEW c \in Coroutines, NEW fd \in Fds, NEW call \in Events, Transfer(c, call, fd)
      PROVE  SchedulerInv'
  <2>1. t_current_ = c /\ UNCHANGED <<ticking, ready_queue_>>
    BY <1>5 DEF Transfer, Calling
  <2>2. CASE call \in ready[fd]
    <3>1. ready' \in [Fds -> SUBSET Events]
      <4>1. ready' \in {ready, [ready EXCEPT ![fd] = @ \ {call}]}
        BY <1>5, <2>2 DEF Transfer
      <4>2. ready \in [Fds -> SUBSET Events]
        BY DEF SchedulerInv, TypeOK
      <4>3. ready[fd] \ {call} \in SUBSET Events
        BY <4>2
      <4>4. [ready EXCEPT ![fd] = @ \ {call}] \in [Fds -> SUBSET Events]
        BY <4>2, <4>3
      <4> QED
        BY <4>1, <4>2, <4>4
    <3> QED
      BY <1>5, <2>1, <2>2, <3>1, GoingOnPreserves DEF Transfer
  <2>3. CASE call \notin ready[fd]
    <3>1. call \in Calls /\ EventOf(call) = call
      BY DEF Calls, Events, EventOf
    <3> QED
      BY <1>5, <2>1, <2>3, <3>1, WaitPreserves DEF Transfer
  <2> QED
    BY <2>2, <2>3
<1>6. ASSUME BeginTick \/ EndTick PROVE SchedulerInv'
  <2>1. /\ ticking' \in BOOLEAN
        /\ UNCHANGED <<state_, at, t_current_, ready_queue_, waiting, registered, ready, careless>>
    BY <1>6 DEF BeginTick, EndTick
  <2>2. TypeOK'
    BY <2>1 DEF SchedulerInv, TypeOK
  <2> QED
    BY <2>1, <2>2 DEF SchedulerInv, HeldOnce, QueueInv, TableInv, WaitersAreWatched, CreatedInv
<1>7. ASSUME Resume PROVE SchedulerInv'
  <2> DEFINE c == Head(ready_queue_)
  <2>1. /\ t_current_ = NoCoroutine
        /\ ready_queue_ # <<>>
        /\ ready_queue_' = Tail(ready_queue_)
        /\ UNCHANGED <<at, ticking, waiting, registered, ready, careless>>
    BY <1>7 DEF Resume
  <2>2. /\ c \in Coroutines
        /\ ready_queue_' \in Seq(Coroutines)
        /\ 1 \in DOMAIN ready_queue_ /\ c = ready_queue_[1]
        /\ \A i \in DOMAIN ready_queue_' :
              i \in Nat /\ i + 1 # 1 /\ i + 1 \in DOMAIN ready_queue_
              /\ ready_queue_'[i] = ready_queue_[i + 1]
    BY <2>1, TailPlaces DEF SchedulerInv, TypeOK
  <2>3. \/ state_[c] = "DONE" /\ state_' = state_ /\ t_current_' = t_current_
        \/ state_[c] # "DONE" /\ state_' = [state_ EXCEPT ![c] = "RUNNING"] /\ t_current_' = c
    BY <1>7 DEF Resume
  <2> HIDE DEF c
  <2>4. /\ state_' \in [Coroutines -> {"none", "READY", "RUNNING", "SUSPENDED", "DONE"}]
        /\ \A d \in Coroutines : d # c => state_'[d] = state_[d]
        /\ state_'[c] # "none"
    BY <2>2, <2>3 DEF SchedulerInv, TypeOK
  <2>5. TypeOK'
    <3>1. \A d \in Coroutines : state_'[d] = "RUNNING" <=> t_current_' = d
      BY <2>1, <2>2, <2>3 DEF SchedulerInv, TypeOK
    <3> QED
      BY <2>1, <2>2, <2>3, <2>4, <3>1 DEF SchedulerInv, TypeOK
  <2>6. QueueInv'
    <3> SUFFICES ASSUME NEW i \in DOMAIN ready_queue_', NEW j \in DOMAIN ready_queue_',
                        ready_queue_'[i] = ready_queue_'[j], ready_queue_'[i] \notin careless
                 PROVE  i = j
      BY <2>1 DEF QueueInv
    <3>1. i + 1 = j + 1
      BY <2>2 DEF SchedulerInv, HeldOnce, QueueInv
    <3> QED
      BY <2>2, <3>1
  <2>7. TableInv'
    <3> SUFFICES ASSUME NEW e \in Events, NEW f \in Fds, NEW d \in Coroutines \ careless,
                        waiting[e][f] = d
                 PROVE  /\ state_'[d] = "SUSPENDED"
                        /\ \A i \in DOMAIN ready_queue_' : ready_queue_'[i] # d
                        /\ WaitsFor(at'[d], e, f)
      BY <2>1 DEF TableInv
    <3>1. /\ state_[d] = "SUSPENDED"
          /\ \A i \in DOMAIN ready_queue_ : ready_queue_[i] # d
          /\ WaitsFor(at[d], e, f)
      BY TableEntry
    <3>2. d # c
      BY <2>2, <3>1
    <3>3. /\ state_'[d] = "SUSPENDED"
          /\ \A i \in DOMAIN ready_queue_' : ready_queue_'[i] # d
      BY <2>2, <2>4, <3>1, <3>2
    <3> QED
      BY <2>1, <3>1, <3>3
  <2>8. WaitersAreWatched'
    BY <2>1 DEF SchedulerInv, WaitersAreWatched
  <2>9. CreatedInv'
    <3> SUFFICES ASSUME NEW d \in Coroutines, state_'[d] = "none"
                 PROVE  /\ at'[d] = User
                        /\ \A i \in DOMAIN ready_queue_' : ready_queue_'[i] # d
                        /\ \A e \in Events, f \in Fds : waiting'[e][f] # d
      BY DEF CreatedInv
    <3>1. state_[d] = "none"
      BY <2>4
    <3>2. /\ at[d] = User
          /\ \A i \in DOMAIN ready_queue_ : ready_queue_[i] # d
          /\ \A e \in Events, f \in Fds : waiting[e][f] # d
      BY <3>1 DEF SchedulerInv, CreatedInv
    <3> QED
      BY <2>1, <2>2, <3>2
  <2> QED
    BY <2>5, <2>6, <2>7, <2>8, <2>9 DEF SchedulerInv, HeldOnce
<1>8. ASSUME NEW fd \in Fds, OnFdReady(fd) PROVE SchedulerInv'
  <2> DEFINE event == IF waiting["read"][fd] # NoCoroutine THEN "read" ELSE "write"
             c == waiting[event][fd]
  <2>1. /\ event \in Events /\ c # NoCoroutine
        /\ waiting' = [waiting EXCEPT ![event][fd] = NoCoroutine]
        /\ ready_queue_' = Append(ready_queue_, c)
        /\ UNCHANGED <<state_, at, t_current_, ticking, registered, ready, careless>>
    BY <1>8 DEF OnFdReady, Events
  <2> HIDE DEF event
  <2>2. c \in Coroutines
    BY <2>1 DEF SchedulerInv, TypeOK
  <2>3. /\ waiting' \in [Events -> [Fds -> Coroutines \cup {NoCoroutine}]]
        /\ waiting'[event][fd] = NoCoroutine
        /\ \A e \in Events, f \in Fds : e # event \/ f # fd => waiting'[e][f] = waiting[e][f]
    BY <2>1 DEF SchedulerInv, TypeOK
  <2>4. state_[c] # "none"
    BY <2>1, <2>2 DEF SchedulerInv, CreatedInv
  <2>5. ASSUME c \notin careless
        PROVE  /\ \A i \in DOMAIN ready_queue_ : ready_queue_[i] # c
               /\ WaitsFor(at[c], event, fd)
    BY <2>1, <2>2, <2>5, TableEntry
  <2>6. ASSUME c \notin careless, NEW e \in Events, NEW f \in Fds, waiting[e][f] = c
        PROVE  e = event /\ f = fd
    <3>1. WaitsFor(at[c], e, f)
      BY <2>2, <2>6, TableEntry
    <3> QED
      BY <2>5, <2>6, <3>1, WaitsAreDistinct
  <2>7. c \notin careless => \A e \in Events, f \in Fds : waiting'[e][f] # c
    BY <2>1, <2>3, <2>6
  <2>8. /\ state_' \in [Coroutines -> {"none", "READY", "RUNNING", "SUSPENDED", "DONE"}]
        /\ careless \in SUBSET Coroutines
    BY <2>1 DEF SchedulerInv, TypeOK
  <2> HIDE DEF c
  <2> QED
    BY <2>1, <2>2, <2>3, <2>4, <2>5, <2>7, <2>8, QueueingPreserves
<1>9. ASSUME NEW fd \in Fds, NEW event \in Events, BecomeReady(fd, event) PROVE SchedulerInv'
  <2>1. ready' \in [Fds -> SUBSET Events]
    BY <1>9 DEF BecomeReady, SchedulerInv, TypeOK
  <2> QED
    BY <1>9, <2>1 DEF BecomeReady, SchedulerInv, TypeOK, HeldOnce, QueueInv, TableInv,
                      WaitersAreWatched, CreatedInv
<1>10. CASE UNCHANGED vars
  BY <1>10 DEF vars, SchedulerInv, TypeOK, HeldOnce, QueueInv, TableInv, WaitersAreWatched,
               CreatedInv
<1> QED
  BY <1>1, <1>2, <1>3, <1>4, <1>5, <1>6, <1>7, <1>8, <1>9, <1>10 DEF Next, Running

\* The invariant holds always.
LEMMA AlwaysSchedulerInv == Spec => []SchedulerInv
  BY InitEstablishes, NextPreserves, PTL DEF Spec

\* The types are kept, and t_current_ is the one RUNNING coroutine.
THEOREM TypeCorrect == Spec => []TypeOK
  BY AlwaysSchedulerInv, PTL DEF SchedulerInv

\* A coroutine that schedule() is not misused for, that is, given to it while
\* queued or in a wait, or before it waits itself, is never held twice: not by the
\* ready queue and a table, not by two tables, not by a table while it runs
\* (wait_for_read(), wait_for_write(), on_fd_ready(), tick()), whatever the
\* others do and however descriptors are shared.
THEOREM CoroutinesAreHeldOnce == Spec => []HeldOnce
  BY AlwaysSchedulerInv, PTL DEF SchedulerInv

\* No coroutine waits in a table for a descriptor the poller does not know.
THEOREM WaitersHaveChannels == Spec => []WaitersAreWatched
  BY AlwaysSchedulerInv, PTL DEF SchedulerInv

-----------------------------------------------------------------------------
(* A waiter that has its descriptor to itself.  LoneWaiterIsHeld needs to  *)
(* know that the calls coroutines are in, and the events of the registered *)
(* Channels, are those of Uses: then nobody else can take the waiter's     *)
(* entry, and the one Channel of the descriptor is for its event.          *)

UsesInv ==
    /\ \A c \in Coroutines, call \in Calls, fd \in Fds :
          at[c] = <<call, fd>> => <<c, call, fd>> \in Uses
    /\ \A fd \in Fds : \A e \in registered[fd] :
          \E use \in Uses : use[3] = fd /\ EventOf(use[2]) = e

LoneInv == SchedulerInv /\ UsesInv /\ LoneWaiterIsHeld

\* What the loneliness of c on fd says of a call d makes.
LEMMA AloneExcludes ==
    ASSUME NEW c, NEW call, NEW fd, Alone(c, call, fd),
           NEW d, NEW call2, NEW fd2, <<d, call2, fd2>> \in Uses
    PROVE  fd2 = fd => d = c /\ EventOf(call2) = EventOf(call)
<1> DEFINE use == <<d, call2, fd2>>
<1>1. use \in Uses /\ use[1] = d /\ use[2] = call2 /\ use[3] = fd2
  OBVIOUS
<1> QED
  BY <1>1 DEF Alone

\* Every Channel of a lone waiter's descriptor is for its event.
LEMMA AloneRegistered ==
    ASSUME UsesInv, NEW c, NEW call, NEW fd \in Fds, Alone(c, call, fd),
           NEW e \in registered[fd]
    PROVE  e = EventOf(call)
  BY DEF UsesInv, Alone

\* Who is in the queue stays in it when it grows, and when another is taken out.
LEMMA StaysInQueue ==
    ASSUME NEW S, NEW s \in Seq(S), NEW x \in Range(s), NEW y \in S
    PROVE  /\ x \in Range(Append(s, y))
           /\ y \in Range(Append(s, y))
           /\ x # Head(s) => x \in Range(Tail(s))
<1>1. PICK i \in DOMAIN s : s[i] = x
  BY DEF Range
<1>2. i \in DOMAIN Append(s, y) /\ Append(s, y)[i] = x
  BY <1>1
<1>3. Len(s) + 1 \in DOMAIN Append(s, y) /\ Append(s, y)[Len(s) + 1] = y
  OBVIOUS
<1>4. ASSUME x # Head(s) PROVE x \in Range(Tail(s))
  <2>1. i # 1 /\ s # <<>>
    BY <1>1, <1>4
  <2>2. i - 1 \in DOMAIN Tail(s) /\ Tail(s)[i - 1] = x
    BY <1>1, <2>1
  <2> QED
    BY <2>2 DEF Range
<1> QED
  BY <1>2, <1>3, <1>4 DEF Range

\* The step in which d begins to wait.
LEMMA WaitPreservesLone ==
    ASSUME LoneInv, SchedulerInv', NEW d \in Coroutines,
           NEW call2 \in Calls, NEW fd2 \in Fds, <<d, call2, fd2>> \in Uses,
           WaitFor(d, EventOf(call2), fd2), Leave(d, "SUSPENDED", <<call2, fd2>>),
           UNCHANGED ready_queue_
    PROVE  UsesInv' /\ LoneWaiterIsHeld'
<1> DEFINE event == EventOf(call2)
<1>1. event \in Events
  BY DEF EventOf, Events
<1>2. /\ at'[d] = <<call2, fd2>>
      /\ \A c \in Coroutines : c # d => at'[c] = at[c] /\ state_'[c] = state_[c]
  BY DEF Leave, LoneInv, SchedulerInv, TypeOK
<1>3. /\ waiting'[event][fd2] = d
      /\ \A e \in Events, f \in Fds : f # fd2 => waiting'[e][f] = waiting[e][f]
  <2> HIDE DEF event
  <2>1. waiting' = [waiting EXCEPT ![event][fd2] = d]
    BY DEF WaitFor, event
  <2> QED
    BY <1>1, <2>1 DEF LoneInv, SchedulerInv, TypeOK
<1>4. /\ registered'[fd2] = IF registered[fd2] = {} THEN {event} ELSE registered[fd2]
      /\ \A f \in Fds : f # fd2 => registered'[f] = registered[f]
  BY DEF WaitFor, LoneInv, SchedulerInv, TypeOK
<1> HIDE DEF event
<1>5. UsesInv'
  <2>1. ASSUME NEW c \in Coroutines, NEW call \in Calls, NEW fd \in Fds,
               at'[c] = <<call, fd>>
        PROVE  <<c, call, fd>> \in Uses
    <3>1. CASE c = d
      BY <1>2, <2>1, <3>1
    <3>2. CASE c # d
      BY <1>2, <2>1, <3>2 DEF LoneInv, UsesInv
    <3> QED
      BY <3>1, <3>2
  <2>2. ASSUME NEW fd \in Fds, NEW e \in registered'[fd]
        PROVE  \E use \in Uses : use[3] = fd /\ EventOf(use[2]) = e
    <3>1. CASE e \in registered[fd]
      BY <3>1 DEF LoneInv, UsesInv
    <3>2. CASE e \notin registered[fd]
      <4>1. fd = fd2 /\ e = event
        BY <1>4, <2>2, <3>2
      <4> WITNESS <<d, call2, fd2>> \in Uses
      <4> QED
        BY <4>1 DEF event
    <3> QED
      BY <3>1, <3>2
  <2> QED
    BY <2>1, <2>2 DEF UsesInv
<1>6. LoneWaiterIsHeld'
  <2> SUFFICES ASSUME NEW c \in Coroutines, NEW call \in Calls, NEW fd \in Fds,
                      Alone(c, call, fd), state_'[c] = "SUSPENDED", at'[c] = <<call, fd>>
               PROVE  \/ waiting'[EventOf(call)][fd] = c /\ EventOf(call) \in registered'[fd]
                      \/ c \in Range(ready_queue_')
    BY DEF LoneWaiterIsHeld, Held, Alone
  <2>1. CASE c = d
    <3>1. call2 = call /\ fd2 = fd
      BY <1>2, <2>1
    <3>2. event \in registered'[fd2]
      <4>1. CASE registered[fd2] = {}
        BY <1>4, <4>1
      <4>2. CASE registered[fd2] # {}
        <5>1. PICK e : e \in registered[fd2]
          BY <4>2
        <5>2. e = event
          BY <3>1, <5>1, AloneRegistered DEF LoneInv, event
        <5> QED
          BY <1>4, <4>2, <5>1, <5>2
      <4> QED
        BY <4>1, <4>2
    <3> QED
      BY <1>3, <2>1, <3>1, <3>2 DEF event
  <2>2. CASE c # d
    <3>1. fd2 # fd
      BY <2>2, AloneExcludes
    <3>2. EventOf(call) \in Events
      BY DEF EventOf, Events
    <3>3. /\ waiting'[EventOf(call)][fd] = waiting[EventOf(call)][fd]
          /\ registered'[fd] = registered[fd]
      BY <1>3, <1>4, <3>1, <3>2
    <3>4. state_[c] = "SUSPENDED" /\ at[c] = <<call, fd>>
      BY <1>2, <2>2
    <3> QED
      BY <3>3, <3>4 DEF LoneInv, LoneWaiterIsHeld, Held
  <2> QED
    BY <2>1, <2>2
<1> QED
  BY <1>5, <1>6

\* A step that leaves every waiter where it was (but for d, which is now in no
\* call or does not rest in it) and at most lengthens the queue.
LEMMA QuietStepPreservesLone ==
    ASSUME LoneInv, NEW d \in Coroutines,
           \A c \in Coroutines : c # d => at'[c] = at[c] /\ state_'[c] = state_[c],
           \A call \in Calls, fd \in Fds : at'[d] # <<call, fd>>,
           Range(ready_queue_) \subseteq Range(ready_queue_'),
           UNCHANGED <<waiting, registered>>
    PROVE  UsesInv' /\ LoneWaiterIsHeld'
<1>1. UsesInv'
  BY DEF LoneInv, UsesInv
<1>2. LoneWaiterIsHeld'
  <2> SUFFICES ASSUME NEW c \in Coroutines, NEW call \in Calls, NEW fd \in Fds,
                      Alone(c, call, fd), state_'[c] = "SUSPENDED", at'[c] = <<call, fd>>
               PROVE  \/ waiting'[EventOf(call)][fd] = c /\ EventOf(call) \in registered'[fd]
                      \/ c \in Range(ready_queue_')
    BY DEF LoneWaiterIsHeld, Held, Alone
  <2>1. c # d
    OBVIOUS
  <2> QED
    BY <2>1 DEF LoneInv, LoneWaiterIsHeld, Held
<1> QED
  BY <1>1, <1>2

\* User code and sleep are no waits.
LEMMA NoWaits ==
    ASSUME NEW call, NEW fd PROVE User # <<call, fd>> /\ Sleep # <<call, fd>>
  BY DEF User, Sleep

\* LoneInv is inductive: one step for each action.
LEMMA NextPreservesLone == LoneInv /\ [Next]_vars => LoneInv'
<1> SUFFICES ASSUME LoneInv, [Next]_vars PROVE UsesInv' /\ LoneWaiterIsHeld'
  BY NextPreserves DEF LoneInv
<1>0. SchedulerInv /\ SchedulerInv'
  BY NextPreserves DEF LoneInv
<1>1. ASSUME NEW c \in Coroutines, Yield(c) \/ Finish(c) \/ CoSleep(c)
      PROVE  UsesInv' /\ LoneWaiterIsHeld'
  <2>1. PICK state \in {"SUSPENDED", "DONE"}, where \in {User, Sleep} : Leave(c, state, where)
    BY <1>1 DEF Yield, Finish, CoSleep
  <2>2. UNCHANGED <<ready_queue_, waiting, registered>>
    BY <1>1 DEF Yield, Finish, CoSleep
  <2>3. /\ at'[c] = where
        /\ \A d \in Coroutines : d # c => at'[d] = at[d] /\ state_'[d] = state_[d]
    BY <1>0, <2>1 DEF Leave, SchedulerInv, TypeOK
  <2>4. \A call \in Calls, fd \in Fds : at'[c] # <<call, fd>>
    BY <2>1, <2>3, NoWaits
  <2> QED
    BY <2>2, <2>3, <2>4, QuietStepPreservesLone
<1>2. ASSUME NEW c \in Coroutines, at' = [at EXCEPT ![c] = User],
             UNCHANGED <<state_, ready_queue_, waiting, registered>>
      PROVE  UsesInv' /\ LoneWaiterIsHeld'
  <2>1. /\ at'[c] = User
        /\ \A d \in Coroutines : d # c => at'[d] = at[d] /\ state_'[d] = state_[d]
    BY <1>0, <1>2 DEF SchedulerInv, TypeOK
  <2>2. \A call \in Calls, fd \in Fds : at'[c] # <<call, fd>>
    BY <2>1, NoWaits
  <2> QED
    BY <1>2, <2>1, <2>2, QuietStepPreservesLone
<1>3. ASSUME NEW c \in Coroutines, NEW call \in Calls, NEW fd \in Fds, Calling(c, call, fd)
      PROVE  <<c, call, fd>> \in Uses
  BY <1>3 DEF Calling, LoneInv, UsesInv
<1>4. ASSUME NEW c \in Coroutines, NEW fd \in Fds, Connect(c, fd)
      PROVE  UsesInv' /\ LoneWaiterIsHeld'
  <2>1. CASE at[c] = User
    <3>1. "connect" \in Calls /\ EventOf("connect") = "write"
      BY DEF Calls, EventOf
    <3>2. <<c, "connect", fd>> \in Uses
      BY <1>3, <1>4, <3>1 DEF Connect
    <3> QED
      BY <1>0, <1>4, <2>1, <3>1, <3>2, WaitPreservesLone DEF Connect
  <2>2. CASE at[c] # User
    BY <1>2, <1>4, <2>2 DEF Connect
  <2> QED
    BY <2>1, <2>2
<1>5. ASSUME NEW c \in Coroutines, NEW fd \in Fds, NEW call \in Events, Transfer(c, call, fd)
      PROVE  UsesInv' /\ LoneWaiterIsHeld'
  <2>1. CASE call \in ready[fd]
    BY <1>2, <1>5, <2>1 DEF Transfer
  <2>2. CASE call \notin ready[fd]
    <3>1. call \in Calls /\ EventOf(call) = call
      BY DEF Calls, Events, EventOf
    <3>2. <<c, call, fd>> \in Uses
      BY <1>3, <1>5, <3>1 DEF Transfer
    <3> QED
      BY <1>0, <1>5, <2>2, <3>1, <3>2, WaitPreservesLone DEF Transfer
  <2> QED
    BY <2>1, <2>2
<1>6. ASSUME NEW c \in Coroutines, ready_queue_' = Append(ready_queue_, c),
             state_'[c] # "SUSPENDED" \/ state_'[c] = state_[c],
             \A d \in Coroutines : d # c => state_'[d] = state_[d],
             UNCHANGED <<at, waiting, registered>>
      PROVE  UsesInv' /\ LoneWaiterIsHeld'
  <2>1. \A d \in Range(ready_queue_) : d \in Range(ready_queue_')
    BY <1>0, <1>6, StaysInQueue DEF SchedulerInv, TypeOK
  <2>2. UsesInv'
    BY <1>6 DEF LoneInv, UsesInv
  <2>3. LoneWaiterIsHeld'
    BY <1>6, <2>1 DEF LoneInv, LoneWaiterIsHeld, Held, Alone
  <2> QED
    BY <2>2, <2>3
<1>7. ASSUME NEW c \in Coroutines, CreateCoroutine(c) \/ Schedule(c)
      PROVE  UsesInv' /\ LoneWaiterIsHeld'
  <2>1. /\ ready_queue_' = Append(ready_queue_, c)
        /\ UNCHANGED <<at, waiting, registered>>
    BY <1>7 DEF CreateCoroutine, Schedule
  <2>2. /\ state_'[c] # "SUSPENDED" \/ state_'[c] = state_[c]
        /\ \A d \in Coroutines : d # c => state_'[d] = state_[d]
    BY <1>0, <1>7 DEF CreateCoroutine, Schedule, SchedulerInv, TypeOK
  <2> QED
    BY <1>6, <2>1, <2>2
<1>8. ASSUME Resume PROVE UsesInv' /\ LoneWaiterIsHeld'
  <2> DEFINE d == Head(ready_queue_)
  <2>1. /\ ready_queue_ # <<>> /\ ready_queue_' = Tail(ready_queue_)
        /\ UNCHANGED <<at, waiting, registered>>
    BY <1>8 DEF Resume
  <2>2. d \in Coroutines
    BY <1>0, <2>1, TailPlaces DEF SchedulerInv, TypeOK
  <2>3. \/ state_[d] = "DONE" /\ state_' = state_
        \/ state_' = [state_ EXCEPT ![d] = "RUNNING"]
    BY <1>8 DEF Resume
  <2> HIDE DEF d
  <2>4. state_'[d] # "SUSPENDED" /\ \A c \in Coroutines : c # d => state_'[c] = state_[c]
    BY <1>0, <2>2, <2>3 DEF SchedulerInv, TypeOK
  <2>5. \A c \in Range(ready_queue_) : c # d => c \in Range(ready_queue_')
    BY <1>0, <2>1, <2>2, StaysInQueue DEF SchedulerInv, TypeOK, d
  <2>6. UsesInv'
    BY <2>1 DEF LoneInv, UsesInv
  <2>7. LoneWaiterIsHeld'
    BY <2>1, <2>4, <2>5 DEF LoneInv, LoneWaiterIsHeld, Held, Alone
  <2> QED
    BY <2>6, <2>7
<1>9. ASSUME NEW f \in Fds, OnFdReady(f) PROVE UsesInv' /\ LoneWaiterIsHeld'
  <2> DEFINE event == IF waiting["read"][f] # NoCoroutine THEN "read" ELSE "write"
             d == waiting[event][f]
  <2>1. /\ event \in Events /\ d # NoCoroutine
        /\ waiting' = [waiting EXCEPT ![event][f] = NoCoroutine]
        /\ ready_queue_' = Append(ready_queue_, d)
        /\ UNCHANGED <<state_, at, registered>>
    BY <1>9 DEF OnFdReady, Events
  <2> HIDE DEF event
  <2>2. d \in Coroutines
    BY <1>0, <2>1 DEF SchedulerInv, TypeOK
  <2>3. \A e \in Events, fd \in Fds : e # event \/ fd # f => waiting'[e][fd] = waiting[e][fd]
    BY <1>0, <2>1 DEF SchedulerInv, TypeOK
  <2>4. d \in Range(ready_queue_') /\ \A c \in Range(ready_queue_) : c \in Range(ready_queue_')
    <3>1. ready_queue_ \in Seq(Coroutines)
      BY <1>0 DEF SchedulerInv, TypeOK
    <3>2. Len(ready_queue_) + 1 \in DOMAIN ready_queue_' /\ ready_queue_'[Len(ready_queue_) + 1] = d
      BY <2>1, <2>2, <3>1
    <3> QED
      BY <2>1, <2>2, <3>1, <3>2, StaysInQueue DEF Range
  <2>5. UsesInv'
    BY <2>1 DEF LoneInv, UsesInv
  <2>6. ASSUME NEW c \in Coroutines, NEW call \in Calls, NEW fd \in Fds,
               Alone(c, call, fd), state_'[c] = "SUSPENDED", at'[c] = <<call, fd>>
        PROVE  \/ waiting'[EventOf(call)][fd] = c /\ EventOf(call) \in registered'[fd]
               \/ c \in Range(ready_queue_')
    <3>1. EventOf(call) \in Events
      BY DEF EventOf, Events
    <3>2. \/ waiting[EventOf(call)][fd] = c /\ EventOf(call) \in registered[fd]
          \/ c \in Range(ready_queue_)
      BY <2>1, <2>6 DEF LoneInv, LoneWaiterIsHeld, Held
    <3>3. CASE EventOf(call) = event /\ fd = f
      BY <2>4, <3>2, <3>3
    <3>4. CASE EventOf(call) # event \/ fd # f
      BY <2>1, <2>3, <2>4, <3>1, <3>2, <3>4
    <3> QED
      BY <3>3, <3>4
  <2>7. LoneWaiterIsHeld'
    BY <2>6 DEF LoneWaiterIsHeld, Held, Alone
  <2> QED
    BY <2>5, <2>7
<1>10. ASSUME UNCHANGED <<state_, at, ready_queue_, waiting, registered>>
       PROVE  UsesInv' /\ LoneWaiterIsHeld'
  BY <1>10 DEF LoneInv, UsesInv, LoneWaiterIsHeld, Held, Alone
<1>11. ASSUME \/ BeginTick \/ EndTick \/ UNCHANGED vars
              \/ \E fd \in Fds, event \in Events : BecomeReady(fd, event)
       PROVE  UNCHANGED <<state_, at, ready_queue_, waiting, registered>>
  BY <1>11 DEF BeginTick, EndTick, vars, BecomeReady
<1> QED
  BY <1>1, <1>4, <1>5, <1>7, <1>8, <1>9, <1>10, <1>11 DEF Next, Running

\* The initial state.
LEMMA InitEstablishesLone == Init => LoneInv
<1> SUFFICES ASSUME Init PROVE UsesInv /\ LoneWaiterIsHeld
  BY InitEstablishes DEF LoneInv
<1>1. \A c \in Coroutines, call \in Calls, fd \in Fds : at[c] # <<call, fd>>
  BY NoWaits DEF Init
<1>2. \A fd \in Fds : registered[fd] = {}
  BY DEF Init
<1> QED
  BY <1>1, <1>2 DEF UsesInv, LoneWaiterIsHeld, Held

\* A coroutine with a descriptor of its own is never lost: while it is suspended
\* in a call it is queued, or it is in the table and its Channel watches for its
\* event (wait_for_read(), wait_for_write(), on_fd_ready(), tick()), whatever
\* the other coroutines do to each other.
THEOREM LoneWaitersAreHeld == Spec => []LoneWaiterIsHeld
  BY InitEstablishesLone, NextPreservesLone, PTL DEF Spec, LoneInv

-----------------------------------------------------------------------------
(* The event a lone waiter wakes up for.  on_fd_ready() is called for its  *)
(* descriptor when some event the Channel watches for is there; as nobody  *)
(* else uses the descriptor this is its own event, and only the waiter     *)
(* itself can take it away.                                                *)

\* Who is in a queue that has grown by y, or lost its head.
LEMMA WasInQueue ==
    ASSUME NEW S, NEW s \in Seq(S), NEW y \in S, NEW x
    PROVE  /\ x \in Range(Append(s, y)) => x = y \/ x \in Range(s)
           /\ s # <<>> => Head(s) \in Range(s)
           /\ s # <<>> /\ x \in Range(Tail(s)) => x \in Range(s)
<1>1. x \in Range(Append(s, y)) => x = y \/ x \in Range(s)
  BY AppendPlaces DEF Range
<1>2. s # <<>> => Head(s) \in Range(s)
  BY TailPlaces DEF Range
<1>3. s # <<>> /\ x \in Range(Tail(s)) => x \in Range(s)
  BY TailPlaces DEF Range
<1> QED
  BY <1>1, <1>2, <1>3

\* A step that brings no coroutine that is in a call to the queue or to run, and
\* takes no event away from one that is there.
LEMMA QuietStepPreservesWakes ==
    ASSUME LoneWaiterWakesReady, careless \subseteq careless',
           \A c \in Coroutines \ careless', call \in Calls, fd \in Fds :
               /\ at'[c] = <<call, fd>>
               /\ c \in Range(ready_queue_') \/ state_'[c] = "RUNNING"
               => /\ at[c] = <<call, fd>>
                  /\ c \in Range(ready_queue_) \/ state_[c] = "RUNNING"
                  /\ Alone(c, call, fd) /\ EventOf(call) \in ready[fd] => EventOf(call) \in ready'[fd]
    PROVE  LoneWaiterWakesReady'
  BY DEF LoneWaiterWakesReady, Alone

\* The property is inductive on top of LoneInv: one step for each action.
LEMMA NextPreservesWakes ==
    LoneInv /\ LoneWaiterWakesReady /\ [Next]_vars => LoneWaiterWakesReady'
<1> SUFFICES ASSUME LoneInv, LoneWaiterWakesReady, [Next]_vars PROVE LoneWaiterWakesReady'
  OBVIOUS
<1>0. SchedulerInv /\ TypeOK
  BY DEF LoneInv, SchedulerInv
<1>1. ASSUME NEW d \in Coroutines, NEW state \in {"SUSPENDED", "DONE"}, NEW where,
             Leave(d, state, where), careless \subseteq careless',
             d \in Range(ready_queue_) /\ d \notin careless' => where \notin Waits,
             UNCHANGED <<ready_queue_, ready>>
      PROVE  LoneWaiterWakesReady'
  <2>1. /\ at'[d] = where /\ state_'[d] = state
        /\ \A c \in Coroutines : c # d => at'[c] = at[c] /\ state_'[c] = state_[c]
    BY <1>0, <1>1 DEF Leave, TypeOK
  <2>2. \A call \in Calls, fd \in Fds : <<call, fd>> \in Waits
    BY DEF Waits
  <2>3. ASSUME NEW c \in Coroutines \ careless', NEW call \in Calls, NEW fd \in Fds,
               at'[c] = <<call, fd>>, c \in Range(ready_queue_') \/ state_'[c] = "RUNNING"
        PROVE  c # d
    <3>1. ASSUME c = d PROVE FALSE
      <4>1. where \in Waits
        BY <2>1, <2>2, <2>3, <3>1
      <4>2. state_'[d] # "RUNNING"
        BY <2>1
      <4> QED
        BY <1>1, <2>3, <3>1, <4>1, <4>2
    <3> QED
      BY <3>1
  <2> QED
    BY <1>1, <2>1, <2>3, QuietStepPreservesWakes
<1>2. ASSUME NEW d \in Coroutines, Yield(d) \/ Finish(d) \/ CoSleep(d)
      PROVE  LoneWaiterWakesReady'
  <2>1. User \notin Waits /\ Sleep \notin Waits
    BY DEF User, Sleep, Waits
  <2>2. /\ \/ Leave(d, "SUSPENDED", User) \/ Leave(d, "DONE", User)
           \/ Leave(d, "SUSPENDED", Sleep)
        /\ UNCHANGED <<ready_queue_, ready, careless>>
    BY <1>2 DEF Yield, Finish, CoSleep
  <2> QED
    BY <1>1, <2>1, <2>2
<1>3. ASSUME NEW d \in Coroutines, NEW e, NEW fd, NEW where, WaitFor(d, e, fd),
             Leave(d, "SUSPENDED", where), UNCHANGED <<ready_queue_, ready>>
      PROVE  LoneWaiterWakesReady'
  <2>1. careless \subseteq careless' /\ (d \in Range(ready_queue_) => d \in careless')
    BY <1>3 DEF WaitFor, EntersWait
  <2> QED
    BY <1>1, <1>3, <2>1
<1>4. ASSUME NEW d \in Coroutines, NEW fd2 \in Fds, Connect(d, fd2)
      PROVE  LoneWaiterWakesReady'
  <2>1. CASE at[d] = User
    BY <1>3, <1>4, <2>1 DEF Connect
  <2>2. CASE at[d] # User
    <3>1. /\ at' = [at EXCEPT ![d] = User]
          /\ UNCHANGED <<state_, ready_queue_, ready, careless>>
      BY <1>4, <2>2 DEF Connect
    <3>2. at'[d] = User /\ \A c \in Coroutines : c # d => at'[c] = at[c]
      BY <1>0, <3>1 DEF TypeOK
    <3> QED
      BY <3>1, <3>2, NoWaits, QuietStepPreservesWakes
  <2> QED
    BY <2>1, <2>2
<1>5. ASSUME NEW d \in Coroutines, NEW fd2 \in Fds, NEW call2 \in Events, Transfer(d, call2, fd2)
      PROVE  LoneWaiterWakesReady'
  <2>1. CASE call2 \notin ready[fd2]
    BY <1>3, <1>5, <2>1 DEF Transfer
  <2>2. CASE call2 \in ready[fd2]
    <3>1. /\ at' = [at EXCEPT ![d] = User]
          /\ ready' \in {ready, [ready EXCEPT ![fd2] = @ \ {call2}]}
          /\ UNCHANGED <<state_, ready_queue_, careless>>
      BY <1>5, <2>2 DEF Transfer
    <3>2. at'[d] = User /\ \A c \in Coroutines : c # d => at'[c] = at[c]
      BY <1>0, <3>1 DEF TypeOK
    <3>3. \A fd \in Fds : fd # fd2 => ready'[fd] = ready[fd]
      BY <1>0, <3>1 DEF TypeOK
    <3>4. <<d, call2, fd2>> \in Uses
      BY <1>5 DEF Transfer, Calling, LoneInv, UsesInv, Calls, Events
    <3>5. \A c \in Coroutines, call \in Calls, fd \in Fds :
             at'[c] = <<call, fd>> => c # d /\ at[c] = <<call, fd>>
      BY <3>2, NoWaits
    <3>6. \A c \in Coroutines, call \in Calls, fd \in Fds :
             c # d /\ Alone(c, call, fd) => fd # fd2
      BY <3>4, AloneExcludes
    <3> QED
      BY <3>1, <3>3, <3>5, <3>6, QuietStepPreservesWakes
  <2> QED
    BY <2>1, <2>2
<1>6. ASSUME NEW d \in Coroutines, CreateCoroutine(d) \/ Schedule(d)
      PROVE  LoneWaiterWakesReady'
  <2>1. /\ ready_queue_' = Append(ready_queue_, d)
        /\ UNCHANGED <<at, ready>>
        /\ careless \subseteq careless'
    BY <1>6 DEF CreateCoroutine, Schedule
  <2>2. d \notin careless' => at[d] \notin Waits
    <3>1. CASE CreateCoroutine(d)
      BY <1>0, <3>1, NoWaits DEF CreateCoroutine, SchedulerInv, CreatedInv, Waits, User
    <3>2. CASE Schedule(d)
      BY <3>2 DEF Schedule, Misplaced
    <3> QED
      BY <1>6, <3>1, <3>2
  <2>3. \A c \in Coroutines : c # d => state_'[c] = state_[c]
    BY <1>0, <1>6 DEF CreateCoroutine, Schedule, TypeOK
  <2>4. \A c \in Coroutines : c # d /\ c \in Range(ready_queue_') => c \in Range(ready_queue_)
    BY <1>0, <2>1, WasInQueue DEF TypeOK
  <2>5. \A call \in Calls, fd \in Fds : <<call, fd>> \in Waits
    BY DEF Waits
  <2> QED
    BY <2>1, <2>2, <2>3, <2>4, <2>5, QuietStepPreservesWakes
<1>7. ASSUME Resume PROVE LoneWaiterWakesReady'
  <2> DEFINE d == Head(ready_queue_)
  <2>1. /\ ready_queue_ # <<>> /\ ready_queue_' = Tail(ready_queue_)
        /\ UNCHANGED <<at, ready, careless>>
    BY <1>7 DEF Resume
  <2>2. d \in Coroutines /\ d \in Range(ready_queue_)
    BY <1>0, <2>1, TailPlaces, WasInQueue DEF TypeOK
  <2>3. state_' = state_ \/ state_' = [state_ EXCEPT ![d] = "RUNNING"]
    BY <1>7 DEF Resume
  <2>4. \A c \in Coroutines : c \in Range(ready_queue_') => c \in Range(ready_queue_)
    BY <1>0, <2>1, <2>2, WasInQueue DEF TypeOK
  <2> HIDE DEF d
  <2>5. \A c \in Coroutines : c # d => state_'[c] = state_[c]
    BY <1>0, <2>2, <2>3 DEF TypeOK
  <2> QED
    BY <2>1, <2>2, <2>4, <2>5, QuietStepPreservesWakes
<1>8. ASSUME NEW f \in Fds, OnFdReady(f) PROVE LoneWaiterWakesReady'
  <2> DEFINE event == IF waiting["read"][f] # NoCoroutine THEN "read" ELSE "write"
             d == waiting[event][f]
  <2>1. /\ event \in Events /\ d # NoCoroutine
        /\ ready[f] \cap registered[f] # {}
        /\ ready_queue_' = Append(ready_queue_, d)
        /\ UNCHANGED <<state_, at, ready, careless>>
    BY <1>8 DEF OnFdReady, Events
  <2> HIDE DEF event
  <2>2. d \in Coroutines
    BY <1>0, <2>1 DEF TypeOK
  <2>3. \A c \in Coroutines : c # d /\ c \in Range(ready_queue_') => c \in Range(ready_queue_)
    BY <1>0, <2>1, <2>2, WasInQueue DEF TypeOK
  <2>4. ASSUME d \notin careless, NEW call \in Calls, NEW fd \in Fds,
               Alone(d, call, fd), at[d] = <<call, fd>>
        PROVE  EventOf(call) \in ready[fd]
    <3>1. WaitsFor(at[d], event, f)
      BY <1>0, <2>1, <2>2, <2>4, TableEntry
    <3>2. fd = f
      BY <2>4, <3>1, CallWaits, WaitsAreDistinct
    <3>3. PICK e : e \in ready[f] /\ e \in registered[f]
      BY <2>1
    <3>4. e = EventOf(call)
      BY <2>4, <3>2, <3>3, AloneRegistered DEF LoneInv
    <3> QED
      BY <3>2, <3>3, <3>4
  <2> HIDE DEF d
  <2> SUFFICES ASSUME NEW c \in Coroutines \ careless, NEW call \in Calls, NEW fd \in Fds,
                      Alone(c, call, fd), at[c] = <<call, fd>>,
                      c \in Range(ready_queue_') \/ state_[c] = "RUNNING"
               PROVE  EventOf(call) \in ready[fd]
    BY <2>1 DEF LoneWaiterWakesReady, Alone
  <2> QED
    BY <2>3, <2>4 DEF LoneWaiterWakesReady
<1>9. ASSUME NEW f \in Fds, NEW event \in Events, BecomeReady(f, event)
      PROVE  LoneWaiterWakesReady'
  <2>1. \A fd \in Fds : ready[fd] \subseteq ready'[fd]
    BY <1>0, <1>9 DEF BecomeReady, TypeOK
  <2> QED
    BY <1>9, <2>1, QuietStepPreservesWakes DEF BecomeReady
<1>10. ASSUME BeginTick \/ EndTick \/ UNCHANGED vars PROVE LoneWaiterWakesReady'
  <2>1. UNCHANGED <<state_, at, ready_queue_, ready, careless>>
    BY <1>10 DEF BeginTick, EndTick, vars
  <2> QED
    BY <2>1, QuietStepPreservesWakes
<1> QED
  BY <1>2, <1>4, <1>5, <1>6, <1>7, <1>8, <1>9, <1>10 DEF Next, Running

\* A coroutine with a descriptor of its own, for which schedule() is not misused,
\* goes on in co_read(), co_write() or co_connect() only when the event it waited
\* for is there (wait_for_read(), wait_for_write(), on_fd_ready(), tick()).
THEOREM LoneWaitersWakeReady == Spec => []LoneWaiterWakesReady
<1>1. Init => LoneInv /\ LoneWaiterWakesReady
  <2> SUFFICES ASSUME Init PROVE LoneInv /\ LoneWaiterWakesReady
    OBVIOUS
  <2>1. \A c \in Coroutines, call \in Calls, fd \in Fds : at[c] # <<call, fd>>
    BY NoWaits DEF Init
  <2> QED
    BY <2>1, InitEstablishesLone DEF LoneWaiterWakesReady
<1> QED
  BY <1>1, NextPreservesLone, NextPreservesWakes, PTL DEF Spec

=============================================================================
