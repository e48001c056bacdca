----------------------------- MODULE HttpServer ----------------------------
(***************************************************************************)
(* The life of HTTP connections: HttpServer (http/http_server.cpp) with    *)
(* the Channels, the SelectPoller and the iteration of EventLoop it runs   *)
(* on.  The subject is ownership: a Connection owns a socket and a Channel,*)
(* the poller and the list of active channels hold raw pointers to         *)
(* Channels, deferred deletions and idle timers name a connection by its   *)
(* descriptor or by a raw pointer, and the kernel reuses descriptors.      *)
(*                                                                         *)
(* A Channel object (with the Connection it is a member of) is an          *)
(* identifier that is never reused; a descriptor is reused as soon as it   *)
(* is closed.  Everything runs on the loop thread; a step is one callback, *)
(* one task, or one call of poll().  What the peer sends, how a request    *)
(* parses and whether a write succeeds are nondeterministic.  The idle     *)
(* timer is armed and cancelled but does not expire: tick() fires nothing  *)
(* (module TimerWheel).                                                    *)
(***************************************************************************)
EXTENDS Integers, Sequences, FiniteSets, Functions

CONSTANTS
    Fds,            \* descriptors the kernel may hand out
    MaxChannels,    \* bound on the Channel objects ever created
    MaxUserTasks    \* bound on start()/stop() calls made through the loop

ASSUME BoundAssumption == MaxChannels \in Nat /\ MaxUserTasks \in Nat

VARIABLES
    alive,              \* the HttpServer has not been destroyed
    running_,           \* HttpServer::running_
    listen_channel_,    \* HttpServer::listen_channel_, 0 when null
    connections_,       \* HttpServer::connections_: descriptor -> Channel
    chan,               \* the live Channel objects, with their owner's fields
    channels_,          \* SelectPoller::channels_: descriptor -> Channel*
    channel_list_,      \* SelectPoller::channel_list_: Channel*s in order
    open,               \* descriptors open in the kernel
    armed,              \* idle timers in the wheel, per Channel
    pending_tasks_,     \* EventLoop::pending_tasks_
    phase,              \* where the loop thread is, see Phases
    active,             \* active_channels not yet handled, with revents
    tasks,              \* what is left of do_pending_tasks()'s batch
    current,            \* the Channel in handle_event(), 0 if none
    callbacks,          \* callbacks handle_event() has still to make
    created,            \* number of Channel objects created so far
    userTasks           \* number of start()/stop() tasks queued so far

serverVars == <<alive, running_, listen_channel_, connections_, chan, armed, created>>
pollerVars == <<channels_, channel_list_>>
loopVars == <<phase, active, tasks, current, callbacks>>
vars == <<serverVars, pollerVars, loopVars, open, pending_tasks_, userTasks>>

Ids == 1..MaxChannels

\* "setup": before loop(); "poll", "dispatch", "tasks": inside it; "returned":
\* after it.
Phases == {"setup", "poll", "dispatch", "tasks", "returned"}

\* fd_, events_ of the Channel; closed of the Connection (FALSE for listening).
Channel == [fd : Fds, events : SUBSET {"read"}, closed : BOOLEAN]
Event == [id : Ids, revents : SUBSET {"read", "error"}]
\* An erase carries, beside the descriptor the code captures, the object the
\* code means (history).
Task == [kind : {"erase"}, fd : Fds, id : Ids] \cup [kind : {"start", "stop"}]

Put(f, x, v) == [y \in DOMAIN f \cup {x} |-> IF y = x THEN v ELSE f[y]]
Drop(f, S) == Restrict(f, DOMAIN f \ S)

\* std::remove() and erase() on a vector: s without the elements of S.
Removed(s, S) ==
    LET kept[i \in 0..Len(s)] ==
            IF i = 0 THEN <<>>
            ELSE IF s[i] \in S THEN kept[i - 1]
            ELSE Append(kept[i - 1], s[i])
    IN  kept[Len(s)]

-----------------------------------------------------------------------------
(* SelectPoller, called through Channel::update() and Channel::remove().   *)

\* update_channel(): the first Channel of a descriptor is registered, later
\* calls for the descriptor change nothing.
UpdateChannel(c, fd) ==
    IF fd \in DOMAIN channels_ THEN UNCHANGED pollerVars
    ELSE /\ channels_' = Put(channels_, fd, c)
         /\ channel_list_' = Append(channel_list_, c)

\* Wrong on purpose: the entry of the map goes, the pointer in the list stays.
RemoveChannelsMapOnly(cs) ==
    /\ channels_' = Drop(channels_, {chan[c].fd : c \in cs})
    /\ UNCHANGED channel_list_

\* remove_channel() for each of cs, which have different descriptors: the
\* entry of the descriptor leaves the map, the pointer leaves the list.
RemoveChannels(cs) ==
    LET found == {c \in cs : chan[c].fd \in DOMAIN channels_}
    IN  /\ channels_' = Drop(channels_, {chan[c].fd : c \in found})
        /\ channel_list_' = Removed(channel_list_, found)

-----------------------------------------------------------------------------
(* Starting and stopping.                                                  *)

Init ==
    /\ alive = TRUE
    /\ running_ = FALSE
    /\ listen_channel_ = 0
    /\ connections_ = <<>>
    /\ chan = <<>>
    /\ channels_ = <<>>
    /\ channel_list_ = <<>>
    /\ open = {}
    /\ armed = [c \in Ids |-> 0]
    /\ pending_tasks_ = <<>>
    /\ phase = "setup"
    /\ active = <<>>
    /\ tasks = <<>>
    /\ current = 0
    /\ callbacks = <<>>
    /\ created = 0
    /\ userTasks = 0

\* start(): socket(), a listening Channel, enable_reading().  Failures abort
\* the process (LOG_FATAL).
StartServer ==
    IF running_ THEN UNCHANGED <<serverVars, pollerVars, open>>
    ELSE /\ created < MaxChannels
         /\ \E fd \in Fds \ open :
               /\ open' = open \cup {fd}
               /\ chan' = Put(chan, created + 1,
                              [fd |-> fd, events |-> {"read"}, closed |-> FALSE])
               /\ UpdateChannel(created + 1, fd)
         /\ created' = created + 1
         /\ listen_channel_' = created + 1
         /\ running_' = TRUE
         /\ UNCHANGED <<alive, connections_, armed>>

\* stop(): every connection's timer is cancelled, its socket closed and the
\* Connection destroyed, which takes its Channel out of the poller; then the
\* same for the listening Channel and socket.
StopServer ==
    IF ~running_
    THEN UNCHANGED <<running_, listen_channel_, connections_, chan, armed, created,
                     pollerVars, open>>
    ELSE LET gone == Range(connections_) \cup {listen_channel_}
         IN  /\ running_' = FALSE
             /\ armed' = [c \in Ids |-> IF c \in gone THEN 0 ELSE armed[c]]
             /\ open' = open \ {chan[c].fd : c \in gone}
             /\ RemoveChannels(gone)
             /\ chan' = Drop(chan, gone)
             /\ connections_' = <<>>
             /\ listen_channel_' = 0
             /\ UNCHANGED created

\* The program calls start() and enters loop().
Start ==
    /\ phase = "setup"
    /\ StartServer
    /\ phase' = "poll"
    /\ UNCHANGED <<active, tasks, current, callbacks, pending_tasks_, userTasks>>

\* ~HttpServer(): stop().  The program destroys the server on the loop thread
\* when loop() has returned, as the example does, and when it has itself no call
\* of it queued.
Destroy ==
    /\ phase = "returned"
    /\ alive
    /\ \A i \in DOMAIN pending_tasks_ : pending_tasks_[i].kind = "erase"
    /\ alive' = FALSE
    /\ StopServer
    /\ UNCHANGED <<loopVars, pending_tasks_, userTasks>>

\* Another part of the program hands the loop a call of start() or stop().
QueueUserTask(kind) ==
    /\ phase # "setup"
    /\ alive
    /\ userTasks < MaxUserTasks
    /\ userTasks' = userTasks + 1
    /\ pending_tasks_' = Append(pending_tasks_, [kind |-> kind])
    /\ UNCHANGED <<serverVars, pollerVars, loopVars, open>>

-----------------------------------------------------------------------------
(* The iteration of the loop.                                              *)

\* poll(): some registered Channels are active, in the order of the list, an
\* error (exceptional condition) being watched for always and reading on
\* request.  None is active when poll() returns for the wakeup descriptor,
\* for a timeout or with an error.
Poll ==
    /\ phase = "poll"
    /\ \E revents \in [Range(channel_list_) -> SUBSET {"read", "error"}] :
        /\ \A c \in DOMAIN revents : "read" \in revents[c] => "read" \in chan[c].events
        /\ LET ready == Removed(channel_list_, {c \in DOMAIN revents : revents[c] = {}})
           IN  active' = [i \in 1..Len(ready) |->
                             [id |-> ready[i], revents |-> revents[ready[i]]]]
    /\ phase' = "dispatch"
    /\ UNCHANGED <<serverVars, pollerVars, open, tasks, current, callbacks,
                   pending_tasks_, userTasks>>

\* Channel::handle_event() of the next active Channel: error callback when
\* there is nothing to read, close callback, read callback, in this order.
HandleEvent ==
    /\ phase = "dispatch"
    /\ current = 0
    /\ active # <<>>
    /\ LET e == Head(active)
           error == "error" \in e.revents
           read == "read" \in e.revents
       IN  /\ current' = e.id
           /\ callbacks' = (IF error /\ ~read THEN <<"close">> ELSE <<>>)
                           \o (IF error THEN <<"close">> ELSE <<>>)
                           \o (IF read THEN <<"read">> ELSE <<>>)
    /\ active' = Tail(active)
    /\ UNCHANGED <<serverVars, pollerVars, open, phase, tasks, pending_tasks_, userTasks>>

EndEvent ==
    /\ current # 0
    /\ callbacks = <<>>
    /\ current' = 0
    /\ UNCHANGED <<serverVars, pollerVars, open, phase, active, tasks, callbacks,
                   pending_tasks_, userTasks>>

Callback(kind) ==
    /\ current # 0
    /\ callbacks # <<>>
    /\ Head(callbacks) = kind
    /\ callbacks' = Tail(callbacks)
    /\ UNCHANGED <<phase, active, tasks, current, userTasks>>

\* Wrong on purpose: one task for each iteration.
BeginTasksOne ==
    /\ phase = "dispatch"
    /\ current = 0
    /\ active = <<>>
    /\ IF pending_tasks_ = <<>> THEN UNCHANGED <<tasks, pending_tasks_>>
       ELSE /\ tasks' = <<Head(pending_tasks_)>>
            /\ pending_tasks_' = Tail(pending_tasks_)
    /\ phase' = "tasks"
    /\ UNCHANGED <<serverVars, pollerVars, open, active, current, callbacks, userTasks>>

\* do_pending_tasks(): the batch is what was queued up to now.
BeginTasks ==
    /\ phase = "dispatch"
    /\ current = 0
    /\ active = <<>>
    /\ tasks' = pending_tasks_
    /\ pending_tasks_' = <<>>
    /\ phase' = "tasks"
    /\ UNCHANGED <<serverVars, pollerVars, open, active, current, callbacks, userTasks>>

RunTask(kind) ==
    /\ phase = "tasks"
    /\ tasks # <<>>
    /\ Head(tasks).kind = kind
    /\ tasks' = Tail(tasks)
    /\ UNCHANGED <<phase, active, current, callbacks, pending_tasks_, userTasks>>

EndTasks ==
    /\ phase = "tasks"
    /\ tasks = <<>>
    /\ phase' = "poll"
    /\ UNCHANGED <<serverVars, pollerVars, open, active, tasks, current, callbacks,
                   pending_tasks_, userTasks>>

\* while (!quit_): quit() has been called some time during the iteration.  The
\* program may call loop() again.
LoopReturns ==
    /\ phase = "tasks"
    /\ tasks = <<>>
    /\ phase' = "returned"
    /\ UNCHANGED <<serverVars, pollerVars, open, active, tasks, current, callbacks,
                   pending_tasks_, userTasks>>

LoopAgain ==
    /\ phase = "returned"
    /\ phase' = "poll"
    /\ UNCHANGED <<serverVars, pollerVars, open, active, tasks, current, callbacks,
                   pending_tasks_, userTasks>>

-----------------------------------------------------------------------------
(* The handlers of HttpServer.                                             *)

\* Wrong on purpose: a timer that is not found is counted as removed.
CancelTimerAlways(timers, c) == [timers EXCEPT ![c] = @ - 1]

\* cancel_timer(timeout_timer); a stale identifier is not found.
CancelTimer(timers, c) == [timers EXCEPT ![c] = IF @ > 0 THEN @ - 1 ELSE 0]

\* refresh_timeout(): cancel the old timer, arm a new one.
RefreshTimeout(timers, c) == [CancelTimer(timers, c) EXCEPT ![c] = @ + 1]

\* The connection a callback that captured fd finds, if it is still open.
IsOpen(fd) == fd \in DOMAIN connections_ /\ ~chan[connections_[fd]].closed

\* Wrong on purpose: the connection is destroyed inside its own callback.
CloseConnectionNow(fd, timers) ==
    LET c == connections_[fd]
    IN  /\ chan' = Drop(chan, {c})
        /\ armed' = CancelTimer(timers, c)
        /\ RemoveChannels({c})
        /\ open' = open \ {fd}
        /\ connections_' = Drop(connections_, {fd})
        /\ UNCHANGED <<alive, running_, listen_channel_, created, pending_tasks_>>

\* The rest of on_close(), for an open connection: marked closed, its timer
\* cancelled, its Channel disabled but still registered, its deletion queued.
CloseConnection(fd, timers) ==
    LET c == connections_[fd]
    IN  /\ chan' = [chan EXCEPT ![c].closed = TRUE, ![c].events = {}]
        /\ armed' = CancelTimer(timers, c)
        /\ UpdateChannel(c, fd)
        /\ pending_tasks_' = Append(pending_tasks_, [kind |-> "erase", fd |-> fd, id |-> c])
        /\ UNCHANGED <<alive, running_, listen_channel_, connections_, created, open>>

NoChange == UNCHANGED <<serverVars, pollerVars, open, pending_tasks_>>

\* The close and error callbacks of a connection: on_close(fd).  The listening
\* Channel has neither.
OnClose ==
    /\ Callback("close")
    /\ LET fd == chan[current].fd
       IN  IF current # listen_channel_ /\ IsOpen(fd)
           THEN CloseConnection(fd, armed)
           ELSE NoChange

\* on_accept(): nothing to accept, or a connection on a free descriptor.  The
\* bound leaves enough objects for the calls of start() still to come.
OnAccept ==
    /\ current = listen_channel_
    /\ Callback("read")
    /\ \/ NoChange
       \/ /\ created + MaxUserTasks < MaxChannels
          /\ \E fd \in Fds \ open :
                /\ open' = open \cup {fd}
                /\ chan' = Put(chan, created + 1,
                               [fd |-> fd, events |-> {"read"}, closed |-> FALSE])
                /\ UpdateChannel(created + 1, fd)
                /\ connections_' = Put(connections_, fd, created + 1)
          /\ created' = created + 1
          /\ armed' = RefreshTimeout(armed, created + 1)
          /\ UNCHANGED <<alive, running_, listen_channel_, pending_tasks_>>

\* Wrong on purpose: the test of closed is missing.
OnMessageIgnoresClosed ==
    /\ current # listen_channel_
    /\ Callback("read")
    /\ LET fd == chan[current].fd
       IN  \/ /\ fd \notin DOMAIN connections_
              /\ NoChange
           \/ /\ fd \in DOMAIN connections_
              /\ armed' = RefreshTimeout(armed, connections_[fd])
              /\ UNCHANGED <<alive, running_, listen_channel_, connections_, chan, created,
                             pollerVars, open, pending_tasks_>>
           \/ IsOpen(fd) /\ CloseConnection(fd, armed)

\* on_message(): return at once for a connection that is gone or closed; close
\* on end of file and on any failed read; after data, refresh the timer and
\* handle the requests, which closes the connection on a parse error or a
\* failed write and otherwise leaves it open.
OnMessage ==
    /\ current # listen_channel_
    /\ Callback("read")
    /\ LET fd == chan[current].fd
       IN  \/ /\ ~IsOpen(fd)
              /\ NoChange
           \/ /\ IsOpen(fd)
              /\ CloseConnection(fd, armed)
           \/ /\ IsOpen(fd)
              /\ armed' = RefreshTimeout(armed, connections_[fd])
              /\ UNCHANGED <<alive, running_, listen_channel_, connections_, chan, created,
                             pollerVars, open, pending_tasks_>>
           \/ /\ IsOpen(fd)
              /\ CloseConnection(fd, RefreshTimeout(armed, connections_[fd]))

\* The task on_close() queued: connections_.erase(fd).  The Connection found
\* under the descriptor is destroyed: its Channel leaves the poller, then its
\* socket is closed.
Erase ==
    /\ RunTask("erase")
    /\ LET fd == Head(tasks).fd
       IN  IF fd \in DOMAIN connections_
           THEN /\ RemoveChannels({connections_[fd]})
                /\ chan' = Drop(chan, {connections_[fd]})
                /\ open' = open \ {fd}
                /\ connections_' = Drop(connections_, {fd})
                /\ UNCHANGED <<alive, running_, listen_channel_, armed, created>>
           ELSE UNCHANGED <<serverVars, pollerVars, open>>

StartTask == RunTask("start") /\ StartServer

StopTask == RunTask("stop") /\ StopServer /\ UNCHANGED alive

Next ==
    \/ Start
    \/ \E kind \in {"start", "stop"} : QueueUserTask(kind)
    \/ Poll \/ HandleEvent \/ EndEvent
    \/ OnClose \/ OnAccept \/ OnMessage
    \/ BeginTasks \/ Erase \/ StartTask \/ StopTask \/ EndTasks
    \/ LoopReturns \/ LoopAgain \/ Destroy

Spec == Init /\ [][Next]_vars

-----------------------------------------------------------------------------
(* Properties.                                                             *)

Connections == Range(connections_)
Live == DOMAIN chan

\* The server, the poller and the loop have their types.
TypeOK ==
    /\ alive \in BOOLEAN /\ running_ \in BOOLEAN
    /\ listen_channel_ \in Ids \cup {0}
    /\ DOMAIN connections_ \subseteq Fds /\ Connections \subseteq Ids
    /\ Live \subseteq Ids /\ Range(chan) \subseteq Channel
    /\ DOMAIN channels_ \subseteq Fds /\ Range(channels_) \subseteq Ids
    /\ channel_list_ \in Seq(Ids)
    /\ open \subseteq Fds
    /\ armed \in [Ids -> Nat]
    /\ pending_tasks_ \in Seq(Task)
    /\ phase \in Phases
    /\ active \in Seq(Event)
    /\ tasks \in Seq(Task)
    /\ current \in Ids \cup {0}
    /\ callbacks \in Seq({"close", "read"})
    /\ created \in 0..MaxChannels
    /\ userTasks \in 0..MaxUserTasks

\* No dangling Channel*: the Channel whose callbacks are being made ("Must not
\* be in the middle of handle_event when destroyed", channel.cpp), what the
\* poller holds and what is left of the list of active channels are live
\* objects, so that a callback that closes, accepts or replaces connections
\* leaves itself and the rest of the iteration intact.
NoDanglingChannel ==
    /\ current # 0 => current \in Live
    /\ Range(channel_list_) \cup Range(channels_) \subseteq Live
    /\ \A i \in DOMAIN active : active[i].id \in Live

\* Whenever select() is called, the descriptors it is given are open and are
\* those of the listening socket and of every connection, each of them under
\* its own Channel: none is closed (EBADF), none is forgotten.  A connection
\* that has been closed does not outlive the iteration it was closed in.
PollsExactlyTheOpenSockets ==
    phase = "poll" =>
        /\ \A c \in Connections : ~chan[c].closed
        /\ DOMAIN channels_ = open
        /\ \A fd \in open : channels_[fd] \in Live /\ chan[channels_[fd]].fd = fd
        /\ Range(channels_) = Range(channel_list_)
        /\ Range(channels_) = Connections \cup ({listen_channel_} \ {0})

\* A deferred deletion destroys the connection that was closed, not another
\* that the kernel has given the same descriptor meanwhile; and the server it
\* captured is there: none is left behind when loop() returns and the server is
\* destroyed.
EraseHitsItsConnection ==
    \A queue \in {pending_tasks_, tasks} : \A i \in DOMAIN queue :
        LET task == queue[i]
        IN  task.kind = "erase" =>
                /\ alive
                /\ task.fd \in DOMAIN connections_ =>
                       connections_[task.fd] = task.id /\ chan[task.id].closed

\* Every open connection has exactly one idle timer in the wheel, and no timer
\* holds a pointer to a connection that is closed or destroyed.
TimersBelongToOpenConnections ==
    \A c \in Ids :
        armed[c] = IF c \in Connections /\ ~chan[c].closed THEN 1 ELSE 0

=============================================================================
