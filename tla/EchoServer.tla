----------------------------- MODULE EchoServer ----------------------------
(***************************************************************************)
(* The reactor echo server (examples/echo_server_reactor.cpp) on the       *)
(* sockets of io/socket.cpp: what the clients of a byte stream get back,   *)
(* and the life of the connections, which differs from HttpServer's:       *)
(* on_close() queues a deletion every time it is called, so that one event *)
(* may queue two.                                                          *)
(*                                                                         *)
(* The bytes a client sends are numbered from 1.  A read takes what has    *)
(* arrived, up to the size of the handler's array; a write may take less   *)
(* than it is given.  The poller is the map of the Channel registered for  *)
(* each descriptor, 0 being the listening Channel, whose descriptor is not *)
(* among Fds.  Everything runs on the loop thread and the program makes no *)
(* calls of its own: a step is a poll(), a Channel's handle_event() or a   *)
(* batch of tasks.  The idle timer is armed and cancelled but does not     *)
(* expire (module TimerWheel).                                             *)
(***************************************************************************)
EXTENDS Integers, Sequences, Functions

CONSTANTS
    Fds,                \* descriptors accept() may return
    MaxConnections,     \* bound on the connections ever accepted
    MaxBytes,           \* bounds on the bytes a client sends, per connection
    kReadSize           \* what one read() takes at most (4095)

ASSUME EchoAssumption ==
    /\ MaxConnections \in Nat
    /\ MaxBytes \in [1..MaxConnections -> Nat]
    /\ kReadSize \in Nat \ {0}

VARIABLES
    connections_,       \* EchoServer::connections_: descriptor -> Connection*
    conn,               \* the live Connection objects, with their Channels
    watched,            \* SelectPoller::channels_: descriptor -> Channel*
    armed,              \* idle timers in the wheel, per connection
    pending_tasks_,     \* EventLoop::pending_tasks_: deletions
    phase,              \* "poll" or "dispatch"
    active,             \* Channels poll() returned, not yet handled
    created,            \* number of connections accepted so far
    got,                \* per connection: number of bytes read
    echoed,             \* per connection: the bytes written back
    torn                \* history: connections with a short write

serverVars == <<connections_, conn, watched, armed, created>>
streamVars == <<got, echoed, torn>>
vars == <<serverVars, streamVars, pending_tasks_, phase, active>>

Ids == 1..MaxConnections
Live == DOMAIN conn

Put(f, x, v) == [y \in DOMAIN f \cup {x} |-> IF y = x THEN v ELSE f[y]]
Without(f, S) == Restrict(f, DOMAIN f \ S)

\* The constructor: the listening socket is watched; then main() calls loop().
Init ==
    /\ connections_ = <<>>
    /\ conn = <<>>
    /\ watched = <<>>
    /\ armed = [c \in Ids |-> 0]
    /\ pending_tasks_ = <<>>
    /\ phase = "poll"
    /\ active = <<>>
    /\ created = 0
    /\ got = [c \in Ids |-> 0]
    /\ echoed = [c \in Ids |-> <<>>]
    /\ torn = {}

-----------------------------------------------------------------------------
(* Socket: the outcomes of the system calls.                               *)

\* accept(): a descriptor that is free.  EAGAIN and other errors are a Result
\* without a value.
AcceptedFds == Fds \ {conn[c].fd : c \in Live}

\* read(): the number of bytes taken.  0 is the end of the stream; EAGAIN,
\* EINTR and other errors are a Result without a value, here -1.
ReadResults(c) ==
    {n \in 1..kReadSize : got[c] + n <= MaxBytes[c]} \cup {0, -1}

\* write() of n bytes: how many were taken; -1 as for read().
WriteResults(n) == (1..n) \cup {-1}

-----------------------------------------------------------------------------
(* The handlers.                                                           *)

\* cancel_timer(timeout_timer); a stale identifier is not found.
CancelTimer(c) == [armed EXCEPT ![c] = IF @ > 0 THEN @ - 1 ELSE 0]

\* Wrong on purpose: the old timer stays.
RefreshTimeoutKeeps(c) == armed' = [armed EXCEPT ![c] = @ + 1]

\* refresh_timeout(): the old timer is cancelled, a new one armed.
RefreshTimeout(c) == armed' = [CancelTimer(c) EXCEPT ![c] = @ + 1]

\* close_connection(): the flag, the timer, disable_all(), which leaves the Channel
\* registered; it does nothing the second time.
CloseConnection(c) ==
    /\ conn' = [conn EXCEPT ![c].closed = TRUE]
    /\ armed' = IF conn[c].closed THEN armed ELSE CancelTimer(c)

\* Wrong on purpose: close_connection() alone.
CloseNoDeletion(fd, calls) ==
    /\ CloseConnection(connections_[fd])
    /\ UNCHANGED <<connections_, watched, created, pending_tasks_>>

\* So many calls of on_close() for a descriptor of the map: close_connection(),
\* and a deletion, queued every time.  A deletion carries, beside the descriptor
\* the code captures, the object it means.
Close(fd, calls) ==
    LET c == connections_[fd]
    IN  /\ CloseConnection(c)
        /\ pending_tasks_' = pending_tasks_ \o [i \in 1..calls |-> [fd |-> fd, id |-> c]]
        /\ UNCHANGED <<connections_, watched, created>>

\* on_accept(): nothing to accept, or a new Connection, whose Channel is
\* registered unless the poller has one for the descriptor.
OnAccept ==
    /\ \/ UNCHANGED serverVars
       \/ /\ created < MaxConnections
          /\ \E fd \in AcceptedFds :
                /\ conn' = Put(conn, created + 1, [fd |-> fd, closed |-> FALSE])
                /\ connections_' = Put(connections_, fd, created + 1)
                /\ watched' = IF fd \in DOMAIN watched THEN watched
                              ELSE Put(watched, fd, created + 1)
          /\ created' = created + 1
          /\ RefreshTimeout(created + 1)
    /\ UNCHANGED <<streamVars, pending_tasks_>>

\* The bytes k+1 .. k+n of the stream.
Bytes(k, n) == [i \in 1..n |-> k + i]

\* Wrong on purpose: a failed write is only logged.
EchoGoesOn(fd, n) ==
    LET c == connections_[fd]
    IN  /\ got' = [got EXCEPT ![c] = @ + n]
        /\ \E m \in WriteResults(n) :
              /\ echoed' = IF m < 0 THEN echoed
                           ELSE [echoed EXCEPT ![c] = @ \o Bytes(got[c], m)]
              /\ torn' = IF m \in 1..(n - 1) THEN torn \cup {c} ELSE torn
        /\ RefreshTimeout(c)
        /\ UNCHANGED <<connections_, conn, watched, created, pending_tasks_>>

\* n bytes have been read: they are written back, which closes the connection
\* if it fails and is taken for complete if it does not.
Echo(fd, n) ==
    LET c == connections_[fd]
    IN  /\ got' = [got EXCEPT ![c] = @ + n]
        /\ \E m \in WriteResults(n) :
              IF m < 0 THEN Close(fd, 1) /\ UNCHANGED <<echoed, torn>>
              ELSE /\ echoed' = [echoed EXCEPT ![c] = @ \o Bytes(got[c], m)]
                   /\ torn' = IF m < n THEN torn \cup {c} ELSE torn
                   /\ RefreshTimeout(c)
                   /\ UNCHANGED <<connections_, conn, watched, created, pending_tasks_>>

\* on_message(): a failed read and the end of the stream close the connection.
OnMessage(fd) ==
    \E n \in ReadResults(connections_[fd]) :
        IF n <= 0 THEN Close(fd, 1) /\ UNCHANGED streamVars ELSE Echo(fd, n)

-----------------------------------------------------------------------------
(* The loop.                                                               *)

\* poll(): reading is watched for on request, exceptional conditions always.
\* An error of select(), a wakeup or a timeout returns no Channel.
Poll ==
    /\ phase = "poll"
    /\ \E revents \in [Range(watched) \cup {0} -> SUBSET {"read", "error"}] :
          /\ \A c \in Range(watched) : conn[c].closed => "read" \notin revents[c]
          /\ active' = Without(revents, {c \in DOMAIN revents : revents[c] = {}})
    /\ phase' = "dispatch"
    /\ UNCHANGED <<serverVars, streamVars, pending_tasks_>>

\* handle_event() of the listening Channel, which has a read callback only.
HandleAccept ==
    /\ phase = "dispatch"
    /\ 0 \in DOMAIN active
    /\ active' = Without(active, {0})
    /\ IF "read" \in active[0] THEN OnAccept
       ELSE UNCHANGED <<serverVars, streamVars, pending_tasks_>>
    /\ UNCHANGED phase

\* handle_event() of a connection's Channel.  An error makes the close callback
\* and, when there is nothing to read, the error callback before it, both of
\* them on_close(); the read callback that may follow finds the connection
\* closed.
HandleEvent(c) ==
    /\ phase = "dispatch"
    /\ c \in DOMAIN active
    /\ active' = Without(active, {c})
    /\ LET fd == conn[c].fd
       IN  IF fd \notin DOMAIN connections_
           THEN UNCHANGED <<serverVars, streamVars, pending_tasks_>>
           ELSE IF "error" \in active[c]
           THEN Close(fd, IF "read" \in active[c] THEN 1 ELSE 2) /\ UNCHANGED streamVars
           ELSE IF conn[connections_[fd]].closed
           THEN UNCHANGED <<serverVars, streamVars, pending_tasks_>>
           ELSE OnMessage(fd)
    /\ UNCHANGED phase

\* The deletions of a batch: delete, which takes the Channel out of the poller
\* and closes the socket, and erase; the second for a descriptor finds nothing.
Delete(batch) ==
    LET fds == {batch[i].fd : i \in DOMAIN batch}
        gone == {connections_[fd] : fd \in fds \cap DOMAIN connections_}
    IN  /\ conn' = Without(conn, gone)
        /\ watched' = Without(watched, {conn[c].fd : c \in gone})
        /\ connections_' = Without(connections_, fds)
        /\ UNCHANGED <<armed, created>>

\* Wrong on purpose: one task for each iteration.
DoPendingTasksOne ==
    /\ phase = "dispatch"
    /\ active = <<>>
    /\ IF pending_tasks_ = <<>> THEN UNCHANGED <<serverVars, pending_tasks_>>
       ELSE Delete(<<Head(pending_tasks_)>>) /\ pending_tasks_' = Tail(pending_tasks_)
    /\ phase' = "poll"
    /\ UNCHANGED <<streamVars, active>>

\* do_pending_tasks(), when every active Channel has been handled.
DoPendingTasks ==
    /\ phase = "dispatch"
    /\ active = <<>>
    /\ Delete(pending_tasks_)
    /\ pending_tasks_' = <<>>
    /\ phase' = "poll"
    /\ UNCHANGED <<streamVars, active>>

LoopStep == HandleAccept \/ DoPendingTasks \/ \E c \in Ids : HandleEvent(c)

Next == Poll \/ LoopStep

Spec == Init /\ [][Next]_vars

\* The loop thread goes on until it is in poll() again; poll() itself may wait
\* for ever.
FairSpec == Spec /\ WF_vars(LoopStep)

-----------------------------------------------------------------------------
(* Properties.                                                             *)

\* The server, the loop and the streams have their types.
TypeOK ==
    /\ DOMAIN connections_ \subseteq Fds /\ Range(connections_) \subseteq Ids
    /\ Live \subseteq Ids /\ Range(conn) \subseteq [fd : Fds, closed : BOOLEAN]
    /\ DOMAIN watched \subseteq Fds /\ Range(watched) \subseteq Ids
    /\ armed \in [Ids -> 0..1]
    /\ pending_tasks_ \in Seq([fd : Fds, id : Ids])
    /\ phase \in {"poll", "dispatch"}
    /\ DOMAIN active \subseteq Ids \cup {0}
    /\ created \in 0..MaxConnections
    /\ DOMAIN got = Ids /\ DOMAIN echoed = Ids /\ torn \subseteq Ids
    /\ \A c \in Ids : got[c] \in 0..MaxBytes[c] /\ echoed[c] \in Seq(1..MaxBytes[c])

\* No pointer outlives its connection: not those of the poller and of the list
\* of active channels, and no idle timer, of which an open connection has one;
\* and whenever poll() is called it watches every connection there is.
NothingDangles ==
    /\ Range(watched) \cup (DOMAIN active \ {0}) \subseteq Live
    /\ \A c \in Ids : armed[c] = IF c \in Live /\ ~conn[c].closed THEN 1 ELSE 0
    /\ phase = "poll" => Range(watched) = Live /\ connections_ = watched

\* The second of two deletions queued by one event finds nothing: none destroys
\* a connection that has been given the descriptor meanwhile.
DeletionHitsItsConnection ==
    \A i \in DOMAIN pending_tasks_ :
        LET task == pending_tasks_[i]
        IN  task.fd \in DOMAIN connections_ =>
                connections_[task.fd] = task.id /\ conn[task.id].closed

\* A client gets back its own bytes in order, none twice and none it has not
\* sent; as long as no write was short there is no hole in them, and while the
\* connection is open all that was read has been sent back.
EchoIsFaithful ==
    \A c \in Ids :
        /\ \A i, j \in DOMAIN echoed[c] : i < j => echoed[c][i] < echoed[c][j]
        /\ \A i \in DOMAIN echoed[c] : echoed[c][i] <= got[c]
        /\ c \notin torn =>
              /\ \A i \in DOMAIN echoed[c] : echoed[c][i] = i
              /\ c \in Live /\ ~conn[c].closed => Len(echoed[c]) = got[c]

\* A closed connection is deleted and its descriptor given back in the iteration
\* it was closed in: without another event.
ClosedIsDeleted ==
    \A c \in Ids : c \in Live /\ conn[c].closed ~> c \notin Live

=============================================================================
