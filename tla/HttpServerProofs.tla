-------------------------- MODULE HttpServerProofs -------------------------
(***************************************************************************)
(* The life of HTTP connections, for any number of descriptors, Channels   *)
(* and queued calls.  The maps of the server and of the poller are two     *)
(* views of the live Channels (PollerInv, OwnerInv); EraseInv says which   *)
(* deletions may be queued in which phase of the loop, and is what makes   *)
(* an erase by descriptor hit its connection.                              *)
(***************************************************************************)
EXTENDS HttpServer, Induction, SequenceTheorems

USE BoundAssumption

Conns == Live \ {listen_channel_}

\* The poller's map is the inverse of the descriptor of a live Channel; its list
\* holds the live Channels, and their descriptors are those that are open.
PollerInv ==
    /\ created \in 0..MaxChannels /\ Live \subseteq 1..created
    /\ \A c \in Live : chan[c] \in Channel
    /\ channel_list_ \in Seq(Ids) /\ Range(channel_list_) = Live
    /\ open = DOMAIN channels_
    /\ \A fd \in DOMAIN channels_ : channels_[fd] \in Live /\ chan[channels_[fd]].fd = fd
    /\ \A c \in Live : chan[c].fd \in DOMAIN channels_ /\ channels_[chan[c].fd] = c

\* So is connections_, for the live Channels other than the listening one; a
\* server that is not running has none.
OwnerInv ==
    /\ alive \in BOOLEAN /\ running_ \in BOOLEAN
    /\ listen_channel_ \in Live \cup {0}
    /\ \A fd \in DOMAIN connections_ :
          connections_[fd] \in Conns /\ chan[connections_[fd]].fd = fd
    /\ \A c \in Conns : chan[c].fd \in DOMAIN connections_ /\ connections_[chan[c].fd] = c
    /\ running_ <=> listen_channel_ # 0
    /\ ~running_ => Live = {}

\* An open connection has one idle timer, anything else none.
TimerInv ==
    /\ armed \in [Ids -> Nat]
    /\ \A c \in Ids : armed[c] = IF c \in Conns /\ ~chan[c].closed THEN 1 ELSE 0

\* The Channels the loop holds are live; outside dispatch it holds none.
LoopInv ==
    /\ phase \in Phases
    /\ pending_tasks_ \in Seq(Task) /\ tasks \in Seq(Task)
    /\ active \in Seq(Event)
    /\ \A i \in DOMAIN active : active[i].id \in Live
    /\ current \in Live \cup {0}
    /\ callbacks \in Seq({"close", "read"})
    /\ userTasks \in 0..MaxUserTasks
    /\ phase # "dispatch" => active = <<>> /\ current = 0
    /\ phase # "tasks" => tasks = <<>>
    /\ phase = "setup" => alive

Erases(queue) == {i \in DOMAIN queue : queue[i].kind = "erase"}

\* The connection a deletion means is there, closed.
Dooms(task) ==
    /\ task.fd \in DOMAIN connections_ /\ connections_[task.fd] = task.id
    /\ chan[task.id].closed

\* Deletions are queued during dispatch only, each for a connection that is
\* there and closed, and every closed connection has one.  The batch that runs
\* may hold deletions of connections that a stop() of the batch has taken
\* away, but none of a connection that is open.
EraseInv ==
    /\ phase # "dispatch" => Erases(pending_tasks_) = {}
    /\ \A i \in Erases(pending_tasks_) : Dooms(pending_tasks_[i])
    /\ \A i \in Erases(tasks) : tasks[i].fd \in DOMAIN connections_ => Dooms(tasks[i])
    /\ \A c \in Conns : chan[c].closed =>
          \/ \E i \in Erases(pending_tasks_) : pending_tasks_[i].fd = chan[c].fd
          \/ \E i \in Erases(tasks) : tasks[i].fd = chan[c].fd
    /\ ~alive => ~running_ /\ pending_tasks_ = <<>> /\ tasks = <<>>

ServerInv == PollerInv /\ OwnerInv /\ TimerInv
HttpInv == ServerInv /\ LoopInv /\ EraseInv

-----------------------------------------------------------------------------
(* Vectors.                                                                *)

\* Removing elements from a vector leaves the others, and only those.
LEMMA RemovedRange ==
    ASSUME NEW V, NEW s \in Seq(V), NEW S
    PROVE  Removed(s, S) \in Seq(V) /\ Range(Removed(s, S)) = Range(s) \ S
<1> DEFINE N == Len(s)
           kept == CHOOSE f : f = [i \in 0..Len(s) |->
                      IF i = 0 THEN <<>>
                      ELSE IF s[i] \in S THEN f[i - 1] ELSE Append(f[i - 1], s[i])]
           step == [i \in 1..N |-> [q \in Seq(V) |-> IF s[i] \in S THEN q ELSE Append(q, s[i])]]
<1>1. N \in Nat /\ DOMAIN s = 1..N /\ \A i \in 1..N : s[i] \in V
  OBVIOUS
<1>2. step \in [1..N -> [Seq(V) -> Seq(V)]]
  BY <1>1
<1>3. Removed(s, S) = kept[N]
  BY DEF Removed
<1> HIDE DEF N
<1>4. PICK f \in [0..N -> Seq(V)] : f[0] = <<>> /\ \A i \in 1..N : f[i] = step[i][f[i - 1]]
  <2> DEFINE X == Seq(V)
             e == <<>>
  <2>1. e \in X
    OBVIOUS
  <2>2. step \in [1..N -> [X -> X]]
    BY <1>2
  <2> HIDE DEF step, X, e
  <2>3. \E f : IsRecursion(f, N, X, e, step)
    BY <1>1, <2>1, <2>2, RecursionExists
  <2> QED
    BY <2>3 DEF X, e, IsRecursion
<1>5. f = [i \in 0..N |-> IF i = 0 THEN <<>>
                          ELSE IF s[i] \in S THEN f[i - 1] ELSE Append(f[i - 1], s[i])]
  <2>1. ASSUME NEW i \in 0..N, i # 0
        PROVE  f[i] = IF s[i] \in S THEN f[i - 1] ELSE Append(f[i - 1], s[i])
    <3>1. i \in 1..N /\ f[i - 1] \in Seq(V)
      BY <1>1, <2>1
    <3> QED
      BY <1>4, <3>1
  <2> HIDE DEF step
  <2> QED
    BY <1>4, <2>1
<1> HIDE DEF step
<1>6. kept = [i \in 0..N |-> IF i = 0 THEN <<>>
                          ELSE IF s[i] \in S THEN kept[i - 1] ELSE Append(kept[i - 1], s[i])]
  BY <1>5 DEF N
<1> HIDE DEF kept
<1> DEFINE Good(i) == kept[i] \in Seq(V) /\ Range(kept[i]) = {s[j] : j \in 1..i} \ S
           T == {i \in Nat : i <= N => Good(i)}
<1>7. 0 \in T
  <2>1. kept[0] = <<>>
    BY <1>1, <1>6
  <2>2. {s[j] : j \in 1..0} = {} /\ Range(<<>>) = {} /\ <<>> \in Seq(V)
    BY DEF Range
  <2> QED
    BY <2>1, <2>2
<1>8. ASSUME NEW i \in Nat, i \in T PROVE i + 1 \in T
  <2>1. SUFFICES ASSUME i + 1 <= N PROVE Good(i + 1)
    OBVIOUS
  <2>2. kept[i] \in Seq(V) /\ Range(kept[i]) = {s[j] : j \in 1..i} \ S
    <3>1. i <= N
      BY <1>1, <2>1
    <3> QED
      BY <1>8, <3>1
  <2>3. {s[j] : j \in 1..(i + 1)} = {s[j] : j \in 1..i} \cup {s[i + 1]}
    OBVIOUS
  <2>4. s[i + 1] \in V /\ kept[i + 1] = IF s[i + 1] \in S THEN kept[i] ELSE Append(kept[i], s[i + 1])
    <3>1. i + 1 \in 0..N /\ i + 1 # 0 /\ (i + 1) - 1 = i /\ i + 1 \in 1..N
      BY <1>1, <2>1
    <3> QED
      BY <1>1, <1>6, <3>1
  <2>5. CASE s[i + 1] \in S
    BY <2>2, <2>3, <2>4, <2>5
  <2>6. CASE s[i + 1] \notin S
    <3>1. kept[i + 1] = Append(kept[i], s[i + 1]) /\ kept[i + 1] \in Seq(V)
      BY <2>2, <2>4, <2>6
    <3>2. Range(kept[i + 1]) = Range(kept[i]) \cup {s[i + 1]}
      <4> DEFINE t == kept[i]
                 e == s[i + 1]
                 u == kept[i + 1]
      <4>1. t \in Seq(V) /\ e \in V /\ u = Append(t, e)
        BY <2>2, <2>4, <3>1
      <4> HIDE DEF t, e, u
      <4>2. DOMAIN u = DOMAIN t \cup {Len(t) + 1} /\ u[Len(t) + 1] = e /\ \A k \in DOMAIN t : u[k] = t[k]
        BY <4>1
      <4>3. Range(u) = Range(t) \cup {e}
        BY <4>2 DEF Range
      <4> QED
        BY <4>3 DEF t, e, u
    <3> QED
      BY <2>2, <2>3, <2>6, <3>1, <3>2
  <2> QED
    BY <2>5, <2>6
<1> HIDE DEF Good
<1>9. Good(N)
  <2>1. \A i \in Nat : i \in T => i + 1 \in T
    BY <1>8
  <2>2. Nat \subseteq T
    <3> HIDE DEF T
    <3> QED
      BY <1>7, <2>1, SetInduction
  <2> QED
    BY <1>1, <2>2
<1>10. Range(s) = {s[j] : j \in 1..N}
  BY <1>1 DEF Range
<1> QED
  BY <1>3, <1>9, <1>10 DEF Good

\* What is left when the first element of a queue is taken.
LEMMA TailFacts ==
    ASSUME NEW S, NEW s \in Seq(S), s # <<>>
    PROVE  /\ 1 \in DOMAIN s /\ Head(s) = s[1] /\ Head(s) \in S /\ Tail(s) \in Seq(S)
           /\ \A i \in DOMAIN Tail(s) : i + 1 \in DOMAIN s /\ Tail(s)[i] = s[i + 1]
           /\ \A i \in DOMAIN s \ {1} : i - 1 \in DOMAIN Tail(s) /\ Tail(s)[i - 1] = s[i]
<1>1. Len(s) \in Nat \ {0} /\ DOMAIN s = 1..Len(s) /\ Head(s) = s[1]
  OBVIOUS
<1>2. Tail(s) \in Seq(S) /\ DOMAIN Tail(s) = 1..(Len(s) - 1)
      /\ \A i \in 1..(Len(s) - 1) : Tail(s)[i] = s[i + 1]
  BY HeadTailProperties
<1>3. \A i \in DOMAIN s \ {1} : i - 1 \in DOMAIN Tail(s) /\ (i - 1) + 1 = i
  BY <1>1, <1>2
<1>4. \A i \in DOMAIN s \ {1} : Tail(s)[i - 1] = s[i]
  BY <1>1, <1>2, <1>3
<1> QED
  BY <1>1, <1>2, <1>3, <1>4

\* What a queue holds when an element has been appended.
LEMMA AppendFacts ==
    ASSUME NEW S, NEW s \in Seq(S), NEW e \in S
    PROVE  /\ Append(s, e) \in Seq(S)
           /\ DOMAIN Append(s, e) = DOMAIN s \cup {Len(s) + 1} /\ Len(s) + 1 \notin DOMAIN s
           /\ Append(s, e)[Len(s) + 1] = e
           /\ \A i \in DOMAIN s : Append(s, e)[i] = s[i]
OBVIOUS

-----------------------------------------------------------------------------
(* The server and the poller.                                              *)

\* The constructor and an empty poller establish the invariant.
LEMMA InitEstablishes == Init => HttpInv
<1> SUFFICES ASSUME Init PROVE HttpInv
  OBVIOUS
<1>1. Live = {} /\ DOMAIN channels_ = {} /\ DOMAIN connections_ = {} /\ Range(channel_list_) = {}
  BY DEF Init, Live, Range
<1>2. PollerInv
  BY <1>1 DEF Init, PollerInv
<1>3. OwnerInv
  BY <1>1 DEF Init, OwnerInv, Conns
<1>4. TimerInv
  BY <1>1 DEF Init, TimerInv, Conns
<1>5. LoopInv
  BY DEF Init, LoopInv, Phases
<1>6. EraseInv
  BY <1>1 DEF Init, EraseInv, Erases, Conns
<1> QED
  BY <1>2, <1>3, <1>4, <1>5, <1>6 DEF HttpInv, ServerInv

\* The identifiers of live Channels.
LEMMA LiveAreIds ==
    ASSUME PollerInv PROVE Live \subseteq Ids /\ 0 \notin Live
<1>1. created \in 0..MaxChannels /\ Live \subseteq 1..created
  BY DEF PollerInv
<1>2. 1..created \subseteq 1..MaxChannels /\ 0 \notin 1..created
  BY <1>1
<1> QED
  BY <1>1, <1>2 DEF Ids

\* A Channel object is made for a descriptor the kernel has just handed out, and
\* registered (start() and on_accept()).
Registers(fd) ==
    /\ created < MaxChannels
    /\ open' = open \cup {fd}
    /\ chan' = Put(chan, created + 1, [fd |-> fd, events |-> {"read"}, closed |-> FALSE])
    /\ UpdateChannel(created + 1, fd)
    /\ created' = created + 1

LEMMA RegisterPreserves ==
    ASSUME PollerInv, NEW fd \in Fds \ open, Registers(fd)
    PROVE  /\ PollerInv'
           /\ created + 1 \in Ids /\ created + 1 \notin Live /\ created + 1 # 0
           /\ Live' = Live \cup {created + 1}
           /\ chan'[created + 1].fd = fd /\ ~chan'[created + 1].closed
           /\ \A d \in Live : chan'[d] = chan[d] /\ chan[d].fd # fd
<1> DEFINE n == created + 1
           ch == [fd |-> fd, events |-> {"read"}, closed |-> FALSE]
<1>1. n \in Ids /\ n \notin Live /\ n # 0 /\ created' = n /\ created' \in 0..MaxChannels
      /\ Live \cup {n} \subseteq 1..n
  BY DEF Registers, PollerInv, Ids
<1>2. fd \notin DOMAIN channels_ /\ \A d \in Live : chan[d].fd # fd
  BY DEF PollerInv
<1>3. ch \in Channel /\ ch.fd = fd /\ ~ch.closed
  BY DEF Channel
<1> HIDE DEF ch
<1>4. Live' = Live \cup {n} /\ chan'[n] = ch /\ \A d \in Live : chan'[d] = chan[d]
  BY <1>1 DEF Registers, Put, Live, ch
<1>5. /\ DOMAIN channels_' = DOMAIN channels_ \cup {fd} /\ channels_'[fd] = n
      /\ \A e \in DOMAIN channels_ : channels_'[e] = channels_[e]
      /\ channel_list_' = Append(channel_list_, n)
  BY <1>2 DEF Registers, UpdateChannel, Put
<1>6. open' = DOMAIN channels_'
  BY <1>5 DEF Registers, PollerInv
<1> HIDE DEF n
<1>7. channel_list_' \in Seq(Ids) /\ Range(channel_list_') = Live'
  <2>1. channel_list_ \in Seq(Ids) /\ Range(channel_list_) = Live
    BY DEF PollerInv
  <2>2. /\ channel_list_' \in Seq(Ids)
        /\ DOMAIN channel_list_' = DOMAIN channel_list_ \cup {Len(channel_list_) + 1}
        /\ channel_list_'[Len(channel_list_) + 1] = n
        /\ \A i \in DOMAIN channel_list_ : channel_list_'[i] = channel_list_[i]
    BY <1>1, <1>5, <2>1, AppendFacts
  <2>3. Range(channel_list_') = Range(channel_list_) \cup {n}
    BY <2>2 DEF Range
  <2> QED
    BY <1>4, <2>1, <2>2, <2>3
<1>8. PollerInv'
  <2>1. \A c \in Live' : chan'[c] \in Channel
    BY <1>3, <1>4 DEF PollerInv
  <2>2. \A e \in DOMAIN channels_' : channels_'[e] \in Live' /\ chan'[channels_'[e]].fd = e
    BY <1>3, <1>4, <1>5 DEF PollerInv
  <2>3. \A c \in Live' : chan'[c].fd \in DOMAIN channels_' /\ channels_'[chan'[c].fd] = c
    BY <1>2, <1>3, <1>4, <1>5 DEF PollerInv
  <2>4. created' \in 0..MaxChannels /\ Live' \subseteq 1..created'
    BY <1>1, <1>4
  <2> QED
    BY <1>6, <1>7, <2>1, <2>2, <2>3, <2>4 DEF PollerInv
<1> QED
  BY <1>1, <1>2, <1>3, <1>4, <1>8 DEF n

\* Channels are destroyed, which takes them out of the poller, and their sockets
\* closed (erase(fd) and stop()).
LEMMA RemovePreserves ==
    ASSUME PollerInv, NEW gone, gone \subseteq Live, RemoveChannels(gone),
           chan' = Drop(chan, gone), open' = open \ {chan[c].fd : c \in gone},
           created' = created
    PROVE  PollerInv' /\ Live' = Live \ gone /\ \A d \in Live' : chan'[d] = chan[d]
<1> DEFINE fds == {chan[c].fd : c \in gone}
<1>1. {c \in gone : chan[c].fd \in DOMAIN channels_} = gone
  BY DEF PollerInv
<1>2. Live' = Live \ gone /\ \A d \in Live' : chan'[d] = chan[d]
  BY DEF Drop, Restrict, Live
<1>3. /\ DOMAIN channels_' = DOMAIN channels_ \ fds
      /\ \A fd \in DOMAIN channels_' : channels_'[fd] = channels_[fd]
      /\ channel_list_' = Removed(channel_list_, gone)
  BY <1>1 DEF RemoveChannels, Drop, Restrict
<1>4. channel_list_' \in Seq(Ids) /\ Range(channel_list_') = Live \ gone
  BY <1>3, RemovedRange DEF PollerInv
<1>5. \A c \in Live : c \in gone <=> chan[c].fd \in fds
  BY DEF PollerInv
<1>6. open' = DOMAIN channels_'
  BY <1>3 DEF PollerInv
<1> HIDE DEF fds
<1>7. PollerInv'
  <2>1. \A c \in Live' : chan'[c] \in Channel
    BY <1>2 DEF PollerInv
  <2>2. ASSUME NEW e \in DOMAIN channels_'
        PROVE  channels_'[e] \in Live' /\ chan'[channels_'[e]].fd = e
    <3>1. channels_'[e] = channels_[e] /\ e \notin fds
      BY <1>3
    <3>2. channels_[e] \in Live /\ chan[channels_[e]].fd = e
      BY <1>3 DEF PollerInv
    <3> QED
      BY <1>2, <1>5, <3>1, <3>2
  <2>3. \A c \in Live' : chan'[c].fd \in DOMAIN channels_' /\ channels_'[chan'[c].fd] = c
    BY <1>2, <1>3, <1>5 DEF PollerInv
  <2>4. created' \in 0..MaxChannels /\ Live' \subseteq 1..created'
    BY <1>2 DEF PollerInv
  <2> QED
    BY <1>2, <1>4, <1>6, <2>1, <2>2, <2>3, <2>4 DEF PollerInv
<1> QED
  BY <1>2, <1>7

\* start(): the new Channel is the listening one.
LEMMA StartServerPreserves ==
    ASSUME ServerInv, StartServer
    PROVE  /\ ServerInv' /\ Live \subseteq Live' /\ Conns' = Conns
           /\ connections_' = connections_ /\ alive' = alive
           /\ \A d \in Live : chan'[d] = chan[d]
<1>1. CASE running_
  <2>1. UNCHANGED <<alive, running_, listen_channel_, connections_, chan, armed, created,
                    channels_, channel_list_, open>> /\ Live' = Live
    BY <1>1 DEF StartServer, serverVars, pollerVars, Live
  <2> QED
    BY <2>1 DEF ServerInv, PollerInv, OwnerInv, TimerInv, Conns
<1>2. CASE ~running_
  <2>1. /\ listen_channel_' = created + 1 /\ running_'
        /\ UNCHANGED <<alive, connections_, armed>>
    BY <1>2 DEF StartServer
  <2>2. PICK fd \in Fds \ open : Registers(fd)
    BY <1>2 DEF StartServer, Registers
  <2> DEFINE n == created + 1
  <2>3. /\ PollerInv'
        /\ n \in Ids /\ n \notin Live /\ n # 0 /\ Live' = Live \cup {n}
        /\ \A d \in Live : chan'[d] = chan[d]
    BY <2>2, RegisterPreserves DEF ServerInv
  <2> HIDE DEF n
  <2>4. Live = {} /\ Conns = {} /\ Conns' = {} /\ DOMAIN connections_ = {}
    BY <1>2, <2>1, <2>3 DEF ServerInv, OwnerInv, Conns, n
  <2>5. OwnerInv'
    BY <2>1, <2>3, <2>4 DEF ServerInv, OwnerInv, n
  <2>6. TimerInv'
    BY <2>1, <2>4 DEF ServerInv, TimerInv
  <2> QED
    BY <2>1, <2>3, <2>4, <2>5, <2>6 DEF ServerInv
<1> QED
  BY <1>1, <1>2 DEF ServerInv, OwnerInv

\* The connections are the values of connections_.
LEMMA ConnsAreConnections ==
    ASSUME OwnerInv PROVE Connections = Conns
BY DEF OwnerInv, Connections, Range

\* stop(): nothing is left.
LEMMA StopServerPreserves ==
    ASSUME ServerInv, StopServer, alive' \in BOOLEAN
    PROVE  ServerInv' /\ Live' = {} /\ ~running_' /\ DOMAIN connections_' = {}
<1>1. CASE ~running_
  <2>1. UNCHANGED <<running_, listen_channel_, connections_, chan, armed, created,
                    channels_, channel_list_, open>> /\ Live' = Live
    BY <1>1 DEF StopServer, pollerVars, Live
  <2> QED
    BY <1>1, <2>1 DEF ServerInv, PollerInv, OwnerInv, TimerInv, Conns
<1>2. CASE running_
  <2> DEFINE gone == Range(connections_) \cup {listen_channel_}
  <2>1. gone = Live
    BY <1>2, ConnsAreConnections DEF ServerInv, OwnerInv, Conns, Connections
  <2>2. /\ running_' = FALSE /\ listen_channel_' = 0 /\ connections_' = <<>>
        /\ armed' = [c \in Ids |-> IF c \in gone THEN 0 ELSE armed[c]]
        /\ open' = open \ {chan[c].fd : c \in gone}
        /\ RemoveChannels(gone) /\ chan' = Drop(chan, gone) /\ created' = created
    BY <1>2 DEF StopServer
  <2> HIDE DEF gone
  <2>3. PollerInv' /\ Live' = {}
    BY <2>1, <2>2, RemovePreserves DEF ServerInv
  <2>4. DOMAIN connections_' = {}
    BY <2>2
  <2>5. OwnerInv'
    BY <2>2, <2>3, <2>4 DEF OwnerInv, Conns
  <2>6. TimerInv'
    BY <2>1, <2>2, <2>3 DEF ServerInv, TimerInv, Conns
  <2> QED
    BY <2>2, <2>3, <2>4, <2>5, <2>6 DEF ServerInv
<1> QED
  BY <1>1, <1>2 DEF ServerInv, OwnerInv

\* on_accept(): a new connection, on a descriptor connections_ does not have.
LEMMA AcceptPreserves ==
    ASSUME ServerInv, listen_channel_ # 0, NEW fd \in Fds \ open, Registers(fd),
           connections_' = Put(connections_, fd, created + 1),
           armed' = RefreshTimeout(armed, created + 1),
           UNCHANGED <<alive, running_, listen_channel_>>
    PROVE  /\ ServerInv' /\ Live \subseteq Live'
           /\ Conns' = Conns \cup {created + 1} /\ ~chan'[created + 1].closed
           /\ \A d \in Live : chan'[d] = chan[d]
           /\ \A e \in DOMAIN connections_ :
                 e \in DOMAIN connections_' /\ connections_'[e] = connections_[e]
<1> DEFINE n == created + 1
<1>1. /\ PollerInv'
      /\ n \in Ids /\ n \notin Live /\ n # 0 /\ Live' = Live \cup {n}
      /\ chan'[n].fd = fd /\ ~chan'[n].closed
      /\ \A d \in Live : chan'[d] = chan[d] /\ chan[d].fd # fd
  BY RegisterPreserves DEF ServerInv
<1>2. fd \notin DOMAIN connections_
  BY <1>1 DEF ServerInv, OwnerInv, Conns
<1>3. /\ DOMAIN connections_' = DOMAIN connections_ \cup {fd} /\ connections_'[fd] = n
      /\ \A e \in DOMAIN connections_ : connections_'[e] = connections_[e]
  BY <1>2 DEF Put
<1>4. armed' \in [Ids -> Nat] /\ armed'[n] = 1 /\ \A c \in Ids \ {n} : armed'[c] = armed[c]
  BY <1>1 DEF RefreshTimeout, CancelTimer, ServerInv, TimerInv, Conns
<1> HIDE DEF n
<1>5. Conns' = Conns \cup {n} /\ listen_channel_ \in Live
  BY <1>1 DEF Conns, ServerInv, OwnerInv
<1>6. OwnerInv'
  <2>1. \A e \in DOMAIN connections_' :
           connections_'[e] \in Conns' /\ chan'[connections_'[e]].fd = e
    BY <1>1, <1>3, <1>5 DEF ServerInv, OwnerInv, Conns
  <2>2. \A c \in Conns' : chan'[c].fd \in DOMAIN connections_' /\ connections_'[chan'[c].fd] = c
    BY <1>1, <1>3, <1>5 DEF ServerInv, OwnerInv, Conns
  <2> QED
    BY <1>1, <1>5, <2>1, <2>2 DEF ServerInv, OwnerInv
<1>7. TimerInv'
  BY <1>1, <1>4, <1>5 DEF ServerInv, TimerInv, Conns
<1> QED
  BY <1>1, <1>3, <1>5, <1>6, <1>7 DEF ServerInv, n

\* refresh_timeout() replaces the timer of an open connection.
LEMMA RefreshIsSame ==
    ASSUME ServerInv, NEW c \in Conns, ~chan[c].closed
    PROVE  RefreshTimeout(armed, c) = armed
<1>1. c \in Ids /\ armed \in [Ids -> Nat] /\ armed[c] = 1
  BY LiveAreIds DEF ServerInv, TimerInv, Conns
<1>2. CancelTimer(armed, c) = [armed EXCEPT ![c] = 0]
  BY <1>1 DEF CancelTimer
<1>3. RefreshTimeout(armed, c) = [armed EXCEPT ![c] = 1]
  BY <1>1, <1>2 DEF RefreshTimeout
<1> QED
  BY <1>1, <1>3

\* on_close(): the connection stays where it is, closed and without a timer.
LEMMA ClosePreserves ==
    ASSUME ServerInv, NEW fd \in DOMAIN connections_, ~chan[connections_[fd]].closed,
           CloseConnection(fd, armed)
    PROVE  /\ ServerInv' /\ Live' = Live /\ Conns' = Conns
           /\ UNCHANGED <<alive, running_, connections_>>
           /\ connections_[fd] \in Conns /\ connections_[fd] \in Ids /\ fd \in Fds
           /\ chan'[connections_[fd]].closed /\ chan'[connections_[fd]].fd = fd
           /\ \A d \in Live \ {connections_[fd]} : chan'[d] = chan[d]
<1> DEFINE c == connections_[fd]
<1>1. c \in Conns /\ c \in Live /\ c \in Ids /\ chan[c].fd = fd /\ fd \in DOMAIN channels_
      /\ chan[c] \in Channel
  <2>1. c \in Conns /\ c \in Live /\ chan[c].fd = fd
    BY DEF ServerInv, OwnerInv, Conns
  <2> QED
    BY <2>1, LiveAreIds DEF ServerInv, PollerInv
<1>2. /\ chan' = [chan EXCEPT ![c].closed = TRUE, ![c].events = {}]
      /\ armed' = CancelTimer(armed, c)
      /\ UNCHANGED <<alive, running_, listen_channel_, connections_, created, open,
                     channels_, channel_list_>>
  BY <1>1 DEF CloseConnection, UpdateChannel, pollerVars
<1>3. /\ Live' = Live /\ chan'[c].closed /\ chan'[c].fd = fd /\ chan'[c] \in Channel
      /\ \A d \in Live \ {c} : chan'[d] = chan[d]
  BY <1>1, <1>2 DEF Live, Channel
<1>4. Conns' = Conns /\ fd \in Fds
  BY <1>1, <1>2, <1>3 DEF Conns, Channel
<1>5. armed' \in [Ids -> Nat] /\ armed'[c] = 0 /\ \A d \in Ids \ {c} : armed'[d] = armed[d]
  BY <1>1, <1>2 DEF CancelTimer, ServerInv, TimerInv
<1> HIDE DEF c
<1>6. PollerInv'
  <2>1. \A d \in Live' : chan'[d] \in Channel /\ chan'[d].fd = chan[d].fd
    BY <1>1, <1>3 DEF ServerInv, PollerInv
  <2>2. PollerInv
    BY DEF ServerInv
  <2> QED
    BY ONLY <1>2, <1>3, <2>1, <2>2, ZenonT(30) DEF PollerInv
<1>7. OwnerInv'
  <2>1. \A d \in Conns' : d \in Conns /\ chan'[d].fd = chan[d].fd
    BY <1>1, <1>3, <1>4 DEF Conns
  <2> QED
    BY <1>2, <1>3, <1>4, <2>1, ZenonT(30) DEF ServerInv, OwnerInv
<1>8. TimerInv'
  BY <1>1, <1>3, <1>4, <1>5 DEF ServerInv, TimerInv, Conns
<1> QED
  BY <1>1, <1>2, <1>3, <1>4, <1>6, <1>7, <1>8 DEF ServerInv, c

\* connections_.erase(fd) of a closed connection.
LEMMA ErasePreserves ==
    ASSUME ServerInv, NEW fd \in DOMAIN connections_, chan[connections_[fd]].closed,
           RemoveChannels({connections_[fd]}), chan' = Drop(chan, {connections_[fd]}),
           open' = open \ {fd}, connections_' = Drop(connections_, {fd}),
           UNCHANGED <<alive, running_, listen_channel_, armed, created>>
    PROVE  /\ ServerInv' /\ Conns' = Conns \ {connections_[fd]}
           /\ DOMAIN connections_' = DOMAIN connections_ \ {fd}
           /\ \A e \in DOMAIN connections_' : connections_'[e] = connections_[e]
           /\ \A d \in Conns' : chan'[d] = chan[d] /\ chan[d].fd # fd
           /\ \A e \in DOMAIN connections_' : connections_[e] \in Conns'
<1> DEFINE c == connections_[fd]
<1>1. c \in Conns /\ c \in Live /\ chan[c].fd = fd
  BY DEF ServerInv, OwnerInv, Conns
<1>2. open' = open \ {chan[d].fd : d \in {c}}
  BY <1>1
<1>3. PollerInv' /\ Live' = Live \ {c} /\ \A d \in Live' : chan'[d] = chan[d]
  BY <1>1, <1>2, RemovePreserves DEF ServerInv
<1>4. /\ DOMAIN connections_' = DOMAIN connections_ \ {fd}
      /\ \A e \in DOMAIN connections_' : connections_'[e] = connections_[e]
  BY DEF Drop, Restrict
<1>5. Conns' = Conns \ {c} /\ \A d \in Conns' : chan'[d] = chan[d] /\ chan[d].fd # fd
  BY <1>1, <1>3 DEF Conns, ServerInv, OwnerInv
<1> HIDE DEF c
<1>6. \A e \in DOMAIN connections_' : connections_[e] \in Conns' /\ chan[connections_[e]].fd = e
  BY <1>1, <1>4, <1>5 DEF ServerInv, OwnerInv
<1>7. OwnerInv'
  <2>1. listen_channel_ \in Live' \cup {0}
    BY <1>1, <1>3 DEF ServerInv, OwnerInv, Conns
  <2>2. \A e \in DOMAIN connections_' :
           connections_'[e] \in Conns' /\ chan'[connections_'[e]].fd = e
    BY ONLY <1>4, <1>5, <1>6
  <2>3. \A d \in Conns : chan[d].fd \in DOMAIN connections_ /\ connections_[chan[d].fd] = d
    BY DEF ServerInv, OwnerInv
  <2>4. \A d \in Conns' : chan'[d].fd \in DOMAIN connections_' /\ connections_'[chan'[d].fd] = d
    BY ONLY <1>4, <1>5, <2>3
  <2> QED
    BY <1>3, <2>1, <2>2, <2>4 DEF ServerInv, OwnerInv
<1>8. TimerInv'
  BY <1>1, <1>5 DEF ServerInv, TimerInv, c
<1> QED
  BY <1>3, <1>4, <1>5, <1>6, <1>7, <1>8 DEF ServerInv, c

-----------------------------------------------------------------------------
(* The loop.                                                               *)

\* A step that leaves the server, the poller and the queues alone.
LEMMA QuietStep ==
    ASSUME HttpInv, UNCHANGED <<serverVars, pollerVars, open, pending_tasks_>>,
           tasks' = tasks, phase' # "dispatch" => Erases(pending_tasks_) = {},
           Live' = Live => LoopInv'
    PROVE  HttpInv'
<1>1. UNCHANGED <<alive, running_, listen_channel_, connections_, chan, armed, created,
                  channels_, channel_list_, open, pending_tasks_, tasks>>
      /\ Live' = Live /\ Conns' = Conns
  BY DEF serverVars, pollerVars, Live, Conns
<1>2. ServerInv'
  BY <1>1 DEF HttpInv, ServerInv, PollerInv, OwnerInv, TimerInv
<1>3. EraseInv'
  BY <1>1 DEF HttpInv, EraseInv, Erases, Dooms
<1> QED
  BY <1>1, <1>2, <1>3 DEF HttpInv

\* poll() returns Channels of its list.
LEMMA PollPreserves == ASSUME HttpInv, Poll PROVE HttpInv'
<1>1. PICK revents \in [Range(channel_list_) -> SUBSET {"read", "error"}] :
        LET ready == Removed(channel_list_, {c \in DOMAIN revents : revents[c] = {}})
        IN  active' = [i \in 1..Len(ready) |->
                          [id |-> ready[i], revents |-> revents[ready[i]]]]
  BY DEF Poll
<1> DEFINE ready == Removed(channel_list_, {c \in DOMAIN revents : revents[c] = {}})
<1>2. ready \in Seq(Ids) /\ Range(ready) \subseteq Live /\ Range(ready) \subseteq Range(channel_list_)
  BY RemovedRange DEF HttpInv, ServerInv, PollerInv
<1>3. active' = [i \in 1..Len(ready) |-> [id |-> ready[i], revents |-> revents[ready[i]]]]
  BY <1>1
<1> HIDE DEF ready
<1>4. \A i \in 1..Len(ready) : ready[i] \in Live /\ ready[i] \in Range(channel_list_)
                               /\ ready[i] \in Ids
  BY <1>2 DEF Range
<1>5. Len(ready) \in Nat /\ \A i \in 1..Len(ready) : revents[ready[i]] \in SUBSET {"read", "error"}
  BY <1>2, <1>4
<1>6. active' \in Seq(Event)
  <2>1. \A i \in 1..Len(ready) : [id |-> ready[i], revents |-> revents[ready[i]]] \in Event
    BY <1>4, <1>5 DEF Event
  <2> QED
    BY <1>3, <1>5, <2>1
<1>7. \A i \in DOMAIN active' : active'[i].id \in Live
  BY <1>3, <1>4
<1>8. Live' = Live => LoopInv'
  BY <1>6, <1>7 DEF Poll, HttpInv, LoopInv, Phases
<1> QED
  BY <1>8, QuietStep DEF Poll

\* handle_event() of a Channel of the list.
LEMMA HandleEventPreserves == ASSUME HttpInv, HandleEvent PROVE HttpInv'
<1>1. active \in Seq(Event) /\ active # <<>> /\ phase = "dispatch" /\ active' = Tail(active)
  BY DEF HandleEvent, HttpInv, LoopInv
<1>2. /\ 1 \in DOMAIN active /\ Head(active) = active[1] /\ active' \in Seq(Event)
      /\ \A i \in DOMAIN active' : i + 1 \in DOMAIN active /\ active'[i] = active[i + 1]
  BY <1>1, TailFacts
<1>3. current' \in Live /\ \A i \in DOMAIN active' : active'[i].id \in Live
  BY <1>1, <1>2 DEF HandleEvent, HttpInv, LoopInv
<1>4. callbacks' \in Seq({"close", "read"})
  <2> DEFINE error == "error" \in Head(active).revents
             read == "read" \in Head(active).revents
             a == IF error /\ ~read THEN <<"close">> ELSE <<>>
             b == IF error THEN <<"close">> ELSE <<>>
             d == IF read THEN <<"read">> ELSE <<>>
  <2>1. callbacks' = a \o b \o d
    BY DEF HandleEvent
  <2>2. a \in Seq({"close", "read"}) /\ b \in Seq({"close", "read"}) /\ d \in Seq({"close", "read"})
    <3>1. /\ <<>> \in Seq({"close", "read"}) /\ <<"close">> \in Seq({"close", "read"})
          /\ <<"read">> \in Seq({"close", "read"})
      OBVIOUS
    <3> QED
      BY ONLY <3>1
  <2> HIDE DEF a, b, d
  <2> QED
    BY <2>1, <2>2, ConcatProperties
<1>5. Live' = Live => LoopInv'
  BY <1>1, <1>2, <1>3, <1>4 DEF HandleEvent, HttpInv, LoopInv, serverVars
<1> QED
  BY <1>1, <1>5, QuietStep DEF HandleEvent

\* handle_event() returns; do_pending_tasks() and loop() return; loop() is called
\* again.
LEMMA EndsPreserve ==
    ASSUME HttpInv, EndEvent \/ EndTasks \/ LoopReturns \/ LoopAgain PROVE HttpInv'
<1>1. CASE EndEvent
  <2>1. Live' = Live => LoopInv'
    BY <1>1 DEF EndEvent, HttpInv, LoopInv, serverVars
  <2>2. phase = "dispatch" /\ phase' = phase
    BY <1>1 DEF EndEvent, HttpInv, LoopInv
  <2> QED
    BY <1>1, <2>1, <2>2, QuietStep DEF EndEvent
<1>2. CASE EndTasks \/ LoopReturns \/ LoopAgain
  <2>1. Live' = Live => LoopInv'
    BY <1>2 DEF EndTasks, LoopReturns, LoopAgain, HttpInv, LoopInv, Phases, serverVars
  <2>2. Erases(pending_tasks_) = {}
    BY <1>2 DEF EndTasks, LoopReturns, LoopAgain, HttpInv, EraseInv
  <2> QED
    BY <1>2, <2>1, <2>2, QuietStep DEF EndTasks, LoopReturns, LoopAgain
<1> QED
  BY <1>1, <1>2

\* A callback is made during dispatch, when there is no batch of tasks.
LEMMA CallbackLoop ==
    ASSUME LoopInv, NEW kind, Callback(kind), Live \subseteq Live',
           pending_tasks_' \in Seq(Task)
    PROVE  LoopInv' /\ phase = "dispatch" /\ phase' = "dispatch" /\ tasks = <<>> /\ tasks' = <<>>
<1>1. phase = "dispatch" /\ phase' = "dispatch" /\ tasks = <<>> /\ tasks' = <<>>
  BY DEF Callback, LoopInv
<1>2. callbacks' \in Seq({"close", "read"})
  BY TailFacts DEF Callback, LoopInv
<1> QED
  BY <1>1, <1>2 DEF Callback, LoopInv, Phases

\* A callback that does nothing.
LEMMA NoChangePreserves ==
    ASSUME HttpInv, NEW kind, Callback(kind), NoChange PROVE HttpInv'
<1>1. Live' = Live /\ pending_tasks_' \in Seq(Task)
  BY DEF NoChange, serverVars, Live, HttpInv, LoopInv
<1>2. LoopInv' /\ phase' = "dispatch"
  BY <1>1, CallbackLoop DEF HttpInv
<1>3. UNCHANGED <<serverVars, pollerVars, open, pending_tasks_>> /\ tasks' = tasks
  BY DEF NoChange, Callback
<1> QED
  BY <1>2, <1>3, QuietStep

\* A callback that closes an open connection: the deletion it queues is for a
\* connection that is there, and closed.
LEMMA CloseStep ==
    ASSUME HttpInv, NEW kind, Callback(kind), NEW fd, IsOpen(fd), CloseConnection(fd, armed)
    PROVE  HttpInv'
<1> DEFINE c == connections_[fd]
           task == [kind |-> "erase", fd |-> fd, id |-> c]
<1>1. /\ ServerInv' /\ Live' = Live /\ Conns' = Conns
      /\ UNCHANGED <<alive, running_, connections_>>
      /\ c \in Conns /\ c \in Ids /\ fd \in Fds /\ fd \in DOMAIN connections_
      /\ chan'[c].closed /\ chan'[c].fd = fd
      /\ \A d \in Live \ {c} : chan'[d] = chan[d]
  BY ClosePreserves DEF HttpInv, IsOpen
<1>2. task \in Task /\ task.kind = "erase" /\ task.fd = fd /\ task.id = c
  BY <1>1 DEF Task
<1>3. pending_tasks_' = Append(pending_tasks_, task)
  BY DEF CloseConnection
<1> HIDE DEF task
<1>4. /\ pending_tasks_' \in Seq(Task)
      /\ DOMAIN pending_tasks_' = DOMAIN pending_tasks_ \cup {Len(pending_tasks_) + 1}
      /\ pending_tasks_'[Len(pending_tasks_) + 1] = task
      /\ \A i \in DOMAIN pending_tasks_ : pending_tasks_'[i] = pending_tasks_[i]
  BY <1>2, <1>3, AppendFacts DEF HttpInv, LoopInv
<1>5. LoopInv' /\ phase = "dispatch" /\ phase' = "dispatch" /\ tasks = <<>> /\ tasks' = <<>>
  BY <1>1, <1>4, CallbackLoop DEF HttpInv
<1>6. \A i \in Erases(pending_tasks_') :
         \/ i \in Erases(pending_tasks_) /\ pending_tasks_'[i] = pending_tasks_[i]
         \/ pending_tasks_'[i] = task
  BY <1>4 DEF Erases
<1>7. Erases(pending_tasks_) \cup {Len(pending_tasks_) + 1} \subseteq Erases(pending_tasks_')
  BY <1>2, <1>4 DEF Erases
<1> HIDE DEF c
<1>8. EraseInv'
  <2>1. ASSUME NEW i \in Erases(pending_tasks_')
        PROVE  /\ pending_tasks_'[i].fd \in DOMAIN connections_'
               /\ connections_'[pending_tasks_'[i].fd] = pending_tasks_'[i].id
               /\ chan'[pending_tasks_'[i].id].closed
    <3>1. CASE pending_tasks_'[i] = task
      BY <1>1, <1>2, <3>1 DEF c
    <3>2. CASE i \in Erases(pending_tasks_) /\ pending_tasks_'[i] = pending_tasks_[i]
      <4> DEFINE old == pending_tasks_[i]
      <4>1. old.fd \in DOMAIN connections_ /\ connections_[old.fd] = old.id /\ chan[old.id].closed
            /\ old.id \in Live
        BY <3>2 DEF HttpInv, EraseInv, Dooms, ServerInv, OwnerInv, Conns
      <4>2. chan'[old.id].closed
        BY <1>1, <4>1
      <4> QED
        BY <1>1, <3>2, <4>1, <4>2
    <3> QED
      BY <1>6, <3>1, <3>2
  <2>2. ASSUME NEW d \in Conns', chan'[d].closed
        PROVE  \E i \in Erases(pending_tasks_') : pending_tasks_'[i].fd = chan'[d].fd
    <3>1. CASE d = c
      BY <1>1, <1>2, <1>4, <1>7, <3>1
    <3>2. CASE d # c
      <4>1. d \in Conns /\ chan'[d] = chan[d]
        BY <1>1, <3>2 DEF Conns
      <4>2. PICK i \in Erases(pending_tasks_) : pending_tasks_[i].fd = chan[d].fd
        BY <1>5, <2>2, <4>1 DEF HttpInv, EraseInv, Erases
      <4> QED
        BY <1>4, <1>7, <4>1, <4>2 DEF Erases
    <3> QED
      BY <3>1, <3>2
  <2>3. alive'
    BY <1>1 DEF HttpInv, ServerInv, OwnerInv, EraseInv, Conns
  <2>4. Erases(tasks') = {}
    BY <1>5 DEF Erases
  <2> QED
    BY <1>5, <2>1, <2>2, <2>3, <2>4 DEF EraseInv, Dooms
<1> QED
  BY <1>1, <1>5, <1>8 DEF HttpInv

\* The close and error callbacks.
LEMMA OnClosePreserves == ASSUME HttpInv, OnClose PROVE HttpInv'
<1>1. CASE NoChange
  BY <1>1, NoChangePreserves DEF OnClose
<1>2. CASE IsOpen(chan[current].fd) /\ CloseConnection(chan[current].fd, armed)
  BY <1>2, CloseStep DEF OnClose
<1> QED
  BY <1>1, <1>2 DEF OnClose

\* The read callback of a connection.
LEMMA OnMessagePreserves == ASSUME HttpInv, OnMessage PROVE HttpInv'
<1> DEFINE fd == chan[current].fd
<1>1. CASE NoChange
  BY <1>1, NoChangePreserves DEF OnMessage
<1>2. IsOpen(fd) => RefreshTimeout(armed, connections_[fd]) = armed
  BY RefreshIsSame DEF IsOpen, HttpInv, ServerInv, OwnerInv
<1>3. CASE IsOpen(fd) /\ (CloseConnection(fd, armed)
                          \/ CloseConnection(fd, RefreshTimeout(armed, connections_[fd])))
  BY <1>2, <1>3, CloseStep DEF OnMessage
<1>4. CASE /\ IsOpen(fd)
           /\ armed' = RefreshTimeout(armed, connections_[fd])
           /\ UNCHANGED <<alive, running_, listen_channel_, connections_, chan, created,
                          pollerVars, open, pending_tasks_>>
  <2>1. NoChange
    BY <1>2, <1>4 DEF NoChange, serverVars
  <2> QED
    BY <2>1, NoChangePreserves DEF OnMessage
<1> QED
  BY <1>1, <1>3, <1>4 DEF OnMessage

\* The read callback of the listening Channel: the deletions that are queued are
\* of connections that are there, so none is of the descriptor accept() returns.
LEMMA OnAcceptPreserves == ASSUME HttpInv, OnAccept PROVE HttpInv'
<1>1. CASE NoChange
  BY <1>1, NoChangePreserves DEF OnAccept
<1>2. CASE ~NoChange
  <2>1. /\ created + MaxUserTasks < MaxChannels /\ created' = created + 1
        /\ armed' = RefreshTimeout(armed, created + 1)
        /\ UNCHANGED <<alive, running_, listen_channel_, pending_tasks_>>
        /\ current = listen_channel_ /\ Callback("read")
    BY <1>2 DEF OnAccept
  <2>2. PICK fd \in Fds \ open :
           /\ open' = open \cup {fd}
           /\ chan' = Put(chan, created + 1,
                          [fd |-> fd, events |-> {"read"}, closed |-> FALSE])
           /\ UpdateChannel(created + 1, fd)
           /\ connections_' = Put(connections_, fd, created + 1)
    BY <1>2 DEF OnAccept
  <2>3. created < MaxChannels
    BY <2>1 DEF HttpInv, ServerInv, PollerInv
  <2>4. Registers(fd) /\ listen_channel_ # 0
    BY <2>1, <2>2, <2>3 DEF Registers, Callback
  <2> DEFINE n == created + 1
  <2>5. /\ ServerInv' /\ Live \subseteq Live'
        /\ Conns' = Conns \cup {n} /\ ~chan'[n].closed
        /\ \A d \in Live : chan'[d] = chan[d]
        /\ \A e \in DOMAIN connections_ :
              e \in DOMAIN connections_' /\ connections_'[e] = connections_[e]
    BY <2>1, <2>2, <2>4, AcceptPreserves DEF HttpInv
  <2> HIDE DEF n
  <2>6. LoopInv' /\ phase = "dispatch" /\ phase' = "dispatch" /\ tasks = <<>> /\ tasks' = <<>>
    BY <2>1, <2>5, CallbackLoop DEF HttpInv, LoopInv
  <2>7. EraseInv'
    <3>1. ASSUME NEW i \in Erases(pending_tasks_)
          PROVE  /\ pending_tasks_[i].fd \in DOMAIN connections_'
                 /\ connections_'[pending_tasks_[i].fd] = pending_tasks_[i].id
                 /\ chan'[pending_tasks_[i].id].closed
      <4> DEFINE task == pending_tasks_[i]
      <4>1. /\ task.fd \in DOMAIN connections_ /\ connections_[task.fd] = task.id
            /\ chan[task.id].closed /\ task.id \in Live
        BY <3>1 DEF HttpInv, EraseInv, Dooms, ServerInv, OwnerInv, Conns
      <4> HIDE DEF task
      <4>2. task.fd \in DOMAIN connections_' /\ connections_'[task.fd] = task.id
            /\ chan'[task.id] = chan[task.id]
        BY ONLY <2>5, <4>1
      <4> QED
        BY ONLY <4>1, <4>2 DEF task
    <3>2. ASSUME NEW d \in Conns', chan'[d].closed
          PROVE  \E i \in Erases(pending_tasks_) : pending_tasks_[i].fd = chan'[d].fd
      <4>1. d \in Conns /\ chan'[d] = chan[d]
        BY <2>5, <3>2 DEF Conns
      <4>2. chan[d].closed /\ Erases(tasks) = {}
        BY <2>6, <3>2, <4>1 DEF Erases
      <4>3. \E i \in Erases(pending_tasks_) : pending_tasks_[i].fd = chan[d].fd
        BY <4>1, <4>2 DEF HttpInv, EraseInv
      <4> QED
        BY <4>1, <4>3
    <3>3. alive' /\ pending_tasks_' = pending_tasks_
      BY <2>1, <2>4 DEF HttpInv, ServerInv, OwnerInv, EraseInv
    <3>4. Erases(tasks') = {} /\ Erases(pending_tasks_') = Erases(pending_tasks_)
      BY <2>6, <3>3 DEF Erases
    <3>5. \A i \in Erases(pending_tasks_') : Dooms(pending_tasks_[i])'
      BY <3>1, <3>3, <3>4 DEF Dooms
    <3>6. \A i \in Erases(pending_tasks_) : pending_tasks_'[i] = pending_tasks_[i]
      BY <3>3
    <3> QED
      BY <2>6, <3>2, <3>3, <3>4, <3>5, <3>6 DEF EraseInv
  <2> QED
    BY <2>5, <2>6, <2>7 DEF HttpInv
<1> QED
  BY <1>1, <1>2

-----------------------------------------------------------------------------
(* The tasks.                                                              *)

\* Another part of the program queues a call of start() or stop().
LEMMA QueueUserTaskPreserves ==
    ASSUME HttpInv, NEW kind \in {"start", "stop"}, QueueUserTask(kind) PROVE HttpInv'
<1> DEFINE task == [kind |-> kind]
<1>1. UNCHANGED <<alive, running_, listen_channel_, connections_, chan, armed, created,
                  channels_, channel_list_, open, phase, active, tasks, current, callbacks>>
      /\ Live' = Live /\ Conns' = Conns /\ alive
  BY DEF QueueUserTask, serverVars, pollerVars, loopVars, Live, Conns
<1>2. task \in Task /\ task.kind # "erase"
  BY DEF Task
<1>3. pending_tasks_' = Append(pending_tasks_, task)
      /\ userTasks' \in 0..MaxUserTasks
  BY DEF QueueUserTask, HttpInv, LoopInv
<1> HIDE DEF task
<1>4. /\ pending_tasks_' \in Seq(Task)
      /\ DOMAIN pending_tasks_' = DOMAIN pending_tasks_ \cup {Len(pending_tasks_) + 1}
      /\ pending_tasks_'[Len(pending_tasks_) + 1] = task
      /\ \A i \in DOMAIN pending_tasks_ : pending_tasks_'[i] = pending_tasks_[i]
  BY <1>2, <1>3, AppendFacts DEF HttpInv, LoopInv
<1>5. Erases(pending_tasks_') = Erases(pending_tasks_)
      /\ \A i \in Erases(pending_tasks_) : pending_tasks_'[i] = pending_tasks_[i]
  BY <1>2, <1>4 DEF Erases
<1>6. ServerInv'
  BY <1>1 DEF HttpInv, ServerInv, PollerInv, OwnerInv, TimerInv
<1>7. LoopInv'
  BY <1>1, <1>3, <1>4 DEF HttpInv, LoopInv
<1>8. EraseInv'
  <2>1. Erases(tasks') = Erases(tasks)
    BY <1>1
  <2> QED
    BY <1>1, <1>5, <2>1 DEF HttpInv, EraseInv, Dooms
<1> QED
  BY <1>6, <1>7, <1>8 DEF HttpInv

\* The batch is what was queued.
LEMMA BeginTasksPreserves == ASSUME HttpInv, BeginTasks PROVE HttpInv'
<1>1. UNCHANGED <<alive, running_, listen_channel_, connections_, chan, armed, created,
                  channels_, channel_list_, open, active, current, callbacks, userTasks>>
      /\ Live' = Live /\ Conns' = Conns
      /\ tasks' = pending_tasks_ /\ pending_tasks_' = <<>> /\ phase' = "tasks"
      /\ phase = "dispatch" /\ tasks = <<>> /\ active = <<>> /\ current = 0
  BY DEF BeginTasks, serverVars, pollerVars, Live, Conns, HttpInv, LoopInv
<1>2. ServerInv'
  BY <1>1 DEF HttpInv, ServerInv, PollerInv, OwnerInv, TimerInv
<1>3. LoopInv'
  BY <1>1 DEF HttpInv, LoopInv, Phases
<1>4. Erases(tasks) = {} /\ Erases(pending_tasks_') = {} /\ Erases(tasks') = Erases(pending_tasks_)
  BY <1>1 DEF Erases
<1>5. EraseInv'
  BY <1>1, <1>4 DEF HttpInv, EraseInv, Dooms
<1> QED
  BY <1>2, <1>3, <1>5 DEF HttpInv

\* A task of the batch is run when no Channel is being handled and no deletion
\* is queued behind it.
LEMMA RunTaskLoop ==
    ASSUME HttpInv, NEW kind, RunTask(kind)
    PROVE  /\ alive' = alive => LoopInv'
           /\ phase' = "tasks" /\ alive
           /\ pending_tasks_' = pending_tasks_ /\ Erases(pending_tasks_) = {}
           /\ 1 \in DOMAIN tasks /\ Head(tasks) = tasks[1] /\ tasks[1].kind = kind
           /\ \A i \in Erases(tasks') : i + 1 \in Erases(tasks) /\ tasks'[i] = tasks[i + 1]
           /\ \A i \in Erases(tasks) \ {1} : i - 1 \in Erases(tasks') /\ tasks'[i - 1] = tasks[i]
<1>1. /\ phase = "tasks" /\ phase' = "tasks" /\ tasks # <<>> /\ tasks' = Tail(tasks)
      /\ Head(tasks).kind = kind
      /\ UNCHANGED <<active, current, callbacks, pending_tasks_, userTasks>>
  BY DEF RunTask
<1>2. /\ 1 \in DOMAIN tasks /\ Head(tasks) = tasks[1] /\ tasks' \in Seq(Task)
      /\ \A i \in DOMAIN tasks' : i + 1 \in DOMAIN tasks /\ tasks'[i] = tasks[i + 1]
      /\ \A i \in DOMAIN tasks \ {1} : i - 1 \in DOMAIN tasks' /\ tasks'[i - 1] = tasks[i]
  BY <1>1, TailFacts DEF HttpInv, LoopInv
<1>3. active = <<>> /\ current = 0 /\ Erases(pending_tasks_) = {} /\ alive
  BY <1>1 DEF HttpInv, LoopInv, EraseInv
<1>4. alive' = alive => LoopInv'
  BY <1>1, <1>2, <1>3 DEF HttpInv, LoopInv, Phases
<1>5. /\ \A i \in Erases(tasks') : i + 1 \in Erases(tasks) /\ tasks'[i] = tasks[i + 1]
      /\ \A i \in Erases(tasks) \ {1} : i - 1 \in Erases(tasks') /\ tasks'[i - 1] = tasks[i]
  BY <1>2 DEF Erases
<1> QED
  BY <1>1, <1>2, <1>3, <1>4, <1>5

\* connections_.erase(fd): it finds the connection it was queued for, or nothing.
LEMMA EraseTaskPreserves == ASSUME HttpInv, Erase PROVE HttpInv'
<1> DEFINE fd == tasks[1].fd
<1>1. /\ alive' = alive => LoopInv'
      /\ phase' = "tasks" /\ alive
      /\ pending_tasks_' = pending_tasks_ /\ Erases(pending_tasks_) = {}
      /\ 1 \in DOMAIN tasks /\ Head(tasks) = tasks[1] /\ tasks[1].kind = "erase"
      /\ \A i \in Erases(tasks') : i + 1 \in Erases(tasks) /\ tasks'[i] = tasks[i + 1]
      /\ \A i \in Erases(tasks) \ {1} : i - 1 \in Erases(tasks') /\ tasks'[i - 1] = tasks[i]
  BY RunTaskLoop DEF Erase
<1>2. Erases(pending_tasks_') = {} /\ 1 \in Erases(tasks)
  BY <1>1 DEF Erases
<1>3. ASSUME NEW d \in Conns, chan[d].closed, chan[d].fd # fd
      PROVE  \E i \in Erases(tasks') : tasks'[i].fd = chan[d].fd
  <2>1. PICK i \in Erases(tasks) : tasks[i].fd = chan[d].fd
    BY <1>1, <1>3 DEF HttpInv, EraseInv
  <2>2. i # 1
    BY <1>3, <2>1
  <2> QED
    BY <1>1, <2>1, <2>2
<1>4. CASE fd \in DOMAIN connections_
  <2> DEFINE c == connections_[fd]
  <2>1. chan[c].closed
    BY <1>2, <1>4 DEF HttpInv, EraseInv, Dooms
  <2>2. /\ RemoveChannels({c}) /\ chan' = Drop(chan, {c})
        /\ open' = open \ {fd} /\ connections_' = Drop(connections_, {fd})
        /\ UNCHANGED <<alive, running_, listen_channel_, armed, created>>
    BY <1>1, <1>4 DEF Erase
  <2>3. /\ ServerInv' /\ Conns' = Conns \ {c}
        /\ DOMAIN connections_' = DOMAIN connections_ \ {fd}
        /\ \A e \in DOMAIN connections_' : connections_'[e] = connections_[e]
        /\ \A d \in Conns' : chan'[d] = chan[d] /\ chan[d].fd # fd
        /\ \A e \in DOMAIN connections_' : connections_[e] \in Conns'
    BY <1>4, <2>1, <2>2, ErasePreserves DEF HttpInv
  <2> HIDE DEF c, fd
  <2>4. ASSUME NEW i \in Erases(tasks'), tasks'[i].fd \in DOMAIN connections_'
        PROVE  connections_'[tasks'[i].fd] = tasks'[i].id /\ chan'[tasks'[i].id].closed
    <3> DEFINE task == tasks[i + 1]
    <3>1. i + 1 \in Erases(tasks) /\ tasks'[i] = task /\ task.fd \in DOMAIN connections_'
          /\ task.fd \in DOMAIN connections_
      BY <1>1, <2>3, <2>4
    <3>2. connections_[task.fd] = task.id /\ chan[task.id].closed
      BY <3>1 DEF HttpInv, EraseInv, Dooms
    <3> HIDE DEF task
    <3>3. connections_'[task.fd] = task.id /\ task.id \in Conns' /\ chan'[task.id].closed
      BY ONLY <2>3, <3>1, <3>2
    <3> QED
      BY ONLY <3>1, <3>3
  <2>5. ASSUME NEW d \in Conns', chan'[d].closed
        PROVE  \E i \in Erases(tasks') : tasks'[i].fd = chan'[d].fd
    <3>1. d \in Conns /\ chan'[d] = chan[d] /\ chan[d].fd # fd
      BY <2>3
    <3>2. \E i \in Erases(tasks') : tasks'[i].fd = chan[d].fd
      BY <1>3, <2>5, <3>1
    <3> QED
      BY <3>1, <3>2
  <2>6. EraseInv'
    BY <1>1, <1>2, <2>2, <2>4, <2>5 DEF EraseInv, Dooms
  <2> QED
    BY <1>1, <2>2, <2>3, <2>6 DEF HttpInv
<1>5. CASE fd \notin DOMAIN connections_
  <2>1. UNCHANGED <<alive, running_, listen_channel_, connections_, chan, armed, created,
                    channels_, channel_list_, open>> /\ Live' = Live /\ Conns' = Conns
    BY <1>1, <1>5 DEF Erase, serverVars, pollerVars, Live, Conns
  <2>2. ServerInv'
    BY <2>1 DEF HttpInv, ServerInv, PollerInv, OwnerInv, TimerInv
  <2>3. \A d \in Conns : chan[d].fd # fd
    BY <1>5 DEF HttpInv, ServerInv, OwnerInv
  <2> HIDE DEF fd
  <2>4. \A i \in Erases(tasks') : tasks'[i].fd \in DOMAIN connections_ => Dooms(tasks'[i])
    BY <1>1 DEF HttpInv, EraseInv
  <2>5. \A d \in Conns : chan[d].closed => \E i \in Erases(tasks') : tasks'[i].fd = chan[d].fd
    BY <1>3, <2>3
  <2>6. EraseInv'
    BY <1>1, <1>2, <2>1, <2>4, <2>5 DEF EraseInv, Dooms
  <2> QED
    BY <1>1, <2>1, <2>2, <2>6 DEF HttpInv
<1> QED
  BY <1>4, <1>5

\* start() as a task.
LEMMA StartTaskPreserves == ASSUME HttpInv, StartTask PROVE HttpInv'
<1>1. /\ alive' = alive => LoopInv'
      /\ phase' = "tasks" /\ alive
      /\ pending_tasks_' = pending_tasks_ /\ Erases(pending_tasks_) = {}
      /\ 1 \in DOMAIN tasks /\ Head(tasks) = tasks[1] /\ tasks[1].kind = "start"
      /\ \A i \in Erases(tasks') : i + 1 \in Erases(tasks) /\ tasks'[i] = tasks[i + 1]
      /\ \A i \in Erases(tasks) \ {1} : i - 1 \in Erases(tasks') /\ tasks'[i - 1] = tasks[i]
  BY RunTaskLoop DEF StartTask
<1>2. /\ ServerInv' /\ Live \subseteq Live' /\ Conns' = Conns
      /\ connections_' = connections_ /\ alive' = alive
      /\ \A d \in Live : chan'[d] = chan[d]
  BY StartServerPreserves DEF StartTask, HttpInv
<1>3. Erases(pending_tasks_') = {} /\ 1 \notin Erases(tasks)
  BY <1>1 DEF Erases
<1>4. ASSUME NEW i \in Erases(tasks'), tasks'[i].fd \in DOMAIN connections_
      PROVE  connections_[tasks'[i].fd] = tasks'[i].id /\ chan'[tasks'[i].id].closed
  <2> DEFINE task == tasks[i + 1]
  <2>1. tasks'[i] = task /\ connections_[task.fd] = task.id /\ chan[task.id].closed
        /\ task.id \in Live
    BY <1>1, <1>4 DEF HttpInv, EraseInv, Dooms, ServerInv, OwnerInv, Conns
  <2> HIDE DEF task
  <2> QED
    BY <1>2, <2>1
<1>5. ASSUME NEW d \in Conns', chan'[d].closed
      PROVE  \E i \in Erases(tasks') : tasks'[i].fd = chan'[d].fd
  <2>1. d \in Conns /\ chan'[d] = chan[d]
    BY <1>2 DEF Conns
  <2>2. PICK i \in Erases(tasks) : tasks[i].fd = chan[d].fd
    BY <1>1, <1>5, <2>1 DEF HttpInv, EraseInv
  <2> QED
    BY <1>1, <1>3, <2>1, <2>2
<1>6. EraseInv'
  BY <1>1, <1>2, <1>3, <1>4, <1>5 DEF EraseInv, Dooms
<1> QED
  BY <1>1, <1>2, <1>6 DEF HttpInv

\* stop() as a task: deletions left in the batch find nothing.
LEMMA StopTaskPreserves == ASSUME HttpInv, StopTask PROVE HttpInv'
<1>1. /\ alive' = alive => LoopInv'
      /\ phase' = "tasks" /\ alive
      /\ pending_tasks_' = pending_tasks_ /\ Erases(pending_tasks_) = {}
  BY RunTaskLoop DEF StopTask
<1>2. alive' = alive /\ alive' \in BOOLEAN
  BY DEF StopTask, HttpInv, ServerInv, OwnerInv
<1>3. ServerInv' /\ Live' = {} /\ DOMAIN connections_' = {}
  BY <1>2, StopServerPreserves DEF StopTask, HttpInv
<1>4. EraseInv'
  BY <1>1, <1>2, <1>3 DEF EraseInv, Conns, Erases
<1> QED
  BY <1>1, <1>2, <1>3, <1>4 DEF HttpInv

\* start() before loop().
LEMMA StartPreserves == ASSUME HttpInv, Start PROVE HttpInv'
<1>1. /\ ServerInv' /\ Live \subseteq Live' /\ Conns' = Conns
      /\ connections_' = connections_ /\ alive' = alive
      /\ \A d \in Live : chan'[d] = chan[d]
  BY StartServerPreserves DEF Start, HttpInv
<1>2. /\ phase = "setup" /\ phase' = "poll" /\ alive /\ tasks = <<>>
      /\ UNCHANGED <<active, tasks, current, callbacks, pending_tasks_, userTasks>>
  BY DEF Start, HttpInv, LoopInv
<1>3. LoopInv'
  BY <1>1, <1>2 DEF HttpInv, LoopInv, Phases
<1>4. Erases(pending_tasks_) = {} /\ Erases(pending_tasks_') = {} /\ Erases(tasks') = {}
      /\ Erases(tasks) = {}
  BY <1>2 DEF HttpInv, EraseInv, Erases
<1>5. \A d \in Conns' : ~chan'[d].closed
  <2>1. \A d \in Conns : ~chan[d].closed
    BY <1>4 DEF HttpInv, EraseInv
  <2> QED
    BY <1>1, <2>1 DEF Conns
<1>6. EraseInv'
  BY <1>1, <1>2, <1>4, <1>5 DEF EraseInv
<1> QED
  BY <1>1, <1>3, <1>6 DEF HttpInv

\* ~HttpServer() after loop(): no task is left that would use the server.
LEMMA DestroyPreserves == ASSUME HttpInv, Destroy PROVE HttpInv'
<1>1. /\ phase = "returned" /\ alive' = FALSE
      /\ UNCHANGED <<phase, active, tasks, current, callbacks, pending_tasks_, userTasks>>
      /\ active = <<>> /\ current = 0 /\ tasks = <<>> /\ pending_tasks_ \in Seq(Task)
  BY DEF Destroy, loopVars, HttpInv, LoopInv
<1>2. pending_tasks_ = <<>>
  <2>1. DOMAIN pending_tasks_ = {}
    BY <1>1 DEF Destroy, HttpInv, EraseInv, Erases
  <2> QED
    BY <1>1, <2>1
<1>3. ServerInv' /\ Live' = {} /\ ~running_' /\ DOMAIN connections_' = {}
  BY <1>1, StopServerPreserves DEF Destroy, HttpInv
<1>4. LoopInv'
  BY <1>1 DEF HttpInv, LoopInv
<1>5. EraseInv'
  BY <1>1, <1>2, <1>3 DEF EraseInv, Conns, Erases
<1> QED
  BY <1>3, <1>4, <1>5 DEF HttpInv

LEMMA NextPreserves == HttpInv /\ [Next]_vars => HttpInv'
<1> SUFFICES ASSUME HttpInv, [Next]_vars PROVE HttpInv'
  OBVIOUS
<1>1. CASE Start
  BY <1>1, StartPreserves
<1>2. ASSUME NEW kind \in {"start", "stop"}, QueueUserTask(kind) PROVE HttpInv'
  BY <1>2, QueueUserTaskPreserves
<1>3. CASE Poll
  BY <1>3, PollPreserves
<1>4. CASE HandleEvent
  BY <1>4, HandleEventPreserves
<1>5. CASE OnClose
  BY <1>5, OnClosePreserves
<1>6. CASE OnAccept
  BY <1>6, OnAcceptPreserves
<1>7. CASE OnMessage
  BY <1>7, OnMessagePreserves
<1>8. CASE BeginTasks
  BY <1>8, BeginTasksPreserves
<1>9. CASE Erase
  BY <1>9, EraseTaskPreserves
<1>10. CASE StartTask
  BY <1>10, StartTaskPreserves
<1>11. CASE StopTask
  BY <1>11, StopTaskPreserves
<1>12. CASE EndEvent \/ EndTasks \/ LoopReturns \/ LoopAgain
  BY <1>12, EndsPreserve
<1>13. CASE Destroy
  BY <1>13, DestroyPreserves
<1>14. CASE UNCHANGED vars
  <2>1. Live' = Live => LoopInv'
    BY <1>14 DEF vars, serverVars, loopVars, HttpInv, LoopInv
  <2>2. phase' # "dispatch" => Erases(pending_tasks_) = {}
    BY <1>14 DEF vars, loopVars, HttpInv, EraseInv
  <2> QED
    BY <1>14, <2>1, <2>2, QuietStep DEF vars, loopVars
<1> QED
  BY <1>1, <1>2, <1>3, <1>4, <1>5, <1>6, <1>7, <1>8, <1>9, <1>10, <1>11, <1>12, <1>13, <1>14
  DEF Next

LEMMA AlwaysHttpInv == Spec => []HttpInv
BY InitEstablishes, NextPreserves, PTL DEF Spec

-----------------------------------------------------------------------------
(* The theorems.                                                           *)

\* The server, the poller and the loop have their types.
THEOREM HttpTypeCorrect == Spec => []TypeOK
<1>1. ASSUME HttpInv PROVE TypeOK
  <2>1. PollerInv /\ OwnerInv /\ TimerInv /\ LoopInv
    BY <1>1 DEF HttpInv, ServerInv
  <2>2. Live \subseteq Ids /\ Connections \subseteq Ids
    BY <2>1, LiveAreIds, ConnsAreConnections DEF Conns
  <2>3. Range(chan) \subseteq Channel
    BY <2>1 DEF PollerInv, Range, Live
  <2>4. open \subseteq Fds /\ DOMAIN channels_ \subseteq Fds /\ DOMAIN connections_ \subseteq Fds
    <3>1. \A c \in Live : chan[c].fd \in Fds
      BY <2>1 DEF PollerInv, Channel
    <3>2. /\ open = DOMAIN channels_
          /\ \A fd \in DOMAIN channels_ : channels_[fd] \in Live /\ chan[channels_[fd]].fd = fd
      BY <2>1 DEF PollerInv
    <3>3. \A fd \in DOMAIN connections_ :
             connections_[fd] \in Live /\ chan[connections_[fd]].fd = fd
      BY <2>1 DEF OwnerInv, Conns
    <3> QED
      BY <3>1, <3>2, <3>3
  <2>5. Range(channels_) \subseteq Ids
    BY <2>1, <2>2 DEF PollerInv, Range
  <2> QED
    BY <2>1, <2>2, <2>3, <2>4, <2>5 DEF PollerInv, OwnerInv, TimerInv, LoopInv, TypeOK
<1> QED
  BY <1>1, AlwaysHttpInv, PTL

\* The raw Channel pointers of the poller, of handle_event() and of the list of
\* active Channels are live, whatever the callbacks of an iteration do.
THEOREM ChannelsAreLive == Spec => []NoDanglingChannel
<1>1. ASSUME HttpInv PROVE NoDanglingChannel
  <2>1. PollerInv /\ LoopInv
    BY <1>1 DEF HttpInv, ServerInv
  <2>2. Range(channels_) \subseteq Live
    BY <2>1 DEF PollerInv, Range
  <2> QED
    BY <2>1, <2>2 DEF PollerInv, LoopInv, NoDanglingChannel
<1> QED
  BY <1>1, AlwaysHttpInv, PTL

\* select() is called with the descriptors that are open, each under its own
\* Channel, and no closed connection is left.
THEOREM PollsTheOpenSockets == Spec => []PollsExactlyTheOpenSockets
<1>1. ASSUME HttpInv PROVE PollsExactlyTheOpenSockets
  <2>1. PollerInv /\ OwnerInv /\ LoopInv /\ EraseInv
    BY <1>1 DEF HttpInv, ServerInv
  <2>2. Connections = Conns /\ 0 \notin Live
    BY <2>1, LiveAreIds, ConnsAreConnections
  <2>3. Range(channels_) = Live
    <3>1. \A fd \in DOMAIN channels_ : channels_[fd] \in Live
      BY <2>1 DEF PollerInv
    <3>2. \A c \in Live : \E fd \in DOMAIN channels_ : channels_[fd] = c
      BY <2>1 DEF PollerInv
    <3> QED
      BY ONLY <3>1, <3>2 DEF Range
  <2>4. Live = Conns \cup ({listen_channel_} \ {0})
    BY <2>1, <2>2 DEF OwnerInv, Conns
  <2>5. ASSUME phase = "poll" PROVE \A c \in Conns : ~chan[c].closed
    <3>1. Erases(pending_tasks_) = {} /\ Erases(tasks) = {}
      BY <2>1, <2>5 DEF EraseInv, LoopInv, Erases
    <3> QED
      BY <2>1, <3>1 DEF EraseInv
  <2>6. /\ DOMAIN channels_ = open /\ Range(channel_list_) = Live
        /\ \A fd \in open : channels_[fd] \in Live /\ chan[channels_[fd]].fd = fd
    BY <2>1 DEF PollerInv
  <2> QED
    BY <2>2, <2>3, <2>4, <2>5, <2>6 DEF PollsExactlyTheOpenSockets
<1> QED
  BY <1>1, AlwaysHttpInv, PTL

\* The deletion on_close() queues, which captures the server and a descriptor,
\* runs on a live server and hits the connection that was closed.
THEOREM EraseIsSafe == Spec => []EraseHitsItsConnection
<1>1. ASSUME HttpInv PROVE EraseHitsItsConnection
  <2>1. EraseInv
    BY <1>1 DEF HttpInv
  <2>2. ~alive => Erases(pending_tasks_) = {} /\ Erases(tasks) = {}
    BY <2>1 DEF EraseInv, Erases
  <2>3. ASSUME NEW i \in DOMAIN pending_tasks_, pending_tasks_[i].kind = "erase"
        PROVE  alive /\ Dooms(pending_tasks_[i])
    BY <2>1, <2>2, <2>3 DEF EraseInv, Erases
  <2>4. ASSUME NEW i \in DOMAIN tasks, tasks[i].kind = "erase"
        PROVE  alive /\ (tasks[i].fd \in DOMAIN connections_ => Dooms(tasks[i]))
    BY <2>1, <2>2, <2>4 DEF EraseInv, Erases
  <2> QED
    BY <2>3, <2>4 DEF EraseHitsItsConnection, Dooms
<1> QED
  BY <1>1, AlwaysHttpInv, PTL

\* Every open connection has one idle timer, and no timer holds a connection that
\* is closed or destroyed.
THEOREM TimersAreOwned == Spec => []TimersBelongToOpenConnections
<1>1. ASSUME HttpInv PROVE TimersBelongToOpenConnections
  <2>1. OwnerInv /\ TimerInv
    BY <1>1 DEF HttpInv, ServerInv
  <2> QED
    BY <2>1, ConnsAreConnections DEF TimerInv, TimersBelongToOpenConnections
<1> QED
  BY <1>1, AlwaysHttpInv, PTL

=============================================================================
