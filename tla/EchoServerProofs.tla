-------------------------- MODULE EchoServerProofs -------------------------
(***************************************************************************)
(* The connections of the echo server and the bytes it sends back.         *)
(* OwnedInv is the reason why a deletion by descriptor is safe: every      *)
(* deletion that is queued names a connection that is still there and      *)
(* closed, so that its descriptor cannot have been given away.             *)
(***************************************************************************)
EXTENDS EchoServer, SequenceTheorems, TLAPS

USE EchoAssumption

\* connections_ and the poller's map are the same function, the inverse of the
\* descriptor of a live connection.
MapInv ==
    /\ connections_ = watched
    /\ \A fd \in DOMAIN connections_ :
          connections_[fd] \in Live /\ conn[connections_[fd]].fd = fd
    /\ \A c \in Live : conn[c].fd \in DOMAIN connections_ /\ connections_[conn[c].fd] = c

\* Objects are numbered in the order they are made; an open connection has one
\* idle timer, anything else none; an active Channel is live.
LifeInv ==
    /\ Live \subseteq 1..created
    /\ \A c \in Ids : armed[c] = IF c \in Live /\ ~conn[c].closed THEN 1 ELSE 0
    /\ DOMAIN active \ {0} \subseteq Live

\* A deletion is queued for a connection that is live and closed.
OwnedInv ==
    \A i \in DOMAIN pending_tasks_ :
        /\ pending_tasks_[i].id \in Live
        /\ conn[pending_tasks_[i].id].fd = pending_tasks_[i].fd
        /\ conn[pending_tasks_[i].id].closed

\* Nothing is read or sent on a connection before it is made.
FreshInv ==
    \A c \in Ids : c > created => got[c] = 0 /\ echoed[c] = <<>>

\* The type invariant in two parts, which the lemmas treat apart.
ServerType ==
    /\ DOMAIN connections_ \subseteq Fds /\ Range(connections_) \subseteq Ids
    /\ Live \subseteq Ids /\ Range(conn) \subseteq [fd : Fds, closed : BOOLEAN]
    /\ DOMAIN watched \subseteq Fds /\ Range(watched) \subseteq Ids
    /\ armed \in [Ids -> 0..1]
    /\ pending_tasks_ \in Seq([fd : Fds, id : Ids])
    /\ phase \in {"poll", "dispatch"}
    /\ DOMAIN active \subseteq Ids \cup {0}
    /\ created \in 0..MaxConnections

StreamType ==
    /\ DOMAIN got = Ids /\ DOMAIN echoed = Ids /\ torn \subseteq Ids
    /\ \A c \in Ids : got[c] \in 0..MaxBytes[c] /\ echoed[c] \in Seq(1..MaxBytes[c])

ServerInv == ServerType /\ MapInv /\ LifeInv /\ OwnedInv
StreamInv == StreamType /\ FreshInv /\ EchoIsFaithful

EchoInv == ServerInv /\ StreamInv

-----------------------------------------------------------------------------
\* The constructor establishes the invariant.
LEMMA InitEstablishes == Init => EchoInv
<1> SUFFICES ASSUME Init PROVE EchoInv
  OBVIOUS
<1>1. DOMAIN connections_ = {} /\ Live = {} /\ DOMAIN active = {} /\ DOMAIN pending_tasks_ = {}
  BY DEF Init, Live
<1>2. Range(connections_) = {} /\ Range(conn) = {} /\ Range(watched) = {}
  BY DEF Init, Range
<1>3. ServerType /\ StreamType
  BY <1>1, <1>2 DEF Init, ServerType, StreamType, Ids
<1>4. MapInv /\ LifeInv /\ OwnedInv /\ FreshInv /\ EchoIsFaithful
  BY <1>1 DEF Init, MapInv, LifeInv, OwnedInv, FreshInv, EchoIsFaithful, Ids
<1> QED
  BY <1>3, <1>4 DEF EchoInv, ServerInv, StreamInv

\* What on_close() does to a connection of the map: it stays where it is,
\* closed and without a timer, and its deletions are queued.
LEMMA ClosePreserves ==
    ASSUME ServerInv, NEW fd \in DOMAIN connections_, NEW calls \in {1, 2},
           Close(fd, calls), phase' = phase, DOMAIN active' \subseteq DOMAIN active
    PROVE  /\ ServerInv'
           /\ Live' = Live /\ created' = created
           /\ conn'[connections_[fd]].closed
           /\ \A d \in Live \ {connections_[fd]} : conn'[d] = conn[d]
<1> DEFINE c == connections_[fd]
           task == [fd |-> fd, id |-> c]
           new == [i \in 1..calls |-> task]
<1>1. c \in Live /\ c \in Ids /\ conn[c].fd = fd /\ fd \in Fds
  BY DEF ServerInv, ServerType, MapInv
<1>2. conn[c] \in [fd : Fds, closed : BOOLEAN]
  BY <1>1 DEF ServerInv, ServerType, Range, Live
<1>3. /\ conn' = [conn EXCEPT ![c].closed = TRUE]
      /\ armed' = IF conn[c].closed THEN armed ELSE CancelTimer(c)
      /\ pending_tasks_' = pending_tasks_ \o new
      /\ UNCHANGED <<connections_, watched, created>>
  BY DEF Close, CloseConnection
<1>4. /\ Live' = Live
      /\ conn'[c].closed /\ conn'[c].fd = fd
      /\ conn'[c] \in [fd : Fds, closed : BOOLEAN]
      /\ \A d \in Live \ {c} : conn'[d] = conn[d]
  BY <1>1, <1>2, <1>3 DEF Live
<1>5. new \in Seq([fd : Fds, id : Ids]) /\ Len(new) = calls
  BY <1>1
<1>6. /\ pending_tasks_' \in Seq([fd : Fds, id : Ids])
      /\ \A i \in DOMAIN pending_tasks_' :
            \/ i \in DOMAIN pending_tasks_ /\ pending_tasks_'[i] = pending_tasks_[i]
            \/ pending_tasks_'[i] = task
  BY <1>3, <1>5, ConcatProperties, SMTT(30) DEF ServerInv, ServerType
<1>7. armed' \in [Ids -> 0..1]
      /\ \A d \in Ids : armed'[d] = IF d \in Live' /\ ~conn'[d].closed THEN 1 ELSE 0
  BY <1>1, <1>3, <1>4 DEF CancelTimer, ServerInv, ServerType, LifeInv
<1>8. Range(conn') \subseteq [fd : Fds, closed : BOOLEAN]
  BY <1>4 DEF ServerInv, ServerType, Range, Live
<1>9. ServerType'
  BY <1>3, <1>4, <1>6, <1>7, <1>8 DEF ServerInv, ServerType
<1>10. MapInv'
  BY <1>1, <1>3, <1>4 DEF ServerInv, MapInv
<1>11. LifeInv'
  BY <1>3, <1>4, <1>7 DEF ServerInv, LifeInv
<1>12. OwnedInv'
  BY <1>1, <1>4, <1>6, SMTT(30) DEF ServerInv, OwnedInv
<1> QED
  BY <1>3, <1>4, <1>9, <1>10, <1>11, <1>12 DEF ServerInv

\* Refreshing the timer of an open connection leaves it with one.
LEMMA RefreshPreserves ==
    ASSUME ServerInv, NEW c \in Live, ~conn[c].closed, RefreshTimeout(c),
           UNCHANGED <<connections_, conn, watched, created, pending_tasks_, phase>>,
           DOMAIN active' \subseteq DOMAIN active
    PROVE  ServerInv'
<1>1. armed' = armed
  BY DEF RefreshTimeout, CancelTimer, ServerInv, ServerType, LifeInv
<1>2. Live' = Live
  BY DEF Live
<1> QED
  BY <1>1, <1>2 DEF ServerInv, ServerType, MapInv, LifeInv, OwnedInv

\* The second alternative of OnAccept, for one descriptor.
Accepts(fd) ==
    /\ created < MaxConnections
    /\ conn' = Put(conn, created + 1, [fd |-> fd, closed |-> FALSE])
    /\ connections_' = Put(connections_, fd, created + 1)
    /\ watched' = IF fd \in DOMAIN watched THEN watched ELSE Put(watched, fd, created + 1)
    /\ created' = created + 1
    /\ RefreshTimeout(created + 1)

\* A new connection gets a descriptor no live one has, hence none of the maps has.
LEMMA AcceptPreserves ==
    ASSUME ServerInv, NEW fd \in AcceptedFds, Accepts(fd),
           UNCHANGED <<pending_tasks_, phase>>, DOMAIN active' \subseteq DOMAIN active
    PROVE  /\ ServerInv'
           /\ Live' = Live \cup {created + 1}
           /\ created + 1 \in Ids
           /\ \A d \in Live : conn'[d] = conn[d]
<1> DEFINE n == created + 1
<1>1. n \in Ids /\ n \notin Live /\ fd \in Fds /\ created' = n
  BY DEF Accepts, ServerInv, ServerType, LifeInv, Ids, AcceptedFds
<1>2. fd \notin DOMAIN connections_ /\ fd \notin DOMAIN watched
  BY DEF ServerInv, MapInv, AcceptedFds
<1>3. /\ Live' = Live \cup {n}
      /\ conn'[n] = [fd |-> fd, closed |-> FALSE]
      /\ \A d \in Live : conn'[d] = conn[d]
  BY <1>1 DEF Accepts, Put, Live
<1>4. connections_' = watched'
  BY <1>2 DEF Accepts, ServerInv, MapInv
<1>5. /\ DOMAIN connections_' = DOMAIN connections_ \cup {fd}
      /\ connections_'[fd] = n
      /\ \A e \in DOMAIN connections_ : connections_'[e] = connections_[e]
  BY <1>2 DEF Accepts, Put
<1>6. armed' \in [Ids -> 0..1]
      /\ \A d \in Ids : armed'[d] = IF d \in Live' /\ ~conn'[d].closed THEN 1 ELSE 0
  BY <1>1, <1>3 DEF Accepts, RefreshTimeout, CancelTimer, ServerInv, ServerType, LifeInv
<1> HIDE DEF n
<1>7. Range(connections_') \subseteq Ids
  BY <1>1, <1>5 DEF ServerInv, ServerType, Range
<1>8. Range(conn') \subseteq [fd : Fds, closed : BOOLEAN]
  <2>1. \A d \in Live : conn[d] \in [fd : Fds, closed : BOOLEAN]
    BY DEF ServerInv, ServerType, Range, Live
  <2>2. conn'[n] \in [fd : Fds, closed : BOOLEAN]
    BY <1>1, <1>3
  <2>3. \A d \in Live' : conn'[d] \in [fd : Fds, closed : BOOLEAN]
    BY <1>3, <2>1, <2>2
  <2> QED
    BY <2>3 DEF Range, Live
<1>9. ServerType'
  BY <1>1, <1>3, <1>4, <1>5, <1>6, <1>7, <1>8 DEF ServerInv, ServerType, Ids
<1>10. MapInv'
  BY <1>1, <1>2, <1>3, <1>4, <1>5 DEF ServerInv, MapInv
<1>11. LifeInv'
  <2>1. Live' \subseteq 1..created'
    BY <1>1, <1>3 DEF n, ServerInv, ServerType, LifeInv
  <2> QED
    BY <2>1, <1>3, <1>6 DEF ServerInv, LifeInv
<1>12. OwnedInv'
  BY <1>3 DEF ServerInv, OwnedInv
<1> QED
  BY <1>1, <1>3, <1>9, <1>10, <1>11, <1>12 DEF ServerInv, n

\* The deletions of a batch take their connections out of both maps; these were
\* closed, and had no timer any more.
LEMMA DeletePreserves ==
    ASSUME ServerInv, Delete(pending_tasks_), pending_tasks_' = <<>>,
           DOMAIN active = {}, UNCHANGED active, phase' \in {"poll", "dispatch"}
    PROVE  /\ ServerInv'
           /\ Live' \subseteq Live /\ created' = created
           /\ \A d \in Live' : conn'[d] = conn[d]
<1> DEFINE fds == {pending_tasks_[i].fd : i \in DOMAIN pending_tasks_}
           gone == {connections_[fd] : fd \in fds \cap DOMAIN connections_}
<1>1. \A c \in gone : c \in Live /\ conn[c].closed /\ conn[c].fd \in fds
  BY DEF ServerInv, OwnedInv, MapInv
<1>2. {conn[c].fd : c \in gone} = fds \cap DOMAIN connections_
  BY <1>1 DEF ServerInv, MapInv
<1>3. /\ conn' = [d \in Live \ gone |-> conn[d]]
      /\ connections_' = [fd \in DOMAIN connections_ \ fds |-> connections_[fd]]
      /\ watched' = [fd \in DOMAIN watched \ (fds \cap DOMAIN connections_) |-> watched[fd]]
      /\ UNCHANGED <<armed, created>>
  BY <1>2 DEF Delete, Without, Restrict, Live
<1>4. Live' = Live \ gone /\ \A d \in Live' : conn'[d] = conn[d]
  BY <1>3 DEF Live
<1>5. \A d \in Live : d \in gone <=> conn[d].fd \in fds
  BY <1>1 DEF ServerInv, MapInv
<1>6. connections_' = watched'
  BY <1>3 DEF ServerInv, MapInv
<1>7. /\ DOMAIN connections_' = DOMAIN connections_ \ fds
      /\ \A fd \in DOMAIN connections_' : connections_'[fd] = connections_[fd]
  BY <1>3
<1> HIDE DEF fds, gone
<1>8. ServerType'
  <2>1. Range(conn') \subseteq Range(conn) /\ Range(connections_') \subseteq Range(connections_)
    BY <1>4, <1>7 DEF Range, Live
  <2>2. armed' \in [Ids -> 0..1] /\ created' \in 0..MaxConnections
    BY <1>3 DEF ServerInv, ServerType
  <2> QED
    BY <1>4, <1>6, <1>7, <2>1, <2>2 DEF ServerInv, ServerType
<1>9. MapInv'
  BY <1>4, <1>5, <1>6, <1>7 DEF ServerInv, MapInv
<1>10. LifeInv'
  BY <1>1, <1>3, <1>4 DEF ServerInv, LifeInv
<1>11. OwnedInv'
  BY DEF OwnedInv
<1> QED
  BY <1>3, <1>4, <1>8, <1>9, <1>10, <1>11 DEF ServerInv

-----------------------------------------------------------------------------
(* The streams.                                                            *)

\* The bytes of a stream are in order and among the first g.
Ordered(s, g) ==
    /\ \A i, j \in DOMAIN s : i < j => s[i] < s[j]
    /\ \A i \in DOMAIN s : s[i] <= g

\* They are the first g.
Gapless(s, g) == (\A i \in DOMAIN s : s[i] = i) /\ Len(s) = g

\* A stream that is in order stays so when g + 1 .. g + m are added to it, and
\* without holes when it was so up to g.
LEMMA StreamGrows ==
    ASSUME NEW max \in Nat, NEW s \in Seq(1..max), NEW g \in Nat,
           NEW n \in Nat, NEW m \in Nat, m <= n, g + n <= max, Ordered(s, g)
    PROVE  /\ s \o Bytes(g, m) \in Seq(1..max)
           /\ Ordered(s \o Bytes(g, m), g + n)
           /\ Gapless(s, g) /\ m = n => Gapless(s \o Bytes(g, m), g + n)
<1> DEFINE u == Bytes(g, m)
           t == s \o u
<1>1. u \in Seq(1..max) /\ Len(u) = m /\ \A i \in 1..m : u[i] = g + i
  BY DEF Bytes
<1> HIDE DEF u
<1>2. /\ t \in Seq(1..max)
      /\ Len(t) = Len(s) + m
      /\ \A i \in 1..(Len(s) + m) : t[i] = IF i <= Len(s) THEN s[i] ELSE u[i - Len(s)]
  BY <1>1, ConcatProperties
<1> HIDE DEF t
<1>3. /\ DOMAIN s = 1..Len(s) /\ DOMAIN t = 1..(Len(s) + m) /\ Len(s) \in Nat
      /\ \A i \in DOMAIN s : s[i] \in Nat
  BY <1>2, SMTT(30)
<1>4. ASSUME NEW i \in DOMAIN t
      PROVE  \/ i \in 1..Len(s) /\ t[i] = s[i]
             \/ i \in (Len(s) + 1)..(Len(s) + m) /\ t[i] = g + (i - Len(s))
  <2>1. CASE i <= Len(s)
    BY <1>2, <1>3, <2>1
  <2>2. CASE ~(i <= Len(s))
    <3>1. i - Len(s) \in 1..m /\ i \in (Len(s) + 1)..(Len(s) + m)
      BY <1>3, <2>2
    <3> QED
      BY <1>1, <1>2, <1>3, <2>2, <3>1
  <2> QED
    BY <2>1, <2>2
<1>5. \A i \in DOMAIN t : t[i] <= g + n
  BY <1>3, <1>4, SMTT(30) DEF Ordered
<1>6. ASSUME NEW i \in DOMAIN t, NEW j \in DOMAIN t, i < j
      PROVE  t[i] < t[j]
  <2>1. CASE j \in 1..Len(s)
    <3>1. i \in 1..Len(s) /\ t[i] = s[i] /\ t[j] = s[j]
      BY <1>3, <1>4, <1>6, <2>1
    <3> QED
      BY <1>3, <1>6, <2>1, <3>1 DEF Ordered
  <2>2. CASE j \in (Len(s) + 1)..(Len(s) + m)
    <3>1. t[j] = g + (j - Len(s))
      BY <1>3, <1>4, <2>2
    <3>2. CASE i \in 1..Len(s) /\ t[i] = s[i]
      <4>1. t[i] <= g /\ t[i] \in Nat
        BY <1>3, <3>2 DEF Ordered
      <4> QED
        BY <1>3, <2>2, <3>1, <4>1
    <3>3. CASE i \in (Len(s) + 1)..(Len(s) + m) /\ t[i] = g + (i - Len(s))
      BY <1>3, <1>6, <2>2, <3>1, <3>3
    <3> QED
      BY <1>4, <3>2, <3>3
  <2> QED
    BY <1>4, <2>1, <2>2
<1>7. Gapless(s, g) /\ m = n => Gapless(t, g + n)
  BY <1>2, <1>3, <1>4 DEF Gapless
<1>8. Ordered(t, g + n)
  BY <1>5, <1>6 DEF Ordered
<1> QED
  BY <1>2, <1>7, <1>8 DEF t, u

\* Nothing read or sent, and no connection opened again: the streams stay as
\* they were.
LEMMA StreamsStay ==
    ASSUME ServerInv, StreamInv, UNCHANGED <<got, echoed, torn>>,
           created \in Nat, created' \in Nat, created' >= created,
           \A c \in Ids : c \in Live' /\ ~conn'[c].closed =>
                             c > created \/ (c \in Live /\ ~conn[c].closed)
    PROVE  StreamInv'
<1>1. StreamType' /\ FreshInv'
  BY DEF StreamInv, StreamType, FreshInv, Ids
<1>2. EchoIsFaithful'
  <2> SUFFICES ASSUME NEW c \in Ids, c \notin torn, c \in Live', ~conn'[c].closed
               PROVE  Len(echoed[c]) = got[c]
    BY DEF StreamInv, EchoIsFaithful
  <2>1. CASE c > created
    BY <2>1 DEF StreamInv, FreshInv
  <2>2. CASE c \in Live /\ ~conn[c].closed
    BY <2>2 DEF StreamInv, EchoIsFaithful
  <2> QED
    BY <2>1, <2>2
<1> QED
  BY <1>1, <1>2 DEF StreamInv

\* n bytes are read and m of them written back, or the write fails and the
\* connection is closed: in both cases no byte is repeated, and only a short
\* write leaves a hole.
LEMMA EchoPreserves ==
    ASSUME EchoInv, NEW fd \in DOMAIN connections_, ~conn[connections_[fd]].closed,
           NEW n \in 1..kReadSize, got[connections_[fd]] + n <= MaxBytes[connections_[fd]],
           Echo(fd, n), phase' = phase, DOMAIN active' \subseteq DOMAIN active
    PROVE  EchoInv'
<1> DEFINE c == connections_[fd]
<1>1. c \in Live /\ c \in Ids /\ c <= created /\ created \in Nat
  <2>1. c \in Live /\ Live \subseteq 1..created /\ Live \subseteq Ids /\ created \in Nat
    BY DEF EchoInv, ServerInv, ServerType, MapInv, LifeInv
  <2> HIDE DEF c
  <2>2. c \in 1..created
    BY <2>1
  <2> QED
    BY <2>1, <2>2
<1>2. /\ got[c] \in Nat /\ MaxBytes[c] \in Nat /\ n \in Nat /\ got[c] + n <= MaxBytes[c]
      /\ echoed[c] \in Seq(1..MaxBytes[c])
  BY <1>1 DEF EchoInv, StreamInv, StreamType, Ids
<1>3. /\ DOMAIN got' = Ids
      /\ got'[c] = got[c] + n
      /\ \A d \in Ids \ {c} : got'[d] = got[d]
  BY <1>1 DEF Echo, EchoInv, StreamInv, StreamType
<1>4. PICK m \in WriteResults(n) :
        IF m < 0 THEN Close(fd, 1) /\ UNCHANGED <<echoed, torn>>
        ELSE /\ echoed' = [echoed EXCEPT ![c] = @ \o Bytes(got[c], m)]
             /\ torn' = IF m < n THEN torn \cup {c} ELSE torn
             /\ RefreshTimeout(c)
             /\ UNCHANGED <<connections_, conn, watched, created, pending_tasks_>>
  BY DEF Echo
<1>5. CASE m < 0
  <2>1. Close(fd, 1) /\ UNCHANGED <<echoed, torn>>
    BY <1>4, <1>5
  <2>2. /\ ServerInv' /\ Live' = Live /\ created' = created
        /\ conn'[c].closed
        /\ \A d \in Live \ {c} : conn'[d] = conn[d]
    BY <2>1, ClosePreserves DEF EchoInv
  <2>3. StreamType'
    BY <1>2, <1>3, <2>1 DEF EchoInv, StreamInv, StreamType
  <2>4. FreshInv'
    BY <1>1, <1>3, <2>1, <2>2 DEF EchoInv, StreamInv, FreshInv, Ids
  <2>5. EchoIsFaithful'
    <3> SUFFICES ASSUME NEW d \in Ids
                 PROVE  /\ \A i, j \in DOMAIN echoed[d] : i < j => echoed[d][i] < echoed[d][j]
                        /\ \A i \in DOMAIN echoed[d] : echoed[d][i] <= got'[d]
                        /\ d \notin torn =>
                              /\ \A i \in DOMAIN echoed[d] : echoed[d][i] = i
                              /\ d \in Live' /\ ~conn'[d].closed => Len(echoed[d]) = got'[d]
      BY <2>1 DEF EchoIsFaithful
    <3>1. CASE d = c
      <4>1. \A i \in DOMAIN echoed[c] : echoed[c][i] \in Nat /\ echoed[c][i] <= got[c]
        BY <1>1, <1>2, SMTT(30) DEF EchoInv, StreamInv, EchoIsFaithful
      <4>2. \A i \in DOMAIN echoed[c] : echoed[c][i] <= got'[c]
        BY <1>2, <1>3, <4>1
      <4> QED
        BY <1>1, <2>2, <3>1, <4>2 DEF EchoInv, StreamInv, EchoIsFaithful
    <3>2. CASE d # c
      BY <1>3, <2>2, <3>2 DEF EchoInv, StreamInv, EchoIsFaithful
    <3> QED
      BY <3>1, <3>2
  <2> QED
    BY <2>2, <2>3, <2>4, <2>5 DEF EchoInv, StreamInv
<1>6. CASE ~(m < 0)
  <2>1. m \in 1..n
    BY <1>6 DEF WriteResults
  <2>2. /\ echoed' = [echoed EXCEPT ![c] = @ \o Bytes(got[c], m)]
        /\ torn' = IF m < n THEN torn \cup {c} ELSE torn
        /\ RefreshTimeout(c)
        /\ UNCHANGED <<connections_, conn, watched, created, pending_tasks_>>
    BY <1>4, <1>6
  <2>3. ServerInv' /\ Live' = Live
    BY <1>1, <2>2, RefreshPreserves DEF EchoInv, Live
  <2>4. /\ DOMAIN echoed' = Ids
        /\ echoed'[c] = echoed[c] \o Bytes(got[c], m)
        /\ \A d \in Ids \ {c} : echoed'[d] = echoed[d]
    BY <1>1, <2>2 DEF EchoInv, StreamInv, StreamType
  <2>5. torn' \subseteq Ids /\ (c \notin torn' => c \notin torn /\ m = n)
        /\ \A d \in Ids \ {c} : d \in torn' <=> d \in torn
    BY <1>1, <2>1, <2>2 DEF EchoInv, StreamInv, StreamType
  <2>6. /\ echoed'[c] \in Seq(1..MaxBytes[c])
        /\ \A i, j \in DOMAIN echoed'[c] : i < j => echoed'[c][i] < echoed'[c][j]
        /\ \A i \in DOMAIN echoed'[c] : echoed'[c][i] <= got'[c]
        /\ c \notin torn' => /\ \A i \in DOMAIN echoed'[c] : echoed'[c][i] = i
                             /\ Len(echoed'[c]) = got'[c]
    <3>1. /\ Ordered(echoed[c], got[c])
          /\ c \notin torn => Gapless(echoed[c], got[c])
      BY <1>1 DEF EchoInv, StreamInv, EchoIsFaithful, Ordered, Gapless
    <3>2. m \in Nat /\ m <= n
      BY <1>2, <2>1
    <3> HIDE DEF c
    <3>3. /\ echoed'[c] \in Seq(1..MaxBytes[c])
          /\ Ordered(echoed'[c], got'[c])
          /\ Gapless(echoed[c], got[c]) /\ m = n => Gapless(echoed'[c], got'[c])
      BY <1>2, <1>3, <2>4, <3>1, <3>2, StreamGrows, SMTT(30)
    <3> QED
      BY <2>5, <3>1, <3>3 DEF Ordered, Gapless
  <2>7. StreamType'
    <3>1. got'[c] \in 0..MaxBytes[c]
      BY <1>2, <1>3
    <3> HIDE DEF c
    <3> QED
      BY <1>3, <2>4, <2>5, <2>6, <3>1 DEF EchoInv, StreamInv, StreamType
  <2>8. FreshInv'
    BY <1>1, <1>3, <2>2, <2>4 DEF EchoInv, StreamInv, FreshInv, Ids
  <2>9. EchoIsFaithful'
    <3>1. SUFFICES ASSUME NEW d \in Ids, d # c
                   PROVE  /\ \A i, j \in DOMAIN echoed'[d] : i < j => echoed'[d][i] < echoed'[d][j]
                          /\ \A i \in DOMAIN echoed'[d] : echoed'[d][i] <= got'[d]
                          /\ d \notin torn' =>
                                /\ \A i \in DOMAIN echoed'[d] : echoed'[d][i] = i
                                /\ d \in Live' /\ ~conn'[d].closed => Len(echoed'[d]) = got'[d]
      BY <2>6 DEF EchoIsFaithful
    <3> QED
      BY <1>3, <2>2, <2>3, <2>4, <2>5, <3>1 DEF EchoInv, StreamInv, EchoIsFaithful
  <2> QED
    BY <2>3, <2>7, <2>8, <2>9 DEF EchoInv, StreamInv
<1> QED
  BY <1>5, <1>6

-----------------------------------------------------------------------------
(* The loop.                                                               *)

\* Without takes elements from the domain of a function.
LEMMA WithoutShrinks ==
    ASSUME NEW f, NEW S
    PROVE  DOMAIN Without(f, S) = DOMAIN f \ S
BY DEF Without, Restrict

\* poll() returns Channels of the poller's map.
LEMMA PollPreserves ==
    ASSUME EchoInv, Poll PROVE EchoInv'
<1>1. UNCHANGED <<connections_, conn, watched, armed, created, got, echoed, torn,
                  pending_tasks_>>
      /\ Live' = Live /\ phase' = "dispatch"
  BY DEF Poll, serverVars, streamVars, Live
<1>2. DOMAIN active' \subseteq Range(watched) \cup {0}
  <2>1. PICK revents \in [Range(watched) \cup {0} -> SUBSET {"read", "error"}] :
          active' = Without(revents, {c \in DOMAIN revents : revents[c] = {}})
    BY DEF Poll
  <2>2. DOMAIN active' = DOMAIN revents \ {c \in DOMAIN revents : revents[c] = {}}
    BY ONLY <2>1, WithoutShrinks
  <2> QED
    BY <2>2
<1>3. Range(watched) \subseteq Live /\ Range(watched) \subseteq Ids
  BY DEF EchoInv, ServerInv, ServerType, MapInv, Range
<1>4. ServerType' /\ MapInv' /\ LifeInv' /\ OwnedInv'
  BY <1>1, <1>2, <1>3 DEF EchoInv, ServerInv, ServerType, MapInv, LifeInv, OwnedInv
<1>5. StreamInv'
  BY <1>1 DEF EchoInv, StreamInv, StreamType, FreshInv, EchoIsFaithful
<1> QED
  BY <1>4, <1>5 DEF EchoInv, ServerInv

\* A handler that changes nothing but the list of active Channels.
LEMMA NothingHandled ==
    ASSUME EchoInv, UNCHANGED <<serverVars, streamVars, pending_tasks_, phase>>,
           DOMAIN active' \subseteq DOMAIN active
    PROVE  EchoInv'
<1>1. Live' = Live
  BY DEF serverVars, Live
<1>2. ServerInv'
  BY <1>1 DEF EchoInv, ServerInv, ServerType, MapInv, LifeInv, OwnedInv, serverVars
<1>3. StreamInv'
  BY <1>1 DEF EchoInv, StreamInv, StreamType, FreshInv, EchoIsFaithful, serverVars, streamVars
<1> QED
  BY <1>2, <1>3 DEF EchoInv

\* The listening Channel's handler: the new connection has no bytes yet.
LEMMA HandleAcceptPreserves ==
    ASSUME EchoInv, HandleAccept PROVE EchoInv'
<1>1. DOMAIN active' \subseteq DOMAIN active /\ phase' = phase
  BY WithoutShrinks DEF HandleAccept
<1>2. CASE UNCHANGED <<serverVars, streamVars, pending_tasks_>>
  BY <1>1, <1>2, NothingHandled
<1>3. CASE OnAccept /\ ~UNCHANGED serverVars
  <2>1. UNCHANGED <<got, echoed, torn>> /\ UNCHANGED pending_tasks_
    BY <1>3 DEF OnAccept, streamVars
  <2>2. PICK fd \in AcceptedFds : Accepts(fd)
    BY <1>3 DEF OnAccept, Accepts
  <2>3. /\ ServerInv' /\ Live' = Live \cup {created + 1}
        /\ \A d \in Live : conn'[d] = conn[d]
    BY <1>1, <2>1, <2>2, AcceptPreserves DEF EchoInv
  <2>4. created \in Nat /\ created' = created + 1
    BY <2>2 DEF EchoInv, ServerInv, ServerType, Accepts
  <2>5. StreamInv'
    <3>1. created' \in Nat /\ created' >= created
      BY <2>4
    <3>2. \A c \in Ids : c \in Live' /\ ~conn'[c].closed =>
                            c > created \/ (c \in Live /\ ~conn[c].closed)
      BY <2>3, <2>4
    <3> QED
      BY <2>1, <2>4, <3>1, <3>2, StreamsStay DEF EchoInv
  <2> QED
    BY <2>3, <2>5 DEF EchoInv
<1> QED
  BY <1>2, <1>3 DEF HandleAccept, OnAccept

\* on_close() for a connection of the map, once or twice.
LEMMA CloseKeepsAll ==
    ASSUME EchoInv, NEW fd \in DOMAIN connections_, NEW calls \in {1, 2},
           Close(fd, calls), UNCHANGED streamVars, phase' = phase,
           DOMAIN active' \subseteq DOMAIN active
    PROVE  EchoInv'
<1>1. /\ ServerInv' /\ Live' = Live /\ created' = created
      /\ conn'[connections_[fd]].closed
      /\ \A d \in Live \ {connections_[fd]} : conn'[d] = conn[d]
  BY ClosePreserves DEF EchoInv
<1>2. created \in Nat /\ created' \in Nat /\ created' >= created
  BY <1>1 DEF EchoInv, ServerInv, ServerType
<1>3. \A c \in Ids : c \in Live' /\ ~conn'[c].closed =>
                        c > created \/ (c \in Live /\ ~conn[c].closed)
  BY <1>1
<1>4. StreamInv'
  BY <1>2, <1>3, StreamsStay DEF EchoInv, streamVars
<1> QED
  BY <1>1, <1>4 DEF EchoInv

\* A connection's handler.
LEMMA HandleEventPreserves ==
    ASSUME EchoInv, NEW c \in Ids, HandleEvent(c) PROVE EchoInv'
<1> DEFINE fd == conn[c].fd
<1>1. DOMAIN active' \subseteq DOMAIN active /\ phase' = phase
  <2>1. active' = Without(active, {c}) /\ phase' = phase
    BY DEF HandleEvent
  <2>2. DOMAIN active' = DOMAIN active \ {c}
    BY ONLY <2>1, WithoutShrinks
  <2> QED
    BY <2>1, <2>2
<1>2. CASE UNCHANGED <<serverVars, streamVars, pending_tasks_>>
  BY <1>1, <1>2, NothingHandled
<1>3. CASE /\ fd \in DOMAIN connections_
           /\ Close(fd, IF "read" \in active[c] THEN 1 ELSE 2)
           /\ UNCHANGED streamVars
  <2>1. PICK calls \in {1, 2} : Close(fd, calls)
    BY <1>3
  <2> QED
    BY <1>1, <1>3, <2>1, CloseKeepsAll
<1>4. CASE fd \in DOMAIN connections_ /\ ~conn[connections_[fd]].closed /\ OnMessage(fd)
  <2> HIDE DEF fd
  <2>1. PICK n \in ReadResults(connections_[fd]) :
          IF n <= 0 THEN Close(fd, 1) /\ UNCHANGED streamVars ELSE Echo(fd, n)
    BY <1>4 DEF OnMessage
  <2>2. CASE n <= 0
    BY <1>1, <1>4, <2>1, <2>2, CloseKeepsAll
  <2>3. CASE ~(n <= 0)
    <3>1. n \in 1..kReadSize /\ got[connections_[fd]] + n <= MaxBytes[connections_[fd]]
      BY <2>1, <2>3 DEF ReadResults
    <3> QED
      BY <1>1, <1>4, <2>1, <2>3, <3>1, EchoPreserves
  <2> QED
    BY <2>2, <2>3
<1> QED
  BY <1>2, <1>3, <1>4 DEF HandleEvent

\* The batch of deletions.
LEMMA DoPendingTasksPreserves ==
    ASSUME EchoInv, DoPendingTasks PROVE EchoInv'
<1>1. DOMAIN active = {} /\ UNCHANGED active /\ phase' \in {"poll", "dispatch"}
  BY DEF DoPendingTasks
<1>2. /\ ServerInv' /\ Live' \subseteq Live /\ created' = created
      /\ \A d \in Live' : conn'[d] = conn[d]
  BY <1>1, DeletePreserves DEF DoPendingTasks, EchoInv
<1>3. created \in Nat /\ created' \in Nat /\ created' >= created
  BY <1>2 DEF EchoInv, ServerInv, ServerType
<1>4. \A c \in Ids : c \in Live' /\ ~conn'[c].closed =>
                        c > created \/ (c \in Live /\ ~conn[c].closed)
  BY <1>2
<1>5. StreamInv'
  BY <1>3, <1>4, StreamsStay DEF EchoInv, DoPendingTasks, streamVars
<1> QED
  BY <1>2, <1>5 DEF EchoInv

LEMMA NextPreserves == EchoInv /\ [Next]_vars => EchoInv'
<1> SUFFICES ASSUME EchoInv, [Next]_vars PROVE EchoInv'
  OBVIOUS
<1>1. CASE Poll
  BY <1>1, PollPreserves
<1>2. CASE HandleAccept
  BY <1>2, HandleAcceptPreserves
<1>3. CASE DoPendingTasks
  BY <1>3, DoPendingTasksPreserves
<1>4. ASSUME NEW c \in Ids, HandleEvent(c) PROVE EchoInv'
  BY <1>4, HandleEventPreserves
<1>5. CASE UNCHANGED vars
  BY <1>5, NothingHandled DEF vars
<1> QED
  BY <1>1, <1>2, <1>3, <1>4, <1>5 DEF Next, LoopStep

LEMMA AlwaysEchoInv == Spec => []EchoInv
BY InitEstablishes, NextPreserves, PTL DEF Spec

-----------------------------------------------------------------------------
(* The theorems.                                                           *)

\* The server, the loop and the streams have their types, however many clients
\* connect and whatever they send.
THEOREM EchoTypeCorrect == Spec => []TypeOK
<1>1. EchoInv => TypeOK
  BY DEF EchoInv, ServerInv, StreamInv, ServerType, StreamType, TypeOK
<1> QED
  BY <1>1, AlwaysEchoInv, PTL

\* The poller, the list of active Channels and the timer wheel never point to a
\* deleted Connection (echo_server_reactor.cpp's delete in the queued task), and
\* poll() watches every connection there is.
THEOREM EchoNothingDangles == Spec => []NothingDangles
<1>1. ASSUME EchoInv PROVE NothingDangles
  <2>1. MapInv /\ LifeInv
    BY <1>1 DEF EchoInv, ServerInv
  <2>2. Range(watched) = Live
    BY <2>1 DEF MapInv, Range
  <2> QED
    BY <2>1, <2>2 DEF MapInv, LifeInv, NothingDangles
<1> QED
  BY <1>1, AlwaysEchoInv, PTL

\* A queued deletion, which captures only the descriptor, finds the connection it
\* was queued for, closed, or nothing.
THEOREM DeletionIsSafe == Spec => []DeletionHitsItsConnection
<1>1. EchoInv => DeletionHitsItsConnection
  BY DEF EchoInv, ServerInv, MapInv, OwnedInv, DeletionHitsItsConnection
<1> QED
  BY <1>1, AlwaysEchoInv, PTL

\* A client gets back its own bytes, in order and each once, and without holes
\* unless a write was short: for every size of the handler's array and every
\* length of the streams.
THEOREM EchoFaithful == Spec => []EchoIsFaithful
<1>1. EchoInv => EchoIsFaithful
  BY DEF EchoInv, StreamInv
<1> QED
  BY <1>1, AlwaysEchoInv, PTL

=============================================================================
