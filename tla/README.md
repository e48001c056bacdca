# TLA+ models of Hound

Hound (`src/hound/`) is an HTTP/1.1 server library in C++17 written from
scratch: a chain buffer, a reactor (event loop, timer wheel, select poller), a
coroutine scheduler and an HTTP parser and server. This directory holds TLA+
models of the parts that carry its logic, the TLC configurations that check
them, and TLAPS proofs. `PROJECT.json` lists every run, property, theorem and
finding, and for each definition the source lines it models.

Paths below are relative to `src/hound/src/`.

## 1. The system

| component | state | operations | interacts with |
|---|---|---|---|
| `EventLoop` (`reactor/event_loop.*`) | `looping_`, `quit_` (atomic), `calling_pending_tasks_`, `pending_tasks_` (mutex), wakeup descriptor | `loop`, `quit`, `run_in_loop`, `queue_in_loop`, timer and channel delegates | every other part runs on its thread; other threads reach it through the task vector, `quit_` and the wakeup descriptor |
| `TimerWheel` (`reactor/timer_wheel.*`) | buckets, `current_slot_`, `last_tick_`, `timer_count_`, `next_timer_id_` | `add_timer`, `add_repeating`, `cancel`, `tick`, `next_timeout_ms` | gives the loop its poll timeout; ticked once per iteration |
| `Channel`, `SelectPoller` (`reactor/channel.*`, `select_poller.cpp`) | `events_`, `revents_`; map and list of raw `Channel*` | `update`, `remove`, `handle_event`, `poll` | called by the loop; owned by connections and by the scheduler's waits |
| `HttpServer` (`http/http_server.*`) | `connections_` by descriptor, listening channel, `running_` | `start`, `stop`, `on_accept`, `on_message`, `on_close` | channels, idle timers, erase tasks queued in the loop |
| `HttpParser` (`http/http_parser.*`) | `state_`, body and chunk counters | `parse`, `reset` | reads the connection's `Buffer` block by block |
| `Buffer` (`io/buffer.*`) | chain of blocks, `read_block_`, `write_block_`, `size_` | `append`, `begin_write`/`has_written`, `ensure_writable`, `retrieve`, `retrieve_all`, `peek`, `peek_byte`, `find`, `read_until`, `read_n` | the server writes, the parser reads |
| `Scheduler`, `Coroutine`, hooks (`coro/*`) | `ready_queue_`, `waiting_for_read_`, `waiting_for_write_`, coroutine states | `create_coroutine`, `schedule`, `tick`, `resume`, `yield`, `co_read` ... `co_sleep` | registers Channels with the loop, which calls `on_fd_ready` |
| `EventLoopThreadPool` (`reactor/thread_pool.*`) | worker loops and threads | `start`, `get_next_loop`, destructor | runs one `EventLoop` per worker |
| `Router` (`http/router.*`) | trie of path segments | `add`, `route` | called by `handle_request` |
| reactor echo server (`../examples/echo_server_reactor.cpp`) | `connections_` by descriptor, with `closed` and the idle timer | `on_accept`, `on_message`, `on_close` | channels, timers, deletions queued in the loop, `Socket` |
| `Socket` (`io/socket.*`) | a descriptor | `accept`, `read`, `write`, `close`, options | the servers and the examples |
| `HttpRequest`, `HttpResponse`, `Address`, `Context`, `util/` | - | strings, system calls, context switches | - |

What is hard in it:

- *Concurrency.* Only the task vector, `quit_` and the wakeup descriptor are
  shared between threads. The push (or the store to `quit_`) and the wakeup are
  two steps; the loop's test, poll, wakeup read and swap are four more. The
  question is whether a wakeup can be consumed before what it announces is
  visible.
- *Callbacks.* On the loop thread everything is a callback of something else:
  a callback may close the connection it belongs to, close or accept others,
  queue tasks, add and cancel timers, stop the server. Raw pointers to
  Channels and connections are held by the poller, the active list and timers.
- *Reuse.* The kernel reuses descriptors; deferred erases, the poller's map and
  the waiting tables are keyed by descriptor.
- *Partial failure.* Reads and writes are short or fail (`EAGAIN` included)
  after part of the work is done, and two callbacks of one event may both close
  the connection.
- *Boundaries.* Messages arrive cut anywhere, and the buffer cuts them again at
  block ends.

The hazards, with their lines and the properties that watch them, are listed in
`PROJECT.json`.

## 2. Modules

| module | models | abstract specification |
|---|---|---|
| `EventLoop` (`MCEventLoop`, `ReactorProofs`) | `loop()` and its task queue, any number of threads | `TaskQueue`, a FIFO executor |
| `TimerWheel` (`MCTimerWheel`, `ReactorProofs`) | the wheel and its use by the loop | - |
| `HttpServer` (`MCHttpServer`, `HttpServerProofs`) | connections, channels, poller, idle timers, erase tasks and one loop iteration, composed | - |
| `Buffer`, `BufferSearch` (`MCBuffer`, `BufferProofs`) | the chain of blocks; the searches | `ByteQueue` |
| `HttpParser` (`MCHttpParser`, `HttpParserProofs`) | the parser on an instance of `Buffer`, with the part of `on_message()` that drives it | the client's own list of requests (`Owed`) |
| `Router` (`MCRouter`, `RouterProofs`) | the trie, its walk, and the answer `handle_request()` chooses | `Matches`, segment by segment |
| `EchoServer` (`MCEchoServer`, `EchoServerProofs`) | the reactor echo server on `Socket`, the poller and the loop, composed | the client's own bytes, in order |
| `ThreadPool` (`MCThreadPool`) | `start()`, the workers' entry into `loop()`, the destructor | - |
| `Scheduler` (`MCScheduler`, `SchedulerProofs`) | coroutines, the scheduler, the hooks and the loop's dispatch to them | - |

`Induction` holds what the proofs about loops share: induction over the natural
numbers, stated for a set of numbers, the existence of functions defined by
recursion, and a loop invariant rule.

Variables and record fields keep the members' names. Operators whose name ends
in what goes wrong (`...NoWake`, `...Keeps`), marked "Wrong on purpose", are
not part of a specification: they are plausible mistakes, each used in place of
the operator it stands before to see that the properties notice.

### EventLoop

A step of the loop thread ends where another thread can see the difference:
`Enter` (`quit_ = false`), `Continue`/`Leave` (the test), `PollReady`/
`PollNothing` (select returns), `HandleWakeup`, `BeginPending` (the swap),
`RunTask`/`EndTask`, `EndPending`. A call from another thread is
`QueueFromThread` or `QuitFromThread` followed by `Wakeup`. User code, in
channel callbacks and tasks, may queue and quit at will (`UserCode`). `queued`
and `ran` are history. `EventFd` chooses between the two wakeup backends: an
eventfd read takes the whole count, a socket read takes one write. A full
socket buffer (a wakeup dropped because thousands are unread) is not modelled;
there is then a wakeup to read anyway. `run_in_loop()` on the loop thread is a
direct call and no step.

### TimerWheel

The methods are functions of the object (`InsertTimer`, `CancelTimer`, `Tick`,
...); the actions are the loop's calls of them. A bucket is the set of timers
with its slot number, ordered by identifier. `Tick` is written with the walk over the
slots that follows the early return, although the run and the theorem
`HandNeverMoves` show that it is never reached.

### HttpServer

One step is one callback, one task or one `poll()`. `chan` holds the live
Channel objects, each with its descriptor and its connection's `closed`;
object identifiers are never reused, descriptors are. `HandleEvent` fixes the
callbacks an event leads to (error, close, read) and `OnClose`, `OnAccept`,
`OnMessage` are those callbacks whole, including the cancelled timer, the
disabled Channel and the queued erase. What a peer sends and how it parses is a
choice between the outcomes of `on_message()`. `loop()` may return
(`LoopReturns`) and be called again (`LoopAgain`), and the program may destroy
the server while it is out of it (`Destroy`), as the HTTP example does at the
end of `main()`; from then on no queued erase may be left, for it would use the
server. `QueueUserTask` lets the program
call `start()` and `stop()` through the loop, which is how they can be called
safely while it runs (section 5 says what a handler that calls `stop()` directly
does). `Removed` is the erase of a Channel from the poller's list.
Timers are armed and cancelled and do not expire, which is what the code does.

### Buffer, BufferSearch

The object is a record; methods are functions of it. `ImplementsByteQueue`
maps it to the bytes between the two positions, and the variable `op` makes
the abstract queue check the effect of each call, not only that some legal
change happened. The loops of `append()` and `retrieve()` are recursive
functions of the turn. `BufferSearch` has the searches: `MatchesAt` compares a
needle piece by piece along the blocks, `Hits` are the places, block by block,
at which it matches, and the first of them ends the search. They are compared
with `Occurrences` on the flat bytes.
`peek_byte()`, which changes nothing and which only the tests call, is not modelled.

### HttpParser

The bytes are those a client sends for a list of requests (`Encode`), with the
text of a line as one symbol and CR, LF and body bytes as themselves, so that
every cut a network or a block can make is there. A chunked body is sent in
chunks of any size but zero (`chunks`). `Receive` writes a piece of
any length to the buffer, `ParseTurn` is a turn of the loop in `parse()`, and
`ParseError`, `RequestDone` and `NeedMore` are what `on_message()` does with
the outcome. `SendResponse` is the write of a response, which may fail and so
close the connection; the loop in `on_message()` does not look, and goes on to
the next request in the buffer.

### Router

A node of the trie is named by the segments that lead to it; `trie` gives its
place in the parent's `children`, which is all that the order of registration
decides. `Step` is a turn of the walk in `route()`, `Matches` the definition of
a fitting pattern it is compared with. Segments of patterns and of paths are
texts of one set, because a path may hold a text such as `:id` too.

### EchoServer

The bytes of a client are numbered, so that a hole, a repetition or a stranger
in what comes back shows. `ReadResults` and `WriteResults` are what `Socket`
makes of the system calls: a count (short ones included), the end of the stream,
or a `Result` without a value, which stands for errors and `EAGAIN` alike. One
step is a whole `handle_event()`: nothing but the loop thread is involved. Unlike
`HttpServer::on_close()`, the example's `on_close()` has no early return for a
closed connection, so that an error without data queues two deletions.

### ThreadPool

Of the worker loops only what the pool depends on is kept: the thread a loop
belongs to, `quit_`, entry and exit. `EnterLoop` is `loop()` up to its `while`,
where `assert_in_loop_thread()` ends the process (`aborted`, after which nothing
moves) or `quit_ = false` is stored.

### Scheduler

`at` says where each coroutine's stack is: in user code, in a co_ call, asleep.
`registered` is what the poller knows of each descriptor: the events of the
first Channel made for it, for ever. `Uses` bounds what coroutines call, so
that one configuration can keep descriptors apart and another share them.
`tick()` is called by the program, repeatedly; the loop does not call it. A
`tick()` called by a coroutine, inside the `tick()` that runs it, is not modelled.

`schedule()` pushes whatever it is given, and so does `Schedule`: any coroutine
that has been created, at any time. `MaxReady` bounds the queue it pushes to.
`careless` is history: the coroutines for which `schedule()` was called while
they were queued or inside a wait for a descriptor, and those that queued
themselves and then waited instead of yielding. That `schedule()` is not used in
these ways is a precondition the code neither states nor tests. Without it a
coroutine is in two places: it is resumed out of a wait that is not over
(`co_read()` then waits again, `co_connect()` takes an unfinished connection for a
finished one), and its old entry in a table, still there, queues it again in the
middle of something else. To schedule a coroutine that has yielded, to schedule
oneself and yield, and to schedule a coroutine that sleeps or is done, are no
misuse.

## 3. What is checked

Passing runs:

| run | instance | shows |
|---|---|---|
| `EventLoop` | 2 threads, 4 tasks (2 remote, 1 from callbacks, 1 from set-up code), 2 quits, 2 calls of `loop()`, socket pair | tasks run once and in order; no lost wakeup; no sleep after `quit()`; a batch never grows; implements `TaskQueue`; tasks run, `quit()` ends the loop, wakeups are drained |
| `TimerWheel` | 4 slots of 2 ms, 3 timers, delays below a tick, in the first turn and beyond | the count, the bounded poll, cancelled identifiers |
| `HttpServer` | 3 descriptors, 9 Channel objects, 3 start/stop tasks, up to symmetry | ownership: nothing dangles, nothing leaks, nothing is hit by mistake, nothing is left for a destroyed server |
| `Buffer` | blocks of 2 bytes, chain of 3, 2 byte values, needles to 3 bytes | the chain is a byte queue; the searches are right |
| `HttpParser` | all 399 streams of one to three requests of 7 kinds, a body in chunks of three bytes and of one among them, blocks of 30, every cut, any write failing | what is handled is a prefix of what was sent; plain requests that share a block are all handled; without chunked bodies the parser gives up only on a malformed request; a closed connection is not read again |
| `Router` | 11 patterns of up to 3 segments, 2 parameters, a wildcard, 2 methods, 3 registrations, 18 paths | requests go to handlers that fit; literals win; unrivalled routes are found; a registration disturbs only what it is in the way of |
| `Scheduler` | 2 coroutines that read one descriptor while one has another for itself, `schedule()` given either at any time | held in one place, unless `schedule()` is misused for it; the ready queue is served; a waiter alone on its descriptor is not forgotten, is woken by its event, and not before it |
| `EchoServer` | 3 connections on 2 descriptors, clients of 3, 2 and 1 bytes, reads of up to 2 | bytes come back in order; deletions hit what they mean; nothing dangles; closed connections are deleted without another event |

The bounds: two threads are what a race between pushes, or between a push and a
quit, needs; the invariants are proved for any number (`LoopInv`). The socket
pair is the harder of the two wakeup backends for liveness, since a read takes one
of several wakeups; the proofs hold for the eventfd too. Two calls of `loop()` let a task and a wakeup survive from one to the
next. Nine Channel objects, three of them kept for calls of `start()`, on three descriptors let each descriptor be used,
closed and used again while erases are queued. Blocks of two bytes with writes
of three fill a block exactly, cross one boundary and cross two. Blocks of
thirty bytes hold most pairs of requests and cut the triples in every part of a
request, so that both cases of `SimpleStreamsAreHandled` occur; chunks of more
than one byte are taken in parts. A ready queue of two lets a coroutine be in it
twice, or in it and in a table. The timer run's
clock is short (4 units): the wheel never turns, and what matters is delays and
order. Three registrations let two routes compete and a third come between
them. In the echo run the third connection must use a descriptor again, and the
first client has a byte to send after a short write. Clocks, channels, connections, bytes, quits, loops, routes and blocks are capped by the
constants named `Max...`.

Runs that refute something the repository says of itself (details and quotes
under "findings"):

| run | statement refuted |
|---|---|
| `TimerWheelDue` | `tick()` fires due timers |
| `HttpParserStraddle` | parsing resumes from any state when more data arrives (not across the end of a block) |
| `SchedulerBothWays` | a waiting coroutine is re-queued when its event happens |
| `ThreadPoolStart` | `start()` starts worker threads that run their loops |

They set the conditions under which the passing runs hold:
`SimpleStreamsAreHandled` is `AllHandled` within one block, without empty bodies
and without anything after a chunked body; `ClosedForCause` leaves out chunked
bodies; `LoneWaiterRuns` is `WaiterRuns` for a coroutine that has its
descriptor to itself.

Deadlock is checked for `TimerWheel`, `HttpServer`, `EchoServer` and `Buffer`, whose systems
always have something to do. It is off where the system really stops:
`loop()` has returned and nobody submits; everything the client sends has
arrived, or the connection is closed; all routes are registered; every coroutine
is done or asleep.

### Fairness

`EventLoop`: the operating system lets every runnable thread go on (weak
fairness of the loop's steps and of `Wakeup`); a callback or task returns; a
readable wakeup descriptor ends `select()`. A failing `select()` is a
transient `EINTR`, hence strong fairness of a poll that has the wakeup to
report. Nothing obliges anyone to submit work, quit or make a socket ready, and
`PollNothing` has no fairness: no timer need be set.

`EchoServer`: the loop thread goes on until it is back in `poll()` (weak fairness
of `LoopStep`). `poll()` itself has none, since nothing need happen on a socket:
`ClosedIsDeleted` holds without another event.

`ThreadPool`: every runnable thread goes on while the process lives; nobody is
obliged to destroy the pool.

`Scheduler`: the program keeps calling `tick()` and the loop polls in between
(strong fairness of `OnFdReady`, which ticks interrupt). Coroutines are
cooperative: one whose descriptors are always ready is assumed to yield or end
some time. This is a duty of the program; the library does not enforce it.
`WaiterRuns` and `LoneWaiterRuns` also assume that `tick()` returns again and again, which
coroutines that schedule each other without end prevent.

## 4. What is proved

For every value of the constants, from the named assumptions of the modules
(`TaskAssumption`: tasks of different origin differ; `WheelAssumption`: the
wheel has a slot and a positive tick; `BlockAssumption`: a block has room for a
byte; `StreamAssumption`: what clients send is a sequence of requests, with a body
only where a header frames one, which is what its chunks make up, none of them empty,
if it is chunked; `NullAssumption`: null is no coroutine, and in `Router` no segment is the
value that stands for the null node; `TextAssumption`, `PatternAssumption`: the
segments of patterns and paths are texts; `EchoAssumption`, `BoundAssumption`,
`NeedleAssumption` and the rest give types). The bounds (`Max...`) are constants
like any other, so what is proved holds however large they are.

`ReactorProofs`, the loop. The invariants are not inductive: `NoLostWakeup` speaks of
the poll only, and a wakeup may be consumed just before. `LoopInv` adds where
each flag is set (`PhaseInv`), that an active wakeup channel has something to
read, and the key fact (`WakeupInv`): outside the dispatch of channels, a task
in the shared vector (other than one queued before `loop()`) has a wakeup
written or about to be; inside it, the swap is still to come and takes the
task. `InitEstablishes` and `NextPreserves` show it inductive; from it follow
`TypeCorrect`, `WakeupsAreNotLost`, `QuitIsNotSleptOn`, `TasksRunOnceInOrder`,
`LoopReturnsBetweenIterations`, and `LoopImplementsTaskQueue`, whose refinement
maps the queue to the rest of the batch followed by the shared vector.
`BatchesOnlyShrink` is about steps: while a batch runs no step makes it longer,
whatever is queued meanwhile.

`ReactorProofs`, the wheel. The same module holds the proofs about `TimerWheel`,
a specification of its own (`WheelSpec`). `WheelInv`: the types, the count, identifiers unique and
below `next_timer_id_`, and cancelled identifiers below it and absent. The
first lemma is that `Tick` changes `last_tick_` only, whatever the wheel holds;
the recursive walk is never unfolded. `HandNeverMoves` states it of the whole
system.

`HttpServerProofs`. `HttpInv` is the conjunction of five parts. The poller's map
and `connections_` are the inverses of one function, the descriptor of a live
Channel (`PollerInv`, `OwnerInv`); the connections that are open, and only
those, have an idle timer (`TimerInv`); the loop holds Channels only while it
dispatches, and live ones (`LoopInv`). `EraseInv` is what makes an erase by
descriptor safe. Erases are queued during dispatch only, each for a connection
that is there and closed, and a closed connection keeps its descriptor until it
is erased; so a descriptor named by a queued erase is not given away. The batch
that runs is weaker: a `stop()` in it takes connections away before their erases
run, and the proof needs that such an erase finds nothing, since nothing is
accepted before the batch has ended. From it follow `HttpTypeCorrect`,
`ChannelsAreLive`, `PollsTheOpenSockets`, `EraseIsSafe` and `TimersAreOwned`.

`EchoServerProofs`. The same question without the early return of `on_close()`,
where one connection may have two deletions queued. `OwnedInv`: each of them names a
connection that is live and closed; a batch runs all of them before anything is accepted, so
that the second finds nothing. With `MapInv` and `LifeInv` it gives
`EchoTypeCorrect`, `EchoNothingDangles` and `DeletionIsSafe`. `EchoFaithful` needs
`FreshInv` besides: a connection that is not made yet has read and sent nothing.

`BufferProofs`. Three parts. First, lemmas about `FlattenSeq`: what appending a
part, changing one and dropping some does to the concatenation. Second, the methods: each takes a
chain in order whose `size_` is the number of its bytes (`Good`) to such a chain,
with the bytes that `ByteQueue` asks for. The loops of `append()` and
`retrieve()` are followed turn by turn; they end because a turn finishes or
leaves a block, and a compaction needs no further block because the data fits
into those there are. From it follow `BufferStaysInOrder` and
`BufferImplementsByteQueue`. Third, the searches: the ends of the blocks are
marks on a ruler along the bytes, so that a position in a block is a position in
the bytes, and comparing a needle piece by piece is comparing it whole
(`SearchesAreRight`).

`HttpParserProofs`. The properties say what the handlers were given and when the
parser gives up, and nothing of where it is in the stream, so they are far from
inductive. `ParserInv` says just that: the bytes in the buffer, followed by those
still to arrive, are what is left of the request being parsed, followed by the
requests after it (`At`). For each place there is one value the parser's fields
can have (`AtHeaders`, `AtBody`, `AtSize`, `AtChunk`, `AtDone`), and what
has been read of a body is in `temp_body_`. Inside a chunked body the place is the
number of chunks read and of bytes of the next one (`ChunksFrom`, `BytesFrom`). The malformed ends are places
too: after a chunked body the unread CR LF is in front of the next request, and an
error has a malformed request or a chunked body as its cause (`AtError`). Three more
parts are needed: `HandledOK`, the bodies handled are those of the requests before
this place; `PhaseOK`, with `Quiet`: the parser waits for more data only when it
can do nothing with what it is shown; and `OneBlock`: a stream that fits into a
block stays in one block of the buffer, so that what it is shown is everything.

The argument goes from the bytes up. A CR LF can be found in front of a line only
when the whole line has arrived (`LineArrives`, `BlankArrives`), so each turn of a
loop either takes a whole line, or the bytes of a body that are there, or leaves
all as it is (`HeaderTurnKeeps`, `BodyKeeps`, `ChunkTurnKeeps`). The loops follow
by induction over their turns (`HeaderLoop`, `ChunkLoop`), `ParseStateKeeps` is the
`switch` in `parse()`, and the buffer enters last: `BufferProofs` is instanced for
the connection's buffer, and its lemmas say that a write appends to, and a
retrieve takes from the front of, the bytes it holds (`BufferWritten`,
`BufferRetrieved`, `BlockData`). There is one lemma for each action.
From the invariant follow `ParserTypeCorrect`, `ErrorsHaveACause` and
`HandledIsWhatWasSent`. `SimpleStreamsComplete` needs one step more: within the limits
of `Simple`, a parser that is quiet when everything has arrived has no request in
front of it (`NeverStuck`, `AllParsed`); outside them it may be stuck, which is
what run `HttpParserStraddle` shows.

`RouterProofs`. `TrieIsInOrder` is inductive with `PlacesInv`: the children of a
node are finitely many and have places up to their number. A new child gets the
next place, and since the prefixes of one pattern have different parents
(`PrefixFacts`), `add()` gives each node one new child at most. What `route()`
finds follows by induction over the segments of the path, given that the trie
is closed under prefixes (`PrefixInv`): the node the walk has reached matches
what it has walked (`RoutesOnlyMatch`); it follows a literal pattern, and a
pattern without a rival, to its end (`LiteralsAlwaysWin`,
`UnrivalledRoutesAreFound`); and a walk that meets no new node goes the same way
before and after an `add()` (`AddsOnlyShadow`).

`SchedulerProofs`. `QueueInv` (no coroutine twice in the ready queue) and
`TableInv` (who is in a table is suspended, not queued, and inside a call that
waits for just that event of that descriptor), both for coroutines that
`schedule()` is not misused for, together are inductive given the types: a
coroutine taken out of a table cannot be in the other, because it is inside one
call only, and an entry that belongs to a misused coroutine is nobody else's.
`CoroutinesAreHeldOnce` thus holds also when descriptors are shared, where
liveness fails, and when `schedule()` is misused for other coroutines.
`LoneWaitersAreHeld` is the safety behind `LoneWaiterRuns`: a suspended
coroutine that is alone on its descriptor is in the queue, or in the table with
a Channel that watches for its event. It needs `UsesInv` besides (calls and
registrations stay within `Uses`), which is what keeps others out of its entry;
it holds for misused coroutines too. `LoneWaitersWakeReady` is the other side: such
a coroutine, unless `schedule()` is misused for it, is queued or running inside a
wait only when the event has happened, because the one Channel of the descriptor
watches for no other and nobody else takes the event away.

`Induction`. The library's induction theorems take a predicate as a parameter,
which the provers cannot instantiate. The lemmas here take a set of numbers
instead and rest on the least element of a set that is not empty, which the
well-foundedness of the numbers gives; a proof then shows that the set of the
turns at which a fact holds is the whole range.

Proved and not checked by a run of its own: that `loop()` returns between
iterations only (`QuitFinishesIteration`), that every waiter has a Channel
(`WaitersAreWatched`), and the types of `Router` and `EchoServer`.

Only model-checked: all liveness (`TaskEventuallyRuns`, `QuitEndsLoop`,
`WakeupsDrained`, `ScheduledRuns`, `LoneWaiterRuns`, `ClosedIsDeleted`), which is
outside the prover's reach. The four statements under "findings" are refuted, so
there is nothing to prove of them; the thread pool has no other property.

## 5. Other deviations seen while modelling

No run is spent on these: each is visible in a few lines of the code. The models
contain them and the passing runs allow them, but for the direct call of
`stop()` by a handler and `peek_byte()`, which are not modelled; in the case of
`find()` it is a test that deviates.

| code | the repository says | what happens |
|---|---|---|
| `reactor/event_loop.cpp:250` | `event_loop.h:86-87`: a queued task runs in the next iteration "even if called from the loop thread" | a task the owner queues before `loop()` writes no wakeup and waits for an unrelated event |
| `reactor/event_loop.cpp:197` | `event_loop.h:60`: "Exit the event loop. Can be called from any thread." | a `quit()` between the construction of the loop and the store `quit_ = false` on entry is forgotten |
| `reactor/timer_wheel.cpp:164` | `timer_wheel.h:75-76`: "Get the time until the next timer fires. Used by EventLoop to calculate poll() timeout." | a timer in the current slot gives a timeout of zero, and since no tick takes it out, the loop polls without blocking from then on |
| `http/http_server.cpp:152`, `../examples/echo_server_reactor.cpp:160` | `io/socket.h:124`: `EAGAIN` means "no data yet, try again later" | a read or a write that would block closes the connection |
| `http/http_server.cpp:179` | - | when the write of a response has failed and closed the connection, the pipelined requests behind it are handled all the same |
| `../examples/echo_server_reactor.cpp:177` | `echo_server_reactor.cpp:9`: "we echo it back and enable writing" | writing is never enabled, and what a short write leaves is dropped (`ROADMAP.md:77` knows of partial writes) |
| `../examples/echo_server_reactor.cpp:58` | `echo_server_reactor.cpp:67`: "The Connection will be deleted by the server's cleanup logic" | the timeout's callback queues no deletion (it never fires, as no timer does) |
| `http/http_server.cpp:84` | `reactor/channel.cpp:13`: "Must not be in the middle of handle_event when destroyed" | `stop()` called directly by a request handler destroys the Channel that is handling the event |
| `io/buffer.cpp:113` | `buffer.h:82`: "Peek at data in the first readable block" | a block read to its end when just full stays the read block, and `peek()` is empty while later blocks hold data |
| `io/buffer.cpp:131` | `buffer.h:92`: "Read a single byte without consuming it." | in the same state, and when `ensure_writable()` has gone past an empty block, `peek_byte()` returns what is in a place without data |
| `io/buffer.cpp:202` | `../tests/io/buffer_test.cpp:117-123`: `find("\r\n")` is expected to be 26 after `append("GET /index.html HTTP/1.1\r\n", 28)` | the text is 26 bytes long, its first CR LF is at 24, and 24 is what `find()` returns, as `FindIsFirstOccurrence` says: the test has miscounted both numbers |
| `io/buffer.cpp:174` | `buffer.cpp:172-173`: compaction is "to avoid an ever-growing chain of depleted blocks" | a retrieve that empties the buffer does not compact, and the next blocks are allocated further on |
| `io/buffer.cpp:174` | `buffer.h:47-48`: views "remain valid until the data is consumed" | a compaction moves unconsumed bytes |
| `io/buffer.cpp:99` | `buffer.h:72`: "begin_write() will succeed for `len` bytes" | `ensure_writable()` provides one block at most |
| `http/http_parser.cpp:155` | `http_parser.h:25`: "resume from any state when more data arrives" | a request with `Content-Length: 0` is handled only when more bytes arrive |
| `http/http_parser.cpp:240` | `http_parser.cpp:241`: "Final chunk — read trailing CRLF and finish" | the CR LF stays in the buffer, is parsed as the next request line, answered 400, and the connection is closed |
| `http/router.cpp:110` | `router.h:23`: a path with a parameter leads to its handler | the walk does not come back: with `/a/x` and `/:p/y` registered, `/a/y` is not found; and a path segment with the text of the wildcard itself takes one segment only |
| `http/router.cpp:70` | `router.h:47`: the response is "set to 404 if no handler found" | with no route at all it is left as it was, a 200 |
| `http/router.cpp:141` | "405 Method Not Allowed" | the text of a response whose status is 404 |
| `http/router.cpp:115` | `router.h:23`: "captures `id`" | the captured parameters are dropped when `route()` returns |
| `http/http_server.cpp:250` | `http_parser.h:34` lists "Connection: keep-alive / close" | `finalize()` is never called and `keep_alive()` is always true |
| `coro/scheduler.cpp:46` | `scheduler.h:58`: "The coroutine is suspended until the fd becomes ready." | a second reader of a descriptor takes the place of the first, which is left in no table and no queue and stays suspended |
| `coro/scheduler.cpp:36` | `scheduler.h:54`: "Add an existing coroutine to the ready queue." | also one that is queued or waiting already, which is then resumed once too often (section 2, Scheduler) |
| `coro/coroutine.cpp:75` | `scheduler.h:29`: "When a coroutine yields, it goes to the back of the queue." | it goes into no queue |
| `coro/scheduler.cpp:131` | `scheduler.h:65`: "Returns true if there's more work." | a coroutine that has yielded or sleeps is not counted |
| `coro/scheduler.cpp:49` | `scheduler.cpp:55`: "The Channel will be cleaned up after the coroutine is resumed." | it stays registered (a FIXME says so) |

## 6. What is not modelled

`Address`, `Context`, `Logger`, `Result`, and of `Socket` the options, `readv()`
and `writev()`: system calls and utilities, present as nondeterministic outcomes
where they are used at all. `HttpResponse` and most of `HttpRequest`: string
formatting and parsing. In `HttpServer`: the bytes of responses, a `stop()` or a
destruction from inside a callback, descriptor exhaustion, the size of an
`fd_set`. `EventLoopThreadPool::get_next_loop()`, a counter nothing in the library
uses. `Channel::tie` (unused). Timer callbacks, because none is ever called; for
the same reason the echo example's periodic report, and its destructor, which
nothing reaches. The blocking echo server, whose threads share nothing, and the
HTTP example's handlers. The Windows socket set-up.

## 7. Plan

Done: the loop, the wheel, the connection life cycle with the server's
destruction, the buffer, the parser on it, the router, the scheduler, the reactor
echo server on its sockets, and the start and the end of the thread pool. What is
left of the library is formatting and thin wrappers (section 6). Proved: every
invariant, every action property and both refinements that a run checks; the
order was the loop, the wheel and the scheduler, then the servers, the buffer, the
router's walk, and the parser on the buffer.

What could still be done: shorter proofs where several steps repeat the same
argument, `BufferProofs` and `HttpParserProofs` first; and, if the code changes,
`AllHandled` itself in place of `SimpleStreamsAreHandled` once `parse()` is shown
more than one block, and the properties of timers that fire once `tick()` advances
the wheel.
