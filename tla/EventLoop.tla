----------------------------- MODULE EventLoop -----------------------------
(***************************************************************************)
(* EventLoop (reactor/event_loop.cpp): the poll / dispatch / tick /        *)
(* pending-tasks cycle of the loop thread, the cross-thread task queue     *)
(* with its mutex-protected vector, and the wakeup descriptor by which     *)
(* other threads interrupt a blocking poll.                                *)
(*                                                                         *)
(* Atomicity.  A step of the loop thread ends where another thread can see *)
(* the difference: the test of quit_, the return of select(), a wakeup     *)
(* read, the swap under mutex_, the start and the end of one task.  Another*)
(* thread's queue_in_loop() or quit() is two steps, because the push (or   *)
(* the store to quit_) and the write to the wakeup descriptor are not      *)
(* protected by one lock.  Tasks and channel callbacks are arbitrary user  *)
(* code: while one runs it may call queue_in_loop() and quit() any number  *)
(* of times.  TimerWheel::tick() runs no user code (see TimerWheel).       *)
(***************************************************************************)
EXTENDS Integers, Sequences, FiniteSets, Functions

CONSTANTS
    Threads,        \* the threads other than the one that owns the loop
    RemoteTasks,    \* tasks those threads hand over
    CallbackTasks,  \* tasks the owner queues from callbacks and tasks
    SetupTasks,     \* tasks the owner queues while loop() is not running
    EventFd,        \* TRUE: eventfd backend (Linux); FALSE: socket pair
    MaxQuits,       \* bound on the number of calls of quit()
    MaxLoops        \* bound on the number of calls of loop()

ASSUME BackendAssumption == EventFd \in BOOLEAN
ASSUME BoundAssumption == MaxQuits \in Nat /\ MaxLoops \in Nat
ASSUME TaskAssumption ==
    /\ RemoteTasks \cap CallbackTasks = {}
    /\ RemoteTasks \cap SetupTasks = {}
    /\ CallbackTasks \cap SetupTasks = {}

VARIABLES
    phase,                  \* where the owner thread is, see Phases
    looping_,               \* EventLoop::looping_
    quit_,                  \* EventLoop::quit_ (atomic)
    calling_pending_tasks_, \* EventLoop::calling_pending_tasks_
    pending_tasks_,         \* EventLoop::pending_tasks_, guarded by mutex_
    tasks,                  \* do_pending_tasks()'s local batch, what is left
    wakeup,                 \* unread 8-byte writes (or the eventfd counter)
    active,                 \* kinds of channel poll() returned, unhandled
    caller,                 \* [Threads -> {"idle", "wake"}]
    quits,                  \* number of calls of quit() so far
    loops,                  \* number of calls of loop() so far
    queued,                 \* history: every task pushed, in push order
    ran                     \* history: every task started, in start order

loopVars == <<looping_, loops, phase, active>>
taskVars == <<calling_pending_tasks_, pending_tasks_, tasks, queued, ran>>
vars == <<loopVars, taskVars, quit_, wakeup, caller, quits>>

Tasks == RemoteTasks \cup CallbackTasks \cup SetupTasks

\* "idle": outside loop() (before the first call, between calls, after the
\* last); "check": at while(!quit_); "poll": inside select(); "dispatch":
\* delivering active channels; "run", "task": inside do_pending_tasks(),
\* between tasks and in one.
Phases == {"idle", "check", "poll", "dispatch", "run", "task"}

Init ==
    /\ phase = "idle"
    /\ looping_ = FALSE
    /\ quit_ = FALSE
    /\ calling_pending_tasks_ = FALSE
    /\ pending_tasks_ = <<>>
    /\ tasks = <<>>
    /\ wakeup = 0
    /\ active = {}
    /\ caller = [p \in Threads |-> "idle"]
    /\ quits = 0
    /\ loops = 0
    /\ queued = <<>>
    /\ ran = <<>>

-----------------------------------------------------------------------------
(* loop(), one iteration of it per round of Enter .. EndPending.           *)

\* loop(): looping_ = true; quit_ = false.
Enter ==
    /\ phase = "idle"
    /\ loops < MaxLoops
    /\ looping_' = TRUE
    /\ quit_' = FALSE
    /\ phase' = "check"
    /\ loops' = loops + 1
    /\ UNCHANGED <<taskVars, active, wakeup, caller, quits>>

\* while (!quit_)
Continue ==
    /\ phase = "check"
    /\ ~quit_
    /\ phase' = "poll"
    /\ UNCHANGED <<looping_, loops, active, taskVars, quit_, wakeup, caller, quits>>

Leave ==
    /\ phase = "check"
    /\ quit_
    /\ looping_' = FALSE
    /\ phase' = "idle"
    /\ UNCHANGED <<loops, active, taskVars, quit_, wakeup, caller, quits>>

\* poll() returns channels: the wakeup channel whenever its descriptor is
\* readable (level triggered), others when the network makes them ready.
\* At least one, or select() would go on blocking.
PollReady ==
    /\ phase = "poll"
    /\ \E io \in SUBSET {"io"} :
        active' = io \cup (IF wakeup > 0 THEN {"wakeup"} ELSE {})
    /\ active' # {}
    /\ phase' = "dispatch"
    /\ UNCHANGED <<looping_, loops, taskVars, quit_, wakeup, caller, quits>>

\* poll() returns no channel: the timeout of the nearest timer, or an error
\* of select() (even with a readable wakeup descriptor).
PollNothing ==
    /\ phase = "poll"
    /\ phase' = "dispatch"
    /\ UNCHANGED <<looping_, loops, active, taskVars, quit_, wakeup, caller, quits>>

\* Wrong on purpose: the handler forgets to read the descriptor.
HandleWakeupNoRead ==
    /\ phase = "dispatch"
    /\ "wakeup" \in active
    /\ active' = active \ {"wakeup"}
    /\ UNCHANGED <<looping_, loops, phase, wakeup, taskVars, quit_, caller, quits>>

\* Wrong on purpose: one read too many.
HandleWakeupReadTwice ==
    /\ phase = "dispatch"
    /\ "wakeup" \in active
    /\ active' = active \ {"wakeup"}
    /\ wakeup' = wakeup - 2
    /\ UNCHANGED <<looping_, loops, phase, taskVars, quit_, caller, quits>>

\* handle_wakeup_read(): an eventfd read takes the whole counter, a recv of
\* eight bytes takes one write.  The wakeup channel is the first one
\* registered, so it is the first one dispatched.
HandleWakeup ==
    /\ phase = "dispatch"
    /\ "wakeup" \in active
    /\ active' = active \ {"wakeup"}
    /\ wakeup' = IF EventFd THEN 0 ELSE wakeup - 1
    /\ UNCHANGED <<looping_, loops, phase, taskVars, quit_, caller, quits>>

\* Wrong on purpose: the shared vector is copied, not swapped.
BeginPendingCopy ==
    /\ phase = "dispatch"
    /\ "wakeup" \notin active
    /\ calling_pending_tasks_' = TRUE
    /\ tasks' = pending_tasks_
    /\ active' = {}
    /\ phase' = "run"
    /\ UNCHANGED <<looping_, loops, pending_tasks_, queued, ran, quit_, wakeup,
                   caller, quits>>

\* Every channel has been dispatched and tick() has run: do_pending_tasks()
\* raises its flag and swaps the shared vector for its local one.
BeginPending ==
    /\ phase = "dispatch"
    /\ "wakeup" \notin active
    /\ calling_pending_tasks_' = TRUE
    /\ tasks' = pending_tasks_
    /\ pending_tasks_' = <<>>
    /\ active' = {}
    /\ phase' = "run"
    /\ UNCHANGED <<looping_, loops, queued, ran, quit_, wakeup, caller, quits>>

\* Wrong on purpose: the batch is run from its back.
RunTaskLast ==
    /\ phase = "run"
    /\ tasks # <<>>
    /\ ran' = Append(ran, tasks[Len(tasks)])
    /\ tasks' = SubSeq(tasks, 1, Len(tasks) - 1)
    /\ phase' = "task"
    /\ UNCHANGED <<looping_, loops, active, calling_pending_tasks_, pending_tasks_,
                   queued, quit_, wakeup, caller, quits>>

RunTask ==
    /\ phase = "run"
    /\ tasks # <<>>
    /\ ran' = Append(ran, Head(tasks))
    /\ tasks' = Tail(tasks)
    /\ phase' = "task"
    /\ UNCHANGED <<looping_, loops, active, calling_pending_tasks_, pending_tasks_,
                   queued, quit_, wakeup, caller, quits>>

EndTask ==
    /\ phase = "task"
    /\ phase' = "run"
    /\ UNCHANGED <<looping_, loops, active, taskVars, quit_, wakeup, caller, quits>>

EndPending ==
    /\ phase = "run"
    /\ tasks = <<>>
    /\ calling_pending_tasks_' = FALSE
    /\ phase' = "check"
    /\ UNCHANGED <<looping_, loops, active, pending_tasks_, tasks, queued, ran,
                   quit_, wakeup, caller, quits>>

-----------------------------------------------------------------------------
(* queue_in_loop() and quit(), called by the owner thread.                 *)

\* Where the owner thread executes user code inside loop().
InCallback == phase = "dispatch" /\ active = {"io"}
InUserCode == InCallback \/ phase = "task"

\* Wrong on purpose: do_pending_tasks() iterates over the shared vector.
PushLive(t) ==
    /\ t \notin Range(queued)
    /\ queued' = Append(queued, t)
    /\ IF calling_pending_tasks_
       THEN tasks' = Append(tasks, t) /\ UNCHANGED pending_tasks_
       ELSE pending_tasks_' = Append(pending_tasks_, t) /\ UNCHANGED tasks
    /\ UNCHANGED <<calling_pending_tasks_, ran>>

Push(t) ==
    /\ t \notin Range(queued)
    /\ pending_tasks_' = Append(pending_tasks_, t)
    /\ queued' = Append(queued, t)
    /\ UNCHANGED <<calling_pending_tasks_, tasks, ran>>

\* Wrong on purpose: the loop thread never writes a wakeup.
QueueFromLoopNoWake(t) ==
    /\ IF InUserCode THEN t \in CallbackTasks
                     ELSE phase = "idle" /\ t \in SetupTasks
    /\ Push(t)
    /\ UNCHANGED <<loopVars, wakeup, quit_, caller, quits>>

\* queue_in_loop() with is_in_loop_thread(): wakeup() only when
\* calling_pending_tasks_.  Both run on one thread, and the wakeup is not
\* read by any other, so push and wakeup are one step.
QueueFromLoop(t) ==
    /\ IF InUserCode THEN t \in CallbackTasks
                     ELSE phase = "idle" /\ t \in SetupTasks
    /\ Push(t)
    /\ wakeup' = IF calling_pending_tasks_ THEN wakeup + 1 ELSE wakeup
    /\ UNCHANGED <<loopVars, quit_, caller, quits>>

\* quit() with is_in_loop_thread(): no wakeup.
QuitFromLoop ==
    /\ InUserCode
    /\ quits < MaxQuits
    /\ quit_' = TRUE
    /\ quits' = quits + 1
    /\ UNCHANGED <<loopVars, taskVars, wakeup, caller>>

-----------------------------------------------------------------------------
(* run_in_loop(), queue_in_loop() and quit(), called by another thread.    *)

\* Wrong on purpose: another thread wakes the loop only during a batch.
QueueFromThreadNoWake(p, t) ==
    /\ caller[p] = "idle"
    /\ t \in RemoteTasks
    /\ Push(t)
    /\ caller' = [caller EXCEPT ![p] = IF calling_pending_tasks_ THEN "wake" ELSE "idle"]
    /\ UNCHANGED <<loopVars, quit_, wakeup, quits>>

QueueFromThread(p, t) ==
    /\ caller[p] = "idle"
    /\ t \in RemoteTasks
    /\ Push(t)
    /\ caller' = [caller EXCEPT ![p] = "wake"]
    /\ UNCHANGED <<loopVars, quit_, wakeup, quits>>

\* Wrong on purpose: quit() stores the flag and wakes nobody.
QuitFromThreadNoWake(p) ==
    /\ caller[p] = "idle"
    /\ quits < MaxQuits
    /\ quit_' = TRUE
    /\ quits' = quits + 1
    /\ UNCHANGED <<loopVars, taskVars, wakeup, caller>>

QuitFromThread(p) ==
    /\ caller[p] = "idle"
    /\ quits < MaxQuits
    /\ quit_' = TRUE
    /\ quits' = quits + 1
    /\ caller' = [caller EXCEPT ![p] = "wake"]
    /\ UNCHANGED <<loopVars, taskVars, wakeup>>

\* wakeup(), the last thing either call does.
Wakeup(p) ==
    /\ caller[p] = "wake"
    /\ wakeup' = wakeup + 1
    /\ caller' = [caller EXCEPT ![p] = "idle"]
    /\ UNCHANGED <<loopVars, taskVars, quit_, quits>>

-----------------------------------------------------------------------------
LoopStep ==
    \/ Continue \/ Leave \/ PollReady \/ HandleWakeup
    \/ BeginPending \/ RunTask \/ EndTask \/ EndPending

UserCode == QuitFromLoop \/ \E t \in Tasks : QueueFromLoop(t)

ThreadStep(p) ==
    \/ \E t \in Tasks : QueueFromThread(p, t)
    \/ QuitFromThread(p)
    \/ Wakeup(p)

Next ==
    \/ Enter \/ PollNothing \/ LoopStep
    \/ UserCode
    \/ \E p \in Threads : ThreadStep(p)

Spec == Init /\ [][Next]_vars

(***************************************************************************)
(* The scheduler lets every runnable thread go on, a callback or a task    *)
(* returns, and a readable descriptor ends select().  Nothing obliges      *)
(* anyone to submit a task, call quit() or make a socket ready; no timer   *)
(* need expire and no select() need fail, so PollNothing has no fairness.  *)
(* Errors of select() are transient (EINTR): they cannot for ever keep the *)
(* loop from a readable descriptor, hence SF rather than WF on a poll that *)
(* has the wakeup descriptor to report.                                    *)
(***************************************************************************)
Fairness ==
    /\ WF_vars(Enter)
    /\ WF_vars(Continue \/ Leave \/ HandleWakeup
               \/ BeginPending \/ RunTask \/ EndTask \/ EndPending)
    /\ SF_vars(PollReady /\ wakeup > 0)
    /\ \A p \in Threads : WF_vars(Wakeup(p))

FairSpec == Spec /\ Fairness

-----------------------------------------------------------------------------
(* Properties.                                                             *)

\* Every variable of the loop has its type; the wakeup counter never goes
\* below zero.
TypeOK ==
    /\ phase \in Phases
    /\ looping_ \in BOOLEAN
    /\ quit_ \in BOOLEAN
    /\ calling_pending_tasks_ \in BOOLEAN
    /\ pending_tasks_ \in Seq(Tasks)
    /\ tasks \in Seq(Tasks)
    /\ wakeup \in Nat
    /\ active \in SUBSET {"wakeup", "io"}
    /\ caller \in [Threads -> {"idle", "wake"}]
    /\ quits \in 0..MaxQuits
    /\ loops \in 0..MaxLoops
    /\ queued \in Seq(Tasks)
    /\ ran \in Seq(Tasks)

\* No task is lost, duplicated or reordered between push_back(), the swap
\* and the batch loop, whichever threads push at which moment: what was
\* pushed is what has run, then what is left of the batch, then what is in
\* the shared vector.
ExactlyOnceInOrder == queued = ran \o tasks \o pending_tasks_

\* A wakeup is on its way to the loop: written, or about to be by a thread
\* that is between its push (or its store to quit_) and its wakeup().
WakeupComing == wakeup > 0 \/ \E p \in Threads : caller[p] = "wake"

\* The loop never blocks in select() on a task that queue_in_loop()
\* accepted while it was running or from another thread, without a wakeup
\* on its way (the condition at the end of queue_in_loop()).
NoLostWakeup ==
    phase = "poll" /\ Range(pending_tasks_) \ SetupTasks # {} => WakeupComing

\* Nor does it block in select() after quit() from another thread; quit()
\* from the loop thread needs no wakeup.
NoSleepAfterQuit == phase = "poll" /\ quit_ => WakeupComing

(***************************************************************************)
(* The inductive strengthening.  A wakeup may be consumed while a task is  *)
(* still in the shared vector only between HandleWakeup and the swap, and  *)
(* the swap is then certain; everywhere else a waiting task has a wakeup.  *)
(***************************************************************************)
PhaseInv ==
    /\ looping_ <=> phase # "idle"
    /\ calling_pending_tasks_ <=> phase \in {"run", "task"}
    /\ active # {} => phase = "dispatch"
    /\ tasks # <<>> => phase \in {"run", "task"}

WakeupInv ==
    /\ "wakeup" \in active => wakeup > 0
    /\ phase # "dispatch" /\ Range(pending_tasks_) \ SetupTasks # {} => WakeupComing
    /\ phase = "poll" /\ quit_ => WakeupComing

\* The conjunction proved inductive in ReactorProofs: outside the dispatch
\* of channels every waiting task has its wakeup, and each flag of the loop
\* agrees with the place the loop thread is at.
LoopInv == TypeOK /\ PhaseInv /\ WakeupInv /\ ExactlyOnceInOrder

\* The batch do_pending_tasks() runs only gets shorter: a task that queues
\* tasks cannot keep the loop from its descriptors.
BatchNeverGrows ==
    [][calling_pending_tasks_ => Len(tasks') <= Len(tasks)]_vars

\* "The loop will finish its current iteration before returning"
\* (event_loop.h): when loop() returns no channel is left undispatched and
\* no task of the batch is left behind.
QuitFinishesIteration ==
    [][looping_ /\ ~looping_' =>
          active = {} /\ tasks = <<>> /\ ~calling_pending_tasks_]_vars

\* The loop is a FIFO executor (module TaskQueue).
Executor == INSTANCE TaskQueue WITH
    Task <- Tasks, queue <- tasks \o pending_tasks_, done <- ran

ImplementsTaskQueue == Executor!Spec

\* A task queued by another thread, a callback or a task is executed, unless
\* the loop is told to quit.  One the owner queued before loop() has no wakeup of
\* its own (the condition at the end of queue_in_loop() is false): it is executed
\* when any other wakeup comes.
TaskEventuallyRuns ==
    \A t \in Tasks :
        /\ looping_
        /\ t \in Range(pending_tasks_)
        /\ t \in SetupTasks => WakeupComing
        ~> t \in Range(ran) \/ ~looping_

\* quit() called while loop() runs makes it return.  (One that comes before the
\* owner's store quit_ = false is forgotten.)
QuitEndsLoop == looping_ /\ quit_ ~> ~looping_

\* The loop does not spin on a wakeup descriptor that stays readable: all
\* wakeups are eventually read, eight bytes at a time.
WakeupsDrained == looping_ ~> wakeup = 0 \/ ~looping_

=============================================================================
