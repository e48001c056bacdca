----------------------------- MODULE ThreadPool ----------------------------
(***************************************************************************)
(* EventLoopThreadPool (reactor/thread_pool.cpp): one EventLoop and one    *)
(* thread for each worker, started by start() and stopped by the           *)
(* destructor, both called by the thread that owns the pool.  Of a loop    *)
(* there is what the pool depends on: the thread it belongs to, its entry  *)
(* and its exit (module EventLoop has the rest).  get_next_loop() is left  *)
(* out.                                                                    *)
(***************************************************************************)
EXTENDS Naturals

CONSTANTS
    thread_count_,  \* number of worker threads
    Owner           \* the thread that calls start() and the destructor

Workers == 1..thread_count_

VARIABLES
    pool,       \* "new", "starting", "started", "joining" or "destroyed"
    at,         \* per worker: "none", "spawned", "init", "looping" or "done"
    thread_id_, \* EventLoop::thread_id_ of each worker's loop
    quit_,      \* EventLoop::quit_ of each worker's loop
    aborted     \* LOG_FATAL has called abort()

vars == <<pool, at, thread_id_, quit_, aborted>>

\* The constructor.
Init ==
    /\ pool = "new"
    /\ at = [w \in Workers |-> "none"]
    /\ thread_id_ = <<>>
    /\ quit_ = [w \in Workers |-> FALSE]
    /\ aborted = FALSE

\* start(): the loops are constructed, each belonging to the constructing thread.
Start ==
    /\ pool = "new"
    /\ pool' = "starting"
    /\ thread_id_' = [w \in Workers |-> Owner]
    /\ UNCHANGED <<at, quit_, aborted>>

\* start(): threads_.emplace_back(...), one after the other.
Spawn(w) ==
    /\ pool = "starting"
    /\ at[w] = "none"
    /\ \A v \in 1..(w - 1) : at[v] # "none"
    /\ at' = [at EXCEPT ![w] = "spawned"]
    /\ pool' = IF w = thread_count_ THEN "started" ELSE pool
    /\ UNCHANGED <<thread_id_, quit_, aborted>>

\* The worker thread: thread_init(loop).
WorkerInit(w) ==
    /\ at[w] = "spawned"
    /\ at' = [at EXCEPT ![w] = "init"]
    /\ UNCHANGED <<pool, thread_id_, quit_, aborted>>

\* loop() up to its while: assert_in_loop_thread(), quit_ = false.
EnterLoop(w) ==
    /\ at[w] = "init"
    /\ IF thread_id_[w] # w THEN aborted' = TRUE /\ UNCHANGED <<at, quit_>>
       ELSE /\ at' = [at EXCEPT ![w] = "looping"]
            /\ quit_' = [quit_ EXCEPT ![w] = FALSE]
            /\ UNCHANGED aborted
    /\ UNCHANGED <<pool, thread_id_>>

\* loop() returns, and the thread ends.
LeaveLoop(w) ==
    /\ at[w] = "looping"
    /\ quit_[w]
    /\ at' = [at EXCEPT ![w] = "done"]
    /\ UNCHANGED <<pool, thread_id_, quit_, aborted>>

\* The destructor: quit() of every loop, then join() of every thread.
Quit ==
    /\ pool = "started"
    /\ pool' = "joining"
    /\ quit_' = [w \in Workers |-> TRUE]
    /\ UNCHANGED <<at, thread_id_, aborted>>

Join ==
    /\ pool = "joining"
    /\ \A w \in Workers : at[w] = "done"
    /\ pool' = "destroyed"
    /\ UNCHANGED <<at, thread_id_, quit_, aborted>>

WorkerStep(w) == WorkerInit(w) \/ EnterLoop(w) \/ LeaveLoop(w)

\* Until abort() the threads take their steps.
Next ==
    /\ ~aborted
    /\ \/ Start \/ Quit \/ Join
       \/ \E w \in Workers : Spawn(w) \/ WorkerStep(w)

\* Every runnable thread goes on; nobody is obliged to destroy the pool.
Fairness ==
    /\ WF_vars(~aborted /\ (Start \/ Join \/ \E w \in Workers : Spawn(w)))
    /\ \A w \in Workers : WF_vars(~aborted /\ WorkerStep(w))

FairSpec == Init /\ [][Next]_vars /\ Fairness

\* "Start all worker threads.", with a "callback run in each worker before
\* loop()" (thread_pool.h): a worker that has run the callback enters its loop.
\* Refuted: the loop belongs to the thread that called start().
WorkersEnterLoop == \A w \in Workers : at[w] = "init" ~> at[w] = "looping"

=============================================================================
