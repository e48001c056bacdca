--------------------------- MODULE ReactorProofs ---------------------------
(***************************************************************************)
(* The loop and its timer wheel, each a specification of its own.          *)
(*                                                                         *)
(* EventLoop, for any set of threads and tasks and both wakeup backends:   *)
(* LoopInv is inductive, hence no wakeup is lost and no task is lost,      *)
(* duplicated or reordered, and every step of the loop is a step of        *)
(* TaskQueue or leaves it unchanged.                                       *)
(*                                                                         *)
(* TimerWheel, for every wheel size, tick length and set of delays:        *)
(* timer_count_ is the number of timers in the buckets, the loop never     *)
(* sleeps without a timeout while a timer is scheduled, a cancelled        *)
(* identifier never comes back, and tick() changes nothing but last_tick_. *)
(***************************************************************************)
EXTENDS EventLoop, TimerWheel, SequenceTheorems, FiniteSetTheorems, WellFoundedInduction, TLAPS

-----------------------------------------------------------------------------
(* Sequences.                                                              *)

\* push_back() adds one element to what the vector holds.
LEMMA RangeAppend ==
    ASSUME NEW S, NEW s \in Seq(S), NEW t \in S
    PROVE  Range(Append(s, t)) = Range(s) \cup {t}
<1>1. Append(s, t) \in Seq(S) /\ Len(Append(s, t)) = Len(s) + 1
  BY AppendProperties
<1>2. DOMAIN s = 1..Len(s) /\ DOMAIN Append(s, t) = 1..(Len(s) + 1)
  BY <1>1, LenProperties
<1>3. \A i \in 1..Len(s) : Append(s, t)[i] = s[i]
  BY AppendProperties
<1>4. Append(s, t)[Len(s) + 1] = t
  BY AppendProperties
<1>5. Len(s) \in Nat
  BY LenProperties
<1> QED
  BY <1>2, <1>3, <1>4, <1>5 DEF Range

\* Taking the head of the batch moves one task across the boundary between
\* what has run and what is left.
LEMMA MoveHead ==
    ASSUME NEW S, NEW r \in Seq(S), NEW b \in Seq(S), b # <<>>
    PROVE  /\ Append(r, Head(b)) \in Seq(S)
           /\ Tail(b) \in Seq(S)
           /\ Append(r, Head(b)) \o Tail(b) = r \o b
<1>1. Head(b) \in S /\ Tail(b) \in Seq(S) /\ <<Head(b)>> \in Seq(S)
  BY HeadTailProperties
<1>2. Append(r, Head(b)) \in Seq(S) /\ Append(r, Head(b)) = r \o <<Head(b)>>
  BY <1>1, AppendProperties, AppendIsConcat
<1>3. <<Head(b)>> \o Tail(b) = b
  BY <1>1, HeadTailProperties, SMT
<1>4. (r \o <<Head(b)>>) \o Tail(b) = r \o (<<Head(b)>> \o Tail(b))
  BY <1>1, ConcatAssociative
<1> QED
  BY <1>1, <1>2, <1>3, <1>4

\* A push at the end of the shared vector is a push at the end of everything.
LEMMA PushIsLast ==
    ASSUME NEW S, NEW r \in Seq(S), NEW q \in Seq(S), NEW t \in S
    PROVE  r \o Append(q, t) = Append(r \o q, t)
<1>1. <<t>> \in Seq(S) /\ r \o q \in Seq(S)
  BY ConcatProperties
<1>2. Append(q, t) = q \o <<t>> /\ Append(r \o q, t) = (r \o q) \o <<t>>
  BY <1>1, AppendIsConcat
<1>3. (r \o q) \o <<t>> = r \o (q \o <<t>>)
  BY <1>1, ConcatAssociative
<1> QED
  BY <1>2, <1>3

-----------------------------------------------------------------------------
(* The inductive invariant of the loop.                                    *)

\* The initial state satisfies the invariant.
LEMMA InitEstablishes == Init => LoopInv
<1> SUFFICES ASSUME Init PROVE LoopInv
  OBVIOUS
<1>1. TypeOK
  <2>1. /\ phase \in Phases /\ looping_ \in BOOLEAN /\ quit_ \in BOOLEAN
        /\ calling_pending_tasks_ \in BOOLEAN
    BY Zenon DEF Init, Phases
  <2>2. quits \in 0..MaxQuits /\ loops \in 0..MaxLoops /\ wakeup \in Nat
    BY BoundAssumption DEF Init
  <2>3. /\ pending_tasks_ \in Seq(Tasks) /\ tasks \in Seq(Tasks)
        /\ queued \in Seq(Tasks) /\ ran \in Seq(Tasks)
    BY EmptySeq DEF Init
  <2> QED
    BY <2>1, <2>2, <2>3 DEF Init, TypeOK
<1>2. PhaseInv /\ WakeupInv
  BY DEF Init, PhaseInv, WakeupInv, Range
<1>3. ExactlyOnceInOrder
  BY DEF Init, ExactlyOnceInOrder
<1> QED
  BY <1>1, <1>2, <1>3 DEF LoopInv

\* What Push does to the queues, whoever calls it.
LEMMA PushKeepsOrder ==
    ASSUME TypeOK, ExactlyOnceInOrder, NEW t \in Tasks, Push(t)
    PROVE  /\ pending_tasks_' \in Seq(Tasks) /\ queued' \in Seq(Tasks)
           /\ tasks' \in Seq(Tasks) /\ ran' \in Seq(Tasks)
           /\ ExactlyOnceInOrder'
           /\ Range(pending_tasks_') = Range(pending_tasks_) \cup {t}
<1>1. pending_tasks_ \in Seq(Tasks) /\ queued \in Seq(Tasks) /\ ran \o tasks \in Seq(Tasks)
  BY ConcatProperties DEF TypeOK
<1>2. queued' = Append(queued, t) /\ pending_tasks_' = Append(pending_tasks_, t)
      /\ tasks' = tasks /\ ran' = ran
  BY DEF Push
<1>3. (ran \o tasks) \o Append(pending_tasks_, t) = Append((ran \o tasks) \o pending_tasks_, t)
  BY <1>1, PushIsLast
<1>4. ExactlyOnceInOrder'
  BY <1>2, <1>3 DEF ExactlyOnceInOrder
<1> QED
  BY <1>1, <1>2, <1>4, RangeAppend, AppendProperties DEF TypeOK

\* The invariant is inductive: one step for each action.
LEMMA NextPreserves == LoopInv /\ [Next]_vars => LoopInv'
<1> SUFFICES ASSUME LoopInv, [Next]_vars PROVE LoopInv'
  OBVIOUS
<1> USE DEF LoopInv
<1>1. CASE Enter
  <2>1. looping_' \in BOOLEAN /\ quit_' \in BOOLEAN /\ phase' \in Phases
    BY <1>1, Zenon DEF Enter, Phases
  <2>2. loops' \in 0..MaxLoops
    BY <1>1, BoundAssumption DEF Enter, TypeOK
  <2>3. TypeOK'
    BY <1>1, <2>1, <2>2 DEF Enter, TypeOK, taskVars
  <2>4. PhaseInv' /\ WakeupInv' /\ ExactlyOnceInOrder'
    BY <1>1 DEF Enter, PhaseInv, WakeupInv, WakeupComing, ExactlyOnceInOrder, taskVars
  <2> QED
    BY <2>3, <2>4
<1>2. CASE Continue
  BY <1>2 DEF Continue, TypeOK, PhaseInv, WakeupInv, WakeupComing, ExactlyOnceInOrder,
     taskVars, Phases
<1>3. CASE Leave
  BY <1>3 DEF Leave, TypeOK, PhaseInv, WakeupInv, WakeupComing, ExactlyOnceInOrder,
     taskVars, Phases
<1>4. CASE PollReady
  BY <1>4 DEF PollReady, TypeOK, PhaseInv, WakeupInv, WakeupComing, ExactlyOnceInOrder,
     taskVars, Phases
<1>5. CASE PollNothing
  BY <1>5 DEF PollNothing, TypeOK, PhaseInv, WakeupInv, WakeupComing, ExactlyOnceInOrder,
     taskVars, Phases
<1>6. CASE HandleWakeup
  BY <1>6, BackendAssumption DEF HandleWakeup, TypeOK, PhaseInv, WakeupInv, WakeupComing,
     ExactlyOnceInOrder, taskVars, Phases
<1>7. CASE BeginPending
  <2>1. tasks = <<>>
    BY <1>7 DEF BeginPending, PhaseInv
  <2>2. ran \o <<>> = ran /\ (ran \o pending_tasks_) \o <<>> = ran \o pending_tasks_
    BY ConcatEmptySeq, ConcatProperties DEF TypeOK
  <2>3. ExactlyOnceInOrder'
    BY <1>7, <2>1, <2>2 DEF BeginPending, ExactlyOnceInOrder
  <2>4. TypeOK' /\ PhaseInv' /\ WakeupInv'
    BY <1>7 DEF BeginPending, TypeOK, PhaseInv, WakeupInv, WakeupComing, Phases, Range
  <2> QED
    BY <2>3, <2>4
<1>8. CASE RunTask
  <2>1. /\ ran' = Append(ran, Head(tasks)) /\ tasks' = Tail(tasks) /\ tasks # <<>>
        /\ queued' = queued /\ pending_tasks_' = pending_tasks_
    BY <1>8 DEF RunTask
  <2>2. ran' \in Seq(Tasks) /\ tasks' \in Seq(Tasks) /\ ran' \o tasks' = ran \o tasks
    BY <2>1, MoveHead, SMTT(30) DEF TypeOK
  <2>3. ExactlyOnceInOrder'
    BY <2>1, <2>2 DEF ExactlyOnceInOrder
  <2>4. TypeOK' /\ PhaseInv' /\ WakeupInv'
    BY <1>8, <2>2 DEF RunTask, TypeOK, PhaseInv, WakeupInv, WakeupComing, Phases
  <2> QED
    BY <2>3, <2>4
<1>9. CASE EndTask
  BY <1>9 DEF EndTask, TypeOK, PhaseInv, WakeupInv, WakeupComing, ExactlyOnceInOrder,
     taskVars, Phases
<1>10. CASE EndPending
  BY <1>10 DEF EndPending, TypeOK, PhaseInv, WakeupInv, WakeupComing, ExactlyOnceInOrder,
     Phases
<1>11. ASSUME NEW t \in Tasks, QueueFromLoop(t) PROVE LoopInv'
  <2>1. /\ pending_tasks_' \in Seq(Tasks) /\ queued' \in Seq(Tasks)
        /\ tasks' \in Seq(Tasks) /\ ran' \in Seq(Tasks) /\ ExactlyOnceInOrder'
        /\ Range(pending_tasks_') = Range(pending_tasks_) \cup {t}
    BY <1>11, PushKeepsOrder DEF QueueFromLoop
  <2>2. tasks' = tasks /\ calling_pending_tasks_' = calling_pending_tasks_
    BY <1>11 DEF QueueFromLoop, Push
  <2>3. TypeOK' /\ PhaseInv'
    BY <1>11, <2>1, <2>2 DEF QueueFromLoop, TypeOK, PhaseInv, loopVars
  <2>4. WakeupInv'
    <3>1. CASE phase = "task"
      BY <1>11, <3>1 DEF QueueFromLoop, TypeOK, PhaseInv, WakeupInv, WakeupComing, loopVars
    <3>2. CASE phase = "dispatch"
      BY <1>11, <3>2 DEF QueueFromLoop, TypeOK, PhaseInv, WakeupInv, WakeupComing, loopVars
    <3>3. CASE phase = "idle"
      <4>1. t \in SetupTasks
        BY <1>11, <3>3 DEF QueueFromLoop, InUserCode, InCallback
      <4>2. Range(pending_tasks_') \ SetupTasks = Range(pending_tasks_) \ SetupTasks
        BY <4>1, <2>1
      <4> QED
        BY <1>11, <3>3, <4>2 DEF QueueFromLoop, TypeOK, PhaseInv, WakeupInv, WakeupComing,
           loopVars
    <3> QED
      BY <1>11, <3>1, <3>2, <3>3 DEF QueueFromLoop, InUserCode, InCallback
  <2> QED
    BY <2>1, <2>3, <2>4
<1>12. CASE QuitFromLoop
  BY <1>12, BoundAssumption DEF QuitFromLoop, InUserCode, InCallback, TypeOK, PhaseInv,
     WakeupInv, WakeupComing, ExactlyOnceInOrder, loopVars, taskVars
<1>13. ASSUME NEW p \in Threads, NEW t \in Tasks, QueueFromThread(p, t) PROVE LoopInv'
  <2>1. /\ pending_tasks_' \in Seq(Tasks) /\ queued' \in Seq(Tasks)
        /\ tasks' \in Seq(Tasks) /\ ran' \in Seq(Tasks) /\ ExactlyOnceInOrder'
    BY <1>13, PushKeepsOrder DEF QueueFromThread
  <2>2. tasks' = tasks /\ calling_pending_tasks_' = calling_pending_tasks_
    BY <1>13 DEF QueueFromThread, Push
  <2>3. TypeOK' /\ PhaseInv'
    BY <1>13, <2>1, <2>2 DEF QueueFromThread, TypeOK, PhaseInv, loopVars
  <2>4. caller'[p] = "wake"
    BY <1>13 DEF QueueFromThread, TypeOK
  <2>5. WakeupInv'
    BY <1>13, <2>4 DEF QueueFromThread, WakeupInv, WakeupComing, loopVars
  <2> QED
    BY <2>1, <2>3, <2>5
<1>14. ASSUME NEW p \in Threads, QuitFromThread(p) PROVE LoopInv'
  <2>1. caller'[p] = "wake"
    BY <1>14 DEF QuitFromThread, TypeOK
  <2>2. WakeupInv'
    BY <1>14, <2>1 DEF QuitFromThread, WakeupInv, WakeupComing, loopVars, taskVars
  <2>3. TypeOK' /\ PhaseInv' /\ ExactlyOnceInOrder'
    BY <1>14, BoundAssumption DEF QuitFromThread, TypeOK, PhaseInv, ExactlyOnceInOrder,
       loopVars, taskVars
  <2> QED
    BY <2>2, <2>3
<1>15. ASSUME NEW p \in Threads, Wakeup(p) PROVE LoopInv'
  BY <1>15 DEF Wakeup, TypeOK, PhaseInv, WakeupInv, WakeupComing, ExactlyOnceInOrder,
     loopVars, taskVars
<1>16. CASE UNCHANGED vars
  BY <1>16 DEF vars, loopVars, taskVars, TypeOK, PhaseInv, WakeupInv, WakeupComing,
     ExactlyOnceInOrder
<1> QED
  BY <1>1, <1>2, <1>3, <1>4, <1>5, <1>6, <1>7, <1>8, <1>9, <1>10, <1>11, <1>12, <1>13,
     <1>14, <1>15, <1>16 DEF Next, LoopStep, UserCode, ThreadStep

\* LoopInv holds of every reachable state.
LEMMA AlwaysLoopInv == Spec => []LoopInv
  BY InitEstablishes, NextPreserves, PTL DEF Spec

-----------------------------------------------------------------------------
(* The theorems about the loop.                                            *)

\* Type correctness of the event loop; in particular read_wakeup() never
\* takes more than was written.
THEOREM TypeCorrect == Spec => []TypeOK
<1>1. LoopInv => TypeOK
  BY DEF LoopInv
<1> QED
  BY <1>1, AlwaysLoopInv, PTL

\* With any number of threads and either backend, select() is never entered
\* or left blocking on a task for which no wakeup is on its way.
THEOREM WakeupsAreNotLost == Spec => []NoLostWakeup
<1>1. LoopInv => NoLostWakeup
  BY DEF LoopInv, WakeupInv, NoLostWakeup
<1> QED
  BY <1>1, AlwaysLoopInv, PTL

\* The same for a quit() from another thread while the loop is polling.
THEOREM QuitIsNotSleptOn == Spec => []NoSleepAfterQuit
<1>1. LoopInv => NoSleepAfterQuit
  BY DEF LoopInv, WakeupInv, NoSleepAfterQuit
<1> QED
  BY <1>1, AlwaysLoopInv, PTL

\* Tasks are neither lost nor duplicated nor reordered between queue_in_loop()
\* and their execution.
THEOREM TasksRunOnceInOrder == Spec => []ExactlyOnceInOrder
<1>1. LoopInv => ExactlyOnceInOrder
  BY DEF LoopInv
<1> QED
  BY <1>1, AlwaysLoopInv, PTL

\* loop() returns only between iterations: every channel dispatched, every
\* task of the batch run.
THEOREM LoopReturnsBetweenIterations == Spec => QuitFinishesIteration
<1>1. LoopInv /\ [Next]_vars =>
        [looping_ /\ ~looping_' =>
            active = {} /\ tasks = <<>> /\ ~calling_pending_tasks_]_vars
  <2> SUFFICES ASSUME LoopInv, Next, looping_, ~looping_'
               PROVE  active = {} /\ tasks = <<>> /\ ~calling_pending_tasks_
    BY DEF vars, loopVars
  <2>1. phase = "check"
    BY DEF Next, LoopStep, UserCode, ThreadStep, Enter, Continue, Leave, PollReady,
       PollNothing, HandleWakeup, BeginPending, RunTask, EndTask, EndPending,
       QueueFromLoop, QuitFromLoop, QueueFromThread, QuitFromThread, Wakeup,
       loopVars
  <2> QED
    BY <2>1 DEF LoopInv, PhaseInv
<1> QED
  BY <1>1, AlwaysLoopInv, PTL DEF Spec, QuitFinishesIteration

\* Once do_pending_tasks() has swapped the vectors its batch only gets shorter:
\* what callbacks, tasks and other threads queue meanwhile waits for the next
\* iteration, after the descriptors have been polled.
THEOREM BatchesOnlyShrink == Spec => BatchNeverGrows
<1>1. LoopInv /\ [Next]_vars => [calling_pending_tasks_ => Len(tasks') <= Len(tasks)]_vars
  <2> SUFFICES ASSUME LoopInv, Next, calling_pending_tasks_
               PROVE  Len(tasks') <= Len(tasks)
    OBVIOUS
  <2>1. tasks \in Seq(Tasks) /\ Len(tasks) \in Nat
    BY LenProperties DEF LoopInv, TypeOK
  <2>2. ~BeginPending
    BY DEF LoopInv, PhaseInv, BeginPending
  <2>3. CASE RunTask
    <3>1. tasks' = Tail(tasks) /\ tasks # <<>>
      BY <2>3 DEF RunTask
    <3>2. Len(Tail(tasks)) = Len(tasks) - 1
      BY <2>1, <3>1, HeadTailProperties
    <3> QED
      BY <2>1, <3>1, <3>2
  <2>4. CASE tasks' = tasks
    BY <2>1, <2>4
  <2>5. RunTask \/ tasks' = tasks
    BY <2>2 DEF Next, LoopStep, UserCode, ThreadStep, Enter, Continue, Leave, PollReady,
       PollNothing, HandleWakeup, EndTask, EndPending, QueueFromLoop, QuitFromLoop,
       QueueFromThread, QuitFromThread, Wakeup, Push, taskVars
  <2> QED
    BY <2>3, <2>4, <2>5
<1> QED
  BY <1>1, AlwaysLoopInv, PTL DEF Spec, BatchNeverGrows

\* A task started by the loop is the head of the abstract queue.
LEMMA RunTaskExecutes ==
    ASSUME LoopInv, RunTask
    PROVE  Executor!Execute
<1> DEFINE q == tasks \o pending_tasks_
<1>1. /\ tasks \in Seq(Tasks) /\ pending_tasks_ \in Seq(Tasks) /\ tasks # <<>>
      /\ Tail(tasks) \in Seq(Tasks)
  BY HeadTailProperties DEF LoopInv, TypeOK, RunTask
<1>2. q # <<>> /\ q \in Seq(Tasks) /\ Head(q) = Head(tasks)
  BY <1>1, ConcatProperties, EmptySeq, LenProperties
<1>3. Tail(q) = Tail(tasks) \o pending_tasks_
  BY <1>1, <1>2, ConcatProperties, HeadTailProperties, LenProperties, SeqEqual, SMTT(30)
<1>4. (tasks \o pending_tasks_)' = Tail(q) /\ ran' = Append(ran, Head(q))
  BY <1>2, <1>3 DEF RunTask
<1> QED
  BY <1>2, <1>4 DEF Executor!Execute

\* A push by any thread is a submission to the abstract queue.
LEMMA PushSubmits ==
    ASSUME LoopInv, NEW t \in Tasks, Push(t)
    PROVE  Executor!Submit
<1>1. /\ tasks \in Seq(Tasks) /\ pending_tasks_ \in Seq(Tasks) /\ ran \in Seq(Tasks)
      /\ tasks \o pending_tasks_ \in Seq(Tasks) /\ ran \o tasks \in Seq(Tasks)
  BY ConcatProperties DEF LoopInv, TypeOK
<1>2. (tasks \o pending_tasks_)' = Append(tasks \o pending_tasks_, t)
  BY <1>1, PushIsLast DEF Push
<1>3. Range(queued) = Range(ran) \cup Range(tasks \o pending_tasks_)
  <2>1. queued = ran \o (tasks \o pending_tasks_)
    BY <1>1, ConcatAssociative DEF LoopInv, ExactlyOnceInOrder
  <2>2. Range(ran \o (tasks \o pending_tasks_)) = Range(ran) \cup Range(tasks \o pending_tasks_)
    <3> DEFINE q == tasks \o pending_tasks_
    <3>1. ran \in Seq(Tasks) /\ q \in Seq(Tasks)
      BY <1>1
    <3> HIDE DEF q
    <3>2. Range(ran \o q) = Range(ran) \cup Range(q)
      BY <3>1, RangeConcatenation, ZenonT(30)
    <3> QED
      BY <3>2 DEF q
  <2> QED
    BY <2>1, <2>2
<1>4. t \notin Range(tasks \o pending_tasks_) \cup Range(ran) /\ ran' = ran
  BY <1>3 DEF Push
<1> QED
  BY <1>2, <1>4 DEF Executor!Submit, Executor!Range, Range

\* EventLoop implements the FIFO executor of TaskQueue, with the queue mapped
\* to the rest of the batch followed by the shared vector: the swap, the
\* wakeups and the polling are invisible to the code that submits tasks.
THEOREM LoopImplementsTaskQueue == Spec => ImplementsTaskQueue
<1>1. Init => Executor!Init
  BY ConcatEmptySeq, EmptySeq DEF Init, Executor!Init
<1>2. LoopInv /\ [Next]_vars => [Executor!Next]_(Executor!vars)
  <2> SUFFICES ASSUME LoopInv, [Next]_vars
               PROVE  Executor!Next \/ UNCHANGED <<tasks \o pending_tasks_, ran>>
    BY DEF Executor!vars
  <2>1. CASE RunTask
    BY <2>1, RunTaskExecutes DEF Executor!Next
  <2>2. ASSUME NEW t \in Tasks, QueueFromLoop(t) PROVE Executor!Next
    BY <2>2, PushSubmits DEF QueueFromLoop, Executor!Next
  <2>3. ASSUME NEW p \in Threads, NEW t \in Tasks, QueueFromThread(p, t) PROVE Executor!Next
    BY <2>3, PushSubmits DEF QueueFromThread, Executor!Next
  <2>4. CASE BeginPending
    <3>1. tasks = <<>> /\ pending_tasks_ \in Seq(Tasks)
      BY <2>4 DEF BeginPending, LoopInv, PhaseInv, TypeOK
    <3>2. <<>> \o pending_tasks_ = pending_tasks_ /\ pending_tasks_ \o <<>> = pending_tasks_
      BY <3>1, ConcatEmptySeq
    <3> QED
      BY <2>4, <3>1, <3>2 DEF BeginPending
  <2>5. CASE \/ Enter \/ PollNothing \/ Continue \/ Leave \/ PollReady \/ HandleWakeup
             \/ EndTask \/ EndPending \/ QuitFromLoop \/ UNCHANGED vars
             \/ \E p \in Threads : QuitFromThread(p) \/ Wakeup(p)
    BY <2>5 DEF Enter, PollNothing, Continue, Leave, PollReady, HandleWakeup, EndTask,
       EndPending, QuitFromLoop, QuitFromThread, Wakeup, vars, taskVars
  <2> QED
    BY <2>1, <2>2, <2>3, <2>4, <2>5 DEF Next, LoopStep, UserCode, ThreadStep
<1> QED
  BY <1>1, <1>2, AlwaysLoopInv, PTL DEF Spec, ImplementsTaskQueue, Executor!Spec

-----------------------------------------------------------------------------
(* TimerWheel.                                                             *)

\* The identifiers in use are below the counter and tell timers apart.
IdInv ==
    /\ \A t \in wheel.timers : t.id < wheel.next_timer_id_
    /\ \A t, u \in wheel.timers : t.id = u.id => t = u
    /\ \A id \in cancelled : id < wheel.next_timer_id_

WheelInv ==
    WheelTypeOK /\ CountMatchesBuckets /\ NoEndlessSleep /\ IdInv /\ CancelIsFinal

-----------------------------------------------------------------------------
(* The methods.                                                            *)

\* tick() measures the time elapsed since the value it has just stored: it is
\* zero, and no slot is ever advanced.
LEMMA TickOnlyStores ==
    ASSUME NEW w, NEW time \in Nat, w.last_tick_ \in Nat, 
           [w EXCEPT !.last_tick_ = time].last_tick_ = time
    PROVE  Tick(w, time) = [w EXCEPT !.last_tick_ = time]
<1>1. DiffMs(time, time) = 0
  BY WheelAssumption DEF DiffMs
<1> QED
  BY <1>1 DEF Tick

\* A non-empty set of naturals has the minimum Min chooses.
LEMMA MinOfNats ==
    ASSUME NEW S, S \subseteq Nat, S # {}
    PROVE  Min(S) \in S
<1> DEFINE R == {ss \in Nat \X Nat : ss[1] < ss[2]}
<1>1. OpToRel(<, Nat) = R
  BY Zenon DEF OpToRel
<1>2. IsWellFoundedOn(R, Nat)
  BY <1>1, NatLessThanWellFounded
<1> HIDE DEF R
<1>3. PICK x \in S : \A y \in S : <<y, x>> \notin R
  BY <1>2, WFMin
<1>4. ASSUME NEW y \in S PROVE x <= y
  <2>1. <<y, x>> \in Nat \X Nat /\ <<y, x>>[1] = y /\ <<y, x>>[2] = x
    OBVIOUS
  <2>2. ~(y < x)
    BY <1>3, <2>1 DEF R
  <2> QED
    BY <2>2
<1> QED
  BY <1>4 DEF Min

-----------------------------------------------------------------------------
WheelType == [timers : SUBSET Timer, current_slot_ : 0..(slot_count_ - 1),
              last_tick_ : Nat, next_timer_id_ : Nat \ {0}, timer_count_ : Nat]

Wheel(timers, slot, tick, next, count) ==
    [timers |-> timers, current_slot_ |-> slot, last_tick_ |-> tick,
     next_timer_id_ |-> next, timer_count_ |-> count]

\* Adding a timer: one more timer, under the identifier the counter held.
LEMMA AddTimerAdds ==
    ASSUME NEW w \in WheelType, NEW when \in Nat, NEW interval \in Nat
    PROVE  \E t \in Timer :
              /\ t.id = w.next_timer_id_
              /\ AddTimer(w, when, interval) =
                    Wheel(w.timers \cup {t}, w.current_slot_, w.last_tick_,
                          w.next_timer_id_ + 1, w.timer_count_ + 1)
<1> DEFINE delta == IF when < w.last_tick_ THEN 0 ELSE DiffMs(when, w.last_tick_)
           t == [id |-> w.next_timer_id_, expiration |-> when, interval |-> interval,
                 rounds |-> delta \div (tick_ms_ * slot_count_),
                 slot |-> (w.current_slot_ + delta \div tick_ms_) % slot_count_]
<1>1. delta \in Nat
  BY WheelAssumption DEF DiffMs, WheelType
<1>2. tick_ms_ * slot_count_ \in Nat \ {0}
  BY WheelAssumption
<1>3. /\ delta \div (tick_ms_ * slot_count_) \in Nat
      /\ (w.current_slot_ + delta \div tick_ms_) % slot_count_ \in 0..(slot_count_ - 1)
  <2> HIDE DEF delta
  <2>1. delta \div (tick_ms_ * slot_count_) \in Nat
    BY <1>1, <1>2
  <2>2. delta \div tick_ms_ \in Nat /\ w.current_slot_ \in Nat
    BY <1>1, WheelAssumption DEF WheelType
  <2> QED
    BY <2>1, <2>2, WheelAssumption
<1>4. t \in Timer /\ t.id = w.next_timer_id_
  BY <1>3 DEF Timer, WheelType
<1>5. AddTimer(w, when, interval) =
        Wheel(w.timers \cup {t}, w.current_slot_, w.last_tick_,
              w.next_timer_id_ + 1, w.timer_count_ + 1)
  <2> DEFINE u == [w EXCEPT !.next_timer_id_ = @ + 1]
  <2>1. /\ u = Wheel(w.timers, w.current_slot_, w.last_tick_, w.next_timer_id_ + 1,
                    w.timer_count_)
        /\ u.last_tick_ = w.last_tick_ /\ u.current_slot_ = w.current_slot_
    BY DEF WheelType, Wheel
  <2>2. AddTimer(w, when, interval) =
          [u EXCEPT !.timers = @ \cup {t}, !.timer_count_ = @ + 1]
    BY <2>1 DEF AddTimer, InsertTimer
  <2> HIDE DEF u, t
  <2> QED
    BY <2>1, <2>2 DEF Wheel
<1> HIDE DEF t
<1> QED
  BY <1>4, <1>5

\* Every call that schedules a timer keeps the invariant.
LEMMA AddPreserves ==
    ASSUME WheelInv, NEW when \in Nat, NEW interval \in Nat,
           wheel' = AddTimer(wheel, when, interval),
           TimersMayChange,
           UNCHANGED <<now, stage, poll_time, timeout, cancelled>>
    PROVE  WheelInv'
<1> USE DEF WheelInv
<1>1. wheel \in WheelType
  BY DEF WheelTypeOK, WheelType
<1>2. PICK t \in Timer :
        /\ t.id = wheel.next_timer_id_
        /\ wheel' = Wheel(wheel.timers \cup {t}, wheel.current_slot_, wheel.last_tick_,
                          wheel.next_timer_id_ + 1, wheel.timer_count_ + 1)
  BY <1>1, AddTimerAdds
<1>3. /\ wheel'.timers = wheel.timers \cup {t}
      /\ wheel'.timer_count_ = wheel.timer_count_ + 1
      /\ wheel'.next_timer_id_ = wheel.next_timer_id_ + 1
      /\ wheel' \in WheelType
  BY <1>1, <1>2 DEF WheelType, Wheel
<1>4. wheel.timers \subseteq Timer /\ wheel.next_timer_id_ \in Nat /\ cancelled \subseteq Nat
  BY <1>1 DEF WheelType, WheelTypeOK
<1>5. t \notin wheel.timers
  BY <1>2, <1>4 DEF IdInv, Timer
<1>6. WheelTypeOK'
  BY <1>3 DEF WheelTypeOK, WheelType
<1>7. CountMatchesBuckets'
  BY <1>3, <1>5, FS_AddElement DEF CountMatchesBuckets
<1>8. IdInv' /\ CancelIsFinal'
  <2>1. \A u \in wheel.timers : u.id \in Nat /\ u.id < wheel.next_timer_id_
    BY <1>4 DEF IdInv, Timer
  <2>2. \A id \in cancelled : id \in Nat /\ id < wheel.next_timer_id_
    BY <1>4 DEF IdInv
  <2>3. IdInv'
    <3>0. /\ \A u \in wheel'.timers : u \in wheel.timers \/ u = t
          /\ t.id = wheel.next_timer_id_
      BY <1>2, <1>3
    <3>1. ASSUME NEW u \in wheel'.timers, NEW v \in wheel'.timers, u.id = v.id
          PROVE  u = v
      <4>1. CASE u \in wheel.timers /\ v \in wheel.timers
        BY <3>1, <4>1 DEF IdInv
      <4>2. ASSUME NEW a \in wheel.timers PROVE a.id # t.id
        BY <3>0, <2>1, <1>4
      <4> QED
        BY <3>0, <3>1, <4>1, <4>2
    <3>2. ASSUME NEW u \in wheel'.timers PROVE u.id < wheel'.next_timer_id_
      <4>1. CASE u \in wheel.timers
        BY <4>1, <1>3, <1>4, <2>1
      <4>2. CASE u = t
        BY <4>2, <3>0, <1>3, <1>4
      <4> QED
        BY <3>0, <4>1, <4>2
    <3>3. \A id \in cancelled' : id < wheel'.next_timer_id_
      BY <1>3, <1>4, <2>2
    <3> QED
      BY <3>1, <3>2, <3>3 DEF IdInv
  <2>4. CancelIsFinal'
    <3> SUFFICES ASSUME NEW u \in wheel'.timers PROVE u.id \notin cancelled
      BY DEF CancelIsFinal
    <3>1. CASE u \in wheel.timers
      BY <3>1 DEF CancelIsFinal
    <3>2. CASE u = t
      BY <3>2, <1>2, <1>4, <2>2
    <3> QED
      BY <1>3, <3>1, <3>2
  <2> QED
    BY <2>3, <2>4
<1>9. NoEndlessSleep'
  BY DEF NoEndlessSleep, TimersMayChange
<1> QED
  BY <1>6, <1>7, <1>8, <1>9

\* The initial state satisfies the invariant.
LEMMA WheelInitHolds == WheelInit => WheelInv
<1> SUFFICES ASSUME WheelInit PROVE WheelInv
  OBVIOUS
<1>1. WheelTypeOK
  BY WheelAssumption DEF WheelInit, WheelTypeOK
<1>2. CountMatchesBuckets
  BY FS_EmptySet DEF WheelInit, CountMatchesBuckets
<1> QED
  BY <1>1, <1>2 DEF WheelInit, WheelInv, NoEndlessSleep, IdInv, CancelIsFinal

\* The invariant is inductive: one step for each action.
LEMMA WheelNextKeeps == WheelInv /\ [WheelNext]_wheelVars => WheelInv'
<1> SUFFICES ASSUME WheelInv, [WheelNext]_wheelVars PROVE WheelInv'
  OBVIOUS
<1> USE DEF WheelInv
<1>0. wheel \in WheelType /\ now \in Nat /\ poll_time \in Nat
  BY DEF WheelTypeOK, WheelType
<1>1. ASSUME NEW delay \in Delays, RunAfter(delay) PROVE WheelInv'
  BY <1>0, <1>1, AddPreserves, InputAssumption DEF RunAfter
<1>2. ASSUME NEW time \in 0..MaxClock, RunAt(time) PROVE WheelInv'
  BY <1>2, AddPreserves, InputAssumption DEF RunAt
<1>3. ASSUME NEW interval \in Delays \ {0}, RunEvery(interval) PROVE WheelInv'
  BY <1>0, <1>3, AddPreserves, InputAssumption DEF RunEvery
<1>4. ASSUME NEW id \in 1..MaxTimers, Cancel(id) PROVE WheelInv'
  <2>1. CASE \E t \in wheel.timers : t.id = id
    <3> DEFINE t == CHOOSE t \in wheel.timers : t.id = id
    <3>1. t \in wheel.timers /\ t.id = id
      BY <2>1
    <3> HIDE DEF t
    <3>2. wheel' = Wheel(wheel.timers \ {t}, wheel.current_slot_, wheel.last_tick_,
                         wheel.next_timer_id_, wheel.timer_count_ - 1)
      BY <1>0, <1>4, <2>1 DEF Cancel, CancelTimer, Wheel, WheelType, t
    <3>3. /\ wheel'.timers = wheel.timers \ {t}
          /\ wheel'.timer_count_ = wheel.timer_count_ - 1
          /\ wheel'.next_timer_id_ = wheel.next_timer_id_
          /\ wheel'.current_slot_ = wheel.current_slot_
          /\ wheel'.last_tick_ = wheel.last_tick_
      BY <1>0, <3>2 DEF WheelType, Wheel
    <3>4. CountMatchesBuckets'
      BY <3>1, <3>3, FS_RemoveElement DEF CountMatchesBuckets
    <3>5. wheel'.timer_count_ \in Nat
      BY <3>4, FS_CardinalityType DEF CountMatchesBuckets
    <3>6. WheelTypeOK'
      <4>1. wheel' \in WheelType
        BY <1>0, <3>2, <3>3, <3>5 DEF WheelType, Wheel
      <4> QED
        BY <1>4, <4>1, InputAssumption DEF WheelTypeOK, WheelType, Cancel
    <3>7. IdInv' /\ CancelIsFinal'
      BY <1>4, <3>1, <3>3 DEF IdInv, CancelIsFinal, Cancel
    <3>8. NoEndlessSleep'
      BY <1>4 DEF Cancel, NoEndlessSleep, TimersMayChange
    <3> QED
      BY <3>4, <3>6, <3>7, <3>8
  <2>2. CASE ~ \E t \in wheel.timers : t.id = id
    <3>1. wheel' = wheel
      BY <1>4, <2>2 DEF Cancel, CancelTimer
    <3> QED
      BY <1>4, <2>2, <3>1, InputAssumption DEF Cancel, WheelTypeOK, CountMatchesBuckets,
         NoEndlessSleep, TimersMayChange, IdInv, CancelIsFinal
  <2> QED
    BY <2>1, <2>2
<1>5. CASE BeginPoll
  <2> DEFINE occupied == {offset \in 0..(slot_count_ - 1) :
                \E t \in wheel.timers : t.slot = (wheel.current_slot_ + offset) % slot_count_}
  <2>1. timeout' = IF wheel.timer_count_ = 0 THEN -1
                   ELSE IF occupied # {} THEN Min(occupied) * tick_ms_
                   ELSE slot_count_ * tick_ms_
    BY <1>5 DEF BeginPoll, NextTimeoutMs
  <2>2. wheel.timer_count_ = 0 <=> wheel.timers = {}
    BY FS_EmptySet DEF CountMatchesBuckets
  <2>3. occupied \subseteq Nat /\ occupied \subseteq 0..(slot_count_ - 1)
    BY WheelAssumption
  <2>4. occupied # {} => Min(occupied) \in 0..(slot_count_ - 1)
    BY <2>3, MinOfNats
  <2> HIDE DEF occupied
  <2>5. ASSUME NEW n \in 0..slot_count_ PROVE n * tick_ms_ \in 0..(slot_count_ * tick_ms_)
    BY WheelAssumption
  <2>6. wheel.timers # {} => timeout' \in 0..(slot_count_ * tick_ms_)
    BY <2>1, <2>2, <2>4, <2>5, WheelAssumption
  <2>7. wheel.timers = {} => timeout' = -1
    BY <2>1, <2>2
  <2>8. timeout' \in Int
    BY <2>6, <2>7
  <2>9. NoEndlessSleep'
    BY <1>5, <2>6, <2>7 DEF BeginPoll, NoEndlessSleep
  <2> QED
    BY <1>5, <2>8, <2>9 DEF BeginPoll, WheelTypeOK, CountMatchesBuckets, IdInv, CancelIsFinal
<1>6. CASE EndPoll
  BY <1>6 DEF EndPoll, WheelTypeOK, CountMatchesBuckets, NoEndlessSleep, IdInv, CancelIsFinal
<1>7. CASE TickLoop
  <2>1. wheel' = [wheel EXCEPT !.last_tick_ = poll_time]
    BY <1>0, <1>7, TickOnlyStores DEF TickLoop, WheelType
  <2>2. /\ wheel' \in WheelType /\ wheel'.timers = wheel.timers
        /\ wheel'.timer_count_ = wheel.timer_count_
        /\ wheel'.next_timer_id_ = wheel.next_timer_id_
    BY <1>0, <2>1 DEF WheelType
  <2>3. WheelTypeOK'
    BY <1>7, <2>2 DEF TickLoop, WheelTypeOK, WheelType
  <2> QED
    BY <1>7, <2>2, <2>3 DEF TickLoop, CountMatchesBuckets, NoEndlessSleep, IdInv, CancelIsFinal
<1>8. CASE AdvanceClock
  BY <1>8 DEF AdvanceClock, WheelTypeOK, CountMatchesBuckets, NoEndlessSleep, IdInv, CancelIsFinal
<1>9. CASE UNCHANGED wheelVars
  BY <1>9 DEF wheelVars, WheelTypeOK, CountMatchesBuckets, NoEndlessSleep, IdInv, CancelIsFinal
<1> QED
  BY <1>1, <1>2, <1>3, <1>4, <1>5, <1>6, <1>7, <1>8, <1>9 DEF WheelNext

\* WheelInv holds of every reachable state.
LEMMA AlwaysWheelInv == WheelSpec => []WheelInv
  BY WheelInitHolds, WheelNextKeeps, PTL DEF WheelSpec

-----------------------------------------------------------------------------
(* The theorems about the wheel.                                           *)

\* Type correctness: slots stay inside the wheel and timer_count_, a size_t,
\* does not wrap.
THEOREM WheelTypeCorrect == WheelSpec => []WheelTypeOK
<1>1. WheelInv => WheelTypeOK
  BY DEF WheelInv
<1> QED
  BY <1>1, AlwaysWheelInv, PTL

\* timer_count_ agrees with the buckets.
THEOREM CountIsRight == WheelSpec => []CountMatchesBuckets
<1>1. WheelInv => CountMatchesBuckets
  BY DEF WheelInv
<1> QED
  BY <1>1, AlwaysWheelInv, PTL

\* The timeout given to poll() is negative exactly when no timer is scheduled,
\* and never more than a turn of the wheel.
THEOREM PollIsBounded == WheelSpec => []NoEndlessSleep
<1>1. WheelInv => NoEndlessSleep
  BY DEF WheelInv
<1> QED
  BY <1>1, AlwaysWheelInv, PTL

\* cancel() is final.
THEOREM CancelledTimersStayOut == WheelSpec => []CancelIsFinal
<1>1. WheelInv => CancelIsFinal
  BY DEF WheelInv
<1> QED
  BY <1>1, AlwaysWheelInv, PTL

\* No step of the program moves the wheel's hand, and tick() removes no timer:
\* the consequence of the order of tick()'s first two statements.
THEOREM HandNeverMoves ==
    WheelSpec => [][/\ wheel'.current_slot_ = wheel.current_slot_
               /\ TickLoop => wheel'.timers = wheel.timers]_wheelVars
<1>1. WheelInv /\ [WheelNext]_wheelVars =>
        [/\ wheel'.current_slot_ = wheel.current_slot_
         /\ TickLoop => wheel'.timers = wheel.timers]_wheelVars
  <2> SUFFICES ASSUME WheelInv, WheelNext
               PROVE  /\ wheel'.current_slot_ = wheel.current_slot_
                      /\ TickLoop => wheel'.timers = wheel.timers
    BY DEF wheelVars
  <2>0. wheel \in WheelType /\ now \in Nat /\ poll_time \in Nat
    BY DEF WheelInv, WheelTypeOK, WheelType
  <2>1. TickLoop => wheel' = [wheel EXCEPT !.last_tick_ = poll_time]
    BY <2>0, TickOnlyStores DEF TickLoop, WheelType
  <2>2. ASSUME NEW when \in Nat, NEW interval \in Nat,
               wheel' = AddTimer(wheel, when, interval)
        PROVE  wheel'.current_slot_ = wheel.current_slot_
    BY <2>0, <2>2 DEF AddTimer, InsertTimer, WheelType
  <2>3. ASSUME NEW id, Cancel(id) PROVE wheel'.current_slot_ = wheel.current_slot_
    BY <2>0, <2>3 DEF Cancel, CancelTimer, WheelType
  <2>4. wheel'.current_slot_ = wheel.current_slot_
    <3>1. CASE TickLoop
      BY <3>1, <2>0, <2>1 DEF WheelType
    <3>2. CASE BeginPoll \/ EndPoll \/ AdvanceClock
      BY <3>2 DEF BeginPoll, EndPoll, AdvanceClock
    <3>3. ASSUME NEW delay \in Delays, RunAfter(delay)
          PROVE  wheel'.current_slot_ = wheel.current_slot_
      BY <2>0, <2>2, <3>3, InputAssumption DEF RunAfter
    <3>4. ASSUME NEW time \in 0..MaxClock, RunAt(time)
          PROVE  wheel'.current_slot_ = wheel.current_slot_
      BY <2>2, <3>4, InputAssumption DEF RunAt
    <3>5. ASSUME NEW interval \in Delays \ {0}, RunEvery(interval)
          PROVE  wheel'.current_slot_ = wheel.current_slot_
      BY <2>0, <2>2, <3>5, InputAssumption DEF RunEvery
    <3> QED
      BY <2>3, <3>1, <3>2, <3>3, <3>4, <3>5 DEF WheelNext
  <2> QED
    BY <2>0, <2>1, <2>4 DEF WheelType
<1> QED
  BY <1>1, AlwaysWheelInv, PTL DEF WheelSpec

=============================================================================
