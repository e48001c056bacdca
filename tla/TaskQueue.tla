----------------------------- MODULE TaskQueue -----------------------------
(***************************************************************************)
(* What EventLoop promises the code that hands it work: a FIFO of tasks    *)
(* that any thread may extend and only the loop thread shortens, every     *)
(* task executed exactly once, in the order of submission.  Nothing is     *)
(* said of mutexes, wakeups, polling or batches; module EventLoop is shown *)
(* to implement this specification.                                        *)
(***************************************************************************)
EXTENDS Sequences, Functions

CONSTANT Task           \* the tasks (std::function objects) of the program

VARIABLES
    queue,              \* tasks handed over and not yet started
    done                \* tasks started, in the order they were started

vars == <<queue, done>>

Init ==
    /\ queue = <<>>
    /\ done = <<>>

Submit ==
    \E t \in Task :
        /\ t \notin Range(queue) \cup Range(done)
        /\ queue' = Append(queue, t)
        /\ UNCHANGED done

Execute ==
    /\ queue # <<>>
    /\ queue' = Tail(queue)
    /\ done' = Append(done, Head(queue))

Next == Submit \/ Execute

Spec == Init /\ [][Next]_vars

=============================================================================
