---------------------------- MODULE MCScheduler ----------------------------
(***************************************************************************)
(* Instances of Scheduler for TLC: two coroutines that read one descriptor *)
(* while one of them has another for itself; a reader and a writer of one  *)
(* descriptor.                                                             *)
(***************************************************************************)
EXTENDS Scheduler, TLC

CONSTANTS c1, c2, f1, f2

OneShared == {<<c1, "read", f1>>, <<c2, "read", f1>>, <<c1, "connect", f2>>}
BothWays == {<<c1, "read", f1>>, <<c2, "write", f1>>}

=============================================================================
