---------------------------- MODULE MCEventLoop ----------------------------
(***************************************************************************)
(* A small instance of EventLoop for TLC; the constants are in the .cfg    *)
(* file.  No symmetry is used, because liveness is checked.                *)
(***************************************************************************)
EXTENDS EventLoop

=============================================================================
