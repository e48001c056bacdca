---------------------------- MODULE MCThreadPool ---------------------------
(***************************************************************************)
(* Two workers; the constants are in the .cfg file.                        *)
(***************************************************************************)
EXTENDS ThreadPool

=============================================================================
