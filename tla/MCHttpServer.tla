---------------------------- MODULE MCHttpServer ---------------------------
(***************************************************************************)
(* A listening socket and up to two connections at a time on three         *)
(* descriptors, enough objects for each descriptor to be reused, and       *)
(* start()/stop() calls queued by the program.                             *)
(***************************************************************************)
EXTENDS HttpServer, TLC

Symmetric == Permutations(Fds)

=============================================================================
