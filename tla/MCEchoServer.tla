---------------------------- MODULE MCEchoServer ---------------------------
(***************************************************************************)
(* Two connections at a time and a third on a descriptor used before.      *)
(* The first client sends enough for an echo to follow a short write.      *)
(***************************************************************************)
EXTENDS EchoServer

MCMaxBytes == <<3, 2, 1>>

=============================================================================
