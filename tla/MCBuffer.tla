------------------------------ MODULE MCBuffer -----------------------------
(***************************************************************************)
(* Blocks of two bytes of two kinds, three blocks, up to three bytes a     *)
(* call: calls that fill a block exactly, cross one boundary and cross two.*)
(***************************************************************************)
EXTENDS BufferSearch

=============================================================================
