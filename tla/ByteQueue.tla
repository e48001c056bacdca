----------------------------- MODULE ByteQueue -----------------------------
(***************************************************************************)
(* What Buffer promises its callers: a queue of bytes.  Blocks, indices    *)
(* and compaction are invisible.  op is the last call and its argument, so *)
(* that an implementation must show the right effect for each call, not    *)
(* just some legal change of the content.                                  *)
(***************************************************************************)
EXTENDS Integers, Sequences, SequencesExt

CONSTANTS Byte, MaxChunk    \* the bytes, and how many one call may add

VARIABLES content, op

vars == <<content, op>>

Chunks == BoundedSeq(Byte, MaxChunk)

Init == content = <<>> /\ op = <<"new">>

Write(s) ==
    /\ content' = content \o s
    /\ op' = <<"write", s>>

\* Asking for more than there is takes all there is.
Retrieve(n) ==
    /\ content' = SubSeq(content, n + 1, Len(content))
    /\ op' = <<"retrieve", n>>

RetrieveAll ==
    /\ content' = <<>>
    /\ op' = <<"retrieve_all">>

Next ==
    \/ \E s \in Chunks : Write(s)
    \/ \E n \in 0..(Len(content) + 1) : Retrieve(n)
    \/ RetrieveAll

Spec == Init /\ [][Next]_vars

=============================================================================
