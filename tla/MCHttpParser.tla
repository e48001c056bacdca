---------------------------- MODULE MCHttpParser ---------------------------
(***************************************************************************)
(* Clients for TLC: one to three requests of every framing, as each        *)
(* question needs them.                                                    *)
(***************************************************************************)
EXTENDS HttpParser

Body(n) == [i \in 1..n |-> Char("body", i)]

Plain == [ok |-> TRUE, close |-> FALSE, framing |-> "none", body |-> <<>>, chunks |-> <<>>]
Closing == [Plain EXCEPT !.close = TRUE]
Junk == [Plain EXCEPT !.ok = FALSE]
Sized(n) == [Plain EXCEPT !.framing = "length", !.body = Body(n)]
Chunked(parts) == [Plain EXCEPT !.framing = "chunked", !.body = FlattenSeq(parts), !.chunks = parts]

Kinds == {Plain, Closing, Junk, Sized(0), Sized(3), Chunked(<<>>), Chunked(<<Body(3), Rest(Body(4), 3)>>)}

\* Up to three requests of any kind, in any order.
AllStreams == UNION {[1..n -> Kinds] : n \in 1..3}

StraddlingStreams == {<<Plain, Plain>>}

=============================================================================
