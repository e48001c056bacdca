------------------------------ MODULE MCRouter ------------------------------
(***************************************************************************)
(* Routes for TLC: two literals, two parameters and a wildcard, with the   *)
(* patterns that compete for a path at the first and at a later segment.   *)
(***************************************************************************)
EXTENDS Router

SomeTexts == {"a", "b", ":p", ":q", "*w"}
SomePatterns ==
    {<<>>, <<"a">>, <<":p">>, <<"*w">>, <<"a", "b">>, <<"a", ":p">>, <<"a", ":q">>,
     <<":p", "b">>, <<":q", "a">>, <<"a", "*w">>, <<":p", "a", "b">>}
SomePaths ==
    {<<>>, <<":p">>, <<"*w", "b">>, <<"a", "*w">>}
        \cup UNION {[1..n -> {"a", "b"}] : n \in 1..3}
SomeFiles == {<<"a">>, <<"b", "b">>}

=============================================================================
