------------------------------- MODULE Router -------------------------------
(***************************************************************************)
(* The URL router of http/router.cpp: a trie of pattern segments, built by *)
(* add() and walked by route(), and handle_request() of the server, which  *)
(* answers with what route() finds or with a file.                         *)
(*                                                                         *)
(* A node of the trie is named by the segments that lead to it, and the    *)
(* root is the empty sequence.  A segment is its text, whether it comes    *)
(* from a pattern or from the path of a request (a path may well hold a    *)
(* text that begins with ':' or '*'); the splitting at '/' is left out.    *)
(* Each call of add() brings a handler of its own, the number of the call. *)
(* The parameters route() captures are left out: it drops them.            *)
(***************************************************************************)
EXTENDS Integers, Sequences, FiniteSets

CONSTANTS
    Methods,        \* what method_str() returns
    Texts,          \* texts of segments
    Params,         \* those that begin with ':'
    Wildcards,      \* those that begin with '*'
    Patterns,       \* the patterns programs register, as segments
    Paths,          \* the paths clients ask for, as segments
    StaticFiles,    \* those that name a file in static_dir_ (none if it is empty)
    MaxRoutes       \* bound on the calls of add()

ASSUME TextAssumption == Params \cup Wildcards \subseteq Texts /\ Params \cap Wildcards = {}
ASSUME PatternAssumption == Patterns \subseteq Seq(Texts) /\ Paths \subseteq Seq(Texts)
ASSUME FileAssumption == StaticFiles \subseteq Paths
ASSUME BoundAssumption == MaxRoutes \in Nat
\* A node that no pattern makes stands for the null Node*.
ASSUME NullAssumption == "no node" \notin Texts

VARIABLES
    trie,       \* the place of each node in its parent's children
    handlers,   \* Node::handlers: <<method, node>> -> handler
    added       \* calls of add() so far

vars == <<trie, handlers, added>>

\* The null Node* and the empty std::function.
NoNode == <<"no node">>
NoHandler == 0

Root == <<>>
Prefixes(pattern) == {SubSeq(pattern, 1, n) : n \in 0..Len(pattern)}
Nodes == DOMAIN trie
Parent(node) == SubSeq(node, 1, Len(node) - 1)
Segment(node) == node[Len(node)]

\* Node::children.
Children(node) == {n \in Nodes : n # Root /\ Parent(n) = node}

\* Node::handlers of one node.
HandlerOf(method, node) ==
    IF <<method, node>> \in DOMAIN handlers THEN handlers[<<method, node>>] ELSE NoHandler

-----------------------------------------------------------------------------
(* add().                                                                  *)

\* root_ is null until the first add().
Init ==
    /\ trie = [n \in {} |-> 0]
    /\ handlers = [k \in {} |-> NoHandler]
    /\ added = 0

\* push_back(): the new child comes after its siblings.
Place(node) == IF node = Root THEN 0 ELSE Cardinality(Children(Parent(node))) + 1

\* Wrong on purpose: no node is made between the root and the leaf.
AddLeafOnly(method, pattern) ==
    /\ added < MaxRoutes
    /\ added' = added + 1
    /\ trie' = [n \in Nodes \cup {Root, pattern} |-> IF n \in Nodes THEN trie[n] ELSE Place(n)]
    /\ handlers' = [k \in DOMAIN handlers \cup {<<method, pattern>>} |->
                       IF k = <<method, pattern>> THEN added' ELSE handlers[k]]

\* Wrong on purpose: the nodes of the pattern go behind their siblings again.
AddMovesNodes(method, pattern) ==
    /\ added < MaxRoutes
    /\ added' = added + 1
    /\ trie' = [n \in Nodes \cup Prefixes(pattern) |->
                   IF n \in Nodes \ Prefixes(pattern) THEN trie[n] ELSE Place(n)]
    /\ handlers' = [k \in DOMAIN handlers \cup {<<method, pattern>>} |->
                       IF k = <<method, pattern>> THEN added' ELSE handlers[k]]

\* add(): the nodes of the pattern that are missing are made, and the handler
\* is put at the last one, in the place of any other for that method.
Add(method, pattern) ==
    /\ added < MaxRoutes
    /\ added' = added + 1
    /\ trie' = [n \in Nodes \cup Prefixes(pattern) |-> IF n \in Nodes THEN trie[n] ELSE Place(n)]
    /\ handlers' = [k \in DOMAIN handlers \cup {<<method, pattern>>} |->
                       IF k = <<method, pattern>> THEN added' ELSE handlers[k]]

Next == \E method \in Methods, pattern \in Patterns : Add(method, pattern)

Spec == Init /\ [][Next]_vars

-----------------------------------------------------------------------------
(* route().                                                                *)

\* The first of a set of siblings.
First(S) == CHOOSE n \in S : \A m \in S : trie[n] <= trie[m]

\* Wrong on purpose: parameters are preferred.
StepParamFirst(node, seg) ==
    LET params == {n \in Children(node) : Segment(n) \in Params}
        exact == Append(node, seg)
    IN  IF params # {} THEN [node |-> First(params), stop |-> FALSE]
        ELSE IF exact \in Children(node) THEN [node |-> exact, stop |-> FALSE]
        ELSE [node |-> NoNode, stop |-> TRUE]

\* Wrong on purpose: a wildcard takes one segment.
StepNoStop(node, seg) ==
    LET params == {n \in Children(node) : Segment(n) \in Params}
        wildcards == {n \in Children(node) : Segment(n) \in Wildcards}
        exact == Append(node, seg)
    IN  IF exact \in Children(node) THEN [node |-> exact, stop |-> FALSE]
        ELSE IF params # {} THEN [node |-> First(params), stop |-> FALSE]
        ELSE IF wildcards # {} THEN [node |-> First(wildcards), stop |-> FALSE]
        ELSE [node |-> NoNode, stop |-> TRUE]

\* Wrong on purpose: where no child fits, the walk ends where it is.
StepStays(node, seg) ==
    LET params == {n \in Children(node) : Segment(n) \in Params}
        wildcards == {n \in Children(node) : Segment(n) \in Wildcards}
        exact == Append(node, seg)
    IN  IF exact \in Children(node) THEN [node |-> exact, stop |-> FALSE]
        ELSE IF params # {} THEN [node |-> First(params), stop |-> FALSE]
        ELSE IF wildcards # {} THEN [node |-> First(wildcards), stop |-> TRUE]
        ELSE [node |-> node, stop |-> TRUE]

\* A turn of the walk: the child with the same text, or the first parameter,
\* or the first wildcard, which takes all that is left of the path.
Step(node, seg) ==
    LET params == {n \in Children(node) : Segment(n) \in Params}
        wildcards == {n \in Children(node) : Segment(n) \in Wildcards}
        exact == Append(node, seg)
    IN  IF exact \in Children(node) THEN [node |-> exact, stop |-> FALSE]
        ELSE IF params # {} THEN [node |-> First(params), stop |-> FALSE]
        ELSE IF wildcards # {} THEN [node |-> First(wildcards), stop |-> TRUE]
        ELSE [node |-> NoNode, stop |-> TRUE]

\* The walk over the segments of a path.
Walk(path) ==
    LET w[i \in 0..Len(path)] ==
            IF i = 0 THEN [node |-> Root, stop |-> FALSE]
            ELSE IF w[i - 1].stop THEN w[i - 1]
            ELSE Step(w[i - 1].node, path[i])
    IN  w[Len(path)].node

\* route(): the handler, or what becomes of the response; without a route at
\* all the response is left as it was.
Route(method, path) ==
    LET node == Walk(path)
    IN  IF Nodes = {} THEN [handler |-> NoHandler, resp |-> "default"]
        ELSE IF node = NoNode THEN [handler |-> NoHandler, resp |-> "404"]
        ELSE IF HandlerOf(method, node) # NoHandler
             THEN [handler |-> HandlerOf(method, node), resp |-> "default"]
        ELSE IF \E m \in Methods : HandlerOf(m, node) # NoHandler
             THEN [handler |-> NoHandler, resp |-> "405"]
        ELSE [handler |-> NoHandler, resp |-> "404"]

\* What handle_request() answers with: a handler, a file, or a response.
Answer(kind, handler) == [kind |-> kind, handler |-> handler]

\* handle_request(): the handler, or a file for a GET that has none.
HandleRequest(method, path) ==
    LET r == Route(method, path)
    IN  IF r.handler # NoHandler THEN Answer("handler", r.handler)
        ELSE IF method = "GET" /\ path \in StaticFiles THEN Answer("file", NoHandler)
        ELSE Answer(r.resp, NoHandler)

-----------------------------------------------------------------------------
(* Properties.                                                             *)

\* The types.
TypeOK ==
    /\ added \in 0..MaxRoutes
    /\ Nodes \subseteq Seq(Texts)
    /\ trie \in [Nodes -> Nat]
    /\ DOMAIN handlers \subseteq Methods \X Patterns
    /\ handlers \in [DOMAIN handlers -> 1..added]

\* Every node that has a handler hangs on the root, and the children of a node
\* are in an order: no two have the same place, so that "the first parameter" of
\* route() is one node whatever was added in between.
TrieIsInOrder ==
    /\ \A k \in DOMAIN handlers : k[2] \in Nodes
    /\ \A n \in Nodes \ {Root} : Parent(n) \in Nodes
    /\ \A m, n \in Nodes \ {Root} :
          Parent(m) = Parent(n) /\ trie[m] = trie[n] => m = n

\* The reference: does the pattern segment fit the segment of a path?
FitsSegment(seg, text) == seg = text \/ seg \in Params

\* The pattern fits the path, segment by segment, or up to a wildcard that
\* takes the rest, at least one segment.
Matches(pattern, path) ==
    \E n \in 0..Len(path) :
        /\ \A i \in 1..n : i <= Len(pattern) /\ FitsSegment(pattern[i], path[i])
        /\ \/ n = Len(path) /\ Len(pattern) = n
           \/ n < Len(path) /\ Len(pattern) = n + 1 /\ pattern[n + 1] \in Wildcards

\* The pattern's nodes are on the way of a walk along path.
OnTheWay(node, path) ==
    /\ Len(node) <= Len(path)
    /\ \A i \in 1..Len(node) :
          FitsSegment(node[i], path[i]) \/ (i = Len(node) /\ node[i] \in Wildcards)

\* A request is only given to a handler whose pattern fits its path and whose
\* method is its own: route() never takes a wrong turn that ends at a handler.
RouteMatches ==
    \A method \in Methods, path \in Paths :
        LET h == HandleRequest(method, path).handler
        IN  h # NoHandler =>
                \E pattern \in Patterns :
                    Matches(pattern, path) /\ HandlerOf(method, pattern) = h

\* "Exact match" (router.h): a path that was registered as it is gets its own
\* handler, whatever parameters and wildcards were registered around it, and
\* whatever files there are.
LiteralRouteWins ==
    \A method \in Methods, path \in Paths :
        HandlerOf(method, path) # NoHandler =>
            HandleRequest(method, path) = Answer("handler", HandlerOf(method, path))

\* No other child of a node of the pattern could take the path away from it,
\* and the path has no segment with the text of a wildcard (which the walk would
\* take for that one segment only).
Unrivalled(pattern, path) ==
    /\ \A n \in Nodes \ Prefixes(pattern) :
          Parent(n) \in Prefixes(pattern) => ~OnTheWay(n, path)
    /\ \A i \in DOMAIN path : path[i] \notin Wildcards

\* A pattern that fits is found, unless the walk may leave its nodes for others
\* (it does not come back from them when the rest of the path does not fit).
UnrivalledRouteIsFound ==
    \A method \in Methods, path \in Paths, pattern \in Patterns :
        /\ HandlerOf(method, pattern) # NoHandler
        /\ Matches(pattern, path)
        /\ Unrivalled(pattern, path)
        => HandleRequest(method, path) = Answer("handler", HandlerOf(method, pattern))

\* A registration changes the answer to a request that had a handler only by
\* giving it the new one, or by a new node on the request's way: routes that
\* have nothing to do with the new pattern are not disturbed.
AddOnlyShadows ==
    [][\A method \in Methods, path \in Paths :
          LET before == Route(method, path).handler
          IN  before # NoHandler /\ Route(method, path).handler' # before =>
                  \/ HandlerOf(method, Walk(path))' = added'
                  \/ \E n \in Nodes' \ Nodes : OnTheWay(n, path)]_vars

=============================================================================
