--------------------------- MODULE MCRouteRegistry ---------------------------
(***************************************************************************)
(* RouteRegistry with a tree of three routes and endpoints that differ in   *)
(* everything a pool looks at; and the look-ups in the registry, the names  *)
(* and the policy that are made from its routes, for all small sets of      *)
(* routes.                                                                  *)
(***************************************************************************)
EXTENDS RouteRegistry, RouteLookup, RoutePolicy

NoTag == [guid |-> "", index |-> 0]

Tag(i) == [guid |-> "g", index |-> i]

MCEndpoint(addr, id, tag, threshold) ==
    [addr |-> addr, id |-> id, tag |-> tag, staleThreshold |-> threshold]

\* a1 comes from the routing API in two versions with different ids; a2 shares
\* the id of the first of them, a3 that of the second, and both have a threshold
\* of their own.
PoolEndpoints ==
    {MCEndpoint("a1", "i1", Tag(1), 0), MCEndpoint("a1", "i2", Tag(2), 0),
     MCEndpoint("a2", "i1", NoTag, 1), MCEndpoint("a3", "i2", NoTag, 1)}

\* All of them serve the root of h; a3 also serves two routes below it that
\* branch off at different depths, one under a node without a pool.
Registrations ==
    {<<path, e>> \in {<<"h">>, <<"h", "x", "y">>, <<"h", "z">>} \X PoolEndpoints :
        path = <<"h">> \/ e.addr = "a3"}
-----------------------------------------------------------------------------
Labels == <<"A", "a", "b">>

Lower == [l \in Range(Labels) \cup {"*"} |-> IF l = "A" THEN "a" ELSE l]

ExactUris == {<<<<"b">>>>, <<<<"a", "b">>>>, <<<<"b", "b">>>>, <<<<"a", "a", "b">>>>,
              <<<<"a", "b">>, <<"a">>>>, <<<<"a", "b">>, <<"b">>>>,
              <<<<"a", "b">>, <<"a">>, <<"b">>>>, <<<<"a", "b">>, <<"a", "b">>>>}

WildcardUris == {<<<<"*", "b">>>>, <<<<"*", "a", "b">>>>, <<<<"*", "b">>, <<"a">>>>}

\* Routes whose wildcard is not the first label, which Lookup does not know.
InnerWildcards == {<<<<"a", "*">>>>, <<<<"a", "*", "b">>>>, <<<<"*">>>>}

Requests == ExactUris \cup {<<<<"A", "b">>, <<"A">>, <<"b">>>>, <<<<"b", "a", "b">>, <<"a">>>>,
                            <<<<"a", "a">>>>}

SmallSets(uris) == {{u, v, w} : u, v, w \in uris}

TrieOf(uris) == FoldSet(LAMBDA u, t : Insert(t, u, EmptyPool), EmptyTrie, uris)

\* Lookup against what it is to find.
ASSUME LookupChecked ==
    \A uris \in SmallSets(ExactUris \cup WildcardUris) : \A request \in Requests :
       LET t == TrieOf(uris)
       IN  /\ 1 \in Dotted(request) /\ Dotted(request) = {1} => LookupFindsBest(t, request)
           /\ ExactIsBest(t, request)

\* The policy and the names against what they are for.
ASSUME PolicyChecked ==
    \A uris \in SmallSets(ExactUris \cup WildcardUris \cup InnerWildcards) :
       /\ NamesApart(uris)
       /\ \A request \in Requests : PicksLongest(uris, request)
=============================================================================
