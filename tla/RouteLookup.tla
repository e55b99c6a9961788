---------------------------- MODULE RouteLookup ----------------------------
(***************************************************************************)
(* The registry's look-ups (Lookup and LookupWithoutWildcard of            *)
(* registry/registry.go, MatchUri and Find of the trie).  Each holds the   *)
(* registry's read lock, so each is a function of the trie.  A pool is     *)
(* named by the path to its node.                                          *)
(***************************************************************************)
EXTENDS Trie, RouteUri

\* The walk goes as deep as there are nodes for the key's segments; the pool it
\* passed last is the answer.
MatchUri(t, key) ==
    LET reached == {i \in 1 .. Len(key) : Way(UpTo(key, i)) \subseteq t.nodes}
        passed == {i \in reached : UpTo(key, i) \in DOMAIN t.pool}
    IN  IF passed = {} THEN None ELSE UpTo(key, Max(passed))

RECURSIVE LookupFrom(_, _)
LookupFrom(t, uri) ==
    IF MatchUri(t, uri) # None \/ NextWildcard(uri) = None THEN MatchUri(t, uri)
    ELSE LookupFrom(t, NextWildcard(uri))

Lookup(t, uri) == LookupFrom(t, RouteKey(uri))

LookupWithoutWildcard(t, uri) == IF Finds(t, RouteKey(uri)) THEN RouteKey(uri) ELSE None
-----------------------------------------------------------------------------
\* How well a route's host fits that of a request: by its labels after a leading
\* "*", or by all of them.
Fit(route, request) ==
    LET r == Host(route)
        h == Host(request)
    IN  IF r = h THEN Len(h)
        ELSE IF Head(r) = "*" /\ IsStrictSuffix(Tail(r), h) THEN Len(r) - 1
        ELSE 0

Serves(route, request) == Fit(route, request) > 0 /\ IsPrefix(Tail(route), Tail(request))

\* Lookup finds a route exactly when one serves the request, and then the one whose
\* host fits best and, of those, whose path is longest, though it tries one
\* wildcard after another and lets the trie find the path.  A path with a dot is
\* an exception: its labels are taken for the host's in the end (NextWildcard).
LookupFindsBest(t, request) ==
    LET found == Lookup(t, request)
        serving == {r \in DOMAIN t.pool : Serves(r, RouteKey(request))}
        rank(r) == <<Fit(r, RouteKey(request)), Len(r)>>
    IN  IF serving = {} THEN found = None
        ELSE /\ found \in serving
             /\ \A r \in serving : \/ rank(r)[1] < rank(found)[1]
                                   \/ rank(r)[1] = rank(found)[1] /\ rank(r)[2] <= rank(found)[2]

\* Without wildcards only the route itself is found, and Lookup then agrees.
ExactIsBest(t, request) ==
    LookupWithoutWildcard(t, request) # None
       => Lookup(t, request) = LookupWithoutWildcard(t, request)
=============================================================================
