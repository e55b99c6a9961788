------------------------------ MODULE RouteUri ------------------------------
(***************************************************************************)
(* The URIs of HTTP routes (route/uris.go) and the names of the BIG-IP     *)
(* objects made from them (f5router.go).  A URI is the sequence of its     *)
(* segments, host first, and a segment the sequence of its labels, so that *)
(* "a.b/c" is <<<<"a", "b">>, <<"c">>>>.  Labels are single characters:    *)
(* the order of such URIs as strings is then the order of their tokens.    *)
(***************************************************************************)
EXTENDS Naturals, Sequences, FiniteSetsExt, SequencesExt

CONSTANTS
    Label,     \* the labels, in their order as characters
    ToLower    \* label -> label, strings.ToLower

ASSUME UriAssumption ==
    /\ IsInjective(Label) /\ {"*", ".", "/"} \cap Range(Label) = {}
    /\ ToLower \in [Range(Label) \cup {"*"} -> Range(Label) \cup {"*"}]
    /\ ToLower["*"] = "*"

\* The call does not return.
Panic == <<"panic">>

\* No URI, no pool.
None == <<>>

Host(u) == u[1]

\* How often "*" occurs.
Stars(u) == FoldSet(LAMBDA i, n : n + Len(SelectSeq(u[i], LAMBDA l : l = "*")), 0, DOMAIN u)

\* The first segment with a dot in it, if there is one.
Dotted(u) == {i \in DOMAIN u : Len(u[i]) > 1}

\* The URI as a string, in tokens.
String(u) ==
    LET dots(segment) == FoldLeft(LAMBDA s, l : s \o <<".", l>>, <<Head(segment)>>, Tail(segment))
    IN  FoldLeft(LAMBDA s, segment : s \o <<"/">> \o dots(segment), dots(Host(u)), Tail(u))

\* The order of characters: "*", ".", "/", then the labels.
Rank(token) == Min({i \in 1 .. Len(Label) + 3 : (<<"*", ".", "/">> \o Label)[i] = token})

\* The order of strings.
Less(u, v) ==
    LET s == String(u)
        t == String(v)
        apart == {i \in 1 .. Min({Len(s), Len(t)}) : s[i] # t[i]}
    IN  IF apart = {} THEN Len(s) < Len(t) ELSE Rank(s[Min(apart)]) < Rank(t[Min(apart)])

\* A query is cut off before the URI gets here.
RouteKey(u) == [i \in DOMAIN u |-> [j \in DOMAIN u[i] |-> ToLower[u[i][j]]]]

\* The label before the first dot gives way to "*"; a leading "*." does not count.
\* The first dot may be one of the path.
NextWildcard(u) ==
    LET uri == IF Head(Host(u)) = "*" /\ Len(Host(u)) > 1 THEN [u EXCEPT ![1] = Tail(@)] ELSE u
        dot == Min(Dotted(uri))
    IN  IF Dotted(uri) = {} THEN None
        ELSE <<<<"*">> \o Tail(uri[dot])>> \o SubSeq(uri, dot + 1, Len(uri))

\* A leading "*." is left out, any other "*" becomes "_", and the name of a URI
\* without one has the first label and a hash, which is taken to tell URIs apart.
\* A URI without a dot has no first label.
makeObjectName(u) ==
    IF Head(Host(u)) = "*" /\ Len(Host(u)) > 1 THEN String([u EXCEPT ![1] = Tail(@)])
    ELSE IF Stars(u) > 0
    THEN [i \in DOMAIN String(u) |-> IF String(u)[i] = "*" THEN "_" ELSE String(u)[i]]
    ELSE IF Dotted(u) = {} THEN Panic
    ELSE <<"hash", u>>

\* verifyRouteURI: two wildcards are refused.
verifyRouteURI(u) == Stars(u) <= 1
=============================================================================
