---------------------------- MODULE RoutePolicy ----------------------------
(***************************************************************************)
(* The policy with which the BIG-IP picks the route of a request           *)
(* (makeRouteRule and makeRoutePolicy of f5router.go): a rule with its     *)
(* conditions for every route, the rules in order, and the BIG-IP's        *)
(* first-match strategy.                                                   *)
(***************************************************************************)
EXTENDS RouteUri

Condition(operand, match, index, value) ==
    [operand |-> operand, match |-> match, index |-> index, values |-> value]

\* A host with "*" is split there; each part that is not empty gives a condition.
\* The path of such a route is not looked at.  When "*" is in the path, the host is
\* the only part, and there is no second one to look at.
wildcardConditions(u) ==
    LET star == Min({i \in DOMAIN Host(u) : Host(u)[i] = "*"})
        before == SubSeq(Host(u), 1, star - 1)
        after == SubSeq(Host(u), star + 1, Len(Host(u)))
        starts == IF before = <<>> THEN <<>>
                  ELSE <<Condition("host", "startsWith", 0, before)>>
        ends == IF after = <<>> THEN <<>>
                ELSE <<Condition("host", "endsWith", Len(starts), after)>>
    IN  IF "*" \notin Range(Host(u)) THEN Panic ELSE starts \o ends

exactConditions(u) ==
    <<Condition("host", "equals", 0, Host(u))>>
      \o [i \in 1 .. Len(u) - 1 |-> Condition("path", "equals", i, u[i + 1])]

makeRouteRule(u) ==
    [FullURI |-> u, conditions |-> IF Stars(u) > 0 THEN wildcardConditions(u)
                                   ELSE exactConditions(u)]

\* Each of the two maps' rules, sorted by URI, the last first.
sortRules(uris) == SetToSortSeq({makeRouteRule(u) : u \in uris},
                                LAMBDA r, s : Less(s.FullURI, r.FullURI))

\* The routes without a wildcard come first.
makeRoutePolicy(uris) ==
    LET wildcards == {u \in uris : Stars(u) > 0}
    IN  sortRules(uris \ wildcards) \o sortRules(wildcards)

\* What the BIG-IP makes of a condition: a part of the host that ends or starts
\* with the dot next to "*" leaves room for a label there.
Holds(cond, request) ==
    LET host == Host(request)
        n == Len(cond.values)
    IN  CASE cond.operand = "path" ->
               cond.index < Len(request) /\ request[cond.index + 1] = cond.values
          [] cond.match = "equals" -> host = cond.values
          [] cond.match = "startsWith" -> Len(host) > n /\ SubSeq(host, 1, n) = cond.values
          [] cond.match = "endsWith" ->
               Len(host) > n /\ SubSeq(host, Len(host) - n + 1, Len(host)) = cond.values

Matches(rule, request) ==
    \A i \in DOMAIN rule.conditions : Holds(rule.conditions[i], request)

\* The route of the first rule that matches.
FirstMatch(policy, request) ==
    LET matching == {i \in DOMAIN policy : Matches(policy[i], request)}
    IN  IF matching = {} THEN None ELSE policy[Min(matching)].FullURI
-----------------------------------------------------------------------------
(***************************************************************************)
(* What the policy is for                                                  *)
(***************************************************************************)

\* A route without a wildcard serves what is below it.
Covers(route, request) == IsPrefix(route, request)

\* Of the routes without a wildcard that cover a request the policy picks the
\* longest, though its rules are only sorted as strings: a route comes before its
\* prefixes.  Routes with a wildcard are for requests that no other route covers.
PicksLongest(uris, request) ==
    LET covering == {u \in uris : Stars(u) = 0 /\ Covers(u, request)}
        picked == FirstMatch(makeRoutePolicy(uris), request)
    IN  IF covering = {} THEN picked = None \/ Stars(picked) = 1
        ELSE picked \in covering /\ \A u \in covering : Len(u) <= Len(picked)

\* Two routes have two names, whatever their wildcards (makeObjectName); the hash
\* is taken to be perfect, and "_" not to be a label.
NamesApart(uris) ==
    \A u, v \in uris : /\ verifyRouteURI(u) /\ verifyRouteURI(v)
                       /\ makeObjectName(u) # Panic
                       => (makeObjectName(u) = makeObjectName(v) => u = v)
=============================================================================
