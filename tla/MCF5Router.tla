----------------------------- MODULE MCF5Router -----------------------------
(***************************************************************************)
(* F5Router with up to three HTTP routes, or a TCP route, and two          *)
(* endpoints.                                                              *)
(***************************************************************************)
EXTENDS F5Router, TLC

CONSTANTS e1, e2

MCObjectName == [x \in Uri \cup RoutePort |->
    CASE x = "u1" -> "n1" [] x = "u2" -> "n2" [] x = "u3" -> "n3" [] x = "t1" -> "t"]

MCName == {MCObjectName[u] : u \in Uri}

\* The plans of the broker; a bind may also name one that does not exist.
MCPlans == [p \in PlanID \ {"p0"} |->
    CASE p = "p1" -> {"profiles", "balance", "monitorNames", "monitors"}
      [] p = "p2" -> {"monitorNames"}]

MCSymmetry == Permutations(Endpoint)

\* Without the broker there is no Bind and no Unbind; u1 has two endpoints, the
\* other routes one.
MCRoutes == {i \in HttpItem : /\ i.op \in {"Add", "Remove"}
                              /\ i.uri # "u1" => i.endpoint = e1}

MCAdds == {i \in HttpItem : i.op = "Add"}

MCTcp == TcpItem

MCNone == {}

\* The data group of an earlier run: the first address, or the second one.
MCDataGroups == { ("n1" :> <<1, 1>>) }

MCSecond == { ("n1" :> <<1, 2>>) }

\* removePool's loop as the code runs it, over the positions the slice had at
\* the start, comparing with what target(live slice) is at each of them.
Loop(s, target(_)) ==
    LET live[i \in 0 .. Len(s)] ==
          IF i = 0 THEN s
          ELSE LET cur == live[i - 1]
               IN  IF i <= Len(cur) /\ cur[i] = target(cur)
                   THEN SubSeq([cur EXCEPT ![i] = cur[Len(cur)]], 1, Len(cur) - 1)
                   ELSE cur
    IN  live[Len(s)]

\* The closed forms of PoolMembers are what the loop computes.
ASSUME LoopAssumption ==
    \A s \in UNION {[1 .. k -> {1, 2, 3}] : k \in 1 .. 6} :
        /\ \A m \in {1, 2, 3} : RemoveMember(s, m) = Loop(s, LAMBDA cur : m)
        /\ RemoveOwnFirst(s) = Loop(s, LAMBDA cur : cur[1])
=============================================================================
