----------------------------- MODULE TCPFetcher -----------------------------
(***************************************************************************)
(* The fetcher of TCP routes (routefetcher/tcp_fetcher.go): RouteFetcher   *)
(* over the TCP routing table.  The table's lock is taken by each call on  *)
(* its own, so calls of the two goroutines and the table's pruning         *)
(* interleave freely.                                                      *)
(***************************************************************************)
EXTENDS RouteFetcher, RoutingTable

CONSTANT RouteTTL   \* the ttl of each route; 0 where the API has none

ASSUME TCPFetcherAssumption ==
    /\ Route = RoutingKey \X BackendServerKey
    /\ Tag = VersionTag
    /\ RouteTTL \in [Route -> TTL]

toRoutingTableEntry(row) ==
    [backend |-> row[1][2], tag |-> row[2], ttl |-> RouteTTL[row[1]]]

Upsert(row) == UpsertBackendServerKey(row[1][1], toRoutingTableEntry(row))

Delete(row) == DeleteBackendServerKey(row[1][1], toRoutingTableEntry(row))

deleteTCPEndpoints(g) ==
    \E row \in work[g].calls : Call(g, "delete", row) /\ Delete(row)

refreshTCPEndpoints(g) ==
    \E row \in work[g].calls : Call(g, "upsert", row) /\ Upsert(row)

HandleEvent ==
    LET event == Head(eventChannel)
    IN  /\ ReceiveEvent
        /\ IF event.action = "Upsert" THEN Upsert(<<event.route, event.tag>>)
                                      ELSE Delete(<<event.route, event.tag>>)

FetcherNext ==
    \/ ControlSteps /\ UNCHANGED vars
    \/ \E g \in Goroutine : deleteTCPEndpoints(g) \/ refreshTCPEndpoints(g)
    \/ HandleEvent
    \/ (pruneEntries \/ Tick) /\ UNCHANGED fetcherVars

allVars == <<fetcherVars, vars>>

TCPFetcherInit == FetcherInit /\ TableInit

FetcherSpec == TCPFetcherInit /\ [][FetcherNext]_allVars

\* The goroutine of Run never stands still.  Its select picks among the ready
\* cases at random, so that events do not put off a poll for ever, and the API
\* answers a poll again and again: until the signal comes, Run is just back from
\* a successful request, and back in its select, infinitely often.  The clock and
\* the goroutine that prunes the table never stop.  Nothing is assumed of the
\* event goroutine.
Fairness ==
    /\ []<>(pc["run"] \in {"diff", "stopped"})
    /\ []<>(pc["run"] \in {"select", "stopped"})
    /\ WF_allVars(pruneEntries /\ UNCHANGED fetcherVars)
    /\ WF_allVars(Tick /\ UNCHANGED fetcherVars)

FairFetcherSpec == FetcherSpec /\ Fairness

-----------------------------------------------------------------------------
\* The table holds the routes of the API, each with the API's tag.
UpToDate ==
    /\ Members = DOMAIN api
    /\ \A r \in DOMAIN api : entries[r[1]][r[2]].tag = api[r]

\* Once the API changes no more, the table is up to date again and again until the
\* fetcher is stopped, whatever snapshots and events were in flight or lost
\* (FetchRoutes, HandleEvent).  It does not stay so: a backend that every poll
\* confirms with the same tag still expires and comes back (pruneEntries).
TableFollowsApi ==
    \/ <>stopEventSource
    \/ []<><<TRUE>>_api
    \/ []<>UpToDate
=============================================================================
