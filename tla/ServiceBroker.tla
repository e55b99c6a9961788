---------------------------- MODULE ServiceBroker ----------------------------
(***************************************************************************)
(* The service broker (servicebroker/servicebroker.go) and what the router *)
(* keeps for it: the plans, the map from bind ids to routes, the updates a *)
(* bind or an unbind queues, and the broker's data group on the BIG-IP,    *)
(* from which a controller that restarts recovers its bindings.            *)
(*                                                                         *)
(* Requests are served from the start of the process on, each by a         *)
(* goroutine of its own, while the router still fetches that data group.   *)
(* Of a route's resources only the members of its pool and what a plan may *)
(* set are kept; the rest, a plan's own monitors included, is F5Router's.  *)
(***************************************************************************)
EXTENDS Integers, Sequences, Maps, PoolMembers

CONSTANTS
    BindID,
    RouteURI,
    Endpoint,   \* the backends of the routes
    PlansOf,    \* the names of the plans each start of the controller finds
    Settings,   \* what each plan sets
    Default,    \* the value of a setting that comes from the config
    Request,    \* goroutines that serve requests
    MaxUpdates  \* bound: updates of endpoints

PlanName == UNION Range(PlansOf)

\* The virtual's profiles (its policies are treated alike), the pool's balance mode
\* and its monitor names.
Setting == {"profiles", "balance", "monitorNames"}

ASSUME BrokerAssumption ==
    /\ PlansOf \in Seq(SUBSET STRING) /\ PlansOf # <<>>
    /\ Settings \in [PlanName -> SUBSET Setting] /\ Default \notin PlanName
    /\ MaxUpdates \in Nat

Binding == [uri : RouteURI, plan : PlanName]

VARIABLES
    start,       \* how often the controller was started
    phase,       \* Run: "fetch", "process", "assign" or "worker"
    fetched,     \* the data group that Run got back
    bindMap,     \* bindIDRouteURIPlanNameMap
    queue,       \* updates for the router's worker
    writing,     \* the worker found the queue empty and is about to write
    routes,      \* the mapped routes: the members of the pool, and where each setting
                 \* comes from
    unmapped,    \* unmappedResourcesMap: the plan each entry comes from
    requests,    \* what each goroutine is doing
    file,        \* the broker's data group in the configuration file, if any
    device,      \* the one on the BIG-IP, if any
    writeFailed, \* the last write of the file failed
    registered,  \* the endpoints in the registry, as <<route, endpoint>>
    updates,     \* how many updates of endpoints there were
    claims,      \* the platform's bindings: "bound" or "unbound" once the last request
                 \* about them was answered, else "unknown"
    lost,        \* history: bind ids the controller forgot
    crossed,     \* history: routes with a binding unbound twice, or bound once more
                 \* by a restart after it was unbound
    decided,     \* history: the plan of the last Bind of each route, if no Unbind
                 \* came after it
    settled,     \* history: whether the last Bind or Unbind of each route found it
                 \* "mapped" or "unmapped"; "reverted" once the route it found is gone
    scarred      \* history: routes unbound while their pool had more than one member

runVars == <<start, phase, fetched>>
routeVars == <<routes, unmapped, decided, settled, scarred>>
workerVars == <<queue, writing, routeVars>>
storeVars == <<file, writeFailed, device>>
registryVars == <<registered, updates>>
historyVars == <<lost, crossed>>
vars == <<runVars, bindMap, workerVars, requests, storeVars, registryVars, claims, historyVars>>

NoRequest == [step |-> "none"]

NoGroup == [written |-> FALSE, records |-> EmptyMap]

Group(m) == [written |-> TRUE, records |-> m]

Init ==
    /\ start = 1 /\ phase = "fetch" /\ fetched = EmptyMap
    /\ bindMap = EmptyMap
    /\ queue = <<>> /\ writing = FALSE
    /\ routes = EmptyMap /\ unmapped = EmptyMap
    /\ decided = EmptyMap /\ settled = [uri \in RouteURI |-> "unmapped"] /\ scarred = {}
    /\ requests = [r \in Request |-> NoRequest]
    /\ file = NoGroup /\ writeFailed = FALSE /\ device = NoGroup
    /\ registered = {} /\ updates = 0
    /\ claims = EmptyMap /\ lost = {} /\ crossed = {}

UpdateRoute(update) == queue' = Append(queue, update)

Step(r, request) == requests' = [requests EXCEPT ![r] = request]
-----------------------------------------------------------------------------
(***************************************************************************)
(* Requests.  The platform has one binding to a route at a time, and may   *)
(* repeat an unbind that it has no answer to.                              *)
(***************************************************************************)

\* The ids of the plans are new with every start, and processPlans knows no other.
VerifyPlanExists(id) == id.start = start /\ id.plan \in PlansOf[start]

\* The platform never uses a bind id twice.
MayBind(id, uri) ==
    /\ id \notin DOMAIN claims
    /\ \A other \in DOMAIN claims :
          claims[other].uri = uri => claims[other].status = "unbound"

\* Bind, up to AddBindIDRouteURIPlanNameMapping.  A plan id of an earlier start is
\* refused.
Bind(r, id, uri, planID) ==
    /\ requests[r] = NoRequest
    /\ MayBind(id, uri)
    /\ VerifyPlanExists(planID)
    /\ bindMap' = Put(bindMap, id, [uri |-> uri, plan |-> planID.plan])
    /\ claims' = Put(claims, id, [uri |-> uri, plan |-> planID.plan, status |-> "unknown"])
    /\ Step(r, [step |-> "bind", id |-> id, uri |-> uri, plan |-> planID.plan])
    /\ UNCHANGED <<runVars, workerVars, storeVars, registryVars, historyVars>>

\* UpdateRoute, and the answer.
BindUpdates(r) ==
    LET req == requests[r]
    IN  /\ req.step = "bind"
        /\ UpdateRoute([op |-> "Bind", uri |-> req.uri, plan |-> req.plan])
        /\ claims' = [claims EXCEPT ![req.id].status = "bound"]
        /\ Step(r, NoRequest)
        /\ UNCHANGED <<runVars, bindMap, writing, routeVars, storeVars, registryVars, historyVars>>

\* Unbind finds the route of its bind id; an id it does not find is an error, and
\* changes nothing.
Unbind(r, id) ==
    /\ requests[r] = NoRequest
    /\ id \in DOMAIN claims /\ claims[id].status # "unbound"
    /\ id \in DOMAIN bindMap
    /\ \A other \in Request : requests[other].step = "bind" => requests[other].id # id
    /\ claims' = [claims EXCEPT ![id].status = "unknown"]
    /\ Step(r, [step |-> "found", id |-> id, uri |-> bindMap[id].uri])
    /\ UNCHANGED <<runVars, bindMap, workerVars, storeVars, registryVars, historyVars>>

\* Variant of UnbindRemoves that blanks the mapping instead.
UnbindBlanks(r) ==
    LET req == requests[r]
    IN  /\ req.step = "found"
        /\ bindMap' = Put(bindMap, req.id, NoRequest)
        /\ Step(r, [req EXCEPT !.step = "unbind"])
        /\ UNCHANGED <<runVars, workerVars, storeVars, registryVars, claims, historyVars>>

\* The mapping may be gone by now: another goroutine serves the same request.
UnbindRemoves(r) ==
    LET req == requests[r]
    IN  /\ req.step = "found"
        /\ bindMap' = Drop(bindMap, req.id)
        /\ crossed' = IF req.id \in DOMAIN bindMap THEN crossed ELSE crossed \cup {req.uri}
        /\ Step(r, [req EXCEPT !.step = "unbind"])
        /\ UNCHANGED <<runVars, workerVars, storeVars, registryVars, claims, lost>>

UnbindUpdates(r) ==
    LET req == requests[r]
    IN  /\ req.step = "unbind"
        /\ UpdateRoute([op |-> "Unbind", uri |-> req.uri])
        /\ claims' = [claims EXCEPT ![req.id].status = "unbound"]
        /\ Step(r, NoRequest)
        /\ UNCHANGED <<runVars, bindMap, writing, routeVars, storeVars, registryVars, historyVars>>
-----------------------------------------------------------------------------
(***************************************************************************)
(* The router: Run, and its worker                                         *)
(***************************************************************************)

\* fetchExistingDataGroup.  A timeout or a temporary error is retried for ever,
\* with a pause that doubles each time.
fetchExistingDataGroup ==
    /\ phase = "fetch" /\ device.written
    /\ fetched' = device.records
    /\ phase' = "process"
    /\ UNCHANGED <<start, bindMap, workerVars, requests, storeVars, registryVars, claims,
                   historyVars>>

\* The data group is not there, or another error is returned: Run goes on without.
fetchFails ==
    /\ phase = "fetch"
    /\ phase' = "worker"
    /\ lost' = lost \cup (DOMAIN claims \ DOMAIN bindMap)
    /\ UNCHANGED <<start, fetched, bindMap, workerVars, requests, storeVars, registryVars,
                   claims, crossed>>

\* A record whose plan is gone gets no update, but stays in the map.
Recovered == {id \in DOMAIN fetched : fetched[id].plan \in PlansOf[start]}

\* processBrokerDataGroup: an update for every record, in any order.
processBrokerDataGroup ==
    /\ phase = "process"
    /\ \E order \in Orders(Recovered) :
          queue' = queue \o [i \in DOMAIN order |->
                                [op |-> "Bind", uri |-> fetched[order[i]].uri,
                                 plan |-> fetched[order[i]].plan]]
    /\ phase' = "assign"
    /\ UNCHANGED <<start, fetched, bindMap, writing, routeVars, requests, storeVars,
                   registryVars, claims, historyVars>>

Gone == {id \in DOMAIN claims : claims[id].status = "unbound"}

\* Variant of assignBindMap that forgets the bindings whose plan is gone.
assignRecovered ==
    /\ phase = "assign"
    /\ bindMap' = Only(fetched, Recovered)
    /\ fetched' = EmptyMap
    /\ phase' = "worker"
    /\ lost' = lost \cup (DOMAIN claims \ DOMAIN fetched)
    /\ UNCHANGED <<start, workerVars, requests, storeVars, registryVars, claims, crossed>>

\* The map is replaced, and with it what requests have put there meanwhile.
assignBindMap ==
    /\ phase = "assign"
    /\ bindMap' = fetched
    /\ fetched' = EmptyMap
    /\ phase' = "worker"
    /\ lost' = lost \cup (DOMAIN claims \ DOMAIN fetched)
    /\ crossed' = crossed \cup {fetched[id].uri : id \in Gone \cap DOMAIN fetched}
    /\ UNCHANGED <<start, workerVars, requests, storeVars, registryVars, claims>>

(***************************************************************************)
(* The handlers of the worker                                              *)
(***************************************************************************)
DefaultRoute(members) == [members |-> members, settings |-> [s \in Setting |-> Default]]

\* UpdateResources: only what plan p sets is overwritten.
UpdateResources(route, p) ==
    [route EXCEPT !.settings = [s \in Setting |-> IF s \in Settings[p] THEN p ELSE @[s]]]

Mapped(uri) == uri \in DOMAIN routes

\* Variant of processRouteAdd that does not look for a plan.
processRouteAddPlain(uri, e) ==
    /\ routes' = IF Mapped(uri)
                 THEN [routes EXCEPT ![uri].members = AddMembers(@, <<e>>)]
                 ELSE Put(routes, uri, DefaultRoute(<<e>>))
    /\ UNCHANGED <<unmapped, decided, settled, scarred>>

\* A route that is mapped only gets the endpoint.
processRouteAdd(uri, e) ==
    /\ routes' = IF Mapped(uri)
                 THEN [routes EXCEPT ![uri].members = AddMembers(@, <<e>>)]
                 ELSE Put(routes, uri, IF uri \in DOMAIN unmapped
                                       THEN UpdateResources(DefaultRoute(<<e>>), unmapped[uri])
                                       ELSE DefaultRoute(<<e>>))
    /\ UNCHANGED <<unmapped, decided, settled, scarred>>

\* The address is empty, the route has two wildcards or there is no port left.
refuseAdd == UNCHANGED routeVars

\* The route goes with its last member, and with it what was bound to it while it
\* was mapped.
processRouteRemove(uri, e) ==
    LET left == RemoveMember(routes[uri].members, e)
    IN  \/ /\ ~Mapped(uri)
           /\ UNCHANGED routeVars
        \/ /\ Mapped(uri) /\ left # <<>>
           /\ routes' = [routes EXCEPT ![uri].members = left]
           /\ UNCHANGED <<unmapped, decided, settled, scarred>>
        \/ /\ Mapped(uri) /\ left = <<>>
           /\ routes' = Drop(routes, uri)
           /\ settled' = [settled EXCEPT ![uri] = IF @ = "mapped" THEN "reverted" ELSE @]
           /\ scarred' = scarred \ {uri}
           /\ UNCHANGED <<unmapped, decided>>

Settle(uri) == settled' = [settled EXCEPT ![uri] = IF Mapped(uri) THEN "mapped" ELSE "unmapped"]

\* The plan is one of this start, so plansMap has it.  The members of a mapped
\* route are put back.
processRouteBind(uri, p) ==
    /\ IF Mapped(uri)
       THEN /\ routes' = [routes EXCEPT ![uri] = UpdateResources(@, p)]
            /\ UNCHANGED unmapped
       ELSE /\ unmapped' = Put(unmapped, uri, p)
            /\ UNCHANGED routes
    /\ decided' = Put(decided, uri, p)
    /\ Settle(uri)
    /\ UNCHANGED scarred

\* On a mapped route the virtual is made anew, but a pool that removePool leaves a
\* member of stays, with its settings: addPool gives it only members.  What the
\* route had before it was mapped is left in unmappedResourcesMap.
processRouteUnbind(uri) ==
    LET members == routes[uri].members
        left == RemoveOwnFirst(members)
    IN  /\ \/ /\ Mapped(uri) /\ left = <<>>
              /\ routes' = [routes EXCEPT ![uri] = DefaultRoute(members)]
              /\ scarred' = scarred \ {uri}
              /\ UNCHANGED unmapped
           \/ /\ Mapped(uri) /\ left # <<>>
              /\ routes' = [routes EXCEPT ![uri].members = AddMembers(left, members),
                                         ![uri].settings["profiles"] = Default]
              /\ scarred' = scarred \cup {uri}
              /\ UNCHANGED unmapped
           \/ /\ ~Mapped(uri)
              /\ unmapped' = Drop(unmapped, uri)
              /\ UNCHANGED <<routes, scarred>>
        /\ decided' = Drop(decided, uri)
        /\ Settle(uri)

handle(u) ==
    \/ u.op = "Add" /\ (processRouteAdd(u.uri, u.endpoint) \/ refuseAdd)
    \/ u.op = "Remove" /\ processRouteRemove(u.uri, u.endpoint)
    \/ u.op = "Bind" /\ processRouteBind(u.uri, u.plan)
    \/ u.op = "Unbind" /\ processRouteUnbind(u.uri)

\* Variant of processItem that never notes that the queue is empty.
processItemOnly ==
    /\ phase = "worker" /\ ~writing /\ queue # <<>>
    /\ handle(Head(queue))
    /\ queue' = Tail(queue)
    /\ UNCHANGED <<runVars, bindMap, writing, requests, storeVars, registryVars, claims,
                   historyVars>>

processItem ==
    /\ phase = "worker" /\ ~writing /\ queue # <<>>
    /\ handle(Head(queue))
    /\ queue' = Tail(queue)
    /\ writing' = (Tail(queue) = <<>>)
    /\ UNCHANGED <<runVars, bindMap, requests, storeVars, registryVars, claims, historyVars>>

\* Variant of populateBrokerDataGroup that leaves out the routes without endpoints.
populateMapped ==
    Group(Only(bindMap, {id \in DOMAIN bindMap : Mapped(bindMap[id].uri)}))

\* The data group is made from the map, not from the routes.
populateBrokerDataGroup == Group(bindMap)

\* The write succeeds; or it fails before the file is touched, or after it was
\* truncated.  A failure is logged.
writeConfig ==
    /\ writing
    /\ \/ file' = populateBrokerDataGroup /\ writeFailed' = FALSE
       \/ UNCHANGED file /\ writeFailed' = TRUE
       \/ file' = NoGroup /\ writeFailed' = TRUE
    /\ writing' = FALSE
    /\ UNCHANGED <<runVars, bindMap, queue, routeVars, requests, device, registryVars,
                   claims, historyVars>>
-----------------------------------------------------------------------------
\* The driver applies the file; without resources there is nothing to apply.
DriverApplies ==
    /\ file.written /\ device # file
    /\ device' = file
    /\ UNCHANGED <<runVars, bindMap, workerVars, requests, file, writeFailed, registryVars,
                   claims, historyVars>>

\* The registry adds an endpoint or removes one that it has, from the start of the
\* process on; an Add that it repeats would find the endpoint in the pool.
RegistryUpdates(op, uri, e) ==
    /\ updates < MaxUpdates
    /\ updates' = updates + 1
    /\ \/ op = "Add" /\ <<uri, e>> \notin registered /\ registered' = registered \cup {<<uri, e>>}
       \/ op = "Remove" /\ <<uri, e>> \in registered /\ registered' = registered \ {<<uri, e>>}
    /\ UpdateRoute([op |-> op, uri |-> uri, endpoint |-> e])
    /\ UNCHANGED <<runVars, bindMap, writing, routeVars, requests, storeVars, claims,
                   historyVars>>

\* The controller dies and is started again: the file is written without
\* resources, and the platform has no answer to its open requests.
Restart ==
    /\ start < Len(PlansOf)
    /\ start' = start + 1
    /\ phase' = "fetch" /\ fetched' = EmptyMap
    /\ bindMap' = EmptyMap
    /\ queue' = <<>> /\ writing' = FALSE
    /\ routes' = EmptyMap /\ unmapped' = EmptyMap
    /\ decided' = EmptyMap /\ settled' = [uri \in RouteURI |-> "unmapped"] /\ scarred' = {}
    /\ requests' = [r \in Request |-> NoRequest]
    /\ file' = NoGroup /\ writeFailed' = FALSE
    /\ registered' = {}
    /\ lost' = lost \cup (DOMAIN claims \ DOMAIN device.records)
    /\ UNCHANGED <<device, updates, claims, crossed>>

Requests(r) ==
    \/ \E id \in BindID, uri \in RouteURI,
          planID \in [start : DOMAIN PlansOf, plan : PlanName] : Bind(r, id, uri, planID)
    \/ BindUpdates(r)
    \/ \E id \in BindID : Unbind(r, id)
    \/ UnbindRemoves(r)
    \/ UnbindUpdates(r)

Router ==
    \/ fetchExistingDataGroup \/ fetchFails \/ processBrokerDataGroup
    \/ assignBindMap \/ processItem \/ writeConfig

Next ==
    \/ \E r \in Request : Requests(r)
    \/ Router
    \/ DriverApplies
    \/ \E op \in {"Add", "Remove"}, uri \in RouteURI, e \in Endpoint : RegistryUpdates(op, uri, e)
    \/ Restart

Spec == Init /\ [][Next]_vars
-----------------------------------------------------------------------------
BrokerTypeOK ==
    /\ start \in DOMAIN PlansOf
    /\ phase \in {"fetch", "process", "assign", "worker"}
    /\ IsMap(bindMap, BindID, Binding) /\ IsMap(fetched, BindID, Binding)
    /\ \A i \in DOMAIN queue : queue[i].op \in {"Add", "Remove", "Bind", "Unbind"}
    /\ DOMAIN routes \subseteq RouteURI /\ scarred \subseteq DOMAIN routes
    /\ \A uri \in DOMAIN routes :
          routes[uri].settings \in [Setting -> PlanName \cup {Default}]
    /\ IsMap(unmapped, RouteURI, PlanName) /\ IsMap(decided, RouteURI, PlanName)
    /\ settled \in [RouteURI -> {"mapped", "unmapped", "reverted"}]
    /\ IsMap(file.records, BindID, Binding) /\ IsMap(device.records, BindID, Binding)
    /\ \A id \in DOMAIN claims : claims[id].status \in {"bound", "unbound", "unknown"}
    /\ lost \subseteq BindID /\ crossed \subseteq RouteURI

Bound == {id \in DOMAIN claims : claims[id].status = "bound"}

\* Once the router is up it knows the route and the plan of every binding the
\* platform has an answer for, so that Unbind finds it: restarts included, but for
\* the bindings that had not reached the BIG-IP and those made while Run was still
\* fetching (Bind, Unbind, processBrokerDataGroup).
BindingsKnown ==
    phase = "worker" =>
       \A id \in Bound \ lost :
          /\ id \in DOMAIN bindMap
          /\ bindMap[id] = [uri |-> claims[id].uri, plan |-> claims[id].plan]

Quiet ==
    /\ phase = "worker" /\ queue = <<>> /\ ~writing
    /\ \A r \in Request : requests[r] = NoRequest

\* A plan is in effect when a mapped route has all it sets, and one that is not
\* mapped has the plan ready for its first endpoint.
InEffect(uri, p) ==
    IF Mapped(uri)
    THEN \A s \in Settings[p] : routes[uri].settings[s] = p
    ELSE uri \in DOMAIN unmapped /\ unmapped[uri] = p

NoneInEffect(uri) ==
    IF Mapped(uri)
    THEN \A s \in Setting : uri \notin scarred \/ s = "profiles" => routes[uri].settings[s] = Default
    ELSE uri \notin DOMAIN unmapped

\* Once all requests are answered and all updates processed, the plan of each
\* binding is in effect on its route, if this start has such a plan, and a route
\* without bindings has defaults, whenever its endpoints came and went.  There are
\* two exceptions: a route that loses its last endpoint after a Bind or Unbind that
\* found it mapped forgets that, and a pool that is unbound with two members keeps
\* its balance mode and monitor names (processRouteAdd, processRouteRemove,
\* processRouteBind, processRouteUnbind, processBrokerDataGroup).
BindingsInEffect ==
    Quiet =>
       \A uri \in RouteURI \ crossed :
          LET here == {id \in DOMAIN claims : claims[id].uri = uri}
          IN  settled[uri] # "reverted" =>
                 /\ here \subseteq Gone => NoneInEffect(uri)
                 /\ \A id \in here \cap (Bound \ lost) :
                       claims[id].plan \in PlansOf[start] => InEffect(uri, claims[id].plan)

\* What the file says of the bindings is what the map says, whenever no update is
\* on its way and the last write did not fail: removing a mapping before queueing
\* the update, and adding it before, leaves the last word to a write that follows
\* (Bind, Unbind, populateBrokerDataGroup).
FileFollowsMap == Quiet /\ file.written /\ ~writeFailed => file = Group(bindMap)

\* Once no update is on its way and the driver has applied the file, the BIG-IP has
\* every binding that the platform has an answer for, so that a restart loses none,
\* but for those already lost and unless the last write of the file failed, which
\* nothing repeats (createResources, process, Run).
BindingsPersist ==
    Quiet /\ ~writeFailed /\ (file.written => device = file) =>
       Bound \ lost \subseteq DOMAIN device.records
=============================================================================
