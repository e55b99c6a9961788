------------------------------ MODULE F5Router ------------------------------
(***************************************************************************)
(* The F5Router of f5router.go: the producers' UpdateRoute, the work queue *)
(* and the one worker goroutine that applies each update to the resource   *)
(* maps and, when it finds the queue empty, writes the whole configuration *)
(* to the file the driver reads.                                           *)
(*                                                                         *)
(* UpdateRoute is called by any number of goroutines (the route registry,  *)
(* its pruning loop, the TCP routing table, the service broker); it may    *)
(* fall between any two steps of the worker.  The worker's steps are those *)
(* the work queue's lock separates: Get and the handler, which touches     *)
(* only what the worker owns, Len, the write of the file, and Done.        *)
(***************************************************************************)
EXTENDS Tier2VS, WorkQueue, PoolMembers

CONSTANTS
    Uri,            \* HTTP routes
    RoutePort,      \* TCP routes
    ObjectName,     \* makeObjectName and createTCPObjectName
    Endpoint,       \* backends, and the pool members made from them
    MultiWildcard,  \* the routes with more than one "*"
    NoAddress,      \* the endpoints with an empty address
    PlanID,         \* plan ids a bind may name
    plansMap,       \* the broker's plans: which settings each one has
    Default,        \* the value of a setting that comes from the config
    MaxQueue        \* bound: updates waiting in the queue

\* What a plan may set: the virtual's profiles, the pool's balance mode, the
\* pool's monitor names, and monitors of its own to be created.
Setting == {"profiles", "balance", "monitorNames", "monitors"}

HttpItem ==
    [op : {"Add", "Remove"}, uri : Uri, endpoint : Endpoint]
        \cup [op : {"Bind"}, uri : Uri, planID : PlanID]
        \cup [op : {"Unbind"}, uri : Uri]

TcpItem == [op : {"Add", "Remove"}, routePort : RoutePort, member : Endpoint]

ASSUME RouterAssumption ==
    /\ Name = {ObjectName[u] : u \in Uri}
    /\ DOMAIN ObjectName = Uri \cup RoutePort
    /\ \A x, y \in DOMAIN ObjectName : ObjectName[x] = ObjectName[y] => x = y
    /\ Uri \cap RoutePort = {}
    /\ MultiWildcard \subseteq Uri /\ NoAddress \subseteq Endpoint
    /\ IsMap(plansMap, PlanID, SUBSET Setting) /\ Default \notin PlanID
    /\ \A p \in DOMAIN plansMap :
          "monitors" \in plansMap[p] => "monitorNames" \in plansMap[p]
    /\ MaxQueue \in Nat
    /\ Item \subseteq HttpItem \cup TcpItem /\ Hashed = Item \cap TcpItem

VARIABLES
    pc,                \* the worker: "starting", "get", "len", "write", "done"
                       \* or "stopped"
    item,              \* the update the worker is processing, as far as Done can
                       \* tell it from others
    pools,             \* poolResources
    profiles,          \* virtualResources: the profiles of each HTTP virtual
    tcpVirtuals,       \* virtualResources: the names of the TCP virtuals
    rules,             \* the keys of r and wildcards
    monitors,          \* monitorResources: the plan each pool's come from
    unmapped,          \* unmappedResourcesMap: the plan each entry comes from
    file,              \* the configuration file: with or without resources
    current,           \* history: the file holds the resources as they are now
    writeFailed,       \* history: the last write of the file failed
    wanted,            \* history: <<route, endpoint>> whose last update is Add
    refused,           \* history: those whose Add the worker gave up
    scarred,           \* history: pools unbound while they had two members
    crossed            \* history: TCP <<route, endpoint>> updated while the
                       \* opposite update was still queued or in progress

resourceVars == <<pools, profiles, tcpVirtuals, rules, monitors, unmapped>>
fileVars == <<file, current, writeFailed>>
historyVars == <<wanted, refused, scarred, crossed>>
routerVars == <<pc, item, resourceVars, fileVars, historyVars>>
vars == <<tier2Vars, queueVars, routerVars>>

NoItem == [op |-> "none"]

PoolResource ==
    [members : Seq(Endpoint), balance : PlanID \cup {Default},
     monitorNames : PlanID \cup {Default}]
-----------------------------------------------------------------------------
(***************************************************************************)
(* Resources                                                               *)
(***************************************************************************)

\* createResources of httpUpdate.go fails for an endpoint without an address.
CanCreate(e) == e \notin NoAddress

\* Variant of DefaultPool that does not take the balance mode from the config.
DefaultPoolNoMode(members) ==
    [members |-> members, balance |-> "", monitorNames |-> Default]

DefaultPool(members) ==
    [members |-> members, balance |-> Default, monitorNames |-> Default]

Sets(p, setting) == p \in DOMAIN plansMap /\ setting \in plansMap[p]

\* UpdateResources with the resources CreatePlanResources makes from plan p:
\* only what the plan sets is overwritten.
UpdatePool(pool, p) ==
    [pool EXCEPT !.balance = IF Sets(p, "balance") THEN p ELSE @,
                 !.monitorNames = IF Sets(p, "monitorNames") THEN p ELSE @]

UpdateProfiles(old, p) == IF Sets(p, "profiles") THEN p ELSE old

\* Variant of addPool that adds nothing to a pool that exists.
addPoolOnce(ps, n, pool) == IF n \in DOMAIN ps THEN ps ELSE Put(ps, n, pool)

addPool(ps, n, pool) ==
    IF n \in DOMAIN ps
    THEN [ps EXCEPT ![n].members = AddMembers(@, pool.members)]
    ELSE Put(ps, n, pool)

\* Variant of removePool that leaves an empty pool behind.
removePoolNever(ps, n, members) == [ps EXCEPT ![n].members = members]

\* removePool's effect when members are what is left of pool n.
removePool(ps, n, members) ==
    IF members = <<>> THEN Drop(ps, n) ELSE [ps EXCEPT ![n].members = members]

\* A route is mapped when it has both a pool and a virtual.
Mapped(n) == n \in DOMAIN pools /\ n \in DOMAIN virtuals
-----------------------------------------------------------------------------
(***************************************************************************)
(* The handlers of process                                                 *)
(***************************************************************************)
refuseAdd(u, e) ==
    /\ refused' = refused \cup {<<u, e>>}
    /\ UNCHANGED <<resourceVars, scarred>>

processRouteAdd(u, e) ==
    LET n == ObjectName[u]
        plan == IF n \in DOMAIN unmapped THEN unmapped[n] ELSE Default
    IN  \/ /\ u \in MultiWildcard \/ ~CanCreate(e)
           /\ refuseAdd(u, e)
           /\ UNCHANGED tier2Vars
        \/ /\ u \notin MultiWildcard /\ CanCreate(e)
           /\ assignVSPortFails(n)
           /\ refuseAdd(u, e)
        \/ /\ u \notin MultiWildcard /\ CanCreate(e)
           /\ assignVSPort(n)
           /\ monitors' = IF Sets(plan, "monitors") THEN Put(monitors, n, plan)
                                                    ELSE monitors
           /\ pools' = addPool(pools, n, UpdatePool(DefaultPool(<<e>>), plan))
           /\ profiles' = IF n \in DOMAIN virtuals THEN profiles
                          ELSE Put(profiles, n, UpdateProfiles(Default, plan))
           /\ rules' = rules \cup {u}
           /\ refused' = refused \ {<<u, e>>}
           /\ UNCHANGED <<tcpVirtuals, unmapped, scarred>>

processRouteRemove(u, e) ==
    LET n == ObjectName[u]
        left == RemoveMember(pools[n].members, e)
    IN  /\ refused' = refused \ {<<u, e>>}
        /\ UNCHANGED <<tcpVirtuals, unmapped>>
        /\ \/ /\ u \in MultiWildcard \/ ~CanCreate(e) \/ n \notin DOMAIN pools
              /\ UNCHANGED <<tier2Vars, pools, profiles, rules, monitors, scarred>>
           \/ /\ u \notin MultiWildcard /\ CanCreate(e) /\ n \in DOMAIN pools
              /\ pools' = removePool(pools, n, left)
              /\ IF left = <<>>
                 THEN /\ monitors' = Drop(monitors, n)
                      /\ rules' = rules \ {u}
                      /\ profiles' = Drop(profiles, n)
                      /\ releaseVSPort(n)
                      /\ scarred' = scarred \ {n}
                 ELSE UNCHANGED <<tier2Vars, profiles, rules, monitors, scarred>>

\* Variant of BoundPools that does not put the members back.
BoundPoolsLosing(n, p) ==
    LET left == RemoveOwnFirst(pools[n].members)
    IN  IF left = <<>> THEN [pools EXCEPT ![n] = UpdatePool(@, p)]
        ELSE [pools EXCEPT ![n] = UpdatePool([@ EXCEPT !.members = left], p)]

\* Bind on a mapped route: removePool, UpdateResources and addPool all work on
\* the pool object that exists.  The plan is merged into it, and its members are
\* put back.
BoundPools(n, p) == [pools EXCEPT ![n] = UpdatePool(@, p)]

\* Variant of BoundMonitors that removes the old monitors last.
BoundMonitorsReversed(n, p) ==
    IF Sets(p, "monitorNames") THEN Drop(monitors, n) ELSE monitors

\* A plan with monitor names removes the monitors there are; then its own, if it
\* has any, are added.
BoundMonitors(n, p) ==
    IF Sets(p, "monitors") THEN Put(monitors, n, p)
    ELSE IF Sets(p, "monitorNames") THEN Drop(monitors, n)
    ELSE monitors

processRouteBind(u, p) ==
    LET n == ObjectName[u]
    IN  /\ \/ /\ Mapped(n)
              /\ pools' = BoundPools(n, p)
              /\ profiles' = [profiles EXCEPT ![n] = UpdateProfiles(@, p)]
              /\ monitors' = BoundMonitors(n, p)
              /\ UNCHANGED unmapped
           \/ /\ ~Mapped(n)
              /\ unmapped' = IF p \in DOMAIN plansMap THEN Put(unmapped, n, p)
                                                      ELSE unmapped
              /\ UNCHANGED <<pools, profiles, monitors>>
        /\ UNCHANGED <<tier2Vars, tcpVirtuals, rules, refused, scarred>>

\* On a mapped route the pool is taken out, with whatever removePool leaves of
\* it staying behind, and a default pool with all the members is added.
processRouteUnbind(u) ==
    LET n == ObjectName[u]
        members == pools[n].members
    IN  /\ \/ /\ Mapped(n)
              /\ pools' = addPool(removePool(pools, n, RemoveOwnFirst(members)),
                                  n, DefaultPool(members))
              /\ profiles' = [profiles EXCEPT ![n] = Default]
              /\ monitors' = Drop(monitors, n)
              /\ scarred' = IF Len(members) > 1 THEN scarred \cup {n} ELSE scarred
              /\ UNCHANGED unmapped
           \/ /\ ~Mapped(n)
              /\ unmapped' = Drop(unmapped, n)
              /\ UNCHANGED <<pools, profiles, monitors, scarred>>
        /\ UNCHANGED <<tier2Vars, tcpVirtuals, rules, refused>>

processTCPRouteAdd(port, e) ==
    LET n == ObjectName[port]
    IN  /\ pools' = addPool(pools, n, DefaultPool(<<e>>))
        /\ tcpVirtuals' = tcpVirtuals \cup {n}
        /\ UNCHANGED <<tier2Vars, profiles, rules, monitors, unmapped, refused,
                       scarred>>

processTCPRouteRemove(port, e) ==
    LET n == ObjectName[port]
        left == RemoveMember(pools[n].members, e)
    IN  /\ \/ /\ n \notin DOMAIN pools
              /\ UNCHANGED <<pools, tcpVirtuals>>
           \/ /\ n \in DOMAIN pools
              /\ pools' = removePool(pools, n, left)
              /\ tcpVirtuals' = IF left = <<>> THEN tcpVirtuals \ {n}
                                               ELSE tcpVirtuals
        /\ UNCHANGED <<tier2Vars, profiles, rules, monitors, unmapped, refused,
                       scarred>>

handle(i) ==
    \/ i \in HttpItem /\ i.op = "Add" /\ processRouteAdd(i.uri, i.endpoint)
    \/ i \in HttpItem /\ i.op = "Remove" /\ processRouteRemove(i.uri, i.endpoint)
    \/ i \in HttpItem /\ i.op = "Bind" /\ processRouteBind(i.uri, i.planID)
    \/ i \in HttpItem /\ i.op = "Unbind" /\ processRouteUnbind(i.uri)
    \/ i \in TcpItem /\ i.op = "Add" /\ processTCPRouteAdd(i.routePort, i.member)
    \/ i \in TcpItem /\ i.op = "Remove"
          /\ processTCPRouteRemove(i.routePort, i.member)
-----------------------------------------------------------------------------
(***************************************************************************)
(* The worker                                                              *)
(***************************************************************************)

\* What createResources of f5router.go puts in the file.
writtenVars == <<virtuals, profiles, tcpVirtuals, pools, rules, monitors,
                 internalDataGroup>>

\* Run, up to the start of the worker: the data group is fetched and processed.
Run(dg) ==
    /\ pc = "starting"
    /\ startTier2(dg)
    /\ pc' = "get"
    /\ UNCHANGED <<queueVars, item, resourceVars, fileVars, historyVars>>

processItem ==
    /\ pc = "get"
    /\ Get
    /\ item' = IF Head(queue) \in Hashed THEN Head(queue) ELSE NoItem
    /\ handle(Head(queue))
    /\ current' = (current /\ UNCHANGED writtenVars)
    /\ pc' = "len"
    /\ UNCHANGED <<file, writeFailed, wanted, crossed>>

\* Variant of checkDrained that writes at the first drain only.
checkDrainedOnce ==
    /\ pc = "len"
    /\ pc' = IF queue = <<>> /\ ~firstSyncDone THEN "write" ELSE "done"
    /\ IF queue = <<>> /\ ~firstSyncDone
       THEN truncateInternalDataGroup
       ELSE UNCHANGED tier2Vars
    /\ UNCHANGED <<queueVars, item, resourceVars, file, writeFailed, historyVars>>
    /\ current' = (current /\ UNCHANGED writtenVars)

\* Variant of checkDrained that cleans up at every drain.
checkDrainedAlways ==
    LET kept   == Only(internalDataGroup, DOMAIN virtuals)
        unused == usedPorts \ Values(kept)
    IN  /\ pc = "len" /\ queue = <<>>
        /\ pc' = "write"
        /\ firstSyncDone' = TRUE
        /\ internalDataGroup' = kept /\ usedPorts' = Values(kept)
        /\ \E s \in Orders(unused) : reapedPorts' = reapedPorts \o s
        /\ recycled' = recycled \cup unused
        /\ current' = FALSE
        /\ UNCHANGED <<virtuals, holder, queueVars, item, resourceVars, file,
                       writeFailed, historyVars>>

\* queue.Len(), and the clean-up of the first drain.
checkDrained ==
    /\ pc = "len"
    /\ pc' = IF queue = <<>> THEN "write" ELSE "done"
    /\ IF queue = <<>> /\ ~firstSyncDone
       THEN truncateInternalDataGroup
       ELSE UNCHANGED tier2Vars
    /\ UNCHANGED <<queueVars, item, resourceVars, file, writeFailed, historyVars>>
    /\ current' = (current /\ UNCHANGED writtenVars)

\* The write succeeds; or it fails before the file is touched, or after it was
\* truncated.  A failure is logged.
writeConfig ==
    /\ pc = "write"
    /\ \/ file' = "resources" /\ current' = TRUE /\ writeFailed' = FALSE
       \/ UNCHANGED <<file, current>> /\ writeFailed' = TRUE
       \/ file' = "none" /\ current' = FALSE /\ writeFailed' = TRUE
    /\ pc' = "done"
    /\ UNCHANGED <<tier2Vars, queueVars, item, resourceVars, historyVars>>

finishItem ==
    /\ pc = "done"
    /\ Done(item)
    /\ item' = NoItem
    /\ pc' = "get"
    /\ UNCHANGED <<tier2Vars, resourceVars, fileVars, historyVars>>

\* Variant of quit that does not wait for the queue to drain.
quitAtOnce ==
    /\ pc = "get" /\ shuttingDown
    /\ pc' = "stopped"
    /\ UNCHANGED <<tier2Vars, queueVars, item, resourceVars, fileVars, historyVars>>

\* Get returns quit: the queue is shut down and empty.
quit ==
    /\ pc = "get" /\ shuttingDown /\ queue = <<>>
    /\ pc' = "stopped"
    /\ UNCHANGED <<tier2Vars, queueVars, item, resourceVars, fileVars, historyVars>>
-----------------------------------------------------------------------------
(***************************************************************************)
(* The environment of the worker                                           *)
(***************************************************************************)

\* The route and endpoint an Add or Remove is about.
Subject(i) == IF i \in TcpItem THEN <<i.routePort, i.member>>
                               ELSE <<i.uri, i.endpoint>>

\* The TCP updates of x that the queue or the worker still holds.
Unfinished(x) == {j \in dirty \cup processing : Subject(j) = x}

\* MaxQueue bounds the updates waiting; the code's queue is unbounded.
UpdateRoute(i) ==
    /\ Accepts(i) => Len(queue) < MaxQueue
    /\ Add(i)
    /\ IF shuttingDown \/ i.op \notin {"Add", "Remove"}
       THEN UNCHANGED <<wanted, crossed>>
       ELSE /\ wanted' = IF i.op = "Add" THEN wanted \cup {Subject(i)}
                                         ELSE wanted \ {Subject(i)}
            /\ crossed' = IF \E j \in Unfinished(Subject(i)) : j.op # i.op
                          THEN crossed \cup {Subject(i)}
                          ELSE IF Unfinished(Subject(i)) = {}
                          THEN crossed \ {Subject(i)}
                          ELSE crossed
    /\ UNCHANGED <<tier2Vars, pc, item, resourceVars, fileVars, refused, scarred>>

\* Run is signalled to stop.
Signal ==
    /\ pc \notin {"starting", "stopped"} /\ ~shuttingDown
    /\ ShutDown
    /\ UNCHANGED <<tier2Vars, routerVars>>

\* NewF5Router: writeInitialConfig writes a file without resources.
RouterInit ==
    /\ pc = "starting" /\ item = NoItem
    /\ pools = EmptyMap /\ profiles = EmptyMap /\ tcpVirtuals = {} /\ rules = {}
    /\ monitors = EmptyMap /\ unmapped = EmptyMap
    /\ file = "none" /\ current = FALSE /\ writeFailed = FALSE
    /\ wanted = {} /\ refused = {} /\ scarred = {} /\ crossed = {}

Init == Tier2Init /\ internalDataGroup = EmptyMap /\ QueueInit /\ RouterInit

Worker ==
    \/ \E dg \in CachedDataGroups \cup {EmptyMap} : Run(dg)
    \/ processItem \/ checkDrained \/ writeConfig \/ finishItem \/ quit

Next ==
    \/ Worker
    \/ \E i \in Item : UpdateRoute(i)
    \/ Signal

Spec == Init /\ [][Next]_vars

\* The goroutine of Run and the worker it starts wait for nothing but an item in
\* the queue, given that the BIG-IP answers the fetch in the end and that the
\* driver lets go of the file's lock: the Go scheduler runs each of their steps.
FairSpec == Spec /\ WF_vars(Worker)
-----------------------------------------------------------------------------
(***************************************************************************)
(* Properties                                                              *)
(***************************************************************************)

\* The types of the worker's state and of the resource maps.
RouterTypeOK ==
    /\ pc \in {"starting", "get", "len", "write", "done", "stopped"}
    /\ item \in Item \cup {NoItem}
    /\ IsMap(pools, Range(ObjectName), PoolResource)
    /\ IsMap(profiles, Name, PlanID \cup {Default})
    /\ tcpVirtuals \subseteq {ObjectName[p] : p \in RoutePort}
    /\ rules \subseteq Uri
    /\ IsMap(monitors, Name, PlanID)
    /\ IsMap(unmapped, Name, PlanID)
    /\ file \in {"none", "resources"} /\ current \in BOOLEAN /\ writeFailed \in BOOLEAN
    /\ wanted \subseteq (Uri \cup RoutePort) \X Endpoint
    /\ refused \subseteq Uri \X Endpoint
    /\ scarred \subseteq Name
    /\ crossed \subseteq RoutePort \X Endpoint

\* The handlers keep the maps in step: every HTTP virtual has its pool, rule and
\* profiles and every TCP virtual its pool, there is nothing else, no pool is
\* empty, and monitors belong to a pool that exists.
Coherent ==
    /\ DOMAIN pools = DOMAIN virtuals \cup tcpVirtuals
    /\ DOMAIN virtuals = DOMAIN profiles
    /\ DOMAIN virtuals = {ObjectName[u] : u \in rules}
    /\ DOMAIN monitors \subseteq DOMAIN virtuals
    /\ \A n \in DOMAIN pools : pools[n].members # <<>>

Members(n) == IF n \in DOMAIN pools THEN Range(pools[n].members) ELSE {}

Pending(x) == {k \in DOMAIN queue : /\ queue[k].op \in {"Add", "Remove"}
                                   /\ Subject(queue[k]) = x}

\* The updates of each route and endpoint take effect in the order in which they
\* were asked for, whatever else is queued between them: once none is pending,
\* the endpoint is a member of the route's pool exactly when the last one was an
\* Add (which was not refused), and until then the last one pending says so.
HttpConverges ==
    \A u \in Uri, e \in Endpoint :
        LET pending == Pending(<<u, e>>)
            last == CHOOSE k \in pending : \A j \in pending : j <= k
        IN  IF pending # {}
            THEN queue[last].op = "Add" <=> <<u, e>> \in wanted
            ELSE ObjectName[u] \notin scarred =>
                    (e \in Members(ObjectName[u])
                        <=> <<u, e>> \in wanted \ refused)

\* Add and Remove of a TCP route and endpoint take effect in the order in which
\* they were asked for: once the queue and the worker are done with them, the
\* last one decides.  That is so as long as no update is made while the opposite
\* one is still queued or in progress (the queue drops an update that equals one
\* still waiting); a later update that finds neither puts things right.
TcpConverges ==
    \A p \in RoutePort, e \in Endpoint :
        <<p, e>> \notin crossed /\ Unfinished(<<p, e>>) = {} =>
            (e \in Members(ObjectName[p]) <=> <<p, e>> \in wanted)

\* A pool lists no member twice, unless Unbind found it with several members: "should
\* not add the same pool member more than once" (f5router_test.go).
MembersUnique ==
    \A n \in DOMAIN pools \ scarred : IsInjective(pools[n].members)

\* Whenever the worker waits for an update after its first drain, the file holds
\* the current resources, unless the write itself failed: an update that arrives
\* between the worker's look at the queue's length and its next Get is written
\* in its turn.
DrainedMeansWritten ==
    pc = "get" /\ queue = <<>> /\ firstSyncDone /\ ~writeFailed
        => file = "resources" /\ current

\* Only a consistent configuration is ever written: a "one to one mapping of tier
\* 2 VIPs to data group records with the same name", and each VIP with its pool
\* and its rule.
WritesConsistent ==
    pc = "write" => /\ firstSyncDone
                    /\ internalDataGroup = virtuals
                    /\ DOMAIN virtuals = {ObjectName[u] : u \in rules}
                    /\ DOMAIN virtuals \subseteq DOMAIN pools

HasMonitors(n) ==
    LET p == pools[n].monitorNames
    IN  Sets(p, "monitors") => n \in DOMAIN monitors /\ monitors[n] = p

\* A pool that names monitors of a plan has that plan's monitors created for it,
\* unless the route still has another plan waiting in unmappedResourcesMap, or
\* Unbind found it with several members.
MonitorsCreated ==
    \A n \in DOMAIN pools \ scarred :
        HasMonitors(n) \/ (n \in DOMAIN unmapped
                              /\ unmapped[n] # pools[n].monitorNames)

\* Every Add takes effect in the end, unless it is withdrawn or refused: the
\* queue never loses or starves an update, however many are added behind it.
AddsTakeEffect ==
    \A x \in Uri \cup RoutePort, e \in Endpoint :
        <<x, e>> \in wanted ~> \/ <<x, e>> \notin wanted
                               \/ <<x, e>> \in refused \cup crossed
                               \/ e \in Members(ObjectName[x])
                               \/ ObjectName[x] \in scarred

\* Once no more updates arrive, the worker comes to rest with every change in
\* the file, unless the last write failed.
WrittenWhenQuiet ==
    <>[](queue = <<>>) =>
        <>[](/\ pc \in {"get", "stopped"}
             /\ firstSyncDone => current \/ writeFailed)
=============================================================================
