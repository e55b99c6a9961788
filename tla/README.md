# A verification of cf-bigip-ctlr in TLA+

The controller keeps a BIG-IP in step with the routes of a Cloud Foundry. It
hears of routes from NATS and from the routing API, and of plans from a service
broker, turns them into BIG-IP resources and writes these to a file, which a
separate driver process applies. This directory models the parts of it that
carry state, model-checks them with TLC on small instances and proves the safety
properties among those with TLAPS for instances of any size.

All line numbers are those of the sources under `src/`; `PROJECT.json` maps every
definition to the lines it stands for, about a third of the implementation.

## 1. Inventory

| Part | State | Operations | What is hard about it |
|---|---|---|---|
| F5Router worker (`f5router/f5router.go`) | resource maps, the plans of unmapped routes, first-drain flag, the file | Add, Remove, Bind, Unbind of HTTP routes, Add and Remove of TCP routes, drain check, write, start, shutdown | producers race with the drain check and the write; handlers share objects by pointer; writes fail |
| Tier-2 allocator (same file) | data group, used and reaped addresses, search position | assign, release, truncate at the first drain, recover from the BIG-IP | restarts with a data group of another process; three code paths keep two lists of addresses |
| Work queue (`vendor/k8s.io/client-go/util/workqueue`) | queue, dirty set, processing set | Add, Get, Done, ShutDown | merges equal items, postpones an item in progress |
| Config writer (`f5router/configwriter.go`) | the file | write | truncates first, may fail afterwards |
| Policy rules and names (`f5router.go`, `bigipResources/`, `route/uris.go`) | none | make, sort, match | the order of strings stands for "most specific first" |
| Service broker (`servicebroker/`, `f5router.go`) | plans, bind map, data group, what plans set on routes | Bind, Unbind, recovery | requests race each other, the recovery and the endpoints; what was acknowledged may not be on the BIG-IP yet |
| Route registry (`registry/registry.go`) | trie of pools, pruning status | Register, Unregister, prune, suspend, look up | outages of NATS, late messages, notifications sent only for what is new |
| Trie (`registry/container/trie.go`) | nodes and pools | Find, Insert, Delete, Snip, MatchUri | cutting dead branches and nothing else, during a walk |
| Endpoint pool (`route/pool.go`) | slice, index by address and id | Put, Remove, PruneEndpoints, MarkUpdated | reordering deletes while a prune walks; shared ids |
| NATS subscriber (`mbus/subscriber.go`) | the client's queue, the message in work | register, unregister, start message | lost messages, several URIs per message |
| TCP routing table (`routingtable/routingtable.go`) | backends by port | upsert, delete, prune | late events, 64-bit arithmetic of the ttl |
| Route fetchers (`routefetcher/`) | last snapshot, event channel, subscription | poll, event, subscribe, retry | two goroutines share the snapshot without a lock; a snapshot is old when it is applied |
| Process (`main.go`, `controller/`, `f5router/driver.go`, `common/component.go`) | the ordered group, the listener, the child | set-up, start, signal, stop | a signal or an outage at any moment of the start-up |
| NATS connection (`main.go`) | queue of callbacks, the client's lock | disconnected, reconnected, closed | callbacks block on channels and block each other; a full queue blocks the client with its lock held |
| Configuration (`config/config.go`, `validateConfig`) | none | Process, validate | defaults that depend on other options |

How they interact: subscriber and HTTP fetcher call the registry, the TCP fetcher
calls the routing table, and the broker's handler calls the router. Registry,
table and broker end in `UpdateRoute`, which puts an update into the work queue.
One worker goroutine takes updates out, changes the resource maps and, when it
finds the queue empty, writes everything to the file. `main` starts all of them in
order and stops them in reverse.

## 2. Modules

| Module | Models | Extends |
|---|---|---|
| `Maps`, `ModificationTag` | Go maps; the order of the routing API's tags | |
| `Tier2VS` | the tier-2 allocator; it is also an abstract specification the router refines | `Maps` |
| `WorkQueue`, `PoolMembers` | the work queue; the member slices of `addPool` and `removePool` | |
| `F5Router` | the worker, its handlers and the file | `Tier2VS`, `WorkQueue`, `PoolMembers` |
| `RouteStore` | abstract: what registry and table promise to those who feed them and to the router | `Maps`, `ModificationTag` |
| `RoutingTable` | the TCP table and its pruning cycle | `Maps`, `ModificationTag` |
| `EndpointPool`, `Trie` | the data structures of the registry, as operators | `Maps`, `ModificationTag` |
| `RouteRegistry` | the registry and its pruning cycle | `Trie` |
| `Subscriber` | applications, NATS and the subscriber over the registry | `RouteRegistry` |
| `RouteFetcher` | the two goroutines of a fetcher and an external routing API | `Maps` |
| `TCPFetcher` | the TCP fetcher over the table | `RouteFetcher`, `RoutingTable` |
| `ServiceBroker` | the broker, its map and data group, the plans on the routes, restarts | `Maps`, `PoolMembers` |
| `Config`, `RouterConfig` | `Process`; `validateConfig` and the virtual servers, as operators | |
| `NatsClient` | the connection to NATS and its callbacks | |
| `CtlrProcess` | `main`, the group, every member's `Run`, the driver's child | `Config`, `RouterConfig`, `NatsClient` |
| `RouteUri`, `RoutePolicy`, `RouteLookup` | URIs and object names; the policy; the registry's look-ups, as operators | |
| `*Proofs` | theorems and proofs, section 6 | |
| `MC*` | constants for TLC | |

A definition introduced by "Variant of" is the code with a plausible bug in it.
No specification uses one; they serve to confirm that the properties notice.

### Tier2VS

`virtuals` is the part of `virtualResources` that matters here: the destination
of each route's virtual server. `internalDataGroup`, `usedPorts`, `reapedPorts`
and `holder` are the fields of the same names; `recycled` is a history variable.
`assignVSPort` and `assignVSPortFails` are the two outcomes of the function, with
`takeReaped` and `takeNext` for the two sources of a new address. `Candidates`
says in closed form which addresses the code's search looks at, including its
peculiarity that the first port of every ip after the first is skipped.
`releaseVSPort` is the tail of `processRouteRemove`. Its `delete` from `usedPorts`
uses a name where the keys are addresses, so it deletes nothing, and so does the
model. `startTier2` is a restart at any moment: memory is new, and the data group
found is any of `CachedDataGroups`. Go's map iteration in
`truncateInternalDataGroup` is a free choice of order (`Orders`), here as in the registry's
walk and in the broker's recovery.

### WorkQueue and F5Router

The queue's items are the updates. Two TCP updates with equal fields are one key
of the queue's Go maps (`Hashed`); an HTTP update holds a logger session made for
it alone and equals no other.

The worker runs through `pc`: `starting`, `get` (Get and the whole handler), `len`
(the look at the queue's length, with the truncation of the first drain),
`write`, `done`. Each boundary is one where the queue's lock lets a producer in;
the handlers touch nothing that another goroutine touches. `UpdateRoute` and
`Signal` may happen between any two of these steps.

Resources are abstracted to what the handlers tell apart: a pool is its members,
and where its balance mode and monitor names come from (the configuration or a
plan); a rule is its URI; the file is `resources` or `none`, with `current` saying
whether what it holds is what is in memory. `removePool` compares with a member of
the slice it is shrinking, because Bind and Unbind pass it the pool object it
looks up; `PoolMembers` has that loop in closed form, and `MCF5Router` compares the
closed form with the loop for all slices up to length six.

`Run` happens once. A restart of the whole router is a new behaviour, which starts
from any of `CachedDataGroups`; that a data group was written by an earlier run
is not assumed. `wanted`, `refused`, `scarred`, `crossed`, `current` and
`writeFailed` are history variables: no action reads them.

### RouteStore, RouteRegistry, RoutingTable

`RouteStore` has two variables: the members of a store with their tags, and the
members the router has heard of. Members are announced, renewed by newer states,
withdrawn, or refused. Registry and table instantiate it with what their own
state amounts to (`MemberTags`) and with `told`, what their updates to the router
add up to.

`byURI` is the registry's trie: the set of its nodes, each named by the path to it,
and the pools some of them hold. `Delete` and `Snip` cut branches in closed form. A
pool is the pair of slice and index that the code keeps, with the position each
element notes for itself. Time is an age per element, which `Tick` advances up to
`MaxAge`, one more than any threshold. `Register`, `Unregister` and
`pruneStaleDroplets` are the three methods that take the registry's lock, each from
the lookup to the last update sent. `sinceBack` is a history variable. The empty URI
is left out (`RegistryAssumption`): the registry keeps an endpoint registered for it, but
`updateRouter` has no update for it, so the router is never told.

`entries` maps a port to its backends, each with tag, ttl and age. `expired` computes
`-ttl * time.Second` as the code does: for the default ttl, a duration already, the
product needs more than 64 bits, and its sign after the wrap-around is computed in
four digits of 16 bits. `MCRoutingTable` compares that sign with the decimal value
for intervals of 1 to 40 seconds. An age counts seconds up to `MaxAge`, which exceeds
every ttl; the model does not tell apart moments within a second.

### Subscriber

Applications start, repeat themselves, stop and crash. What they publish goes into
`pending`, the queue of the NATS client, unless NATS is down or the queue is full.
The callback takes a message (`Receive`), drops it if it belongs to another group or
its route service is not https, and registers or unregisters its URIs one by one
(`registerEndpoint`, `unregisterEndpoint`, with `NextUri`): `handling` is what is left of
the message. Pruning, outages and the clock of `RouteRegistry` come in between.

### RouteFetcher and TCPFetcher

Two goroutines, `run` and `events`, each with a `pc` and with `work`, the snapshot it
applies and the calls to the store that are left. `endpoints` is read in
`deleteEndpointsDiff`, assigned in `endpointsAssigned` and read again in
`endpointsRange`, by both goroutines and without a lock. An access to the slice
header is one step: a torn read of it is not modelled. The routing API (`api`,
`stream`) and the token's validity are external. `TCPFetcher` makes the calls to the
table, one per step, and interleaves its pruning.

### ServiceBroker

Each of the goroutines that serve requests goes through the critical sections of
`Bind` (map, then update) and `Unbind` (look-up, removal, update). `phase` is where the
router's `Run` is, from the fetch of the data group to the worker; requests are
served, and endpoints come and go, in all phases. `file` and `device` are the broker's
data group in the file and on the BIG-IP.

`processItem` is the handler of the update at the head of the queue: `processRouteAdd`,
`processRouteRemove`, `processRouteBind` or `processRouteUnbind`. A mapped route is the
members of its pool and, for each of the three things a plan may set, where it comes from:
a plan or the configuration. `unmapped` is `unmappedResourcesMap`, which only a Bind or an
Unbind of a route without endpoints changes. `writeConfig` succeeds, fails before it
touches the file, or fails after the file was truncated; each is only logged.

`claims` is the platform's view, and also what limits it: it uses a bind id once, has one
binding to a route at a time and repeats only unbinds it has no answer to. `decided` is the
plan of the last Bind of a route that was processed, if no Unbind came after it. `lost`,
`crossed`, `settled` and `scarred` are history variables that name the cases in which the
code breaks its promise; see section 3.

### NatsClient and CtlrProcess

`ach` is the client's channel of callbacks and `callback` where the running one waits. The
client sends to the channel while it holds its lock, `nc.mu`: `sending` is what the holder
has still to send. `ConnectedUrl` in `ReconnectedCB`, the subscriber's `Publish` and the
`Status` that a pruning cycle asks for (`calls`) all need that lock.

`main` walks through the set-up; each step may end the process (`Fatal`, `Panics`):
`configure` alone has a panic for text that is no YAML, for a machine without an address
and for a configuration that `Process` refuses, and a `Fatal` of dropsonde after it.
`group`, `at` and `signals` are ifrit's ordered group, read from its vendored source:
it starts a member when the one before is ready, and on a signal, or when a member
ends, signals the last one started and goes backwards. `member` says how far each
`Run` is and `child` what became of the driver's process. `status` is how the process
ended; nothing moves afterwards, except that a child that was left behind may end.

### Operators checked against a definition of their purpose

These are pure functions, so they have no actions: an `ASSUME` of an MC module
compares them with what they are for, over all small inputs.

- `LookupChecked` (`MCRouteRegistry`): for all sets of up to three of eleven routes and
  eleven requests, `Lookup` finds a route exactly when one serves the request, and
  then the one whose host fits best and whose path is longest.
- `PolicyChecked` (same): of the routes without a wildcard the policy picks the
  longest that covers a request, wildcards only serve what no other route covers,
  and different routes have different object names.
- `ProcessedIsUsable` (`MCCtlrProcess`): a configuration that `Process` accepts has what
  `main` relies on, and processing it again changes nothing.
- `BigIPChecked` (same): what `validateConfig` accepts yields virtual servers with
  destination, policy and the tcp profile, on destinations of their own.

## 3. Runs

| Run | Checks | Result |
|---|---|---|
| `tier2` | `Tier2TypeOK`, `RecordPerVirtual`, `AddressesInRange`, `SharedOnlyIfRecycled` | holds |
| `router` | `RouterTypeOK`, `Coherent`, `HttpConverges`, `DrainedMeansWritten`, `WritesConsistent`, and the refinement `Tier2Spec` | holds |
| `broker` | `HttpConverges`, `MembersUnique`, `MonitorsCreated` | holds |
| `tcp` | `QueueOK`, `TcpConverges`, `AddsTakeEffect`, `WrittenWhenQuiet` | holds |
| `registry` | `RegistryTypeOK`, `PoolsConsistent`, `NoDeadBranches`, `OutageForgiven`, and the refinement `RegistryIsStore` | holds |
| `table` | `TableTypeOK`, `NoEmptyEntries`, `SilentBackendsGo`, and the refinement `TableIsStore` | holds |
| `fetcher` | `FetcherTypeOK`, `TableFollowsApi` | holds |
| `sources` | `OnlyAcceptedApps`, `RegistryFollowsApps` | holds |
| `sbroker` | `BrokerTypeOK`, `BindingsKnown`, `BindingsInEffect`, `FileFollowsMap`, `BindingsPersist` | holds |
| `process` | `ProcessTypeOK`, `HealthyMeansListening`, `DependenciesMet`, `ShutdownCompletes`, `CallbacksServed` | holds |
| `router_shared` | `NoSharedDestination` | violated |
| `table_ttl` | `ExpiredMeansPassed` | violated |

What they show, beyond what the comment on each property says:

- **The router's file is not stale at rest** (`DrainedMeansWritten`,
  `WrittenWhenQuiet`), from the first drain on and unless the last write failed: a
  failure is logged, and nothing is retried before the next update. An update that
  arrives between the look at the queue's length and the write is taken by the next
  Get and leads to a write of its own.
- **Updates of HTTP routes take effect in order** (`HttpConverges`), whatever other
  updates, binds and unbinds are queued between them, with two exceptions that the
  property states: additions the router refuses, and pools that an Unbind found
  with several members. Of TCP routes they do unless an update is made while the
  opposite one is queued or in progress (`TcpConverges`).
- **The router refines the allocator** (`Tier2Spec`), and **registry and table refine one
  abstract store** (`RegistryIsStore`, `TableIsStore`): they tell the router exactly
  what they hold, although they speak only of members that are new, and late states
  never replace newer ones.
- **The table follows the API** (`TableFollowsApi`) in spite of the list two goroutines
  share, lost events and old snapshots. It is up to date again and again, not for
  good: an upsert with the tag the table already has does not renew the backend's
  age, so a backend that every poll confirms expires and is added again. What a
  lost Delete event leaves behind goes by its ttl; the run gives every route one.
- **The registry follows the applications** (`RegistryFollowsApps`) once NATS stays up,
  lost messages and crashed applications included.
- **Bindings are kept** across restarts (`BindingsKnown`, `BindingsPersist`), with the
  exceptions that `lost` and `crossed` name: a bind that had not reached the BIG-IP when
  the controller died, or that was made while `Run` was still fetching and is overwritten
  with the map; an unbind that was not written before a restart, or that was made while
  `Run` was fetching, whose plan comes back; and two overlapping unbinds of one id, the
  second of which may strip a plan bound meanwhile. A binding whose plan is gone keeps its
  record. A write that fails is not repeated: until the next update, the file may lack
  the bindings made since the last one.
- **Plans are in effect** (`BindingsInEffect`) on routes with and without endpoints,
  whichever came first, with two exceptions that the run reaches. A route that loses its
  last endpoint after it was bound or unbound while mapped forgets that (`reverted`): its
  next endpoint finds what was in `unmappedResourcesMap` before. And a pool of several
  members keeps the balance mode and monitor names of the plan it is unbound from
  (`scarred`). Without either exception, or without `crossed`, `lost` or `writeFailed` in
  the properties that name them, TLC finds a counterexample.
- **/health is right on new connections** (`HealthyMeansListening`): it says yes only while
  subscriber and fetchers are at work. A connection accepted before the listener was closed
  is told yes until the process ends, while the group stops the members behind the
  controller.
- **The process stops when told to** (`ShutdownCompletes`), unless the BIG-IP leaves a
  fetch of a data group without an answer for ever, which no signal interrupts, or the NATS
  client is blocked for good. It is when its channel is full: who waits for room holds
  `nc.mu`, and the callback that should make room waits for that lock in `ConnectedUrl`, or
  for a subscriber that waits for it. A pruning cycle then keeps the registry locked, and
  the controller cannot stop.
- **No callback of NATS is stuck** while there is a subscriber, unless the client is blocked
  in that way (`CallbacksServed`). With TCP routes only, nobody receives the start message,
  so the first reconnection blocks the callbacks for good, `ClosedCB` included.

### Findings

1. `router_shared`: `truncateInternalDataGroup` takes the addresses it reaps out of
   `usedPorts`, and `getAvailableVirtualAddress` hands out a reaped address without
   putting it back. After a restart such an address can go to two routes.
   `SharedOnlyIfRecycled` says that this is the only way to share one.
2. `table_ttl`: with the default interval of 30 seconds, a TCP backend without a ttl
   expires at once.

### Facts behind the exceptions

The properties that hold name the cases in which they do not. These are the
places in the code:

- Unbinding a route whose pool has two members or more lists a member twice and keeps
  the plan's balance mode and monitor names (f5router.go:1362, 1381).
- Add, Remove, Add of one TCP endpoint in quick succession can end without the
  endpoint, since the queue merges the two Adds (f5router.go:1566).
- Rules are sorted as strings, in reverse: among wildcards "*.com" comes before
  "*.b.com" and takes its requests, while the registry's `Lookup` picks the narrower
  (f5router.go:1232). The path of a route with a wildcard is dropped from its rule
  (f5router.go:1140).
- A URI without a dot has no object name, and one whose only "*" is in the path no
  rule: both end in a slice index of -1 (f5router.go:136, 1160).
- `NextWildcard` takes a dot of the path for one of the host (uris.go:21).
- A TCP route on port 80 or 443 has the destination of an HTTP virtual server
  (tcpUpdate.go:63); a profile spelled "Common/tcp" is listed twice (f5router.go:435);
  an external address with a route domain is always refused (f5router.go:787).
- A connection that breaks before `connectToNatsServer` has stored the host panics
  (main.go:448). A subscription on a connection that was closed since the start message
  fails, and with it the subscriber: the limits it sets on the subscription it has not got
  are an error that nobody looks at (subscriber.go:155).
- What is bound to a route before its first endpoint stays in `unmappedResourcesMap` when
  the mapped route is bound anew or unbound (f5router.go:1272, 1302, 1355).
- The write of the file is not tried again when it fails (f5router.go:748).
- The NATS client sends to its channel of 32 callbacks with its lock held (nats.go:1101,
  1185, 2353), and `ReconnectedCB` calls the client (main.go:468).
- A driver process that exits with 0 goes unnoticed, and a SIGTERM then makes the
  controller exit with 1 (driver.go:144, 173).

## 4. Bounds

- `tier2`: four routes compete for two ips with two ports, of which the search uses
  three, so exhaustion, reuse and the step to the next ip all occur. The data
  groups have a duplicated address, records out of the range and a record ahead of
  the first address.
- `router`: three routes and one address, so that additions fail; one route has two
  wildcards and is refused; `MaxQueue` is 2. Two waiting updates and one in
  progress are enough for an update to overtake, follow or interrupt another one.
  `NoAddress` is empty in every run: an endpoint without an address takes the same
  disjuncts of the handlers as a route with two wildcards.
- `broker`: one route, two endpoints and plans that set everything, only monitor
  names, or do not exist. Routes share nothing that a plan touches. Endpoints are
  symmetric.
- `tcp`: one port, two endpoints, `MaxQueue` 3: Add, Remove and Add of one endpoint
  can wait together.
- `registry`: three addresses at the root, so that the element moved into a gap is
  itself moved or stale; two tags of one endpoint, two ids each shared by two
  endpoints, thresholds shorter than the default; two routes below the root that
  branch off at different depths, one of them under a node without a pool.
- `table`: one port, since ports do not interact; three backends, three tags, a ttl
  of one second or none; `MaxAge` is 2. The interval is the code's default, 30.
- `fetcher`: one route, which the API changes three times, enough to create, change,
  delete and create it again while old snapshots and events are under way. One event
  waits in the stream (`MaxEvents`) and one in the channel (`ChannelSize`, 1024 in
  the code), so that the event goroutine blocks. Routes do not interact in the table.
- `sources`: an application with two URIs, one a prefix of the other, and one of
  another group; `PendingLimit` 2 (131072 in the code), so that the queue overflows.
- `sbroker`: two bindings, one route, two goroutines, two endpoints, two starts, the second
  with one plan less: two requests overlap, and the plan of a binding goes. One plan sets
  everything, the other only profiles. Two updates of endpoints (`MaxUpdates`) are enough
  to map a route before, between or after its binds and to unmap it again, or to unbind it
  with two members. `PlansOf` bounds the number of starts. Bind ids, endpoints and
  goroutines are symmetric; no property is temporal. Once the bind ids are used up and the
  updates done, the system rests, so deadlock is not checked.
- `process`: one configuration per routing mode, with and without routing API, router
  group, broker and the option that makes pruning ask for the status, and three that are
  refused. Three outages, and room for two callbacks (`asyncCBChanSize`, 32 in the code), so
  that the channel fills up behind a callback that waits and the client blocks. A process
  may end, so deadlock is not checked.

Deadlock is checked in all other runs. The router's worker may stop, but the
producers can still call `UpdateRoute`.

## 5. Fairness

- `FairSpec` of `F5Router`: weak fairness of the worker goroutine. It waits only for
  the queue, given that the BIG-IP answers the fetch at the start and that the
  driver releases the file's lock. Nothing is assumed of the producers.
- `FairTableSpec` of `RoutingTable`: time passes, and the goroutine of
  `StartPruningCycle`, an endless loop over a ticker, runs again and again.
- `FairFetcherSpec`: the same, and `Run`'s goroutine never stands still: until the
  signal, a poll succeeds again and again, since select picks among ready cases at
  random and the API is not down for ever. Nothing is assumed of the event goroutine.
- `FairSubscriberSpec`: clock and pruning as above, stated with the history variable
  `timer`, since TLC cannot evaluate ENABLED of the pruning walk in reasonable time;
  the callback returns from every message; an application that keeps running repeats
  itself (the protocol on NATS wants that) and does not find the queue full each
  time. Nothing is assumed of NATS; `RegistryFollowsApps` has its premise on it.
- `FairSpec` of `CtlrProcess`: weak fairness of everything the code does by itself; the
  scheduler runs every goroutine that can go on, calls to the UAA and the routing API return
  and the child obeys a signal. Nothing is assumed of NATS, of signals, or of the BIG-IP: the
  fetch of a data group may go on for ever.

`ServiceBroker` has no fairness: its properties are invariants of the states in which
nothing is on its way.

## 6. Proofs

Every invariant, action property and refinement that a passing run checks is also a
theorem, for any values of the constants that satisfy the named assumptions of the
modules. `PROJECT.json` lists the theorems; `<Name>Inv` is in each case the inductive
invariant.

**The allocator and the resource maps**, `F5ResourceProofs` (`Tier2Assumption`: any finite
set of routes, any range, any data groups found at a start). `Tier2TypeCorrect`,
`Tier2Records`, `Tier2Range`, `Tier2Sharing` follow from `Tier2Inv`, which adds `Accounted`.
`SharedOnlyIfRecycled` speaks of virtual servers only and is not inductive: a step may
hand out an address that is in no virtual server but in a record, or twice in
`reapedPorts`. `Accounted` says that an address truncation did not reap is known to
`usedPorts` and is recorded for one name or reaped once, never both. The second half has
what the closed forms of `addPool`'s and `removePool`'s loops keep, and one lemma per
handler: it keeps `ResourceInv`, that pools, virtual servers, rules and records are in
step, and is a step of the allocator.

**The worker**, `F5RouterProofs` (`RouterAssumption` and those of the modules it extends: any
routes, endpoints, plans, ranges and data groups). `RouterInv` is the conjunction of
`Tier2Inv`, `ResourceInv`, `QueueInv` and `WorkerInv`. The last two are what
`DrainedMeansWritten` lacks: from Get to Done the worker's item is in the processing set,
so nothing equal to it is in the queue; a write is only under way after the first drain;
and whenever the worker is between Done and Get with an empty queue, the file is current
unless the last write failed. From it follow `RouterTypeCorrect`, `RouterCoherence`,
`RouterQueue`, `RouterWrites` and `RouterDrained`. `RouterImplementsTier2` shows that `Spec`
implies `Tier2Spec`, the two sharing their variables; `RouterSharing` uses it to carry the
allocator's theorem over to the router. `RouterMembersUnique` and `RouterMonitors` come
from `PoolInv`, relative to `RouterInv`, with one lemma per handler.

**Updates take effect in order**, `F5ConvergeProofs`: `RouterHttpConverges` and
`RouterTcpConverges`, for queues of any length.

- HTTP updates are all different, so the queue holds them in the order of the calls.
  `HttpInv` says of each route and endpoint that the last queued update about it, if there
  is one, says what the last call said (`LastSays`), and otherwise that the pool already
  agrees with that call (`Settled`), with the exceptions of the property. It also needs
  that an addition the router always refuses never gets into a pool (`HopelessOut`).
- Equal TCP updates are merged. `TcpInv` says, of a port and endpoint that are not
  crossed, that every unfinished update about them says what the last call said, and that
  the pool agrees with the last call when none waits.
- Both rest on what each handler does to the set of a pool's members (the `Membership`
  lemmas): it changes one pool only, and `removePool` loses no member but the one it is
  asked to remove, even where it compares with the slice it is shrinking. That is a fact
  about a loop, proved for slices of any length by counting matches (`Rank`) and taking a
  least counterexample (`NatMin`, from the library's `WFMin`).

**The TCP table and its fetcher**, `RoutingTableProofs`. `TableAssumption` allows any ports,
backends, tags and ttls; `FetcherAssumption` any guids and any room in stream and channel.

- `TableTypeCorrect`, `TableAgreement`, `TableNoEmptyEntries`: the conjunction `TableInv` of
  the three properties is inductive. Nothing about `expired` is used, so they hold in
  spite of finding 2. `TableTags`: no step replaces a backend by an older state of itself.
- `TableImplementsStore`: the table implements `RouteStore`. Each action maps to the
  abstract step its name suggests, or to `Refuse`; `TableInv` gives that the members the
  router has heard of are those of the table.
- `FetcherTypeCorrect`, and `FetcherImplementsTable`: whatever its two goroutines do to the
  snapshot they share, the fetcher calls the table only with routes and tags the table is
  specified for. `FetcherInv` types the events and snapshots on their way and where each
  goroutine is, and needs that a tag of the API has a guid it has already given out and an
  index no larger than the changes made since (`TagsIssued`), so that the next change still
  has a tag. `FetcherImplementsStore` then carries the table's refinement over. All three
  use `TCPFetcherAssumption`: a route is a port and a backend, with any ttl.

**The registry**, `TrieProofs` and `RegistryProofs` (`PoolAssumption`, `RegistryAssumption`,
`SubscriberAssumption`: any routes, endpoints, ids, tags and thresholds).

- `TrieProofs` has what the operations keep: slice and index of a pool agree through `Put`,
  `Remove` and the prune that deletes while it walks (`PoolOK`); the nodes of the trie are
  those on the way to a route and no others (`TrieOK`), which `Delete` and `Snip` keep by
  cutting just above the last node that is still needed.
- `RegistryInv` says that trie and pools are whole and no pool is empty, that the router
  has heard of exactly the members, and that no endpoint is older than the time since
  NATS came back. It gives `RegistryTypeCorrect`, `RegistryPools`, `RegistryBranches` and,
  with what one walk may remove, `RegistryForgives`. The walk of `pruneStaleDroplets` takes
  the nodes in any order a walk of the maps may have; `WalkKeeps` shows that each visit
  still finds its node and that only stale endpoints go.
- `RegistryImplementsStore`: the registry implements `RouteStore`.
- `SubscriberImplementsRegistry`: the subscriber uses the registry as specified, one URI at
  a time, so all of the above holds with it; and `SubscriberAccepts`, from the invariant
  that what is left of the message in work belongs to an accepted application.

**The service broker**, `ServiceBrokerProofs` (`BrokerAssumption`: any bind ids, routes,
endpoints, plans and starts, any number of requests at a time): `BrokerTypeCorrect`,
`BrokerKnows`, `BrokerInEffect`, `BrokerFile`, `BrokerPersists`. The inductive invariant of
`BrokerInvariant` has three parts. `BrokerInv` is about the bindings:

- `TypeInv`, and `FileInv`: the file follows the map, or a write failed, is under way or due.
- `ClaimsInv`: the four copies of the map and the requests in work say what the platform
  asked for, and the platform has one binding to a route at a time.
- `MapInv`: every binding acknowledged or about to be is in the map; one that was unbound is
  out of it, unless its route is crossed; before the worker runs, requests are about
  bindings that have not reached the BIG-IP.
- `EffectInv`: the updates in the queue, worked off in order, lead each route to the plan of
  its binding or to none (`Leads`). It is stated by phase, since `Run` puts the recovered
  bindings into the queue before it replaces the map.

`RouteInv` is about the routes, with one lemma per handler: what was decided for a route is
what its settings show if it is mapped (`Follows`), and what waits for its first endpoint if
the decision found it without one (`Waits`). `BrokerInEffect` joins the two at an empty
queue. `PersistInv` covers a start that has not written yet: only bindings found on the
BIG-IP have no update in the queue.

**The process**, `CtlrProcessProofs` (`ConfigurationAssumption`, `NatsAssumption`: any
configurations of the routing modes, any room for callbacks of at least two):
`ProcessTypeCorrect`, `ProcessHealth`, `ProcessDependencies`. `GroupInv` says where each
member is relative to the one the ordered group is at: ready before it, not started or
already ended behind it. `SetupInv` says which options `main` has validated at each step,
`StepsInv` which steps each member's `Run` has, and `NatsInv` bounds the waiting callbacks
by the outages so far.

### Only model-checked

- Liveness: `AddsTakeEffect`, `WrittenWhenQuiet`, `SilentBackendsGo`, `TableFollowsApi`,
  `RegistryFollowsApps`, `ShutdownCompletes`, `CallbacksServed`. They need fairness, hence
  ENABLED, which the prover does not reason about.
- The operators under "Operators checked against a definition of their purpose", the closed
  form of `removePool`'s loop against the loop itself, and the sign of the product in
  `expired` against its decimal value. The references are recursive, and the prover cannot
  use its induction theorems to say what a recursive definition computes for every input.
- The two violated properties: a counterexample is what a run is for.

## 7. Plan

The HTTP fetcher over the registry, as `TCPFetcher` is over the table. The control is in
`RouteFetcher` already, and so is most of `FetcherInv`.

## 8. Not modelled

- The endpoint iterators and `LookupWithInstance`: inherited from gorouter; the BIG-IP
  balances the load, and nothing in the controller asks for them.
- Varz, statistics, metrics and the schema of the status documents: they report, and
  nothing reads what they compute. Logging, but for the `Fatal` that ends the process.
- The BIG-IP client and the driver's program: one HTTP request, whose outcomes are
  those of the fetch, and a process that reads the file.
- The texts of iRules, the contents of the broker's catalogue and the parsing of plans,
  of the YAML configuration and of NATS messages.
- The temporary directory of the config writer, and torn reads of the file by the
  driver, which is a program of its own.
- In `F5Router`, URIs whose object name cannot be formed: `RouterAssumption` takes object
  names to be distinct, which `PolicyChecked` confirms for small sets of routes.
