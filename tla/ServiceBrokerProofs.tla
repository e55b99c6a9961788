------------------------- MODULE ServiceBrokerProofs -------------------------
(***************************************************************************)
(* The safety properties of ServiceBroker, for any bind ids, routes, plans *)
(* and number of starts, for any number of requests served at a time and   *)
(* of endpoints that come and go: the inductive invariant, what each step  *)
(* does to the state, that each step keeps the invariant, and the          *)
(* theorems.                                                               *)
(***************************************************************************)
EXTENDS ServiceBroker, TLAPS

Update == [op : {"Bind"}, uri : RouteURI, plan : PlanName]
             \cup [op : {"Unbind"}, uri : RouteURI]
             \cup [op : {"Add", "Remove"}, uri : RouteURI, endpoint : Endpoint]

\* The updates that are about a plan.
Decides(u) == u.op \in {"Bind", "Unbind"}

Claim == [uri : RouteURI, plan : PlanName, status : {"bound", "unbound", "unknown"}]

RequestState == {NoRequest}
             \cup [step : {"bind"}, id : BindID, uri : RouteURI, plan : PlanName]
             \cup [step : {"found", "unbind"}, id : BindID, uri : RouteURI]

\* A Go map from bind ids to bindings.
IsBindMap(m) == IsMap(m, BindID, Binding)

IsGroup(g) == /\ g = [written |-> g.written, records |-> g.records]
              /\ g.written \in BOOLEAN /\ IsBindMap(g.records)

TypeInv ==
    /\ start \in DOMAIN PlansOf
    /\ phase \in {"fetch", "process", "assign", "worker"}
    /\ IsBindMap(bindMap) /\ IsBindMap(fetched)
    /\ queue \in Seq(Update) /\ writing \in BOOLEAN
    /\ IsMap(decided, RouteURI, PlanName)
    /\ requests \in [Request -> RequestState]
    /\ IsGroup(file) /\ IsGroup(device) /\ writeFailed \in BOOLEAN
    /\ IsMap(claims, BindID, Claim)
    /\ lost \subseteq BindID /\ crossed \subseteq RouteURI

\* Every change of the map is followed by a write of the file, which only the
\* worker makes.
FileInv ==
    /\ file.written \/ writing => phase = "worker"
    /\ file.written /\ ~writeFailed =>
          \/ file = Group(bindMap)
          \/ writing \/ queue # <<>>
          \/ \E r \in Request : requests[r].step \in {"bind", "unbind"}

\* What a map of bindings says is what the platform asked for.
Agrees(m) ==
    \A id \in DOMAIN m : /\ id \in DOMAIN claims
                         /\ m[id].uri = claims[id].uri /\ m[id].plan = claims[id].plan

MapsAgree == Agrees(bindMap) /\ Agrees(fetched) /\ Agrees(file.records)
                /\ Agrees(device.records)

\* A request is about a binding the platform has no answer for, but that another
\* unbind of the same binding may have been answered; and nothing else is asked of
\* a binding before the Bind that makes it is answered.
RequestOK(r) ==
    requests[r] # NoRequest =>
        /\ requests[r].id \in DOMAIN claims
        /\ requests[r].uri = claims[requests[r].id].uri
        /\ requests[r].step = "bind" =>
              /\ requests[r].plan = claims[requests[r].id].plan
              /\ claims[requests[r].id].status = "unknown"
              /\ \A s \in Request \ {r} :
                    requests[s] # NoRequest => requests[s].id # requests[r].id
        /\ requests[r].step # "bind" => claims[requests[r].id].status # "bound"

RequestsOK == \A r \in Request : RequestOK(r)

\* The platform has one binding to a route at a time.
OneBinding ==
    \A id, other \in DOMAIN claims :
        claims[id].uri = claims[other].uri /\ id # other =>
            claims[id].status = "unbound" \/ claims[other].status = "unbound"

ClaimsInv == MapsAgree /\ RequestsOK /\ OneBinding

\* The map has every binding that was made or is about to be.
Known ==
    phase = "worker" =>
       \A id \in DOMAIN claims \ lost :
          \/ claims[id].status = "bound"
          \/ \E r \in Request : requests[r].step = "bind" /\ requests[r].id = id
          => id \in DOMAIN bindMap

\* A binding that was unbound is out of the map, and the update that says so comes
\* from one goroutine, unless its route is crossed.
Removal ==
    /\ \A id \in DOMAIN bindMap : claims[id].status = "unbound" => claims[id].uri \in crossed
    /\ \A r \in Request : requests[r].step = "unbind" =>
          /\ requests[r].id \notin DOMAIN bindMap
          /\ requests[r].uri \notin crossed =>
                /\ claims[requests[r].id].status = "unknown"
                /\ \A s \in Request \ {r} :
                      requests[s].step = "unbind" => requests[s].id # requests[r].id

\* Before the worker runs, requests are about bindings made since the start, none of
\* which has reached the BIG-IP.
Fresh ==
    phase # "worker" =>
       /\ phase \in {"process", "assign"} => fetched = device.records
       /\ DOMAIN bindMap \cap DOMAIN device.records = {}
       /\ \A r \in Request : requests[r] # NoRequest =>
             requests[r].id \notin DOMAIN device.records

MapInv == Known /\ Removal /\ Fresh
-----------------------------------------------------------------------------
About(uri) == {k \in DOMAIN queue : Decides(queue[k]) /\ queue[k].uri = uri}

\* The plans decided on for a route now, and after an update: one or none.
Now(uri) == IF uri \in DOMAIN decided THEN {decided[uri]} ELSE {}
PlanOf(update) == IF update.op = "Bind" THEN {update.plan} ELSE {}

\* When the queue has been worked off, these plans are decided on for the route.
Leads(uri, plans) ==
    \/ About(uri) = {} /\ Now(uri) = plans
    \/ \E k \in About(uri) : \A j \in About(uri) : j >= k => PlanOf(queue[j]) = plans

\* The records on the BIG-IP of bindings that were not unbound.
Live == {id \in DOMAIN device.records : claims[id].status # "unbound"}

\* Some record of the route that Run got back was unbound meanwhile.
Undone(uri) == \E id \in DOMAIN fetched : claims[id].uri = uri /\ claims[id].status = "unbound"

\* A route whose bindings are all unbound is led to no plan, unless the records that
\* were fetched have brought one back;
UnboundInv ==
    \A uri \in RouteURI :
       /\ \A id \in DOMAIN claims : claims[id].uri = uri => claims[id].status = "unbound"
       /\ phase = "assign" => ~Undone(uri)
       /\ phase = "worker" => uri \notin crossed
       => Leads(uri, {})

\* one with a binding in the map is led to its plan;
BoundInv ==
    phase \in {"fetch", "worker"} =>
       \A id \in DOMAIN bindMap :
          /\ claims[id].status = "bound" /\ claims[id].uri \notin crossed
          /\ claims[id].plan \in PlansOf[start]
          => Leads(claims[id].uri, {claims[id].plan})

\* and so is one with a binding that Run recovers, to which no request can have
\* queued an update.
RecoverInv ==
    /\ phase # "worker" =>
          \A id \in Live, r \in Request :
             requests[r] # NoRequest => requests[r].uri # claims[id].uri
    /\ phase \in {"fetch", "process"} => \A id \in Live : About(claims[id].uri) = {}
    /\ phase = "assign" =>
          \A id \in Live : /\ ~Undone(claims[id].uri)
                           /\ claims[id].plan \in PlansOf[start]
                           => Leads(claims[id].uri, {claims[id].plan})

EffectInv == UnboundInv /\ BoundInv /\ RecoverInv

BrokerInv == TypeInv /\ FileInv /\ ClaimsInv /\ MapInv /\ EffectInv
-----------------------------------------------------------------------------
IsRoute(x) == /\ x = [members |-> x.members, settings |-> x.settings]
              /\ x.settings \in [Setting -> PlanName \cup {Default}]

\* A mapped route has the settings that were decided on.
Follows(uri) ==
    IF uri \in DOMAIN decided
    THEN \A s \in Settings[decided[uri]] : routes[uri].settings[s] = decided[uri]
    ELSE \A s \in Setting :
            uri \notin scarred \/ s = "profiles" => routes[uri].settings[s] = Default

\* What was decided when a route was not mapped is what its first endpoint will find.
Waits(uri) ==
    /\ uri \in DOMAIN unmapped <=> uri \in DOMAIN decided
    /\ uri \in DOMAIN decided => unmapped[uri] = decided[uri]

Settled(uri) ==
    /\ settled[uri] = "mapped" => Mapped(uri) /\ Follows(uri)
    /\ settled[uri] = "unmapped" => Waits(uri) /\ (Mapped(uri) => Follows(uri))

\* The handlers of the worker alone change the routes.
RouteInv ==
    /\ DOMAIN routes \subseteq RouteURI /\ scarred \subseteq DOMAIN routes
    /\ \A uri \in DOMAIN routes : IsRoute(routes[uri])
    /\ IsMap(unmapped, RouteURI, PlanName)
    /\ settled \in [RouteURI -> {"mapped", "unmapped", "reverted"}]
    /\ \A uri \in RouteURI : Settled(uri)

\* Before the first write of a start, only the bindings found on the BIG-IP have
\* had their updates processed.
PersistInv ==
    ~file.written /\ ~writeFailed =>
       \/ writing \/ queue # <<>>
       \/ Bound \ lost \subseteq DOMAIN device.records
-----------------------------------------------------------------------------
(***************************************************************************)
(* Maps                                                                    *)
(***************************************************************************)

\* m[k] = v changes a map at k only;
LEMMA PutIs ==
    ASSUME NEW m, NEW k, NEW v
    PROVE  /\ DOMAIN Put(m, k, v) = DOMAIN m \cup {k}
           /\ Put(m, k, v)[k] = v
           /\ \A x \in DOMAIN m : x # k => Put(m, k, v)[x] = m[x]
  BY DEF Put

\* so does delete(m, k).
LEMMA DropIs ==
    ASSUME NEW m, NEW k
    PROVE  /\ DOMAIN Drop(m, k) = DOMAIN m \ {k}
           /\ \A x \in DOMAIN m : x # k => Drop(m, k)[x] = m[x]
  BY DEF Drop

\* Adding an entry of the right types keeps the types,
LEMMA PutIsMap ==
    ASSUME NEW K, NEW V, NEW m, IsMap(m, K, V), NEW k \in K, NEW v \in V
    PROVE  IsMap(Put(m, k, v), K, V)
  BY DEF Put, IsMap

\* as deleting one does,
LEMMA DropIsMap ==
    ASSUME NEW K, NEW V, NEW m, IsMap(m, K, V), NEW k
    PROVE  IsMap(Drop(m, k), K, V)
  BY DEF Drop, IsMap

\* and a map that make returns is typed whatever its types are.
LEMMA EmptyIsMap == ASSUME NEW K, NEW V PROVE IsMap(EmptyMap, K, V)
  BY DEF EmptyMap, IsMap

\* The same of maps of bindings: a new map,
LEMMA EmptyIsBindMap == IsBindMap(EmptyMap) /\ DOMAIN EmptyMap = {}
<1>1. DOMAIN EmptyMap = {}
  BY DEF EmptyMap
<1> QED
  BY <1>1, EmptyIsMap DEF IsBindMap

\* one with an entry more,
LEMMA PutIsBindMap ==
    ASSUME NEW m, IsBindMap(m), NEW k \in BindID, NEW v \in Binding
    PROVE  IsBindMap(Put(m, k, v))
  BY PutIsMap, Zenon DEF IsBindMap

\* and one with an entry less.
LEMMA DropIsBindMap ==
    ASSUME NEW m, IsBindMap(m), NEW k
    PROVE  IsBindMap(Drop(m, k))
  BY DropIsMap, Zenon DEF IsBindMap

\* The data group that populateBrokerDataGroup makes of a map,
LEMMA GroupIsGroup ==
    ASSUME NEW m, IsBindMap(m)
    PROVE  IsGroup(Group(m)) /\ Group(m).records = m /\ Group(m).written = TRUE
  BY DEF IsGroup, Group

\* and the one that is not there.
LEMMA NoGroupIsGroup == IsGroup(NoGroup) /\ NoGroup.records = EmptyMap /\ NoGroup.written = FALSE
  BY EmptyIsBindMap DEF IsGroup, NoGroup

\* The entry of a typed map.
LEMMA MapAt ==
    ASSUME NEW K, NEW V, NEW m, IsMap(m, K, V), NEW k \in DOMAIN m
    PROVE  k \in K /\ m[k] \in V
  BY DEF IsMap

\* An order of a set lists each of its elements.
LEMMA OrderListsAll ==
    ASSUME NEW S, NEW order \in Orders(S)
    PROVE  /\ order \in Seq(S) /\ DOMAIN order = 1 .. Len(order) /\ Len(order) \in Nat
           /\ \A x \in S : \E i \in DOMAIN order : order[i] = x
<1>1. PICK n \in 0 .. Cardinality(S) : order \in Bijection(1 .. n, S)
  BY DEF Orders
<1>2. n \in Nat
  OBVIOUS
<1>3. order \in [1 .. n -> S] /\ \A x \in S : \E i \in 1 .. n : order[i] = x
  BY <1>1 DEF Bijection, Injection, Surjection
<1> QED
  BY <1>2, <1>3
-----------------------------------------------------------------------------
(***************************************************************************)
(* What the steps of a request change                                      *)
(***************************************************************************)

\* Goroutine r goes on to new, and no other one moves.
Moves(r, new) == requests'[r] = new /\ \A s \in Request : s # r => requests'[s] = requests[s]

\* The status of id is all that changes of the bindings.
Answers(id, status) ==
    /\ DOMAIN claims' = DOMAIN claims /\ claims'[id].status = status
    /\ \A x \in DOMAIN claims : /\ claims'[x].uri = claims[x].uri
                                /\ claims'[x].plan = claims[x].plan
                                /\ x # id => claims'[x].status = claims[x].status

\* A handler that goes on moves its own request and no other;
LEMMA StepMoves ==
    ASSUME TypeInv, NEW r \in Request, NEW new, Step(r, new)
    PROVE  Moves(r, new) /\ (new \in RequestState => requests' \in [Request -> RequestState])
  BY DEF TypeInv, Step, Moves

\* an answer changes the status of one binding and nothing else the platform knows.
LEMMA StatusAnswers ==
    ASSUME TypeInv, NEW id \in DOMAIN claims, NEW status,
           claims' = [claims EXCEPT ![id].status = status]
    PROVE  /\ Answers(id, status)
           /\ status \in {"bound", "unbound", "unknown"} => IsMap(claims', BindID, Claim)
  BY DEF TypeInv, Answers, IsMap, Claim

\* The kinds of requests.
LEMMA RequestKinds ==
    ASSUME TypeInv, NEW r \in Request
    PROVE  /\ requests[r] # NoRequest =>
                 /\ requests[r].id \in BindID /\ requests[r].uri \in RouteURI
                 /\ requests[r].step \in {"bind", "found", "unbind"}
           /\ requests[r] = NoRequest <=> requests[r].step = "none"
           /\ requests[r].step = "bind" =>
                 requests[r] \in [step : {"bind"}, id : BindID, uri : RouteURI, plan : PlanName]
           /\ requests[r].step \in {"found", "unbind"} =>
                 requests[r] \in [step : {"found", "unbind"}, id : BindID, uri : RouteURI]
<1>1. requests[r] \in RequestState
  BY ZenonT(30) DEF TypeInv
<1> QED
  BY <1>1 DEF RequestState, NoRequest

\* Bind adds a binding to the map and to what the platform asked for.
Binds(r, id, uri, plan) ==
    /\ requests[r] = NoRequest /\ MayBind(id, uri)
    /\ DOMAIN claims' = DOMAIN claims \cup {id}
    /\ claims'[id] = [uri |-> uri, plan |-> plan, status |-> "unknown"]
    /\ \A x \in DOMAIN claims : x # id /\ claims'[x] = claims[x]
    /\ DOMAIN bindMap' = DOMAIN bindMap \cup {id}
    /\ bindMap'[id] = [uri |-> uri, plan |-> plan]
    /\ \A x \in DOMAIN bindMap : x # id => bindMap'[x] = bindMap[x]
    /\ Moves(r, [step |-> "bind", id |-> id, uri |-> uri, plan |-> plan])
    /\ UNCHANGED <<start, phase, fetched, queue, writing, decided, file, writeFailed,
                   device, lost, crossed>>

\* The handler of a Bind does this with the plan of a plan id that the broker knows.
LEMMA BindFacts ==
    ASSUME TypeInv, NEW r \in Request, NEW id \in BindID, NEW uri \in RouteURI,
           NEW planID \in [start : DOMAIN PlansOf, plan : PlanName], Bind(r, id, uri, planID)
    PROVE  Binds(r, id, uri, planID.plan) /\ TypeInv'
<1> DEFINE plan == planID.plan
           new == [step |-> "bind", id |-> id, uri |-> uri, plan |-> plan]
           claim == [uri |-> uri, plan |-> plan, status |-> "unknown"]
           binding == [uri |-> uri, plan |-> plan]
<1>1. /\ requests[r] = NoRequest /\ MayBind(id, uri) /\ VerifyPlanExists(planID)
      /\ bindMap' = Put(bindMap, id, binding) /\ claims' = Put(claims, id, claim)
      /\ Step(r, new)
      /\ UNCHANGED <<start, phase, fetched, queue, writing, decided, file, writeFailed,
                     device, lost, crossed>>
  BY ZenonT(30) DEF Bind, runVars, workerVars, storeVars, historyVars, routeVars
<1>2. plan \in PlanName /\ plan \in PlansOf[start] /\ id \notin DOMAIN claims
  BY <1>1, ZenonT(30) DEF VerifyPlanExists, MayBind
<1>3. new \in RequestState /\ claim \in Claim /\ binding \in Binding
  BY <1>2 DEF RequestState, Claim, Binding
<1> HIDE DEF new, claim, binding, plan
<1>4. IsBindMap(bindMap') /\ IsMap(claims', BindID, Claim)
  <2>1. IsBindMap(bindMap')
    BY <1>1, <1>3, PutIsBindMap, Zenon DEF TypeInv
  <2>2. IsMap(claims', BindID, Claim)
    BY <1>1, <1>3, PutIsMap, Zenon DEF TypeInv
  <2> QED
    BY <2>1, <2>2
<1>5. Moves(r, new) /\ requests' \in [Request -> RequestState]
  BY <1>1, <1>3, StepMoves, ZenonT(30)
<1>6. TypeInv'
  BY <1>1, <1>4, <1>5 DEF TypeInv
<1>7. /\ DOMAIN claims' = DOMAIN claims \cup {id} /\ claims'[id] = claim
      /\ \A x \in DOMAIN claims : x # id /\ claims'[x] = claims[x]
  <2>1. claims' = Put(claims, id, claim) /\ id \notin DOMAIN claims
    BY <1>1, <1>2, ZenonT(30)
  <2> QED
    BY <2>1, ZenonT(30) DEF Put
<1>8. /\ DOMAIN bindMap' = DOMAIN bindMap \cup {id} /\ bindMap'[id] = binding
      /\ \A x \in DOMAIN bindMap : x # id => bindMap'[x] = bindMap[x]
  BY <1>1, ZenonT(30) DEF Put
<1> QED
  BY <1>1, <1>5, <1>6, <1>7, <1>8 DEF Binds, new, claim, binding, plan

\* Its update is queued and its answer sent in one step.
LEMMA BindUpdatesFacts ==
    ASSUME TypeInv, ClaimsInv, NEW r \in Request, BindUpdates(r)
    PROVE  /\ requests[r].step = "bind" /\ requests[r] # NoRequest
           /\ requests[r].id \in DOMAIN claims
           /\ queue' = Append(queue, [op |-> "Bind", uri |-> requests[r].uri,
                                      plan |-> requests[r].plan])
           /\ [op |-> "Bind", uri |-> requests[r].uri, plan |-> requests[r].plan] \in Update
           /\ Answers(requests[r].id, "bound") /\ Moves(r, NoRequest)
           /\ UNCHANGED <<start, phase, fetched, bindMap, writing, decided, file,
                          writeFailed, device, lost, crossed>>
           /\ TypeInv'
<1> DEFINE req == requests[r]
           update == [op |-> "Bind", uri |-> req.uri, plan |-> req.plan]
<1>1. /\ req.step = "bind" /\ queue' = Append(queue, update)
      /\ claims' = [claims EXCEPT ![req.id].status = "bound"]
      /\ Step(r, NoRequest)
      /\ UNCHANGED <<start, phase, fetched, bindMap, writing, decided, file, writeFailed,
                     device, lost, crossed>>
  BY ZenonT(30) DEF BindUpdates, UpdateRoute, runVars, storeVars, historyVars, routeVars
<1>2. req # NoRequest /\ update \in Update
  BY <1>1, RequestKinds, ZenonT(30) DEF Update
<1>3. req.id \in DOMAIN claims
  BY <1>2 DEF ClaimsInv, RequestsOK, RequestOK
<1> HIDE DEF req, update
<1>4. Answers(req.id, "bound") /\ IsMap(claims', BindID, Claim)
  BY <1>1, <1>3, StatusAnswers, ZenonT(30)
<1>5. Moves(r, NoRequest) /\ requests' \in [Request -> RequestState]
  BY <1>1, StepMoves DEF RequestState
<1>6. queue' \in Seq(Update)
  BY <1>1, <1>2 DEF TypeInv
<1>7. TypeInv'
  BY <1>1, <1>4, <1>5, <1>6, ZenonT(30) DEF TypeInv
<1> QED
  BY <1>1, <1>2, <1>3, <1>4, <1>5, <1>7, ZenonT(30) DEF req, update

\* Unbind finds the binding in the map, and none of its Bind is left to do.
LEMMA UnbindFacts ==
    ASSUME TypeInv, NEW r \in Request, NEW id \in BindID, Unbind(r, id)
    PROVE  /\ requests[r] = NoRequest
           /\ id \in DOMAIN claims /\ claims[id].status # "unbound" /\ id \in DOMAIN bindMap
           /\ \A s \in Request : requests[s].step = "bind" => requests[s].id # id
           /\ Answers(id, "unknown")
           /\ Moves(r, [step |-> "found", id |-> id, uri |-> bindMap[id].uri])
           /\ UNCHANGED <<start, phase, fetched, bindMap, queue, writing, decided, file,
                          writeFailed, device, lost, crossed>>
           /\ TypeInv'
<1> DEFINE new == [step |-> "found", id |-> id, uri |-> bindMap[id].uri]
<1>1. /\ requests[r] = NoRequest
      /\ id \in DOMAIN claims /\ claims[id].status # "unbound" /\ id \in DOMAIN bindMap
      /\ \A s \in Request : requests[s].step = "bind" => requests[s].id # id
      /\ claims' = [claims EXCEPT ![id].status = "unknown"]
      /\ Step(r, new)
      /\ UNCHANGED <<start, phase, fetched, bindMap, queue, writing, decided, file,
                     writeFailed, device, lost, crossed>>
  BY DEF Unbind, runVars, workerVars, storeVars, historyVars, routeVars
<1>2. new \in RequestState
  BY <1>1 DEF TypeInv, IsBindMap, IsMap, Binding, RequestState
<1> HIDE DEF new
<1>3. Answers(id, "unknown") /\ IsMap(claims', BindID, Claim)
  BY <1>1, StatusAnswers, ZenonT(30)
<1>4. Moves(r, new) /\ requests' \in [Request -> RequestState]
  BY <1>1, <1>2, StepMoves, ZenonT(30)
<1>5. TypeInv'
  BY <1>1, <1>3, <1>4, ZenonT(30) DEF TypeInv
<1> QED
  BY <1>1, <1>3, <1>4, <1>5, ZenonT(30) DEF new

\* It removes the binding, if it is still there,
LEMMA UnbindRemovesFacts ==
    ASSUME TypeInv, NEW r \in Request, UnbindRemoves(r)
    PROVE  /\ requests[r].step = "found" /\ requests[r] # NoRequest
           /\ DOMAIN bindMap' = DOMAIN bindMap \ {requests[r].id}
           /\ \A x \in DOMAIN bindMap' : bindMap'[x] = bindMap[x]
           /\ requests[r].id \in DOMAIN bindMap => crossed' = crossed
           /\ requests[r].id \notin DOMAIN bindMap => crossed' = crossed \cup {requests[r].uri}
           /\ Moves(r, [step |-> "unbind", id |-> requests[r].id, uri |-> requests[r].uri])
           /\ UNCHANGED <<start, phase, fetched, queue, writing, decided, file,
                          writeFailed, device, claims, lost>>
           /\ TypeInv'
<1> DEFINE req == requests[r]
           new == [step |-> "unbind", id |-> req.id, uri |-> req.uri]
<1>1. /\ req.step = "found" /\ bindMap' = Drop(bindMap, req.id)
      /\ crossed' = IF req.id \in DOMAIN bindMap THEN crossed ELSE crossed \cup {req.uri}
      /\ Step(r, [req EXCEPT !.step = "unbind"])
      /\ UNCHANGED <<start, phase, fetched, queue, writing, decided, file, writeFailed,
                     device, claims, lost>>
  BY DEF UnbindRemoves, runVars, workerVars, storeVars, routeVars
<1>2. req # NoRequest /\ req.uri \in RouteURI /\ req.id \in BindID
  BY <1>1, RequestKinds
<1>3. [req EXCEPT !.step = "unbind"] = new /\ new \in RequestState
  <2>1. req \in [step : {"found", "unbind"}, id : BindID, uri : RouteURI]
    BY <1>1, RequestKinds
  <2> QED
    BY <2>1 DEF RequestState
<1> HIDE DEF req, new
<1>4. Moves(r, new) /\ requests' \in [Request -> RequestState]
  BY <1>1, <1>3, StepMoves
<1>5. IsBindMap(bindMap') /\ crossed' \subseteq RouteURI
  BY <1>1, <1>2, DropIsBindMap, ZenonT(30) DEF TypeInv
<1>6. TypeInv'
  BY <1>1, <1>4, <1>5 DEF TypeInv
<1>7. DOMAIN bindMap' = DOMAIN bindMap \ {req.id} /\ \A x \in DOMAIN bindMap' : bindMap'[x] = bindMap[x]
  BY <1>1, ZenonT(30) DEF Drop
<1> QED
  BY <1>1, <1>2, <1>4, <1>6, <1>7, ZenonT(30) DEF req, new

\* and then queues its update and answers.
LEMMA UnbindUpdatesFacts ==
    ASSUME TypeInv, ClaimsInv, NEW r \in Request, UnbindUpdates(r)
    PROVE  /\ requests[r].step = "unbind" /\ requests[r] # NoRequest
           /\ requests[r].id \in DOMAIN claims
           /\ queue' = Append(queue, [op |-> "Unbind", uri |-> requests[r].uri])
           /\ [op |-> "Unbind", uri |-> requests[r].uri] \in Update
           /\ Answers(requests[r].id, "unbound") /\ Moves(r, NoRequest)
           /\ UNCHANGED <<start, phase, fetched, bindMap, writing, decided, file,
                          writeFailed, device, lost, crossed>>
           /\ TypeInv'
<1> DEFINE req == requests[r]
           update == [op |-> "Unbind", uri |-> req.uri]
<1>1. /\ req.step = "unbind" /\ queue' = Append(queue, update)
      /\ claims' = [claims EXCEPT ![req.id].status = "unbound"]
      /\ Step(r, NoRequest)
      /\ UNCHANGED <<start, phase, fetched, bindMap, writing, decided, file, writeFailed,
                     device, lost, crossed>>
  BY ZenonT(30) DEF UnbindUpdates, UpdateRoute, runVars, storeVars, historyVars, routeVars
<1>2. req # NoRequest /\ update \in Update
  BY <1>1, RequestKinds, ZenonT(30) DEF Update
<1>3. req.id \in DOMAIN claims
  BY <1>2 DEF ClaimsInv, RequestsOK, RequestOK
<1> HIDE DEF req, update
<1>4. Answers(req.id, "unbound") /\ IsMap(claims', BindID, Claim)
  BY <1>1, <1>3, StatusAnswers, ZenonT(30)
<1>5. Moves(r, NoRequest) /\ requests' \in [Request -> RequestState]
  BY <1>1, StepMoves, ZenonT(30) DEF RequestState
<1>6. queue' \in Seq(Update)
  BY <1>1, <1>2 DEF TypeInv
<1>7. TypeInv'
  BY <1>1, <1>4, <1>5, <1>6, ZenonT(30) DEF TypeInv
<1> QED
  BY <1>1, <1>2, <1>3, <1>4, <1>5, <1>7, ZenonT(30) DEF req, update
-----------------------------------------------------------------------------
(***************************************************************************)
(* What the steps of the router change                                     *)
(***************************************************************************)

\* The updates for the records that Run got back follow what is queued: they name
\* the route and the plan of a record whose plan this start has, and none of these
\* records is left out.
LEMMA ProcessFacts ==
    ASSUME TypeInv, processBrokerDataGroup
    PROVE  /\ phase = "process" /\ phase' = "assign" /\ TypeInv'
           /\ \E more \in Seq(Update) :
                 /\ queue' = queue \o more
                 /\ \A k \in DOMAIN more : \E id \in Recovered :
                       /\ more[k].op = "Bind" /\ more[k].uri = fetched[id].uri
                       /\ more[k].plan = fetched[id].plan
                 /\ \A id \in Recovered : \E k \in DOMAIN more :
                       /\ more[k].op = "Bind" /\ more[k].uri = fetched[id].uri
                       /\ more[k].plan = fetched[id].plan
           /\ UNCHANGED <<start, fetched, bindMap, writing, decided, requests, file,
                          writeFailed, device, claims, lost, crossed>>
<1>1. /\ phase = "process" /\ phase' = "assign"
      /\ UNCHANGED <<start, fetched, bindMap, writing, decided, requests, file,
                     writeFailed, device, claims, lost, crossed>>
  BY DEF processBrokerDataGroup, storeVars, historyVars, routeVars
<1> DEFINE U(id) == [op |-> "Bind", uri |-> fetched[id].uri, plan |-> fetched[id].plan]
<1>2. PICK order \in Orders(Recovered) : queue' = queue \o [i \in DOMAIN order |-> U(order[i])]
  BY ZenonT(30) DEF processBrokerDataGroup
<1>4. /\ order \in Seq(Recovered) /\ DOMAIN order = 1 .. Len(order) /\ Len(order) \in Nat
      /\ \A x \in Recovered : \E i \in DOMAIN order : order[i] = x
  BY OrderListsAll, ZenonT(30)
<1>5. \A id \in Recovered : U(id) \in Update
  BY DEF TypeInv, IsBindMap, IsMap, Binding, Recovered, Update
<1> DEFINE more == [i \in DOMAIN order |-> U(order[i])]
<1>6. /\ \A id \in Recovered : /\ U(id).op = "Bind" /\ U(id).uri = fetched[id].uri
                               /\ U(id).plan = fetched[id].plan
  OBVIOUS
<1> HIDE DEF U
<1>7. more \in Seq(Update) /\ DOMAIN more = DOMAIN order
  BY <1>4, <1>5
<1>8. \A k \in DOMAIN more : \E id \in Recovered :
         /\ more[k].op = "Bind" /\ more[k].uri = fetched[id].uri
         /\ more[k].plan = fetched[id].plan
  BY <1>4, <1>6, <1>7
<1>9. \A id \in Recovered : \E k \in DOMAIN more :
         /\ more[k].op = "Bind" /\ more[k].uri = fetched[id].uri
         /\ more[k].plan = fetched[id].plan
  BY <1>4, <1>6, <1>7
<1>10. queue' = queue \o more
  BY <1>2
<1> HIDE DEF more
<1>11. queue' \in Seq(Update)
  BY <1>7, <1>10 DEF TypeInv
<1>12. TypeInv'
  BY <1>1, <1>11, ZenonT(30) DEF TypeInv
<1> QED
  BY <1>1, <1>7, <1>8, <1>9, <1>10, <1>12, ZenonT(30)

\* Run has the data group, or goes on without it.
LEMMA FetchFacts ==
    ASSUME TypeInv, fetchExistingDataGroup
    PROVE  /\ phase = "fetch" /\ phase' = "process" /\ fetched' = device.records /\ TypeInv'
           /\ UNCHANGED <<start, bindMap, queue, writing, decided, requests, file,
                          writeFailed, device, claims, lost, crossed>>
<1>1. /\ phase = "fetch" /\ phase' = "process" /\ fetched' = device.records
      /\ UNCHANGED <<start, bindMap, queue, writing, decided, requests, file, writeFailed,
                     device, claims, lost, crossed>>
  BY ZenonT(30) DEF fetchExistingDataGroup, workerVars, storeVars, historyVars, routeVars
<1>2. IsBindMap(fetched')
  BY <1>1, ZenonT(30) DEF TypeInv, IsGroup
<1> QED
  BY <1>1, <1>2, ZenonT(30) DEF TypeInv

\* fetchExistingDataGroup returns an error: Run goes on without the records.
LEMMA FetchFailsFacts ==
    ASSUME TypeInv, fetchFails
    PROVE  /\ phase = "fetch" /\ phase' = "worker" /\ TypeInv'
           /\ lost' = lost \cup (DOMAIN claims \ DOMAIN bindMap)
           /\ UNCHANGED <<start, fetched, bindMap, queue, writing, decided, requests, file,
                          writeFailed, device, claims, crossed>>
<1>1. /\ phase = "fetch" /\ phase' = "worker"
      /\ lost' = lost \cup (DOMAIN claims \ DOMAIN bindMap)
      /\ UNCHANGED <<start, fetched, bindMap, queue, writing, decided, requests, file,
                     writeFailed, device, claims, crossed>>
  BY DEF fetchFails, workerVars, storeVars, routeVars
<1>2. lost' \subseteq BindID
  BY <1>1, ZenonT(30) DEF TypeInv, IsMap
<1> QED
  BY <1>1, <1>2, ZenonT(30) DEF TypeInv

\* The map is replaced by what was fetched.
LEMMA AssignFacts ==
    ASSUME TypeInv, MapsAgree, assignBindMap
    PROVE  /\ phase = "assign" /\ phase' = "worker" /\ TypeInv'
           /\ bindMap' = fetched /\ fetched' = EmptyMap
           /\ lost' = lost \cup (DOMAIN claims \ DOMAIN fetched)
           /\ \A uri \in RouteURI : uri \notin crossed' <=> uri \notin crossed /\ ~Undone(uri)
           /\ UNCHANGED <<start, queue, writing, decided, requests, file, writeFailed,
                          device, claims>>
<1>1. /\ phase = "assign" /\ phase' = "worker"
      /\ bindMap' = fetched /\ fetched' = EmptyMap
      /\ lost' = lost \cup (DOMAIN claims \ DOMAIN fetched)
      /\ crossed' = crossed \cup {fetched[id].uri : id \in Gone \cap DOMAIN fetched}
      /\ UNCHANGED <<start, queue, writing, decided, requests, file, writeFailed, device,
                     claims>>
  BY DEF assignBindMap, workerVars, storeVars, routeVars
<1>2. lost' \subseteq BindID
  BY <1>1, ZenonT(30) DEF TypeInv, IsMap
<1>3. \A id \in DOMAIN fetched : /\ fetched[id].uri \in RouteURI
                                 /\ id \in DOMAIN claims /\ fetched[id].uri = claims[id].uri
  BY DEF TypeInv, IsBindMap, IsMap, Binding, MapsAgree, Agrees
<1>4. \A uri \in RouteURI : uri \notin crossed' <=> uri \notin crossed /\ ~Undone(uri)
  BY <1>1, <1>3, ZenonT(30) DEF Gone, Undone
<1>5. crossed' \subseteq RouteURI
  BY <1>1, <1>3, ZenonT(30) DEF TypeInv
<1> QED
  BY <1>1, <1>2, <1>4, <1>5, EmptyIsBindMap, ZenonT(30) DEF TypeInv

\* What is decided on for the routes after an update.
After(u) ==
    IF u.op = "Bind" THEN Put(decided, u.uri, u.plan)
    ELSE IF u.op = "Unbind" THEN Drop(decided, u.uri)
    ELSE decided

\* Each handler does what its update says.
LEMMA HandleDecides ==
    ASSUME NEW u \in Update, handle(u)
    PROVE  decided' = After(u)
<1>1. CASE u.op = "Add"
  <2>1. processRouteAdd(u.uri, u.endpoint) \/ refuseAdd
    BY <1>1 DEF handle
  <2>2. decided' = decided
    BY <2>1 DEF processRouteAdd, refuseAdd, routeVars
  <2> QED
    BY <1>1, <2>2, ZenonT(30) DEF After
<1>2. CASE u.op = "Remove"
  <2>1. processRouteRemove(u.uri, u.endpoint)
    BY <1>2 DEF handle
  <2>2. decided' = decided
    BY <2>1, ZenonT(30) DEF processRouteRemove, routeVars
  <2> QED
    BY <1>2, <2>2, ZenonT(30) DEF After
<1>3. CASE u.op = "Bind"
  <2>1. processRouteBind(u.uri, u.plan)
    BY <1>3, ZenonT(30) DEF handle
  <2> QED
    BY <1>3, <2>1, ZenonT(30) DEF processRouteBind, After
<1>4. CASE u.op = "Unbind"
  <2>1. processRouteUnbind(u.uri)
    BY <1>4, ZenonT(30) DEF handle
  <2> QED
    BY <1>4, <2>1, ZenonT(30) DEF processRouteUnbind, After
<1> QED
  BY <1>1, <1>2, <1>3, <1>4, ZenonT(30) DEF Update

\* The worker takes the update at the head.
LEMMA ProcessItemFacts ==
    ASSUME TypeInv, processItem
    PROVE  /\ phase = "worker" /\ queue # <<>> /\ queue' = Tail(queue)
           /\ Head(queue) \in Update /\ handle(Head(queue))
           /\ decided' = After(Head(queue))
           /\ writing' = (Tail(queue) = <<>>) /\ TypeInv'
           /\ UNCHANGED <<start, phase, fetched, bindMap, requests, file, writeFailed, device,
                          claims, lost, crossed>>
<1> DEFINE h == Head(queue)
<1>1. /\ phase = "worker" /\ queue # <<>> /\ queue' = Tail(queue) /\ handle(h)
      /\ writing' = (Tail(queue) = <<>>)
      /\ UNCHANGED <<start, phase, fetched, bindMap, requests, file, writeFailed, device,
                     claims, lost, crossed>>
  BY ZenonT(30) DEF processItem, runVars, storeVars, historyVars
<1>2. h \in Update /\ queue' \in Seq(Update)
  BY <1>1 DEF TypeInv
<1>3. writing' \in BOOLEAN
  BY <1>1
<1> HIDE DEF h
<1>d. decided' = After(h)
  BY <1>1, <1>2, HandleDecides, ZenonT(30)
<1>4. IsMap(decided', RouteURI, PlanName)
  <2>1. h.uri \in RouteURI /\ (h.op = "Bind" => h.plan \in PlanName)
    BY <1>2 DEF Update
  <2>2. IsMap(decided, RouteURI, PlanName)
    BY DEF TypeInv
  <2>3. CASE h.op = "Bind"
    BY <1>d, <2>1, <2>2, <2>3, PutIsMap, ZenonT(30) DEF After
  <2>4. CASE h.op = "Unbind"
    BY <1>d, <2>1, <2>2, <2>4, DropIsMap, ZenonT(30) DEF After
  <2>5. CASE ~Decides(h)
    BY <1>d, <2>2, <2>5, ZenonT(30) DEF After, Decides
  <2> QED
    BY <2>3, <2>4, <2>5, ZenonT(30) DEF Decides
<1>5. TypeInv'
  BY <1>1, <1>2, <1>3, <1>4, ZenonT(30) DEF TypeInv
<1> QED
  BY <1>1, <1>2, <1>d, <1>5, ZenonT(30) DEF h

\* The file gets what the map holds, or the write fails and leaves it alone or empty.
LEMMA WriteFacts ==
    ASSUME TypeInv, writeConfig
    PROVE  /\ writing /\ ~writing' /\ TypeInv'
           /\ \/ /\ file' = Group(bindMap) /\ file'.records = bindMap /\ file'.written = TRUE
                 /\ writeFailed' = FALSE
              \/ file'.records \in {file.records, EmptyMap} /\ writeFailed' = TRUE
           /\ UNCHANGED <<start, phase, fetched, bindMap, queue, decided, requests, device,
                          claims, lost, crossed>>
<1>1. /\ writing /\ writing' = FALSE
      /\ UNCHANGED <<start, phase, fetched, bindMap, queue, decided, requests, device,
                     claims, lost, crossed>>
  BY DEF writeConfig, runVars, historyVars, routeVars
<1>2. \/ file' = Group(bindMap) /\ writeFailed' = FALSE
      \/ file' \in {file, NoGroup} /\ writeFailed' = TRUE
  BY DEF writeConfig, populateBrokerDataGroup
<1>3. /\ IsGroup(Group(bindMap)) /\ Group(bindMap).records = bindMap
      /\ Group(bindMap).written = TRUE
  BY GroupIsGroup, ZenonT(30) DEF TypeInv
<1>4. IsGroup(file') /\ writeFailed' \in BOOLEAN
  BY <1>2, <1>3, NoGroupIsGroup, ZenonT(30) DEF TypeInv
<1>5. \/ /\ file' = Group(bindMap) /\ file'.records = bindMap /\ file'.written = TRUE
         /\ writeFailed' = FALSE
      \/ file'.records \in {file.records, EmptyMap} /\ writeFailed' = TRUE
  BY <1>2, <1>3, NoGroupIsGroup, ZenonT(30)
<1>6. TypeInv'
  BY <1>1, <1>4, ZenonT(30) DEF TypeInv
<1> QED
  BY <1>1, <1>5, <1>6, ZenonT(30)

\* The driver copies a file that was written,
LEMMA DriverFacts ==
    ASSUME TypeInv, DriverApplies
    PROVE  /\ file.written /\ device' = file /\ TypeInv'
           /\ UNCHANGED <<start, phase, fetched, bindMap, queue, writing, decided,
                          requests, file, writeFailed, claims, lost, crossed>>
<1>1. /\ file.written /\ device' = file
      /\ UNCHANGED <<start, phase, fetched, bindMap, queue, writing, decided, requests,
                     file, writeFailed, claims, lost, crossed>>
  BY ZenonT(30) DEF DriverApplies, runVars, workerVars, historyVars, routeVars
<1> QED
  BY <1>1, ZenonT(30) DEF TypeInv

\* and a restart keeps nothing but the BIG-IP and the platform.
LEMMA RestartFacts ==
    ASSUME TypeInv, Restart
    PROVE  /\ phase' = "fetch" /\ fetched' = EmptyMap /\ bindMap' = EmptyMap
           /\ queue' = <<>> /\ writing' = FALSE /\ decided' = EmptyMap
           /\ \A r \in Request : requests'[r] = NoRequest
           /\ file' = NoGroup /\ file'.written = FALSE /\ file'.records = EmptyMap
           /\ writeFailed' = FALSE
           /\ lost' = lost \cup (DOMAIN claims \ DOMAIN device.records)
           /\ UNCHANGED <<device, claims, crossed>> /\ TypeInv'
<1>1. /\ start < Len(PlansOf) /\ start' = start + 1
      /\ phase' = "fetch" /\ fetched' = EmptyMap /\ bindMap' = EmptyMap
      /\ queue' = <<>> /\ writing' = FALSE /\ decided' = EmptyMap
      /\ requests' = [r \in Request |-> NoRequest] /\ file' = NoGroup /\ writeFailed' = FALSE
      /\ lost' = lost \cup (DOMAIN claims \ DOMAIN device.records)
      /\ UNCHANGED <<device, claims, crossed>>
  BY ZenonT(30) DEF Restart
<1>2. start' \in DOMAIN PlansOf
  BY <1>1, BrokerAssumption DEF TypeInv
<1>3. lost' \subseteq BindID
  BY <1>1, ZenonT(30) DEF TypeInv, IsMap
<1>4. requests' \in [Request -> RequestState] /\ \A r \in Request : requests'[r] = NoRequest
  BY <1>1, ZenonT(30) DEF RequestState
<1>5. /\ IsBindMap(fetched') /\ IsBindMap(bindMap') /\ IsMap(decided', RouteURI, PlanName)
      /\ IsGroup(file') /\ file'.written = FALSE /\ file'.records = EmptyMap
  <2>1. IsMap(EmptyMap, RouteURI, PlanName)
    BY EmptyIsMap, ZenonT(30)
  <2>2. IsBindMap(fetched') /\ IsBindMap(bindMap') /\ IsMap(decided', RouteURI, PlanName)
    BY <1>1, <2>1, EmptyIsBindMap, ZenonT(30)
  <2> QED
    BY <1>1, <2>2, NoGroupIsGroup, ZenonT(30)
<1>6. /\ queue' \in Seq(Update) /\ writing' \in BOOLEAN /\ writeFailed' \in BOOLEAN
      /\ IsGroup(device') /\ IsMap(claims', BindID, Claim)
  <2>1. queue' \in Seq(Update)
    BY <1>1
  <2>2. writing' \in BOOLEAN /\ writeFailed' \in BOOLEAN
    BY <1>1, ZenonT(30)
  <2>3. IsGroup(device')
    BY <1>1, Zenon DEF TypeInv
  <2>4. IsMap(claims', BindID, Claim)
    BY <1>1, Zenon DEF TypeInv
  <2> QED
    BY <2>1, <2>2, <2>3, <2>4, ZenonT(30)
<1>7. TypeInv'
  <2>1. crossed' \subseteq RouteURI /\ phase' \in {"fetch", "process", "assign", "worker"}
    BY <1>1, ZenonT(30) DEF TypeInv
  <2> QED
    BY <1>2, <1>3, <1>4, <1>5, <1>6, <2>1, Zenon DEF TypeInv
<1> QED
  BY <1>1, <1>4, <1>5, <1>7, ZenonT(30)
-----------------------------------------------------------------------------
(***************************************************************************)
(* Where the queue leads                                                   *)
(***************************************************************************)

\* An update that is queued has the last word on its route, and none on others.
LEMMA LeadsAppend ==
    ASSUME TypeInv, NEW u \in Update, Decides(u), queue' = Append(queue, u), UNCHANGED decided
    PROVE  /\ Leads(u.uri, PlanOf(u))'
           /\ \A uri : uri # u.uri => /\ About(uri)' = About(uri)
                                      /\ \A plans : Leads(uri, plans) => Leads(uri, plans)'
<1>1. /\ Len(queue) \in Nat /\ DOMAIN queue = 1 .. Len(queue)
      /\ DOMAIN queue' = 1 .. Len(queue) + 1
      /\ \A k \in 1 .. Len(queue) : queue'[k] = queue[k]
      /\ queue'[Len(queue) + 1] = u
  BY DEF TypeInv
<1>2. Len(queue) + 1 \in About(u.uri)'
  BY <1>1 DEF About
<1>3. \A j \in About(u.uri)' : j >= Len(queue) + 1 => queue'[j] = u
  BY <1>1 DEF About
<1>4. Leads(u.uri, PlanOf(u))'
  BY <1>2, <1>3, ZenonT(30) DEF Leads
<1>5. ASSUME NEW uri, uri # u.uri
      PROVE  /\ About(uri)' = About(uri)
             /\ \A plans : Leads(uri, plans) => Leads(uri, plans)'
  <2>1. About(uri)' = About(uri)
    BY <1>1, <1>5 DEF About
  <2>2. \A j \in About(uri) : queue'[j] = queue[j]
    BY <1>1, ZenonT(30) DEF About
  <2>3. Now(uri)' = Now(uri)
    BY DEF Now
  <2> QED
    BY <2>1, <2>2, <2>3, ZenonT(30) DEF Leads
<1> QED
  BY <1>4, <1>5, ZenonT(30)

\* An update of an endpoint leaves it where it was.
LEMMA LeadsRegistry ==
    ASSUME TypeInv, NEW u \in Update, ~Decides(u), queue' = Append(queue, u), UNCHANGED decided
    PROVE  \A uri : /\ About(uri)' = About(uri)
                    /\ \A plans : Leads(uri, plans) => Leads(uri, plans)'
<1> SUFFICES ASSUME NEW uri
             PROVE  /\ About(uri)' = About(uri)
                    /\ \A plans : Leads(uri, plans) => Leads(uri, plans)'
  BY ZenonT(30)
<1>1. /\ Len(queue) \in Nat /\ DOMAIN queue = 1 .. Len(queue)
      /\ DOMAIN queue' = 1 .. Len(queue) + 1
      /\ \A k \in 1 .. Len(queue) : queue'[k] = queue[k]
      /\ queue'[Len(queue) + 1] = u
  BY DEF TypeInv
<1>2. About(uri)' = About(uri)
  BY <1>1 DEF About
<1>3. \A j \in About(uri) : queue'[j] = queue[j]
  BY <1>1 DEF About
<1>4. Now(uri)' = Now(uri)
  BY DEF Now
<1> QED
  BY <1>2, <1>3, <1>4, ZenonT(30) DEF Leads

\* The worker takes each route where the queue was leading it.
LEMMA LeadsProcess ==
    ASSUME TypeInv, processItem
    PROVE  \A uri, plans : Leads(uri, plans) => Leads(uri, plans)'
<1> DEFINE h == Head(queue)
<1>1. /\ queue # <<>> /\ queue' = Tail(queue) /\ h \in Update
      /\ decided' = After(h)
  BY ProcessItemFacts
<1>2. /\ Len(queue) \in Nat /\ DOMAIN queue = 1 .. Len(queue) /\ Len(queue) > 0
      /\ DOMAIN queue' = 1 .. Len(queue) - 1
      /\ \A k \in DOMAIN queue' : k + 1 \in DOMAIN queue /\ queue'[k] = queue[k + 1]
      /\ h = queue[1]
  BY <1>1 DEF TypeInv
<1> HIDE DEF h
<1>3. SUFFICES ASSUME NEW uri, NEW plans, Leads(uri, plans) PROVE Leads(uri, plans)'
  OBVIOUS
<1>4. \A k : k \in About(uri)' <=> k \in DOMAIN queue' /\ k + 1 \in About(uri)
  BY <1>2, ZenonT(30) DEF About
<1>5. \A k \in About(uri) : k # 1 => k - 1 \in About(uri)' /\ queue'[k - 1] = queue[k]
  BY <1>2 DEF About
<1>6. CASE \E k \in About(uri) : k # 1 /\ \A j \in About(uri) : j >= k => PlanOf(queue[j]) = plans
  <2>1. PICK k \in About(uri) :
           k # 1 /\ \A j \in About(uri) : j >= k => PlanOf(queue[j]) = plans
    BY <1>6, ZenonT(30)
  <2>2. k - 1 \in About(uri)' /\ k \in DOMAIN queue
    BY <1>5, <2>1, ZenonT(30) DEF About
  <2>3. ASSUME NEW j \in About(uri)', j >= k - 1 PROVE PlanOf(queue'[j]) = plans
    <3>1. j \in DOMAIN queue' /\ j + 1 \in About(uri) /\ queue'[j] = queue[j + 1] /\ j + 1 >= k
      BY <1>2, <1>4, <2>2, <2>3 DEF About
    <3> QED
      BY <2>1, <3>1, ZenonT(30)
  <2> QED
    BY <2>2, <2>3, ZenonT(30) DEF Leads
<1>7. CASE \A j \in About(uri) : j = 1 /\ PlanOf(queue[j]) = plans
  <2>1. About(uri)' = {}
    BY <1>2, <1>4, <1>7
  <2>2. Now(uri)' = plans
    <3>1. CASE About(uri) = {}
      <4>1. Now(uri) = plans
        BY <1>3, <3>1, ZenonT(30) DEF Leads
      <4>2. uri # h.uri \/ ~Decides(h)
        BY <1>2, <3>1 DEF About
      <4>3. CASE h.op = "Bind"
        BY <1>1, <4>1, <4>2, <4>3, ZenonT(30) DEF Now, Put, After, Decides
      <4>4. CASE h.op = "Unbind"
        BY <1>1, <4>1, <4>2, <4>4, ZenonT(30) DEF Now, Drop, After, Decides
      <4>5. CASE ~Decides(h)
        BY <1>1, <4>1, <4>5, ZenonT(30) DEF Now, After, Decides
      <4> QED
        BY <4>3, <4>4, <4>5, ZenonT(30) DEF Decides
    <3>2. CASE About(uri) # {}
      <4>1. 1 \in About(uri) /\ PlanOf(h) = plans /\ h.uri = uri /\ Decides(h)
        BY <1>2, <1>7, <3>2, ZenonT(30) DEF About
      <4>2. CASE h.op = "Bind"
        BY <1>1, <4>1, <4>2, ZenonT(30) DEF Now, Put, PlanOf, After
      <4>3. CASE h.op = "Unbind"
        BY <1>1, <4>1, <4>3, ZenonT(30) DEF Now, Drop, PlanOf, After
      <4> QED
        BY <4>1, <4>2, <4>3, ZenonT(30) DEF Decides
    <3> QED
      BY <3>1, <3>2, ZenonT(30)
  <2> QED
    BY <2>1, <2>2, ZenonT(30) DEF Leads
<1>8. CASE 1 \in About(uri) /\ \A j \in About(uri) : j >= 1 => PlanOf(queue[j]) = plans
  <2>1. \A j \in About(uri) : j >= 1
    BY <1>2 DEF About
  <2> QED
    BY <1>6, <1>7, <1>8, <2>1, ZenonT(30)
<1> QED
  BY <1>3, <1>6, <1>7, <1>8 DEF Leads

\* A queue that updates are added to leads to them, where they are about a route and
\* agree on it.
LEMMA LeadsMore ==
    ASSUME TypeInv, NEW more \in Seq(Update), queue' = queue \o more, UNCHANGED decided,
           \A k \in DOMAIN more : Decides(more[k])
    PROVE  \A uri, plans :
              /\ \A k \in DOMAIN more : more[k].uri = uri => PlanOf(more[k]) = plans
              /\ (\E k \in DOMAIN more : more[k].uri = uri) \/ Leads(uri, plans)
              => Leads(uri, plans)'
<1> SUFFICES ASSUME NEW uri, NEW plans,
                    \A k \in DOMAIN more : more[k].uri = uri => PlanOf(more[k]) = plans,
                    (\E k \in DOMAIN more : more[k].uri = uri) \/ Leads(uri, plans)
             PROVE  Leads(uri, plans)'
  OBVIOUS
<1>1. /\ Len(queue) \in Nat /\ DOMAIN queue = 1 .. Len(queue)
      /\ Len(more) \in Nat /\ DOMAIN more = 1 .. Len(more)
      /\ DOMAIN queue' = 1 .. Len(queue) + Len(more)
      /\ \A k \in 1 .. Len(queue) : queue'[k] = queue[k]
      /\ \A k \in 1 .. Len(more) : queue'[Len(queue) + k] = more[k]
  BY DEF TypeInv
<1>2. \A j \in DOMAIN queue' : j > Len(queue) =>
         j - Len(queue) \in DOMAIN more /\ queue'[j] = more[j - Len(queue)]
  <2> SUFFICES ASSUME NEW j \in DOMAIN queue', j > Len(queue)
               PROVE  j - Len(queue) \in DOMAIN more /\ queue'[j] = more[j - Len(queue)]
    OBVIOUS
  <2>1. j - Len(queue) \in 1 .. Len(more) /\ Len(queue) + (j - Len(queue)) = j
    BY <1>1
  <2> QED
    BY <1>1, <2>1, ZenonT(30)
<1>3. \A j \in About(uri)' : j > Len(queue) => PlanOf(queue'[j]) = plans
  BY <1>2, ZenonT(30) DEF About
<1>4. \A j \in About(uri)' : ~(j > Len(queue)) => j \in About(uri) /\ queue'[j] = queue[j]
  BY <1>1 DEF About
<1>5. ASSUME NEW k \in DOMAIN more, more[k].uri = uri PROVE Leads(uri, plans)'
  <2>1. Len(queue) + k \in About(uri)'
    BY <1>1, <1>5 DEF About
  <2>2. \A j \in About(uri)' : j >= Len(queue) + k => j > Len(queue)
    BY <1>1 DEF About
  <2> QED
    BY <1>3, <2>1, <2>2, ZenonT(30) DEF Leads
<1>6. ASSUME Leads(uri, plans), \A k \in DOMAIN more : more[k].uri # uri PROVE Leads(uri, plans)'
  <2>1. About(uri)' = About(uri)
    BY <1>1, <1>2, <1>6 DEF About
  <2>2. \A j \in About(uri) : queue'[j] = queue[j]
    BY <1>1 DEF About
  <2>3. Now(uri)' = Now(uri)
    BY ZenonT(30) DEF Now
  <2> QED
    BY <1>6, <2>1, <2>2, <2>3, ZenonT(30) DEF Leads
<1> QED
  BY <1>5, <1>6, ZenonT(30)

\* Nothing else moves it.
LEMMA LeadsSame ==
    ASSUME UNCHANGED <<queue, decided>>
    PROVE  \A uri : /\ About(uri)' = About(uri)
                    /\ \A plans : Leads(uri, plans) => Leads(uri, plans)'
  BY DEF Leads, About, Now
-----------------------------------------------------------------------------
(***************************************************************************)
(* The requests to bind keep the invariant                                 *)
(***************************************************************************)

\* The maps of bindings name only bindings the platform asked for.
LEMMA MapsKnown ==
    ASSUME MapsAgree
    PROVE  /\ DOMAIN bindMap \subseteq DOMAIN claims /\ DOMAIN fetched \subseteq DOMAIN claims
           /\ DOMAIN device.records \subseteq DOMAIN claims
  BY ZenonT(30) DEF MapsAgree, Agrees

\* They stay true to the platform when only the status of a binding changes.
LEMMA StillAgree ==
    ASSUME MapsAgree, NEW id, NEW status, Answers(id, status),
           DOMAIN bindMap' \subseteq DOMAIN bindMap,
           \A x \in DOMAIN bindMap' : bindMap'[x] = bindMap[x],
           UNCHANGED <<fetched, file, writeFailed, device>>
    PROVE  MapsAgree'
  BY DEF MapsAgree, Agrees, Answers

\* Bind makes a binding that no map, request or update knows.
LEMMA BindKeeps ==
    ASSUME BrokerInv, NEW r \in Request, NEW id \in BindID, NEW uri \in RouteURI,
           NEW planID \in [start : DOMAIN PlansOf, plan : PlanName], Bind(r, id, uri, planID)
    PROVE  BrokerInv'
<1>1. PICK plan : Binds(r, id, uri, plan) /\ TypeInv'
  BY BindFacts, ZenonT(30) DEF BrokerInv
<1>m. requests[r] = NoRequest /\ MayBind(id, uri) /\ TypeInv'
  BY <1>1, ZenonT(30) DEF Binds
<1>u. UNCHANGED <<start, phase, fetched, queue, writing, decided, file, writeFailed,
                  device, lost, crossed>>
  BY <1>1, ZenonT(30) DEF Binds
<1>r. /\ requests'[r] # NoRequest /\ requests'[r].step = "bind" /\ requests'[r].id = id
      /\ requests'[r].uri = uri /\ requests'[r].plan = plan
      /\ \A s \in Request : s # r => requests'[s] = requests[s]
  <2>1. Moves(r, [step |-> "bind", id |-> id, uri |-> uri, plan |-> plan])
    BY <1>1, ZenonT(30) DEF Binds
  <2> QED
    BY <2>1 DEF Moves, NoRequest
<1>c. /\ DOMAIN claims' = DOMAIN claims \cup {id} /\ id \notin DOMAIN claims
      /\ claims'[id].uri = uri /\ claims'[id].plan = plan /\ claims'[id].status = "unknown"
      /\ \A x \in DOMAIN claims : claims'[x] = claims[x]
  BY <1>1 DEF Binds
<1>b. /\ DOMAIN bindMap' = DOMAIN bindMap \cup {id}
      /\ bindMap'[id].uri = uri /\ bindMap'[id].plan = plan
      /\ \A x \in DOMAIN bindMap : x # id => bindMap'[x] = bindMap[x]
  BY <1>1 DEF Binds
<1>3. FileInv'
  <2>1. FileInv
    BY DEF BrokerInv
  <2> QED
    BY <1>u, <1>r, <2>1, ZenonT(30) DEF FileInv
<1>10. /\ DOMAIN device.records \subseteq DOMAIN claims /\ DOMAIN fetched \subseteq DOMAIN claims
       /\ DOMAIN bindMap \subseteq DOMAIN claims
  BY MapsKnown, ZenonT(30) DEF BrokerInv, ClaimsInv
<1>4. MapsAgree'
  <2>1. \A m : Agrees(m) => \A x \in DOMAIN m : /\ x \in DOMAIN claims'
                                                 /\ m[x].uri = claims'[x].uri
                                                 /\ m[x].plan = claims'[x].plan
    BY <1>c, ZenonT(30) DEF Agrees
  <2>2. Agrees(bindMap) /\ Agrees(fetched) /\ Agrees(file.records) /\ Agrees(device.records)
    BY ZenonT(30) DEF BrokerInv, ClaimsInv, MapsAgree
  <2>3. \A x \in DOMAIN bindMap' : /\ x \in DOMAIN claims'
                                   /\ bindMap'[x].uri = claims'[x].uri
                                   /\ bindMap'[x].plan = claims'[x].plan
    BY <1>b, <1>c, <2>1, <2>2
  <2>4. Agrees(fetched)' /\ Agrees(file.records)' /\ Agrees(device.records)'
    BY <1>u, <2>1, <2>2 DEF Agrees
  <2> QED
    BY <2>3, <2>4, ZenonT(30) DEF MapsAgree, Agrees
<1>5. \A s \in Request : requests[s] # NoRequest => requests[s].id \in DOMAIN claims
  BY DEF BrokerInv, ClaimsInv, RequestsOK, RequestOK
<1>6. RequestsOK'
  <2> SUFFICES ASSUME NEW s \in Request PROVE RequestOK(s)'
    BY ZenonT(30) DEF RequestsOK
  <2>1. CASE s = r
    BY <1>r, <1>c, <1>5, <2>1, ZenonT(30) DEF RequestOK
  <2>2. CASE s # r
    <3>1. RequestOK(s)
      BY ZenonT(30) DEF BrokerInv, ClaimsInv, RequestsOK
    <3>2. requests'[s] = requests[s]
      BY <1>r, <2>2, ZenonT(30)
    <3>3. requests[s] # NoRequest =>
             claims'[requests[s].id] = claims[requests[s].id] /\ requests[s].id # id
      BY <1>c, <1>5, ZenonT(30)
    <3>4. \A t \in Request \ {s} : requests'[t] # NoRequest =>
             \/ t = r
             \/ requests[t] # NoRequest /\ requests'[t] = requests[t]
      BY <1>r, ZenonT(30)
    <3> QED
      BY <1>r, <1>c, <3>1, <3>2, <3>3, <3>4, ZenonT(30) DEF RequestOK
  <2> QED
    BY <2>1, <2>2, ZenonT(30)
<1>7. OneBinding'
  <2>1. OneBinding /\ MayBind(id, uri)
    BY <1>m, ZenonT(30) DEF BrokerInv, ClaimsInv
  <2> QED
    BY <1>c, <2>1 DEF OneBinding, MayBind
<1>8. Known'
  <2>1. Known
    BY ZenonT(30) DEF BrokerInv, MapInv
  <2>2. \A x \in DOMAIN claims' : x # id => x \in DOMAIN claims /\ claims'[x] = claims[x]
    BY <1>c, ZenonT(30)
  <2>3. \A s \in Request : requests'[s].step = "bind" =>
           requests'[s].id = id \/ requests'[s] = requests[s]
    BY <1>r, ZenonT(30)
  <2> QED
    BY <1>u, <1>b, <2>1, <2>2, <2>3, ZenonT(30) DEF Known
<1>9. Removal'
  <2>1. Removal
    BY DEF BrokerInv, MapInv
  <2>2. \A x \in DOMAIN bindMap' : claims'[x].status = "unbound" => claims'[x].uri \in crossed'
    BY <1>u, <1>b, <1>c, <1>10, <2>1, ZenonT(30) DEF Removal
  <2>3. \A s \in Request : requests'[s].step = "unbind" =>
           /\ s # r /\ requests'[s] = requests[s] /\ requests[s].id # id
           /\ claims'[requests[s].id] = claims[requests[s].id]
    <3> SUFFICES ASSUME NEW s \in Request, requests'[s].step = "unbind"
                 PROVE  /\ s # r /\ requests'[s] = requests[s] /\ requests[s].id # id
                        /\ claims'[requests[s].id] = claims[requests[s].id]
      OBVIOUS
    <3>1. s # r /\ requests'[s] = requests[s]
      BY <1>r, ZenonT(30)
    <3>2. requests[s] # NoRequest
      BY <3>1 DEF NoRequest
    <3> QED
      BY <1>c, <1>5, <3>1, <3>2, ZenonT(30)
  <2> QED
    BY <1>u, <1>b, <2>1, <2>2, <2>3 DEF Removal
<1>11. Fresh'
  <2>1. Fresh
    BY ZenonT(30) DEF BrokerInv, MapInv
  <2>2. id \notin DOMAIN device.records
    BY <1>c, <1>10, ZenonT(30)
  <2> QED
    BY <1>u, <1>b, <1>r, <2>1, <2>2, ZenonT(30) DEF Fresh
<1>12. /\ \A x : About(x)' = About(x) /\ \A plans : Leads(x, plans) => Leads(x, plans)'
       /\ Live' = Live /\ \A x : Undone(x)' <=> Undone(x)
  <2>1. \A x : About(x)' = About(x) /\ \A plans : Leads(x, plans) => Leads(x, plans)'
    BY <1>u, LeadsSame, ZenonT(30)
  <2>2. \A x \in DOMAIN device.records \cup DOMAIN fetched : claims'[x] = claims[x]
    BY <1>c, <1>10, ZenonT(30)
  <2>3. Live' = Live
    BY <1>u, <2>2, ZenonT(30) DEF Live
  <2>4. \A x : Undone(x)' <=> Undone(x)
    BY <1>u, <2>2, ZenonT(30) DEF Undone
  <2> QED
    BY <2>1, <2>3, <2>4, ZenonT(30)
<1>13. UnboundInv'
  <2>1. UnboundInv
    BY ZenonT(30) DEF BrokerInv, EffectInv
  <2>2. ASSUME NEW x \in RouteURI,
               \A y \in DOMAIN claims' : claims'[y].uri = x => claims'[y].status = "unbound"
        PROVE  \A y \in DOMAIN claims : claims[y].uri = x => claims[y].status = "unbound"
    BY <1>c, <2>2, ZenonT(30)
  <2> QED
    BY <1>u, <1>12, <2>1, <2>2, ZenonT(30) DEF UnboundInv
<1>14. BoundInv'
  <2>1. BoundInv
    BY DEF BrokerInv, EffectInv
  <2>2. \A x \in DOMAIN bindMap' : claims'[x].status = "bound" =>
           x \in DOMAIN bindMap /\ claims'[x] = claims[x]
    BY <1>b, <1>c, <1>10, ZenonT(30)
  <2> QED
    BY <1>u, <1>12, <2>1, <2>2, ZenonT(30) DEF BoundInv
<1>15. RecoverInv'
  <2>1. \A x \in Live : claims'[x] = claims[x] /\ claims[x].uri # uri
    BY <1>m, <1>c, <1>10 DEF Live, MayBind
  <2>2. RecoverInv
    BY ZenonT(30) DEF BrokerInv, EffectInv
  <2>3. \A s \in Request : requests'[s] # NoRequest =>
           requests'[s].uri = uri \/ requests'[s] = requests[s]
    BY <1>r, ZenonT(30)
  <2> QED
    BY <1>u, <1>12, <2>1, <2>2, <2>3, ZenonT(30) DEF RecoverInv
<1> QED
  BY <1>m, <1>3, <1>4, <1>6, <1>7, <1>8, <1>9, <1>11, <1>13, <1>14, <1>15, ZenonT(30)
  DEF BrokerInv, ClaimsInv, MapInv, EffectInv

\* Its update has the last word on the route: the other bindings to it are unbound.
LEMMA BindUpdatesKeeps ==
    ASSUME BrokerInv, NEW r \in Request, BindUpdates(r)
    PROVE  BrokerInv'
<1>a. PICK id, uri, plan : id = requests[r].id /\ uri = requests[r].uri /\ plan = requests[r].plan
  OBVIOUS
<1> DEFINE u == [op |-> "Bind", uri |-> uri, plan |-> plan]
<1>1. /\ requests[r].step = "bind" /\ requests[r] # NoRequest /\ id \in DOMAIN claims
      /\ queue' = Append(queue, u) /\ u \in Update
      /\ Answers(id, "bound") /\ Moves(r, NoRequest)
      /\ UNCHANGED <<start, phase, fetched, bindMap, writing, decided, file, writeFailed,
                     device, lost, crossed>>
      /\ TypeInv'
  BY <1>a, BindUpdatesFacts, ZenonT(30) DEF BrokerInv
<1>2. /\ claims[id].status = "unknown" /\ claims[id].uri = uri /\ claims[id].plan = plan
      /\ PlanOf(u) = {plan} /\ u.uri = uri
      /\ \A s \in Request \ {r} : requests[s] # NoRequest => requests[s].id # id
  BY <1>a, <1>1, ZenonT(30) DEF BrokerInv, ClaimsInv, RequestsOK, RequestOK, PlanOf
<1>3. /\ Leads(uri, {plan})'
      /\ \A x : x # uri => /\ About(x)' = About(x)
                           /\ \A plans : Leads(x, plans) => Leads(x, plans)'
  <2>1. Decides(u)
    BY ZenonT(30) DEF Decides
  <2> QED
    BY <1>1, <1>2, <2>1, LeadsAppend, ZenonT(30) DEF BrokerInv
<1>4. queue' # <<>>
  BY <1>1 DEF BrokerInv, TypeInv
<1> HIDE DEF u
<1>5. /\ DOMAIN claims' = DOMAIN claims /\ claims'[id].status = "bound"
      /\ \A x \in DOMAIN claims : /\ claims'[x].uri = claims[x].uri
                                  /\ claims'[x].plan = claims[x].plan
                                  /\ x # id => claims'[x].status = claims[x].status
                                  /\ claims'[x].status = "unbound" <=> claims[x].status = "unbound"
      /\ requests'[r] = NoRequest /\ requests'[r].step = "none"
      /\ \A s \in Request : s # r => requests'[s] = requests[s]
  BY <1>1, <1>2 DEF Answers, Moves, NoRequest
<1>u. UNCHANGED <<start, phase, fetched, bindMap, writing, decided, file, writeFailed,
                  device, lost, crossed>>
  BY <1>1, ZenonT(30)
<1>k. id \in DOMAIN claims /\ requests[r].step = "bind"
  BY <1>1, ZenonT(30)
<1>6. FileInv'
  BY <1>u, <1>4, ZenonT(30) DEF BrokerInv, FileInv
<1>7. MapsAgree'
  BY <1>1, StillAgree, ZenonT(30) DEF BrokerInv, ClaimsInv
<1>8. RequestsOK'
  <2> SUFFICES ASSUME NEW s \in Request, s # r PROVE RequestOK(s)'
    BY <1>5 DEF RequestsOK, RequestOK
  <2>1. RequestOK(s)
    BY ZenonT(30) DEF BrokerInv, ClaimsInv, RequestsOK
  <2> QED
    BY <1>2, <1>5, <2>1, SMTT(30) DEF RequestOK
<1>9. OneBinding'
  BY <1>5 DEF BrokerInv, ClaimsInv, OneBinding
<1>10. Known'
  <2>1. Known
    BY DEF BrokerInv, MapInv
  <2> QED
    BY <1>a, <1>u, <1>k, <1>5, <2>1 DEF Known
<1>11. DOMAIN bindMap \subseteq DOMAIN claims /\ DOMAIN fetched \subseteq DOMAIN claims
          /\ DOMAIN device.records \subseteq DOMAIN claims
  BY MapsKnown, ZenonT(30) DEF BrokerInv, ClaimsInv
<1>12. Removal'
  <2>1. \A s \in Request : requests'[s].step = "unbind" =>
           s # r /\ requests'[s] = requests[s] /\ requests[s] # NoRequest /\ requests[s].id # id
             /\ requests[s].id \in DOMAIN claims
    BY <1>2, <1>5, SMTT(30) DEF NoRequest, BrokerInv, ClaimsInv, RequestsOK, RequestOK
  <2> QED
    BY <1>u, <1>5, <1>11, <2>1, SMTT(30) DEF BrokerInv, MapInv, Removal
<1>13. Fresh'
  BY <1>u, <1>5, ZenonT(30) DEF BrokerInv, MapInv, Fresh
<1>14. Live' = Live /\ \A x : Undone(x)' <=> Undone(x)
  <2>1. Live' = Live
    BY <1>u, <1>5, <1>11, ZenonT(30) DEF Live
  <2>2. \A x : Undone(x)' <=> Undone(x)
    BY <1>u, <1>5, <1>11, ZenonT(30) DEF Undone
  <2> QED
    BY <2>1, <2>2, ZenonT(30)
<1>15. UnboundInv'
  <2> SUFFICES ASSUME NEW x \in RouteURI,
                      \A y \in DOMAIN claims' : claims'[y].uri = x => claims'[y].status = "unbound",
                      phase' = "assign" => ~Undone(x)', phase' = "worker" => x \notin crossed'
               PROVE  Leads(x, {})'
    BY ZenonT(30) DEF UnboundInv
  <2>1. x # uri
    BY <1>k, <1>2, <1>5, ZenonT(30)
  <2>2. Leads(x, {})
    BY <1>u, <1>5, <1>14, ZenonT(30) DEF BrokerInv, EffectInv, UnboundInv
  <2> QED
    BY <1>3, <2>1, <2>2, ZenonT(30)
<1>16. BoundInv'
  <2> SUFFICES ASSUME phase' \in {"fetch", "worker"}, NEW x \in DOMAIN bindMap',
                      NEW y, NEW p, y = claims'[x].uri, p = claims'[x].plan,
                      claims'[x].status = "bound", y \notin crossed', p \in PlansOf[start']
               PROVE  Leads(y, {p})'
    BY DEF BoundInv
  <2>1. CASE x = id
    BY <1>k, <1>2, <1>3, <1>5, <2>1, ZenonT(30)
  <2>2. CASE x # id
    <3>1. x \in DOMAIN claims /\ claims[x].status = "bound"
      BY <1>u, <1>5, <1>11, <2>2, ZenonT(30)
    <3>2. claims[x].uri # uri
      BY <1>k, <1>2, <2>2, <3>1, ZenonT(30) DEF BrokerInv, ClaimsInv, OneBinding
    <3>3. Leads(claims[x].uri, {claims[x].plan})
      BY <1>u, <1>5, <3>1, ZenonT(30) DEF BrokerInv, EffectInv, BoundInv
    <3> QED
      BY <1>3, <1>5, <3>1, <3>2, <3>3, ZenonT(30)
  <2> QED
    BY <2>1, <2>2, ZenonT(30)
<1>17. RecoverInv'
  <2>1. \A x \in Live : x \in DOMAIN claims /\ claims'[x].uri = claims[x].uri
                           /\ claims'[x].plan = claims[x].plan
    BY <1>5, <1>11, ZenonT(30) DEF Live
  <2>2. phase # "worker" => \A x \in Live : claims[x].uri # uri
    BY <1>a, <1>1, ZenonT(30) DEF BrokerInv, EffectInv, RecoverInv
  <2>3. phase' # "worker" => \A x \in Live', s \in Request :
           requests'[s] # NoRequest => requests'[s].uri # claims'[x].uri
    <3>1. RecoverInv
      BY DEF BrokerInv, EffectInv
    <3>2. \A s \in Request : requests'[s] # NoRequest => requests'[s] = requests[s]
      BY <1>5
    <3> QED
      BY <1>u, <1>14, <2>1, <3>1, <3>2, ZenonT(30) DEF RecoverInv
  <2>4. ASSUME NEW x \in Live', NEW y, NEW p, y = claims'[x].uri, p = claims'[x].plan
        PROVE  /\ phase' \in {"fetch", "process"} => About(y)' = {}
               /\ phase' = "assign" /\ ~Undone(y)' /\ p \in PlansOf[start'] => Leads(y, {p})'
    BY <1>u, <1>3, <1>14, <2>1, <2>2, <2>4, ZenonT(30) DEF BrokerInv, EffectInv, RecoverInv
  <2> QED
    BY <2>3, <2>4, ZenonT(30) DEF RecoverInv
<1> QED
  BY <1>1, <1>6, <1>7, <1>8, <1>9, <1>10, <1>12, <1>13, <1>15, <1>16, <1>17, ZenonT(30)
  DEF BrokerInv, ClaimsInv, MapInv, EffectInv
-----------------------------------------------------------------------------
(***************************************************************************)
(* Every step keeps the invariant: requests to unbind                      *)
(***************************************************************************)

\* Unbind only notes what it is going to remove.
LEMMA UnbindKeeps ==
    ASSUME BrokerInv, NEW r \in Request, NEW id \in BindID, Unbind(r, id)
    PROVE  BrokerInv'
<1>0. /\ requests[r] = NoRequest
      /\ id \in DOMAIN claims /\ claims[id].status # "unbound" /\ id \in DOMAIN bindMap
      /\ \A s \in Request : requests[s].step = "bind" => requests[s].id # id
      /\ Answers(id, "unknown")
      /\ Moves(r, [step |-> "found", id |-> id, uri |-> bindMap[id].uri])
      /\ UNCHANGED <<start, phase, fetched, bindMap, queue, writing, decided, file,
                     writeFailed, device, lost, crossed>>
      /\ TypeInv'
  BY UnbindFacts, ZenonT(30) DEF BrokerInv
<1>1. /\ requests[r] = NoRequest /\ id \in DOMAIN bindMap
      /\ id \in DOMAIN claims /\ claims[id].status # "unbound"
      /\ \A s \in Request : requests[s].step = "bind" => requests[s].id # id
  BY <1>0, ZenonT(30)
<1>u. UNCHANGED <<start, phase, fetched, bindMap, queue, writing, decided, file,
                  writeFailed, device, lost, crossed>>
  BY <1>0, ZenonT(30)
<1>2. /\ DOMAIN claims' = DOMAIN claims /\ claims'[id].status = "unknown"
      /\ \A x \in DOMAIN claims : /\ claims'[x].uri = claims[x].uri
                                  /\ claims'[x].plan = claims[x].plan
                                  /\ x # id => claims'[x].status = claims[x].status
                                  /\ claims'[x].status = "unbound" <=> claims[x].status = "unbound"
                                  /\ claims'[x].status = "bound" => claims[x].status = "bound"
  BY <1>0, ZenonT(30) DEF Answers
<1>r. /\ requests[r].step = "none" /\ requests'[r] # NoRequest /\ requests'[r].step = "found"
      /\ requests'[r].id = id /\ requests'[r].uri = claims[id].uri
      /\ \A s \in Request : s # r => requests'[s] = requests[s]
  <2>1. bindMap[id].uri = claims[id].uri
    BY <1>1, ZenonT(30) DEF BrokerInv, ClaimsInv, MapsAgree, Agrees
  <2> QED
    BY <1>0, <2>1 DEF Moves, NoRequest
<1>3. FileInv'
  BY <1>u, <1>r, ZenonT(30) DEF BrokerInv, FileInv
<1>4. MapsAgree'
  BY <1>0, StillAgree, ZenonT(30) DEF BrokerInv, ClaimsInv
<1>5. RequestsOK'
  <2> SUFFICES ASSUME NEW s \in Request PROVE RequestOK(s)'
    BY ZenonT(30) DEF RequestsOK
  <2>1. CASE s = r
    BY <1>1, <1>2, <1>r, <2>1, ZenonT(30) DEF RequestOK
  <2>2. CASE s # r
    <3>1. RequestOK(s)
      BY DEF BrokerInv, ClaimsInv, RequestsOK
    <3> QED
      BY <1>1, <1>2, <1>r, <2>2, <3>1 DEF RequestOK
  <2> QED
    BY <2>1, <2>2, ZenonT(30)
<1>6. OneBinding'
  BY <1>2, ZenonT(30) DEF BrokerInv, ClaimsInv, OneBinding
<1>7. Known'
  <2>1. Known
    BY ZenonT(30) DEF BrokerInv, MapInv
  <2> QED
    BY <1>u, <1>2, <1>r, <2>1 DEF Known
<1>8. DOMAIN bindMap \subseteq DOMAIN claims /\ DOMAIN fetched \subseteq DOMAIN claims
         /\ DOMAIN device.records \subseteq DOMAIN claims
  BY MapsKnown, ZenonT(30) DEF BrokerInv, ClaimsInv
<1>9. Removal'
  <2>1. \A s \in Request : requests'[s].step = "unbind" =>
           s # r /\ requests'[s] = requests[s] /\ requests[s].id # id
             /\ requests[s].id \in DOMAIN claims
    <3> SUFFICES ASSUME NEW s \in Request, requests'[s].step = "unbind"
                 PROVE  /\ s # r /\ requests'[s] = requests[s] /\ requests[s].id # id
                        /\ requests[s].id \in DOMAIN claims
      OBVIOUS
    <3>1. s # r /\ requests'[s] = requests[s]
      BY <1>r, ZenonT(30)
    <3>2. RequestOK(s) /\ requests[s] # NoRequest
      BY <3>1 DEF BrokerInv, ClaimsInv, RequestsOK, NoRequest
    <3>3. requests[s].id \notin DOMAIN bindMap
      BY <3>1 DEF BrokerInv, MapInv, Removal
    <3> QED
      BY <1>1, <3>1, <3>2, <3>3, ZenonT(30) DEF RequestOK
  <2>2. Removal
    BY ZenonT(30) DEF BrokerInv, MapInv
  <2> QED
    BY <1>u, <1>2, <1>8, <2>1, <2>2 DEF Removal
<1>10. Fresh'
  <2>1. Fresh
    BY DEF BrokerInv, MapInv
  <2> QED
    BY <1>u, <1>1, <1>r, <2>1, ZenonT(30) DEF Fresh
<1>11. /\ \A x : About(x)' = About(x) /\ \A plans : Leads(x, plans) => Leads(x, plans)'
       /\ Live' = Live /\ \A x : Undone(x)' <=> Undone(x)
  <2>1. \A x : About(x)' = About(x) /\ \A plans : Leads(x, plans) => Leads(x, plans)'
    BY <1>u, LeadsSame, ZenonT(30)
  <2>2. Live' = Live
    BY <1>u, <1>2, <1>8, ZenonT(30) DEF Live
  <2>3. \A x : Undone(x)' <=> Undone(x)
    BY <1>u, <1>2, <1>8, ZenonT(30) DEF Undone
  <2> QED
    BY <2>1, <2>2, <2>3, ZenonT(30)
<1>12. UnboundInv'
  BY <1>u, <1>2, <1>11, ZenonT(30) DEF BrokerInv, EffectInv, UnboundInv
<1>13. BoundInv'
  BY <1>u, <1>2, <1>8, <1>11, ZenonT(30) DEF BrokerInv, EffectInv, BoundInv
<1>14. RecoverInv'
  <2>1. \A x \in Live : x \in DOMAIN claims /\ claims'[x].uri = claims[x].uri
                           /\ claims'[x].plan = claims[x].plan
    BY <1>2, <1>8, ZenonT(30) DEF Live
  <2>2. phase # "worker" => \A x \in Live : claims[x].uri # claims[id].uri
    BY <1>1, <1>8, ZenonT(30) DEF BrokerInv, MapInv, Fresh, ClaimsInv, OneBinding, Live
  <2>3. phase' # "worker" => \A x \in Live', s \in Request :
           requests'[s] # NoRequest => requests'[s].uri # claims'[x].uri
    BY <1>u, <1>r, <1>11, <2>1, <2>2 DEF BrokerInv, EffectInv, RecoverInv
  <2>4. ASSUME NEW x \in Live', NEW y, NEW p, y = claims'[x].uri, p = claims'[x].plan
        PROVE  /\ phase' \in {"fetch", "process"} => About(y)' = {}
               /\ phase' = "assign" /\ ~Undone(y)' /\ p \in PlansOf[start'] => Leads(y, {p})'
    BY <1>u, <1>11, <2>1, <2>4, ZenonT(30) DEF BrokerInv, EffectInv, RecoverInv
  <2> QED
    BY <2>3, <2>4, ZenonT(30) DEF RecoverInv
<1> QED
  BY <1>0, <1>3, <1>4, <1>5, <1>6, <1>7, <1>9, <1>10, <1>12, <1>13, <1>14, ZenonT(30)
  DEF BrokerInv, ClaimsInv, MapInv, EffectInv

\* The second of two goroutines that unbind the same binding crosses its route.
LEMMA UnbindRemovesKeeps ==
    ASSUME BrokerInv, NEW r \in Request, UnbindRemoves(r)
    PROVE  BrokerInv'
<1>a. PICK id, uri : id = requests[r].id /\ uri = requests[r].uri
  OBVIOUS
<1>0. /\ requests[r].step = "found" /\ requests[r] # NoRequest
      /\ DOMAIN bindMap' = DOMAIN bindMap \ {id}
      /\ \A x \in DOMAIN bindMap' : bindMap'[x] = bindMap[x]
      /\ id \in DOMAIN bindMap => crossed' = crossed
      /\ id \notin DOMAIN bindMap => crossed' = crossed \cup {uri}
      /\ Moves(r, [step |-> "unbind", id |-> id, uri |-> uri])
      /\ UNCHANGED <<start, phase, fetched, queue, writing, decided, file, writeFailed,
                     device, claims, lost>>
      /\ TypeInv'
  BY <1>a, UnbindRemovesFacts, ZenonT(30) DEF BrokerInv
<1>1. /\ DOMAIN bindMap' = DOMAIN bindMap \ {id}
      /\ \A x \in DOMAIN bindMap' : bindMap'[x] = bindMap[x]
      /\ id \in DOMAIN bindMap => crossed' = crossed
      /\ id \notin DOMAIN bindMap => crossed' = crossed \cup {uri}
  BY <1>0, ZenonT(30)
<1>f. requests[r].step = "found" /\ requests[r] # NoRequest
  BY <1>0, ZenonT(30)
<1>u. UNCHANGED <<start, phase, fetched, queue, writing, decided, file, writeFailed,
                  device, claims, lost>>
  BY <1>0, ZenonT(30)
<1>2. /\ requests'[r] # NoRequest /\ requests'[r].step = "unbind"
      /\ requests'[r].id = id /\ requests'[r].uri = uri
      /\ \A s \in Request : s # r => requests'[s] = requests[s]
      /\ crossed \subseteq crossed'
  <2>1. /\ requests'[r] = [step |-> "unbind", id |-> id, uri |-> uri]
        /\ \A s \in Request : s # r => requests'[s] = requests[s]
    BY <1>0, ZenonT(30) DEF Moves
  <2>2. requests'[r].step = "unbind" /\ requests'[r].id = id /\ requests'[r].uri = uri
    BY <2>1
  <2>3. requests'[r] # NoRequest
    BY <2>2 DEF NoRequest
  <2>4. crossed \subseteq crossed'
    BY <1>1, ZenonT(30)
  <2> QED
    BY <2>1, <2>2, <2>3, <2>4, ZenonT(30)
<1>3. id \in DOMAIN claims /\ claims[id].uri = uri /\ claims[id].status # "bound"
  BY <1>a, <1>f, ZenonT(30) DEF BrokerInv, ClaimsInv, RequestsOK, RequestOK
<1>4. FileInv'
  <2>1. FileInv
    BY ZenonT(30) DEF BrokerInv
  <2> QED
    BY <1>u, <1>2, <2>1 DEF FileInv
<1>5. MapsAgree'
  <2>1. MapsAgree
    BY DEF BrokerInv, ClaimsInv
  <2> QED
    BY <1>u, <1>1, <2>1, ZenonT(30) DEF MapsAgree, Agrees
<1>6. RequestsOK'
  <2> SUFFICES ASSUME NEW s \in Request PROVE RequestOK(s)'
    BY DEF RequestsOK
  <2>1. RequestOK(s) /\ RequestOK(r)
    BY DEF BrokerInv, ClaimsInv, RequestsOK
  <2>2. CASE s = r
    BY <1>u, <1>2, <1>3, <2>2, ZenonT(30) DEF RequestOK
  <2>3. CASE s # r
    <3>1. requests'[s] = requests[s] /\ claims' = claims
      BY <1>u, <1>2, <2>3, ZenonT(30)
    <3>2. ASSUME NEW q \in Request \ {s}, requests'[q] # NoRequest
          PROVE  requests[q] # NoRequest /\ requests'[q].id = requests[q].id
      BY <1>a, <1>f, <1>2, <3>2, ZenonT(30)
    <3> QED
      BY <2>1, <3>1, <3>2, ZenonT(30) DEF RequestOK
  <2> QED
    BY <2>2, <2>3
<1>7. OneBinding'
  BY <1>u DEF BrokerInv, ClaimsInv, OneBinding
<1>8. Known'
  <2>1. \A s \in Request : requests'[s].step = "bind" =>
           s # r /\ requests[s].step = "bind" /\ requests'[s].id = requests[s].id /\ requests[s].id # id
    <3> SUFFICES ASSUME NEW s \in Request, requests'[s].step = "bind"
                 PROVE  /\ s # r /\ requests[s].step = "bind"
                        /\ requests'[s].id = requests[s].id /\ requests[s].id # id
      OBVIOUS
    <3>1. s # r /\ requests'[s] = requests[s]
      BY <1>2, ZenonT(30)
    <3>2. RequestOK(s) /\ requests[s] # NoRequest
      BY <3>1 DEF BrokerInv, ClaimsInv, RequestsOK, NoRequest
    <3> QED
      BY <1>a, <1>f, <3>1, <3>2, ZenonT(30) DEF RequestOK
  <2>2. Known
    BY ZenonT(30) DEF BrokerInv, MapInv
  <2> QED
    BY <1>u, <1>1, <1>3, <2>1, <2>2, ZenonT(30) DEF Known
<1>9. Removal'
  <2>1. \A x \in DOMAIN bindMap' : claims'[x].status = "unbound" => claims'[x].uri \in crossed'
    BY <1>u, <1>1, <1>2, ZenonT(30) DEF BrokerInv, MapInv, Removal
  <2>2. ASSUME NEW s \in Request, s # r, requests[s].step = "unbind"
        PROVE  /\ requests[s].id \notin DOMAIN bindMap'
               /\ requests[s].uri \notin crossed' =>
                     /\ claims[requests[s].id].status = "unknown"
                     /\ requests[s].id # id
    <3>1. RequestOK(s) /\ requests[s] # NoRequest
      BY <2>2 DEF BrokerInv, ClaimsInv, RequestsOK, NoRequest
    <3>2. /\ requests[s].id \notin DOMAIN bindMap
          /\ requests[s].uri \notin crossed => claims[requests[s].id].status = "unknown"
      BY <2>2, ZenonT(30) DEF BrokerInv, MapInv, Removal
    <3>3. requests[s].id = id => requests[s].uri = uri
      BY <1>3, <3>1, ZenonT(30) DEF RequestOK
    <3> QED
      BY <1>1, <1>2, <3>2, <3>3, ZenonT(30)
  <2>3. uri \notin crossed' => claims[id].status = "unknown"
    <3>1. claims[id].status \in {"bound", "unbound", "unknown"}
      BY <1>3, ZenonT(30) DEF BrokerInv, TypeInv, IsMap, Claim
    <3> QED
      BY <1>1, <1>3, <3>1, ZenonT(30) DEF BrokerInv, MapInv, Removal
  <2>4. ASSUME NEW s \in Request, requests'[s].step = "unbind"
        PROVE  /\ requests'[s].id \notin DOMAIN bindMap'
               /\ requests'[s].uri \notin crossed' =>
                     /\ claims'[requests'[s].id].status = "unknown"
                     /\ \A t \in Request \ {s} :
                           requests'[t].step = "unbind" => requests'[t].id # requests'[s].id
    <3>1. CASE s = r
      <4>1. requests'[s].id = id /\ requests'[s].uri = uri /\ id \notin DOMAIN bindMap'
        BY <1>1, <1>2, <3>1, ZenonT(30)
      <4>2. claims' = claims
        BY <1>u, ZenonT(30)
      <4>3. ASSUME uri \notin crossed', NEW t \in Request \ {s}, requests'[t].step = "unbind"
            PROVE  requests'[t].id # id
        <5>1. t # r /\ requests'[t] = requests[t]
          BY <1>2, <3>1, ZenonT(30)
        <5>2. RequestOK(t) /\ requests[t] # NoRequest
          BY <4>3, <5>1 DEF BrokerInv, ClaimsInv, RequestsOK, NoRequest
        <5>3. requests[t].id = id => requests[t].uri = uri
          BY <1>3, <5>2, ZenonT(30) DEF RequestOK
        <5> QED
          BY <2>2, <4>3, <5>1, <5>3, ZenonT(30)
      <4> QED
        BY <2>3, <4>1, <4>2, <4>3, ZenonT(30)
    <3>2. CASE s # r
      <4>1. requests'[s] = requests[s] /\ claims' = claims
        BY <1>u, <1>2, <3>2, ZenonT(30)
      <4>2. /\ requests[s].id \notin DOMAIN bindMap'
            /\ requests[s].uri \notin crossed' => /\ claims[requests[s].id].status = "unknown"
                                                 /\ requests[s].id # id
        BY <2>2, <2>4, <3>2, <4>1, ZenonT(30)
      <4>3. ASSUME requests[s].uri \notin crossed', NEW q \in Request \ {s},
                   requests'[q].step = "unbind"
            PROVE  requests'[q].id # requests[s].id
        <5>1. CASE q = r
          BY <1>2, <4>2, <4>3, <5>1, ZenonT(30)
        <5>2. CASE q # r
          <6>1. requests'[q] = requests[q] /\ requests[s].uri \notin crossed
            BY <1>2, <4>3, <5>2, ZenonT(30)
          <6> QED
            BY <2>4, <4>1, <4>3, <6>1, ZenonT(30) DEF BrokerInv, MapInv, Removal
        <5> QED
          BY <5>1, <5>2, ZenonT(30)
      <4> QED
        BY <4>1, <4>2, <4>3, ZenonT(30)
    <3> QED
      BY <3>1, <3>2, ZenonT(30)
  <2> QED
    BY <2>1, <2>4 DEF Removal
<1>10. Fresh'
  <2>1. Fresh
    BY ZenonT(30) DEF BrokerInv, MapInv
  <2> QED
    BY <1>a, <1>f, <1>u, <1>1, <1>2, <2>1, ZenonT(30) DEF Fresh
<1>11. /\ \A x : About(x)' = About(x) /\ \A plans : Leads(x, plans) => Leads(x, plans)'
       /\ Live' = Live /\ \A x : Undone(x)' <=> Undone(x)
  <2>1. \A x : About(x)' = About(x) /\ \A plans : Leads(x, plans) => Leads(x, plans)'
    BY <1>u, LeadsSame, ZenonT(30)
  <2> QED
    BY <1>u, <2>1, ZenonT(30) DEF Live, Undone
<1>12. UnboundInv'
  BY <1>u, <1>2, <1>11, ZenonT(30) DEF BrokerInv, EffectInv, UnboundInv
<1>13. BoundInv'
  BY <1>u, <1>1, <1>2, <1>11, ZenonT(30) DEF BrokerInv, EffectInv, BoundInv
<1>14. RecoverInv'
  <2>1. RecoverInv
    BY DEF BrokerInv, EffectInv
  <2>2. /\ UNCHANGED <<claims, phase, start>>
        /\ \A s \in Request : requests'[s] # NoRequest =>
              requests[s] # NoRequest /\ requests'[s].uri = requests[s].uri
    BY <1>a, <1>f, <1>u, <1>2, ZenonT(30)
  <2> QED
    BY <1>11, <2>1, <2>2, ZenonT(30) DEF RecoverInv
<1> QED
  BY <1>0, <1>4, <1>5, <1>6, <1>7, <1>8, <1>9, <1>10, <1>12, <1>13, <1>14, ZenonT(30)
  DEF BrokerInv, ClaimsInv, MapInv, EffectInv

\* The update of an Unbind has the last word on the route as well: no other binding to
\* it has been made, unless the route is crossed.
LEMMA UnbindUpdatesKeeps ==
    ASSUME BrokerInv, NEW r \in Request, UnbindUpdates(r)
    PROVE  BrokerInv'
<1>a. PICK id, uri : id = requests[r].id /\ uri = requests[r].uri
  OBVIOUS
<1> DEFINE u == [op |-> "Unbind", uri |-> uri]
<1>0. /\ requests[r].step = "unbind" /\ requests[r] # NoRequest /\ id \in DOMAIN claims
      /\ queue' = Append(queue, u) /\ u \in Update
      /\ Answers(id, "unbound") /\ Moves(r, NoRequest)
      /\ UNCHANGED <<start, phase, fetched, bindMap, writing, decided, file, writeFailed,
                     device, lost, crossed>>
      /\ TypeInv'
  BY <1>a, UnbindUpdatesFacts, ZenonT(30) DEF BrokerInv
<1>1. /\ requests[r].step = "unbind" /\ requests[r] # NoRequest /\ id \in DOMAIN claims
      /\ queue' = Append(queue, u) /\ u \in Update
  BY <1>0, ZenonT(30)
<1>u. UNCHANGED <<start, phase, fetched, bindMap, writing, decided, file, writeFailed,
                  device, lost, crossed>>
  BY <1>0, ZenonT(30)
<1>2. /\ claims[id].uri = uri /\ PlanOf(u) = {} /\ u.uri = uri
      /\ id \notin DOMAIN bindMap
      /\ uri \notin crossed =>
            /\ claims[id].status = "unknown"
            /\ \A s \in Request \ {r} : requests[s].step = "unbind" => requests[s].id # id
  BY <1>a, <1>1, ZenonT(30) DEF BrokerInv, ClaimsInv, RequestsOK, RequestOK, PlanOf, MapInv, Removal
<1>3. /\ Leads(uri, {})'
      /\ \A x : x # uri => /\ About(x)' = About(x)
                           /\ \A plans : Leads(x, plans) => Leads(x, plans)'
  <2>1. Decides(u)
    BY ZenonT(30) DEF Decides
  <2> QED
    BY <1>u, <1>1, <1>2, <2>1, LeadsAppend, ZenonT(30) DEF BrokerInv
<1>4. queue' # <<>>
  BY <1>1 DEF BrokerInv, TypeInv
<1> HIDE DEF u
<1>5. /\ DOMAIN claims' = DOMAIN claims /\ claims'[id].status = "unbound"
      /\ \A x \in DOMAIN claims : /\ claims'[x].uri = claims[x].uri
                                  /\ claims'[x].plan = claims[x].plan
                                  /\ x # id => claims'[x].status = claims[x].status
      /\ requests'[r] = NoRequest /\ requests'[r].step = "none"
      /\ \A s \in Request : s # r => requests'[s] = requests[s]
  <2>1. Answers(id, "unbound") /\ Moves(r, NoRequest)
    BY <1>0
  <2> QED
    BY <2>1 DEF Answers, Moves, NoRequest
<1>f. requests[r].step = "unbind" /\ requests[r] # NoRequest /\ id \in DOMAIN claims
  BY <1>1, ZenonT(30)
<1>c. /\ DOMAIN claims' = DOMAIN claims
      /\ \A x \in DOMAIN claims : /\ claims'[x].uri = claims[x].uri
                                  /\ claims'[x].plan = claims[x].plan
                                  /\ x # id => claims'[x].status = claims[x].status
  BY <1>5, ZenonT(30)
<1>r. /\ requests'[r] = NoRequest
      /\ \A s \in Request : s # r => requests'[s] = requests[s]
  BY <1>5, ZenonT(30)
<1>6. FileInv'
  BY <1>u, <1>4, ZenonT(30) DEF BrokerInv, FileInv
<1>7. MapsAgree'
  BY <1>0, StillAgree, ZenonT(30) DEF BrokerInv, ClaimsInv
<1>8. RequestsOK'
  <2> SUFFICES ASSUME NEW s \in Request, s # r PROVE RequestOK(s)'
    BY <1>5, ZenonT(30) DEF RequestsOK, RequestOK
  <2>1. RequestOK(s)
    BY ZenonT(30) DEF BrokerInv, ClaimsInv, RequestsOK
  <2> QED
    <3>1. requests'[s] = requests[s]
      BY <1>r, ZenonT(30)
    <3>2. \A q \in Request : requests'[q] # NoRequest => requests'[q] = requests[q]
      BY <1>r, ZenonT(30)
    <3>3. requests[s] # NoRequest /\ requests[s].step = "bind" => requests[s].id # id
      BY <1>a, <1>f, <2>1, ZenonT(30) DEF RequestOK
    <3>4. claims'[id].status = "unbound"
      BY <1>5, ZenonT(30)
    <3> QED
      BY <1>c, <2>1, <3>1, <3>2, <3>3, <3>4, ZenonT(30) DEF RequestOK
<1>9. OneBinding'
  <2>1. OneBinding
    BY DEF BrokerInv, ClaimsInv
  <2> QED
    BY <1>5, <2>1 DEF OneBinding
<1>10. Known'
  <2>1. Known
    BY DEF BrokerInv, MapInv
  <2> QED
    BY <1>u, <1>5, <2>1, ZenonT(30) DEF Known
<1>11. DOMAIN bindMap \subseteq DOMAIN claims /\ DOMAIN fetched \subseteq DOMAIN claims
          /\ DOMAIN device.records \subseteq DOMAIN claims
  BY MapsKnown, ZenonT(30) DEF BrokerInv, ClaimsInv
<1>12. Removal'
  <2>1. \A x \in DOMAIN bindMap' : claims'[x].status = "unbound" => claims'[x].uri \in crossed'
    BY <1>u, <1>2, <1>c, <1>11, ZenonT(30) DEF BrokerInv, MapInv, Removal
  <2>2. ASSUME NEW s \in Request, requests'[s].step = "unbind"
        PROVE  /\ requests'[s].id \notin DOMAIN bindMap'
               /\ requests'[s].uri \notin crossed' =>
                     /\ claims'[requests'[s].id].status = "unknown"
                     /\ \A t \in Request \ {s} :
                           requests'[t].step = "unbind" => requests'[t].id # requests'[s].id
    <3>1. s # r /\ requests'[s] = requests[s]
      BY <1>5, <2>2, ZenonT(30)
    <3>2. RequestOK(s) /\ requests[s] # NoRequest
      <4>1. RequestOK(s)
        BY ZenonT(30) DEF BrokerInv, ClaimsInv, RequestsOK
      <4>2. requests[s] # NoRequest
        BY <2>2, <3>1 DEF NoRequest
      <4> QED
        BY <4>1, <4>2, ZenonT(30)
    <3>3. requests[s].uri \notin crossed => requests[s].id # id
      BY <1>2, <2>2, <3>1, <3>2, ZenonT(30) DEF RequestOK
    <3>4. /\ requests[s].id \notin DOMAIN bindMap
          /\ requests[s].uri \notin crossed =>
                /\ claims[requests[s].id].status = "unknown"
                /\ \A t \in Request \ {s} :
                      requests[t].step = "unbind" => requests[t].id # requests[s].id
      BY <2>2, <3>1, ZenonT(30) DEF BrokerInv, MapInv, Removal
    <3>5. requests[s].id \in DOMAIN claims
      BY <3>2, ZenonT(30) DEF RequestOK
    <3>6. \A t \in Request : requests'[t].step = "unbind" => requests'[t] = requests[t]
      BY <1>5, ZenonT(30)
    <3>7. UNCHANGED <<bindMap, crossed>>
      BY <1>u, ZenonT(30)
    <3> QED
      BY <1>5, <3>1, <3>3, <3>4, <3>5, <3>6, <3>7, ZenonT(30)
  <2> QED
    BY <2>1, <2>2, ZenonT(30) DEF Removal
<1>13. Fresh'
  <2>1. Fresh
    BY DEF BrokerInv, MapInv
  <2> QED
    BY <1>u, <1>5, <2>1, ZenonT(30) DEF Fresh
<1>14. /\ Live' \subseteq Live
       /\ phase = "assign" => \A x : Undone(x) => Undone(x)'
       /\ phase = "assign" => \A x : Undone(x)' => Undone(x)
  <2>1. Live' \subseteq Live
    <3> SUFFICES ASSUME NEW x \in Live' PROVE x \in Live
      OBVIOUS
    <3>1. x \in DOMAIN device.records /\ x \in DOMAIN claims /\ claims'[x].status # "unbound"
      BY <1>u, <1>11, ZenonT(30) DEF Live
    <3> QED
      BY <1>5, <3>1, ZenonT(30) DEF Live
  <2>2. phase = "assign" => \A x \in DOMAIN fetched : x # id
    BY <1>a, <1>f, ZenonT(30) DEF BrokerInv, MapInv, Fresh
  <2>3. phase = "assign" => \A x : Undone(x) => Undone(x)'
    BY <1>u, <1>c, <1>11, <2>2, ZenonT(30) DEF Undone
  <2>4. phase = "assign" => \A x : Undone(x)' => Undone(x)
    BY <1>u, <1>c, <1>11, <2>2, ZenonT(30) DEF Undone
  <2> QED
    BY <2>1, <2>3, <2>4, ZenonT(30)
<1>15. UnboundInv'
  <2> SUFFICES ASSUME NEW x \in RouteURI, x # uri,
                      \A y \in DOMAIN claims' : claims'[y].uri = x => claims'[y].status = "unbound",
                      phase' = "assign" => ~Undone(x)', phase' = "worker" => x \notin crossed'
               PROVE  Leads(x, {})'
    BY <1>3, ZenonT(30) DEF UnboundInv
  <2>1. ASSUME NEW y \in DOMAIN claims, claims[y].uri = x PROVE claims[y].status = "unbound"
    <3>1. y # id
      BY <1>2, <2>1, ZenonT(30)
    <3>2. y \in DOMAIN claims' /\ claims'[y].uri = x /\ claims'[y].status = claims[y].status
      BY <1>c, <2>1, <3>1, ZenonT(30)
    <3> QED
      BY <3>2, ZenonT(30)
  <2>2. Leads(x, {})
    BY <1>u, <1>14, <2>1, ZenonT(30) DEF BrokerInv, EffectInv, UnboundInv
  <2> QED
    BY <1>3, <2>2, ZenonT(30)
<1>16. BoundInv'
  <2> SUFFICES ASSUME phase' \in {"fetch", "worker"}, NEW x \in DOMAIN bindMap',
                      NEW y, NEW p, y = claims'[x].uri, p = claims'[x].plan,
                      claims'[x].status = "bound", y \notin crossed', p \in PlansOf[start']
               PROVE  Leads(y, {p})'
    BY ZenonT(30) DEF BoundInv
  <2>1. x \in DOMAIN claims /\ x # id /\ claims[x].status = "bound"
    BY <1>u, <1>2, <1>c, <1>11, ZenonT(30)
  <2>2. y # uri
    BY <1>f, <1>u, <1>2, <1>c, <2>1, ZenonT(30) DEF BrokerInv, ClaimsInv, OneBinding
  <2>3. Leads(y, {p})
    BY <1>u, <1>c, <2>1, ZenonT(30) DEF BrokerInv, EffectInv, BoundInv
  <2> QED
    BY <1>3, <2>2, <2>3, ZenonT(30)
<1>17. RecoverInv'
  <2>1. \A x \in Live : x \in DOMAIN claims /\ claims'[x].uri = claims[x].uri
                           /\ claims'[x].plan = claims[x].plan
    BY <1>c, <1>11, ZenonT(30) DEF Live
  <2>2. phase # "worker" => \A x \in Live : claims[x].uri # uri
    BY <1>a, <1>f, ZenonT(30) DEF BrokerInv, EffectInv, RecoverInv
  <2>3. phase' # "worker" => \A x \in Live', s \in Request :
           requests'[s] # NoRequest => requests'[s].uri # claims'[x].uri
    <3>1. phase # "worker" => \A x \in Live, s \in Request :
             requests[s] # NoRequest => requests[s].uri # claims[x].uri
      BY ZenonT(30) DEF BrokerInv, EffectInv, RecoverInv
    <3>2. phase' = phase /\ Live' \subseteq Live
      BY <1>u, <1>14, ZenonT(30)
    <3> QED
      BY <1>r, <2>1, <3>1, <3>2, ZenonT(30)
  <2>4. ASSUME NEW x \in Live', NEW y, NEW p, y = claims'[x].uri, p = claims'[x].plan
        PROVE  /\ phase' \in {"fetch", "process"} => About(y)' = {}
               /\ phase' = "assign" /\ ~Undone(y)' /\ p \in PlansOf[start'] => Leads(y, {p})'
    BY <1>u, <1>3, <1>14, <2>1, <2>2, <2>4, ZenonT(30) DEF BrokerInv, EffectInv, RecoverInv
  <2> QED
    BY <2>3, <2>4, ZenonT(30) DEF RecoverInv
<1> QED
  BY <1>0, <1>6, <1>7, <1>8, <1>9, <1>10, <1>12, <1>13, <1>15, <1>16, <1>17, ZenonT(30)
  DEF BrokerInv, ClaimsInv, MapInv, EffectInv
-----------------------------------------------------------------------------
(***************************************************************************)
(* Every step keeps the invariant: the router, the driver and a restart    *)
(***************************************************************************)

\* What a step that leaves requests and bindings alone keeps.
LEMMA ClaimsKept ==
    ASSUME ClaimsInv, UNCHANGED <<requests, claims>>
    PROVE  RequestsOK' /\ OneBinding'
  BY DEF ClaimsInv, RequestsOK, RequestOK, OneBinding

\* Run has the records of the BIG-IP, on whose routes nothing is queued.
LEMMA FetchKeeps ==
    ASSUME BrokerInv, fetchExistingDataGroup
    PROVE  BrokerInv'
<1>1. /\ phase = "fetch" /\ phase' = "process" /\ fetched' = device.records /\ TypeInv'
      /\ UNCHANGED <<start, bindMap, queue, writing, decided, requests, file, writeFailed,
                     device, claims, lost, crossed>>
  BY FetchFacts, ZenonT(30) DEF BrokerInv
<1>2. FileInv'
  BY <1>1, ZenonT(30) DEF BrokerInv, FileInv
<1>3. ClaimsInv'
  BY <1>1, ClaimsKept, ZenonT(30) DEF BrokerInv, ClaimsInv, MapsAgree, Agrees
<1>4. MapInv'
  BY <1>1, ZenonT(30) DEF BrokerInv, MapInv, Known, Removal, Fresh
<1>5. /\ \A x : About(x)' = About(x) /\ \A plans : Leads(x, plans) => Leads(x, plans)'
      /\ Live' = Live
  BY <1>1, LeadsSame, ZenonT(30) DEF Live
<1>6. EffectInv'
  BY <1>1, <1>5, ZenonT(30) DEF BrokerInv, EffectInv, UnboundInv, BoundInv, RecoverInv
<1> QED
  BY <1>1, <1>2, <1>3, <1>4, <1>6, ZenonT(30) DEF BrokerInv

\* Without them, it has forgotten what is not in the map.
LEMMA FetchFailsKeeps ==
    ASSUME BrokerInv, fetchFails
    PROVE  BrokerInv'
<1>1. /\ phase = "fetch" /\ phase' = "worker" /\ TypeInv'
      /\ lost' = lost \cup (DOMAIN claims \ DOMAIN bindMap)
      /\ UNCHANGED <<start, fetched, bindMap, queue, writing, decided, requests, file,
                     writeFailed, device, claims, crossed>>
  BY FetchFailsFacts, ZenonT(30) DEF BrokerInv
<1>2. FileInv'
  BY <1>1, ZenonT(30) DEF BrokerInv, FileInv
<1>3. ClaimsInv'
  BY <1>1, ClaimsKept, ZenonT(30) DEF BrokerInv, ClaimsInv, MapsAgree, Agrees
<1>4. MapInv'
  BY <1>1, ZenonT(30) DEF BrokerInv, MapInv, Known, Removal, Fresh
<1>5. \A x : About(x)' = About(x) /\ \A plans : Leads(x, plans) => Leads(x, plans)'
  BY <1>1, LeadsSame, ZenonT(30)
<1>6. EffectInv'
  BY <1>1, <1>5, ZenonT(30) DEF BrokerInv, EffectInv, UnboundInv, BoundInv, RecoverInv
<1> QED
  BY <1>1, <1>2, <1>3, <1>4, <1>6, ZenonT(30) DEF BrokerInv

\* The updates of processBrokerDataGroup lead each route that has one binding among
\* the records to its plan.
LEMMA ProcessKeeps ==
    ASSUME BrokerInv, processBrokerDataGroup
    PROVE  BrokerInv'
<1>1. /\ phase = "process" /\ phase' = "assign" /\ TypeInv'
      /\ UNCHANGED <<start, fetched, bindMap, writing, decided, requests, file,
                     writeFailed, device, claims, lost, crossed>>
  BY ProcessFacts, ZenonT(30) DEF BrokerInv
<1>2. PICK more \in Seq(Update) :
         /\ queue' = queue \o more
         /\ \A k \in DOMAIN more : \E id \in Recovered :
               /\ more[k].op = "Bind" /\ more[k].uri = fetched[id].uri
               /\ more[k].plan = fetched[id].plan
         /\ \A id \in Recovered : \E k \in DOMAIN more :
               /\ more[k].op = "Bind" /\ more[k].uri = fetched[id].uri
               /\ more[k].plan = fetched[id].plan
  BY ProcessFacts, ZenonT(30) DEF BrokerInv
<1>a. \A uri, plans :
         /\ \A k \in DOMAIN more : more[k].uri = uri => PlanOf(more[k]) = plans
         /\ (\E k \in DOMAIN more : more[k].uri = uri) \/ Leads(uri, plans)
         => Leads(uri, plans)'
  <2>1. /\ TypeInv /\ more \in Seq(Update) /\ queue' = queue \o more /\ UNCHANGED decided
        /\ \A k \in DOMAIN more : Decides(more[k])
    BY <1>1, <1>2, ZenonT(30) DEF BrokerInv, Decides
  <2> QED
    BY <2>1, LeadsMore, ZenonT(30)
<1>3. FileInv'
  BY <1>1, ZenonT(30) DEF BrokerInv, FileInv
<1>4. ClaimsInv'
  BY <1>1, ClaimsKept, ZenonT(30) DEF BrokerInv, ClaimsInv, MapsAgree, Agrees
<1>5. MapInv'
  BY <1>1, ZenonT(30) DEF BrokerInv, MapInv, Known, Removal, Fresh
<1>6. /\ fetched = device.records
      /\ \A id \in DOMAIN fetched : /\ id \in DOMAIN claims /\ fetched[id].uri = claims[id].uri
                                    /\ fetched[id].plan = claims[id].plan
  BY <1>1, ZenonT(30) DEF BrokerInv, MapInv, Fresh, ClaimsInv, MapsAgree, Agrees
<1>7. \A k \in DOMAIN more : \E id \in Recovered :
         id \in DOMAIN fetched /\ more[k].uri = claims[id].uri /\ PlanOf(more[k]) = {claims[id].plan}
  <2> SUFFICES ASSUME NEW k \in DOMAIN more
               PROVE  \E id \in Recovered :
                         /\ id \in DOMAIN fetched /\ more[k].uri = claims[id].uri
                         /\ PlanOf(more[k]) = {claims[id].plan}
    OBVIOUS
  <2>1. PICK id \in Recovered : /\ more[k].op = "Bind" /\ more[k].uri = fetched[id].uri
                                /\ more[k].plan = fetched[id].plan
    BY <1>2
  <2>2. id \in DOMAIN fetched
    BY ZenonT(30) DEF Recovered
  <2>3. more[k].uri = claims[id].uri /\ PlanOf(more[k]) = {claims[id].plan}
    BY <1>6, <2>1, <2>2, ZenonT(30) DEF PlanOf
  <2> QED
    BY <2>2, <2>3, ZenonT(30)
<1>8. Live' = Live /\ \A x : Undone(x)' <=> Undone(x)
  BY <1>1 DEF Live, Undone
<1>9. UnboundInv'
  <2> SUFFICES ASSUME NEW x \in RouteURI,
                      \A y \in DOMAIN claims' : claims'[y].uri = x => claims'[y].status = "unbound",
                      ~Undone(x)'
               PROVE  Leads(x, {})'
    BY <1>1, ZenonT(30) DEF UnboundInv
  <2>1. Leads(x, {})
    BY <1>1, ZenonT(30) DEF BrokerInv, EffectInv, UnboundInv
  <2>2. \A k \in DOMAIN more : more[k].uri # x
    BY <1>1, <1>6, <1>7, <1>8, ZenonT(30) DEF Undone
  <2> QED
    BY <1>a, <2>1, <2>2, ZenonT(30)
<1>10. BoundInv'
  BY <1>1 DEF BoundInv
<1>11. RecoverInv'
  <2>1. ASSUME NEW id \in Live, NEW y, NEW p, y = claims[id].uri, p = claims[id].plan,
               ~Undone(y), p \in PlansOf[start]
        PROVE  Leads(y, {p})'
    <3>1. id \in DOMAIN fetched /\ id \in DOMAIN claims /\ id \in Recovered
             /\ claims[id].status # "unbound"
      BY <1>6, <2>1, ZenonT(30) DEF Live, Recovered
    <3>2. \A k \in DOMAIN more : more[k].uri = y => PlanOf(more[k]) = {p}
      <4> SUFFICES ASSUME NEW k \in DOMAIN more, more[k].uri = y PROVE PlanOf(more[k]) = {p}
        OBVIOUS
      <4>1. PICK other \in Recovered : /\ other \in DOMAIN fetched /\ claims[other].uri = y
                                       /\ PlanOf(more[k]) = {claims[other].plan}
        BY <1>7, ZenonT(30)
      <4>2. claims[other].status # "unbound" /\ other \in DOMAIN claims
        BY <1>6, <2>1, <4>1, ZenonT(30) DEF Undone
      <4>3. other = id
        BY <2>1, <3>1, <4>1, <4>2, ZenonT(30) DEF BrokerInv, ClaimsInv, OneBinding
      <4> QED
        BY <2>1, <4>1, <4>3, ZenonT(30)
    <3>3. \E k \in DOMAIN more : more[k].uri = y
      <4>1. PICK k \in DOMAIN more : more[k].uri = fetched[id].uri
        BY <1>2, <3>1, ZenonT(30)
      <4>2. fetched[id].uri = y
        BY <1>6, <2>1, <3>1, ZenonT(30)
      <4> QED
        BY <4>1, <4>2, ZenonT(30)
    <3> QED
      BY <1>a, <3>2, <3>3, ZenonT(30)
  <2>2. \A id \in Live', r \in Request :
           requests'[r] # NoRequest => requests'[r].uri # claims'[id].uri
    BY <1>1, <1>8, ZenonT(30) DEF BrokerInv, EffectInv, RecoverInv
  <2> QED
    BY <1>1, <1>8, <2>1, <2>2, ZenonT(30) DEF RecoverInv
<1> QED
  BY <1>1, <1>3, <1>4, <1>5, <1>9, <1>10, <1>11, ZenonT(30) DEF BrokerInv, EffectInv

\* The map takes what was fetched: a record that was unbound crosses its route.
LEMMA AssignKeeps ==
    ASSUME BrokerInv, assignBindMap
    PROVE  BrokerInv'
<1>1. /\ phase = "assign" /\ phase' = "worker" /\ TypeInv'
      /\ bindMap' = fetched /\ fetched' = EmptyMap
      /\ lost' = lost \cup (DOMAIN claims \ DOMAIN fetched)
      /\ \A uri \in RouteURI : uri \notin crossed' <=> uri \notin crossed /\ ~Undone(uri)
      /\ UNCHANGED <<start, queue, writing, decided, requests, file, writeFailed, device,
                     claims>>
  BY AssignFacts, ZenonT(30) DEF BrokerInv, ClaimsInv
<1>2. FileInv'
  BY <1>1, ZenonT(30) DEF BrokerInv, FileInv
<1>3. ClaimsInv'
  BY <1>1, ClaimsKept, EmptyIsBindMap, ZenonT(30) DEF BrokerInv, ClaimsInv, MapsAgree, Agrees
<1>4. Known' /\ Fresh'
  BY <1>1, ZenonT(30) DEF Known, Fresh
<1>5. \A id \in DOMAIN claims : claims[id].uri \in RouteURI
  BY ZenonT(30) DEF BrokerInv, TypeInv, IsMap, Claim
<1>6. fetched = device.records /\ DOMAIN fetched \subseteq DOMAIN claims
  BY <1>1, MapsKnown, ZenonT(30) DEF BrokerInv, MapInv, Fresh, ClaimsInv
<1>7. Removal'
  <2>1. \A id \in DOMAIN bindMap' : claims'[id].status = "unbound" => claims'[id].uri \in crossed'
    BY <1>1, <1>5, <1>6, ZenonT(30) DEF Undone
  <2>2. ASSUME NEW r \in Request, requests[r].step = "unbind"
        PROVE  requests[r].uri \in RouteURI /\ requests[r] # NoRequest
    BY <2>2, RequestKinds, ZenonT(30) DEF BrokerInv
  <2> QED
    BY <1>1, <1>6, <2>1, <2>2, ZenonT(30) DEF BrokerInv, MapInv, Removal, Fresh
<1>8. \A x : \A plans : Leads(x, plans) => Leads(x, plans)'
  BY <1>1, LeadsSame, ZenonT(30)
<1>9. UnboundInv'
  BY <1>1, <1>8, ZenonT(30) DEF BrokerInv, EffectInv, UnboundInv
<1>10. BoundInv'
  BY <1>1, <1>5, <1>6, <1>8, ZenonT(30) DEF BrokerInv, EffectInv, BoundInv, RecoverInv, Live
<1>11. RecoverInv'
  BY <1>1, ZenonT(30) DEF RecoverInv
<1> QED
  BY <1>1, <1>2, <1>3, <1>4, <1>7, <1>9, <1>10, <1>11, ZenonT(30) DEF BrokerInv, MapInv, EffectInv

\* The worker goes where the queue leads.
LEMMA ProcessItemKeeps ==
    ASSUME BrokerInv, processItem
    PROVE  BrokerInv'
<1>1. /\ phase = "worker" /\ queue # <<>> /\ queue' = Tail(queue)
      /\ writing' = (Tail(queue) = <<>>) /\ TypeInv'
      /\ UNCHANGED <<start, phase, fetched, bindMap, requests, file, writeFailed, device,
                     claims, lost, crossed>>
  BY ProcessItemFacts, ZenonT(30) DEF BrokerInv
<1>2. FileInv'
  BY <1>1, ZenonT(30) DEF BrokerInv, FileInv
<1>3. ClaimsInv'
  BY <1>1, ClaimsKept, ZenonT(30) DEF BrokerInv, ClaimsInv, MapsAgree, Agrees
<1>4. MapInv'
  BY <1>1, ZenonT(30) DEF BrokerInv, MapInv, Known, Removal, Fresh
<1>5. \A x, plans : Leads(x, plans) => Leads(x, plans)'
  BY LeadsProcess, ZenonT(30) DEF BrokerInv
<1>6. EffectInv'
  BY <1>1, <1>5, ZenonT(30) DEF BrokerInv, EffectInv, UnboundInv, BoundInv, RecoverInv
<1> QED
  BY <1>1, <1>2, <1>3, <1>4, <1>6, ZenonT(30) DEF BrokerInv

\* It writes what the map holds now, which may be more than when it decided to.
LEMMA WriteKeeps ==
    ASSUME BrokerInv, writeConfig
    PROVE  BrokerInv'
<1>1. /\ writing /\ ~writing' /\ TypeInv'
      /\ UNCHANGED <<start, phase, fetched, bindMap, queue, decided, requests, device,
                     claims, lost, crossed>>
  BY WriteFacts, ZenonT(30) DEF BrokerInv
<1>f. \/ file' = Group(bindMap) /\ file'.records = bindMap
      \/ file'.records \in {file.records, EmptyMap} /\ writeFailed' = TRUE
  BY WriteFacts, ZenonT(30) DEF BrokerInv
<1>2. FileInv'
  BY <1>1, <1>f, ZenonT(30) DEF BrokerInv, FileInv
<1>3. ClaimsInv'
  <2>1. RequestsOK' /\ OneBinding'
    BY <1>1, ClaimsKept, ZenonT(30) DEF BrokerInv
  <2>2. MapsAgree'
    <3>1. MapsAgree
      BY DEF BrokerInv, ClaimsInv
    <3>2. file'.records \in {bindMap, file.records, EmptyMap}
      BY <1>f
    <3>3. UNCHANGED <<fetched, bindMap, device, claims>>
      BY <1>1
    <3> QED
      BY <3>1, <3>2, <3>3, EmptyIsBindMap, ZenonT(30) DEF MapsAgree, Agrees
  <2> QED
    BY <2>1, <2>2, ZenonT(30) DEF ClaimsInv
<1>4. MapInv'
  BY <1>1, ZenonT(30) DEF BrokerInv, MapInv, Known, Removal, Fresh
<1>5. /\ \A x : About(x)' = About(x) /\ \A plans : Leads(x, plans) => Leads(x, plans)'
      /\ Live' = Live /\ \A x : Undone(x)' <=> Undone(x)
  BY <1>1, LeadsSame, ZenonT(30) DEF Live, Undone
<1>6. EffectInv'
  BY <1>1, <1>5, ZenonT(30) DEF BrokerInv, EffectInv, UnboundInv, BoundInv, RecoverInv
<1> QED
  BY <1>1, <1>2, <1>3, <1>4, <1>6, ZenonT(30) DEF BrokerInv

\* The driver has something to apply only when the worker runs.
LEMMA DriverKeeps ==
    ASSUME BrokerInv, DriverApplies
    PROVE  BrokerInv'
<1>1. /\ file.written /\ device' = file /\ TypeInv'
      /\ UNCHANGED <<start, phase, fetched, bindMap, queue, writing, decided, requests,
                     file, writeFailed, claims, lost, crossed>>
  BY DriverFacts, ZenonT(30) DEF BrokerInv
<1>2. phase = "worker" /\ FileInv'
  BY <1>1, ZenonT(30) DEF BrokerInv, FileInv
<1>3. ClaimsInv'
  BY <1>1, ClaimsKept, ZenonT(30) DEF BrokerInv, ClaimsInv, MapsAgree, Agrees
<1>4. MapInv'
  BY <1>1, <1>2, ZenonT(30) DEF BrokerInv, MapInv, Known, Removal, Fresh
<1>5. \A x : \A plans : Leads(x, plans) => Leads(x, plans)'
  BY <1>1, LeadsSame, ZenonT(30)
<1>6. EffectInv'
  BY <1>1, <1>2, <1>5, ZenonT(30) DEF BrokerInv, EffectInv, UnboundInv, BoundInv, RecoverInv
<1> QED
  BY <1>1, <1>2, <1>3, <1>4, <1>6, ZenonT(30) DEF BrokerInv

\* The registry adds to the queue, and decides nothing.
LEMMA RegistryKeeps ==
    ASSUME BrokerInv, NEW op \in {"Add", "Remove"}, NEW uri \in RouteURI, NEW e \in Endpoint,
           RegistryUpdates(op, uri, e)
    PROVE  BrokerInv' /\ queue' # <<>>
<1> DEFINE u == [op |-> op, uri |-> uri, endpoint |-> e]
<1>1. /\ queue' = Append(queue, u)
      /\ UNCHANGED <<start, phase, fetched, bindMap, writing, decided, requests, file,
                     writeFailed, device, claims, lost, crossed>>
  BY ZenonT(30) DEF RegistryUpdates, UpdateRoute, runVars, routeVars, storeVars, historyVars
<1>2. u \in Update /\ ~Decides(u)
  BY ZenonT(30) DEF Update, Decides
<1> HIDE DEF u
<1>3. queue' \in Seq(Update) /\ queue' # <<>>
  BY <1>1, <1>2 DEF BrokerInv, TypeInv
<1>4. TypeInv' /\ FileInv'
  BY <1>1, <1>3, ZenonT(30) DEF BrokerInv, TypeInv, FileInv
<1>5. ClaimsInv' /\ MapInv'
  BY <1>1, ClaimsKept, ZenonT(30)
     DEF BrokerInv, ClaimsInv, MapsAgree, Agrees, MapInv, Known, Removal, Fresh
<1>6. /\ \A x : About(x)' = About(x) /\ \A plans : Leads(x, plans) => Leads(x, plans)'
      /\ Live' = Live /\ \A x : Undone(x)' <=> Undone(x)
  <2>1. \A x : About(x)' = About(x) /\ \A plans : Leads(x, plans) => Leads(x, plans)'
    BY <1>1, <1>2, LeadsRegistry, ZenonT(30) DEF BrokerInv
  <2> QED
    BY <1>1, <2>1, ZenonT(30) DEF Live, Undone
<1>7. EffectInv'
  BY <1>1, <1>6, ZenonT(30) DEF BrokerInv, EffectInv, UnboundInv, BoundInv, RecoverInv
<1> QED
  BY <1>3, <1>4, <1>5, <1>7, ZenonT(30) DEF BrokerInv

\* A start knows of nothing, and leads no route anywhere.
LEMMA StartsBlank ==
    ASSUME phase' = "fetch", bindMap' = EmptyMap, fetched' = EmptyMap,
           queue' = <<>>, writing' = FALSE, decided' = EmptyMap,
           \A r \in Request : requests'[r] = NoRequest,
           file'.written = FALSE, file'.records = EmptyMap
    PROVE  FileInv' /\ RequestsOK' /\ MapInv' /\ EffectInv'
<1>1. DOMAIN EmptyMap = {} /\ NoRequest.step = "none"
  BY EmptyIsBindMap, ZenonT(30) DEF NoRequest
<1>2. \A x : About(x)' = {} /\ Leads(x, {})'
  BY <1>1 DEF About, Now, Leads
<1>3. FileInv' /\ RequestsOK'
  BY DEF FileInv, RequestsOK, RequestOK
<1>4. MapInv'
  BY <1>1, ZenonT(30) DEF MapInv, Known, Removal, Fresh
<1>5. EffectInv'
  BY <1>1, <1>2, ZenonT(30) DEF EffectInv, UnboundInv, BoundInv, RecoverInv
<1> QED
  BY <1>3, <1>4, <1>5, ZenonT(30)

\* A restart is such a start, with the BIG-IP and the platform as they were.
LEMMA RestartKeeps ==
    ASSUME BrokerInv, Restart
    PROVE  BrokerInv'
<1>1. /\ phase' = "fetch" /\ fetched' = EmptyMap /\ bindMap' = EmptyMap
      /\ queue' = <<>> /\ writing' = FALSE /\ decided' = EmptyMap
      /\ \A r \in Request : requests'[r] = NoRequest
      /\ file'.written = FALSE /\ file'.records = EmptyMap
      /\ UNCHANGED <<device, claims, crossed>> /\ TypeInv'
  BY RestartFacts, ZenonT(30) DEF BrokerInv
<1>2. FileInv' /\ RequestsOK' /\ MapInv' /\ EffectInv'
  BY <1>1, StartsBlank, ZenonT(30)
<1>3. MapsAgree' /\ OneBinding'
  BY <1>1, EmptyIsBindMap, ZenonT(30) DEF BrokerInv, ClaimsInv, MapsAgree, Agrees, OneBinding
<1> QED
  BY <1>1, <1>2, <1>3 DEF BrokerInv, ClaimsInv
-----------------------------------------------------------------------------
(***************************************************************************)
(* The handlers keep the routes settled                                    *)
(***************************************************************************)

\* A route that nothing is done to stays settled.
LEMMA SettledKept ==
    ASSUME NEW uri, Settled(uri), settled'[uri] = settled[uri],
           Mapped(uri)' <=> Mapped(uri),
           Mapped(uri) => routes'[uri].settings = routes[uri].settings,
           uri \in scarred' <=> uri \in scarred,
           uri \in DOMAIN unmapped' <=> uri \in DOMAIN unmapped,
           uri \in DOMAIN unmapped => unmapped'[uri] = unmapped[uri],
           uri \in DOMAIN decided' <=> uri \in DOMAIN decided,
           uri \in DOMAIN decided => decided'[uri] = decided[uri]
    PROVE  Settled(uri)'
<1>1. Waits(uri) => Waits(uri)'
  BY ZenonT(30) DEF Waits
<1>2. Mapped(uri) /\ Follows(uri) => Follows(uri)'
  BY ZenonT(30) DEF Follows
<1> QED
  BY <1>1, <1>2, ZenonT(30) DEF Settled

\* The resources of a new route are routes, and so are those a plan is merged into.
LEMMA RoutesMade ==
    /\ \A m : /\ IsRoute(DefaultRoute(m))
              /\ \A s \in Setting : DefaultRoute(m).settings[s] = Default
    /\ \A x : IsRoute(x) => \A p \in PlanName :
          /\ IsRoute(UpdateResources(x, p))
          /\ \A s \in Settings[p] : UpdateResources(x, p).settings[s] = p
<1>1. ASSUME NEW m
      PROVE  /\ IsRoute(DefaultRoute(m))
             /\ \A s \in Setting : DefaultRoute(m).settings[s] = Default
  BY ZenonT(30) DEF IsRoute, DefaultRoute
<1>2. ASSUME NEW x, IsRoute(x), NEW p \in PlanName
      PROVE  /\ IsRoute(UpdateResources(x, p))
             /\ \A s \in Settings[p] : UpdateResources(x, p).settings[s] = p
  <2> DEFINE new == [s \in Setting |-> IF s \in Settings[p] THEN p ELSE x.settings[s]]
  <2>1. UpdateResources(x, p) = [members |-> x.members, settings |-> new]
    BY <1>2 DEF IsRoute, UpdateResources
  <2>2. Settings[p] \subseteq Setting
    BY BrokerAssumption, ZenonT(30)
  <2>3. new \in [Setting -> PlanName \cup {Default}] /\ \A s \in Settings[p] : new[s] = p
    BY <1>2, <2>2, ZenonT(30) DEF IsRoute
  <2> HIDE DEF new
  <2> QED
    BY <2>1, <2>3 DEF IsRoute
<1> QED
  BY <1>1, <1>2, ZenonT(30)

\* The first endpoint of a route makes it with what waits for it; others only join.
LEMMA AddSettles ==
    ASSUME TypeInv, RouteInv, NEW uri \in RouteURI, NEW e, processRouteAdd(uri, e)
    PROVE  RouteInv'
<1>1. UNCHANGED <<unmapped, decided, settled, scarred>>
  BY ZenonT(30) DEF processRouteAdd
<1>2. CASE Mapped(uri)
  <2>1. routes' = [routes EXCEPT ![uri].members = AddMembers(@, <<e>>)]
    BY <1>2, ZenonT(30) DEF processRouteAdd
  <2>2. /\ DOMAIN routes' = DOMAIN routes
        /\ \A x \in DOMAIN routes : IsRoute(routes[x]) =>
              IsRoute(routes'[x]) /\ routes'[x].settings = routes[x].settings
    BY <2>1 DEF IsRoute
  <2>3. \A x \in RouteURI : Settled(x)'
    BY <1>1, <2>2, SettledKept, ZenonT(30) DEF RouteInv, Mapped
  <2> QED
    BY <1>1, <2>2, <2>3, ZenonT(30) DEF RouteInv
<1>3. CASE ~Mapped(uri)
  <2> DEFINE new == IF uri \in DOMAIN unmapped
                    THEN UpdateResources(DefaultRoute(<<e>>), unmapped[uri])
                    ELSE DefaultRoute(<<e>>)
  <2>1. routes' = Put(routes, uri, new)
    BY <1>3, ZenonT(30) DEF processRouteAdd
  <2>2. /\ IsRoute(new)
        /\ uri \in DOMAIN unmapped => \A s \in Settings[unmapped[uri]] : new.settings[s] = unmapped[uri]
        /\ uri \notin DOMAIN unmapped => \A s \in Setting : new.settings[s] = Default
    <3>1. uri \in DOMAIN unmapped => unmapped[uri] \in PlanName
      BY ZenonT(30) DEF RouteInv, IsMap
    <3> QED
      BY <3>1, RoutesMade
  <2> HIDE DEF new
  <2>3. /\ DOMAIN routes' = DOMAIN routes \cup {uri} /\ routes'[uri] = new
        /\ \A x \in DOMAIN routes : x # uri /\ routes'[x] = routes[x]
    BY <1>3, <2>1, ZenonT(30) DEF Put, Mapped
  <2>4. ASSUME NEW x \in RouteURI, x # uri PROVE Settled(x)'
    BY <1>1, <2>3, <2>4, SettledKept, ZenonT(30) DEF RouteInv, Mapped
  <2>5. Settled(uri)'
    <3>1. Settled(uri) /\ settled[uri] # "mapped"
      BY <1>3, ZenonT(30) DEF RouteInv, Settled
    <3>2. Waits(uri) => Waits(uri)' /\ Follows(uri)'
      BY <1>1, <2>2, <2>3, ZenonT(30) DEF Waits, Follows
    <3> QED
      BY <1>1, <3>1, <3>2, ZenonT(30) DEF Settled
  <2> QED
    BY <1>1, <2>2, <2>3, <2>4, <2>5, ZenonT(30) DEF RouteInv
<1> QED
  BY <1>2, <1>3, ZenonT(30)

\* The last endpoint takes with it what was decided since the route was mapped.
LEMMA RemoveSettles ==
    ASSUME TypeInv, RouteInv, NEW uri \in RouteURI, NEW e, processRouteRemove(uri, e)
    PROVE  RouteInv'
<1> DEFINE left == RemoveMember(routes[uri].members, e)
<1>1. CASE UNCHANGED routeVars
  BY <1>1, ZenonT(30) DEF routeVars, RouteInv, IsRoute, Settled, Waits, Follows, Mapped
<1>2. CASE /\ Mapped(uri) /\ left # <<>>
           /\ routes' = [routes EXCEPT ![uri].members = left]
           /\ UNCHANGED <<unmapped, decided, settled, scarred>>
  <2> HIDE DEF left
  <2>2. /\ DOMAIN routes' = DOMAIN routes
        /\ \A x \in DOMAIN routes : IsRoute(routes[x]) =>
              IsRoute(routes'[x]) /\ routes'[x].settings = routes[x].settings
    BY <1>2 DEF IsRoute
  <2>3. \A x \in RouteURI : Settled(x)'
    BY <1>2, <2>2, SettledKept, ZenonT(30) DEF RouteInv, Mapped
  <2> QED
    BY <1>2, <2>2, <2>3 DEF RouteInv
<1>3. CASE /\ Mapped(uri) /\ left = <<>>
           /\ routes' = Drop(routes, uri)
           /\ settled' = [settled EXCEPT ![uri] = IF @ = "mapped" THEN "reverted" ELSE @]
           /\ scarred' = scarred \ {uri}
           /\ UNCHANGED <<unmapped, decided>>
  <2>1. /\ DOMAIN routes' = DOMAIN routes \ {uri}
        /\ \A x \in DOMAIN routes' : routes'[x] = routes[x]
    BY <1>3, ZenonT(30) DEF Drop
  <2>2. /\ settled' \in [RouteURI -> {"mapped", "unmapped", "reverted"}] /\ settled'[uri] # "mapped"
        /\ settled'[uri] = "unmapped" => settled[uri] = "unmapped"
        /\ \A x \in RouteURI : x # uri => settled'[x] = settled[x]
    BY <1>3, ZenonT(30) DEF RouteInv
  <2>3. ASSUME NEW x \in RouteURI, x # uri PROVE Settled(x)'
    <3>1. Settled(x) /\ settled'[x] = settled[x]
      BY <2>2, <2>3, ZenonT(30) DEF RouteInv
    <3>2. /\ Mapped(x)' <=> Mapped(x)
          /\ Mapped(x) => routes'[x].settings = routes[x].settings
          /\ x \in scarred' <=> x \in scarred
      BY <1>3, <2>1, <2>3, ZenonT(30) DEF Mapped
    <3> QED
      BY <1>3, <3>1, <3>2, SettledKept, ZenonT(30)
  <2>4. Settled(uri)'
    <3>1. settled[uri] = "unmapped" => Waits(uri)'
      BY <1>3, ZenonT(30) DEF RouteInv, Settled, Waits
    <3>2. ~Mapped(uri)'
      BY <2>1, ZenonT(30) DEF Mapped
    <3> QED
      BY <2>2, <3>1, <3>2, ZenonT(30) DEF Settled
  <2>5. scarred' \subseteq DOMAIN routes'
    BY <1>3, <2>1, ZenonT(30) DEF RouteInv
  <2> QED
    BY <1>3, <2>1, <2>2, <2>3, <2>4, <2>5, ZenonT(30) DEF RouteInv
<1> QED
  BY <1>1, <1>2, <1>3, ZenonT(30) DEF processRouteRemove

\* A Bind gives a mapped route what the plan sets, or leaves it for the first endpoint.
LEMMA BindSettles ==
    ASSUME TypeInv, RouteInv, NEW uri \in RouteURI, NEW p \in PlanName, processRouteBind(uri, p)
    PROVE  RouteInv'
<1>1. /\ scarred' = scarred
      /\ settled' \in [RouteURI -> {"mapped", "unmapped", "reverted"}]
      /\ settled'[uri] = IF Mapped(uri) THEN "mapped" ELSE "unmapped"
      /\ \A x \in RouteURI : x # uri => settled'[x] = settled[x]
  BY ZenonT(30) DEF processRouteBind, Settle, RouteInv
<1>2. /\ DOMAIN decided' = DOMAIN decided \cup {uri} /\ decided'[uri] = p
      /\ \A x \in DOMAIN decided : x # uri => decided'[x] = decided[x]
  BY ZenonT(30) DEF processRouteBind, Put
<1>3. CASE Mapped(uri)
  <2>1. routes' = [routes EXCEPT ![uri] = UpdateResources(routes[uri], p)] /\ unmapped' = unmapped
    BY <1>3, ZenonT(30) DEF processRouteBind
  <2>2. /\ IsRoute(UpdateResources(routes[uri], p))
        /\ \A s \in Settings[p] : UpdateResources(routes[uri], p).settings[s] = p
    BY <1>3, RoutesMade, ZenonT(30) DEF RouteInv, Mapped
  <2>3. /\ DOMAIN routes' = DOMAIN routes /\ IsRoute(routes'[uri])
        /\ \A s \in Settings[p] : routes'[uri].settings[s] = p
        /\ \A x \in DOMAIN routes : x # uri => routes'[x] = routes[x]
    BY <1>3, <2>1, <2>2, ZenonT(30) DEF Mapped
  <2>4. ASSUME NEW x \in RouteURI, x # uri PROVE Settled(x)'
    BY <1>1, <1>2, <2>1, <2>3, <2>4, SettledKept, ZenonT(30) DEF RouteInv, Mapped
  <2>5. Settled(uri)'
    BY <1>1, <1>2, <1>3, <2>3, ZenonT(30) DEF Settled, Mapped, Follows
  <2>6. \A x \in DOMAIN routes' : IsRoute(routes'[x])
    BY <2>3, ZenonT(30) DEF RouteInv
  <2> QED
    BY <1>1, <2>1, <2>3, <2>4, <2>5, <2>6, ZenonT(30) DEF RouteInv
<1>4. CASE ~Mapped(uri)
  <2>1. routes' = routes /\ unmapped' = Put(unmapped, uri, p)
    BY <1>4 DEF processRouteBind
  <2>2. /\ DOMAIN unmapped' = DOMAIN unmapped \cup {uri} /\ unmapped'[uri] = p
        /\ \A x \in DOMAIN unmapped : x # uri => unmapped'[x] = unmapped[x]
    BY <2>1, ZenonT(30) DEF Put
  <2>3. IsMap(unmapped', RouteURI, PlanName)
    BY <2>1, PutIsMap, ZenonT(30) DEF RouteInv
  <2>4. ASSUME NEW x \in RouteURI, x # uri PROVE Settled(x)'
    BY <1>1, <1>2, <2>1, <2>2, <2>4, SettledKept, ZenonT(30) DEF RouteInv, Mapped
  <2>5. Settled(uri)'
    BY <1>1, <1>2, <1>4, <2>1, <2>2, ZenonT(30) DEF Settled, Mapped, Waits
  <2> QED
    BY <1>1, <2>1, <2>3, <2>4, <2>5, ZenonT(30) DEF RouteInv
<1> QED
  BY <1>3, <1>4, ZenonT(30)

\* An Unbind gives a mapped route defaults, but for the pool that it leaves alone.
LEMMA UnbindSettles ==
    ASSUME TypeInv, RouteInv, NEW uri \in RouteURI, processRouteUnbind(uri)
    PROVE  RouteInv'
<1> DEFINE members == routes[uri].members
           left == RemoveOwnFirst(members)
<1>1. /\ settled' \in [RouteURI -> {"mapped", "unmapped", "reverted"}]
      /\ settled'[uri] = IF Mapped(uri) THEN "mapped" ELSE "unmapped"
      /\ \A x \in RouteURI : x # uri => settled'[x] = settled[x]
  BY ZenonT(30) DEF processRouteUnbind, Settle, RouteInv
<1>2. /\ DOMAIN decided' = DOMAIN decided \ {uri}
      /\ \A x \in DOMAIN decided' : decided'[x] = decided[x]
  BY ZenonT(30) DEF processRouteUnbind, Drop
<1>3. CASE Mapped(uri)
  <2>1. /\ unmapped' = unmapped
        /\ \/ /\ routes' = [routes EXCEPT ![uri] = DefaultRoute(members)]
              /\ scarred' = scarred \ {uri}
           \/ /\ routes' = [routes EXCEPT ![uri].members = AddMembers(left, members),
                                         ![uri].settings["profiles"] = Default]
              /\ scarred' = scarred \cup {uri}
    BY <1>3, ZenonT(30) DEF processRouteUnbind
  <2> HIDE DEF members, left
  <2>2. IsRoute(routes[uri]) /\ uri \in DOMAIN routes /\ "profiles" \in Setting
    BY <1>3, ZenonT(30) DEF RouteInv, Mapped, Setting
  <2>3. /\ DOMAIN routes' = DOMAIN routes
        /\ \A x \in DOMAIN routes : x # uri => routes'[x] = routes[x]
        /\ scarred' \subseteq DOMAIN routes
        /\ \A x : x # uri => (x \in scarred' <=> x \in scarred)
    BY <2>1, <2>2, ZenonT(30) DEF RouteInv
  <2>4. /\ IsRoute(routes'[uri])
        /\ \A s \in Setting : uri \notin scarred' \/ s = "profiles" =>
              routes'[uri].settings[s] = Default
    <3>1. CASE routes' = [routes EXCEPT ![uri] = DefaultRoute(members)]
      BY <2>2, <3>1, RoutesMade, ZenonT(30)
    <3>2. CASE /\ routes' = [routes EXCEPT ![uri].members = AddMembers(left, members),
                                          ![uri].settings["profiles"] = Default]
               /\ uri \in scarred'
      <4> DEFINE more == AddMembers(left, members)
                 new == [routes[uri].settings EXCEPT !["profiles"] = Default]
      <4>1. routes'[uri] = [members |-> more, settings |-> new]
        <5>1. routes'[uri] = [routes[uri] EXCEPT !.members = more, !.settings["profiles"] = Default]
          BY <2>2, <3>2, ZenonT(30)
        <5> HIDE DEF more
        <5> QED
          BY <2>2, <5>1, ZenonT(30) DEF IsRoute
      <4>2. new \in [Setting -> PlanName \cup {Default}] /\ new["profiles"] = Default
        BY <2>2, ZenonT(30) DEF IsRoute
      <4> HIDE DEF more, new
      <4>3. routes'[uri].members = more /\ routes'[uri].settings = new
        BY <4>1
      <4>4. IsRoute(routes'[uri])
        BY <4>1, <4>2, <4>3, ZenonT(30) DEF IsRoute
      <4>5. \A s \in Setting : uri \notin scarred' \/ s = "profiles" =>
               routes'[uri].settings[s] = Default
        BY <3>2, <4>2, <4>3, ZenonT(30)
      <4> QED
        BY <4>4, <4>5, ZenonT(30)
    <3> QED
      BY <2>1, <3>1, <3>2, ZenonT(30)
  <2>5. ASSUME NEW x \in RouteURI, x # uri PROVE Settled(x)'
    BY <1>1, <1>2, <2>1, <2>3, <2>5, SettledKept, ZenonT(30) DEF RouteInv, Mapped
  <2>6. Settled(uri)'
    BY <1>1, <1>2, <1>3, <2>3, <2>4, ZenonT(30) DEF Settled, Mapped, Follows
  <2>7. \A x \in DOMAIN routes' : IsRoute(routes'[x])
    BY <2>3, <2>4, ZenonT(30) DEF RouteInv
  <2> QED
    BY <1>1, <2>1, <2>3, <2>5, <2>6, <2>7, ZenonT(30) DEF RouteInv
<1>4. CASE ~Mapped(uri)
  <2>1. routes' = routes /\ unmapped' = Drop(unmapped, uri) /\ scarred' = scarred
    BY <1>4 DEF processRouteUnbind
  <2>2. /\ DOMAIN unmapped' = DOMAIN unmapped \ {uri}
        /\ \A x \in DOMAIN unmapped' : unmapped'[x] = unmapped[x]
    BY <2>1, ZenonT(30) DEF Drop
  <2>3. IsMap(unmapped', RouteURI, PlanName)
    BY <2>1, DropIsMap, ZenonT(30) DEF RouteInv
  <2>4. ASSUME NEW x \in RouteURI, x # uri PROVE Settled(x)'
    BY <1>1, <1>2, <2>1, <2>2, <2>4, SettledKept, ZenonT(30) DEF RouteInv, Mapped
  <2>5. Settled(uri)'
    BY <1>1, <1>2, <1>4, <2>1, <2>2, ZenonT(30) DEF Settled, Mapped, Waits
  <2> QED
    BY <1>1, <2>1, <2>3, <2>4, <2>5, ZenonT(30) DEF RouteInv
<1> QED
  BY <1>3, <1>4, ZenonT(30)

\* Nothing but the worker and a restart touches the routes.
LEMMA RoutesNext == TypeInv /\ RouteInv /\ [Next]_vars => RouteInv'
<1> SUFFICES ASSUME TypeInv, RouteInv, [Next]_vars PROVE RouteInv'
  OBVIOUS
<1>1. CASE UNCHANGED routeVars
  BY <1>1, ZenonT(30) DEF routeVars, RouteInv, IsRoute, Settled, Waits, Follows, Mapped
<1>2. CASE processItem
  <2> DEFINE u == Head(queue)
  <2>1. u \in Update /\ handle(u)
    BY <1>2, ProcessItemFacts, ZenonT(30)
  <2> HIDE DEF u
  <2>2. u.uri \in RouteURI /\ (u.op = "Bind" => u.plan \in PlanName)
    BY <2>1, ZenonT(30) DEF Update
  <2>3. CASE processRouteAdd(u.uri, u.endpoint)
    BY <2>2, <2>3, AddSettles, ZenonT(30)
  <2>4. CASE refuseAdd
    BY <1>1, <2>4, ZenonT(30) DEF refuseAdd
  <2>5. CASE processRouteRemove(u.uri, u.endpoint)
    BY <2>2, <2>5, RemoveSettles, ZenonT(30)
  <2>6. CASE u.op = "Bind" /\ processRouteBind(u.uri, u.plan)
    BY <2>2, <2>6, BindSettles, ZenonT(30)
  <2>7. CASE processRouteUnbind(u.uri)
    BY <2>2, <2>7, UnbindSettles, ZenonT(30)
  <2> QED
    BY <2>1, <2>3, <2>4, <2>5, <2>6, <2>7, ZenonT(30) DEF handle
<1>3. CASE Restart
  <2>1. /\ routes' = EmptyMap /\ unmapped' = EmptyMap /\ decided' = EmptyMap /\ scarred' = {}
        /\ settled' = [uri \in RouteURI |-> "unmapped"]
    BY <1>3, ZenonT(30) DEF Restart
  <2>2. DOMAIN routes' = {} /\ DOMAIN decided' = {} /\ DOMAIN unmapped' = {}
    BY <2>1, EmptyIsBindMap, ZenonT(30)
  <2>3. IsMap(unmapped', RouteURI, PlanName)
    BY <2>1, EmptyIsMap, ZenonT(30)
  <2> QED
    BY <2>1, <2>2, <2>3, ZenonT(30) DEF RouteInv, Settled, Waits, Mapped
<1>4. CASE UNCHANGED vars
  BY <1>1, <1>4, ZenonT(30) DEF vars, workerVars
<1>5. CASE \E r \in Request : Requests(r)
  <2>1. UNCHANGED routeVars
    BY <1>5, ZenonT(30)
       DEF Requests, Bind, BindUpdates, Unbind, UnbindRemoves, UnbindUpdates, workerVars
  <2> QED
    BY <1>1, <2>1, ZenonT(30)
<1>6. CASE Router /\ ~processItem
  <2>1. UNCHANGED routeVars
    BY <1>6, ZenonT(30) DEF Router, fetchExistingDataGroup, fetchFails, processBrokerDataGroup,
                assignBindMap, writeConfig, workerVars
  <2> QED
    BY <1>1, <2>1
<1>7. CASE DriverApplies \/ \E op \in {"Add", "Remove"}, uri \in RouteURI, e \in Endpoint :
                               RegistryUpdates(op, uri, e)
  <2>1. UNCHANGED routeVars
    BY <1>7, ZenonT(30) DEF DriverApplies, RegistryUpdates, workerVars
  <2> QED
    BY <1>1, <2>1, ZenonT(30)
<1> QED
  BY <1>2, <1>3, <1>4, <1>5, <1>6, <1>7, ZenonT(30) DEF Next

\* A binding that is answered leaves an update behind it, and the worker that takes
\* the last one is about to write.
LEMMA PersistNext == BrokerInv /\ PersistInv /\ [Next]_vars => PersistInv'
<1> SUFFICES ASSUME BrokerInv, PersistInv, [Next]_vars PROVE PersistInv'
  OBVIOUS
<1> DEFINE Same == UNCHANGED <<queue, writing, file, writeFailed, device>>
           Fewer == Bound' \ lost' \subseteq Bound \ lost
<1>a. Same /\ Fewer => PersistInv'
  BY DEF PersistInv
<1>b. queue' # <<>> => PersistInv'
  BY DEF PersistInv
<1>c. TypeInv /\ ClaimsInv /\ MapsAgree
  BY ZenonT(30) DEF BrokerInv, ClaimsInv
<1>d. /\ \A u : Append(queue, u) # <<>>
      /\ \A more \in Seq(Update) : queue # <<>> => queue \o more # <<>>
  BY <1>c DEF TypeInv
<1> HIDE DEF Same, Fewer
<1>1. ASSUME NEW r \in Request, Requests(r) PROVE PersistInv'
  <2>1. ASSUME NEW id \in BindID, NEW uri \in RouteURI,
               NEW planID \in [start : DOMAIN PlansOf, plan : PlanName], Bind(r, id, uri, planID)
        PROVE  PersistInv'
    <3>1. Binds(r, id, uri, planID.plan)
      BY <1>c, <2>1, BindFacts, ZenonT(30)
    <3>2. Same
      BY <3>1, ZenonT(30) DEF Binds, Same
    <3>3. claims'[id].status = "unknown"
      BY <3>1 DEF Binds
    <3>4. Fewer
      BY <3>1, <3>3, ZenonT(30) DEF Binds, Fewer, Bound
    <3> QED
      BY <1>a, <3>2, <3>4, ZenonT(30)
  <2>2. CASE BindUpdates(r) \/ UnbindUpdates(r)
    BY <1>b, <1>c, <1>d, <2>2, BindUpdatesFacts, UnbindUpdatesFacts, ZenonT(30)
  <2>3. ASSUME NEW id \in BindID, Unbind(r, id) PROVE PersistInv'
    <3>1. Same /\ lost' = lost /\ Answers(id, "unknown")
      BY <1>c, <2>3, UnbindFacts, ZenonT(30) DEF Same
    <3>2. Fewer
      BY <3>1, ZenonT(30) DEF Answers, Fewer, Bound
    <3> QED
      BY <1>a, <3>1, <3>2, ZenonT(30)
  <2>4. CASE UnbindRemoves(r)
    <3>1. Same /\ lost' = lost /\ claims' = claims
      BY <1>c, <2>4, UnbindRemovesFacts, ZenonT(30) DEF Same
    <3> QED
      BY <1>a, <3>1, ZenonT(30) DEF Fewer, Bound
  <2> QED
    BY <1>1, <2>1, <2>2, <2>3, <2>4, ZenonT(30) DEF Requests
<1>2. CASE fetchExistingDataGroup \/ fetchFails \/ assignBindMap
  <2>1. Same /\ claims' = claims /\ lost \subseteq lost'
    BY <1>c, <1>2, FetchFacts, FetchFailsFacts, AssignFacts, ZenonT(30) DEF Same
  <2> QED
    BY <1>a, <2>1, ZenonT(30) DEF Fewer, Bound
<1>3. CASE processBrokerDataGroup
  <2>1. PICK more \in Seq(Update) : queue' = queue \o more
    BY <1>c, <1>3, ProcessFacts, ZenonT(30)
  <2>2. UNCHANGED <<writing, file, writeFailed, device, claims, lost>>
    BY <1>c, <1>3, ProcessFacts, ZenonT(30)
  <2>3. queue # <<>> => queue' # <<>>
    BY <1>d, <2>1, ZenonT(30)
  <2> QED
    BY <2>2, <2>3, ZenonT(30) DEF PersistInv, Bound
<1>4. CASE processItem
  <2>1. writing' \/ queue' # <<>>
    BY <1>c, <1>4, ProcessItemFacts, ZenonT(30)
  <2> QED
    BY <2>1, ZenonT(30) DEF PersistInv
<1>5. CASE writeConfig
  <2>1. file'.written = TRUE \/ writeFailed' = TRUE
    BY <1>c, <1>5, WriteFacts, ZenonT(30)
  <2> QED
    BY <2>1, ZenonT(30) DEF PersistInv
<1>6. CASE DriverApplies
  BY <1>c, <1>6, DriverFacts, ZenonT(30) DEF PersistInv
<1>7. CASE Restart
  <2>1. /\ lost' = lost \cup (DOMAIN claims \ DOMAIN device.records)
        /\ device' = device /\ claims' = claims
    BY <1>c, <1>7, RestartFacts, ZenonT(30)
  <2> QED
    BY <2>1, ZenonT(30) DEF PersistInv, Bound
<1>8. ASSUME NEW op \in {"Add", "Remove"}, NEW uri \in RouteURI, NEW e \in Endpoint,
             RegistryUpdates(op, uri, e)
      PROVE  PersistInv'
  BY <1>8, <1>b, RegistryKeeps, ZenonT(30)
<1>9. CASE UNCHANGED vars
  <2>1. Same /\ lost' = lost /\ claims' = claims
    BY <1>9, ZenonT(30) DEF vars, workerVars, storeVars, historyVars, Same
  <2> QED
    BY <1>a, <2>1, ZenonT(30) DEF Fewer, Bound
<1> QED
  BY <1>1, <1>2, <1>3, <1>4, <1>5, <1>6, <1>7, <1>8, <1>9, ZenonT(30) DEF Next, Router
-----------------------------------------------------------------------------
(***************************************************************************)
(* The theorems                                                            *)
(***************************************************************************)

\* The first start: nothing is asked for, written or fetched.
LEMMA BrokerInit == Init => BrokerInv
<1> SUFFICES ASSUME Init PROVE BrokerInv
  OBVIOUS
<1>1. DOMAIN EmptyMap = {} /\ NoRequest.step = "none"
  BY EmptyIsBindMap DEF NoRequest
<1>2. TypeInv
  <2>1. start \in DOMAIN PlansOf
    BY BrokerAssumption DEF Init
  <2>2. IsBindMap(bindMap) /\ IsBindMap(fetched) /\ IsGroup(file) /\ IsGroup(device)
    BY EmptyIsBindMap, NoGroupIsGroup, ZenonT(30) DEF Init
  <2>3. IsMap(decided, RouteURI, PlanName) /\ IsMap(claims, BindID, Claim)
    BY EmptyIsMap, ZenonT(30) DEF Init
  <2>4. queue \in Seq(Update) /\ requests \in [Request -> RequestState]
    BY DEF Init, RequestState
  <2> QED
    BY <2>1, <2>2, <2>3, <2>4, ZenonT(30) DEF TypeInv, Init
<1>3. /\ \A r \in Request : requests[r] = NoRequest
      /\ file.records = EmptyMap /\ device.records = EmptyMap /\ file.written = FALSE
  BY NoGroupIsGroup, ZenonT(30) DEF Init
<1>4. FileInv /\ ClaimsInv
  BY <1>1, <1>3, ZenonT(30)
     DEF Init, FileInv, ClaimsInv, MapsAgree, Agrees, RequestsOK, RequestOK, OneBinding
<1>5. MapInv
  BY <1>1, <1>3, ZenonT(30) DEF Init, MapInv, Known, Removal, Fresh
<1>6. \A x : About(x) = {} /\ Leads(x, {})
  <2>1. queue = <<>> /\ decided = EmptyMap
    BY ZenonT(30) DEF Init
  <2>2. \A x : About(x) = {}
    BY <2>1 DEF About
  <2>3. \A x : Now(x) = {}
    BY <1>1, <2>1, ZenonT(30) DEF Now
  <2> QED
    BY <2>2, <2>3, ZenonT(30) DEF Leads
<1>7. EffectInv
  BY <1>1, <1>3, <1>6, ZenonT(30) DEF Init, EffectInv, UnboundInv, BoundInv, RecoverInv, Live
<1> QED
  BY <1>2, <1>4, <1>5, <1>7, ZenonT(30) DEF BrokerInv

\* One case per operation: the handlers of the broker, Run and its worker, the
\* driver, the registry and a restart.
LEMMA BrokerNext == BrokerInv /\ [Next]_vars => BrokerInv'
<1> SUFFICES ASSUME BrokerInv, [Next]_vars PROVE BrokerInv'
  OBVIOUS
<1>1. ASSUME NEW r \in Request, Requests(r) PROVE BrokerInv'
  BY <1>1, BindKeeps, BindUpdatesKeeps, UnbindKeeps, UnbindRemovesKeeps,
     UnbindUpdatesKeeps, ZenonT(30)
     DEF Requests
<1>2. CASE Router
  BY <1>2, FetchKeeps, FetchFailsKeeps, ProcessKeeps, AssignKeeps, ProcessItemKeeps,
     WriteKeeps, ZenonT(30)
     DEF Router
<1>3. CASE DriverApplies
  BY <1>3, DriverKeeps, ZenonT(30)
<1>4. CASE Restart
  BY <1>4, RestartKeeps, ZenonT(30)
<1>5. CASE UNCHANGED vars
  <2>1. UNCHANGED <<start, phase, fetched, bindMap, queue, writing, decided, requests,
                    file, writeFailed, device, claims, lost, crossed>>
    BY <1>5, ZenonT(30) DEF vars, runVars, workerVars, routeVars, storeVars, historyVars
  <2>2. TypeInv' /\ FileInv'
    BY <2>1, ZenonT(30) DEF BrokerInv, TypeInv, FileInv
  <2>3. ClaimsInv' /\ MapInv'
    BY <2>1, ClaimsKept, ZenonT(30)
       DEF BrokerInv, ClaimsInv, MapsAgree, Agrees, MapInv, Known, Removal, Fresh
  <2>4. /\ \A x : About(x)' = About(x) /\ \A plans : Leads(x, plans) => Leads(x, plans)'
        /\ Live' = Live /\ \A x : Undone(x)' <=> Undone(x)
    BY <2>1, LeadsSame, ZenonT(30) DEF Live, Undone
  <2>5. EffectInv'
    BY <2>1, <2>4, ZenonT(30) DEF BrokerInv, EffectInv, UnboundInv, BoundInv, RecoverInv
  <2> QED
    BY <2>2, <2>3, <2>5, ZenonT(30) DEF BrokerInv
<1>6. ASSUME NEW op \in {"Add", "Remove"}, NEW uri \in RouteURI, NEW e \in Endpoint,
             RegistryUpdates(op, uri, e)
      PROVE  BrokerInv'
  BY <1>6, RegistryKeeps, ZenonT(30)
<1> QED
  BY <1>1, <1>2, <1>3, <1>4, <1>5, <1>6, ZenonT(30) DEF Next

\* At the start there are no routes, and nothing to persist.
LEMMA RoutesInit == Init => RouteInv /\ PersistInv
<1> SUFFICES ASSUME Init PROVE RouteInv /\ PersistInv
  OBVIOUS
<1>1. /\ routes = EmptyMap /\ unmapped = EmptyMap /\ decided = EmptyMap /\ scarred = {}
      /\ settled = [uri \in RouteURI |-> "unmapped"] /\ claims = EmptyMap
  BY ZenonT(30) DEF Init
<1>2. DOMAIN routes = {} /\ DOMAIN decided = {} /\ DOMAIN unmapped = {} /\ DOMAIN claims = {}
  BY <1>1, EmptyIsBindMap, ZenonT(30)
<1>3. IsMap(unmapped, RouteURI, PlanName)
  BY <1>1, EmptyIsMap, ZenonT(30)
<1>4. RouteInv
  BY <1>1, <1>2, <1>3, ZenonT(30) DEF RouteInv, Settled, Waits, Mapped
<1>5. PersistInv
  BY <1>2 DEF PersistInv, Bound
<1> QED
  BY <1>4, <1>5, ZenonT(30)

\* The inductive invariant holds in every state of the broker and of the routes.
THEOREM BrokerInvariant == Spec => [](BrokerInv /\ RouteInv /\ PersistInv)
<1> DEFINE Inv == BrokerInv /\ RouteInv /\ PersistInv
<1>1. Init => Inv
  BY BrokerInit, RoutesInit, ZenonT(30)
<1>2. Inv /\ [Next]_vars => Inv'
  BY BrokerNext, RoutesNext, PersistNext, ZenonT(30) DEF BrokerInv
<1> QED
  BY <1>1, <1>2, PTL DEF Spec

\* The maps of bindings, the queue of updates, the routes and the data group in the
\* file and on the BIG-IP keep their types, whatever requests, endpoints, failing
\* writes and restarts come (servicebroker.go, process, populateBrokerDataGroup).
THEOREM BrokerTypeCorrect == Spec => []BrokerTypeOK
<1>1. BrokerInv /\ RouteInv => BrokerTypeOK
  <2> SUFFICES ASSUME TypeInv, RouteInv PROVE BrokerTypeOK
    BY ZenonT(30) DEF BrokerInv
  <2>1. \A i \in DOMAIN queue : queue[i].op \in {"Add", "Remove", "Bind", "Unbind"}
    <3> SUFFICES ASSUME NEW i \in DOMAIN queue
                 PROVE  queue[i].op \in {"Add", "Remove", "Bind", "Unbind"}
      OBVIOUS
    <3>1. queue[i] \in Update
      BY DEF TypeInv
    <3> QED
      BY <3>1, ZenonT(30) DEF Update
  <2>2. \A id \in DOMAIN claims : claims[id].status \in {"bound", "unbound", "unknown"}
    BY ZenonT(30) DEF TypeInv, IsMap, Claim
  <2>3. /\ IsMap(bindMap, BindID, Binding) /\ IsMap(fetched, BindID, Binding)
        /\ IsMap(file.records, BindID, Binding) /\ IsMap(device.records, BindID, Binding)
    BY DEF TypeInv, IsBindMap, IsGroup
  <2>4. /\ DOMAIN routes \subseteq RouteURI /\ scarred \subseteq DOMAIN routes
        /\ \A uri \in DOMAIN routes :
              routes[uri].settings \in [Setting -> PlanName \cup {Default}]
        /\ IsMap(unmapped, RouteURI, PlanName)
        /\ settled \in [RouteURI -> {"mapped", "unmapped", "reverted"}]
    BY ZenonT(30) DEF RouteInv, IsRoute
  <2> QED
    BY <2>1, <2>2, <2>3, <2>4, ZenonT(30) DEF TypeInv, BrokerTypeOK
<1> QED
  BY <1>1, BrokerInvariant, PTL

\* Once the router is up, the map has every binding the platform holds, with the
\* route and the plan it was made with (Bind, Unbind, processBrokerDataGroup).
THEOREM BrokerKnows == Spec => []BindingsKnown
<1>1. BrokerInv => BindingsKnown
  <2> SUFFICES ASSUME BrokerInv, phase = "worker", NEW id \in Bound \ lost
               PROVE  /\ id \in DOMAIN bindMap
                      /\ bindMap[id] = [uri |-> claims[id].uri, plan |-> claims[id].plan]
    BY ZenonT(30) DEF BindingsKnown
  <2>1. id \in DOMAIN bindMap
    BY ZenonT(30) DEF BrokerInv, MapInv, Known, Bound
  <2>2. bindMap[id] \in Binding
    BY <2>1, ZenonT(30) DEF BrokerInv, TypeInv, IsBindMap, IsMap
  <2>3. bindMap[id].uri = claims[id].uri /\ bindMap[id].plan = claims[id].plan
    BY <2>1, ZenonT(30) DEF BrokerInv, ClaimsInv, MapsAgree, Agrees
  <2> QED
    BY <2>1, <2>2, <2>3, ZenonT(30) DEF Binding
<1> QED
  BY <1>1, BrokerInvariant, PTL

\* What was decided on for a route is in effect, mapped or not, unless the route lost
\* its last endpoint since.
LEMMA DecidedInEffect ==
    ASSUME RouteInv, NEW uri \in RouteURI, settled[uri] # "reverted"
    PROVE  /\ uri \in DOMAIN decided => InEffect(uri, decided[uri])
           /\ uri \notin DOMAIN decided => NoneInEffect(uri)
<1>1. Settled(uri) /\ settled[uri] \in {"mapped", "unmapped"}
  BY ZenonT(30) DEF RouteInv
<1>2. (Mapped(uri) => Follows(uri)) /\ (~Mapped(uri) => Waits(uri))
  BY <1>1 DEF Settled
<1> QED
  BY <1>2, ZenonT(30) DEF Follows, Waits, InEffect, NoneInEffect

\* Once requests are answered and updates processed, each route has the settings of
\* its binding's plan and a route without bindings has defaults, whenever its
\* endpoints came and went (BindUpdates, UnbindUpdates, processBrokerDataGroup and
\* the handlers of the worker): the last update queued about a route is the right
\* one, and what it did is still there.
THEOREM BrokerInEffect == Spec => []BindingsInEffect
<1>1. BrokerInv /\ RouteInv => BindingsInEffect
  <2> SUFFICES ASSUME BrokerInv, RouteInv, Quiet, NEW uri \in RouteURI \ crossed,
                      settled[uri] # "reverted"
               PROVE  LET here == {id \in DOMAIN claims : claims[id].uri = uri}
                      IN  /\ here \subseteq Gone => NoneInEffect(uri)
                          /\ \A id \in here \cap (Bound \ lost) :
                                claims[id].plan \in PlansOf[start] =>
                                   InEffect(uri, claims[id].plan)
    BY ZenonT(30) DEF BindingsInEffect
  <2>1. \A plans : Leads(uri, plans) => Now(uri) = plans
    BY DEF Quiet, Leads, About
  <2>2. ASSUME \A id \in DOMAIN claims : claims[id].uri = uri => claims[id].status = "unbound"
        PROVE  NoneInEffect(uri)
    <3>1. Leads(uri, {})
      BY <2>2, ZenonT(30) DEF BrokerInv, EffectInv, UnboundInv, Quiet
    <3>2. uri \notin DOMAIN decided
      BY <2>1, <3>1, ZenonT(30) DEF Now
    <3> QED
      BY <3>2, DecidedInEffect, ZenonT(30)
  <2>3. ASSUME NEW id \in Bound \ lost, claims[id].uri = uri, claims[id].plan \in PlansOf[start]
        PROVE  InEffect(uri, claims[id].plan)
    <3>1. id \in DOMAIN bindMap /\ claims[id].status = "bound"
      BY DEF BrokerInv, MapInv, Known, Bound, Quiet
    <3>2. Leads(uri, {claims[id].plan})
      BY <2>3, <3>1, ZenonT(30) DEF BrokerInv, EffectInv, BoundInv, Quiet
    <3>3. uri \in DOMAIN decided /\ decided[uri] = claims[id].plan
      BY <2>1, <3>2, ZenonT(30) DEF Now
    <3> QED
      BY <3>3, DecidedInEffect, ZenonT(30)
  <2> QED
    BY <2>2, <2>3, ZenonT(30) DEF Gone
<1> QED
  BY <1>1, BrokerInvariant, PTL

\* Whenever nothing is on its way and the last write did not fail, the file says of
\* the bindings what the map says: each change of the map is followed by an update
\* and the write after it (populateBrokerDataGroup, writeConfig).
THEOREM BrokerFile == Spec => []FileFollowsMap
<1>1. BrokerInv => FileFollowsMap
  BY DEF BrokerInv, FileInv, FileFollowsMap, Quiet, NoRequest
<1> QED
  BY <1>1, BrokerInvariant, PTL

\* Whenever nothing is on its way, the last write did not fail and the driver has
\* applied the file, the BIG-IP has every binding the platform holds, so that the
\* next start recovers it (createResources, process, Run).
THEOREM BrokerPersists == Spec => []BindingsPersist
<1>1. BrokerInv /\ PersistInv => BindingsPersist
  <2> SUFFICES ASSUME BrokerInv, PersistInv, Quiet, ~writeFailed, file.written => device = file
               PROVE  Bound \ lost \subseteq DOMAIN device.records
    BY ZenonT(30) DEF BindingsPersist
  <2>1. CASE ~file.written
    BY <2>1 DEF PersistInv, Quiet
  <2>2. CASE file.written
    <3>1. file = Group(bindMap)
      BY <2>2 DEF BrokerInv, FileInv, Quiet, NoRequest
    <3>2. device.records = bindMap
      BY <2>2, <3>1 DEF Group
    <3>3. Bound \ lost \subseteq DOMAIN bindMap
      BY DEF BrokerInv, MapInv, Known, Bound, Quiet
    <3> QED
      BY <3>2, <3>3, ZenonT(30)
  <2> QED
    BY <2>1, <2>2, ZenonT(30)
<1> QED
  BY <1>1, BrokerInvariant, PTL
=============================================================================
