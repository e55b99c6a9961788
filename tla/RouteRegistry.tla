---------------------------- MODULE RouteRegistry ----------------------------
(***************************************************************************)
(* The registry of HTTP routes (registry/registry.go).  NATS messages and  *)
(* the routing API's fetcher register and unregister endpoints, a ticker   *)
(* prunes the ones nobody refreshed, and the router hears of every member  *)
(* that comes or goes.  Each of the three holds the registry's lock from   *)
(* its first look at the trie to the last update it sends, so each is one  *)
(* action.  A path is a route key: RouteKey lower-cases a URI, cuts its    *)
(* query and its trailing slash.                                           *)
(***************************************************************************)
EXTENDS Trie

CONSTANTS
    Registration,                    \* the pairs of a path and an endpoint that occur
    SuspendPruningIfNatsUnavailable  \* the option of that name

\* The empty URI is left out: the trie takes it, but updateRouter has no update for it.
ASSUME RegistryAssumption ==
    /\ \A reg \in Registration :
          reg[1] \in Seq(STRING) \ {<<>>, <<"">>} /\ reg[2] \in Endpoint
    /\ SuspendPruningIfNatsUnavailable \in BOOLEAN

\* Route keys, as sequences of segments
Path == {reg[1] : reg \in Registration}

VARIABLES
    byURI,            \* the trie
    pruningStatus,    \* "CONNECTED" or "DISCONNECTED"
    natsUp,           \* natsClient.Status() == nats.CONNECTED
    told,             \* the members the updates sent so far leave the router with
    sinceBack         \* history: ticks since pruning last resumed

vars == <<byURI, pruningStatus, natsUp, told, sinceBack>>

Routes == DOMAIN byURI.pool

PoolOf(path) == IF Finds(byURI, path) THEN byURI.pool[path] ELSE EmptyPool

Members == {m \in Path \X Addr : m[1] \in Routes /\ m[2] \in Addrs(byURI.pool[m[1]])}

Init ==
    /\ byURI = EmptyTrie
    /\ pruningStatus = "CONNECTED"
    /\ natsUp = TRUE
    /\ told = {}
    /\ sinceBack = MaxAge

\* Variant of Register that tells the router of new routes only.
RegisterNewRoute(path, e) ==
    /\ byURI' = Insert(byURI, path, PoolPut(PoolOf(path), e))
    /\ told' = IF ~Finds(byURI, path) THEN told \cup {<<path, e.addr>>} ELSE told
    /\ UNCHANGED <<pruningStatus, natsUp, sinceBack>>

\* A member the pool already had is updated without a word to the router.
Register(path, e) ==
    LET pool == PoolOf(path)
        updateRoute == ~Finds(byURI, path) \/ ~Found(pool, e)
    IN  /\ byURI' = Insert(byURI, path, PoolPut(pool, e))
        /\ told' = IF PutAccepts(pool, e) /\ updateRoute
                   THEN told \cup {<<path, e.addr>>} ELSE told
        /\ UNCHANGED <<pruningStatus, natsUp, sinceBack>>

Unregister(path, e) ==
    LET pool == PoolRemove(PoolOf(path), e)
        updated == [byURI EXCEPT !.pool[path] = pool]
    IN  /\ Finds(byURI, path)
        /\ byURI' = IF IsEmpty(pool) THEN Delete(updated, path) ELSE updated
        /\ told' = IF RemoveAccepts(PoolOf(path), e)
                   THEN told \ {<<path, e.addr>>} ELSE told
        /\ UNCHANGED <<pruningStatus, natsUp, sinceBack>>

suspendPruning == SuspendPruningIfNatsUnavailable /\ ~natsUp

\* Variant of freshenRoutes that forgets to.
freshenNothing(t) == t

freshenRoutes(t) == [t EXCEPT !.pool = [path \in DOMAIN @ |-> MarkUpdated(@[path])]]

\* The visit of one node by the pruning walk.
pruneNode(t, path) ==
    Snip([t EXCEPT !.pool[path] = PruneEndpoints(@)], path)

\* The trie after each visit of the walk.
pruneNodes(t, walk) ==
    LET after[k \in 0 .. Len(walk)] == IF k = 0 THEN t ELSE pruneNode(after[k - 1], walk[k])
    IN  after

\* The members that a walk from trie t to trie u removed.
Removed(t, u) ==
    {m \in (DOMAIN t.pool) \X Addr :
        /\ m[2] \in Addrs(t.pool[m[1]])
        /\ m[1] \in DOMAIN u.pool => m[2] \notin Addrs(u.pool[m[1]])}

\* A tick of the pruning cycle.  It only asks whether NATS is up now: an outage
\* that falls between two ticks goes unnoticed.
pruneStaleDroplets ==
    LET resumed == pruningStatus = "DISCONNECTED"
        fresh == IF resumed THEN freshenRoutes(byURI) ELSE byURI
    IN  /\ UNCHANGED natsUp
        /\ IF suspendPruning
           THEN /\ pruningStatus' = "DISCONNECTED"
                /\ UNCHANGED <<byURI, told, sinceBack>>
           ELSE /\ pruningStatus' = "CONNECTED"
                /\ \E walk \in EachNodeWithPool(fresh) :
                      byURI' = pruneNodes(fresh, walk)[Len(walk)]
                /\ told' = told \ Removed(fresh, byURI')
                /\ sinceBack' = IF resumed THEN 0 ELSE sinceBack

Tick ==
    /\ byURI' = [byURI EXCEPT !.pool = [path \in DOMAIN @ |-> Aged(@[path])]]
    /\ sinceBack' = IF sinceBack < MaxAge THEN sinceBack + 1 ELSE sinceBack
    /\ UNCHANGED <<pruningStatus, told, natsUp>>

NatsStatus ==
    /\ natsUp' = ~natsUp
    /\ UNCHANGED <<byURI, pruningStatus, told, sinceBack>>

Next ==
    \/ \E reg \in Registration : Register(reg[1], reg[2]) \/ Unregister(reg[1], reg[2])
    \/ pruneStaleDroplets
    \/ Tick
    \/ NatsStatus

Spec == Init /\ [][Next]_vars

----------------------------------------------------------------------------
RegistryTypeOK ==
    /\ byURI.nodes \subseteq UNION {Way(path) : path \in Path}
    /\ Routes \subseteq Path
    /\ \A path \in Routes : PoolTypeOK(byURI.pool[path])
    /\ pruningStatus \in {"CONNECTED", "DISCONNECTED"}
    /\ natsUp \in BOOLEAN
    /\ told \subseteq Path \X Addr
    /\ sinceBack \in 0 .. MaxAge

\* In every pool the slice, the positions its elements note and the index agree,
\* whatever mix of Put, Remove and PruneEndpoints came before, ids shared
\* between endpoints included (route/pool.go, removeEndpoint).
PoolsConsistent == \A path \in Routes : PoolConsistent(byURI.pool[path])

\* The trie holds the nodes on the way to a route that has members and no other
\* node: Delete and Snip neither cut off a live route nor leave a dead branch.
NoDeadBranches ==
    /\ byURI.nodes = UNION {Way(path) : path \in Routes}
    /\ \A path \in Routes : ~IsEmpty(byURI.pool[path])

\* The tag of each member.
MemberTags ==
    [m \in Members |-> LET pool == byURI.pool[m[1]]
                       IN  pool.endpoints[At(pool, m[2])].endpoint.tag]

Store == INSTANCE RouteStore
         WITH Member <- Path \X Addr, MemberTag <- {e.tag : e \in Endpoint},
              tags <- MemberTags, heard <- told

\* To its feeders and to the router the registry is a RouteStore: the router hears
\* of every member that comes or goes exactly then, and a state of a member only
\* gives way to a newer one, though Register speaks of new members only and the
\* pruning walk snips nodes while it goes (Register, Unregister,
\* pruneStaleDroplets).
RegistryIsStore == Store!Spec

\* After an outage that pruning noticed, no member is pruned before it had its
\* whole threshold to be registered again (pruneStaleDroplets, freshenRoutes).
OutageForgiven ==
    [][pruneStaleDroplets =>
         \A path \in Routes : \A i \in DOMAIN byURI.pool[path].endpoints :
            LET e == byURI.pool[path].endpoints[i].endpoint
            IN  <<path, e.addr>> \in told \ told'
                  => Stale([endpoint |-> e, index |-> i, age |-> sinceBack'])]_vars
=============================================================================
