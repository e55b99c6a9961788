--------------------------- MODULE RegistryProofs ---------------------------
(***************************************************************************)
(* The registry of HTTP routes, for any paths, endpoints and thresholds:   *)
(* its pools and its trie stay whole, it is a RouteStore to its feeders    *)
(* and to the router, an outage of NATS is forgiven, and the subscriber    *)
(* lets it hear of accepted applications only.                             *)
(***************************************************************************)
EXTENDS Subscriber, TrieProofs

\* A trie whose pools are whole and have members.
RoutesOK(t) ==
    /\ TrieOK(t)
    /\ \A path \in DOMAIN t.pool : PoolOK(t.pool[path]) /\ ~IsEmpty(t.pool[path])

\* Trie u holds what trie t does, but for some stale elements.
Pruned(t, u) ==
    /\ DOMAIN u.pool \subseteq DOMAIN t.pool
    /\ \A path \in DOMAIN u.pool : Entries(u.pool[path]) \subseteq Entries(t.pool[path])
    /\ \A path \in DOMAIN t.pool : \A x \in Entries(t.pool[path]) :
          ~Stale(x) => path \in DOMAIN u.pool /\ x \in Entries(u.pool[path])

\* No element is older than the last end of an outage.
AgesOK(t, bound) ==
    \A path \in DOMAIN t.pool : \A x \in Entries(t.pool[path]) : x.age <= bound

\* The inductive invariant.
RegistryInv ==
    /\ RoutesOK(byURI) /\ Routes \subseteq Path
    /\ told = Members
    /\ AgesOK(byURI, sinceBack) /\ sinceBack \in 0 .. MaxAge
    /\ pruningStatus \in {"CONNECTED", "DISCONNECTED"} /\ natsUp \in BOOLEAN
-----------------------------------------------------------------------------
(***************************************************************************)
(* The pruning walk                                                        *)
(***************************************************************************)

\* A pool is empty when it has no entries.
LEMMA EmptyPools ==
    ASSUME NEW p, PoolOK(p)
    PROVE  IsEmpty(p) <=> Entries(p) = {}
<1>1. p.endpoints \in Seq(Element)
  BY DEF PoolOK, PoolTypeOK
<1>2. p.endpoints = <<>> <=> DOMAIN p.endpoints = {}
  <2>1. Len(p.endpoints) \in Nat /\ DOMAIN p.endpoints = 1 .. Len(p.endpoints)
    BY <1>1
  <2>2. \A n \in Nat : 1 .. n = {} <=> n = 0
    OBVIOUS
  <2>3. p.endpoints = <<>> <=> Len(p.endpoints) = 0
    BY <1>1
  <2> QED
    BY <2>1, <2>2, <2>3, ZenonT(30)
<1> QED
  BY <1>2 DEF IsEmpty, Entries

\* The visit of one node: stale elements go, the node with them if nobody is left.
LEMMA PruneNodeKeeps ==
    ASSUME NEW t, RoutesOK(t), NEW path \in DOMAIN t.pool
    PROVE  LET u == pruneNode(t, path)
           IN  RoutesOK(u) /\ Pruned(t, u) /\ DOMAIN t.pool \ {path} \subseteq DOMAIN u.pool
<1> DEFINE p == t.pool[path]
           q == PruneEndpoints(p)
           s == [t EXCEPT !.pool[path] = q]
           u == pruneNode(t, path)
<1>1. PoolOK(q) /\ Entries(q) = {x \in Entries(p) : ~Stale(x)}
  BY PruneKeeps DEF RoutesOK
<1>2. u = Snip(s, path)
  BY DEF pruneNode
<1> HIDE DEF u, q
<1>3. /\ s = [t EXCEPT !.pool = s.pool] /\ DOMAIN s.pool = DOMAIN t.pool
      /\ s.pool = [x \in DOMAIN s.pool |-> s.pool[x]] /\ s.pool[path] = q
      /\ \A x \in DOMAIN t.pool : x # path => s.pool[x] = t.pool[x]
  BY DEF RoutesOK, TrieOK
<1> HIDE DEF s
<1>4. TrieOK(s)
  BY <1>3, OtherPools DEF RoutesOK
<1>5. CASE IsEmpty(q)
  <2>1. /\ TrieOK(u) /\ DOMAIN u.pool = DOMAIN t.pool \ {path}
        /\ \A x \in DOMAIN u.pool : u.pool[x] = s.pool[x]
    BY <1>2, <1>3, <1>4, <1>5, SnipKeeps
  <2>2. \A x \in DOMAIN u.pool : u.pool[x] = t.pool[x]
    BY <1>3, <2>1
  <2>3. \A x \in Entries(p) : Stale(x)
    BY <1>1, <1>5, EmptyPools
  <2>4. Pruned(t, u)
    BY <2>1, <2>2, <2>3 DEF Pruned
  <2>5. RoutesOK(u)
    BY <2>1, <2>2 DEF RoutesOK
  <2> QED
    BY <2>1, <2>4, <2>5 DEF u
<1>6. CASE ~IsEmpty(q)
  <2>1. u = s
    BY <1>2, <1>3, <1>4, <1>6, SnipKeeps
  <2>2. RoutesOK(s)
    BY <1>1, <1>3, <1>4, <1>6 DEF RoutesOK
  <2>3. Pruned(t, s)
    BY <1>1, <1>3 DEF Pruned
  <2> QED
    BY <1>3, <2>1, <2>2, <2>3 DEF u
<1> QED
  BY <1>5, <1>6

\* The whole walk, in whatever order the maps of the trie are iterated: each visit
\* finds its node, and what the walk removes is stale.
LEMMA WalkKeeps ==
    ASSUME NEW t, RoutesOK(t), NEW walk \in EachNodeWithPool(t)
    PROVE  LET u == pruneNodes(t, walk)[Len(walk)]
           IN  RoutesOK(u) /\ Pruned(t, u)
<1> DEFINE n == Len(walk)
           IsWalk(g, i) == g = [k \in 0 .. i |-> IF k = 0 THEN t ELSE pruneNode(g[k - 1], walk[k])]
           Has(i) == \E g : IsWalk(g, i)
<1>1. /\ n \in Nat /\ walk \in [1 .. n -> DOMAIN t.pool]
      /\ \A i, j \in 1 .. n : walk[i] = walk[j] => i = j
  <2>1. PICK m \in 0 .. Cardinality(DOMAIN t.pool) : walk \in Injection(1 .. m, DOMAIN t.pool)
    BY DEF EachNodeWithPool, Orders, Bijection
  <2>2. /\ m \in Nat /\ walk \in [1 .. m -> DOMAIN t.pool]
        /\ \A i, j \in 1 .. m : walk[i] = walk[j] => i = j
    BY <2>1 DEF Injection, IsInjective
  <2>3. n = m
    BY <2>2
  <2> QED
    BY <2>2, <2>3
<1>2. Has(n)
  <2>1. Has(0)
    <3> DEFINE g == [k \in 0 .. 0 |-> t]
    <3>1. IsWalk(g, 0)
      OBVIOUS
    <3> QED
      BY <3>1, ZenonT(30)
  <2>2. ASSUME NEW i \in Nat, Has(i) PROVE Has(i + 1)
    <3>1. PICK g : IsWalk(g, i)
      BY <2>2
    <3> DEFINE h == [k \in 0 .. i + 1 |->
                       IF k = i + 1 THEN pruneNode(g[i], walk[i + 1]) ELSE g[k]]
    <3>2. ASSUME NEW k \in 0 .. i + 1
          PROVE  h[k] = IF k = 0 THEN t ELSE pruneNode(h[k - 1], walk[k])
      <4>1. CASE k = i + 1
        BY <4>1
      <4>2. CASE k # i + 1
        <5>1. g[k] = IF k = 0 THEN t ELSE pruneNode(g[k - 1], walk[k])
          BY <3>1, <4>2
        <5>2. k # 0 => h[k - 1] = g[k - 1]
          BY <4>2
        <5> QED
          BY <4>2, <5>1, <5>2
      <4> QED
        BY <4>1, <4>2
    <3>3. IsWalk(h, i + 1)
      BY <3>2
    <3> QED
      BY <3>3, ZenonT(30)
  <2> DEFINE S == {i \in Nat : Has(i)}
  <2> HIDE DEF Has
  <2>3. 0 \in S /\ \A k \in 0 .. n : k < n /\ k \in S => k + 1 \in S
    BY <1>1, <2>1, <2>2
  <2>4. 0 .. n \subseteq S
    <3> HIDE DEF S, n
    <3> QED
      BY <1>1, <2>3, Upwards
  <2> QED
    BY <1>1, <2>4
<1> DEFINE after == CHOOSE g : IsWalk(g, n)
<1>3. IsWalk(after, n)
  BY <1>2
<1>4. pruneNodes(t, walk) = after
  BY DEF pruneNodes
<1>5. after[0] = t /\ \A k \in 0 .. n : k < n => after[k + 1] = pruneNode(after[k], walk[k + 1])
  <2> HIDE DEF after, n
  <2> QED
    BY <1>1, <1>3
<1> HIDE DEF after
<1> DEFINE Visited(u, k) == /\ RoutesOK(u) /\ Pruned(t, u)
                            /\ \A j \in k + 1 .. n : walk[j] \in DOMAIN u.pool
           S == {k \in 0 .. n : Visited(after[k], k)}
<1>6. 0 \in S
  <2>1. Pruned(t, t)
    BY DEF Pruned
  <2> QED
    BY <1>1, <1>5, <2>1
<1>7. ASSUME NEW k \in 0 .. n, k < n, k \in S PROVE k + 1 \in S
  <2> DEFINE q == after[k]
             u == pruneNode(q, walk[k + 1])
  <2>1. Visited(q, k)
    BY <1>7
  <2> HIDE DEF q
  <2>2. k + 1 \in k + 1 .. n /\ k + 1 \in 0 .. n
    BY <1>1, <1>7
  <2>3. walk[k + 1] \in DOMAIN q.pool
    BY <2>1, <2>2
  <2>4. RoutesOK(u) /\ Pruned(q, u) /\ DOMAIN q.pool \ {walk[k + 1]} \subseteq DOMAIN u.pool
    BY <2>1, <2>3, PruneNodeKeeps
  <2> HIDE DEF u
  <2>5. Pruned(t, u)
    BY <2>1, <2>4, ZenonT(30) DEF Pruned
  <2>6. ASSUME NEW j \in (k + 1) + 1 .. n PROVE walk[j] \in DOMAIN u.pool
    <3>1. j \in k + 1 .. n /\ j \in 1 .. n /\ k + 1 \in 1 .. n /\ j # k + 1
      BY <1>1, <2>2
    <3> QED
      BY <1>1, <2>1, <2>4, <3>1
  <2>7. after[k + 1] = u
    BY <1>5, <1>7 DEF u, q
  <2> QED
    BY <2>2, <2>4, <2>5, <2>6, <2>7
<1>8. n \in S
  <2>1. 0 .. n \subseteq S
    <3> HIDE DEF S, n
    <3> QED
      BY <1>1, <1>6, <1>7, Upwards
  <2>2. n \in 0 .. n
    BY <1>1
  <2> HIDE DEF S, n
  <2> QED
    BY <2>1, <2>2
<1>9. RoutesOK(after[n]) /\ Pruned(t, after[n])
  BY <1>8
<1> QED
  BY <1>4, <1>9
-----------------------------------------------------------------------------
(***************************************************************************)
(* Members and tags of a trie                                              *)
(***************************************************************************)
MembersIn(t) ==
    {m \in Path \X Addr : m[1] \in DOMAIN t.pool /\ m[2] \in Addrs(t.pool[m[1]])}

TagIn(t, m) == t.pool[m[1]].endpoints[At(t.pool[m[1]], m[2])].endpoint.tag

\* Each entry of a pool stands for a member, which has its tag, and each member
\* for an entry.
LEMMA MemberHas ==
    ASSUME NEW t, RoutesOK(t), DOMAIN t.pool \subseteq Path
    PROVE  /\ \A path \in DOMAIN t.pool : \A x \in Entries(t.pool[path]) :
                 /\ x \in Entry
                 /\ <<path, x.endpoint.addr>> \in MembersIn(t)
                 /\ TagIn(t, <<path, x.endpoint.addr>>) = x.endpoint.tag
           /\ \A m \in MembersIn(t) : \E path \in DOMAIN t.pool :
                 \E x \in Entries(t.pool[path]) : m = <<path, x.endpoint.addr>>
<1>1. ASSUME NEW path \in DOMAIN t.pool, NEW x \in Entries(t.pool[path])
      PROVE  /\ x \in Entry
             /\ <<path, x.endpoint.addr>> \in MembersIn(t)
             /\ TagIn(t, <<path, x.endpoint.addr>>) = x.endpoint.tag
  <2> DEFINE p == t.pool[path]
  <2>1. PoolOK(p)
    BY DEF RoutesOK
  <2>2. PICK i \in DOMAIN p.endpoints : x = EntryAt(p, i)
    BY DEF Entries
  <2> HIDE DEF p
  <2>3. x \in Entry /\ x.endpoint = p.endpoints[i].endpoint
    BY <2>1, <2>2, ElementAt
  <2>4. At(p, x.endpoint.addr) = i /\ x.endpoint.addr \in Addr
    BY <2>1, <2>3, AtAddress
  <2>5. x.endpoint.addr \in Addrs(p)
    BY <2>3 DEF Addrs
  <2> QED
    BY <2>3, <2>4, <2>5, ZenonT(30) DEF MembersIn, TagIn, p
<1>2. ASSUME NEW m \in MembersIn(t)
      PROVE  \E path \in DOMAIN t.pool : \E x \in Entries(t.pool[path]) :
                m = <<path, x.endpoint.addr>>
  <2>1. PICK path, a : m = <<path, a>> /\ path \in DOMAIN t.pool /\ a \in Addrs(t.pool[path])
    BY DEF MembersIn
  <2> DEFINE p == t.pool[path]
  <2>2. PoolOK(p)
    BY <2>1 DEF RoutesOK
  <2>3. PICK i \in DOMAIN p.endpoints : a = p.endpoints[i].endpoint.addr
    BY <2>1 DEF Addrs
  <2>4. EntryAt(p, i) \in Entries(p) /\ EntryAt(p, i).endpoint.addr = a
    <3> HIDE DEF p
    <3> QED
      BY <2>2, <2>3, ElementAt
  <2> QED
    BY <2>1, <2>4
<1> QED
  BY <1>1, <1>2, ZenonT(30)

\* Find finds the paths that have a pool.
LEMMA FindsRoutes ==
    ASSUME NEW t, RoutesOK(t), NEW path
    PROVE  Finds(t, path) <=> path \in DOMAIN t.pool
  BY DEF Finds, RoutesOK, TrieOK, WaysTo

\* A new pool is whole.
LEMMA EmptyPoolOK == PoolOK(EmptyPool) /\ Entries(EmptyPool) = {} /\ Addrs(EmptyPool) = {}
<1>1. EmptyPool.endpoints = <<>> /\ EmptyPool.index = EmptyMap
  BY DEF EmptyPool
<1>2. DOMAIN EmptyPool.endpoints = {} /\ DOMAIN EmptyPool.index = {}
  BY <1>1 DEF EmptyMap
<1>3. Entries(EmptyPool) = {} /\ Addrs(EmptyPool) = {}
  BY <1>2 DEF Entries, Addrs
<1>4. PoolTypeOK(EmptyPool)
  BY <1>1, <1>2 DEF PoolTypeOK, IsMap, EmptyMap
<1>5. PoolConsistent(EmptyPool)
  BY <1>2, <1>3 DEF PoolConsistent
<1> QED
  BY <1>3, <1>4, <1>5 DEF PoolOK, EmptyPool
-----------------------------------------------------------------------------
(***************************************************************************)
(* What the operations do to the members                                   *)
(***************************************************************************)

\* The entries of path in trie t, if it has any.
EntriesAt(t, path) == IF path \in DOMAIN t.pool THEN Entries(t.pool[path]) ELSE {}

\* Trie u holds what trie t does outside of path.
ElsewhereSame(t, u, path) ==
    /\ DOMAIN u.pool \cup {path} = DOMAIN t.pool \cup {path}
    /\ \A x \in DOMAIN t.pool : x # path => u.pool[x] = t.pool[x]

\* Register updates or adds a fresh entry for e, or does nothing to the pools.
LEMMA RegisterEffect ==
    ASSUME RegistryInv, NEW reg \in Registration, Register(reg[1], reg[2])
    PROVE  LET path == reg[1]
               e == reg[2]
               others == {x \in EntriesAt(byURI, path) : x.endpoint.addr # e.addr}
           IN  /\ path \in Path /\ e \in Endpoint
               /\ RoutesOK(byURI') /\ ElsewhereSame(byURI, byURI', path)
               /\ path \in DOMAIN byURI'.pool
               /\ \/ /\ EntriesAt(byURI', path) = EntriesAt(byURI, path)
                     /\ told' = told /\ path \in Routes
                  \/ /\ EntriesAt(byURI', path) = others \cup {[endpoint |-> e, age |-> 0]}
                     /\ told' = told \cup {<<path, e.addr>>}
                     /\ \A x \in EntriesAt(byURI, path) :
                          x.endpoint.addr = e.addr => SucceededBy(x.endpoint.tag, e.tag)
<1> DEFINE path == reg[1]
           e == reg[2]
           p == PoolOf(path)
           q == PoolPut(p, e)
           new == [endpoint |-> e, age |-> 0]
           others == {x \in EntriesAt(byURI, path) : x.endpoint.addr # e.addr}
<1>1. path \in Path /\ path \in NodePath /\ e \in Endpoint
  BY RegistryAssumption DEF Path, NodePath
<1>2. RoutesOK(byURI) /\ told = MembersIn(byURI) /\ Routes \subseteq Path
  BY DEF RegistryInv, Members, MembersIn, Routes
<1>3. PoolOK(p) /\ Entries(p) = EntriesAt(byURI, path)
  BY <1>2, FindsRoutes, EmptyPoolOK DEF PoolOf, EntriesAt, RoutesOK
<1>4. Finds(byURI, path) <=> path \in Routes
  BY <1>2, FindsRoutes DEF Routes
<1>5. /\ byURI' = Insert(byURI, path, q)
      /\ told' = IF PutAccepts(p, e) /\ (~Finds(byURI, path) \/ ~Found(p, e))
                 THEN told \cup {<<path, e.addr>>} ELSE told
  BY DEF Register
<1>6. path \notin Routes => ~Found(p, e)
  <2> SUFFICES ASSUME path \notin Routes PROVE ~Found(p, e)
    OBVIOUS
  <2>1. p = EmptyPool
    BY <1>4 DEF PoolOf
  <2> QED
    BY <2>1 DEF EmptyPool, EmptyMap, Found
<1>7. Found(p, e) => <<path, e.addr>> \in told
  <2> SUFFICES ASSUME Found(p, e) PROVE <<path, e.addr>> \in told
    OBVIOUS
  <2>1. path \in Routes /\ p = byURI.pool[path]
    BY <1>4, <1>6 DEF PoolOf
  <2>2. e.addr \in Addrs(p) /\ e.addr \in Addr
    BY <1>1, <1>3, FoundAt, EndpointFields
  <2> QED
    BY <1>1, <1>2, <2>1, <2>2 DEF MembersIn, Routes
<1> HIDE DEF p, q, path, e
<1>8. /\ TrieOK(byURI') /\ DOMAIN byURI'.pool = DOMAIN byURI.pool \cup {path}
      /\ byURI'.pool[path] = q
      /\ \A x \in DOMAIN byURI.pool : x # path => byURI'.pool[x] = byURI.pool[x]
  BY <1>1, <1>2, <1>5, InsertKeeps DEF RoutesOK
<1>9. ElsewhereSame(byURI, byURI', path) /\ path \in DOMAIN byURI'.pool
  BY <1>8 DEF ElsewhereSame
<1>10. EntriesAt(byURI', path) = Entries(q)
  BY <1>8 DEF EntriesAt
<1>11. PoolOK(q) /\ ~IsEmpty(q) => RoutesOK(byURI')
  BY <1>2, <1>8 DEF RoutesOK
<1>12. CASE ~PutAccepts(p, e)
  <2>1. q = p
    BY <1>12 DEF PoolPut, q
  <2>2. Found(p, e)
    BY <1>12 DEF PutAccepts
  <2>3. path \in Routes
    BY <1>6, <2>2
  <2>4. ~IsEmpty(q)
    BY <1>2, <1>4, <2>1, <2>3, ZenonT(30) DEF RoutesOK, Routes, PoolOf, p
  <2> QED
    BY <1>1, <1>3, <1>5, <1>9, <1>10, <1>11, <1>12, <2>1, <2>3, <2>4, ZenonT(30) DEF path, e
<1>13. CASE PutAccepts(p, e)
  <2>1. told' = told \cup {<<path, e.addr>>}
    BY <1>5, <1>7, <1>13
  <2>2. PoolOK(q) /\ Entries(q) = others \cup {new}
    <3>1. CASE Found(p, e)
      BY <1>1, <1>3, <1>13, <3>1, UpdateKeeps DEF q
    <3>2. CASE ~Found(p, e)
      BY <1>1, <1>3, <3>2, AppendKeeps DEF q
    <3> QED
      BY <3>1, <3>2
  <2>3. ~IsEmpty(q)
    BY <2>2, EmptyPools, ZenonT(30)
  <2>4. ASSUME NEW x \in EntriesAt(byURI, path), x.endpoint.addr = e.addr
        PROVE  SucceededBy(x.endpoint.tag, e.tag)
    <3>1. PICK i \in DOMAIN p.endpoints : x = EntryAt(p, i)
      BY <1>3 DEF Entries
    <3>2. x.endpoint = p.endpoints[i].endpoint
      BY <1>3, <3>1, ElementAt
    <3>3. At(p, e.addr) = i /\ Found(p, e)
      <4>1. At(p, e.addr) = i /\ e.addr \in DOMAIN p.index
        BY <1>3, <2>4, <3>2, AtAddress
      <4> QED
        BY <4>1, ZenonT(30) DEF Found
    <3> QED
      BY <1>13, <3>2, <3>3 DEF PutAccepts
  <2> QED
    BY <1>1, <1>9, <1>10, <1>11, <2>1, <2>2, <2>3, <2>4, ZenonT(30) DEF path, e
<1> QED
  BY <1>12, <1>13

\* Unregister removes the entry of e's address, or does nothing to the pools.
LEMMA UnregisterEffect ==
    ASSUME RegistryInv, NEW reg \in Registration, Unregister(reg[1], reg[2])
    PROVE  LET path == reg[1]
               e == reg[2]
           IN  /\ path \in Routes
               /\ RoutesOK(byURI') /\ ElsewhereSame(byURI, byURI', path)
               /\ \/ /\ EntriesAt(byURI', path) = EntriesAt(byURI, path)
                     /\ told' = told
                  \/ /\ EntriesAt(byURI', path) =
                           {x \in EntriesAt(byURI, path) : x.endpoint.addr # e.addr}
                     /\ told' = told \ {<<path, e.addr>>}
<1> DEFINE path == reg[1]
           e == reg[2]
           p == PoolOf(path)
           q == PoolRemove(p, e)
           s == [byURI EXCEPT !.pool[path] = q]
<1>1. RoutesOK(byURI) /\ e \in Endpoint
  BY RegistryAssumption DEF RegistryInv
<1>2. path \in Routes /\ p = byURI.pool[path] /\ path \in DOMAIN byURI.pool
  BY <1>1, FindsRoutes DEF Unregister, PoolOf, Routes
<1>3. PoolOK(p) /\ ~IsEmpty(p) /\ Entries(p) = EntriesAt(byURI, path)
  BY <1>1, <1>2 DEF RoutesOK, EntriesAt
<1>4. /\ byURI' = IF IsEmpty(q) THEN Delete(s, path) ELSE s
      /\ told' = IF RemoveAccepts(p, e) THEN told \ {<<path, e.addr>>} ELSE told
  BY DEF Unregister
<1> HIDE DEF p, q, path, e
<1>5. /\ PoolOK(q)
      /\ RemoveAccepts(p, e) => Entries(q) = {x \in Entries(p) : x.endpoint.addr # e.addr}
      /\ ~RemoveAccepts(p, e) => q = p
  <2>1. CASE RemoveAccepts(p, e)
    <3>1. PICK i \in DOMAIN p.endpoints :
             p.endpoints[i].endpoint.addr = e.addr /\ At(p, e.addr) = i
      BY <1>1, <1>3, <2>1, FoundAt DEF RemoveAccepts
    <3>2. q = removeEndpoint(p, p.endpoints[i])
      BY <2>1, <3>1 DEF PoolRemove, q
    <3> QED
      BY <1>3, <2>1, <3>1, <3>2, RemoveKeeps
  <2>2. CASE ~RemoveAccepts(p, e)
    BY <1>3, <2>2 DEF PoolRemove, q
  <2> QED
    BY <2>1, <2>2
<1>6. /\ s = [byURI EXCEPT !.pool = s.pool] /\ DOMAIN s.pool = DOMAIN byURI.pool
      /\ s.pool = [x \in DOMAIN s.pool |-> s.pool[x]] /\ s.pool[path] = q
      /\ \A x \in DOMAIN byURI.pool : x # path => s.pool[x] = byURI.pool[x]
  BY <1>1, <1>2 DEF RoutesOK, TrieOK
<1> HIDE DEF s
<1>7. TrieOK(s)
  BY <1>1, <1>6, OtherPools DEF RoutesOK
<1>8. /\ RoutesOK(byURI') /\ ElsewhereSame(byURI, byURI', path)
      /\ EntriesAt(byURI', path) = Entries(q)
  <2>1. CASE IsEmpty(q)
    <3>1. byURI' = Delete(s, path)
      BY <1>4, <2>1
    <3>2. /\ TrieOK(byURI') /\ DOMAIN byURI'.pool = DOMAIN s.pool \ {path}
          /\ \A x \in DOMAIN byURI'.pool : byURI'.pool[x] = s.pool[x]
      BY <1>2, <1>6, <1>7, <3>1, DeleteKeeps
    <3>3. RoutesOK(byURI') /\ ElsewhereSame(byURI, byURI', path)
      BY <1>1, <1>6, <3>2 DEF RoutesOK, ElsewhereSame
    <3>4. Entries(q) = {}
      BY <1>5, <2>1, EmptyPools
    <3> QED
      BY <3>2, <3>3, <3>4 DEF EntriesAt
  <2>2. CASE ~IsEmpty(q)
    <3>1. byURI' = s
      BY <1>4, <2>2
    <3>2. RoutesOK(s)
      BY <1>1, <1>5, <1>6, <1>7, <2>2 DEF RoutesOK
    <3>3. ElsewhereSame(byURI, s, path)
      BY <1>6 DEF ElsewhereSame
    <3>4. EntriesAt(s, path) = Entries(q)
      BY <1>2, <1>6 DEF EntriesAt
    <3> QED
      BY <3>1, <3>2, <3>3, <3>4
  <2> QED
    BY <2>1, <2>2
<1> QED
  BY <1>2, <1>3, <1>4, <1>5, <1>8 DEF path, e

\* A change to every pool, that empties none, leaves the trie whole.
LEMMA EachPool ==
    ASSUME NEW t, RoutesOK(t), NEW u, u = [t EXCEPT !.pool = u.pool],
           DOMAIN u.pool = DOMAIN t.pool, u.pool = [path \in DOMAIN u.pool |-> u.pool[path]],
           \A path \in DOMAIN t.pool :
              PoolOK(u.pool[path]) /\ Len(u.pool[path].endpoints) = Len(t.pool[path].endpoints)
    PROVE  RoutesOK(u)
<1>1. TrieOK(u)
  BY OtherPools DEF RoutesOK
<1>2. ASSUME NEW path \in DOMAIN u.pool PROVE PoolOK(u.pool[path]) /\ ~IsEmpty(u.pool[path])
  <2>1. /\ PoolOK(u.pool[path]) /\ PoolOK(t.pool[path]) /\ ~IsEmpty(t.pool[path])
        /\ Len(u.pool[path].endpoints) = Len(t.pool[path].endpoints)
    BY DEF RoutesOK
  <2>2. t.pool[path].endpoints \in Seq(Element)
    BY <2>1 DEF PoolOK, PoolTypeOK
  <2> QED
    BY <2>1, <2>2 DEF IsEmpty
<1> QED
  BY <1>1, <1>2 DEF RoutesOK

\* Once pruning resumes every entry counts as updated now.
LEMMA FreshenKeeps ==
    ASSUME NEW t, RoutesOK(t)
    PROVE  LET u == freshenRoutes(t)
           IN  /\ RoutesOK(u) /\ DOMAIN u.pool = DOMAIN t.pool
               /\ \A path \in DOMAIN t.pool : Entries(u.pool[path]) =
                     {[endpoint |-> x.endpoint, age |-> 0] : x \in Entries(t.pool[path])}
<1> DEFINE u == freshenRoutes(t)
<1>1. /\ u = [t EXCEPT !.pool = u.pool] /\ DOMAIN u.pool = DOMAIN t.pool
      /\ u.pool = [path \in DOMAIN u.pool |-> u.pool[path]]
      /\ \A path \in DOMAIN t.pool : u.pool[path] = MarkUpdated(t.pool[path])
  BY DEF freshenRoutes, RoutesOK, TrieOK
<1> HIDE DEF u
<1>2. ASSUME NEW path \in DOMAIN t.pool
      PROVE  /\ PoolOK(u.pool[path])
             /\ Len(u.pool[path].endpoints) = Len(t.pool[path].endpoints)
             /\ Entries(u.pool[path]) =
                   {[endpoint |-> x.endpoint, age |-> 0] : x \in Entries(t.pool[path])}
  BY <1>1, MarkKeeps DEF RoutesOK
<1>3. RoutesOK(u)
  BY <1>1, <1>2, EachPool
<1> QED
  BY <1>1, <1>2, <1>3 DEF u

\* A tick of the pruning cycle that prunes, from the trie that fresh stands for.
LEMMA PruneEffect ==
    ASSUME RegistryInv, pruneStaleDroplets, ~suspendPruning
    PROVE  LET fresh == IF pruningStatus = "DISCONNECTED" THEN freshenRoutes(byURI) ELSE byURI
           IN  /\ RoutesOK(fresh) /\ DOMAIN fresh.pool = DOMAIN byURI.pool
               /\ \A path \in DOMAIN byURI.pool :
                     /\ \A x \in Entries(fresh.pool[path]) :
                           \E y \in Entries(byURI.pool[path]) : x.endpoint = y.endpoint
                     /\ \A y \in Entries(byURI.pool[path]) :
                           \E x \in Entries(fresh.pool[path]) : x.endpoint = y.endpoint
               /\ AgesOK(fresh, sinceBack') /\ sinceBack' \in 0 .. MaxAge
               /\ RoutesOK(byURI') /\ Pruned(fresh, byURI')
               /\ told' = told \ Removed(fresh, byURI')
<1> DEFINE fresh == IF pruningStatus = "DISCONNECTED" THEN freshenRoutes(byURI) ELSE byURI
<1>1. /\ told' = told \ Removed(fresh, byURI')
      /\ \E walk \in EachNodeWithPool(fresh) : byURI' = pruneNodes(fresh, walk)[Len(walk)]
      /\ sinceBack' = IF pruningStatus = "DISCONNECTED" THEN 0 ELSE sinceBack
  BY DEF pruneStaleDroplets
<1>2. RoutesOK(byURI) /\ AgesOK(byURI, sinceBack) /\ sinceBack \in 0 .. MaxAge
  BY DEF RegistryInv
<1>3. /\ RoutesOK(fresh) /\ DOMAIN fresh.pool = DOMAIN byURI.pool
      /\ \A path \in DOMAIN byURI.pool :
            /\ \A x \in Entries(fresh.pool[path]) :
                  \E y \in Entries(byURI.pool[path]) : x.endpoint = y.endpoint
            /\ \A y \in Entries(byURI.pool[path]) :
                  \E x \in Entries(fresh.pool[path]) : x.endpoint = y.endpoint
      /\ AgesOK(fresh, sinceBack') /\ sinceBack' \in 0 .. MaxAge
  <2>1. CASE pruningStatus = "DISCONNECTED"
    <3> DEFINE u == freshenRoutes(byURI)
    <3>1. /\ RoutesOK(u) /\ DOMAIN u.pool = DOMAIN byURI.pool
          /\ \A path \in DOMAIN byURI.pool : Entries(u.pool[path]) =
                {[endpoint |-> x.endpoint, age |-> 0] : x \in Entries(byURI.pool[path])}
      BY <1>2, FreshenKeeps
    <3>2. fresh = u /\ sinceBack' = 0 /\ 0 \in 0 .. MaxAge
      BY <1>1, <2>1, PoolAssumption DEF MaxAge
    <3> HIDE DEF u, fresh
    <3>3. \A path \in DOMAIN u.pool : \A x \in Entries(u.pool[path]) : x.age = 0
      BY <3>1
    <3>4. AgesOK(u, 0)
      BY <3>3 DEF AgesOK
    <3>5. ASSUME NEW path \in DOMAIN byURI.pool
          PROVE  /\ \A x \in Entries(u.pool[path]) :
                       \E y \in Entries(byURI.pool[path]) : x.endpoint = y.endpoint
                 /\ \A y \in Entries(byURI.pool[path]) :
                       \E x \in Entries(u.pool[path]) : x.endpoint = y.endpoint
      <4>1. \A x \in Entries(u.pool[path]) :
               \E y \in Entries(byURI.pool[path]) : x.endpoint = y.endpoint
        BY <3>1
      <4>2. ASSUME NEW y \in Entries(byURI.pool[path])
            PROVE  \E x \in Entries(u.pool[path]) : x.endpoint = y.endpoint
        <5>1. [endpoint |-> y.endpoint, age |-> 0] \in Entries(u.pool[path])
          BY <3>1
        <5> QED
          BY <5>1
      <4> QED
        BY <4>1, <4>2
    <3> QED
      BY <3>1, <3>2, <3>4, <3>5
  <2>2. CASE pruningStatus # "DISCONNECTED"
    BY <1>1, <1>2, <2>2
  <2> QED
    BY <2>1, <2>2
<1> HIDE DEF fresh
<1>4. RoutesOK(byURI') /\ Pruned(fresh, byURI')
  BY <1>1, <1>3, WalkKeeps
<1> QED
  BY <1>1, <1>3, <1>4 DEF fresh

\* The members of a trie are those of its entries, so a trie with the same
\* endpoints has the same members.
LEMMA SameMembers ==
    ASSUME NEW t, RoutesOK(t), DOMAIN t.pool \subseteq Path,
           NEW u, RoutesOK(u), DOMAIN u.pool \subseteq DOMAIN t.pool,
           \A path \in DOMAIN u.pool : \A x \in Entries(u.pool[path]) :
              \E y \in Entries(t.pool[path]) : x.endpoint = y.endpoint
    PROVE  /\ MembersIn(u) \subseteq MembersIn(t)
           /\ \A m \in MembersIn(u) : TagIn(u, m) = TagIn(t, m)
<1> SUFFICES ASSUME NEW m \in MembersIn(u)
             PROVE  m \in MembersIn(t) /\ TagIn(u, m) = TagIn(t, m)
  OBVIOUS
<1>1. DOMAIN u.pool \subseteq Path
  OBVIOUS
<1>2. PICK path \in DOMAIN u.pool : \E x \in Entries(u.pool[path]) : m = <<path, x.endpoint.addr>>
  BY <1>1, MemberHas
<1>3. PICK x \in Entries(u.pool[path]) : m = <<path, x.endpoint.addr>>
  BY <1>2
<1>4. PICK y \in Entries(t.pool[path]) : x.endpoint = y.endpoint
  BY <1>2
<1>5. TagIn(u, m) = x.endpoint.tag
  BY <1>1, <1>3, MemberHas, ZenonT(30)
<1>6. m \in MembersIn(t) /\ TagIn(t, m) = y.endpoint.tag
  <2>1. path \in DOMAIN t.pool /\ m = <<path, y.endpoint.addr>>
    BY <1>3, <1>4
  <2>2. \A z \in Entries(t.pool[path]) :
           /\ <<path, z.endpoint.addr>> \in MembersIn(t)
           /\ TagIn(t, <<path, z.endpoint.addr>>) = z.endpoint.tag
    BY <2>1, MemberHas, ZenonT(30)
  <2> QED
    BY <2>1, <2>2
<1> QED
  BY <1>4, <1>5, <1>6

\* A tick of the clock.
LEMMA TickEffect ==
    ASSUME RegistryInv, Tick
    PROVE  /\ RoutesOK(byURI') /\ DOMAIN byURI'.pool = DOMAIN byURI.pool
           /\ \A path \in DOMAIN byURI.pool :
                 Entries(byURI'.pool[path]) = {Older(x) : x \in Entries(byURI.pool[path])}
<1> DEFINE u == byURI'
<1>1. RoutesOK(byURI)
  BY DEF RegistryInv
<1>2. /\ u = [byURI EXCEPT !.pool = u.pool] /\ DOMAIN u.pool = DOMAIN byURI.pool
      /\ u.pool = [path \in DOMAIN u.pool |-> u.pool[path]]
      /\ \A path \in DOMAIN byURI.pool : u.pool[path] = Aged(byURI.pool[path])
  BY <1>1 DEF Tick, RoutesOK, TrieOK
<1> HIDE DEF u
<1>3. ASSUME NEW path \in DOMAIN byURI.pool
      PROVE  /\ PoolOK(u.pool[path])
             /\ Len(u.pool[path].endpoints) = Len(byURI.pool[path].endpoints)
             /\ Entries(u.pool[path]) = {Older(x) : x \in Entries(byURI.pool[path])}
  BY <1>1, <1>2, AgedKeeps DEF RoutesOK
<1>4. RoutesOK(u)
  BY <1>1, <1>2, <1>3, EachPool
<1> QED
  BY <1>2, <1>3, <1>4, ZenonT(30) DEF u
-----------------------------------------------------------------------------
(***************************************************************************)
(* The invariant                                                           *)
(***************************************************************************)

\* The members are those of the trie.
LEMMA MembersAre == Members = MembersIn(byURI)
  BY DEF Members, MembersIn, Routes

\* The registry starts empty.
LEMMA RegistryInit == Init => RegistryInv
<1> SUFFICES ASSUME Init PROVE RegistryInv
  OBVIOUS
<1>1. byURI.pool = EmptyMap /\ byURI.nodes = {} /\ byURI = [nodes |-> {}, pool |-> EmptyMap]
  BY DEF Init, EmptyTrie
<1>2. DOMAIN byURI.pool = {}
  BY <1>1 DEF EmptyMap
<1>3. IsFiniteSet({})
  BY FS_EmptySet
<1>4. TrieOK(byURI)
  BY <1>1, <1>2, <1>3 DEF TrieOK, WaysTo, EmptyMap
<1>5. MaxAge \in 0 .. MaxAge
  BY PoolAssumption DEF MaxAge
<1> QED
  BY <1>2, <1>4, <1>5 DEF Init, RegistryInv, RoutesOK, AgesOK, Members, Routes

\* Register keeps the invariant.
LEMMA RegisterKeeps ==
    ASSUME RegistryInv, NEW reg \in Registration, Register(reg[1], reg[2])
    PROVE  RegistryInv'
<1> PICK path, e : path = reg[1] /\ e = reg[2]
  OBVIOUS
<1> DEFINE others == {x \in EntriesAt(byURI, path) : x.endpoint.addr # e.addr}
           new == [endpoint |-> e, age |-> 0]
           m == <<path, e.addr>>
<1>1. /\ path \in Path /\ e \in Endpoint
      /\ RoutesOK(byURI') /\ ElsewhereSame(byURI, byURI', path)
      /\ path \in DOMAIN byURI'.pool
      /\ \/ /\ EntriesAt(byURI', path) = EntriesAt(byURI, path)
            /\ told' = told /\ path \in Routes
         \/ /\ EntriesAt(byURI', path) = others \cup {new}
            /\ told' = told \cup {m}
  BY RegisterEffect
<1>2. /\ UNCHANGED <<pruningStatus, natsUp, sinceBack>>
      /\ RoutesOK(byURI) /\ DOMAIN byURI.pool \subseteq Path /\ told = MembersIn(byURI)
      /\ AgesOK(byURI, sinceBack) /\ sinceBack \in 0 .. MaxAge
  BY MembersAre DEF Register, RegistryInv, Routes
<1>3. DOMAIN byURI'.pool \subseteq Path
  BY <1>1, <1>2 DEF ElsewhereSame
<1>4. \A y \in DOMAIN byURI'.pool : y # path =>
         y \in DOMAIN byURI.pool /\ byURI'.pool[y] = byURI.pool[y]
  BY <1>1 DEF ElsewhereSame
<1>5. \A x \in Entries(byURI'.pool[path]) : x \in EntriesAt(byURI, path) \/ x = new
  BY <1>1 DEF EntriesAt
<1>6. AgesOK(byURI', sinceBack)
  <2> SUFFICES ASSUME NEW y \in DOMAIN byURI'.pool, NEW x \in Entries(byURI'.pool[y])
               PROVE  x.age <= sinceBack
    BY DEF AgesOK
  <2>1. CASE y # path
    BY <1>2, <1>4, <2>1 DEF AgesOK
  <2>2. CASE y = path
    <3>1. CASE x = new
      BY <1>2, <3>1, PoolAssumption DEF MaxAge
    <3>2. CASE x \in EntriesAt(byURI, path)
      BY <1>2, <3>2 DEF AgesOK, EntriesAt
    <3> QED
      BY <1>5, <2>2, <3>1, <3>2
  <2> QED
    BY <2>1, <2>2
<1>7. told' = MembersIn(byURI')
  <2>1. ASSUME NEW y \in DOMAIN byURI.pool, NEW x \in Entries(byURI.pool[y])
        PROVE  <<y, x.endpoint.addr>> \in MembersIn(byURI')
    <3>1. CASE y # path
      <4>1. y \in DOMAIN byURI'.pool /\ x \in Entries(byURI'.pool[y])
        BY <1>1, <3>1 DEF ElsewhereSame
      <4> QED
        BY <1>1, <1>3, <4>1, MemberHas, ZenonT(30)
    <3>2. CASE y = path
      <4>1. x \in EntriesAt(byURI, path)
        BY <3>2 DEF EntriesAt
      <4>2. CASE x \in EntriesAt(byURI', path)
        <5>1. x \in Entries(byURI'.pool[path])
          BY <1>1, <4>2 DEF EntriesAt
        <5> QED
          BY <1>1, <1>3, <3>2, <5>1, MemberHas, ZenonT(30)
      <4>3. CASE x \notin EntriesAt(byURI', path)
        <5>1. x.endpoint.addr = e.addr /\ new \in EntriesAt(byURI', path)
          BY <1>1, <4>1, <4>3
        <5>2. new \in Entries(byURI'.pool[path]) /\ new.endpoint.addr = e.addr
          BY <1>1, <5>1 DEF EntriesAt
        <5> QED
          BY <1>1, <1>3, <3>2, <5>1, <5>2, MemberHas, ZenonT(30)
      <4> QED
        BY <4>2, <4>3
    <3> QED
      BY <3>1, <3>2
  <2>2. MembersIn(byURI) \subseteq MembersIn(byURI')
    <3> SUFFICES ASSUME NEW k \in MembersIn(byURI) PROVE k \in MembersIn(byURI')
      OBVIOUS
    <3>1. PICK y \in DOMAIN byURI.pool : \E x \in Entries(byURI.pool[y]) : k = <<y, x.endpoint.addr>>
      BY <1>2, MemberHas
    <3> QED
      BY <2>1, <3>1
  <2>3. told' \subseteq MembersIn(byURI')
    <3>1. CASE told' = told
      BY <1>2, <2>2, <3>1
    <3>2. CASE told' = told \cup {m} /\ EntriesAt(byURI', path) = others \cup {new}
      <4>1. new \in Entries(byURI'.pool[path]) /\ new.endpoint.addr = e.addr
        BY <1>1, <3>2 DEF EntriesAt
      <4>2. m \in MembersIn(byURI')
        BY <1>1, <1>3, <4>1, MemberHas
      <4> QED
        BY <1>2, <2>2, <3>2, <4>2, ZenonT(30)
    <3> QED
      BY <1>1, <3>1, <3>2
  <2>4. MembersIn(byURI') \subseteq told'
    <3> SUFFICES ASSUME NEW k \in MembersIn(byURI') PROVE k \in told'
      OBVIOUS
    <3>1. PICK y \in DOMAIN byURI'.pool :
             \E x \in Entries(byURI'.pool[y]) : k = <<y, x.endpoint.addr>>
      BY <1>1, <1>3, MemberHas
    <3>2. PICK x \in Entries(byURI'.pool[y]) : k = <<y, x.endpoint.addr>>
      BY <3>1
    <3>3. CASE y # path
      <4>1. k \in MembersIn(byURI)
        BY <1>2, <1>4, <3>2, <3>3, MemberHas
      <4> QED
        BY <1>1, <1>2, <4>1
    <3>4. CASE y = path
      <4>1. CASE x \in EntriesAt(byURI, path)
        <5>1. k \in MembersIn(byURI)
          BY <1>2, <3>2, <3>4, <4>1, MemberHas, ZenonT(30) DEF EntriesAt
        <5> QED
          BY <1>1, <1>2, <5>1, ZenonT(30)
      <4>2. CASE x \notin EntriesAt(byURI, path)
        <5>1. x = new /\ told' = told \cup {m}
          BY <1>1, <1>5, <3>4, <4>2 DEF EntriesAt
        <5> QED
          BY <3>2, <3>4, <5>1
      <4> QED
        BY <4>1, <4>2
    <3> QED
      BY <3>3, <3>4
  <2> QED
    BY <2>3, <2>4
<1> QED
  BY <1>1, <1>2, <1>3, <1>6, <1>7 DEF RegistryInv, Members, MembersIn, Routes

\* Unregister keeps the invariant.
LEMMA UnregisterKeeps ==
    ASSUME RegistryInv, NEW reg \in Registration, Unregister(reg[1], reg[2])
    PROVE  /\ RegistryInv'
           /\ \A y \in DOMAIN byURI'.pool : /\ y \in DOMAIN byURI.pool
                                            /\ Entries(byURI'.pool[y]) \subseteq Entries(byURI.pool[y])
<1> PICK path, e : path = reg[1] /\ e = reg[2]
  OBVIOUS
<1> DEFINE m == <<path, e.addr>>
<1>1. /\ path \in Routes
      /\ RoutesOK(byURI') /\ ElsewhereSame(byURI, byURI', path)
      /\ \/ /\ EntriesAt(byURI', path) = EntriesAt(byURI, path)
            /\ told' = told
         \/ /\ EntriesAt(byURI', path) =
                  {x \in EntriesAt(byURI, path) : x.endpoint.addr # e.addr}
            /\ told' = told \ {m}
  BY UnregisterEffect
<1>2. /\ UNCHANGED <<pruningStatus, natsUp, sinceBack>>
      /\ RoutesOK(byURI) /\ DOMAIN byURI.pool \subseteq Path /\ told = MembersIn(byURI)
      /\ AgesOK(byURI, sinceBack)
  BY MembersAre DEF Unregister, RegistryInv, Routes
<1>3. /\ DOMAIN byURI'.pool \subseteq Path /\ DOMAIN byURI'.pool \subseteq DOMAIN byURI.pool
      /\ path \in DOMAIN byURI.pool
  BY <1>1, <1>2 DEF ElsewhereSame, Routes
<1>4. \A y \in DOMAIN byURI.pool : y # path =>
         y \in DOMAIN byURI'.pool /\ byURI'.pool[y] = byURI.pool[y]
  BY <1>1 DEF ElsewhereSame
<1>5. \A y \in DOMAIN byURI'.pool : Entries(byURI'.pool[y]) \subseteq Entries(byURI.pool[y])
  <2> SUFFICES ASSUME NEW y \in DOMAIN byURI'.pool
               PROVE  Entries(byURI'.pool[y]) \subseteq Entries(byURI.pool[y])
    OBVIOUS
  <2>1. CASE y # path
    BY <1>3, <1>4, <2>1, ZenonT(30)
  <2>2. CASE y = path
    BY <1>1, <1>3, <2>2 DEF EntriesAt
  <2> QED
    BY <2>1, <2>2
<1>6. AgesOK(byURI', sinceBack)
  BY <1>2, <1>3, <1>5 DEF AgesOK
<1>7. told' = MembersIn(byURI')
  <2>1. MembersIn(byURI') \subseteq MembersIn(byURI)
    BY <1>1, <1>2, <1>3, <1>5, SameMembers, ZenonT(30)
  <2>2. ASSUME NEW k \in MembersIn(byURI'), told' = told \ {m},
               EntriesAt(byURI', path) = {x \in EntriesAt(byURI, path) : x.endpoint.addr # e.addr}
        PROVE  k # m
    <3>1. PICK y \in DOMAIN byURI'.pool :
             \E x \in Entries(byURI'.pool[y]) : k = <<y, x.endpoint.addr>>
      <4>1. \A l \in MembersIn(byURI') : \E y \in DOMAIN byURI'.pool :
               \E x \in Entries(byURI'.pool[y]) : l = <<y, x.endpoint.addr>>
        BY <1>1, <1>3, MemberHas, ZenonT(30)
      <4> QED
        BY <4>1, ZenonT(30)
    <3> QED
      BY <2>2, <3>1 DEF EntriesAt
  <2>3. MembersIn(byURI') \subseteq told'
    BY <1>1, <1>2, <2>1, <2>2, ZenonT(30)
  <2>4. ASSUME NEW k \in told' PROVE k \in MembersIn(byURI')
    <3>1. k \in MembersIn(byURI)
      BY <1>1, <1>2
    <3>2. PICK y \in DOMAIN byURI.pool : \E x \in Entries(byURI.pool[y]) : k = <<y, x.endpoint.addr>>
      BY <1>2, <3>1, MemberHas
    <3>3. PICK x \in Entries(byURI.pool[y]) : k = <<y, x.endpoint.addr>>
      BY <3>2
    <3>4. x \in EntriesAt(byURI', y)
      <4>1. CASE y # path
        BY <1>4, <4>1 DEF EntriesAt
      <4>2. CASE y = path
        <5>1. x \in EntriesAt(byURI, path)
          BY <4>2 DEF EntriesAt
        <5>2. told' = told \ {m} => x.endpoint.addr # e.addr
          BY <2>4, <3>3, <4>2
        <5> QED
          BY <1>1, <4>2, <5>1, <5>2
      <4> QED
        BY <4>1, <4>2
    <3>5. y \in DOMAIN byURI'.pool /\ x \in Entries(byURI'.pool[y])
      BY <3>4 DEF EntriesAt
    <3> QED
      BY <1>1, <1>3, <3>3, <3>5, MemberHas, ZenonT(30)
  <2> QED
    BY <2>3, <2>4, ZenonT(30)
<1> QED
  BY <1>1, <1>2, <1>3, <1>5, <1>6, <1>7 DEF RegistryInv, Members, MembersIn, Routes

\* Pruning keeps the invariant, and what it removes is stale.
LEMMA PruneStepKeeps ==
    ASSUME RegistryInv, pruneStaleDroplets, ~suspendPruning
    PROVE  /\ RegistryInv'
           /\ \A y \in DOMAIN byURI'.pool : y \in DOMAIN byURI.pool
           /\ \A y \in DOMAIN byURI'.pool : \A x \in Entries(byURI'.pool[y]) :
                 \E z \in Entries(byURI.pool[y]) : x.endpoint = z.endpoint
           /\ \A y \in DOMAIN byURI.pool : \A z \in Entries(byURI.pool[y]) :
                 <<y, z.endpoint.addr>> \notin told' =>
                    Stale([endpoint |-> z.endpoint, age |-> sinceBack'])
<1> PICK fresh : fresh = IF pruningStatus = "DISCONNECTED" THEN freshenRoutes(byURI) ELSE byURI
  OBVIOUS
<1> DEFINE u == byURI'
<1>1. /\ RoutesOK(fresh) /\ DOMAIN fresh.pool = DOMAIN byURI.pool
      /\ \A path \in DOMAIN byURI.pool :
            /\ \A x \in Entries(fresh.pool[path]) :
                  \E y \in Entries(byURI.pool[path]) : x.endpoint = y.endpoint
            /\ \A y \in Entries(byURI.pool[path]) :
                  \E x \in Entries(fresh.pool[path]) : x.endpoint = y.endpoint
      /\ AgesOK(fresh, sinceBack') /\ sinceBack' \in 0 .. MaxAge
      /\ RoutesOK(u) /\ Pruned(fresh, u)
      /\ told' = told \ Removed(fresh, u)
  BY PruneEffect
<1>2. /\ RoutesOK(byURI) /\ DOMAIN byURI.pool \subseteq Path /\ told = MembersIn(byURI)
      /\ pruningStatus' = "CONNECTED" /\ natsUp' = natsUp /\ natsUp \in BOOLEAN
  BY MembersAre DEF pruneStaleDroplets, RegistryInv, Routes
<1> HIDE DEF u
<1>4. DOMAIN u.pool \subseteq Path /\ DOMAIN u.pool \subseteq DOMAIN byURI.pool
  BY <1>1, <1>2 DEF Pruned
<1>5. told = MembersIn(fresh)
  <2>1. MembersIn(fresh) \subseteq MembersIn(byURI)
    BY <1>1, <1>2, SameMembers
  <2>2. MembersIn(byURI) \subseteq MembersIn(fresh)
    BY <1>1, <1>2, SameMembers
  <2> QED
    BY <1>2, <2>1, <2>2
<1>6. told' = MembersIn(u)
  <2>1. \A y \in DOMAIN u.pool : \A x \in Entries(u.pool[y]) :
           \E z \in Entries(fresh.pool[y]) : x.endpoint = z.endpoint
    BY <1>1, ZenonT(30) DEF Pruned
  <2>2. MembersIn(u) \subseteq MembersIn(fresh)
    BY <1>1, <1>2, <1>4, <2>1, SameMembers
  <2>3. \A k \in MembersIn(fresh) : k \in Removed(fresh, u) <=> k \notin MembersIn(u)
    BY DEF MembersIn, Removed
  <2> QED
    BY <1>1, <1>5, <2>2, <2>3
<1>7. ASSUME NEW y \in DOMAIN u.pool, NEW x \in Entries(u.pool[y])
      PROVE  \E z \in Entries(byURI.pool[y]) : x.endpoint = z.endpoint
  <2>1. y \in DOMAIN byURI.pool /\ x \in Entries(fresh.pool[y])
    BY <1>1, ZenonT(30) DEF Pruned
  <2> QED
    BY <1>1, <2>1
<1>8. AgesOK(u, sinceBack')
  BY <1>1 DEF AgesOK, Pruned
<1>9. ASSUME NEW y \in DOMAIN byURI.pool, NEW z \in Entries(byURI.pool[y]),
             <<y, z.endpoint.addr>> \notin told'
      PROVE  Stale([endpoint |-> z.endpoint, age |-> sinceBack'])
  <2>1. PICK x \in Entries(fresh.pool[y]) : x.endpoint = z.endpoint
    BY <1>1
  <2>2. y \in DOMAIN fresh.pool /\ x \in Entry /\ x.age <= sinceBack'
    BY <1>1, <1>2, MemberHas, ZenonT(30) DEF AgesOK
  <2>3. Stale(x)
    <3> SUFFICES ASSUME ~Stale(x) PROVE FALSE
      OBVIOUS
    <3>1. y \in DOMAIN u.pool /\ x \in Entries(u.pool[y])
      BY <1>1, <2>2 DEF Pruned
    <3>2. <<y, x.endpoint.addr>> \in MembersIn(u)
      BY <1>1, <1>4, <3>1, MemberHas, ZenonT(30)
    <3> QED
      BY <1>6, <1>9, <2>1, <3>2
  <2>4. x.age \in Int /\ sinceBack' \in Int /\ z.endpoint \in Endpoint
    BY <1>1, <2>1, <2>2, PoolAssumption DEF Entry, MaxAge
  <2>5. z.endpoint.staleThreshold \in Nat
    BY <2>4, EndpointFields
  <2> QED
    BY <2>1, <2>2, <2>3, <2>4, <2>5, PoolAssumption DEF Stale
<1> QED
  BY <1>1, <1>2, <1>4, <1>6, <1>7, <1>8, <1>9, ZenonT(30) DEF RegistryInv, Members, MembersIn, Routes, u

\* A tick of the clock keeps the invariant.
LEMMA TickKeeps ==
    ASSUME RegistryInv, Tick
    PROVE  /\ RegistryInv'
           /\ \A y \in DOMAIN byURI'.pool : y \in DOMAIN byURI.pool
           /\ \A y \in DOMAIN byURI'.pool : \A x \in Entries(byURI'.pool[y]) :
                 \E z \in Entries(byURI.pool[y]) : x.endpoint = z.endpoint
<1> DEFINE u == byURI'
<1>1. /\ RoutesOK(u) /\ DOMAIN u.pool = DOMAIN byURI.pool
      /\ \A y \in DOMAIN byURI.pool : Entries(u.pool[y]) = {Older(x) : x \in Entries(byURI.pool[y])}
  BY TickEffect
<1>2. /\ RoutesOK(byURI) /\ DOMAIN byURI.pool \subseteq Path /\ told = MembersIn(byURI)
      /\ UNCHANGED <<pruningStatus, told, natsUp>>
      /\ sinceBack' = IF sinceBack < MaxAge THEN sinceBack + 1 ELSE sinceBack
      /\ AgesOK(byURI, sinceBack) /\ sinceBack \in 0 .. MaxAge
  BY MembersAre DEF Tick, RegistryInv, Routes
<1> HIDE DEF u
<1>3. MaxAge \in Nat
  BY PoolAssumption DEF MaxAge
<1>4. ASSUME NEW x \in Entry PROVE Older(x).endpoint = x.endpoint /\ Older(x).age <= x.age + 1
  BY <1>3 DEF Older, Entry
<1>5. \A y \in DOMAIN u.pool : \A x \in Entries(u.pool[y]) :
         x \in Entry /\ \E z \in Entries(byURI.pool[y]) : /\ z \in Entry /\ x.endpoint = z.endpoint
                                                          /\ x.age <= z.age + 1
  <2> SUFFICES ASSUME NEW y \in DOMAIN u.pool, NEW x \in Entries(u.pool[y])
               PROVE  x \in Entry /\ \E z \in Entries(byURI.pool[y]) :
                         z \in Entry /\ x.endpoint = z.endpoint /\ x.age <= z.age + 1
    OBVIOUS
  <2>1. PICK z \in Entries(byURI.pool[y]) : x = Older(z)
    BY <1>1
  <2>2. z \in Entry /\ x \in Entry
    BY <1>1, <1>2, MemberHas, ZenonT(30)
  <2> QED
    BY <1>4, <2>1, <2>2
<1>6. AgesOK(u, sinceBack')
  <2> SUFFICES ASSUME NEW y \in DOMAIN u.pool, NEW x \in Entries(u.pool[y])
               PROVE  x.age <= sinceBack'
    BY DEF AgesOK
  <2>1. PICK z \in Entries(byURI.pool[y]) : z \in Entry /\ x.age <= z.age + 1
    BY <1>5
  <2>2. x.age \in 0 .. MaxAge /\ z.age \in 0 .. MaxAge
    BY <1>5, <2>1 DEF Entry
  <2>3. z.age <= sinceBack
    BY <1>1, <1>2, <2>1 DEF AgesOK
  <2> QED
    BY <1>2, <1>3, <2>1, <2>2, <2>3
<1>7. told' = MembersIn(u)
  <2>1. MembersIn(u) \subseteq MembersIn(byURI)
    BY <1>1, <1>2, <1>5, SameMembers
  <2>2. ASSUME NEW y \in DOMAIN byURI.pool, NEW z \in Entries(byURI.pool[y])
        PROVE  \E x \in Entries(u.pool[y]) : z.endpoint = x.endpoint
    <3>1. Older(z) \in Entries(u.pool[y]) /\ z \in Entry
      BY <1>1, <1>2, MemberHas, ZenonT(30)
    <3> QED
      BY <1>4, <3>1
  <2>3. MembersIn(byURI) \subseteq MembersIn(u)
    BY <1>1, <1>2, <2>2, SameMembers
  <2> QED
    BY <1>2, <2>1, <2>3, ZenonT(30)
<1>8. sinceBack' \in 0 .. MaxAge
  BY <1>2, <1>3
<1> QED
  BY <1>1, <1>2, <1>5, <1>6, <1>7, <1>8 DEF RegistryInv, Members, MembersIn, Routes, u

\* So do a change of NATS, a suspended tick of the pruning cycle and stuttering.
LEMMA OthersKeep ==
    ASSUME RegistryInv,
           NatsStatus \/ (pruneStaleDroplets /\ suspendPruning) \/ UNCHANGED vars
    PROVE  RegistryInv' /\ UNCHANGED <<byURI, told>>
<1>1. UNCHANGED <<byURI, told, sinceBack>>
  BY DEF NatsStatus, pruneStaleDroplets, vars
<1>2. Routes' = Routes /\ Members' = Members
  BY <1>1 DEF Routes, Members
<1>3. natsUp' \in BOOLEAN /\ pruningStatus' \in {"CONNECTED", "DISCONNECTED"}
  <2>1. CASE NatsStatus
    BY <2>1 DEF NatsStatus, RegistryInv
  <2>2. CASE pruneStaleDroplets /\ suspendPruning
    BY <2>2 DEF pruneStaleDroplets, RegistryInv
  <2>3. CASE UNCHANGED vars
    BY <2>3 DEF vars, RegistryInv
  <2> QED
    BY <2>1, <2>2, <2>3
<1> QED
  BY <1>1, <1>2, <1>3 DEF RegistryInv

\* Every step of the registry keeps the invariant.
LEMMA RegistryStep == RegistryInv /\ [Next]_vars => RegistryInv'
<1> SUFFICES ASSUME RegistryInv, [Next]_vars PROVE RegistryInv'
  OBVIOUS
<1>1. CASE \E reg \in Registration : Register(reg[1], reg[2])
  BY <1>1, RegisterKeeps
<1>2. CASE \E reg \in Registration : Unregister(reg[1], reg[2])
  BY <1>2, UnregisterKeeps
<1>3. CASE pruneStaleDroplets /\ ~suspendPruning
  BY <1>3, PruneStepKeeps
<1>4. CASE Tick
  BY <1>4, TickKeeps
<1>5. CASE NatsStatus \/ (pruneStaleDroplets /\ suspendPruning) \/ UNCHANGED vars
  BY <1>5, OthersKeep
<1> QED
  BY <1>1, <1>2, <1>3, <1>4, <1>5 DEF Next

\* The trie and its pools are whole, the router knows of the members it holds, and
\* no entry is older than the last end of an outage.
THEOREM RegistryInvariant == Spec => []RegistryInv
  BY RegistryInit, RegistryStep, PTL DEF Spec

\* What the properties of the registry take from the invariant.
LEMMA RegistryImplies == RegistryInv => RegistryTypeOK /\ PoolsConsistent /\ NoDeadBranches
<1> SUFFICES ASSUME RegistryInv PROVE RegistryTypeOK /\ PoolsConsistent /\ NoDeadBranches
  OBVIOUS
<1>1. /\ \A path \in Routes : /\ PoolTypeOK(byURI.pool[path]) /\ PoolConsistent(byURI.pool[path])
                              /\ ~IsEmpty(byURI.pool[path])
      /\ byURI.nodes = UNION {Way(path) : path \in Routes}
      /\ Routes \subseteq Path /\ told = Members
  BY DEF RegistryInv, RoutesOK, PoolOK, TrieOK, WaysTo, Routes
<1>2. byURI.nodes \subseteq UNION {Way(path) : path \in Path}
  BY <1>1
<1>3. told \subseteq Path \X Addr
  BY <1>1 DEF Members
<1>4. RegistryTypeOK
  BY <1>1, <1>2, <1>3 DEF RegistryTypeOK, RegistryInv
<1>5. PoolsConsistent /\ NoDeadBranches
  BY <1>1 DEF PoolsConsistent, NoDeadBranches
<1> QED
  BY <1>4, <1>5

\* The registry's state has its type, whatever is registered and pruned.
THEOREM RegistryTypeCorrect == Spec => []RegistryTypeOK
  BY RegistryInvariant, RegistryImplies, PTL

\* The slice, the positions and the index of each pool agree in every state that
\* Put, Remove, MarkUpdated and PruneEndpoints reach.
THEOREM RegistryPools == Spec => []PoolsConsistent
  BY RegistryInvariant, RegistryImplies, PTL

\* Delete and Snip cut exactly the branches that lead to no route.
THEOREM RegistryBranches == Spec => []NoDeadBranches
  BY RegistryInvariant, RegistryImplies, PTL

\* An outage that pruning noticed is forgiven: what a tick of the pruning cycle
\* withdraws was not registered for its whole threshold since.
THEOREM RegistryForgives == Spec => OutageForgiven
<1> DEFINE Forgives ==
      pruneStaleDroplets =>
         \A path \in Routes : \A i \in DOMAIN byURI.pool[path].endpoints :
            LET e == byURI.pool[path].endpoints[i].endpoint
            IN  <<path, e.addr>> \in told \ told'
                  => Stale([endpoint |-> e, index |-> i, age |-> sinceBack'])
<1>1. RegistryInv /\ [Next]_vars => [Forgives]_vars
  <2> SUFFICES ASSUME RegistryInv, pruneStaleDroplets, NEW path \in Routes,
                      NEW i \in DOMAIN byURI.pool[path].endpoints,
                      NEW e, e = byURI.pool[path].endpoints[i].endpoint,
                      <<path, e.addr>> \in told \ told'
               PROVE  Stale([endpoint |-> e, index |-> i, age |-> sinceBack'])
    OBVIOUS
  <2>1. CASE suspendPruning
    BY <2>1, OthersKeep, ZenonT(30)
  <2>2. CASE ~suspendPruning
    <3>1. path \in DOMAIN byURI.pool /\ PoolOK(byURI.pool[path])
      BY ZenonT(30) DEF Routes, RegistryInv, RoutesOK
    <3>2. PICK z \in Entries(byURI.pool[path]) : z.endpoint = e
      <4>1. /\ EntryAt(byURI.pool[path], i) \in Entries(byURI.pool[path])
            /\ EntryAt(byURI.pool[path], i).endpoint = e
        BY <3>1, ElementAt, ZenonT(30)
      <4> QED
        BY <4>1, ZenonT(30)
    <3>3. Stale([endpoint |-> z.endpoint, age |-> sinceBack'])
      BY <2>2, <3>1, <3>2, PruneStepKeeps, ZenonT(30)
    <3> QED
      BY <3>2, <3>3, ZenonT(30) DEF Stale
  <2> QED
    BY <2>1, <2>2, ZenonT(30)
<1> QED
  BY <1>1, RegistryInvariant, PTL DEF Spec, OutageForgiven
-----------------------------------------------------------------------------
(***************************************************************************)
(* The registry is a RouteStore                                            *)
(***************************************************************************)

\* The tags of the members are those of the trie.
LEMMA TagsAre == MemberTags = [m \in MembersIn(byURI) |-> TagIn(byURI, m)]
  BY DEF MemberTags, TagIn, Members, MembersIn, Routes

\* The store compares tags as a pool does.
LEMMA SameOrder ==
    ASSUME NEW a, NEW b
    PROVE  Store!SucceededBy(a, b) <=> SucceededBy(a, b)
  BY ZenonT(30) DEF Store!SucceededBy, SucceededBy

\* A new registry is a new store.
LEMMA StoreInit == Init => Store!Init
<1> SUFFICES ASSUME Init PROVE Store!Init
  OBVIOUS
<1>1. told = {} /\ Members = {}
  BY RegistryInit DEF Init, RegistryInv
<1>2. MemberTags = EmptyMap
  BY <1>1 DEF MemberTags, EmptyMap
<1> QED
  BY <1>1, <1>2 DEF Store!Init, Store!EmptyMap, EmptyMap

\* Where no pool gets an endpoint it did not have, the store withdraws the members
\* that went, if any did.
LEMMA GoneStores ==
    ASSUME RegistryInv, RegistryInv',
           \A y \in DOMAIN byURI'.pool : y \in DOMAIN byURI.pool,
           \A y \in DOMAIN byURI'.pool : \A x \in Entries(byURI'.pool[y]) :
              \E z \in Entries(byURI.pool[y]) : x.endpoint = z.endpoint
    PROVE  Store!Next
<1> DEFINE gone == told \ told'
<1>1. /\ RoutesOK(byURI) /\ DOMAIN byURI.pool \subseteq Path /\ told = MembersIn(byURI)
      /\ RoutesOK(byURI') /\ told' = MembersIn(byURI')
  BY DEF RegistryInv, Members, MembersIn, Routes
<1>2. told' \subseteq told /\ \A m \in told' : TagIn(byURI', m) = TagIn(byURI, m)
  BY <1>1, SameMembers
<1>3. MemberTags = [m \in told |-> TagIn(byURI, m)]
  BY <1>1, TagsAre
<1>4. MemberTags' = [m \in told' |-> TagIn(byURI', m)]
  BY <1>1 DEF MemberTags, TagIn, Members, MembersIn, Routes
<1>5. MemberTags' = Store!Only(MemberTags, DOMAIN MemberTags \ gone)
  BY <1>2, <1>3, <1>4 DEF Store!Only
<1>6. told' = told \ gone /\ gone \in SUBSET told
  BY <1>2, ZenonT(30)
<1> QED
  BY <1>5, <1>6, ZenonT(30) DEF Store!Next, Store!Withdraw

\* A registration announces its member, renews it or is refused.
LEMMA RegisterStores ==
    ASSUME RegistryInv, NEW reg \in Registration, Register(reg[1], reg[2])
    PROVE  Store!Next
<1> PICK path, e : path = reg[1] /\ e = reg[2]
  OBVIOUS
<1> DEFINE others == {x \in EntriesAt(byURI, path) : x.endpoint.addr # e.addr}
           new == [endpoint |-> e, age |-> 0]
           m == <<path, e.addr>>
<1>1. /\ path \in Path /\ e \in Endpoint
      /\ RoutesOK(byURI') /\ ElsewhereSame(byURI, byURI', path)
      /\ path \in DOMAIN byURI'.pool
      /\ \/ /\ EntriesAt(byURI', path) = EntriesAt(byURI, path)
            /\ told' = told /\ path \in Routes
         \/ /\ EntriesAt(byURI', path) = others \cup {new}
            /\ told' = told \cup {m}
            /\ \A x \in EntriesAt(byURI, path) :
                 x.endpoint.addr = e.addr => SucceededBy(x.endpoint.tag, e.tag)
  BY RegisterEffect
<1>2. RegistryInv'
  BY RegisterKeeps
<1>3. /\ RoutesOK(byURI) /\ DOMAIN byURI.pool \subseteq Path /\ told = MembersIn(byURI)
      /\ DOMAIN byURI'.pool \subseteq Path /\ told' = MembersIn(byURI')
  BY <1>2, ZenonT(30) DEF RegistryInv, Members, MembersIn, Routes
<1>4. \A y \in DOMAIN byURI'.pool : y # path =>
         y \in DOMAIN byURI.pool /\ byURI'.pool[y] = byURI.pool[y]
  BY <1>1 DEF ElsewhereSame
<1>5. CASE EntriesAt(byURI', path) = EntriesAt(byURI, path) /\ path \in Routes
  <2>1. Entries(byURI'.pool[path]) = Entries(byURI.pool[path])
    BY <1>1, <1>5, ZenonT(30) DEF EntriesAt, Routes
  <2>2. \A y \in DOMAIN byURI'.pool : /\ y \in DOMAIN byURI.pool
                                      /\ Entries(byURI'.pool[y]) = Entries(byURI.pool[y])
    BY <1>4, <1>5, <2>1 DEF Routes
  <2> QED
    BY <1>2, <2>2, GoneStores, ZenonT(30)
<1>6. CASE /\ EntriesAt(byURI', path) = others \cup {new}
           /\ told' = told \cup {m}
           /\ \A x \in EntriesAt(byURI, path) :
                x.endpoint.addr = e.addr => SucceededBy(x.endpoint.tag, e.tag)
  <2>1. new \in Entries(byURI'.pool[path]) /\ new.endpoint = e
    BY <1>1, <1>6, ZenonT(30) DEF EntriesAt
  <2>2. TagIn(byURI', m) = e.tag
    <3>1. TagIn(byURI', <<path, new.endpoint.addr>>) = new.endpoint.tag
      <4> HIDE DEF new
      <4> QED
        BY <1>1, <1>3, <2>1, MemberHas, ZenonT(30)
    <3> QED
      BY <2>1, <3>1, ZenonT(30)
  <2>3. ASSUME NEW k \in told', k # m PROVE TagIn(byURI', k) = TagIn(byURI, k)
    <3>1. k \in MembersIn(byURI')
      BY <1>3, ZenonT(30)
    <3>2. PICK y \in DOMAIN byURI'.pool :
             \E x \in Entries(byURI'.pool[y]) : k = <<y, x.endpoint.addr>>
      BY <1>1, <1>3, <3>1, MemberHas, ZenonT(30)
    <3>3. PICK x \in Entries(byURI'.pool[y]) : k = <<y, x.endpoint.addr>>
      BY <3>2
    <3>4. y \in DOMAIN byURI.pool /\ x \in Entries(byURI.pool[y])
      <4>1. CASE y # path
        BY <1>4, <4>1
      <4>2. CASE y = path
        <5>1. x \in EntriesAt(byURI', path) /\ x # new
          BY <2>1, <2>3, <3>3, <4>2 DEF EntriesAt
        <5>2. x \in EntriesAt(byURI, path)
          BY <1>6, <5>1, ZenonT(30)
        <5> QED
          BY <4>2, <5>2, ZenonT(30) DEF EntriesAt
      <4> QED
        BY <4>1, <4>2
    <3>5. TagIn(byURI', k) = x.endpoint.tag
      BY <1>1, <1>3, <3>3, MemberHas, ZenonT(30)
    <3>6. TagIn(byURI, k) = x.endpoint.tag
      BY <1>3, <3>3, <3>4, MemberHas, ZenonT(30)
    <3> QED
      BY <3>5, <3>6
  <2>4. MemberTags = [k \in told |-> TagIn(byURI, k)]
    BY <1>3, TagsAre
  <2>5. MemberTags' = [k \in told' |-> TagIn(byURI', k)]
    BY <1>3 DEF MemberTags, TagIn, Members, MembersIn, Routes
  <2>6. MemberTags' = Store!Put(MemberTags, m, e.tag)
    BY <1>6, <2>2, <2>3, <2>4, <2>5, ZenonT(30) DEF Store!Put
  <2>7. m \in Path \X Addr /\ e.tag \in {f.tag : f \in Endpoint}
    BY <1>1, EndpointFields, ZenonT(30)
  <2>8. CASE m \notin told
    <3>1. Store!Announce(m)
      BY <1>6, <2>4, <2>6, <2>7, <2>8, ZenonT(30) DEF Store!Announce
    <3> QED
      BY <2>7, <3>1, ZenonT(30) DEF Store!Next
  <2>9. CASE m \in told
    <3>1. PICK y \in DOMAIN byURI.pool :
             \E x \in Entries(byURI.pool[y]) : m = <<y, x.endpoint.addr>>
      BY <1>3, <2>9, MemberHas, ZenonT(30)
    <3>2. PICK x \in Entries(byURI.pool[y]) : m = <<y, x.endpoint.addr>>
      BY <3>1
    <3>3. y = path /\ x.endpoint.addr = e.addr /\ x \in EntriesAt(byURI, path)
      BY <3>2, ZenonT(30) DEF EntriesAt
    <3>4. TagIn(byURI, m) = x.endpoint.tag
      <4>1. TagIn(byURI, <<y, x.endpoint.addr>>) = x.endpoint.tag
        BY <1>3, MemberHas, ZenonT(30)
      <4> QED
        BY <3>2, <4>1, ZenonT(30)
    <3>5. SucceededBy(MemberTags[m], e.tag)
      BY <1>6, <2>4, <2>9, <3>3, <3>4, ZenonT(30)
    <3>6. Store!Renew(m)
      BY <1>6, <2>4, <2>6, <2>7, <2>9, <3>5, SameOrder, ZenonT(30) DEF Store!Renew
    <3> QED
      BY <2>9, <3>6, ZenonT(30) DEF Store!Next
  <2> QED
    BY <2>8, <2>9, ZenonT(30)
<1> QED
  BY <1>1, <1>5, <1>6

\* To its feeders and to the router the registry is a RouteStore.
THEOREM RegistryImplementsStore == Spec => RegistryIsStore
<1>1. RegistryInv /\ [Next]_vars => [Store!Next]_<<MemberTags, told>>
  <2> SUFFICES ASSUME RegistryInv, [Next]_vars PROVE [Store!Next]_<<MemberTags, told>>
    OBVIOUS
  <2>1. CASE \E reg \in Registration : Register(reg[1], reg[2])
    BY <2>1, RegisterStores
  <2>2. CASE \E reg \in Registration : Unregister(reg[1], reg[2])
    <3>1. PICK reg \in Registration : Unregister(reg[1], reg[2])
      BY <2>2, ZenonT(30)
    <3>2. /\ RegistryInv' /\ \A y \in DOMAIN byURI'.pool : y \in DOMAIN byURI.pool
          /\ \A y \in DOMAIN byURI'.pool : \A x \in Entries(byURI'.pool[y]) :
                x \in Entries(byURI.pool[y])
      BY <3>1, UnregisterKeeps
    <3>3. Store!Next
      BY <3>2, GoneStores
    <3> QED
      BY <3>3
  <2>3. CASE pruneStaleDroplets /\ ~suspendPruning
    <3>1. Store!Next
      BY <2>3, PruneStepKeeps, GoneStores
    <3> QED
      BY <3>1
  <2>4. CASE Tick
    <3>1. Store!Next
      BY <2>4, TickKeeps, GoneStores
    <3> QED
      BY <3>1
  <2>5. CASE NatsStatus \/ (pruneStaleDroplets /\ suspendPruning) \/ UNCHANGED vars
    <3>1. UNCHANGED <<byURI, told>>
      BY <2>5, OthersKeep
    <3>2. MemberTags' = MemberTags
      BY <3>1 DEF MemberTags, Members, Routes
    <3> QED
      BY <3>1, <3>2
  <2> QED
    BY <2>1, <2>2, <2>3, <2>4, <2>5 DEF Next
<1> QED
  BY <1>1, StoreInit, RegistryInvariant, PTL DEF Spec, RegistryIsStore, Store!Spec
-----------------------------------------------------------------------------
(***************************************************************************)
(* The subscriber                                                          *)
(***************************************************************************)

\* What the callback is busy with comes from an application it accepts.
IsRest(msg, app) ==
    /\ msg = [subject |-> msg.subject, uris |-> msg.uris, endpoint |-> app.endpoint]
    /\ msg.uris \in Seq(Path) /\ msg.uris # <<>>
    /\ \A i \in DOMAIN msg.uris : \E j \in DOMAIN app.uris : msg.uris[i] = app.uris[j]

SubscriberInv ==
    /\ pending \in Seq(Message)
    /\ handling = NoMessage \/ \E app \in Accepted : IsRest(handling, app)
    /\ OnlyAcceptedApps

\* The message taken from the queue.
LEMMA ReceiveKeeps ==
    ASSUME SubscriberInv, Receive
    PROVE  SubscriberInv'
<1> PICK msg : msg = Head(pending)
  OBVIOUS
<1>1. pending \in Seq(Message) /\ pending # <<>>
  BY DEF SubscriberInv, Receive
<1>2. msg \in Message /\ Tail(pending) \in Seq(Message)
  BY <1>1
<1>3. handling' = createRegistryMessage(msg) /\ pending' = Tail(pending) /\ told' = told
  BY DEF Receive, vars
<1>4. OnlyAcceptedApps'
  BY <1>3 DEF SubscriberInv, OnlyAcceptedApps
<1>5. CASE ValidateMessage(msg.app) /\ SameGroup(msg.app) /\ msg.app.uris # <<>>
  <2> PICK app : app = msg.app
    OBVIOUS
  <2>1. app \in App /\ app \in Accepted /\ app.uris \in Seq(Path) /\ app.uris # <<>>
    BY <1>2, <1>5, SubscriberAssumption DEF Message, Accepted, ValidateMessage, SameGroup
  <2>2. handling' = [subject |-> msg.subject, uris |-> app.uris, endpoint |-> app.endpoint]
    BY <1>3, <1>5, ZenonT(30) DEF createRegistryMessage
  <2>3. IsRest(handling', app)
    BY <2>1, <2>2 DEF IsRest
  <2> QED
    BY <1>2, <1>3, <1>4, <2>1, <2>3 DEF SubscriberInv
<1>6. CASE ~(ValidateMessage(msg.app) /\ SameGroup(msg.app) /\ msg.app.uris # <<>>)
  <2>1. handling' = NoMessage
    BY <1>3, <1>6 DEF createRegistryMessage
  <2> QED
    BY <1>2, <1>3, <1>4, <2>1, ZenonT(30) DEF SubscriberInv
<1> QED
  BY <1>5, <1>6

\* The URI the callback is at belongs to an accepted application, and so do those
\* that are left after it.
LEMMA NextUriKeeps ==
    ASSUME SubscriberInv, handling.subject # "none"
    PROVE  \E app \in Accepted :
              /\ handling.endpoint = app.endpoint
              /\ <<Head(handling.uris), app.endpoint>> \in Registration
              /\ <<Head(handling.uris), app.endpoint.addr>> \in MembersOf(app)
              /\ NextUri = NoMessage \/ IsRest(NextUri, app)
<1>1. handling # NoMessage
  BY DEF NoMessage
<1>2. PICK app \in Accepted : IsRest(handling, app)
  BY <1>1 DEF SubscriberInv
<1> PICK uris : uris = handling.uris
  OBVIOUS
<1>3. /\ uris \in Seq(Path) /\ uris # <<>> /\ handling.endpoint = app.endpoint
      /\ \A i \in DOMAIN uris : \E j \in DOMAIN app.uris : uris[i] = app.uris[j]
      /\ handling = [subject |-> handling.subject, uris |-> uris, endpoint |-> app.endpoint]
  BY <1>2 DEF IsRest
<1>4. Head(uris) = uris[1] /\ 1 \in DOMAIN uris
  BY <1>3
<1>5. PICK j \in DOMAIN app.uris : Head(uris) = app.uris[j]
  BY <1>3, <1>4
<1>6. app \in App /\ <<app.uris[j], app.endpoint>> \in Registration
  BY <1>5, SubscriberAssumption, ZenonT(30) DEF Accepted
<1>7. NextUri = NoMessage \/ IsRest(NextUri, app)
  <2> SUFFICES ASSUME Len(uris) # 1 PROVE IsRest(NextUri, app)
    BY DEF NextUri
  <2> DEFINE rest == Tail(uris)
  <2>1. NextUri = [handling EXCEPT !.uris = rest]
    BY DEF NextUri
  <2>2. /\ NextUri.uris = rest
        /\ NextUri = [subject |-> NextUri.subject, uris |-> NextUri.uris, endpoint |-> app.endpoint]
    BY <1>3, <2>1, ZenonT(30)
  <2>3. /\ rest \in Seq(Path) /\ rest # <<>>
        /\ \A i \in DOMAIN rest : i + 1 \in DOMAIN uris /\ rest[i] = uris[i + 1]
    <3>1. /\ rest \in Seq(Path) /\ Len(rest) = Len(uris) - 1 /\ Len(uris) \in Nat
          /\ DOMAIN rest = 1 .. Len(rest) /\ DOMAIN uris = 1 .. Len(uris)
      BY <1>3
    <3>2. Len(uris) # 0
      BY <1>3
    <3>3. rest # <<>>
      <4>1. Len(rest) # 0
        BY <3>1, <3>2
      <4> QED
        BY <4>1, ZenonT(30)
    <3>4. \A i \in 1 .. Len(uris) - 1 : rest[i] = uris[i + 1]
      BY <1>3
    <3> QED
      BY <3>1, <3>3, <3>4
  <2> HIDE DEF rest
  <2>4. \A i \in DOMAIN rest : \E k \in DOMAIN app.uris : rest[i] = app.uris[k]
    BY <1>3, <2>3
  <2> QED
    BY <2>2, <2>3, <2>4 DEF IsRest
<1> QED
  BY <1>3, <1>5, <1>6, <1>7, ZenonT(30) DEF MembersOf

\* Every step of the subscriber is one of the registry, or leaves it alone, and
\* what is registered comes from an accepted application.
LEMMA SubscriberStep ==
    SubscriberInv /\ RegistryInv /\ [SubscriberNext]_allVars => SubscriberInv' /\ [Next]_vars
<1> SUFFICES ASSUME SubscriberInv, RegistryInv, [SubscriberNext]_allVars
             PROVE  SubscriberInv' /\ [Next]_vars
  OBVIOUS
<1>1. ASSUME NEW app \in App, AppStarts(app) \/ AppRepeats(app) \/ AppStops(app) \/ AppCrashes(app)
      PROVE  SubscriberInv' /\ [Next]_vars
  <2>1. UNCHANGED vars /\ handling' = handling
    BY <1>1 DEF AppStarts, AppRepeats, AppStops, AppCrashes, messageVars
  <2>2. pending' \in Seq(Message)
    <3>1. \A subject \in {"router.register", "router.unregister"} :
             Append(pending, [subject |-> subject, app |-> app]) \in Seq(Message)
      BY DEF SubscriberInv, Message
    <3> QED
      BY <1>1, <3>1, ZenonT(30)
         DEF AppStarts, AppRepeats, AppStops, AppCrashes, Publish, messageVars, SubscriberInv
  <2> QED
    BY <2>1, <2>2 DEF SubscriberInv, OnlyAcceptedApps, vars
<1>2. CASE Receive
  BY <1>2, ReceiveKeeps, ZenonT(30) DEF Receive
<1>3. CASE registerEndpoint
  <2>1. handling.subject # "none" /\ Register(Head(handling.uris), handling.endpoint)
        /\ handling' = NextUri /\ pending' = pending
    BY <1>3 DEF registerEndpoint
  <2>2. PICK app \in Accepted :
              /\ handling.endpoint = app.endpoint
              /\ <<Head(handling.uris), app.endpoint>> \in Registration
              /\ <<Head(handling.uris), app.endpoint.addr>> \in MembersOf(app)
              /\ NextUri = NoMessage \/ IsRest(NextUri, app)
    BY <2>1, NextUriKeeps, ZenonT(30)
  <2> PICK reg : reg = <<Head(handling.uris), app.endpoint>>
    OBVIOUS
  <2>3. reg \in Registration /\ Register(reg[1], reg[2])
    BY <2>1, <2>2
  <2>4. told' \subseteq told \cup {<<reg[1], reg[2].addr>>}
    BY <2>3 DEF Register
  <2>5. OnlyAcceptedApps'
    BY <2>2, <2>4 DEF SubscriberInv, OnlyAcceptedApps
  <2>6. Next
    BY <2>3, ZenonT(30) DEF Next
  <2> QED
    BY <2>1, <2>2, <2>5, <2>6 DEF SubscriberInv
<1>4. CASE unregisterEndpoint
  <2>1. /\ handling.subject # "none" /\ handling' = NextUri /\ pending' = pending
        /\ Unregister(Head(handling.uris), handling.endpoint) \/ UNCHANGED vars
    BY <1>4 DEF unregisterEndpoint
  <2>2. PICK app \in Accepted :
              /\ handling.endpoint = app.endpoint
              /\ <<Head(handling.uris), app.endpoint>> \in Registration
              /\ NextUri = NoMessage \/ IsRest(NextUri, app)
    BY <2>1, NextUriKeeps, ZenonT(30)
  <2> PICK reg : reg = <<Head(handling.uris), app.endpoint>>
    OBVIOUS
  <2>3. reg \in Registration /\ (Unregister(reg[1], reg[2]) \/ UNCHANGED vars)
    BY <2>1, <2>2
  <2>4. told' \subseteq told
    BY <2>3 DEF Unregister, vars
  <2>5. OnlyAcceptedApps'
    BY <2>4 DEF SubscriberInv, OnlyAcceptedApps
  <2>6. [Next]_vars
    BY <2>3 DEF Next
  <2> QED
    BY <2>1, <2>2, <2>5, <2>6 DEF SubscriberInv
<1>5. CASE (Timers /\ UNCHANGED <<running, messageVars>>) \/ (NatsStatus /\ UNCHANGED subscriberVars)
           \/ UNCHANGED allVars
  <2>1. [Next]_vars
    BY <1>5 DEF Timers, Next, allVars
  <2>2. told' \subseteq told /\ handling' = handling /\ pending' = pending
    BY <1>5 DEF Timers, Tick, pruneStaleDroplets, NatsStatus, subscriberVars, allVars, vars, messageVars
  <2> QED
    BY <2>1, <2>2 DEF SubscriberInv, OnlyAcceptedApps
<1> QED
  BY <1>1, <1>2, <1>3, <1>4, <1>5 DEF SubscriberNext

\* The subscriber starts with an empty queue.
LEMMA SubscriberStarts == SubscriberInit => SubscriberInv /\ Init
  BY DEF SubscriberInit, SubscriberInv, OnlyAcceptedApps, Init

\* Whatever messages arrive, the subscriber drives the registry as its
\* specification allows, so that all that is proved of the registry holds.
THEOREM SubscriberImplementsRegistry == SubscriberSpec => Spec /\ []SubscriberInv
<1>1. SubscriberInit => SubscriberInv /\ RegistryInv
  BY SubscriberStarts, RegistryInit
<1>2. SubscriberInv /\ RegistryInv /\ [SubscriberNext]_allVars =>
        (SubscriberInv /\ RegistryInv)' /\ [Next]_vars
  BY SubscriberStep, RegistryStep
<1> QED
  BY <1>1, <1>2, SubscriberStarts, PTL DEF SubscriberSpec, Spec

\* The registry, and so the router, only ever hears of accepted applications.
THEOREM SubscriberAccepts == SubscriberSpec => []OnlyAcceptedApps
<1>1. SubscriberInv => OnlyAcceptedApps
  BY DEF SubscriberInv
<1> QED
  BY <1>1, SubscriberImplementsRegistry, PTL
=============================================================================
