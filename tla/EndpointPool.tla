---------------------------- MODULE EndpointPool ----------------------------
(***************************************************************************)
(* The pool of endpoints of one route (route/pool.go).  Every method holds *)
(* the pool's lock, and the registry's around it, so each is a function    *)
(* from the pool before to the pool after.                                 *)
(*                                                                         *)
(* A pool keeps its elements twice: in the slice endpoints, where each one *)
(* also notes its own position, and in the map index, which leads to an    *)
(* element from its address and from its private instance id.  In the      *)
(* model an element of the index is named by its address.                  *)
(***************************************************************************)
EXTENDS Integers, Sequences, FiniteSetsExt, Maps, ModificationTag

CONSTANTS
    Endpoint,          \* [addr, id, tag, staleThreshold] records
    defaultThreshold   \* dropletStaleThreshold, in ticks

ASSUME PoolAssumption ==
    /\ defaultThreshold \in Nat
    /\ Endpoint \subseteq [addr : STRING, id : STRING, tag : [guid : STRING, index : Nat],
                           staleThreshold : Nat]
    /\ \A e, f \in Endpoint : e.addr # f.id

Addr == {e.addr : e \in Endpoint}

\* The age of an element that no threshold spares.
MaxAge == defaultThreshold + 1

Element == [endpoint : Endpoint, index : Nat, age : 0 .. MaxAge]

\* NewPool
EmptyPool == [endpoints |-> <<>>, index |-> EmptyMap]

IsEmpty(p) == p.endpoints = <<>>

Addrs(p) == {p.endpoints[i].endpoint.addr : i \in DOMAIN p.endpoints}

\* The position of the element the index holds under a key.
At(p, key) ==
    CHOOSE i \in DOMAIN p.endpoints : p.endpoints[i].endpoint.addr = p.index[key]

Found(p, e) == e.addr \in DOMAIN p.index

\* Whether Put adds or updates; otherwise it returns false.
PutAccepts(p, e) ==
    Found(p, e) => SucceededBy(p.endpoints[At(p, e.addr)].endpoint.tag, e.tag)

PoolPut(p, e) ==
    LET i == At(p, e.addr)
        old == p.endpoints[i].endpoint
    IN  IF ~PutAccepts(p, e) THEN p
        ELSE IF Found(p, e)
        THEN [endpoints |-> [p.endpoints EXCEPT ![i].endpoint = e, ![i].age = 0],
              index |-> IF old.id = e.id THEN p.index
                        ELSE Put(Drop(p.index, old.id), e.id, e.addr)]
        ELSE [endpoints |-> Append(p.endpoints, [endpoint |-> e, age |-> 0,
                                                 index |-> Len(p.endpoints) + 1]),
              index |-> Put(Put(p.index, e.addr, e.addr), e.id, e.addr)]

\* Variant of removeEndpoint that does not tell the moved element its position.
removeEndpointSilently(p, elem) ==
    LET i == elem.index
        last == Len(p.endpoints)
    IN  [endpoints |-> SubSeq([p.endpoints EXCEPT ![i] = p.endpoints[last]],
                              1, last - 1),
         index |-> Drop(Drop(p.index, elem.endpoint.addr), elem.endpoint.id)]

\* The last element takes the place of elem and notes its new position.
removeEndpoint(p, elem) ==
    LET i == elem.index
        last == Len(p.endpoints)
        moved == [p.endpoints[last] EXCEPT !.index = i]
    IN  [endpoints |-> SubSeq([p.endpoints EXCEPT ![i] = moved], 1, last - 1),
         index |-> Drop(Drop(p.index, elem.endpoint.addr), elem.endpoint.id)]

\* Whether Remove removes.
RemoveAccepts(p, e) ==
    /\ Found(p, e)
    /\ SameOrNewer(p.endpoints[At(p, e.addr)].endpoint.tag, e.tag)

PoolRemove(p, e) ==
    IF RemoveAccepts(p, e) THEN removeEndpoint(p, p.endpoints[At(p, e.addr)]) ELSE p

\* An endpoint's own threshold counts when it is the shorter one.
Stale(elem) ==
    LET own == elem.endpoint.staleThreshold
    IN  elem.age > (IF own > 0 /\ own < defaultThreshold THEN own
                                                         ELSE defaultThreshold)

\* PruneEndpoints: the element that takes a removed one's place is looked at
\* next, so the loop removes the first stale element until there is none.
PruneFirst(p) ==
    LET stale == {i \in DOMAIN p.endpoints : Stale(p.endpoints[i])}
    IN  IF stale = {} THEN p ELSE removeEndpoint(p, p.endpoints[Min(stale)])

PruneEndpoints(p) ==
    LET after[k \in 0 .. Len(p.endpoints)] == IF k = 0 THEN p ELSE PruneFirst(after[k - 1])
    IN  after[Len(p.endpoints)]

\* Variant of MarkUpdated that dates the update ahead of now.
MarkUpdatedAhead(p) ==
    [p EXCEPT !.endpoints = [i \in DOMAIN @ |-> [@[i] EXCEPT !.age = -1]]]

MarkUpdated(p) ==
    [p EXCEPT !.endpoints = [i \in DOMAIN @ |-> [@[i] EXCEPT !.age = 0]]]

\* A tick of the clock.  An element that is stale is not any older for it.
Older(elem) == IF Stale(elem) THEN elem ELSE [elem EXCEPT !.age = @ + 1]

Aged(p) == [p EXCEPT !.endpoints = [i \in DOMAIN @ |-> Older(@[i])]]

PoolTypeOK(p) ==
    /\ p.endpoints \in Seq(Element)
    /\ IsMap(p.index, Addr \cup {e.id : e \in Endpoint}, Addr)

\* The slice and the index agree: each element knows its own position, no
\* address is listed twice, the index leads to every element from its address
\* and to nothing else, and from an id only to an element that has it.
PoolConsistent(p) ==
    /\ \A i \in DOMAIN p.endpoints : p.endpoints[i].index = i
    /\ \A i, j \in DOMAIN p.endpoints :
          p.endpoints[i].endpoint.addr = p.endpoints[j].endpoint.addr => i = j
    /\ Addrs(p) = DOMAIN p.index \cap Addr
    /\ \A a \in Addrs(p) : p.index[a] = a
    /\ \A id \in DOMAIN p.index \ Addr :
          \E i \in DOMAIN p.endpoints : /\ p.endpoints[i].endpoint.id = id
                                        /\ p.index[id] = p.endpoints[i].endpoint.addr
=============================================================================
