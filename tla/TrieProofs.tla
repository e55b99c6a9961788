----------------------------- MODULE TrieProofs -----------------------------
(***************************************************************************)
(* What the operations on a pool of endpoints and on the trie of routes    *)
(* keep, for any endpoints and any paths: the slice and the index of a     *)
(* pool agree, and a trie has the nodes on the way to its routes and no    *)
(* others.                                                                 *)
(***************************************************************************)
EXTENDS Trie, FiniteSetTheorems, WellFoundedInduction, TLAPS

(***************************************************************************)
(* Induction                                                               *)
(***************************************************************************)

\* Numbers have a least one among them.
LEMMA NatMin ==
    ASSUME NEW T \in SUBSET Nat, T # {}
    PROVE  \E m \in T : \A k \in T : m <= k
<1> DEFINE R == {ss \in Nat \X Nat : ss[1] < ss[2]}
<1>1. IsWellFoundedOn(R, Nat)
  BY NatLessThanWellFounded DEF OpToRel
<1> HIDE DEF R
<1>2. PICK m \in T : \A k \in T : ~(<<k, m>> \in R)
  BY <1>1, WFMin, ZenonT(30)
<1>3. \A k \in T : ~(k < m)
  BY <1>2, ZenonT(30) DEF R
<1> SUFFICES \A k \in T : m <= k
  OBVIOUS
<1> QED
  BY <1>3

\* Induction from 0 to n, for the loops of the code.
LEMMA Upwards ==
    ASSUME NEW n \in Nat, NEW S, 0 \in S, \A k \in 0 .. n : k < n /\ k \in S => k + 1 \in S
    PROVE  0 .. n \subseteq S
<1> DEFINE T == {k \in 0 .. n : k \notin S}
<1> SUFFICES ASSUME T # {} PROVE FALSE
  OBVIOUS
<1>0. T \in SUBSET Nat
  OBVIOUS
<1>1. PICK m \in T : \A k \in T : m <= k
  <2> HIDE DEF T
  <2> QED
    BY <1>0, NatMin
<1>2. m # 0 /\ m - 1 \in 0 .. n /\ m - 1 < n
  OBVIOUS
<1>3. m - 1 \in S
  BY <1>1, <1>2
<1> QED
  BY <1>2, <1>3

\* Max of a set of numbers that has a bound.
LEMMA MaxOf ==
    ASSUME NEW n \in Nat, NEW S \in SUBSET (0 .. n), S # {}
    PROVE  Max(S) \in S /\ \A x \in S : x <= Max(S)
<1> DEFINE T == {k \in Nat : \A x \in S : x <= k}
<1>0. T \in SUBSET Nat /\ n \in T
  OBVIOUS
<1>1. PICK m \in T : \A k \in T : m <= k
  <2> HIDE DEF T
  <2> QED
    BY <1>0, NatMin
<1>2. m \in S
  <2> SUFFICES ASSUME m \notin S PROVE FALSE
    OBVIOUS
  <2>1. \A x \in S : x <= m /\ x # m /\ x \in 0 .. n
    OBVIOUS
  <2>2. PICK x \in S : TRUE
    BY ZenonT(30)
  <2>3. m - 1 \in T
    BY <2>1, <2>2
  <2> QED
    BY <1>1, <2>3
<1>3. m \in S /\ \A x \in S : m >= x
  BY <1>2
<1> HIDE DEF T
<1> QED
  BY <1>3, ZenonT(30) DEF Max
-----------------------------------------------------------------------------
(***************************************************************************)
(* Pools                                                                   *)
(***************************************************************************)

Id == {e.id : e \in Endpoint}

\* A pool whose slice and index agree.
PoolOK(p) ==
    /\ p = [endpoints |-> p.endpoints, index |-> p.index]
    /\ PoolTypeOK(p)
    /\ PoolConsistent(p)

\* What a pool holds, whatever the order: an endpoint with its age.
Entry == [endpoint : Endpoint, age : 0 .. MaxAge]

EntryAt(p, i) == [endpoint |-> p.endpoints[i].endpoint, age |-> p.endpoints[i].age]

Entries(p) == {EntryAt(p, i) : i \in DOMAIN p.endpoints}

\* Addresses and ids, which no endpoint confuses.
LEMMA EndpointFields ==
    ASSUME NEW e \in Endpoint
    PROVE  /\ e.addr \in Addr /\ e.id \in Id /\ e.id \notin Addr
           /\ e.staleThreshold \in Nat
  BY PoolAssumption DEF Addr, Id

\* An element of a pool's slice.
LEMMA ElementAt ==
    ASSUME NEW p, PoolOK(p), NEW i \in DOMAIN p.endpoints
    PROVE  /\ p.endpoints \in Seq(Element) /\ DOMAIN p.endpoints = 1 .. Len(p.endpoints)
           /\ Len(p.endpoints) \in Nat
           /\ p.endpoints[i] \in Element /\ p.endpoints[i].endpoint \in Endpoint
           /\ p.endpoints[i].age \in 0 .. MaxAge /\ p.endpoints[i].index = i
           /\ EntryAt(p, i) \in Entries(p) /\ EntryAt(p, i) \in Entry
           /\ EntryAt(p, i).endpoint = p.endpoints[i].endpoint
           /\ EntryAt(p, i).age = p.endpoints[i].age
<1>1. p.endpoints \in Seq(Element)
  BY DEF PoolOK, PoolTypeOK
<1>2. p.endpoints[i] \in Element /\ p.endpoints[i].index = i
  BY <1>1 DEF PoolOK, PoolConsistent
<1>3. p.endpoints[i].endpoint \in Endpoint /\ p.endpoints[i].age \in 0 .. MaxAge
  BY <1>2 DEF Element
<1> QED
  BY <1>1, <1>2, <1>3 DEF EntryAt, Entries, Entry

\* No address is listed twice, so the index leads to the element of an address.
LEMMA AtAddress ==
    ASSUME NEW p, PoolOK(p), NEW i \in DOMAIN p.endpoints,
           NEW a, a = p.endpoints[i].endpoint.addr
    PROVE  At(p, a) = i /\ a \in DOMAIN p.index /\ p.index[a] = a /\ a \in Addr
<1>1. a \in Addrs(p)
  BY DEF Addrs
<1>2. a \in DOMAIN p.index /\ p.index[a] = a /\ a \in Addr
  BY <1>1 DEF PoolOK, PoolConsistent
<1>3. \A j \in DOMAIN p.endpoints : p.endpoints[j].endpoint.addr = a => j = i
  BY DEF PoolOK, PoolConsistent
<1> QED
  BY <1>2, <1>3 DEF At

\* The index finds an endpoint of the address if the slice has one.
LEMMA FoundAt ==
    ASSUME NEW p, PoolOK(p), NEW e \in Endpoint
    PROVE  /\ Found(p, e) <=> e.addr \in Addrs(p)
           /\ Found(p, e) => \E i \in DOMAIN p.endpoints :
                                p.endpoints[i].endpoint.addr = e.addr /\ At(p, e.addr) = i
<1>1. Found(p, e) <=> e.addr \in Addrs(p)
  BY EndpointFields DEF Found, PoolOK, PoolConsistent
<1>2. ASSUME Found(p, e)
      PROVE  \E i \in DOMAIN p.endpoints :
                p.endpoints[i].endpoint.addr = e.addr /\ At(p, e.addr) = i
  <2>1. PICK i \in DOMAIN p.endpoints : p.endpoints[i].endpoint.addr = e.addr
    BY <1>1, <1>2 DEF Addrs
  <2> QED
    BY <2>1, AtAddress
<1> QED
  BY <1>1, <1>2

\* removeEndpoint takes one element out, and the last one takes its place: the slice
\* and the index agree again, also when other endpoints share the id that is dropped.
LEMMA RemoveKeeps ==
    ASSUME NEW p, PoolOK(p), NEW i \in DOMAIN p.endpoints
    PROVE  LET elem == p.endpoints[i]
               q == removeEndpoint(p, elem)
           IN  /\ PoolOK(q) /\ Len(q.endpoints) = Len(p.endpoints) - 1
               /\ Entries(q) = {x \in Entries(p) : x.endpoint.addr # elem.endpoint.addr}
<1> DEFINE s == p.endpoints
           elem == s[i]
           last == Len(s)
           q == removeEndpoint(p, elem)
           from(j) == IF j = i THEN last ELSE j
<1>1. /\ s \in Seq(Element) /\ DOMAIN s = 1 .. last /\ last \in Nat /\ i \in 1 .. last
      /\ \A j \in 1 .. last : s[j] \in Element /\ s[j].index = j
  BY ElementAt
<1> DEFINE moved == [s[last] EXCEPT !.index = i]
           r == [s EXCEPT ![i] = moved]
           t == SubSeq(r, 1, last - 1)
<1>2. /\ q = [endpoints |-> q.endpoints, index |-> q.index]
      /\ q.endpoints = t
      /\ q.index = Drop(Drop(p.index, elem.endpoint.addr), elem.endpoint.id)
  <2>1. elem.index = i
    BY <1>1
  <2> QED
    BY <2>1 DEF removeEndpoint
<1>3. /\ t \in Seq(Element) /\ Len(t) = last - 1 /\ DOMAIN t = 1 .. last - 1
      /\ \A j \in 1 .. last - 1 : /\ from(j) \in 1 .. last /\ from(j) # i /\ t[j].index = j
                                  /\ t[j].endpoint = s[from(j)].endpoint
                                  /\ t[j].age = s[from(j)].age
      /\ \A k \in 1 .. last : k # i => \E j \in 1 .. last - 1 : from(j) = k
  <2>1. /\ moved \in Element /\ moved.index = i
        /\ moved.endpoint = s[last].endpoint /\ moved.age = s[last].age
    <3>1. last \in 1 .. last /\ i \in Nat
      BY <1>1
    <3> QED
      BY <1>1, <3>1, ZenonT(30) DEF Element
  <2> HIDE DEF moved
  <2>2. /\ r \in Seq(Element) /\ Len(r) = last
        /\ \A j \in 1 .. last : r[j] = IF j = i THEN moved ELSE s[j]
    BY <1>1, <2>1
  <2> HIDE DEF r
  <2>3. /\ t \in Seq(Element) /\ Len(t) = last - 1 /\ DOMAIN t = 1 .. last - 1
        /\ \A j \in 1 .. last - 1 : t[j] = r[j]
    BY <1>1, <2>2
  <2> HIDE DEF t
  <2>4. \A j \in 1 .. last - 1 : from(j) \in 1 .. last /\ from(j) # i /\ j \in 1 .. last
    BY <1>1
  <2>5. ASSUME NEW j \in 1 .. last - 1
        PROVE  /\ t[j].index = j /\ t[j].endpoint = s[from(j)].endpoint
               /\ t[j].age = s[from(j)].age
    <3>1. CASE j = i
      BY <2>1, <2>2, <2>3, <2>4, <3>1
    <3>2. CASE j # i
      BY <1>1, <2>2, <2>3, <2>4, <3>2
    <3> QED
      BY <3>1, <3>2
  <2>6. ASSUME NEW k \in 1 .. last, k # i PROVE \E j \in 1 .. last - 1 : from(j) = k
    <3>1. CASE k = last
      <4>1. i \in 1 .. last - 1 /\ from(i) = k
        BY <1>1, <2>6, <3>1
      <4> QED
        BY <4>1
    <3>2. CASE k # last
      <4>1. k \in 1 .. last - 1 /\ from(k) = k
        BY <1>1, <2>6, <3>2
      <4> QED
        BY <4>1
    <3> QED
      BY <3>1, <3>2
  <2> QED
    BY <2>3, <2>4, <2>5, <2>6
<1> HIDE DEF moved, r
<1> HIDE DEF from, t, q
<1>4. \A j, k \in 1 .. last : s[j].endpoint.addr = s[k].endpoint.addr => j = k
  BY <1>1 DEF PoolOK, PoolConsistent
<1>5. Entries(q) = {x \in Entries(p) : x.endpoint.addr # elem.endpoint.addr}
  <2>1. ASSUME NEW j \in 1 .. last - 1
        PROVE  EntryAt(q, j) = EntryAt(p, from(j)) /\ EntryAt(p, from(j)).endpoint.addr # elem.endpoint.addr
    BY <1>1, <1>2, <1>3, <1>4 DEF EntryAt
  <2>2. ASSUME NEW k \in 1 .. last, EntryAt(p, k).endpoint.addr # elem.endpoint.addr
        PROVE  \E j \in 1 .. last - 1 : EntryAt(p, k) = EntryAt(q, j)
    <3>1. k # i
      BY <2>2 DEF EntryAt
    <3> QED
      BY <1>3, <2>1, <3>1
  <2>3. DOMAIN q.endpoints = 1 .. last - 1 /\ DOMAIN p.endpoints = 1 .. last
    BY <1>1, <1>2, <1>3
  <2>4. \A j \in 1 .. last - 1 : EntryAt(p, from(j)) \in Entries(p)
    BY <1>3, <2>3 DEF Entries
  <2>5. \A x \in Entries(q) : x \in Entries(p) /\ x.endpoint.addr # elem.endpoint.addr
    BY <2>1, <2>3, <2>4 DEF Entries
  <2>6. \A x \in Entries(p) : x.endpoint.addr # elem.endpoint.addr => x \in Entries(q)
    BY <2>2, <2>3 DEF Entries
  <2> QED
    BY <2>5, <2>6
<1> DEFINE a == elem.endpoint.addr
           id == elem.endpoint.id
<1>6. a \in Addr /\ id \in Id /\ id \notin Addr
  <2>1. elem.endpoint \in Endpoint
    BY <1>1 DEF Element
  <2> QED
    BY <2>1, EndpointFields
<1>7. /\ DOMAIN q.index = (DOMAIN p.index \ {a}) \ {id}
      /\ \A x \in DOMAIN q.index : q.index[x] = p.index[x]
  BY <1>2 DEF Drop
<1>8. PoolTypeOK(q)
  <2>1. IsMap(p.index, Addr \cup {e.id : e \in Endpoint}, Addr)
    BY DEF PoolOK, PoolTypeOK
  <2>2. IsMap(q.index, Addr \cup {e.id : e \in Endpoint}, Addr)
    BY <1>2, <2>1 DEF IsMap, Drop
  <2> QED
    BY <1>2, <1>3, <2>2 DEF PoolTypeOK
<1>9. PoolConsistent(q)
  <2>1. \A j \in DOMAIN q.endpoints : q.endpoints[j].index = j
    BY <1>2, <1>3
  <2>2. ASSUME NEW j \in DOMAIN q.endpoints, NEW k \in DOMAIN q.endpoints,
               q.endpoints[j].endpoint.addr = q.endpoints[k].endpoint.addr
        PROVE  j = k
    <3>1. j \in 1 .. last - 1 /\ k \in 1 .. last - 1 /\ from(j) = from(k)
      BY <1>2, <1>3, <1>4, <2>2
    <3> QED
      BY <1>1, <3>1 DEF from
  <2>3. Addrs(q) = Addrs(p) \ {a}
    <3>1. ASSUME NEW j \in 1 .. last - 1 PROVE q.endpoints[j].endpoint.addr \in Addrs(p) \ {a}
      <4>1. from(j) \in 1 .. last /\ from(j) # i
               /\ q.endpoints[j].endpoint.addr = s[from(j)].endpoint.addr
        BY <1>2, <1>3
      <4> QED
        BY <1>1, <1>4, <4>1 DEF Addrs
    <3>2. ASSUME NEW k \in 1 .. last, s[k].endpoint.addr # a
          PROVE  \E j \in 1 .. last - 1 : q.endpoints[j].endpoint.addr = s[k].endpoint.addr
      <4>1. PICK j \in 1 .. last - 1 : from(j) = k
        BY <1>3, <3>2, ZenonT(30)
      <4> QED
        BY <1>2, <1>3, <4>1
    <3>3. DOMAIN q.endpoints = 1 .. last - 1 /\ DOMAIN p.endpoints = 1 .. last
      BY <1>1, <1>2, <1>3
    <3>4. \A b \in Addrs(q) : b \in Addrs(p) \ {a}
      BY <3>1, <3>3, ZenonT(30) DEF Addrs
    <3>5. \A b \in Addrs(p) \ {a} : b \in Addrs(q)
      BY <3>2, <3>3, ZenonT(30) DEF Addrs
    <3> QED
      BY <3>4, <3>5
  <2>4. Addrs(q) = DOMAIN q.index \cap Addr
    BY <1>6, <1>7, <2>3 DEF PoolOK, PoolConsistent
  <2>5. \A b \in Addrs(q) : q.index[b] = b
    BY <1>7, <2>3, <2>4 DEF PoolOK, PoolConsistent
  <2>6. ASSUME NEW x \in DOMAIN q.index \ Addr
        PROVE  \E j \in DOMAIN q.endpoints : /\ q.endpoints[j].endpoint.id = x
                                             /\ q.index[x] = q.endpoints[j].endpoint.addr
    <3>1. PICK k \in 1 .. last : s[k].endpoint.id = x /\ p.index[x] = s[k].endpoint.addr
      BY <1>1, <1>7 DEF PoolOK, PoolConsistent
    <3>2. k # i
      BY <1>7, <3>1
    <3>3. PICK j \in 1 .. last - 1 : from(j) = k
      BY <1>3, <3>2
    <3>4. j \in DOMAIN q.endpoints /\ q.endpoints[j].endpoint = s[k].endpoint
      BY <1>2, <1>3, <3>3
    <3>5. q.index[x] = p.index[x]
      BY <1>7
    <3> QED
      BY <3>1, <3>4, <3>5
  <2> QED
    BY <2>1, <2>2, <2>4, <2>5, <2>6 DEF PoolConsistent
<1> QED
  BY <1>2, <1>3, <1>5, <1>8, <1>9 DEF PoolOK, q

\* Put of an address that the pool has: the element gets the newer endpoint, and the
\* index the id of that endpoint instead of the old one (Put of route/pool.go).
LEMMA UpdateKeeps ==
    ASSUME NEW p, PoolOK(p), NEW e \in Endpoint, PutAccepts(p, e), Found(p, e)
    PROVE  LET q == PoolPut(p, e)
           IN  /\ PoolOK(q) /\ Len(q.endpoints) = Len(p.endpoints)
               /\ Entries(q) = {x \in Entries(p) : x.endpoint.addr # e.addr}
                                  \cup {[endpoint |-> e, age |-> 0]}
<1> DEFINE s == p.endpoints
           n == Len(s)
           q == PoolPut(p, e)
<1>1. PICK i \in DOMAIN s : s[i].endpoint.addr = e.addr /\ At(p, e.addr) = i
  BY FoundAt
<1>2. /\ s \in Seq(Element) /\ DOMAIN s = 1 .. n /\ n \in Nat /\ i \in 1 .. n
      /\ \A j \in 1 .. n : s[j] \in Element /\ s[j].index = j
  BY ElementAt
<1> DEFINE t == [s EXCEPT ![i] = [s[i] EXCEPT !.endpoint = e, !.age = 0]]
           old == s[i].endpoint.id
<1>3. q = [endpoints |-> t, index |-> IF old = e.id THEN p.index
                                      ELSE Put(Drop(p.index, old), e.id, e.addr)]
  <2>1. [s EXCEPT ![i].endpoint = e, ![i].age = 0] = t
    BY <1>2, ZenonT(30) DEF Element
  <2> QED
    BY <1>1, <2>1 DEF PoolPut
<1>4. 0 \in 0 .. MaxAge
  BY PoolAssumption DEF MaxAge
<1>5. /\ t \in Seq(Element) /\ Len(t) = n /\ DOMAIN t = 1 .. n
      /\ t[i].endpoint = e /\ t[i].age = 0 /\ t[i].index = i
      /\ \A j \in 1 .. n : j # i => t[j] = s[j]
  <2> DEFINE new == [s[i] EXCEPT !.endpoint = e, !.age = 0]
  <2>1. new \in Element /\ new.endpoint = e /\ new.age = 0 /\ new.index = i
    BY <1>2, <1>4, ZenonT(30) DEF Element
  <2> HIDE DEF new
  <2>2. t = [s EXCEPT ![i] = new]
    BY DEF new
  <2> HIDE DEF t
  <2> QED
    BY <1>2, <2>1, <2>2
<1> HIDE DEF t
<1>6. q.endpoints = t /\ q = [endpoints |-> q.endpoints, index |-> q.index]
  BY <1>3
<1>7. q.index = IF old = e.id THEN p.index ELSE Put(Drop(p.index, old), e.id, e.addr)
  BY <1>3
<1> HIDE DEF q
<1>8. e.addr \in Addr /\ e.id \in Id /\ e.id \notin Addr /\ old \in Id /\ old \notin Addr
  <2>1. s[i].endpoint \in Endpoint
    BY <1>2 DEF Element
  <2> QED
    BY <2>1, EndpointFields
<1>9. \A j, k \in 1 .. n : s[j].endpoint.addr = s[k].endpoint.addr => j = k
  BY <1>2 DEF PoolOK, PoolConsistent
<1>10. \A j \in 1 .. n : t[j].endpoint.addr = s[j].endpoint.addr /\ t[j].index = j
  BY <1>1, <1>2, <1>5
<1>11. Entries(q) = {x \in Entries(p) : x.endpoint.addr # e.addr} \cup {[endpoint |-> e, age |-> 0]}
  <2>1. EntryAt(q, i) = [endpoint |-> e, age |-> 0]
    BY <1>5, <1>6 DEF EntryAt
  <2>2. ASSUME NEW j \in 1 .. n, j # i
        PROVE  EntryAt(q, j) = EntryAt(p, j) /\ EntryAt(p, j).endpoint.addr # e.addr
    BY <1>1, <1>2, <1>5, <1>6, <1>9, <2>2 DEF EntryAt
  <2>3. EntryAt(p, i).endpoint.addr = e.addr
    BY <1>1 DEF EntryAt
  <2>4. DOMAIN q.endpoints = 1 .. n /\ DOMAIN p.endpoints = 1 .. n
    BY <1>2, <1>5, <1>6
  <2>5. \A x \in Entries(q) : \/ x = [endpoint |-> e, age |-> 0]
                              \/ x \in Entries(p) /\ x.endpoint.addr # e.addr
    BY <2>1, <2>2, <2>4 DEF Entries
  <2>6. \A x \in Entries(p) : x.endpoint.addr # e.addr => x \in Entries(q)
    BY <2>2, <2>3, <2>4 DEF Entries
  <2>7. [endpoint |-> e, age |-> 0] \in Entries(q)
    BY <1>2, <2>1, <2>4 DEF Entries
  <2> QED
    BY <2>5, <2>6, <2>7
<1>12. PoolTypeOK(q)
  <2>1. IsMap(p.index, Addr \cup {x.id : x \in Endpoint}, Addr)
    BY DEF PoolOK, PoolTypeOK
  <2>2. IsMap(q.index, Addr \cup {x.id : x \in Endpoint}, Addr)
    BY <1>7, <1>8, <2>1 DEF IsMap, Drop, Put
  <2> QED
    BY <1>5, <1>6, <2>2 DEF PoolTypeOK
<1>13. PoolConsistent(q)
  <2>1. Addrs(q) = Addrs(p)
    BY <1>2, <1>5, <1>6, <1>10 DEF Addrs
  <2>2. /\ DOMAIN q.index \cap Addr = DOMAIN p.index \cap Addr
        /\ \A a \in DOMAIN q.index \cap Addr : q.index[a] = p.index[a]
    BY <1>7, <1>8 DEF Put, Drop
  <2>3. ASSUME NEW x \in DOMAIN q.index \ Addr
        PROVE  \E j \in DOMAIN q.endpoints : /\ q.endpoints[j].endpoint.id = x
                                             /\ q.index[x] = q.endpoints[j].endpoint.addr
    <3>1. CASE old # e.id /\ x = e.id
      BY <1>2, <1>5, <1>6, <1>7, <3>1 DEF Put, Drop
    <3>2. CASE old = e.id \/ x # e.id
      <4>1. x \in DOMAIN p.index \ Addr /\ q.index[x] = p.index[x] /\ (old # e.id => x # old)
        BY <1>7, <2>3, <3>2 DEF Put, Drop
      <4>2. PICK j \in 1 .. n : s[j].endpoint.id = x /\ p.index[x] = s[j].endpoint.addr
        BY <1>2, <4>1 DEF PoolOK, PoolConsistent
      <4>3. t[j].endpoint.id = x
        BY <1>2, <1>5, <4>1, <4>2
      <4> QED
        BY <1>5, <1>6, <1>10, <4>1, <4>2, <4>3
    <3> QED
      BY <3>1, <3>2
  <2>4. \A j, k \in DOMAIN q.endpoints :
           q.endpoints[j].endpoint.addr = q.endpoints[k].endpoint.addr => j = k
    BY <1>5, <1>6, <1>9, <1>10
  <2>5. \A j \in DOMAIN q.endpoints : q.endpoints[j].index = j
    BY <1>5, <1>6, <1>10
  <2>6. Addrs(q) = DOMAIN q.index \cap Addr /\ \A a \in Addrs(q) : q.index[a] = a
    BY <2>1, <2>2 DEF PoolOK, PoolConsistent
  <2> QED
    BY <2>3, <2>4, <2>5, <2>6 DEF PoolConsistent
<1> QED
  BY <1>5, <1>6, <1>11, <1>12, <1>13 DEF PoolOK, q

\* Put of a new address appends an element, and its id may take over the index entry
\* of another endpoint (Put of route/pool.go).
LEMMA AppendKeeps ==
    ASSUME NEW p, PoolOK(p), NEW e \in Endpoint, ~Found(p, e)
    PROVE  LET q == PoolPut(p, e)
           IN  /\ PoolOK(q) /\ Len(q.endpoints) = Len(p.endpoints) + 1
               /\ Entries(q) = Entries(p) \cup {[endpoint |-> e, age |-> 0]}
               /\ \A x \in Entries(p) : x.endpoint.addr # e.addr
<1> DEFINE s == p.endpoints
           n == Len(s)
           q == PoolPut(p, e)
           new == [endpoint |-> e, age |-> 0, index |-> n + 1]
           t == Append(s, new)
<1>1. /\ s \in Seq(Element) /\ DOMAIN s = 1 .. n /\ n \in Nat
      /\ \A j \in 1 .. n : s[j] \in Element /\ s[j].index = j
  <2>1. s \in Seq(Element)
    BY DEF PoolOK, PoolTypeOK
  <2> QED
    BY <2>1 DEF PoolOK, PoolConsistent
<1>2. 0 \in 0 .. MaxAge
  BY PoolAssumption DEF MaxAge
<1>3. /\ q = [endpoints |-> q.endpoints, index |-> q.index] /\ q.endpoints = t
      /\ q.index = Put(Put(p.index, e.addr, e.addr), e.id, e.addr)
  BY ZenonT(30) DEF PoolPut, PutAccepts
<1>4. new \in Element /\ new.endpoint = e /\ new.age = 0 /\ new.index = n + 1
  BY <1>1, <1>2 DEF Element
<1> HIDE DEF new, q
<1>5. /\ t \in Seq(Element) /\ Len(t) = n + 1 /\ DOMAIN t = 1 .. n + 1
      /\ t[n + 1] = new /\ \A j \in 1 .. n : t[j] = s[j]
  BY <1>1, <1>4
<1> HIDE DEF t
<1>6. \A j \in 1 .. n + 1 : j = n + 1 \/ j \in 1 .. n
  BY <1>1
<1>7. n + 1 \in 1 .. n + 1 /\ \A j \in 1 .. n : j \in 1 .. n + 1
  BY <1>1
<1>8. e.addr \in Addr /\ e.id \in Id /\ e.id \notin Addr /\ e.addr \notin Addrs(p)
  BY EndpointFields, FoundAt
<1>9. \A j \in 1 .. n : s[j].endpoint.addr # e.addr
  BY <1>1, <1>8 DEF Addrs
<1>10. /\ Entries(q) = Entries(p) \cup {[endpoint |-> e, age |-> 0]}
       /\ \A x \in Entries(p) : x.endpoint.addr # e.addr
  <2>1. EntryAt(q, n + 1) = [endpoint |-> e, age |-> 0]
    BY <1>3, <1>4, <1>5 DEF EntryAt
  <2>2. \A j \in 1 .. n : EntryAt(q, j) = EntryAt(p, j) /\ EntryAt(p, j).endpoint.addr # e.addr
    BY <1>1, <1>3, <1>5, <1>9 DEF EntryAt
  <2>3. DOMAIN q.endpoints = 1 .. n + 1 /\ DOMAIN p.endpoints = 1 .. n
    BY <1>1, <1>3, <1>5
  <2>4. \A x \in Entries(q) : x \in Entries(p) \cup {[endpoint |-> e, age |-> 0]}
    BY <1>6, <2>1, <2>2, <2>3 DEF Entries
  <2>5. \A x \in Entries(p) : x \in Entries(q) /\ x.endpoint.addr # e.addr
    BY <1>7, <2>2, <2>3 DEF Entries
  <2>6. [endpoint |-> e, age |-> 0] \in Entries(q)
    BY <1>7, <2>1, <2>3 DEF Entries
  <2> QED
    BY <2>4, <2>5, <2>6
<1>11. PoolTypeOK(q)
  <2>1. IsMap(p.index, Addr \cup {x.id : x \in Endpoint}, Addr)
    BY DEF PoolOK, PoolTypeOK
  <2>2. IsMap(q.index, Addr \cup {x.id : x \in Endpoint}, Addr)
    BY <1>3, <1>8, <2>1 DEF IsMap, Put
  <2> QED
    BY <1>3, <1>5, <2>2 DEF PoolTypeOK
<1>12. PoolConsistent(q)
  <2>1. Addrs(q) = Addrs(p) \cup {e.addr}
    <3>1. \A a \in Addrs(q) : a \in Addrs(p) \cup {e.addr}
      BY <1>1, <1>3, <1>4, <1>5, <1>6 DEF Addrs
    <3>2. \A a \in Addrs(p) : a \in Addrs(q)
      BY <1>1, <1>3, <1>5, <1>7 DEF Addrs
    <3>3. e.addr \in Addrs(q)
      BY <1>3, <1>4, <1>5, <1>7 DEF Addrs
    <3> QED
      BY <3>1, <3>2, <3>3
  <2>2. /\ DOMAIN q.index \cap Addr = (DOMAIN p.index \cap Addr) \cup {e.addr}
        /\ q.index[e.addr] = e.addr
        /\ \A a \in DOMAIN p.index \cap Addr : a # e.addr => q.index[a] = p.index[a]
    BY <1>3, <1>8 DEF Put
  <2>3. ASSUME NEW x \in DOMAIN q.index \ Addr
        PROVE  \E j \in DOMAIN q.endpoints : /\ q.endpoints[j].endpoint.id = x
                                             /\ q.index[x] = q.endpoints[j].endpoint.addr
    <3>1. CASE x = e.id
      BY <1>3, <1>4, <1>5, <1>7, <3>1 DEF Put
    <3>2. CASE x # e.id
      <4>1. x \in DOMAIN p.index \ Addr /\ q.index[x] = p.index[x]
        BY <1>3, <1>8, <2>3, <3>2 DEF Put
      <4>2. PICK j \in 1 .. n : s[j].endpoint.id = x /\ p.index[x] = s[j].endpoint.addr
        BY <1>1, <4>1 DEF PoolOK, PoolConsistent
      <4> QED
        BY <1>3, <1>5, <1>7, <4>1, <4>2
    <3> QED
      BY <3>1, <3>2
  <2>4. ASSUME NEW j \in DOMAIN q.endpoints, NEW k \in DOMAIN q.endpoints,
               q.endpoints[j].endpoint.addr = q.endpoints[k].endpoint.addr
        PROVE  j = k
    <3>1. \A l, m \in 1 .. n : s[l].endpoint.addr = s[m].endpoint.addr => l = m
      BY <1>1 DEF PoolOK, PoolConsistent
    <3> QED
      BY <1>3, <1>4, <1>5, <1>6, <1>9, <2>4, <3>1
  <2>5. \A j \in DOMAIN q.endpoints : q.endpoints[j].index = j
    BY <1>1, <1>3, <1>4, <1>5, <1>6
  <2>6. Addrs(q) = DOMAIN q.index \cap Addr /\ \A a \in Addrs(q) : q.index[a] = a
    BY <2>1, <2>2 DEF PoolOK, PoolConsistent
  <2> QED
    BY <2>3, <2>4, <2>5, <2>6 DEF PoolConsistent
<1> QED
  BY <1>3, <1>5, <1>10, <1>11, <1>12 DEF PoolOK, q

\* Min of a set of positions.
LEMMA MinOf ==
    ASSUME NEW S \in SUBSET Nat, S # {}
    PROVE  Min(S) \in S
<1>1. \E m \in S : \A k \in S : m <= k
  BY NatMin
<1> QED
  BY <1>1, ZenonT(30) DEF Min

\* One removal of the loop of PruneEndpoints takes a stale element, if there is one.
LEMMA PruneFirstKeeps ==
    ASSUME NEW p, PoolOK(p)
    PROVE  LET q == PruneFirst(p)
           IN  /\ PoolOK(q) /\ Entries(q) \subseteq Entries(p)
               /\ \A x \in Entries(p) : ~Stale(x) => x \in Entries(q)
               /\ \/ q = p /\ \A x \in Entries(p) : ~Stale(x)
                  \/ Len(q.endpoints) = Len(p.endpoints) - 1
<1> DEFINE stale == {i \in DOMAIN p.endpoints : Stale(p.endpoints[i])}
<1>1. \A i \in DOMAIN p.endpoints : Stale(EntryAt(p, i)) <=> Stale(p.endpoints[i])
  BY ElementAt DEF Stale
<1>2. CASE stale = {}
  <2>1. PruneFirst(p) = p
    BY <1>2 DEF PruneFirst
  <2>2. \A x \in Entries(p) : ~Stale(x)
    BY <1>1, <1>2 DEF Entries
  <2> QED
    BY <2>1, <2>2
<1>3. CASE stale # {}
  <2>1. DOMAIN p.endpoints \subseteq Nat
    <3>1. p.endpoints \in Seq(Element)
      BY DEF PoolOK, PoolTypeOK
    <3> QED
      BY <3>1
  <2>2. PICK i \in DOMAIN p.endpoints : i = Min(stale) /\ Stale(p.endpoints[i])
    <3>1. stale \in SUBSET Nat
      BY <2>1
    <3>2. Min(stale) \in stale
      <4> HIDE DEF stale
      <4> QED
        BY <1>3, <3>1, MinOf
    <3> QED
      BY <3>2
  <2>3. PruneFirst(p) = removeEndpoint(p, p.endpoints[i])
    BY <1>3, <2>2 DEF PruneFirst
  <2> DEFINE q == removeEndpoint(p, p.endpoints[i])
             a == p.endpoints[i].endpoint.addr
  <2>4. PoolOK(q) /\ Len(q.endpoints) = Len(p.endpoints) - 1
        /\ Entries(q) = {x \in Entries(p) : x.endpoint.addr # a}
    BY RemoveKeeps
  <2> HIDE DEF q
  <2>5. ASSUME NEW x \in Entries(p), x.endpoint.addr = a PROVE Stale(x)
    <3>1. PICK j \in DOMAIN p.endpoints : x = EntryAt(p, j)
      BY DEF Entries
    <3>2. p.endpoints[j].endpoint.addr = a
      BY <2>5, <3>1 DEF EntryAt
    <3>3. j = i
      BY <3>2 DEF PoolOK, PoolConsistent
    <3> QED
      BY <1>1, <2>2, <3>1, <3>3
  <2> QED
    BY <2>3, <2>4, <2>5 DEF q
<1> QED
  BY <1>2, <1>3

\* PruneEndpoints removes what is stale, and nothing else, though elements move while
\* its loop runs.
LEMMA PruneKeeps ==
    ASSUME NEW p, PoolOK(p)
    PROVE  /\ PoolOK(PruneEndpoints(p))
           /\ Entries(PruneEndpoints(p)) = {x \in Entries(p) : ~Stale(x)}
<1> DEFINE n == Len(p.endpoints)
           IsLoop(g, i) == g = [k \in 0 .. i |-> IF k = 0 THEN p ELSE PruneFirst(g[k - 1])]
           Has(i) == \E g : IsLoop(g, i)
<1>1. n \in Nat
  <2>1. p.endpoints \in Seq(Element)
    BY DEF PoolOK, PoolTypeOK
  <2> QED
    BY <2>1
<1>2. Has(n)
  <2>1. Has(0)
    <3> DEFINE g == [k \in 0 .. 0 |-> p]
    <3>1. IsLoop(g, 0)
      OBVIOUS
    <3> QED
      BY <3>1, ZenonT(30)
  <2>2. ASSUME NEW i \in Nat, Has(i) PROVE Has(i + 1)
    <3>1. PICK g : IsLoop(g, i)
      BY <2>2
    <3> DEFINE h == [k \in 0 .. i + 1 |-> IF k = i + 1 THEN PruneFirst(g[i]) ELSE g[k]]
    <3>2. ASSUME NEW k \in 0 .. i + 1 PROVE h[k] = IF k = 0 THEN p ELSE PruneFirst(h[k - 1])
      <4>1. CASE k = i + 1
        BY <4>1
      <4>2. CASE k # i + 1
        <5>1. g[k] = IF k = 0 THEN p ELSE PruneFirst(g[k - 1])
          BY <3>1, <4>2
        <5>2. k # 0 => h[k - 1] = g[k - 1]
          BY <4>2
        <5> QED
          BY <4>2, <5>1, <5>2
      <4> QED
        BY <4>1, <4>2
    <3>3. IsLoop(h, i + 1)
      BY <3>2
    <3> QED
      BY <3>3, ZenonT(30)
  <2> DEFINE S == {i \in Nat : Has(i)}
  <2> HIDE DEF Has
  <2>3. 0 \in S /\ \A k \in 0 .. n : k < n /\ k \in S => k + 1 \in S
    BY <1>1, <2>1, <2>2
  <2>4. 0 .. n \subseteq S
    <3> HIDE DEF S, n
    <3> QED
      BY <1>1, <2>3, Upwards
  <2> QED
    BY <1>1, <2>4
<1> DEFINE after == CHOOSE g : IsLoop(g, n)
<1>3. IsLoop(after, n)
  BY <1>2
<1>4. PruneEndpoints(p) = after[n]
  BY DEF PruneEndpoints
<1>5. after[0] = p /\ \A k \in 0 .. n : k < n => after[k + 1] = PruneFirst(after[k])
  <2> HIDE DEF after
  <2> QED
    BY <1>1, <1>3
<1> HIDE DEF after
<1> DEFINE Done(q) == \A x \in Entries(q) : ~Stale(x)
           Kept(q) == /\ PoolOK(q) /\ Entries(q) \subseteq Entries(p)
                      /\ \A x \in Entries(p) : ~Stale(x) => x \in Entries(q)
           S == {k \in 0 .. n : Kept(after[k]) /\ (Done(after[k]) \/ Len(after[k].endpoints) = n - k)}
<1>6. 0 \in S
  BY <1>1, <1>5
<1>7. ASSUME NEW k \in 0 .. n, k < n, k \in S PROVE k + 1 \in S
  <2> DEFINE q == after[k]
             r == PruneFirst(q)
  <2>1. Kept(q) /\ (Done(q) \/ Len(q.endpoints) = n - k)
    BY <1>7
  <2> HIDE DEF q
  <2>2. /\ PoolOK(r) /\ Entries(r) \subseteq Entries(q)
        /\ \A x \in Entries(q) : ~Stale(x) => x \in Entries(r)
        /\ (r = q /\ Done(q)) \/ Len(r.endpoints) = Len(q.endpoints) - 1
    BY <2>1, PruneFirstKeeps
  <2> HIDE DEF r
  <2>3. Kept(r)
    BY <2>1, <2>2
  <2>4. Done(r) \/ Len(r.endpoints) = n - (k + 1)
    <3>1. CASE Done(q)
      BY <2>2, <3>1
    <3>2. CASE ~Done(q)
      <4>1. Len(q.endpoints) = n - k /\ Len(r.endpoints) = Len(q.endpoints) - 1
        BY <2>1, <2>2, <3>2
      <4> QED
        BY <1>1, <4>1
    <3> QED
      BY <3>1, <3>2
  <2>5. after[k + 1] = r
    BY <1>5, <1>7 DEF r, q
  <2>6. k + 1 \in 0 .. n
    BY <1>1, <1>7
  <2> QED
    BY <2>3, <2>4, <2>5, <2>6
<1>8. n \in S
  <2>1. 0 .. n \subseteq S
    <3> HIDE DEF S, n
    <3> QED
      BY <1>1, <1>6, <1>7, Upwards
  <2>2. n \in 0 .. n
    BY <1>1
  <2> HIDE DEF S, n
  <2> QED
    BY <2>1, <2>2
<1> DEFINE q == after[n]
<1>9. Kept(q) /\ Done(q)
  <2>1. Kept(q) /\ (Done(q) \/ Len(q.endpoints) = n - n)
    BY <1>8
  <2> HIDE DEF q
  <2>2. ASSUME Len(q.endpoints) = n - n PROVE Done(q)
    <3>1. q.endpoints \in Seq(Element) /\ Len(q.endpoints) = 0
      BY <1>1, <2>1, <2>2 DEF PoolOK, PoolTypeOK
    <3>2. DOMAIN q.endpoints = {}
      BY <3>1
    <3> QED
      BY <3>2 DEF Entries
  <2> QED
    BY <2>1, <2>2
<1> HIDE DEF q
<1> QED
  BY <1>4, <1>9 DEF q

\* A pool with the elements of another one in the same places, other ages apart.
LEMMA OtherAges ==
    ASSUME NEW p, PoolOK(p), NEW q, q = [p EXCEPT !.endpoints = q.endpoints],
           DOMAIN q.endpoints = DOMAIN p.endpoints,
           q.endpoints \in Seq(Element),
           \A i \in DOMAIN p.endpoints :
              q.endpoints[i].endpoint = p.endpoints[i].endpoint /\ q.endpoints[i].index = i
    PROVE  PoolOK(q)
<1>1. q = [endpoints |-> q.endpoints, index |-> q.index] /\ q.index = p.index
  BY DEF PoolOK
<1>2. PoolTypeOK(q)
  BY <1>1 DEF PoolOK, PoolTypeOK
<1>3. Addrs(q) = Addrs(p)
  BY DEF Addrs
<1>4. PoolConsistent(q)
  <2>1. \A i, j \in DOMAIN q.endpoints :
           q.endpoints[i].endpoint.addr = q.endpoints[j].endpoint.addr => i = j
    BY DEF PoolOK, PoolConsistent
  <2>2. Addrs(q) = DOMAIN q.index \cap Addr /\ \A a \in Addrs(q) : q.index[a] = a
    BY <1>1, <1>3 DEF PoolOK, PoolConsistent
  <2>3. \A id \in DOMAIN q.index \ Addr :
           \E i \in DOMAIN q.endpoints : /\ q.endpoints[i].endpoint.id = id
                                         /\ q.index[id] = q.endpoints[i].endpoint.addr
    BY <1>1 DEF PoolOK, PoolConsistent
  <2> QED
    BY <2>1, <2>2, <2>3 DEF PoolConsistent
<1> QED
  BY <1>1, <1>2, <1>4 DEF PoolOK

\* MarkUpdated makes every element new.
LEMMA MarkKeeps ==
    ASSUME NEW p, PoolOK(p)
    PROVE  /\ PoolOK(MarkUpdated(p)) /\ Len(MarkUpdated(p).endpoints) = Len(p.endpoints)
           /\ Entries(MarkUpdated(p)) = {[endpoint |-> x.endpoint, age |-> 0] : x \in Entries(p)}
<1> DEFINE s == p.endpoints
           t == [i \in DOMAIN s |-> [s[i] EXCEPT !.age = 0]]
           q == MarkUpdated(p)
<1>1. p = [endpoints |-> p.endpoints, index |-> p.index] /\ s \in Seq(Element)
  BY DEF PoolOK, PoolTypeOK
<1>2. q = [p EXCEPT !.endpoints = t] /\ q.endpoints = t
  BY <1>1 DEF MarkUpdated
<1> HIDE DEF q
<1>3. ASSUME NEW i \in DOMAIN s
      PROVE  /\ t[i] \in Element /\ t[i].endpoint = s[i].endpoint /\ t[i].index = i
             /\ t[i].age = 0 /\ EntryAt(q, i) = [endpoint |-> EntryAt(p, i).endpoint, age |-> 0]
  <2>1. 0 \in 0 .. MaxAge
    BY PoolAssumption DEF MaxAge
  <2>2. s[i] \in Element /\ s[i].index = i
    BY ElementAt
  <2>3. t[i] \in Element /\ t[i].endpoint = s[i].endpoint /\ t[i].index = i /\ t[i].age = 0
    BY <2>1, <2>2 DEF Element
  <2> QED
    BY <1>2, <2>3 DEF EntryAt
<1>4. DOMAIN t = DOMAIN s /\ t \in Seq(Element) /\ Len(t) = Len(s)
  <2>1. \A i \in DOMAIN s : t[i] \in Element
    BY <1>3, ZenonT(30)
  <2> QED
    BY <1>1, <2>1
<1> HIDE DEF t
<1>5. PoolOK(q)
  BY <1>2, <1>3, <1>4, OtherAges, ZenonT(30)
<1>6. Entries(q) = {[endpoint |-> x.endpoint, age |-> 0] : x \in Entries(p)}
  <2>1. \A i \in DOMAIN s : EntryAt(q, i) = [endpoint |-> EntryAt(p, i).endpoint, age |-> 0]
    BY <1>3
  <2>2. DOMAIN q.endpoints = DOMAIN s
    BY <1>2, <1>4
  <2> QED
    BY <2>1, <2>2 DEF Entries
<1> QED
  BY <1>2, <1>4, <1>5, <1>6 DEF q

\* The clock makes every element older by a tick, unless it is stale already.
LEMMA AgedKeeps ==
    ASSUME NEW p, PoolOK(p)
    PROVE  /\ PoolOK(Aged(p)) /\ Len(Aged(p).endpoints) = Len(p.endpoints)
           /\ Entries(Aged(p)) = {Older(x) : x \in Entries(p)}
<1> DEFINE s == p.endpoints
           t == [i \in DOMAIN s |-> Older(s[i])]
           q == Aged(p)
<1>1. p = [endpoints |-> p.endpoints, index |-> p.index] /\ s \in Seq(Element)
  BY DEF PoolOK, PoolTypeOK
<1>2. q = [p EXCEPT !.endpoints = t] /\ q.endpoints = t
  <2>1. q = [p EXCEPT !.endpoints = t]
    BY DEF Aged
  <2> HIDE DEF t, q
  <2> QED
    BY <1>1, <2>1
<1> HIDE DEF q
<1>3. ASSUME NEW i \in DOMAIN s
      PROVE  /\ t[i] \in Element /\ t[i].endpoint = s[i].endpoint /\ t[i].index = i
             /\ EntryAt(q, i) = Older(EntryAt(p, i))
  <2>1. s[i] \in Element /\ s[i].index = i /\ s[i].age \in 0 .. MaxAge /\ s[i].endpoint \in Endpoint
    BY ElementAt
  <2>2. Stale(EntryAt(p, i)) <=> Stale(s[i])
    BY DEF Stale, EntryAt
  <2>3. ASSUME ~Stale(s[i]) PROVE s[i].age + 1 \in 0 .. MaxAge
    <3>1. defaultThreshold \in Nat /\ s[i].endpoint.staleThreshold \in Nat
      BY <2>1, EndpointFields, PoolAssumption
    <3>2. s[i].age <= defaultThreshold
      BY <2>1, <2>3, <3>1, PoolAssumption DEF Stale, MaxAge
    <3> QED
      BY <2>1, <3>1, <3>2 DEF MaxAge
  <2>4. CASE Stale(s[i])
    <3>1. t[i] = s[i] /\ Older(EntryAt(p, i)) = EntryAt(p, i)
      BY <2>2, <2>4 DEF Older
    <3> QED
      BY <1>2, <2>1, <2>4, <3>1 DEF EntryAt
  <2>5. CASE ~Stale(s[i])
    <3>1. t[i] = [s[i] EXCEPT !.age = @ + 1] /\ Older(EntryAt(p, i)) = [EntryAt(p, i) EXCEPT !.age = @ + 1]
      BY <2>2, <2>5 DEF Older
    <3>2. t[i] \in Element /\ t[i].endpoint = s[i].endpoint /\ t[i].index = i
          /\ t[i].age = s[i].age + 1
      BY <2>1, <2>3, <2>5, <3>1 DEF Element
    <3> QED
      BY <1>2, <2>1, <2>5, <3>1, <3>2 DEF EntryAt
  <2> QED
    BY <2>4, <2>5
<1>4. DOMAIN t = DOMAIN s /\ t \in Seq(Element) /\ Len(t) = Len(s)
  <2>1. \A i \in DOMAIN s : t[i] \in Element
    BY <1>3
  <2> QED
    BY <1>1, <2>1
<1> HIDE DEF t
<1>5. PoolOK(q)
  <2>1. /\ q = [p EXCEPT !.endpoints = q.endpoints] /\ DOMAIN q.endpoints = DOMAIN p.endpoints
        /\ q.endpoints \in Seq(Element)
    BY <1>2, <1>4
  <2>2. \A i \in DOMAIN p.endpoints :
           q.endpoints[i].endpoint = p.endpoints[i].endpoint /\ q.endpoints[i].index = i
    BY <1>2, <1>3
  <2> QED
    BY <2>1, <2>2, OtherAges
<1>6. Entries(q) = {Older(x) : x \in Entries(p)}
  <2>1. \A i \in DOMAIN s : EntryAt(q, i) = Older(EntryAt(p, i))
    BY <1>3
  <2>2. DOMAIN q.endpoints = DOMAIN s
    BY <1>2, <1>4
  <2> QED
    BY <2>1, <2>2 DEF Entries
<1> QED
  BY <1>2, <1>4, <1>5, <1>6 DEF q
-----------------------------------------------------------------------------
(***************************************************************************)
(* Paths                                                                   *)
(***************************************************************************)

\* The paths that may lead to a node: every one but the root's.
NodePath == Seq(STRING) \ {<<>>}

\* A prefix of a path.
LEMMA UpToIs ==
    ASSUME NEW path \in NodePath, NEW i \in 1 .. Len(path)
    PROVE  /\ UpTo(path, i) \in NodePath /\ Len(UpTo(path, i)) = i
           /\ \A j \in 1 .. i : UpTo(path, i)[j] = path[j]
           /\ UpTo(path, i) \in Way(path)
<1>1. path \in Seq(STRING) /\ i \in 1 .. Len(path) /\ Len(path) \in Nat
  BY DEF NodePath
<1>2. UpTo(path, i) \in Seq(STRING) /\ Len(UpTo(path, i)) = i
      /\ \A j \in 1 .. i : UpTo(path, i)[j] = path[j]
  BY <1>1 DEF UpTo
<1>3. UpTo(path, i) # <<>>
  BY <1>1, <1>2
<1> QED
  BY <1>2, <1>3 DEF NodePath, Way

\* The nodes on the way to a path are the paths that it starts with.
LEMMA WayIs ==
    ASSUME NEW path \in NodePath, NEW n \in NodePath
    PROVE  n \in Way(path) <=> Len(n) <= Len(path) /\ \A j \in 1 .. Len(n) : n[j] = path[j]
<1>1. Len(n) \in Nat \ {0} /\ Len(path) \in Nat \ {0} /\ n \in Seq(STRING)
  BY DEF NodePath
<1>2. ASSUME n \in Way(path)
      PROVE  Len(n) <= Len(path) /\ \A j \in 1 .. Len(n) : n[j] = path[j]
  <2>1. PICK i \in 1 .. Len(path) : n = UpTo(path, i)
    BY <1>2 DEF Way
  <2>2. Len(n) = i /\ \A j \in 1 .. i : n[j] = path[j]
    BY <2>1, UpToIs
  <2> QED
    BY <1>1, <2>1, <2>2
<1>3. ASSUME Len(n) <= Len(path), \A j \in 1 .. Len(n) : n[j] = path[j]
      PROVE  n \in Way(path)
  <2>1. Len(n) \in 1 .. Len(path)
    BY <1>1, <1>3
  <2> DEFINE m == UpTo(path, Len(n))
  <2>2. /\ m \in Seq(STRING) /\ Len(m) = Len(n) /\ m \in Way(path)
        /\ \A j \in 1 .. Len(n) : m[j] = path[j]
    BY <2>1, UpToIs DEF NodePath
  <2> HIDE DEF m
  <2>3. \A j \in 1 .. Len(n) : m[j] = n[j]
    BY <1>3, <2>2
  <2>4. m = n
    BY <1>1, <2>2, <2>3
  <2> QED
    BY <2>2, <2>4
<1> QED
  BY <1>2, <1>3

\* The nodes on a way are paths, and each is the prefix of its length.
LEMMA OnWay ==
    ASSUME NEW path \in NodePath, NEW n \in Way(path)
    PROVE  /\ n \in NodePath /\ Len(n) \in 1 .. Len(path) /\ n = UpTo(path, Len(n))
           /\ Len(n) = Len(path) => n = path
<1>1. PICK i \in 1 .. Len(path) : n = UpTo(path, i)
  BY DEF Way
<1>2. n \in NodePath /\ Len(n) = i /\ \A j \in 1 .. i : n[j] = path[j]
  BY <1>1, UpToIs
<1>3. ASSUME Len(n) = Len(path) PROVE n = path
  BY <1>2, <1>3 DEF NodePath
<1> QED
  BY <1>1, <1>2, <1>3

\* A path is the last node on its own way, and ways continue each other.
LEMMA Ways ==
    /\ \A path \in NodePath : path \in Way(path) /\ Way(path) \subseteq NodePath
    /\ \A path, n \in NodePath : n \in Way(path) => Way(n) \subseteq Way(path)
    /\ \A path, m, n \in NodePath :
          m \in Way(path) /\ n \in Way(path) /\ Len(m) <= Len(n) => m \in Way(n)
<1>1. \A n \in NodePath : Len(n) \in Nat
  BY DEF NodePath
<1>2. ASSUME NEW path \in NodePath PROVE path \in Way(path)
  BY <1>1, WayIs
<1>3. ASSUME NEW path \in NodePath, NEW n \in NodePath, NEW m \in NodePath,
             n \in Way(path), m \in Way(n)
      PROVE  m \in Way(path)
  <2>1. Len(n) <= Len(path) /\ \A j \in 1 .. Len(n) : n[j] = path[j]
    BY <1>3, WayIs
  <2>2. Len(m) <= Len(n) /\ \A j \in 1 .. Len(m) : m[j] = n[j]
    BY <1>3, WayIs
  <2>3. Len(m) <= Len(path) /\ \A j \in 1 .. Len(m) : m[j] = path[j]
    BY <1>1, <2>1, <2>2
  <2> QED
    BY <2>3, WayIs
<1>4. ASSUME NEW path \in NodePath, NEW n \in NodePath, NEW m \in NodePath,
             m \in Way(path), n \in Way(path), Len(m) <= Len(n)
      PROVE  m \in Way(n)
  <2>1. \A j \in 1 .. Len(n) : n[j] = path[j]
    BY <1>4, WayIs
  <2>2. \A j \in 1 .. Len(m) : m[j] = path[j]
    BY <1>4, WayIs
  <2>3. \A j \in 1 .. Len(m) : m[j] = n[j]
    BY <1>1, <1>4, <2>1, <2>2
  <2> QED
    BY <1>4, <2>3, WayIs
<1>5. \A path \in NodePath : Way(path) \subseteq NodePath
  BY OnWay
<1> QED
  BY <1>2, <1>3, <1>4, <1>5

\* A way has finitely many nodes.
LEMMA WayFinite ==
    ASSUME NEW path \in NodePath
    PROVE  IsFiniteSet(Way(path))
<1> DEFINE f == [i \in 1 .. Len(path) |-> UpTo(path, i)]
<1>1. Len(path) \in Nat
  BY DEF NodePath
<1>2. IsFiniteSet(1 .. Len(path))
  BY <1>1, FS_Interval
<1>3. Way(path) = {f[i] : i \in 1 .. Len(path)}
  BY DEF Way
<1>4. f \in Surjection(1 .. Len(path), Way(path))
  BY <1>3 DEF Surjection, Way
<1> HIDE DEF f
<1> QED
  BY <1>2, <1>4, FS_Surjection
-----------------------------------------------------------------------------
(***************************************************************************)
(* Tries                                                                   *)
(***************************************************************************)

\* The nodes on the way to some routes.
WaysTo(routes) == UNION {Way(r) : r \in routes}

\* A trie has the nodes on the way to its routes, and no others.
TrieOK(t) ==
    /\ t = [nodes |-> t.nodes, pool |-> t.pool]
    /\ t.pool = [path \in DOMAIN t.pool |-> t.pool[path]]
    /\ DOMAIN t.pool \subseteq NodePath
    /\ IsFiniteSet(DOMAIN t.pool) /\ IsFiniteSet(t.nodes)
    /\ t.nodes = WaysTo(DOMAIN t.pool)

\* A reason to keep node i on the way to path when that is no route any more: it is a
\* route, or has a child off the way.
Needed(routes, nodes, path, i) ==
    \/ UpTo(path, i) \in routes
    \/ \E c \in nodes : Len(c) = i + 1 /\ UpTo(c, i) = UpTo(path, i) /\ c \notin Way(path)

\* The first kept nodes on the way to path lead to other routes, and no more do.
Leads(routes, path, kept) ==
    /\ kept > 0 => UpTo(path, kept) \in WaysTo(routes)
    /\ \A i \in kept + 1 .. Len(path) : UpTo(path, i) \notin WaysTo(routes)

\* The last node on the way to path that is needed is the last one that leads to a
\* route: what Delete and Snip look at tells them where to cut.
LEMMA LastNeeded ==
    ASSUME NEW routes \in SUBSET NodePath, NEW path \in NodePath, NEW nodes,
           nodes = WaysTo(routes \cup {path}),
           NEW kept \in 0 .. Len(path),
           kept > 0 => Needed(routes, nodes, path, kept),
           \A i \in kept + 1 .. Len(path) : ~Needed(routes, nodes, path, i)
    PROVE  Leads(routes, path, kept)
<1>0. Len(path) \in Nat
  BY DEF NodePath
<1>1. ASSUME kept > 0 PROVE UpTo(path, kept) \in WaysTo(routes)
  <2>1. kept \in 1 .. Len(path)
    BY <1>0, <1>1
  <2> DEFINE n == UpTo(path, kept)
  <2>2. n \in NodePath /\ Len(n) = kept
    BY <2>1, UpToIs
  <2>3. CASE n \in routes
    BY <2>2, <2>3, Ways DEF WaysTo
  <2>4. CASE n \notin routes
    <3>1. PICK c \in nodes : Len(c) = kept + 1 /\ UpTo(c, kept) = n /\ c \notin Way(path)
      BY <1>1, <2>4, ZenonT(30) DEF Needed
    <3>2. PICK r \in routes : c \in Way(r)
      BY <3>1 DEF WaysTo
    <3>3. c \in NodePath /\ kept \in 1 .. Len(c)
      BY <2>1, <3>1, <3>2, OnWay
    <3>4. n \in Way(c)
      BY <3>1, <3>3, UpToIs
    <3>5. n \in Way(r)
      BY <3>2, <3>3, <3>4, Ways
    <3> QED
      BY <3>5 DEF WaysTo
  <2> QED
    BY <2>3, <2>4
<1>2. ASSUME NEW i \in kept + 1 .. Len(path), UpTo(path, i) \in WaysTo(routes) PROVE FALSE
  <2>1. PICK r \in routes : UpTo(path, i) \in Way(r)
    BY <1>2 DEF WaysTo
  <2>2. r \in NodePath /\ Len(r) \in Nat /\ i \in 1 .. Len(path)
    BY <1>0 DEF NodePath
  <2> DEFINE common == {j \in 1 .. Len(path) : UpTo(path, j) \in Way(r)}
             k == Max(common)
  <2>3. k \in common /\ \A j \in common : j <= k
    <3>1. common \in SUBSET (0 .. Len(path)) /\ common # {}
      BY <1>0, <2>1, <2>2
    <3> HIDE DEF common
    <3> QED
      BY <1>0, <3>1, MaxOf, ZenonT(30)
  <2>4. k \in kept + 1 .. Len(path) /\ k \in 1 .. Len(path) /\ UpTo(path, k) \in Way(r)
        /\ ~(k + 1 \in common)
    BY <1>0, <2>1, <2>2, <2>3
  <2> HIDE DEF k
  <2> DEFINE n == UpTo(path, k)
             c == UpTo(r, k + 1)
  <2>5. n \in NodePath /\ Len(n) = k /\ n \in Way(path)
    BY <2>4, UpToIs
  <2>6. n \notin routes /\ ~\E x \in nodes : Len(x) = k + 1 /\ UpTo(x, k) = n /\ x \notin Way(path)
    BY <2>4 DEF Needed
  <2>7. k + 1 \in 1 .. Len(r) /\ n = UpTo(r, k)
    <3>1. n # r /\ k \in 1 .. Len(r) /\ (k = Len(r) => n = r) /\ n = UpTo(r, k)
      BY <2>2, <2>4, <2>5, <2>6, OnWay
    <3> QED
      BY <2>2, <3>1
  <2>8. c \in NodePath /\ Len(c) = k + 1 /\ c \in Way(r)
    BY <2>2, <2>7, UpToIs
  <2>9. UpTo(c, k) = n
    <3>1. n \in Way(c)
      <4>1. n \in Way(r) /\ Len(n) <= Len(c)
        BY <2>4, <2>5, <2>8
      <4> QED
        BY <2>2, <2>5, <2>8, <4>1, Ways
    <3> QED
      BY <2>5, <2>8, <3>1, OnWay
  <2>10. c \in nodes
    BY <2>8 DEF WaysTo
  <2>11. c \in Way(path)
    BY <2>6, <2>8, <2>9, <2>10, ZenonT(30)
  <2>12. c = UpTo(path, k + 1) /\ k + 1 \in 1 .. Len(path)
    BY <2>8, <2>11, OnWay
  <2>13. k + 1 \in common
    BY <2>8, <2>12
  <2> QED
    BY <2>4, <2>13
<1> QED
  BY <1>1, <1>2 DEF Leads

\* The branch towards path that leads to no other route.
Branch(path, kept) == {UpTo(path, i) : i \in kept + 1 .. Len(path)}

\* Cutting that branch leaves the nodes on the way to the other routes.
LEMMA BranchCut ==
    ASSUME NEW routes \in SUBSET NodePath, NEW path \in NodePath, NEW kept \in 0 .. Len(path),
           Leads(routes, path, kept)
    PROVE  /\ WaysTo(routes \cup {path}) \ Branch(path, kept) = WaysTo(routes)
           /\ routes \cap Branch(path, kept) = {}
<1>0. Len(path) \in Nat
  BY DEF NodePath
<1>1. ASSUME NEW n \in Way(path), n \notin Branch(path, kept) PROVE n \in WaysTo(routes)
  <2>1. n \in NodePath /\ Len(n) \in 1 .. Len(path) /\ n = UpTo(path, Len(n))
    BY OnWay
  <2>2. ~(Len(n) \in kept + 1 .. Len(path))
    BY <1>1, <2>1 DEF Branch
  <2>3. kept > 0 /\ kept \in 1 .. Len(path) /\ Len(n) <= kept
    BY <1>0, <2>1, <2>2
  <2> DEFINE m == UpTo(path, kept)
  <2>4. m \in NodePath /\ Len(m) = kept /\ m \in Way(path)
    BY <2>3, UpToIs
  <2>5. n \in Way(m)
    BY <2>1, <2>3, <2>4, Ways
  <2>6. PICK r \in routes : m \in Way(r)
    BY <2>3 DEF WaysTo, Leads
  <2>7. n \in Way(r)
    BY <2>4, <2>5, <2>6, Ways
  <2> QED
    BY <2>7 DEF WaysTo
<1>2. \A n \in WaysTo(routes) : n \notin Branch(path, kept)
  BY DEF Branch, Leads
<1>3. routes \subseteq WaysTo(routes)
  BY Ways DEF WaysTo
<1>4. WaysTo(routes \cup {path}) = WaysTo(routes) \cup Way(path)
  BY DEF WaysTo
<1> QED
  BY <1>1, <1>2, <1>3, <1>4, ZenonT(30)

\* A trie with other pools for the same routes.
LEMMA OtherPools ==
    ASSUME NEW t, TrieOK(t), NEW u, u = [t EXCEPT !.pool = u.pool],
           DOMAIN u.pool = DOMAIN t.pool, u.pool = [path \in DOMAIN u.pool |-> u.pool[path]]
    PROVE  TrieOK(u)
<1>1. u = [nodes |-> u.nodes, pool |-> u.pool] /\ u.nodes = t.nodes
  BY DEF TrieOK
<1> QED
  BY <1>1 DEF TrieOK

\* Insert adds the nodes that were missing on the way.
LEMMA InsertKeeps ==
    ASSUME NEW t, TrieOK(t), NEW path \in NodePath, NEW pool
    PROVE  LET u == Insert(t, path, pool)
           IN  /\ TrieOK(u) /\ DOMAIN u.pool = DOMAIN t.pool \cup {path} /\ u.pool[path] = pool
               /\ \A x \in DOMAIN t.pool : x # path => u.pool[x] = t.pool[x]
<1> DEFINE u == Insert(t, path, pool)
<1>1. u = [nodes |-> u.nodes, pool |-> u.pool]
      /\ u.nodes = t.nodes \cup Way(path) /\ u.pool = Put(t.pool, path, pool)
  BY DEF Insert
<1> HIDE DEF u
<1>2. /\ DOMAIN u.pool = DOMAIN t.pool \cup {path} /\ u.pool[path] = pool
      /\ u.pool = [x \in DOMAIN u.pool |-> u.pool[x]]
      /\ \A x \in DOMAIN t.pool : x # path => u.pool[x] = t.pool[x]
  BY <1>1 DEF Put
<1>3. IsFiniteSet(DOMAIN u.pool) /\ IsFiniteSet(u.nodes)
  <2>1. IsFiniteSet(DOMAIN t.pool) /\ IsFiniteSet(t.nodes) /\ IsFiniteSet(Way(path))
    BY WayFinite DEF TrieOK
  <2>2. IsFiniteSet(DOMAIN t.pool \cup {path})
    BY <2>1, FS_AddElement
  <2>3. IsFiniteSet(t.nodes \cup Way(path))
    BY <2>1, FS_Union, ZenonT(30)
  <2> QED
    BY <1>1, <1>2, <2>2, <2>3
<1>4. u.nodes = WaysTo(DOMAIN u.pool)
  BY <1>1, <1>2 DEF TrieOK, WaysTo
<1>5. TrieOK(u)
  BY <1>1, <1>2, <1>3, <1>4 DEF TrieOK
<1> QED
  BY <1>2, <1>5 DEF u

\* The trie when the node of path has lost its pool.
NoPool(t, path) == [t EXCEPT !.pool = Drop(@, path)]

\* The trie without a route and the branch that led to nothing else.
LEMMA CutKeeps ==
    ASSUME NEW t, TrieOK(t), NEW path \in DOMAIN t.pool, NEW kept \in 0 .. Len(path),
           NEW routes, routes = DOMAIN t.pool \ {path},
           Leads(routes, path, kept),
           NEW u, u = Without(NoPool(t, path), Branch(path, kept))
    PROVE  /\ TrieOK(u) /\ DOMAIN u.pool = routes
           /\ \A x \in routes : u.pool[x] = t.pool[x]
<1>1. routes \in SUBSET NodePath /\ path \in NodePath /\ routes \cup {path} = DOMAIN t.pool
  BY DEF TrieOK
<1>2. /\ WaysTo(routes \cup {path}) \ Branch(path, kept) = WaysTo(routes)
      /\ routes \cap Branch(path, kept) = {}
  BY <1>1, BranchCut, ZenonT(30)
<1> DEFINE s == NoPool(t, path)
<1>3. s.nodes = t.nodes /\ DOMAIN s.pool = routes /\ \A x \in routes : s.pool[x] = t.pool[x]
  BY DEF TrieOK, Drop, NoPool
<1> HIDE DEF s
<1>4. /\ u = [nodes |-> u.nodes, pool |-> u.pool] /\ u.nodes = t.nodes \ Branch(path, kept)
      /\ u.pool = Only(s.pool, routes \ Branch(path, kept))
  BY <1>3 DEF Without, s
<1>5. /\ DOMAIN u.pool = routes /\ u.pool = [x \in DOMAIN u.pool |-> u.pool[x]]
      /\ \A x \in routes : u.pool[x] = t.pool[x]
  BY <1>2, <1>3, <1>4 DEF Only
<1>6. IsFiniteSet(DOMAIN u.pool) /\ IsFiniteSet(u.nodes)
  BY <1>4, <1>5, FS_Subset DEF TrieOK
<1>7. u.nodes = WaysTo(DOMAIN u.pool)
  BY <1>1, <1>2, <1>4, <1>5, ZenonT(30) DEF TrieOK
<1> QED
  BY <1>1, <1>4, <1>5, <1>6, <1>7, ZenonT(30) DEF TrieOK

\* Children in the trie and off the way.
LEMMA ChildOff ==
    ASSUME NEW t, TrieOK(t), NEW path \in DOMAIN t.pool, NEW i \in 1 .. Len(path)
    PROVE  /\ \A c \in ChildNodes(t, UpTo(path, i)) :
                 /\ c \in NodePath /\ c \in t.nodes /\ Len(c) = i + 1 /\ UpTo(c, i) = UpTo(path, i)
                 /\ c \in Way(path) => i < Len(path) /\ c = UpTo(path, i + 1)
           /\ \A c \in t.nodes : Len(c) = i + 1 /\ UpTo(c, i) = UpTo(path, i)
                                    => c \in ChildNodes(t, UpTo(path, i))
           /\ i < Len(path) => UpTo(path, i + 1) \in ChildNodes(t, UpTo(path, i))
<1>1. path \in NodePath /\ Len(path) \in Nat /\ Way(path) \subseteq t.nodes
  BY DEF TrieOK, NodePath, WaysTo
<1>2. t.nodes \subseteq NodePath
  BY OnWay DEF TrieOK, WaysTo
<1>3. Len(UpTo(path, i)) = i /\ UpTo(path, i) \in NodePath /\ UpTo(path, i) \in Way(path)
  BY <1>1, UpToIs
<1>4. ChildNodes(t, UpTo(path, i)) = {c \in t.nodes : Len(c) = i + 1 /\ UpTo(c, i) = UpTo(path, i)}
  BY <1>3 DEF ChildNodes
<1>5. ASSUME NEW c \in Way(path), Len(c) = i + 1
      PROVE  i < Len(path) /\ c = UpTo(path, i + 1)
  <2>1. Len(c) \in 1 .. Len(path) /\ c = UpTo(path, Len(c))
    BY <1>1, OnWay
  <2> QED
    BY <1>1, <1>5, <2>1
<1>6. ASSUME i < Len(path) PROVE UpTo(path, i + 1) \in ChildNodes(t, UpTo(path, i))
  <2> DEFINE c == UpTo(path, i + 1)
  <2>1. i + 1 \in 1 .. Len(path)
    BY <1>1, <1>6
  <2>2. c \in NodePath /\ Len(c) = i + 1 /\ c \in Way(path)
    BY <1>1, <2>1, UpToIs
  <2> HIDE DEF c
  <2>3. UpTo(path, i) \in Way(c)
    BY <1>1, <1>3, <2>2, Ways
  <2>4. UpTo(c, i) = UpTo(path, i)
    BY <1>3, <2>2, <2>3, OnWay
  <2> QED
    BY <1>1, <1>4, <2>2, <2>4 DEF c
<1> QED
  BY <1>2, <1>4, <1>5, <1>6

\* Delete takes the route out, and of the way to it what leads to no other route.
LEMMA DeleteKeeps ==
    ASSUME NEW t, TrieOK(t), NEW path \in DOMAIN t.pool
    PROVE  LET u == Delete(t, path)
           IN  /\ TrieOK(u) /\ DOMAIN u.pool = DOMAIN t.pool \ {path}
               /\ \A x \in DOMAIN u.pool : u.pool[x] = t.pool[x]
<1> DEFINE routes == DOMAIN t.pool \ {path}
           s == NoPool(t, path)
           keeps(i) == \/ UpTo(path, i) \in DOMAIN s.pool
                       \/ Cardinality(ChildNodes(s, UpTo(path, i))) > 1
           K == {0} \cup {i \in 1 .. Len(path) : keeps(i)}
           kept == Max(K)
           u == Delete(t, path)
<1>1. /\ path \in NodePath /\ Len(path) \in Nat \ {0} /\ routes \in SUBSET NodePath
      /\ t.nodes = WaysTo(routes \cup {path})
  <2>1. routes \cup {path} = DOMAIN t.pool
    OBVIOUS
  <2>2. path \in NodePath /\ routes \in SUBSET NodePath /\ t.nodes = WaysTo(DOMAIN t.pool)
    BY DEF TrieOK
  <2>3. Len(path) \in Nat \ {0}
    BY <2>2 DEF NodePath
  <2> QED
    BY <2>1, <2>2, <2>3, ZenonT(30)
<1>2. /\ s.nodes = t.nodes /\ DOMAIN s.pool = routes /\ \A x \in routes : s.pool[x] = t.pool[x]
      /\ s = [nodes |-> s.nodes, pool |-> s.pool] /\ s.pool = [x \in DOMAIN s.pool |-> s.pool[x]]
  BY DEF TrieOK, Drop, NoPool
<1>3. u = IF isLeaf(s, path) THEN Without(s, Subtree(s, UpTo(path, kept + 1))) ELSE s
  BY DEF Delete, deleteEmptyNodes, NoPool
<1> HIDE DEF u
<1>4. \A n : ChildNodes(s, n) = ChildNodes(t, n)
  BY <1>2 DEF ChildNodes
<1>5. UpTo(path, Len(path)) = path
  <2>1. path \in Way(path)
    BY <1>1, Ways
  <2> QED
    BY <1>1, <2>1, OnWay
<1>6. CASE ~isLeaf(s, path)
  <2>1. PICK c \in t.nodes : Len(c) = Len(path) + 1 /\ UpTo(c, Len(path)) = path
    BY <1>4, <1>6 DEF isLeaf, ChildNodes
  <2>2. PICK r \in DOMAIN t.pool : c \in Way(r)
    BY <2>1 DEF TrieOK, WaysTo
  <2>3. r \in NodePath /\ c \in NodePath /\ Len(c) \in 1 .. Len(r) /\ Len(r) \in Nat
    BY <2>2, OnWay DEF TrieOK, NodePath
  <2>4. r # path /\ Len(path) \in 1 .. Len(c)
    BY <1>1, <2>1, <2>3
  <2>5. path \in Way(c)
    BY <2>1, <2>3, <2>4, UpToIs
  <2>6. Way(path) \subseteq Way(r)
    BY <1>1, <2>2, <2>3, <2>5, Ways
  <2>7. t.nodes = WaysTo(routes)
    BY <1>1, <2>2, <2>4, <2>6 DEF WaysTo
  <2>8. IsFiniteSet(routes) /\ IsFiniteSet(t.nodes)
    BY FS_Subset DEF TrieOK
  <2>9. u = s
    BY <1>3, <1>6
  <2>10. TrieOK(s)
    BY <1>1, <1>2, <2>7, <2>8 DEF TrieOK
  <2> QED
    BY <1>2, <2>9, <2>10 DEF u
<1>7. CASE isLeaf(s, path)
  <2>1. kept \in K /\ \A i \in K : i <= kept
    <3>1. K \in SUBSET (0 .. Len(path)) /\ K # {}
      BY <1>1
    <3> HIDE DEF K
    <3> QED
      BY <1>1, <3>1, MaxOf, ZenonT(30)
  <2>a. \A i : i \in K <=> i = 0 \/ (i \in 1 .. Len(path) /\ keeps(i))
    OBVIOUS
  <2> HIDE DEF kept, K
  <2>2. ASSUME NEW i \in 1 .. Len(path) PROVE keeps(i) <=> Needed(routes, t.nodes, path, i)
    <3> DEFINE C == ChildNodes(t, UpTo(path, i))
    <3>1. /\ \A c \in C : c \in t.nodes /\ Len(c) = i + 1 /\ UpTo(c, i) = UpTo(path, i)
                          /\ (c \in Way(path) => i < Len(path) /\ c = UpTo(path, i + 1))
          /\ \A c \in t.nodes : Len(c) = i + 1 /\ UpTo(c, i) = UpTo(path, i) => c \in C
          /\ i < Len(path) => UpTo(path, i + 1) \in C
      BY ChildOff
    <3>2. IsFiniteSet(C)
      BY FS_Subset DEF ChildNodes, TrieOK
    <3>3. Needed(routes, t.nodes, path, i) <=> UpTo(path, i) \in routes \/ \E c \in C : c \notin Way(path)
      BY <3>1 DEF Needed
    <3>4. keeps(i) <=> UpTo(path, i) \in routes \/ Cardinality(C) > 1
      BY <1>2, <1>4
    <3> HIDE DEF C, keeps
    <3>5. CASE i < Len(path)
      <4> DEFINE on == UpTo(path, i + 1)
      <4>1. on \in C /\ on \in Way(path) /\ \A c \in C : c \in Way(path) <=> c = on
        <5>1. i + 1 \in 1 .. Len(path)
          BY <1>1, <3>5
        <5>2. on \in Way(path)
          BY <1>1, <5>1, UpToIs
        <5> QED
          BY <3>1, <3>5, <5>2
      <4> HIDE DEF on
      <4>2. Cardinality(C) > 1 <=> \E c \in C : c # on
        <5>1. IsFiniteSet({on}) /\ Cardinality({on}) = 1 /\ {on} \subseteq C
          BY <4>1, FS_Singleton, ZenonT(30)
        <5>2. ASSUME NEW c \in C, c # on PROVE Cardinality(C) > 1
          <6>1. {on} # C
            BY <5>2
          <6>2. Cardinality({on}) <= Cardinality(C) /\ Cardinality({on}) # Cardinality(C)
            BY <3>2, <5>1, <6>1, FS_Subset
          <6>3. Cardinality(C) \in Nat
            BY <3>2, FS_CardinalityType
          <6> QED
            BY <5>1, <6>2, <6>3
        <5>3. ASSUME ~\E c \in C : c # on PROVE ~(Cardinality(C) > 1)
          <6>1. C = {on}
            BY <4>1, <5>3
          <6> QED
            BY <5>1, <6>1
        <5> QED
          BY <5>2, <5>3
      <4> QED
        BY <3>3, <3>4, <4>1, <4>2
    <3>6. CASE ~(i < Len(path))
      <4>1. i = Len(path)
        BY <1>1, <3>6
      <4>2. C = {}
        BY <1>4, <1>5, <1>7, <4>1 DEF isLeaf, C
      <4>3. Cardinality(C) = 0
        BY <4>2, FS_EmptySet
      <4> QED
        BY <3>3, <3>4, <4>2, <4>3
    <3> QED
      BY <3>5, <3>6
  <2> HIDE DEF keeps
  <2>3. kept \in 0 .. Len(path) /\ (kept > 0 => Needed(routes, t.nodes, path, kept))
    <3>1. kept = 0 \/ (kept \in 1 .. Len(path) /\ keeps(kept))
      BY <2>a, <2>1
    <3>2. CASE kept = 0
      BY <1>1, <3>2
    <3>3. CASE kept # 0
      <4>1. Needed(routes, t.nodes, path, kept)
        BY <2>2, <3>1, <3>3, ZenonT(30)
      <4> QED
        BY <1>1, <3>1, <3>3, <4>1
    <3> QED
      BY <3>2, <3>3
  <2>4. ASSUME NEW i \in kept + 1 .. Len(path) PROVE ~Needed(routes, t.nodes, path, i)
    <3>1. i \in 1 .. Len(path) /\ ~(i <= kept)
      BY <1>1, <2>3
    <3> QED
      BY <2>a, <2>1, <2>2, <3>1, ZenonT(30)
  <2>5. Leads(routes, path, kept)
    BY <1>1, <2>3, <2>4, LastNeeded, ZenonT(30)
  <2>6. kept < Len(path)
    <3>1. ~Needed(routes, t.nodes, path, Len(path))
      <4>1. path \notin routes
        OBVIOUS
      <4>2. ASSUME NEW c \in t.nodes, Len(c) = Len(path) + 1, UpTo(c, Len(path)) = path PROVE FALSE
        BY <1>4, <1>7, <4>2 DEF isLeaf, ChildNodes
      <4> QED
        BY <1>5, <4>1, <4>2 DEF Needed
    <3> QED
      BY <1>1, <2>3, <3>1
  <2> DEFINE cut == UpTo(path, kept + 1)
  <2>7. kept + 1 \in 1 .. Len(path) /\ cut \in NodePath /\ Len(cut) = kept + 1 /\ cut \in Way(path)
    <3>1. kept + 1 \in 1 .. Len(path)
      BY <1>1, <2>3, <2>6
    <3> QED
      BY <1>1, <3>1, UpToIs
  <2>8. cut \notin WaysTo(routes)
    <3>1. kept + 1 \in kept + 1 .. Len(path)
      BY <1>1, <2>3, <2>7
    <3> QED
      BY <2>5, <3>1, ZenonT(30) DEF Leads
  <2> HIDE DEF cut
  <2>9. Subtree(s, cut) = Branch(path, kept)
    <3>1. ASSUME NEW n \in Subtree(s, cut) PROVE n \in Branch(path, kept)
      <4>1. n \in t.nodes /\ Len(n) >= kept + 1 /\ UpTo(n, kept + 1) = cut
        BY <1>2, <2>7 DEF Subtree
      <4>2. PICK r \in routes \cup {path} : n \in Way(r)
        BY <1>1, <4>1 DEF WaysTo
      <4>3. r \in NodePath /\ n \in NodePath /\ Len(n) \in 1 .. Len(r) /\ n = UpTo(r, Len(n))
        BY <1>1, <4>2, OnWay
      <4>4. kept + 1 \in 1 .. Len(n)
        BY <2>7, <4>1, <4>3
      <4>5. cut \in Way(r)
        <5>1. cut \in Way(n)
          BY <4>1, <4>3, <4>4, UpToIs
        <5> QED
          BY <4>2, <4>3, <5>1, Ways
      <4>6. r = path
        BY <2>8, <4>2, <4>5 DEF WaysTo
      <4>7. Len(n) \in kept + 1 .. Len(path)
        BY <1>1, <2>3, <4>1, <4>3, <4>6
      <4> QED
        BY <4>3, <4>6, <4>7 DEF Branch
    <3>2. ASSUME NEW i \in kept + 1 .. Len(path) PROVE UpTo(path, i) \in Subtree(s, cut)
      <4>1. i \in 1 .. Len(path) /\ i >= kept + 1
        BY <1>1, <2>3
      <4> DEFINE n == UpTo(path, i)
      <4>2. n \in NodePath /\ Len(n) = i /\ n \in Way(path)
        BY <1>1, <4>1, UpToIs
      <4> HIDE DEF n
      <4>3. n \in t.nodes
        BY <1>1, <4>2 DEF WaysTo
      <4>4. cut \in Way(n)
        BY <1>1, <2>7, <4>1, <4>2, Ways
      <4>5. UpTo(n, kept + 1) = cut
        BY <2>7, <4>2, <4>4, OnWay
      <4> QED
        BY <1>2, <2>7, <4>1, <4>2, <4>3, <4>5 DEF Subtree, n
    <3> QED
      BY <3>1, <3>2 DEF Branch
  <2>10. u = Without(s, Branch(path, kept))
    BY <1>3, <1>7, <2>9 DEF cut
  <2>11. routes = DOMAIN t.pool \ {path}
         /\ u = Without(NoPool(t, path), Branch(path, kept))
    BY <2>10
  <2> HIDE DEF routes, s
  <2>12. /\ TrieOK(u) /\ DOMAIN u.pool = routes
         /\ \A x \in routes : u.pool[x] = t.pool[x]
    BY <2>3, <2>5, <2>11, CutKeeps
  <2> QED
    BY <2>12 DEF u, routes
<1> QED
  BY <1>6, <1>7

\* Snip leaves a node alone that has members, and else takes out its pool, and of the
\* way to it what leads to no other route.
LEMMA SnipKeeps ==
    ASSUME NEW t, TrieOK(t), NEW path \in DOMAIN t.pool
    PROVE  LET u == Snip(t, path)
           IN  /\ ~IsEmpty(t.pool[path]) => u = t
               /\ IsEmpty(t.pool[path]) =>
                     /\ TrieOK(u) /\ DOMAIN u.pool = DOMAIN t.pool \ {path}
                     /\ \A x \in DOMAIN u.pool : u.pool[x] = t.pool[x]
<1> DEFINE s == IF IsEmpty(t.pool[path]) THEN NoPool(t, path) ELSE t
           stays(i) == \/ UpTo(path, i) \in DOMAIN s.pool
                       \/ ChildNodes(s, UpTo(path, i)) \ Way(path) # {}
                       \/ i = Len(path) /\ ~isLeaf(s, path)
           T == {0} \cup {i \in 1 .. Len(path) : stays(i)}
           top == Max(T)
           u == Snip(t, path)
<1>1. u = Without(s, Branch(path, top))
  BY DEF Snip, Branch, NoPool
<1> HIDE DEF u
<1>2. path \in NodePath /\ Len(path) \in Nat \ {0}
  <2>1. path \in NodePath
    BY DEF TrieOK
  <2> QED
    BY <2>1 DEF NodePath
<1>3. top \in T /\ \A i \in T : i <= top
  <2>1. T \in SUBSET (0 .. Len(path)) /\ T # {}
    BY <1>2
  <2> HIDE DEF T
  <2> QED
    BY <1>2, <2>1, MaxOf, ZenonT(30)
<1>4. \A i : i \in T <=> i = 0 \/ (i \in 1 .. Len(path) /\ stays(i))
  OBVIOUS
<1> HIDE DEF top, T
<1>5. UpTo(path, Len(path)) = path
  <2>1. path \in Way(path)
    BY <1>2, Ways
  <2> QED
    BY <1>2, <2>1, OnWay
<1>6. CASE ~IsEmpty(t.pool[path])
  <2>1. s = t
    BY <1>6
  <2>2. Len(path) \in T
    BY <1>2, <1>4, <1>5, <2>1
  <2>3. top = Len(path)
    BY <1>2, <1>3, <1>4, <2>2
  <2>4. Branch(path, top) = {}
    BY <1>2, <2>3 DEF Branch
  <2> HIDE DEF s
  <2>5. u = Without(t, {})
    BY <1>1, <2>1, <2>4
  <2>6. Without(t, {}) = t
    BY DEF Without, Only, TrieOK
  <2> QED
    BY <1>6, <2>5, <2>6 DEF u
<1>7. CASE IsEmpty(t.pool[path])
  <2> DEFINE routes == DOMAIN t.pool \ {path}
  <2>1. s = NoPool(t, path)
    BY <1>7
  <2>2. routes \in SUBSET NodePath /\ t.nodes = WaysTo(routes \cup {path})
    <3>1. routes \cup {path} = DOMAIN t.pool
      OBVIOUS
    <3> QED
      BY <3>1 DEF TrieOK
  <2> HIDE DEF s
  <2>3. s.nodes = t.nodes /\ DOMAIN s.pool = routes
    BY <2>1 DEF TrieOK, Drop, NoPool
  <2>4. \A n : ChildNodes(s, n) = ChildNodes(t, n)
    BY <2>3 DEF ChildNodes
  <2>5. ASSUME NEW i \in 1 .. Len(path) PROVE stays(i) <=> Needed(routes, t.nodes, path, i)
    <3> DEFINE C == ChildNodes(t, UpTo(path, i))
    <3>1. /\ \A c \in C : c \in t.nodes /\ Len(c) = i + 1 /\ UpTo(c, i) = UpTo(path, i)
                          /\ (c \in Way(path) => i < Len(path))
          /\ \A c \in t.nodes : Len(c) = i + 1 /\ UpTo(c, i) = UpTo(path, i) => c \in C
      BY ChildOff
    <3>2. Needed(routes, t.nodes, path, i) <=> UpTo(path, i) \in routes \/ \E c \in C : c \notin Way(path)
      BY <3>1 DEF Needed
    <3>3. stays(i) <=> \/ UpTo(path, i) \in routes
                       \/ \E c \in C : c \notin Way(path)
                       \/ i = Len(path) /\ ~isLeaf(s, path)
      BY <2>3, <2>4
    <3>4. ASSUME i = Len(path), ~isLeaf(s, path) PROVE \E c \in C : c \notin Way(path)
      <4>1. PICK c : c \in C
        BY <1>5, <2>4, <3>4 DEF isLeaf
      <4>2. c \notin Way(path)
        BY <1>2, <3>1, <3>4, <4>1
      <4> QED
        BY <4>1, <4>2
    <3> HIDE DEF C, stays
    <3> QED
      BY <3>2, <3>3, <3>4
  <2> HIDE DEF stays
  <2>6. top \in 0 .. Len(path) /\ (top > 0 => Needed(routes, t.nodes, path, top))
    <3>1. top = 0 \/ (top \in 1 .. Len(path) /\ stays(top))
      BY <1>3, <1>4
    <3>2. CASE top = 0
      BY <1>2, <3>2
    <3>3. CASE top # 0
      <4>1. Needed(routes, t.nodes, path, top)
        BY <2>5, <3>1, <3>3, ZenonT(30)
      <4> QED
        BY <1>2, <3>1, <3>3, <4>1
    <3> QED
      BY <3>2, <3>3
  <2>7. ASSUME NEW i \in top + 1 .. Len(path) PROVE ~Needed(routes, t.nodes, path, i)
    <3>1. i \in 1 .. Len(path) /\ ~(i <= top)
      BY <1>2, <2>6
    <3> QED
      BY <1>3, <1>4, <2>5, <3>1, ZenonT(30)
  <2>8. Leads(routes, path, top)
    BY <1>2, <2>2, <2>6, <2>7, LastNeeded, ZenonT(30)
  <2>9. routes = DOMAIN t.pool \ {path}
    OBVIOUS
  <2> HIDE DEF routes
  <2>10. TrieOK(u) /\ DOMAIN u.pool = routes /\ \A x \in routes : u.pool[x] = t.pool[x]
    BY <1>1, <2>1, <2>6, <2>8, <2>9, CutKeeps
  <2> QED
    BY <1>7, <2>9, <2>10 DEF u
<1> QED
  BY <1>6, <1>7
=============================================================================
