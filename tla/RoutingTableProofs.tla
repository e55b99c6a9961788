------------------------- MODULE RoutingTableProofs -------------------------
(***************************************************************************)
(* The routing table's theorems, for any ports, backends, tags and ttls:   *)
(* its type, the agreement with the router, no empty entries, and tags     *)
(* that never go back.  The conjunction of the first three is inductive;   *)
(* nothing is used of expired, so they hold whatever pruning takes for     *)
(* stale.  The last part is about the fetcher that feeds the table: its    *)
(* type, and that all it does to the table are operations of the table.    *)
(* The theorems about the table use no assumption of the fetcher's.        *)
(***************************************************************************)
EXTENDS TCPFetcher, TLAPS

TableInv == TableTypeOK /\ TableAgrees /\ NoEmptyEntries

\* A map with a key is not the empty map.
LEMMA NotEmpty ==
    ASSUME NEW m, NEW k \in DOMAIN m
    PROVE  m # EmptyMap
  BY DEF EmptyMap

\* A map without a key is the empty map.
LEMMA NoKeys ==
    ASSUME NEW K, NEW V, NEW m, IsMap(m, K, V), m # EmptyMap
    PROVE  DOMAIN m # {}
  BY DEF EmptyMap, IsMap

\* What a backend is stored with is well typed.
LEMMA DetailsType ==
    ASSUME NEW info \in BackendServerInfo
    PROVE  Details(info) \in BackendServerDetails
  BY TableAssumption DEF BackendServerInfo, Details, BackendServerDetails

\* Putting a well-typed value keeps a map well typed.
LEMMA PutType ==
    ASSUME NEW K, NEW V, NEW m, IsMap(m, K, V), NEW k \in K, NEW v \in V
    PROVE  IsMap(Put(m, k, v), K, V)
  BY DEF IsMap, Put

\* The empty map is a map, whatever its keys and values.
LEMMA EmptyType ==
    ASSUME NEW K, NEW V
    PROVE  IsMap(EmptyMap, K, V)
  BY DEF IsMap, EmptyMap

\* The entry of a key, found or not, is well typed.
LEMMA EntryType ==
    ASSUME TableTypeOK, NEW key
    PROVE  IsMap(Entry(key), BackendServerKey, BackendServerDetails)
  BY EmptyType DEF Entry, TableTypeOK

\* A new table satisfies the invariant.
LEMMA InitInv == TableInit => TableInv
  <1>1. SUFFICES ASSUME TableInit PROVE TableInv
    OBVIOUS
  <1>2. DOMAIN entries = {} /\ told = {}
    BY <1>1 DEF TableInit, EmptyMap
  <1>3. Members = {}
    BY <1>2 DEF Members, Entry, EmptyMap
  <1>4. QED
    BY <1>2, <1>3 DEF TableInv, TableTypeOK, TableAgrees, NoEmptyEntries

\* Upserting stores the backend in its entry, or changes nothing.
LEMMA UpsertStep ==
    ASSUME TableInv, NEW key \in RoutingKey, NEW info \in BackendServerInfo,
           UpsertBackendServerKey(key, info)
    PROVE  TableInv'
  <1> DEFINE B == Put(Entry(key), info.backend, Details(info))
  <1>1. info.backend \in BackendServerKey
    BY DEF BackendServerInfo
  <1>2. CASE info.backend \in DOMAIN Entry(key) /\ entries' = entries
    <2>1. told' = told
      BY <1>2 DEF UpsertBackendServerKey
    <2>2. QED
      BY <1>2, <2>1
         DEF TableInv, TableTypeOK, TableAgrees, NoEmptyEntries, Members, Entry
  <1>3. CASE entries' = Put(entries, key, B)
    <2>1. /\ DOMAIN entries' = DOMAIN entries \cup {key}
          /\ entries'[key] = B
          /\ \A k \in DOMAIN entries : k # key => entries'[k] = entries[k]
      BY <1>3 DEF Put
    <2>2. IsMap(B, BackendServerKey, BackendServerDetails)
      BY <1>1, EntryType, DetailsType, PutType DEF TableInv
    <2>3. DOMAIN B = DOMAIN Entry(key) \cup {info.backend}
      BY DEF Put
    <2>4. told' = told \cup {<<key, info.backend>>}
      <3>1. CASE info.backend \in DOMAIN Entry(key)
        BY <1>1, <3>1
           DEF TableInv, TableAgrees, Members, UpsertBackendServerKey
      <3>2. CASE info.backend \notin DOMAIN Entry(key)
        BY <3>2 DEF UpsertBackendServerKey
      <3>3. QED
        BY <3>1, <3>2
    <2>5. TableTypeOK'
      <3>1. DOMAIN entries' \subseteq RoutingKey
        BY <2>1 DEF TableInv, TableTypeOK
      <3>2. ASSUME NEW k \in DOMAIN entries'
            PROVE  IsMap(entries'[k], BackendServerKey, BackendServerDetails)
        BY <2>1, <2>2 DEF TableInv, TableTypeOK
      <3>3. told' \subseteq RoutingKey \X BackendServerKey
        BY <1>1, <2>4 DEF TableInv, TableTypeOK
      <3>4. QED
        BY <3>1, <3>2, <3>3 DEF TableTypeOK
    <2>6. TableAgrees'
      <3>1. ASSUME NEW k \in RoutingKey
            PROVE  DOMAIN Entry(k)' = IF k = key THEN DOMAIN Entry(key) \cup {info.backend}
                                                 ELSE DOMAIN Entry(k)
        BY <2>1, <2>3 DEF Entry
      <3>2. Members' = Members \cup {<<key, info.backend>>}
        BY <1>1, <3>1 DEF Members
      <3>3. QED
        BY <2>4, <3>2 DEF TableInv, TableAgrees
    <2>7. NoEmptyEntries'
      <3>1. B # EmptyMap
        BY <2>3, NotEmpty
      <3>2. QED
        BY <2>1, <3>1 DEF TableInv, NoEmptyEntries
    <2>8. QED
      BY <2>5, <2>6, <2>7 DEF TableInv
  <1>4. QED
    BY <1>2, <1>3 DEF UpsertBackendServerKey, Entry, newRoutingTableEntry

\* Deleting takes the backend out of its entry, and an empty entry out of the
\* table.
LEMMA DeleteStep ==
    ASSUME TableInv, NEW key \in RoutingKey, NEW info \in BackendServerInfo,
           DeleteBackendServerKey(key, info)
    PROVE  TableInv'
  <1> DEFINE B == Drop(entries[key], info.backend)
  <1>1. CASE UNCHANGED vars
    BY <1>1 DEF TableInv, TableTypeOK, TableAgrees, NoEmptyEntries, Members,
                Entry, vars
  <1>2. CASE /\ info.backend \in DOMAIN Entry(key)
             /\ entries' = Stored(key, B)
             /\ told' = told \ {<<key, info.backend>>}
    <2>1. key \in DOMAIN entries /\ Entry(key) = entries[key]
      BY <1>2 DEF Entry, EmptyMap
    <2>2. DOMAIN B = DOMAIN Entry(key) \ {info.backend}
      BY <2>1 DEF Drop
    <2>3. IsMap(B, BackendServerKey, BackendServerDetails)
      BY <2>1 DEF TableInv, TableTypeOK, IsMap, Drop
    <2>4. /\ DOMAIN entries' \subseteq DOMAIN entries
          /\ DOMAIN entries \ {key} \subseteq DOMAIN entries'
          /\ \A k \in DOMAIN entries' : k # key => entries'[k] = entries[k]
          /\ key \in DOMAIN entries' => entries'[key] = B /\ B # EmptyMap
          /\ key \notin DOMAIN entries' => B = EmptyMap
      <3>1. CASE B = EmptyMap
        BY <1>2, <2>1, <3>1 DEF Stored, Drop
      <3>2. CASE B # EmptyMap
        BY <1>2, <2>1, <3>2 DEF Stored, Put
      <3>3. QED
        BY <3>1, <3>2
    <2>5. TableTypeOK'
      <3>1. ASSUME NEW k \in DOMAIN entries'
            PROVE  IsMap(entries'[k], BackendServerKey, BackendServerDetails)
        BY <2>3, <2>4 DEF TableInv, TableTypeOK
      <3>2. QED
        BY <1>2, <2>4, <3>1 DEF TableInv, TableTypeOK
    <2>6. TableAgrees'
      <3>1. ASSUME NEW k \in RoutingKey
            PROVE  DOMAIN Entry(k)' = IF k = key THEN DOMAIN Entry(key) \ {info.backend}
                                                 ELSE DOMAIN Entry(k)
        BY <2>2, <2>4 DEF Entry
      <3>2. Members' = Members \ {<<key, info.backend>>}
        BY <3>1 DEF Members
      <3>3. QED
        BY <1>2, <3>2 DEF TableInv, TableAgrees
    <2>7. NoEmptyEntries'
      BY <2>4 DEF TableInv, NoEmptyEntries
    <2>8. QED
      BY <2>5, <2>6, <2>7 DEF TableInv
  <1>3. QED
    BY <1>1, <1>2 DEF DeleteBackendServerKey

\* Pruning keeps of every entry what has not expired, and the entries of which
\* something is left.
LEMMA PruneStep ==
    ASSUME TableInv, pruneEntries
    PROVE  TableInv'
  <1> DEFINE kept(k) == DOMAIN entries[k] \ Expired(k)
  <1>1. /\ DOMAIN entries' = {k \in DOMAIN entries : kept(k) # {}}
        /\ \A k \in DOMAIN entries' : entries'[k] = Only(entries[k], kept(k))
        /\ told' = {m \in told : ~(m[1] \in DOMAIN entries /\ m[2] \in Expired(m[1]))}
    BY DEF pruneEntries
  <1>2. \A k \in DOMAIN entries' : DOMAIN entries'[k] = kept(k)
    BY <1>1 DEF Only
  <1>3. TableTypeOK'
    <2>1. ASSUME NEW k \in DOMAIN entries'
          PROVE  IsMap(entries'[k], BackendServerKey, BackendServerDetails)
      <3>1. /\ IsMap(entries[k], BackendServerKey, BackendServerDetails)
            /\ entries'[k] = Only(entries[k], kept(k))
        BY <1>1, <2>1 DEF TableInv, TableTypeOK
      <3>2. QED
        BY ONLY <3>1 DEF IsMap, Only
    <2>2. QED
      BY <1>1, <2>1 DEF TableInv, TableTypeOK
  <1>4. TableAgrees'
    <2>1. ASSUME NEW k \in RoutingKey
          PROVE  DOMAIN Entry(k)' = {b \in DOMAIN Entry(k) :
                                       ~(k \in DOMAIN entries /\ b \in Expired(k))}
      <3>1. CASE k \in DOMAIN entries'
        BY <1>1, <1>2, <3>1 DEF Entry
      <3>2. CASE k \in DOMAIN entries /\ k \notin DOMAIN entries'
        BY <1>1, <3>2 DEF Entry, EmptyMap
      <3>3. CASE k \notin DOMAIN entries
        BY <1>1, <3>3 DEF Entry, EmptyMap
      <3>4. QED
        BY <3>1, <3>2, <3>3
    <2>2. Members' = {m \in Members : ~(m[1] \in DOMAIN entries /\ m[2] \in Expired(m[1]))}
      BY <2>1 DEF Members
    <2>3. QED
      BY <1>1, <2>2 DEF TableInv, TableAgrees
  <1>5. NoEmptyEntries'
    BY <1>1, <1>2, NotEmpty DEF NoEmptyEntries
  <1>6. QED
    BY <1>3, <1>4, <1>5 DEF TableInv

\* A tick changes ages only.
LEMMA TickStep ==
    ASSUME TableInv, Tick
    PROVE  TableInv'
  <1>1. /\ DOMAIN entries' = DOMAIN entries
        /\ \A k \in DOMAIN entries : DOMAIN entries'[k] = DOMAIN entries[k]
        /\ told' = told
    BY DEF Tick
  <1>2. TableTypeOK'
    <2>1. ASSUME NEW d \in BackendServerDetails
          PROVE  Older(d) \in BackendServerDetails
      BY <2>1, TableAssumption DEF Older, BackendServerDetails
    <2>2. ASSUME NEW k \in DOMAIN entries
          PROVE  IsMap(entries'[k], BackendServerKey, BackendServerDetails)
      <3>1. /\ IsMap(entries[k], BackendServerKey, BackendServerDetails)
            /\ entries'[k] = [b \in DOMAIN entries[k] |-> Older(entries[k][b])]
        BY <2>2 DEF TableInv, TableTypeOK, Tick
      <3>2. QED
        BY ONLY <2>1, <3>1 DEF IsMap
    <2>3. QED
      BY <1>1, <2>2 DEF TableInv, TableTypeOK
  <1>3. TableAgrees'
    <2>1. ASSUME NEW k \in RoutingKey
          PROVE  DOMAIN Entry(k)' = DOMAIN Entry(k)
      BY <1>1 DEF Entry
    <2>2. QED
      BY <1>1, <2>1 DEF TableInv, TableAgrees, Members
  <1>4. NoEmptyEntries'
    <2>1. ASSUME NEW k \in DOMAIN entries
          PROVE  entries'[k] # EmptyMap
      <3>1. DOMAIN entries[k] # {}
        BY <2>1, NoKeys DEF TableInv, TableTypeOK, NoEmptyEntries
      <3>2. QED
        BY <1>1, <3>1, NotEmpty
    <2>2. QED
      BY <1>1, <2>1 DEF NoEmptyEntries
  <1>5. QED
    BY <1>2, <1>3, <1>4 DEF TableInv

\* Every operation of the table preserves the invariant.
LEMMA InductiveInv == TableInv /\ [TableNext]_vars => TableInv'
  <1>1. SUFFICES ASSUME TableInv, [TableNext]_vars PROVE TableInv'
    OBVIOUS
  <1>2. CASE UNCHANGED vars
    BY <1>1, <1>2 DEF TableInv, TableTypeOK, TableAgrees, NoEmptyEntries,
                      Members, Entry, vars
  <1>3. CASE TableNext
    BY <1>1, <1>3, UpsertStep, DeleteStep, PruneStep, TickStep DEF TableNext
  <1>4. QED
    BY <1>1, <1>2, <1>3

\* So the invariant always holds.
LEMMA TableInvariant == TableSpec => []TableInv
  BY InitInv, InductiveInv, PTL DEF TableSpec

\* The table is well typed, for any ports, backends, tags and ttls.
THEOREM TableTypeCorrect == TableSpec => []TableTypeOK
  BY TableInvariant, PTL DEF TableInv

\* The updates sent to the router always add up to the table's backends.
THEOREM TableAgreement == TableSpec => []TableAgrees
  BY TableInvariant, PTL DEF TableInv

\* No operation of the table leaves a route without a backend behind.
THEOREM TableNoEmptyEntries == TableSpec => []NoEmptyEntries
  BY TableInvariant, PTL DEF TableInv

\* No step replaces a backend's tag by an older one.
LEMMA TagsStep == TableInv /\ [TableNext]_vars => [BackendTagsKept]_vars
  <1>1. SUFFICES ASSUME TableInv, TableNext, ~UNCHANGED vars,
                        NEW k \in DOMAIN entries \cap DOMAIN entries',
                        NEW c \in DOMAIN entries[k] \cap DOMAIN entries'[k],
                        entries[k][c].tag.guid = entries'[k][c].tag.guid,
                        entries[k][c].tag.guid # ""
                 PROVE  entries[k][c].tag.index <= entries'[k][c].tag.index
    BY DEF BackendTagsKept
  <1>2. entries[k][c] \in BackendServerDetails /\ entries[k][c].tag.index \in Nat
    BY <1>1, TableAssumption DEF TableInv, TableTypeOK, IsMap, BackendServerDetails
  <1> DEFINE Newer == /\ SucceededBy(entries[k][c].tag, entries'[k][c].tag)
                      /\ entries'[k][c].tag.index \in Nat
             Goal == entries'[k][c].tag = entries[k][c].tag \/ Newer
  <1>3. SUFFICES Goal
    <2>1. CASE entries'[k][c].tag = entries[k][c].tag
      <3>1. entries'[k][c].tag.index = entries[k][c].tag.index
        BY <2>1
      <3>2. QED
        BY <1>2, <3>1
    <2>2. CASE Newer
      <3>1. entries[k][c].tag.index < entries'[k][c].tag.index
        BY <1>1, <2>2 DEF SucceededBy
      <3>2. QED
        BY <1>2, <2>2, <3>1
    <2>3. QED
      BY <1>3, <2>1, <2>2
  <1>4. ASSUME NEW key \in RoutingKey, NEW info \in BackendServerInfo,
               UpsertBackendServerKey(key, info)
        PROVE  Goal
    <2>1. info.tag.index \in Nat
      BY TableAssumption DEF BackendServerInfo
    <2>2. CASE entries' = entries
      BY <2>2
    <2>3. CASE k # key
      BY <1>1, <1>4, <2>3 DEF UpsertBackendServerKey, Put
    <2>4. CASE k = key /\ entries' # entries
      <3>1. /\ c # info.backend => entries'[k][c] = entries[k][c]
            /\ c = info.backend => entries'[k][c] = Details(info)
            /\ c = info.backend => SucceededBy(entries[k][c].tag, info.tag)
        BY <1>1, <1>4, <2>4 DEF UpsertBackendServerKey, Put, Entry
      <3>2. QED
        BY <2>1, <3>1 DEF Details
    <2>5. QED
      BY <2>2, <2>3, <2>4
  <1>5. ASSUME NEW key \in RoutingKey, NEW info \in BackendServerInfo,
               DeleteBackendServerKey(key, info)
        PROVE  Goal
    <2>1. entries' = Stored(key, Drop(entries[key], info.backend))
      BY <1>1, <1>5 DEF DeleteBackendServerKey
    <2>2. CASE Drop(entries[key], info.backend) = EmptyMap
      BY <1>1, <2>1, <2>2 DEF Stored, Drop
    <2>3. CASE Drop(entries[key], info.backend) # EmptyMap
      <3>1. entries' = Put(entries, key, Drop(entries[key], info.backend))
        BY <2>1, <2>3 DEF Stored
      <3>2. entries'[k][c] = entries[k][c]
        BY <1>1, <3>1 DEF Put, Drop
      <3>3. QED
        BY <3>2
    <2>4. QED
      BY <2>2, <2>3
  <1>6. CASE pruneEntries
    BY <1>1, <1>6 DEF pruneEntries, Only
  <1>7. CASE Tick
    BY <1>1, <1>2, <1>7 DEF Tick, Older, BackendServerDetails
  <1>8. QED
    BY <1>1, <1>4, <1>5, <1>6, <1>7 DEF TableNext

\* While a backend stays in the table its tag never goes back.
THEOREM TableTags == TableSpec => BackendTagsNeverGoBack
  BY TableInvariant, TagsStep, PTL DEF TableSpec, BackendTagsNeverGoBack

\* The members are the backends of the entries.
LEMMA MembersOf ==
    ASSUME NEW k \in RoutingKey, NEW c \in BackendServerKey
    PROVE  <<k, c>> \in Members <=> k \in DOMAIN entries /\ c \in DOMAIN entries[k]
  BY DEF Members, Entry, EmptyMap

\* The store compares tags as the table does.
LEMMA SameOrder ==
    ASSUME NEW a, NEW b
    PROVE  Store!SucceededBy(a, b) <=> SucceededBy(a, b)
  BY Zenon DEF Store!SucceededBy, SucceededBy

\* A new table is a new store.
LEMMA StoreInit == TableInit => Store!Init
  <1>1. SUFFICES ASSUME TableInit PROVE Store!Init
    OBVIOUS
  <1>2. Members = {}
    BY <1>1 DEF TableInit, Members, Entry, EmptyMap
  <1>3. MemberTags = EmptyMap
    BY <1>2 DEF MemberTags, EmptyMap
  <1>4. QED
    BY <1>1, <1>3 DEF Store!Init, TableInit, Store!EmptyMap, EmptyMap

\* An upsert announces the backend, renews it or is refused.
LEMMA UpsertStores ==
    ASSUME TableInv, NEW key \in RoutingKey, NEW info \in BackendServerInfo,
           UpsertBackendServerKey(key, info)
    PROVE  Store!Next
  <1> DEFINE m == <<key, info.backend>>
  <1>1. info.backend \in BackendServerKey /\ info.tag \in Tag
    BY DEF BackendServerInfo
  <1>2. CASE entries' = entries /\ told' = told
    <2>1. MemberTags' = MemberTags
      BY <1>2 DEF MemberTags, Members, Entry
    <2>2. QED
      BY <1>2, <2>1 DEF Store!Next, Store!Refuse
  <1>3. CASE entries' = Put(entries, key, Put(Entry(key), info.backend, Details(info)))
    <2>1. /\ DOMAIN entries' = DOMAIN entries \cup {key}
          /\ entries'[key] = Put(Entry(key), info.backend, Details(info))
          /\ \A k \in DOMAIN entries : k # key => entries'[k] = entries[k]
      BY <1>3 DEF Put
    <2>2. Members' = Members \cup {m}
      BY <1>1, <2>1 DEF Members, Entry, Put, EmptyMap
    <2>3. ASSUME NEW n \in Members'
          PROVE  entries'[n[1]][n[2]].tag = IF n = m THEN info.tag
                                                      ELSE entries[n[1]][n[2]].tag
      <3>1. PICK k \in RoutingKey, c \in BackendServerKey : n = <<k, c>>
        BY DEF Members
      <3>2. CASE n = m
        BY <2>1, <3>1, <3>2 DEF Put, Details
      <3>3. CASE n # m
        BY <1>1, <2>1, <2>2, <3>1, <3>3, MembersOf DEF Put, Entry
      <3>4. QED
        BY <3>2, <3>3
    <2>4. MemberTags' = Put(MemberTags, m, info.tag)
      BY <2>2, <2>3 DEF MemberTags, Put
    <2>5. CASE info.backend \in DOMAIN Entry(key)
      <3>1. m \in Members /\ told' = told
        BY <1>1, <2>5 DEF Members, UpsertBackendServerKey
      <3>2. m \in told /\ m \in DOMAIN MemberTags
        BY <3>1 DEF TableInv, TableAgrees, MemberTags
      <3>3. key \in DOMAIN entries /\ info.backend \in DOMAIN entries[key]
        BY <2>5 DEF Entry, EmptyMap
      <3>4. MemberTags[m] = entries[key][info.backend].tag
        BY <3>1 DEF MemberTags
      <3>5. SucceededBy(entries[key][info.backend].tag, info.tag) \/ entries' = entries
        BY <2>5, <3>3 DEF UpsertBackendServerKey
      <3>6. CASE entries' = entries
        BY <1>2, <3>1, <3>6
      <3>7. CASE SucceededBy(entries[key][info.backend].tag, info.tag)
        <4>1. Store!Renew(m)
          BY <1>1, <2>4, <3>1, <3>2, <3>4, <3>7, SameOrder DEF Store!Renew, Store!Put, Put
        <4>2. QED
          BY <3>2, <4>1 DEF Store!Next
      <3>8. QED
        BY <3>5, <3>6, <3>7
    <2>6. CASE info.backend \notin DOMAIN Entry(key)
      <3>1. m \notin Members /\ told' = told \cup {m}
        BY <2>6 DEF Members, UpsertBackendServerKey
      <3>2. Store!Announce(m)
        BY <1>1, <2>4, <3>1 DEF Store!Announce, MemberTags, Store!Put, Put
      <3>3. QED
        BY <1>1, <3>2 DEF Store!Next
    <2>7. QED
      BY <2>5, <2>6
  <1>4. QED
    BY <1>2, <1>3 DEF UpsertBackendServerKey, Entry, newRoutingTableEntry

\* If some members go, and the others keep their tags, then the store withdraws
\* the ones that went.
LEMMA GoneStores ==
    ASSUME NEW gone \in SUBSET told, TableInv, told' = told \ gone,
           Members' = Members \ gone,
           \A m \in Members' : entries'[m[1]][m[2]].tag = entries[m[1]][m[2]].tag
    PROVE  Store!Next
  <1>1. MemberTags' = Store!Only(MemberTags, DOMAIN MemberTags \ gone)
    BY DEF MemberTags, Store!Only
  <1>2. QED
    BY <1>1 DEF Store!Next, Store!Withdraw

\* A delete withdraws the backend or is refused.
LEMMA DeleteStores ==
    ASSUME TableInv, NEW key \in RoutingKey, NEW info \in BackendServerInfo,
           DeleteBackendServerKey(key, info)
    PROVE  Store!Next
  <1> DEFINE m == <<key, info.backend>>
             B == Drop(entries[key], info.backend)
  <1>1. CASE UNCHANGED vars
    BY <1>1 DEF Store!Next, Store!Refuse, MemberTags, Members, Entry, vars
  <1>2. CASE /\ info.backend \in DOMAIN Entry(key)
             /\ entries' = Stored(key, B)
             /\ told' = told \ {m}
    <2>1. key \in DOMAIN entries /\ info.backend \in DOMAIN entries[key]
      BY <1>2 DEF Entry, EmptyMap
    <2>2. info.backend \in BackendServerKey
      BY DEF BackendServerInfo
    <2>3. m \in told
      BY <2>1, <2>2, MembersOf DEF TableInv, TableAgrees
    <2>4. /\ \A k \in DOMAIN entries' : k \in DOMAIN entries
          /\ \A k \in DOMAIN entries' : k # key => entries'[k] = entries[k]
          /\ key \in DOMAIN entries' => entries'[key] = B
      <3>1. CASE B = EmptyMap
        BY <1>2, <2>1, <3>1 DEF Stored, Drop
      <3>2. CASE B # EmptyMap
        BY <1>2, <2>1, <3>2 DEF Stored, Put
      <3>3. QED
        BY <3>1, <3>2
    <2>5. Members' = Members \ {m}
      <3>1. TableInv'
        BY DeleteStep
      <3>2. QED
        BY <1>2, <3>1 DEF TableInv, TableAgrees
    <2>6. ASSUME NEW n \in Members'
          PROVE  entries'[n[1]][n[2]].tag = entries[n[1]][n[2]].tag
      <3>1. PICK k \in RoutingKey, c \in BackendServerKey : n = <<k, c>>
        BY DEF Members
      <3>2. k \in DOMAIN entries' /\ c \in DOMAIN entries'[k]
        BY <3>1 DEF Members, Entry, EmptyMap
      <3>3. CASE k = key
        BY <2>4, <3>1, <3>2, <3>3 DEF Drop
      <3>4. CASE k # key
        BY <2>4, <3>1, <3>2, <3>4
      <3>5. QED
        BY <3>3, <3>4
    <2>7. QED
      BY <1>2, <2>3, <2>5, <2>6, GoneStores
  <1>3. QED
    BY <1>1, <1>2 DEF DeleteBackendServerKey

\* Pruning withdraws what has expired.
LEMMA PruneStores ==
    ASSUME TableInv, pruneEntries
    PROVE  Store!Next
  <1> DEFINE gone == told \ told'
  <1>1. told' \subseteq told
    BY DEF pruneEntries
  <1>2. told' = told \ gone /\ gone \in SUBSET told
    BY <1>1
  <1>3. Members' = Members \ gone
    BY <1>1, PruneStep DEF TableInv, TableAgrees
  <1>4. ASSUME NEW n \in Members'
        PROVE  entries'[n[1]][n[2]].tag = entries[n[1]][n[2]].tag
    <2>1. PICK k \in RoutingKey, c \in BackendServerKey : n = <<k, c>>
      BY DEF Members
    <2>2. k \in DOMAIN entries' /\ c \in DOMAIN entries'[k]
      BY <2>1 DEF Members, Entry, EmptyMap
    <2>3. entries'[k][c] = entries[k][c]
      BY <2>2 DEF pruneEntries, Only
    <2>4. QED
      BY <2>1, <2>3
  <1>5. QED
    BY <1>2, <1>3, <1>4, GoneStores

\* Time passes without the store noticing.
LEMMA TickStores ==
    ASSUME TableInv, Tick
    PROVE  Store!Next
  <1>1. told' = told /\ Members' = Members
    BY TickStep DEF Tick, TableInv, TableAgrees
  <1>2. ASSUME NEW n \in Members
        PROVE  entries'[n[1]][n[2]].tag = entries[n[1]][n[2]].tag
    <2>1. PICK k \in RoutingKey, c \in BackendServerKey : n = <<k, c>>
      BY DEF Members
    <2>2. /\ k \in DOMAIN entries /\ c \in DOMAIN entries[k]
          /\ entries[k][c] \in BackendServerDetails
      BY <2>1, MembersOf DEF TableInv, TableTypeOK, IsMap
    <2>3. entries'[k][c] = Older(entries[k][c])
      BY <2>2 DEF Tick
    <2>4. QED
      BY <2>1, <2>2, <2>3 DEF Older, BackendServerDetails
  <1>3. MemberTags' = MemberTags
    BY <1>1, <1>2 DEF MemberTags
  <1>4. QED
    BY <1>1, <1>3 DEF Store!Next, Store!Refuse

\* To its feeders and to the router the table is a RouteStore.
THEOREM TableImplementsStore == TableSpec => TableIsStore
  <1>1. TableInv /\ [TableNext]_vars => [Store!Next]_<<MemberTags, told>>
    <2>1. SUFFICES ASSUME TableInv, [TableNext]_vars
                   PROVE  [Store!Next]_<<MemberTags, told>>
      OBVIOUS
    <2>2. CASE UNCHANGED vars
      BY <2>2 DEF MemberTags, Members, Entry, vars
    <2>3. CASE TableNext
      BY <2>1, <2>3, UpsertStores, DeleteStores, PruneStores, TickStores DEF TableNext
    <2>4. QED
      BY <2>1, <2>2, <2>3
  <1>2. QED
    BY <1>1, StoreInit, TableInvariant, PTL DEF TableSpec, TableIsStore, Store!Spec
-----------------------------------------------------------------------------
(***************************************************************************)
(* The fetcher of TCP routes, for any routes, guids and channel sizes      *)
(***************************************************************************)

Event == [action : {"Upsert", "Delete"}, route : Route, tag : VersionTag]

Snapshot == UNION {[S -> VersionTag] : S \in SUBSET Route}

\* The API hands out each guid once and counts up from index 0, so that no index
\* outgrows the changes made since.
TagsIssued ==
    \A r \in DOMAIN api : \E i \in 1 .. changes :
        api[r].guid = Guid[i] /\ api[r].index \in 0 .. changes - i

ApiOK == api \in Snapshot /\ changes \in 0 .. Len(Guid) /\ TagsIssued

\* The events on their way to HandleEvent: in the stream, in the hand of the
\* event goroutine and in the channel.
EventsOK ==
    /\ stream \in [open : BOOLEAN, events : Seq(Event)] /\ Len(stream.events) <= MaxEvents
    /\ pc["events"] = "send" => held \in Event
    /\ eventChannel \in Seq(Event) /\ Len(eventChannel) <= ChannelSize

WorkOK ==
    /\ endpoints \in Snapshot
    /\ work \in [Goroutine -> [snapshot : Snapshot, calls : SUBSET (Route \X VersionTag)]]

RunLabel == {"select", "fetch", "diff", "delete", "range", "upsert", "stopped"}

EventsLabel == {"token", "subscribe", "fetch", "diff", "delete", "range", "upsert",
                "store", "next", "send", "stopped"}

ControlOK ==
    /\ pc \in [Goroutine -> RunLabel \cup EventsLabel]
    /\ pc["run"] \in RunLabel /\ pc["events"] \in EventsLabel
    /\ accepted \in BOOLEAN /\ forceUpdate \in BOOLEAN /\ stopEventSource \in BOOLEAN
    /\ eventSource \in {"none", "current", "old"}

FetcherInv == ApiOK /\ EventsOK /\ WorkOK /\ ControlOK

\* A snapshot is a map of routes to tags;
LEMMA SnapshotIsMap ==
    ASSUME NEW m
    PROVE  m \in Snapshot <=> IsMap(m, Route, VersionTag)
<1>1. ASSUME m \in Snapshot PROVE IsMap(m, Route, VersionTag)
  <2>1. PICK S \in SUBSET Route : m \in [S -> VersionTag]
    BY <1>1 DEF Snapshot
  <2> QED
    BY <2>1 DEF IsMap
<1>2. ASSUME IsMap(m, Route, VersionTag) PROVE m \in Snapshot
  <2>1. DOMAIN m \in SUBSET Route /\ m \in [DOMAIN m -> VersionTag]
    BY <1>2 DEF IsMap
  <2> QED
    BY <2>1, Zenon DEF Snapshot
<1> QED
  BY <1>1, <1>2

\* it is one still when a route is set,
LEMMA SnapshotPut ==
    ASSUME NEW m \in Snapshot, NEW r \in Route, NEW tag \in VersionTag
    PROVE  Put(m, r, tag) \in Snapshot
  BY SnapshotIsMap, PutType

\* or deleted;
LEMMA SnapshotDrop ==
    ASSUME NEW m \in Snapshot, NEW r
    PROVE  Drop(m, r) \in Snapshot
<1>1. IsMap(Drop(m, r), Route, VersionTag)
  BY SnapshotIsMap DEF Drop, IsMap
<1> QED
  BY <1>1, SnapshotIsMap

\* and its rows are routes with tags.
LEMMA SnapshotRows ==
    ASSUME NEW m \in Snapshot, NEW S
    PROVE  Rows(m, S) \in SUBSET (Route \X VersionTag)
<1>1. IsMap(m, Route, VersionTag)
  BY SnapshotIsMap
<1> QED
  BY <1>1 DEF Rows, IsMap

\* A tag that counts the changes since its guid was issued is a version tag.
LEMMA IssuedTag ==
    ASSUME NEW i \in 1 .. Len(Guid), NEW k \in 0 .. Len(Guid) - i
    PROVE  [guid |-> Guid[i], index |-> k] \in VersionTag
<1>1. i \in DOMAIN Guid
  BY FetcherAssumption
<1>2. [guid |-> Guid[i], index |-> k] \in [guid : {Guid[i]}, index : 0 .. Len(Guid) - i]
  OBVIOUS
<1> QED
  BY <1>1, <1>2, Zenon DEF VersionTag

\* The tag that the API gives the route it creates or changes.
NewTag(r) == IF r \in DOMAIN api THEN [api[r] EXCEPT !.index = @ + 1]
                                 ELSE [guid |-> Guid[changes + 1], index |-> 0]

\* It is a version tag, and counts the changes as the others do.
LEMMA NewTagIssued ==
    ASSUME ApiOK, NEW r \in Route, changes < Len(Guid)
    PROVE  /\ NewTag(r) \in VersionTag
           /\ \E i \in 1 .. changes + 1 :
                 NewTag(r).guid = Guid[i] /\ NewTag(r).index \in 0 .. changes + 1 - i
<1>1. Len(Guid) \in Nat /\ changes \in 0 .. Len(Guid)
  BY FetcherAssumption DEF ApiOK
<1>2. PICK i \in 1 .. changes + 1, k \in Nat :
         k <= changes + 1 - i /\ NewTag(r) = [guid |-> Guid[i], index |-> k]
  <2>1. CASE r \notin DOMAIN api
    <3>1. changes + 1 \in 1 .. changes + 1 /\ 0 <= changes + 1 - (changes + 1)
      BY <1>1
    <3> QED
      BY <2>1, <3>1 DEF NewTag
  <2>2. CASE r \in DOMAIN api
    <3>1. PICK i \in 1 .. changes : api[r].guid = Guid[i] /\ api[r].index \in 0 .. changes - i
      BY <2>2 DEF ApiOK, TagsIssued
    <3>2. api[r] \in VersionTag
      BY <2>2, SnapshotIsMap DEF ApiOK, IsMap
    <3>3. NewTag(r) = [guid |-> Guid[i], index |-> api[r].index + 1]
      BY <2>2, <3>1, <3>2 DEF NewTag, VersionTag
    <3>4. /\ i \in 1 .. changes + 1
          /\ api[r].index + 1 \in Nat /\ api[r].index + 1 <= changes + 1 - i
      BY <1>1, <3>1
    <3> QED
      BY <3>3, <3>4
  <2> QED
    BY <2>1, <2>2
<1>3. i \in 1 .. Len(Guid) /\ k \in 0 .. Len(Guid) - i
  BY <1>1, <1>2
<1>4. NewTag(r) \in VersionTag
  BY <1>2, <1>3, IssuedTag
<1>5. NewTag(r).guid = Guid[i] /\ NewTag(r).index \in 0 .. changes + 1 - i
  BY <1>1, <1>2
<1> QED
  BY <1>4, <1>5

\* The fetcher's part of a step of FetcherNext
FetcherStep ==
    \/ ControlSteps
    \/ \E g \in Goroutine : \E row : Call(g, "delete", row) \/ Call(g, "upsert", row)
    \/ ReceiveEvent
    \/ UNCHANGED fetcherVars

\* A step of FetcherNext, or one that changes nothing, is one of the fetcher's.
LEMMA StepOfFetcher == [FetcherNext]_allVars => FetcherStep
  BY DEF FetcherNext, FetcherStep, deleteTCPEndpoints, refreshTCPEndpoints, HandleEvent, allVars

\* Only the API changes its routes, and it tells whoever listens.
LEMMA ApiKept ==
    ASSUME FetcherInv, FetcherStep
    PROVE  ApiOK'
<1> USE DEF FetcherInv
<1>1. CASE UNCHANGED <<api, changes>>
  BY <1>1 DEF ApiOK, TagsIssued
<1>2. ASSUME NEW r \in Route, ApiUpserts(r) PROVE ApiOK'
  <2>1. changes < Len(Guid) /\ changes' = changes + 1 /\ api' = Put(api, r, NewTag(r))
    BY <1>2 DEF ApiUpserts, Changed, NewTag
  <2>2. /\ NewTag(r) \in VersionTag
        /\ \E i \in 1 .. changes + 1 :
              NewTag(r).guid = Guid[i] /\ NewTag(r).index \in 0 .. changes + 1 - i
    BY <2>1, NewTagIssued
  <2>3. api' \in Snapshot
    BY <2>1, <2>2, SnapshotPut DEF ApiOK
  <2>4. changes \in Nat /\ Len(Guid) \in Nat /\ changes' \in 0 .. Len(Guid)
    BY <2>1, FetcherAssumption DEF ApiOK
  <2>5. ASSUME NEW x \in DOMAIN api'
        PROVE  \E i \in 1 .. changes' :
                  api'[x].guid = Guid[i] /\ api'[x].index \in 0 .. changes' - i
    <3>1. CASE x = r
      <4>1. api'[x] = NewTag(r)
        BY <2>1, <3>1 DEF Put
      <4>2. PICK i \in 1 .. changes + 1 :
               NewTag(r).guid = Guid[i] /\ NewTag(r).index \in 0 .. changes + 1 - i
        BY <2>2
      <4>3. i \in 1 .. changes' /\ NewTag(r).index \in 0 .. changes' - i
        BY <2>1, <2>4, <4>2
      <4> QED
        BY <4>1, <4>2, <4>3
    <3>2. CASE x # r
      <4>1. x \in DOMAIN api /\ api'[x] = api[x]
        BY <2>1, <3>2 DEF Put
      <4>2. PICK i \in 1 .. changes : api[x].guid = Guid[i] /\ api[x].index \in 0 .. changes - i
        BY <4>1 DEF ApiOK, TagsIssued
      <4>3. i \in 1 .. changes' /\ api[x].index \in 0 .. changes' - i
        BY <2>1, <2>4, <4>2
      <4> QED
        BY <4>1, <4>2, <4>3
    <3> QED
      BY <3>1, <3>2
  <2> QED
    BY <2>3, <2>4, <2>5 DEF ApiOK, TagsIssued
<1>3. ASSUME NEW r \in Route, ApiDeletes(r) PROVE ApiOK'
  <2>1. changes < Len(Guid) /\ changes' = changes + 1 /\ api' = Drop(api, r)
    BY <1>3 DEF ApiDeletes, Changed
  <2>2. api' \in Snapshot
    BY <2>1, SnapshotDrop DEF ApiOK
  <2>3. changes \in Nat /\ Len(Guid) \in Nat /\ changes' \in 0 .. Len(Guid)
    BY <2>1, FetcherAssumption DEF ApiOK
  <2>4. ASSUME NEW x \in DOMAIN api'
        PROVE  \E i \in 1 .. changes' :
                  api'[x].guid = Guid[i] /\ api'[x].index \in 0 .. changes' - i
    <3>1. x \in DOMAIN api /\ api'[x] = api[x]
      BY <2>1 DEF Drop
    <3>2. PICK i \in 1 .. changes : api[x].guid = Guid[i] /\ api[x].index \in 0 .. changes - i
      BY <3>1 DEF ApiOK, TagsIssued
    <3>3. i \in 1 .. changes' /\ api[x].index \in 0 .. changes' - i
      BY <2>1, <2>3, <3>2
    <3> QED
      BY <3>1, <3>2, <3>3
  <2> QED
    BY <2>2, <2>3, <2>4 DEF ApiOK, TagsIssued
<1>4. ASSUME NEW g \in Goroutine, FetchSteps(g) PROVE UNCHANGED <<api, changes>>
  BY <1>4 DEF FetchSteps, FetchRoutesFails, FetchRoutesReturns, deleteEndpointsDiff,
              endpointsAssigned, endpointsRange, FetchRoutesDone, apiVars
<1>5. ASSUME EventSteps PROVE UNCHANGED <<api, changes>>
  BY <1>5 DEF EventSteps, FetchToken, SubscribeFails, Subscribe, StoreSource, NextEvent,
              SendEvent, apiVars
<1>6. ASSUME Poll \/ Signalled \/ ReceiveEvent \/ StreamBreaks \/ TokenExpires
      PROVE  UNCHANGED <<api, changes>>
  BY <1>6 DEF Poll, Signalled, ReceiveEvent, StreamBreaks, TokenExpires, apiVars
<1>7. ASSUME NEW g \in Goroutine, NEW row, NEW label, Call(g, label, row)
      PROVE  UNCHANGED <<api, changes>>
  BY <1>7 DEF Call, apiVars
<1>8. ASSUME UNCHANGED fetcherVars PROVE UNCHANGED <<api, changes>>
  BY <1>8 DEF fetcherVars, apiVars
<1> QED
  BY <1>1, <1>2, <1>3, <1>4, <1>5, <1>6, <1>7, <1>8 DEF FetcherStep, ControlSteps, ApiSteps

\* What a goroutine's Goto does to the labels.
LEMMA GotoIs ==
    ASSUME ControlOK, NEW g \in Goroutine, NEW label, Goto(g, label)
    PROVE  /\ pc'[g] = label /\ DOMAIN pc' = Goroutine
           /\ \A h \in Goroutine : h # g => pc'[h] = pc[h]
  BY DEF ControlOK, Goto

\* The labels stay labels of the goroutine that moved.
LEMMA LabelsKept ==
    ASSUME ControlOK, NEW g \in Goroutine, NEW label, Goto(g, label),
           label \in IF g = "run" THEN RunLabel ELSE EventsLabel,
           accepted' \in BOOLEAN, forceUpdate' \in BOOLEAN, stopEventSource' \in BOOLEAN,
           eventSource' \in {"none", "current", "old"}
    PROVE  ControlOK'
<1>1. /\ pc'[g] = label /\ pc' = [pc EXCEPT ![g] = label]
      /\ \A h \in Goroutine : h # g => pc'[h] = pc[h]
  BY GotoIs DEF Goto
<1>2. pc["run"] \in RunLabel /\ pc["events"] \in EventsLabel
  BY DEF ControlOK
<1>3. pc'["run"] \in RunLabel /\ pc'["events"] \in EventsLabel
  BY <1>1, <1>2 DEF Goroutine
<1>4. pc' \in [Goroutine -> RunLabel \cup EventsLabel]
  BY <1>1 DEF ControlOK
<1> QED
  BY <1>3, <1>4 DEF ControlOK

\* The goroutines stay at labels of their own.
LEMMA ControlKept ==
    ASSUME FetcherInv, FetcherStep
    PROVE  ControlOK'
<1>0. ControlOK
  BY DEF FetcherInv
<1>t. /\ accepted \in BOOLEAN /\ forceUpdate \in BOOLEAN /\ stopEventSource \in BOOLEAN
      /\ eventSource \in {"none", "current", "old"}
  BY <1>0 DEF ControlOK
<1>1. CASE UNCHANGED <<pc, tokenVars, eventSource, stopEventSource>>
  BY <1>0, <1>1 DEF ControlOK, tokenVars
<1>2. ASSUME NEW g \in Goroutine, FetchSteps(g) PROVE ControlOK'
  <2>1. /\ \E label \in {"diff", "delete", "range", "upsert", Returned(g)} : Goto(g, label)
        /\ accepted' \in {accepted, TRUE} /\ UNCHANGED <<forceUpdate, eventSource, stopEventSource>>
    BY <1>2 DEF FetchSteps, FetchRoutesFails, FetchRoutesReturns, deleteEndpointsDiff,
                endpointsAssigned, endpointsRange, FetchRoutesDone, tokenVars, eventVars
  <2>2. {"diff", "delete", "range", "upsert", Returned(g)}
           \subseteq IF g = "run" THEN RunLabel ELSE EventsLabel
    BY DEF Returned, RunLabel, EventsLabel
  <2>3. PICK label \in IF g = "run" THEN RunLabel ELSE EventsLabel : Goto(g, label)
    BY <2>1, <2>2
  <2> QED
    BY <1>0, <1>t, <2>1, <2>3, LabelsKept
<1>3. ASSUME EventSteps PROVE ControlOK'
  <2>1. PICK label \in {"token", "subscribe", "fetch", "next", "send", "stopped"} :
           Goto("events", label)
    BY <1>3 DEF EventSteps, FetchToken, SubscribeFails, Subscribe, StoreSource, NextEvent,
                SendEvent, Again
  <2>2. /\ accepted' \in BOOLEAN /\ forceUpdate' \in BOOLEAN /\ stopEventSource' \in BOOLEAN
        /\ eventSource' \in {"none", "current", "old"}
    BY <1>t, <1>3 DEF EventSteps, FetchToken, SubscribeFails, Subscribe, StoreSource, NextEvent,
                      SendEvent, tokenVars, eventVars
  <2>3. "events" \in Goroutine /\ label \in IF "events" = "run" THEN RunLabel ELSE EventsLabel
    BY <2>1 DEF Goroutine, EventsLabel
  <2> QED
    BY <1>0, <2>1, <2>2, <2>3, LabelsKept
<1>4. ASSUME Poll \/ Signalled PROVE ControlOK'
  <2>1. PICK label \in {"fetch", "stopped"} : Goto("run", label)
    BY <1>4 DEF Poll, Signalled
  <2>2. /\ accepted' \in BOOLEAN /\ forceUpdate' \in BOOLEAN /\ stopEventSource' \in BOOLEAN
        /\ eventSource' \in {"none", "current", "old"}
    BY <1>t, <1>4 DEF Poll, Signalled, tokenVars, eventVars
  <2>3. "run" \in Goroutine /\ label \in IF "run" = "run" THEN RunLabel ELSE EventsLabel
    BY <2>1 DEF Goroutine, RunLabel
  <2> QED
    BY <1>0, <2>1, <2>2, <2>3, LabelsKept
<1>5. ASSUME ApiSteps PROVE ControlOK'
  <2>1. /\ UNCHANGED <<pc, forceUpdate, eventSource, stopEventSource>>
        /\ accepted' \in BOOLEAN
    BY <1>t, <1>5 DEF ApiSteps, ApiUpserts, ApiDeletes, Changed, StreamBreaks, TokenExpires,
                      tokenVars, eventVars
  <2> QED
    BY <1>0, <2>1 DEF ControlOK
<1>6. ASSUME ReceiveEvent PROVE UNCHANGED <<pc, tokenVars, eventSource, stopEventSource>>
  BY <1>6 DEF ReceiveEvent
<1>7. ASSUME NEW g \in Goroutine, NEW row, NEW label, Call(g, label, row)
      PROVE  UNCHANGED <<pc, tokenVars, eventSource, stopEventSource>>
  BY <1>7 DEF Call, eventVars
<1>8. ASSUME UNCHANGED fetcherVars PROVE UNCHANGED <<pc, tokenVars, eventSource, stopEventSource>>
  BY <1>8 DEF fetcherVars, runVars, eventVars, tokenVars
<1> QED
  BY <1>1, <1>2, <1>3, <1>4, <1>5, <1>6, <1>7, <1>8 DEF FetcherStep, ControlSteps

\* The goroutines work on routes with tags of the API.
LEMMA WorkKept ==
    ASSUME FetcherInv, FetcherStep
    PROVE  WorkOK'
<1>0. WorkOK /\ api \in Snapshot
  BY DEF FetcherInv, ApiOK
<1>1. CASE UNCHANGED fetchVars
  BY <1>0, <1>1 DEF WorkOK, fetchVars
<1>2. ASSUME NEW g \in Goroutine, FetchSteps(g) PROVE WorkOK'
  <2>1. CASE FetchRoutesReturns(g)
    BY <1>0, <2>1 DEF WorkOK, FetchRoutesReturns
  <2>2. CASE deleteEndpointsDiff(g)
    <3>1. Rows(endpoints, Route \ DOMAIN work[g].snapshot) \in SUBSET (Route \X VersionTag)
      BY <1>0, SnapshotRows DEF WorkOK
    <3> QED
      BY <1>0, <2>2, <3>1 DEF WorkOK, deleteEndpointsDiff
  <2>3. CASE endpointsAssigned(g)
    <3>1. Idle \in [snapshot : Snapshot, calls : SUBSET (Route \X VersionTag)]
      BY SnapshotIsMap, EmptyType DEF Idle
    <3> QED
      BY <1>0, <2>3, <3>1 DEF WorkOK, endpointsAssigned
  <2>4. CASE endpointsRange(g)
    <3>1. Rows(endpoints, Route) \in SUBSET (Route \X VersionTag)
      BY <1>0, SnapshotRows DEF WorkOK
    <3> QED
      BY <1>0, <2>4, <3>1 DEF WorkOK, endpointsRange
  <2> QED
    BY <1>1, <1>2, <2>1, <2>2, <2>3, <2>4 DEF FetchSteps, FetchRoutesFails, FetchRoutesDone
<1>3. ASSUME NEW g \in Goroutine, NEW row, NEW label, Call(g, label, row) PROVE WorkOK'
  BY <1>0, <1>3 DEF WorkOK, Call
<1>4. ASSUME EventSteps PROVE UNCHANGED fetchVars
  BY <1>4 DEF EventSteps, FetchToken, SubscribeFails, Subscribe, StoreSource, NextEvent, SendEvent
<1>5. ASSUME Poll \/ Signalled \/ ReceiveEvent PROVE UNCHANGED fetchVars
  BY <1>5 DEF Poll, Signalled, ReceiveEvent
<1>6. ASSUME ApiSteps PROVE UNCHANGED fetchVars
  BY <1>6 DEF ApiSteps, ApiUpserts, ApiDeletes, Changed, StreamBreaks, TokenExpires
<1>7. ASSUME UNCHANGED fetcherVars PROVE UNCHANGED fetchVars
  BY <1>7 DEF fetcherVars, runVars
<1> QED
  BY <1>1, <1>2, <1>3, <1>4, <1>5, <1>6, <1>7 DEF FetcherStep, ControlSteps

\* An event that the API emits is one of a route and its tag, and finds room.
LEMMA EmitKeeps ==
    ASSUME EventsOK, NEW action \in {"Upsert", "Delete"}, NEW r \in Route,
           NEW tag \in VersionTag, Emit(action, r, tag), UNCHANGED <<pc, held, eventChannel>>
    PROVE  EventsOK'
<1> DEFINE event == [action |-> action, route |-> r, tag |-> tag]
<1>1. event \in Event
  BY DEF Event
<1>2. /\ stream.open => Len(stream.events) < MaxEvents
      /\ stream' = IF stream.open THEN [stream EXCEPT !.events = Append(@, event)] ELSE stream
  BY DEF Emit
<1> HIDE DEF event
<1>3. stream \in [open : BOOLEAN, events : Seq(Event)] /\ Len(stream.events) <= MaxEvents
  BY DEF EventsOK
<1>4. stream' \in [open : BOOLEAN, events : Seq(Event)] /\ Len(stream'.events) <= MaxEvents
  <2>1. CASE stream.open
    <3>1. stream' = [stream EXCEPT !.events = Append(stream.events, event)]
      BY <1>2, <2>1
    <3>2. Append(stream.events, event) \in Seq(Event)
      BY <1>1, <1>3
    <3>3. Len(Append(stream.events, event)) <= MaxEvents
      BY <1>2, <1>3, <2>1, FetcherAssumption
    <3> QED
      BY <1>3, <3>1, <3>2, <3>3
  <2>2. CASE ~stream.open
    BY <1>2, <1>3, <2>2
  <2> QED
    BY <2>1, <2>2
<1> QED
  BY <1>4 DEF EventsOK

\* Nothing but events of the API travels to HandleEvent, and no more of them than
\* the stream and the channel hold.
LEMMA EventsKept ==
    ASSUME FetcherInv, FetcherStep
    PROVE  EventsOK'
<1>0. EventsOK /\ ControlOK
  BY DEF FetcherInv
<1>s. /\ stream \in [open : BOOLEAN, events : Seq(Event)] /\ Len(stream.events) <= MaxEvents
      /\ eventChannel \in Seq(Event) /\ Len(eventChannel) <= ChannelSize
  BY <1>0 DEF EventsOK
<1>n. NoStream \in [open : BOOLEAN, events : Seq(Event)] /\ Len(NoStream.events) <= MaxEvents
  BY FetcherAssumption DEF NoStream
<1>1. CASE UNCHANGED <<pc, stream, held, eventChannel>>
  BY <1>0, <1>1 DEF EventsOK
\* A step of a goroutine to another label than "send"
<1>2. ASSUME NEW g \in Goroutine, NEW label, Goto(g, label), g = "events" => label # "send",
             UNCHANGED <<held, eventChannel>>,
             stream' \in [open : BOOLEAN, events : Seq(Event)], Len(stream'.events) <= MaxEvents
      PROVE  EventsOK'
  <2>1. pc'["events"] = "send" => pc["events"] = "send"
    BY <1>0, <1>2, GotoIs DEF Goroutine
  <2> QED
    BY <1>0, <1>2, <2>1 DEF EventsOK
<1>3. ASSUME NEW g \in Goroutine, FetchSteps(g) PROVE EventsOK'
  <2>1. /\ \E label \in {"diff", "delete", "range", "upsert", Returned(g)} : Goto(g, label)
        /\ UNCHANGED <<stream, held, eventChannel>>
    BY <1>3 DEF FetchSteps, FetchRoutesFails, FetchRoutesReturns, deleteEndpointsDiff,
                endpointsAssigned, endpointsRange, FetchRoutesDone, apiVars, eventVars
  <2>2. Returned(g) # "send"
    BY DEF Returned
  <2>3. PICK label : Goto(g, label) /\ label # "send"
    BY <2>1, <2>2
  <2> QED
    BY <1>s, <1>2, <2>1, <2>3
<1>4. ASSUME FetchToken \/ SubscribeFails \/ Subscribe \/ StoreSource PROVE EventsOK'
  <2>1. PICK label \in {"token", "subscribe", "fetch", "next", "stopped"} : Goto("events", label)
    BY <1>4 DEF FetchToken, SubscribeFails, Subscribe, StoreSource, Again
  <2>2. /\ stream' \in {stream, [open |-> TRUE, events |-> <<>>]}
        /\ UNCHANGED <<held, eventChannel>>
    BY <1>4 DEF FetchToken, SubscribeFails, Subscribe, StoreSource, apiVars, eventVars
  <2>3. stream' \in [open : BOOLEAN, events : Seq(Event)] /\ Len(stream'.events) <= MaxEvents
    <3>1. CASE stream' = stream
      BY <1>s, <3>1
    <3>2. CASE stream' = [open |-> TRUE, events |-> <<>>]
      <4>1. stream'.events = <<>> /\ stream' \in [open : BOOLEAN, events : Seq(Event)]
        BY <3>2
      <4> QED
        BY <4>1, FetcherAssumption
    <3> QED
      BY <2>2, <3>1, <3>2
  <2> QED
    BY <1>2, <2>1, <2>2, <2>3 DEF Goroutine
<1>5. ASSUME NextEvent PROVE EventsOK'
  <2>1. CASE stream.open
    <3>1. /\ stream.events # <<>> /\ held' = Head(stream.events)
          /\ stream' = [stream EXCEPT !.events = Tail(stream.events)]
          /\ eventChannel' = eventChannel
      BY <1>5, <2>1 DEF NextEvent
    <3>2. /\ Head(stream.events) \in Event /\ Tail(stream.events) \in Seq(Event)
          /\ Len(Tail(stream.events)) <= MaxEvents
      BY <1>s, <3>1, FetcherAssumption
    <3>3. stream' \in [open : BOOLEAN, events : Seq(Event)] /\ Len(stream'.events) <= MaxEvents
      BY <1>s, <3>1, <3>2
    <3> QED
      BY <1>s, <3>1, <3>2, <3>3 DEF EventsOK
  <2>2. CASE ~stream.open
    <3>1. Goto("events", Again) /\ Again # "send" /\ UNCHANGED <<stream, held, eventChannel>>
      BY <1>5, <2>2 DEF NextEvent, Again
    <3> QED
      BY <1>s, <1>2, <3>1 DEF Goroutine
  <2> QED
    BY <2>1, <2>2
<1>6. ASSUME SendEvent PROVE EventsOK'
  <2>1. /\ pc["events"] = "send" /\ Len(eventChannel) < ChannelSize /\ Goto("events", "next")
        /\ eventChannel' = Append(eventChannel, held) /\ UNCHANGED stream
    BY <1>6 DEF SendEvent, apiVars
  <2>2. held \in Event
    BY <1>0, <2>1 DEF EventsOK
  <2>3. eventChannel' \in Seq(Event) /\ Len(eventChannel') <= ChannelSize
    BY <1>s, <2>1, <2>2, FetcherAssumption
  <2>4. pc'["events"] # "send"
    BY <1>0, <2>1, GotoIs DEF Goroutine
  <2> QED
    BY <1>s, <2>1, <2>3, <2>4 DEF EventsOK
<1>7. ASSUME Poll \/ Signalled PROVE EventsOK'
  <2>1. PICK label : Goto("run", label)
    BY <1>7 DEF Poll, Signalled
  <2>2. stream' \in {stream, NoStream} /\ UNCHANGED <<held, eventChannel>>
    BY <1>7 DEF Poll, Signalled, apiVars, eventVars
  <2> QED
    BY <1>s, <1>n, <1>2, <2>1, <2>2 DEF Goroutine
<1>8. ASSUME ReceiveEvent PROVE EventsOK'
  <2>1. eventChannel # <<>> /\ eventChannel' = Tail(eventChannel) /\ UNCHANGED <<pc, stream, held>>
    BY <1>8 DEF ReceiveEvent, apiVars
  <2>2. eventChannel' \in Seq(Event) /\ Len(eventChannel') <= ChannelSize
    BY <1>s, <2>1, FetcherAssumption
  <2> QED
    BY <1>0, <2>1, <2>2 DEF EventsOK
<1>9. ASSUME NEW r \in Route, ApiUpserts(r) PROVE EventsOK'
  <2>1. Emit("Upsert", r, NewTag(r)) /\ changes < Len(Guid) /\ UNCHANGED <<pc, held, eventChannel>>
    BY <1>9 DEF ApiUpserts, NewTag, Changed, eventVars
  <2>2. NewTag(r) \in VersionTag
    BY <2>1, NewTagIssued DEF FetcherInv
  <2> QED
    BY <1>0, <2>1, <2>2, EmitKeeps
<1>10. ASSUME NEW r \in Route, ApiDeletes(r) PROVE EventsOK'
  <2>1. /\ r \in DOMAIN api /\ Emit("Delete", r, api[r])
        /\ UNCHANGED <<pc, held, eventChannel>>
    BY <1>10 DEF ApiDeletes, Changed, eventVars
  <2>2. api[r] \in VersionTag
    BY <2>1, SnapshotIsMap DEF FetcherInv, ApiOK, IsMap
  <2> QED
    BY <1>0, <2>1, <2>2, EmitKeeps
<1>11. ASSUME StreamBreaks PROVE EventsOK'
  BY <1>0, <1>n, <1>11 DEF StreamBreaks, EventsOK, eventVars
<1>12. ASSUME TokenExpires PROVE UNCHANGED <<pc, stream, held, eventChannel>>
  BY <1>12 DEF TokenExpires, apiVars, eventVars
<1>13. ASSUME NEW g \in Goroutine, NEW row, NEW label, Call(g, label, row)
       PROVE  UNCHANGED <<pc, stream, held, eventChannel>>
  BY <1>13 DEF Call, apiVars, eventVars
<1>14. ASSUME UNCHANGED fetcherVars PROVE UNCHANGED <<pc, stream, held, eventChannel>>
  BY <1>14 DEF fetcherVars, runVars, apiVars, eventVars
<1> QED
  BY <1>1, <1>3, <1>4, <1>5, <1>6, <1>7, <1>8, <1>9, <1>10, <1>11, <1>12, <1>13, <1>14
  DEF FetcherStep, ControlSteps, EventSteps, ApiSteps

\* FetcherInv holds at the start
LEMMA FetcherStarts == TCPFetcherInit => FetcherInv
<1> SUFFICES ASSUME FetcherInit PROVE FetcherInv
  BY DEF TCPFetcherInit
<1>1. EmptyMap \in Snapshot /\ DOMAIN EmptyMap = {}
  BY SnapshotIsMap, EmptyType DEF EmptyMap
<1>2. ApiOK
  <2>1. api = EmptyMap /\ changes = 0 /\ Len(Guid) \in Nat
    BY FetcherAssumption DEF FetcherInit
  <2> QED
    BY <1>1, <2>1 DEF ApiOK, TagsIssued
<1>3. EventsOK
  <2>1. stream = NoStream /\ eventChannel = <<>> /\ pc["events"] = "token"
    BY DEF FetcherInit, Goroutine
  <2> QED
    BY <2>1, FetcherAssumption DEF EventsOK, NoStream
<1>4. WorkOK
  <2>1. Idle \in [snapshot : Snapshot, calls : SUBSET (Route \X VersionTag)]
    BY <1>1 DEF Idle
  <2>2. endpoints = EmptyMap /\ work = [g \in Goroutine |-> Idle]
    BY DEF FetcherInit
  <2> QED
    BY <1>1, <2>1, <2>2 DEF WorkOK
<1>5. ControlOK
  BY DEF FetcherInit, ControlOK, Goroutine, RunLabel, EventsLabel
<1> QED
  BY <1>2, <1>3, <1>4, <1>5 DEF FetcherInv

\* and in all states that follow.
LEMMA FetcherInvariant == FetcherSpec => []FetcherInv
<1>1. FetcherInv /\ [FetcherNext]_allVars => FetcherInv'
  <2> SUFFICES ASSUME FetcherInv, [FetcherNext]_allVars PROVE FetcherInv'
    OBVIOUS
  <2>1. FetcherStep
    BY StepOfFetcher
  <2>2. ApiOK' /\ EventsOK' /\ WorkOK' /\ ControlOK'
    BY <2>1, ApiKept, EventsKept, WorkKept, ControlKept
  <2> QED
    BY <2>2 DEF FetcherInv
<1> QED
  BY <1>1, FetcherStarts, PTL DEF FetcherSpec

\* The state of the fetcher is well typed: neither goroutine leaves its labels, each
\* snapshot and each call still to be made is of routes of the API under tags that
\* the API has issued, and the stream and the channel never hold more than they can
\* (Run, startEventCycle, FetchRoutes).
THEOREM FetcherTypeCorrect == FetcherSpec => []FetcherTypeOK
<1>1. FetcherInv => FetcherTypeOK
  <2> SUFFICES ASSUME FetcherInv PROVE FetcherTypeOK
    OBVIOUS
  <2>1. /\ IsMap(api, Route, VersionTag) /\ IsMap(endpoints, Route, VersionTag)
        /\ changes \in 0 .. Len(Guid)
    BY SnapshotIsMap DEF FetcherInv, ApiOK, WorkOK
  <2>2. /\ stream.open \in BOOLEAN /\ Len(stream.events) \in 0 .. MaxEvents
        /\ Len(eventChannel) \in 0 .. ChannelSize
    BY FetcherAssumption DEF FetcherInv, EventsOK
  <2>3. \A g \in Goroutine : /\ IsMap(work[g].snapshot, Route, VersionTag)
                             /\ work[g].calls \subseteq Route \X VersionTag
    BY SnapshotIsMap DEF FetcherInv, WorkOK
  <2>4. ControlOK
    BY DEF FetcherInv
  <2> QED
    BY <2>1, <2>2, <2>3, <2>4 DEF FetcherTypeOK, ControlOK, RunLabel, EventsLabel
<1> QED
  BY <1>1, FetcherInvariant, PTL
-----------------------------------------------------------------------------
\* A row of routes names a port, a backend, a tag and a ttl of the table.
LEMMA RowIsEntry ==
    ASSUME NEW row \in Route \X VersionTag
    PROVE  row[1][1] \in RoutingKey /\ toRoutingTableEntry(row) \in BackendServerInfo
<1>1. row[1] \in RoutingKey \X BackendServerKey /\ row[2] \in Tag /\ RouteTTL[row[1]] \in TTL
  BY TCPFetcherAssumption
<1> QED
  BY <1>1 DEF toRoutingTableEntry, BackendServerInfo

\* Whatever the two goroutines of the fetcher do, and in whatever order their calls
\* and the table's pruning come, the table sees nothing but its own operations on
\* ports, backends, tags and ttls that it knows: each step of the fetcher is a step
\* of the table or leaves it alone (deleteTCPEndpoints, refreshTCPEndpoints,
\* HandleEvent).
THEOREM FetcherImplementsTable == FetcherSpec => TableSpec
<1>1. TCPFetcherInit => TableInit
  BY DEF TCPFetcherInit
<1>2. FetcherInv /\ [FetcherNext]_allVars => [TableNext]_vars
  <2> SUFFICES ASSUME FetcherInv, [FetcherNext]_allVars PROVE [TableNext]_vars
    OBVIOUS
  <2>1. ASSUME NEW row \in Route \X VersionTag, Upsert(row) \/ Delete(row) PROVE TableNext
    BY <2>1, RowIsEntry DEF Upsert, Delete, TableNext
  <2>2. ASSUME NEW g \in Goroutine, NEW row \in work[g].calls PROVE row \in Route \X VersionTag
    BY <2>2 DEF FetcherInv, WorkOK
  <2>3. ASSUME HandleEvent PROVE TableNext
    <3>1. eventChannel # <<>> /\ eventChannel \in Seq(Event)
      BY <2>3 DEF HandleEvent, ReceiveEvent, FetcherInv, EventsOK
    <3>2. Head(eventChannel) \in Event
      BY <3>1
    <3>3. <<Head(eventChannel).route, Head(eventChannel).tag>> \in Route \X VersionTag
      BY <3>2 DEF Event
    <3> QED
      BY <2>1, <2>3, <3>3 DEF HandleEvent
  <2>4. CASE UNCHANGED vars
    BY <2>4
  <2> QED
    BY <2>1, <2>2, <2>3, <2>4
    DEF FetcherNext, deleteTCPEndpoints, refreshTCPEndpoints, allVars, TableNext
<1> QED
  BY <1>1, <1>2, FetcherInvariant, PTL DEF FetcherSpec, TableSpec

\* What is proved of the table therefore holds of the table that the fetcher feeds:
\* the router hears of every backend that comes or goes, exactly then, whatever
\* snapshots and events were lost, late or doubled.
THEOREM FetcherImplementsStore == FetcherSpec => TableIsStore
  BY FetcherImplementsTable, TableImplementsStore
=============================================================================
