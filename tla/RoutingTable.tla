---------------------------- MODULE RoutingTable ----------------------------
(***************************************************************************)
(* The table of TCP routes (routingtable/routingtable.go): for every route *)
(* port the backends that serve it, each with the modification tag and the *)
(* ttl it was last upserted with.  Every operation holds the table's lock  *)
(* from its first look at the entries to the update it sends to the        *)
(* router.                                                                 *)
(***************************************************************************)
EXTENDS Integers, Maps, ModificationTag

CONSTANTS
    RoutingKey,                  \* route ports
    BackendServerKey,            \* address and port of a backend
    Tag,                         \* modification tags, [guid, index] records
    TTL,                         \* ttls in seconds; 0 stands for no ttl
    pruneStaleDropletsInterval,  \* in seconds
    MaxAge                       \* bound: seconds after which ages stop growing

ASSUME TableAssumption ==
    /\ \A tag \in Tag : DOMAIN tag = {"guid", "index"} /\ tag.index \in Nat
    /\ TTL \subseteq Nat
    /\ pruneStaleDropletsInterval \in Nat \ {0}
    /\ MaxAge \in Nat
    /\ \A ttl \in TTL : ttl < MaxAge

BackendServerInfo == [backend : BackendServerKey, tag : Tag, ttl : TTL]

BackendServerDetails == [tag : Tag, ttl : TTL, age : 0 .. MaxAge]

VARIABLES
    entries,    \* RoutingKey -> BackendServerKey -> BackendServerDetails
    told        \* the members the updates sent so far leave the router with

vars == <<entries, told>>

TableInit == entries = EmptyMap /\ told = {}

\* Variant of Details that dates the update ahead of now.
DetailsAhead(info) == [tag |-> info.tag, ttl |-> info.ttl, age |-> -1]

Details(info) == [tag |-> info.tag, ttl |-> info.ttl, age |-> 0]

newRoutingTableEntry(info) == Put(EmptyMap, info.backend, Details(info))

\* The entry of a key, where an operation finds none.
Entry(key) == IF key \in DOMAIN entries THEN entries[key] ELSE EmptyMap

Members == {m \in RoutingKey \X BackendServerKey : m[2] \in DOMAIN Entry(m[1])}

\* A backend that is found is replaced by a newer state of itself, without a
\* word to the router: differentFrom is always false.  A state with the same tag
\* leaves it as it is, its age included.
UpsertBackendServerKey(key, info) ==
    LET found == info.backend \in DOMAIN Entry(key)
    IN  /\ entries' = IF key \notin DOMAIN entries
                      THEN Put(entries, key, newRoutingTableEntry(info))
                      ELSE IF found /\ ~SucceededBy(entries[key][info.backend].tag, info.tag)
                      THEN entries
                      ELSE Put(entries, key, Put(entries[key], info.backend, Details(info)))
        /\ told' = IF found THEN told ELSE told \cup {<<key, info.backend>>}

\* An entry is deleted with its last backend.
Stored(key, backends) ==
    IF backends = EmptyMap THEN Drop(entries, key) ELSE Put(entries, key, backends)

\* Variant of DeleteBackendServerKey that leaves empty entries behind.
DeleteBackendOnly(key, info) ==
    IF /\ info.backend \in DOMAIN Entry(key)
       /\ SameOrNewer(entries[key][info.backend].tag, info.tag)
    THEN /\ entries' = Put(entries, key, Drop(entries[key], info.backend))
         /\ told' = told \ {<<key, info.backend>>}
    ELSE UNCHANGED vars

DeleteBackendServerKey(key, info) ==
    IF /\ info.backend \in DOMAIN Entry(key)
       /\ SameOrNewer(entries[key][info.backend].tag, info.tag)
    THEN /\ entries' = Stored(key, Drop(entries[key], info.backend))
         /\ told' = told \ {<<key, info.backend>>}
    ELSE UNCHANGED vars

----------------------------------------------------------------------------
(***************************************************************************)
(* expired compares with time.Now().Add(-ttl * time.Second), a product of  *)
(* 64 bits.  The ttl of a backend is a plain number of seconds, but the    *)
(* default is a duration, in nanoseconds already: for an interval of d     *)
(* seconds the product is -(d * 10^18), modulo 2^64.  Its sign is its      *)
(* leading bit, computed here in four digits of 16 bits.                   *)
(***************************************************************************)
Digit == 65536

\* 10^18 = 16#0DE0B6B3A7640000, the lowest digit first
SecondSquared == <<0, 42852, 46771, 3552>>

\* The digits of d * 10^18 modulo 2^64, with the carry out of each
TimesSecondSquared(d) ==
    LET carry[i \in 0 .. 4] ==
          IF i = 0 THEN 0 ELSE (SecondSquared[i] * d + carry[i - 1]) \div Digit
    IN  [i \in 1 .. 4 |-> (SecondSquared[i] * d + carry[i - 1]) % Digit]

\* The leading digit of -(d * 10^18) modulo 2^64; below 2^30 seconds the lower
\* digits of the product are not all zero
NegatedLead(d) == Digit - 1 - TimesSecondSquared(d)[4]

\* A product that is not negative puts the expiry into the future, so that
\* every backend has passed it; a negative one puts it years back.
defaultExpired == NegatedLead(pruneStaleDropletsInterval) < Digit \div 2

\* Variant of expired with the operands of After exchanged.
expiredSwapped(details) ==
    IF details.ttl = 0 THEN ~defaultExpired ELSE details.age < details.ttl

expired(details) ==
    IF details.ttl = 0 THEN defaultExpired ELSE details.age > details.ttl

----------------------------------------------------------------------------
Expired(key) == {b \in DOMAIN entries[key] : expired(entries[key][b])}

\* Variant of pruneEntries that tells the router of one backend per route.
pruneEntriesTellOne ==
    LET kept(key) == DOMAIN entries[key] \ Expired(key)
    IN  /\ entries' = [key \in {k \in DOMAIN entries : kept(k) # {}} |->
                          Only(entries[key], kept(key))]
        /\ told' = told \ {<<key, CHOOSE b \in Expired(key) : TRUE>> :
                              key \in {k \in DOMAIN entries : Expired(k) # {}}}

pruneEntries ==
    LET kept(key) == DOMAIN entries[key] \ Expired(key)
    IN  /\ entries' = [key \in {k \in DOMAIN entries : kept(k) # {}} |->
                          Only(entries[key], kept(key))]
        /\ told' = {m \in told : ~(m[1] \in DOMAIN entries /\ m[2] \in Expired(m[1]))}

Older(details) ==
    [details EXCEPT !.age = IF @ < MaxAge THEN @ + 1 ELSE @]

Tick ==
    /\ entries' = [key \in DOMAIN entries |->
                     [b \in DOMAIN entries[key] |-> Older(entries[key][b])]]
    /\ UNCHANGED told

TableNext ==
    \/ \E key \in RoutingKey, info \in BackendServerInfo :
          \/ UpsertBackendServerKey(key, info)
          \/ DeleteBackendServerKey(key, info)
    \/ pruneEntries
    \/ Tick

TableSpec == TableInit /\ [][TableNext]_vars

\* Time passes, and the goroutine that StartPruningCycle starts never ends.
FairTableSpec == TableSpec /\ WF_vars(Tick) /\ WF_vars(pruneEntries)

----------------------------------------------------------------------------
TableTypeOK ==
    /\ DOMAIN entries \subseteq RoutingKey
    /\ \A key \in DOMAIN entries :
          IsMap(entries[key], BackendServerKey, BackendServerDetails)
    /\ told \subseteq RoutingKey \X BackendServerKey

\* The tag of each member.
MemberTags == [m \in Members |-> entries[m[1]][m[2]].tag]

Store == INSTANCE RouteStore
         WITH Member <- RoutingKey \X BackendServerKey, MemberTag <- Tag,
              tags <- MemberTags, heard <- told

\* To its feeders and to the router the table is a RouteStore: the router hears of
\* every backend that comes or goes exactly then, and a state of a backend only
\* gives way to a newer one, though upserts, deletes and pruning are told apart by
\* entries, ages and ttls inside (UpsertBackendServerKey, DeleteBackendServerKey,
\* pruneEntries).
TableIsStore == Store!Spec

\* The updates sent to the router add up to the backends the table has, though
\* an upsert speaks of new backends only (UpsertBackendServerKey, pruneEntries).
TableAgrees == told = Members

\* A route that the table still lists has a backend (NumberOfRoutes counts the
\* entries): deleting or pruning the last backend deletes the entry too.
NoEmptyEntries == \A key \in DOMAIN entries : entries[key] # EmptyMap

BackendTagsKept ==
    \A key \in DOMAIN entries \cap DOMAIN entries' :
       \A b \in DOMAIN entries[key] \cap DOMAIN entries'[key] :
          LET old == entries[key][b].tag
              new == entries'[key][b].tag
          IN  old.guid = new.guid /\ old.guid # "" => old.index <= new.index

\* While a backend stays in the table its tag never goes back: events and
\* snapshots that are late are skipped (UpsertBackendServerKey).
BackendTagsNeverGoBack == [][BackendTagsKept]_vars

\* A backend with a ttl that is not upserted any more goes in the end
\* (pruneEntries).
SilentBackendsGo ==
    \A key \in RoutingKey, b \in BackendServerKey :
       \/ []<>(b \notin DOMAIN Entry(key) \/ entries[key][b].ttl = 0)
       \/ []<><<\E info \in BackendServerInfo :
                   info.backend = b /\ UpsertBackendServerKey(key, info)>>_vars

\* What the comment on expired says: it "returns true if the backend has passed
\* it's ttl", which for a backend without one is the default.
ExpiredMeansPassed ==
    \A key \in DOMAIN entries : \A b \in DOMAIN entries[key] :
       LET details == entries[key][b]
       IN  expired(details) =>
             details.age > (IF details.ttl = 0 THEN pruneStaleDropletsInterval
                                               ELSE details.ttl)
=============================================================================
