------------------------------ MODULE Tier2VS ------------------------------
(***************************************************************************)
(* The tier-2 virtual servers of f5router.go: every HTTP route owns a      *)
(* virtual server whose destination ip:port the controller picks from the  *)
(* configured tier2_ip_range.  The choice is kept in an internal data      *)
(* group that survives on the BIG-IP, so that a restarted controller can   *)
(* give a route its old address back.                                      *)
(*                                                                         *)
(* The operations are the parts of the route handlers that touch           *)
(* virtualResources (destinations), internalDataGroup and tier2VSInfo.     *)
(* All of them run on the one worker goroutine of the F5Router, so each is *)
(* atomic.  Module F5Router conjoins them with the rest of each handler.   *)
(***************************************************************************)
EXTENDS Integers, Sequences, Maps

CONSTANTS
    Name,              \* names of tier-2 virtual servers (and data group keys)
    FirstIP, LastIP,   \* tier2_ip_range, as the integers from its network
                       \* address to its last address
    MinPort, MaxPort,  \* 10000 and 65535 in the code
    CachedDataGroups   \* the data groups a starting controller may find on
                       \* the BIG-IP, whoever wrote them

\* va.String(): an address is an ip and a port.  The records of a data group
\* may come from another configuration, so neither is bounded.
Address == Int \X Int

ASSUME Tier2Assumption ==
    /\ FirstIP \in Int /\ LastIP \in Int /\ FirstIP <= LastIP
    /\ MinPort \in Int /\ MaxPort \in Int /\ MinPort <= MaxPort
    /\ IsFiniteSet(Name)
    /\ \A dg \in CachedDataGroups : IsMap(dg, Name, Address)

VARIABLES
    virtuals,           \* virtualResources: name -> destination
    internalDataGroup,  \* name -> recorded address
    usedPorts,          \* tier2VSInfo.usedPorts
    reapedPorts,        \* tier2VSInfo.reapedPorts
    holder,             \* <<holderIP, holderPort>>
    firstSyncDone,
    recycled            \* history: the addresses truncateInternalDataGroup has
                        \* moved to reapedPorts since the last start

tier2Vars == <<virtuals, internalDataGroup, usedPorts, reapedPorts, holder,
               firstSyncDone, recycled>>

\* The addresses the allocator may hand out.
Pool == (FirstIP .. LastIP) \X (MinPort .. MaxPort)

\* What ipNet.Contains and the port comparison of processCachedDataGroup accept.
InRange(a) == a[1] \in FirstIP .. LastIP /\ a[2] <= MaxPort

Tier2TypeOK ==
    /\ IsMap(virtuals, Name, Address)
    /\ IsMap(internalDataGroup, Name, Address)
    /\ usedPorts \in SUBSET Address /\ IsFiniteSet(usedPorts)
    /\ reapedPorts \in Seq(Address)
    /\ holder \in Pool
    /\ firstSyncDone \in BOOLEAN
    /\ recycled \in SUBSET Address
-----------------------------------------------------------------------------
(***************************************************************************)
(* getAvailableVirtualAddress                                              *)
(***************************************************************************)

\* Delete from a slice: the last element takes the first one's place.
SwapOutFirst(s) ==
    [i \in 1 .. Len(s) - 1 |-> IF i = 1 THEN s[Len(s)] ELSE s[i]]

\* The addresses the search starting at holder h looks up in usedPorts.  It
\* looks at h, walks up to MaxPort, and goes on with the next ip; there the
\* port is reset to MinPort but incremented before the next lookup.
Candidates(h) ==
    {a \in Pool : \/ a = h
                  \/ a[1] = h[1] /\ a[2] > h[2]
                  \/ a[1] > h[1] /\ a[2] > MinPort}

Before(a, b) == a[1] < b[1] \/ (a[1] = b[1] /\ a[2] < b[2])

\* A new record and a new virtual server for n, with destination va.
Record(n, va) ==
    /\ internalDataGroup' = Put(internalDataGroup, n, va)
    /\ virtuals' = Put(virtuals, n, va)

\* A reaped address is used first; usedPorts is not told.
takeReaped(n) ==
    /\ reapedPorts # <<>>
    /\ Record(n, Head(reapedPorts))
    /\ reapedPorts' = SwapOutFirst(reapedPorts)
    /\ UNCHANGED <<usedPorts, holder>>

\* The first of the addresses S.
IsFirst(a, S) == a \in S /\ \A b \in S \ {a} : Before(a, b)

\* Variant of takeNext that does not look at usedPorts.
takeNextUnchecked(n) ==
    /\ reapedPorts = <<>>
    /\ \E va \in Candidates(holder) :
          /\ IsFirst(va, Candidates(holder))
          /\ Record(n, va)
          /\ holder' = va
          /\ usedPorts' = usedPorts \cup {va}
    /\ UNCHANGED reapedPorts

\* No reaped address: the next one that is not in usedPorts.
takeNext(n) ==
    /\ reapedPorts = <<>>
    /\ \E va \in Candidates(holder) \ usedPorts :
          /\ IsFirst(va, Candidates(holder) \ usedPorts)
          /\ Record(n, va)
          /\ holder' = va
          /\ usedPorts' = usedPorts \cup {va}
    /\ UNCHANGED reapedPorts

\* Variant of ranOut that moves on to the next ip before it looks at the range.
ranOutBeyond(n) ==
    /\ reapedPorts = <<>>
    /\ Candidates(holder) \subseteq usedPorts
    /\ holder' = <<LastIP + 1, MinPort>>
    /\ UNCHANGED <<virtuals, internalDataGroup, usedPorts, reapedPorts>>

\* incrementHolderIP fails: the search stopped at the last address.
ranOut(n) ==
    /\ reapedPorts = <<>>
    /\ Candidates(holder) \subseteq usedPorts
    /\ holder' = <<LastIP, MaxPort>>
    /\ UNCHANGED <<virtuals, internalDataGroup, usedPorts, reapedPorts>>

Unassigned(n) == n \notin DOMAIN virtuals \cup DOMAIN internalDataGroup

\* assignVSPort succeeds and addVirtual adds the virtual server: it exists, or
\* its address is recorded, or a new address is found.
assignVSPort(n) ==
    /\ \/ /\ n \in DOMAIN virtuals
          /\ UNCHANGED <<virtuals, internalDataGroup, usedPorts, reapedPorts,
                         holder>>
       \/ /\ n \notin DOMAIN virtuals
          /\ n \in DOMAIN internalDataGroup
          /\ virtuals' = Put(virtuals, n, internalDataGroup[n])
          /\ UNCHANGED <<internalDataGroup, usedPorts, reapedPorts, holder>>
       \/ Unassigned(n) /\ takeReaped(n)
       \/ Unassigned(n) /\ takeNext(n)
    /\ UNCHANGED <<firstSyncDone, recycled>>

\* assignVSPort returns an error and the route is not added.
assignVSPortFails(n) ==
    /\ Unassigned(n)
    /\ ranOut(n)
    /\ UNCHANGED <<firstSyncDone, recycled>>
-----------------------------------------------------------------------------
\* processRouteRemove, once the pool is gone.  The entry deleted from usedPorts
\* is the one under the virtual server's name; the keys of usedPorts are
\* addresses, so nothing is deleted.
releaseVSPort(n) ==
    /\ virtuals' = Drop(virtuals, n)
    /\ internalDataGroup' = Drop(internalDataGroup, n)
    /\ reapedPorts' = IF n \in DOMAIN internalDataGroup
                      THEN Append(reapedPorts, internalDataGroup[n])
                      ELSE reapedPorts
    /\ UNCHANGED <<usedPorts, holder, firstSyncDone, recycled>>

\* Variant of truncateInternalDataGroup that does not truncate.
truncateNothing ==
    /\ ~firstSyncDone
    /\ firstSyncDone' = TRUE
    /\ UNCHANGED <<virtuals, internalDataGroup, usedPorts, reapedPorts, holder,
                   recycled>>

\* truncateInternalDataGroup, at the first drain of the queue: forget the
\* records of routes that did not come back and reap their addresses, in the
\* order of a Go map iteration.
truncateInternalDataGroup ==
    LET kept   == Only(internalDataGroup, DOMAIN virtuals)
        unused == usedPorts \ Values(kept)
    IN  /\ ~firstSyncDone
        /\ firstSyncDone' = TRUE
        /\ internalDataGroup' = kept
        /\ usedPorts' = Values(kept)
        /\ \E s \in Orders(unused) : reapedPorts' = reapedPorts \o s
        /\ recycled' = recycled \cup unused
        /\ UNCHANGED <<virtuals, holder>>

\* Variant of KeptRecords that does not look at the range.
KeptAnywhere(dg) ==
    {kept \in SUBSET DOMAIN dg :
        /\ \A m, n \in kept : dg[m] = dg[n] => m = n
        /\ \A n \in DOMAIN dg : \E m \in kept : dg[m] = dg[n]}

\* processCachedDataGroup: records out of range are skipped, and of several
\* records with one address the first one in the BIG-IP's list is kept.
KeptRecords(dg) ==
    LET valid == {n \in DOMAIN dg : InRange(dg[n])}
    IN  {kept \in SUBSET valid :
            /\ \A m, n \in kept : dg[m] = dg[n] => m = n
            /\ \A n \in valid : \E m \in kept : dg[m] = dg[n]}

\* NewF5Router and the start of Run: everything in memory is new, and the data
\* group found on the BIG-IP is processed (the empty one when there is none, or
\* when it cannot be fetched or decoded).
startTier2(dg) ==
    /\ virtuals' = EmptyMap
    /\ \E kept \in KeptRecords(dg) :
          /\ internalDataGroup' = Only(dg, kept)
          /\ usedPorts' = Values(Only(dg, kept))
    /\ reapedPorts' = <<>>
    /\ holder' = <<FirstIP, MinPort>>
    /\ firstSyncDone' = FALSE
    /\ recycled' = {}

Tier2Init ==
    /\ virtuals = EmptyMap
    /\ \E dg \in CachedDataGroups \cup {EmptyMap} : \E kept \in KeptRecords(dg) :
          /\ internalDataGroup = Only(dg, kept)
          /\ usedPorts = Values(Only(dg, kept))
    /\ reapedPorts = <<>>
    /\ holder = <<FirstIP, MinPort>>
    /\ firstSyncDone = FALSE
    /\ recycled = {}

Tier2Next ==
    \/ \E n \in Name : assignVSPort(n)
    \/ \E n \in Name : assignVSPortFails(n)
    \/ \E n \in DOMAIN virtuals : releaseVSPort(n)
    \/ truncateInternalDataGroup
    \/ \E dg \in CachedDataGroups \cup {EmptyMap} : startTier2(dg)

Tier2Spec == Tier2Init /\ [][Tier2Next]_tier2Vars
-----------------------------------------------------------------------------
(***************************************************************************)
(* Properties                                                              *)
(***************************************************************************)

\* Every virtual server has a record with its own destination, and after the
\* first drain there is no record without a virtual server: the one to one
\* mapping of tier-2 VIPs to data group records with the same name that a
\* restart relies on.
RecordPerVirtual ==
    /\ \A n \in DOMAIN virtuals : /\ n \in DOMAIN internalDataGroup
                                  /\ internalDataGroup[n] = virtuals[n]
    /\ firstSyncDone => DOMAIN internalDataGroup = DOMAIN virtuals

\* Every address in circulation belongs to the configured range, whatever data
\* group the controller started from: processCachedDataGroup filters and
\* incrementHolderIP stops at the end of the range.
AddressesInRange ==
    \A a \in Values(internalDataGroup) \cup usedPorts \cup Values(reapedPorts) :
        InRange(a)

\* Two routes share a destination only when it is an address that the first
\* drain's truncateInternalDataGroup had reaped.
SharedOnlyIfRecycled ==
    \A m, n \in DOMAIN virtuals :
        m # n /\ virtuals[m] = virtuals[n] => virtuals[m] \in recycled

\* The bookkeeping behind SharedOnlyIfRecycled.  An address that truncation did
\* not reap is in usedPorts as soon as it is recorded or reaped; it is recorded
\* for one name, or listed once in reapedPorts, never both.
Accounted ==
    /\ \A n \in DOMAIN internalDataGroup :
          internalDataGroup[n] \in usedPorts \cup recycled
    /\ \A i \in DOMAIN reapedPorts : reapedPorts[i] \in usedPorts \cup recycled
    /\ \A m, n \in DOMAIN internalDataGroup :
          m # n /\ internalDataGroup[m] = internalDataGroup[n]
             => internalDataGroup[m] \in recycled
    /\ \A i, j \in DOMAIN reapedPorts :
          i # j /\ reapedPorts[i] = reapedPorts[j] => reapedPorts[i] \in recycled
    /\ \A n \in DOMAIN internalDataGroup, i \in DOMAIN reapedPorts :
          internalDataGroup[n] = reapedPorts[i] => reapedPorts[i] \in recycled

\* No address is the destination of two routes' virtual servers: reapedPorts
\* holds addresses "assigned but now ununsed" and usedPorts those "currently in
\* use", so neither source should yield the address of a live route.
NoSharedDestination ==
    \A m, n \in DOMAIN virtuals : virtuals[m] = virtuals[n] => m = n
=============================================================================
