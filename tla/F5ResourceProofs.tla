-------------------------- MODULE F5ResourceProofs --------------------------
(***************************************************************************)
(* The tier-2 virtual servers and the resource maps of F5Router.  The      *)
(* properties of Tier2VS hold for every set of routes, every range of      *)
(* addresses and every data group found at a start.  The handlers of       *)
(* F5Router keep the resource maps in step, for any routes, endpoints and  *)
(* plans, and each is a step of Tier2VS or leaves the allocator alone.     *)
(***************************************************************************)
EXTENDS F5Router, FiniteSetTheorems, TLAPS

\* The invariant that the steps preserve; Accounted is what makes
\* SharedOnlyIfRecycled inductive.
Tier2Inv == Tier2TypeOK /\ RecordPerVirtual /\ AddressesInRange /\ Accounted
-----------------------------------------------------------------------------
(***************************************************************************)
(* Maps                                                                    *)
(***************************************************************************)

\* m[k] = v keeps a map a map, and changes it at k only.
LEMMA PutMap ==
    ASSUME NEW K, NEW V, NEW m, IsMap(m, K, V), NEW k \in K, NEW v \in V
    PROVE  /\ IsMap(Put(m, k, v), K, V)
           /\ DOMAIN Put(m, k, v) = DOMAIN m \cup {k}
           /\ Put(m, k, v)[k] = v
           /\ \A x \in DOMAIN m : x # k => Put(m, k, v)[x] = m[x]
  BY DEF IsMap, Put

\* Keeping only the keys in S keeps a map a map.
LEMMA OnlyMap ==
    ASSUME NEW K, NEW V, NEW m, IsMap(m, K, V), NEW S
    PROVE  /\ IsMap(Only(m, S), K, V)
           /\ DOMAIN Only(m, S) = DOMAIN m \cap S
           /\ \A x \in DOMAIN m \cap S : Only(m, S)[x] = m[x]
  BY DEF IsMap, Only

\* The values of a map with finitely many keys are finitely many values of V.
LEMMA ValuesOfMap ==
    ASSUME NEW K, NEW V, NEW m, IsMap(m, K, V), IsFiniteSet(K)
    PROVE  Values(m) \in SUBSET V /\ IsFiniteSet(Values(m))
<1>1. IsFiniteSet(DOMAIN m)
  BY FS_Subset DEF IsMap
<1>2. Values(m) \in SUBSET V
  BY DEF IsMap, Values
<1>3. m \in Surjection(DOMAIN m, Values(m))
  BY DEF IsMap, Values, Surjection
<1> QED
  BY <1>1, <1>2, <1>3, FS_Surjection

\* An empty map is a map, whatever its keys and values.
LEMMA EmptyIsMap ==
    ASSUME NEW K, NEW V
    PROVE  IsMap(EmptyMap, K, V) /\ DOMAIN EmptyMap = {}
  BY DEF IsMap, EmptyMap
-----------------------------------------------------------------------------
(***************************************************************************)
(* Sequences                                                               *)
(***************************************************************************)

\* Deleting the first element by moving the last one into its place: what is
\* left are elements other than the first, each from a position of its own.
LEMMA SwapOutFirstSeq ==
    ASSUME NEW S, NEW s \in Seq(S), s # <<>>
    PROVE  /\ SwapOutFirst(s) \in Seq(S)
           /\ Len(SwapOutFirst(s)) = Len(s) - 1
           /\ \A i \in 1 .. Len(s) - 1 :
                 SwapOutFirst(s)[i] = s[IF i = 1 THEN Len(s) ELSE i]
  BY DEF SwapOutFirst

\* The orders in which the elements of a set can be listed.
LEMMA OrdersSeq ==
    ASSUME NEW S, NEW s \in Orders(S)
    PROVE  /\ s \in Seq(S)
           /\ \A i, j \in 1 .. Len(s) : i # j => s[i] # s[j]
<1>1. PICK n \in 0 .. Cardinality(S) : s \in Bijection(1 .. n, S)
  BY DEF Orders
<1>2. n \in Nat
  OBVIOUS
<1>3. s \in [1 .. n -> S] /\ \A i, j \in 1 .. n : i # j => s[i] # s[j]
  BY <1>1 DEF Bijection, Injection, IsInjective
<1>4. s \in Seq(S) /\ Len(s) = n
  BY <1>2, <1>3
<1> QED
  BY <1>3, <1>4
-----------------------------------------------------------------------------
(***************************************************************************)
(* Each operation preserves the invariant                                  *)
(***************************************************************************)

\* A start: the records kept are in range, have an address each, and all of
\* these are in usedPorts.
LEMMA StartLemma ==
    ASSUME NEW dg \in CachedDataGroups \cup {EmptyMap}, NEW kept \in KeptRecords(dg)
    PROVE  /\ IsMap(Only(dg, kept), Name, Address)
           /\ Values(Only(dg, kept)) \in SUBSET Address
           /\ IsFiniteSet(Values(Only(dg, kept)))
           /\ \A n \in DOMAIN Only(dg, kept) : InRange(Only(dg, kept)[n])
           /\ \A m, n \in DOMAIN Only(dg, kept) :
                 Only(dg, kept)[m] = Only(dg, kept)[n] => m = n
<1>1. IsMap(dg, Name, Address)
  BY Tier2Assumption, EmptyIsMap
<1>2. /\ IsMap(Only(dg, kept), Name, Address)
      /\ DOMAIN Only(dg, kept) = DOMAIN dg \cap kept
      /\ \A x \in DOMAIN dg \cap kept : Only(dg, kept)[x] = dg[x]
  BY <1>1, OnlyMap
<1>3. /\ kept \subseteq {n \in DOMAIN dg : InRange(dg[n])}
      /\ \A m, n \in kept : dg[m] = dg[n] => m = n
  BY DEF KeptRecords
<1>4. Values(Only(dg, kept)) \in SUBSET Address /\ IsFiniteSet(Values(Only(dg, kept)))
  BY <1>2, ValuesOfMap, Tier2Assumption
<1> QED
  BY <1>2, <1>3, <1>4

\* The state a start leads to satisfies the invariant.
LEMMA StartedInv ==
    ASSUME NEW idg, NEW used,
           IsMap(idg, Name, Address), used = Values(idg),
           used \in SUBSET Address, IsFiniteSet(used),
           \A n \in DOMAIN idg : InRange(idg[n]),
           \A m, n \in DOMAIN idg : idg[m] = idg[n] => m = n,
           virtuals = EmptyMap, internalDataGroup = idg, usedPorts = used,
           reapedPorts = <<>>, holder = <<FirstIP, MinPort>>,
           firstSyncDone = FALSE, recycled = {}
    PROVE  Tier2Inv
<1>1. Tier2TypeOK
  <2>1. IsMap(virtuals, Name, Address)
    BY EmptyIsMap
  <2>2. holder \in Pool
    BY Tier2Assumption DEF Pool
  <2>3. reapedPorts \in Seq(Address) /\ recycled \in SUBSET Address
    OBVIOUS
  <2>4. firstSyncDone \in BOOLEAN
    BY ZenonT(30)
  <2> QED
    BY <2>1, <2>2, <2>3, <2>4 DEF Tier2TypeOK
<1>2. RecordPerVirtual
  BY EmptyIsMap DEF RecordPerVirtual
<1>3. AddressesInRange
  BY DEF AddressesInRange, Values
<1>4. Accounted
  BY DEF Accounted, Values
<1> QED
  BY <1>1, <1>2, <1>3, <1>4 DEF Tier2Inv

\* The initial states satisfy the invariant.
LEMMA InitInv == Tier2Init => Tier2Inv
<1> SUFFICES ASSUME Tier2Init PROVE Tier2Inv
  OBVIOUS
<1>1. PICK dg \in CachedDataGroups \cup {EmptyMap} : \E kept \in KeptRecords(dg) :
         internalDataGroup = Only(dg, kept) /\ usedPorts = Values(Only(dg, kept))
  BY DEF Tier2Init
<1>2. PICK kept \in KeptRecords(dg) :
         internalDataGroup = Only(dg, kept) /\ usedPorts = Values(Only(dg, kept))
  BY <1>1
<1> QED
  BY <1>2, StartLemma, StartedInv, ZenonT(30) DEF Tier2Init

\* A new record, for a name without one, at an address va that truncation has
\* reaped, or that is recorded nowhere and in usedPorts from now on.
LEMMA RecordInv ==
    ASSUME Tier2Inv, NEW n \in Name, n \notin DOMAIN virtuals,
           n \notin DOMAIN internalDataGroup, NEW va \in Address, InRange(va),
           Record(n, va),
           reapedPorts' \in Seq(Address), usedPorts' \in SUBSET Address,
           IsFiniteSet(usedPorts'), usedPorts \subseteq usedPorts',
           \A a \in usedPorts' : InRange(a), holder' \in Pool,
           UNCHANGED <<firstSyncDone, recycled>>,
           va \in usedPorts' \cup recycled,
           va \in recycled \/ \A m \in DOMAIN internalDataGroup :
                                  internalDataGroup[m] # va,
           \A i \in 1 .. Len(reapedPorts') : \E j \in 1 .. Len(reapedPorts) :
              reapedPorts'[i] = reapedPorts[j],
           \A i, j \in 1 .. Len(reapedPorts') :
              i # j /\ reapedPorts'[i] = reapedPorts'[j]
                 => reapedPorts'[i] \in recycled,
           \A i \in 1 .. Len(reapedPorts') :
              reapedPorts'[i] = va => va \in recycled
    PROVE  Tier2Inv'
<1> USE DEF Tier2Inv
<1>1. /\ IsMap(virtuals', Name, Address)
      /\ DOMAIN virtuals' = DOMAIN virtuals \cup {n}
      /\ virtuals'[n] = va
      /\ \A x \in DOMAIN virtuals : x # n => virtuals'[x] = virtuals[x]
  <2>1. IsMap(virtuals, Name, Address) /\ virtuals' = Put(virtuals, n, va)
    BY DEF Record, Tier2TypeOK
  <2> HIDE DEF Tier2Inv
  <2> QED
    BY ONLY <2>1, n \in Name, va \in Address, PutMap
<1>2. /\ IsMap(internalDataGroup', Name, Address)
      /\ DOMAIN internalDataGroup' = DOMAIN internalDataGroup \cup {n}
      /\ internalDataGroup'[n] = va
      /\ \A x \in DOMAIN internalDataGroup :
            x # n => internalDataGroup'[x] = internalDataGroup[x]
  <2>1. IsMap(internalDataGroup, Name, Address) /\ internalDataGroup' = Put(internalDataGroup, n, va)
    BY DEF Record, Tier2TypeOK
  <2> HIDE DEF Tier2Inv
  <2> QED
    BY ONLY <2>1, n \in Name, va \in Address, PutMap
<1>3. Tier2TypeOK'
  BY <1>1, <1>2 DEF Tier2TypeOK
<1>4. RecordPerVirtual'
  BY <1>1, <1>2 DEF RecordPerVirtual
<1>5. reapedPorts \in Seq(Address) /\ DOMAIN reapedPorts = 1 .. Len(reapedPorts)
      /\ DOMAIN reapedPorts' = 1 .. Len(reapedPorts')
  BY DEF Tier2TypeOK
<1>6. AddressesInRange'
  <2>1. \A x \in DOMAIN internalDataGroup' : InRange(internalDataGroup'[x])
    BY <1>2 DEF AddressesInRange, Values
  <2>2. \A i \in DOMAIN reapedPorts' : InRange(reapedPorts'[i])
    BY <1>5 DEF AddressesInRange, Values
  <2> QED
    BY <2>1, <2>2 DEF AddressesInRange, Values, InRange
<1>7. Accounted'
  <2>1. \A x \in DOMAIN internalDataGroup' :
           internalDataGroup'[x] \in usedPorts' \cup recycled'
    BY <1>2 DEF Accounted
  <2>2. \A i \in DOMAIN reapedPorts' : reapedPorts'[i] \in usedPorts' \cup recycled'
    BY <1>5 DEF Accounted
  <2>3. \A x, y \in DOMAIN internalDataGroup' :
           x # y /\ internalDataGroup'[x] = internalDataGroup'[y]
              => internalDataGroup'[x] \in recycled'
    <3> TAKE x, y \in DOMAIN internalDataGroup'
    <3> HAVE x # y /\ internalDataGroup'[x] = internalDataGroup'[y]
    <3>1. CASE x = n \/ y = n
      BY <1>2, <3>1
    <3>2. CASE x # n /\ y # n
      BY <1>2, <3>2 DEF Accounted
    <3> QED
      BY <3>1, <3>2
  <2>4. \A i, j \in DOMAIN reapedPorts' :
           i # j /\ reapedPorts'[i] = reapedPorts'[j] => reapedPorts'[i] \in recycled'
    BY <1>5
  <2>5. \A x \in DOMAIN internalDataGroup', i \in DOMAIN reapedPorts' :
           internalDataGroup'[x] = reapedPorts'[i] => reapedPorts'[i] \in recycled'
    <3> TAKE x \in DOMAIN internalDataGroup', i \in DOMAIN reapedPorts'
    <3> HAVE internalDataGroup'[x] = reapedPorts'[i]
    <3>1. CASE x = n
      BY <1>2, <1>5, <3>1, ZenonT(30)
    <3>2. CASE x # n
      <4>1. PICK j \in DOMAIN reapedPorts : reapedPorts'[i] = reapedPorts[j]
        BY <1>5
      <4>2. x \in DOMAIN internalDataGroup /\ internalDataGroup[x] = reapedPorts[j]
        BY <1>2, <3>2, <4>1
      <4> QED
        BY <4>1, <4>2 DEF Accounted
    <3> QED
      BY <3>1, <3>2
  <2> QED
    BY <2>1, <2>2, <2>3, <2>4, <2>5 DEF Accounted
<1> QED
  BY <1>3, <1>4, <1>6, <1>7

\* assignVSPort takes the first reaped address.
LEMMA TakeReapedInv ==
    ASSUME Tier2Inv, NEW n \in Name, Unassigned(n), takeReaped(n),
           UNCHANGED <<firstSyncDone, recycled>>
    PROVE  Tier2Inv'
<1> DEFINE va == reapedPorts[1]
<1> USE DEF Tier2Inv
<1>1. /\ reapedPorts \in Seq(Address) /\ reapedPorts # <<>>
      /\ DOMAIN reapedPorts = 1 .. Len(reapedPorts)
      /\ Len(reapedPorts) \in Nat \ {0}
  BY DEF Tier2TypeOK, takeReaped
<1>2. Record(n, va) /\ reapedPorts' = SwapOutFirst(reapedPorts)
      /\ usedPorts' = usedPorts /\ holder' = holder
  BY <1>1 DEF takeReaped
<1>3. va \in Address /\ InRange(va) /\ va \in usedPorts' \cup recycled
  <2>1. 1 \in 1 .. Len(reapedPorts)
    BY <1>1
  <2>2. va \in Address
    BY <1>1, <2>1
  <2>3. InRange(va)
    BY <1>1, <2>1 DEF AddressesInRange, Values
  <2>4. va \in usedPorts' \cup recycled
    BY <1>2, <2>1 DEF Accounted
  <2> QED
    BY <2>2, <2>3, <2>4, ZenonT(30)
<1>4. /\ reapedPorts' \in Seq(Address)
      /\ Len(reapedPorts') = Len(reapedPorts) - 1
      /\ \A i \in 1 .. Len(reapedPorts') :
            reapedPorts'[i] = reapedPorts[IF i = 1 THEN Len(reapedPorts) ELSE i]
  BY <1>1, <1>2, SwapOutFirstSeq, ZenonT(30)
<1>5. \A i \in 1 .. Len(reapedPorts') : \E j \in 1 .. Len(reapedPorts) :
         j # 1 /\ reapedPorts'[i] = reapedPorts[j]
  BY <1>1, <1>4
<1>6. \A i, j \in 1 .. Len(reapedPorts') :
         i # j /\ reapedPorts'[i] = reapedPorts'[j] => reapedPorts'[i] \in recycled
  <2> TAKE i, j \in 1 .. Len(reapedPorts')
  <2> DEFINE k == IF i = 1 THEN Len(reapedPorts) ELSE i
             l == IF j = 1 THEN Len(reapedPorts) ELSE j
  <2>1. /\ k \in DOMAIN reapedPorts /\ l \in DOMAIN reapedPorts
        /\ i # j => k # l
        /\ reapedPorts'[i] = reapedPorts[k] /\ reapedPorts'[j] = reapedPorts[l]
    BY <1>1, <1>4
  <2> QED
    BY <2>1, ZenonT(30) DEF Accounted
<1>7. \A i \in 1 .. Len(reapedPorts') : reapedPorts'[i] = va => va \in recycled
  BY <1>1, <1>5 DEF Accounted
<1>8. va \in recycled \/ \A m \in DOMAIN internalDataGroup : internalDataGroup[m] # va
  BY <1>1 DEF Accounted
<1>9. /\ n \notin DOMAIN virtuals /\ n \notin DOMAIN internalDataGroup
      /\ usedPorts' \in SUBSET Address /\ IsFiniteSet(usedPorts') /\ holder' \in Pool
      /\ usedPorts \subseteq usedPorts' /\ \A a \in usedPorts' : InRange(a)
  BY <1>2 DEF Unassigned, Tier2TypeOK, AddressesInRange
<1> HIDE DEF va, Tier2Inv
<1> QED
  BY <1>2, <1>3, <1>4, <1>5, <1>6, <1>7, <1>8, <1>9, RecordInv

\* assignVSPort takes the next address that is not in usedPorts.
LEMMA TakeNextInv ==
    ASSUME Tier2Inv, NEW n \in Name, Unassigned(n), takeNext(n),
           UNCHANGED <<firstSyncDone, recycled>>
    PROVE  Tier2Inv'
<1> USE DEF Tier2Inv
<1>1. PICK va \in Candidates(holder) \ usedPorts :
         Record(n, va) /\ holder' = va /\ usedPorts' = usedPorts \cup {va}
  BY DEF takeNext
<1>2. va \in Pool /\ va \in Address /\ InRange(va)
  BY Tier2Assumption DEF Candidates, Pool, Address, InRange
<1>3. reapedPorts' = <<>> /\ reapedPorts = <<>>
  BY DEF takeNext
<1>4. usedPorts' \in SUBSET Address /\ IsFiniteSet(usedPorts')
  BY <1>1, <1>2, FS_AddElement DEF Tier2TypeOK
<1>5. \A a \in usedPorts' : InRange(a)
  BY <1>1, <1>2 DEF AddressesInRange
<1>6. va \in recycled \/ \A m \in DOMAIN internalDataGroup : internalDataGroup[m] # va
  BY <1>1 DEF Accounted
<1>7. n \notin DOMAIN virtuals /\ n \notin DOMAIN internalDataGroup
  BY DEF Unassigned
<1>8. /\ reapedPorts' \in Seq(Address)
      /\ \A i \in 1 .. Len(reapedPorts') : FALSE
  BY <1>3
<1>9. holder' \in Pool /\ usedPorts \subseteq usedPorts' /\ va \in usedPorts' \cup recycled
  BY <1>1, <1>2
<1> HIDE DEF Tier2Inv
<1> QED
  BY <1>1, <1>2, <1>4, <1>5, <1>6, <1>7, <1>8, <1>9, RecordInv, ZenonT(30)

\* assignVSPort succeeds.
LEMMA AssignInv ==
    ASSUME Tier2Inv, NEW n \in Name, assignVSPort(n)
    PROVE  Tier2Inv'
<1>1. CASE n \in DOMAIN virtuals /\ UNCHANGED tier2Vars
  BY <1>1 DEF tier2Vars, Tier2Inv, Tier2TypeOK, RecordPerVirtual, AddressesInRange,
              Accounted
<1>2. CASE /\ n \notin DOMAIN virtuals
           /\ n \in DOMAIN internalDataGroup
           /\ virtuals' = Put(virtuals, n, internalDataGroup[n])
           /\ UNCHANGED <<internalDataGroup, usedPorts, reapedPorts, holder,
                          firstSyncDone, recycled>>
  <2> USE DEF Tier2Inv
  <2>1. internalDataGroup[n] \in Address /\ IsMap(virtuals, Name, Address)
    BY <1>2 DEF Tier2TypeOK, IsMap
  <2>2. /\ IsMap(virtuals', Name, Address)
        /\ DOMAIN virtuals' = DOMAIN virtuals \cup {n}
        /\ virtuals'[n] = internalDataGroup[n]
        /\ \A x \in DOMAIN virtuals : x # n => virtuals'[x] = virtuals[x]
    <3> DEFINE put == Put(virtuals, n, internalDataGroup[n])
    <3>1. /\ IsMap(put, Name, Address) /\ DOMAIN put = DOMAIN virtuals \cup {n}
          /\ put[n] = internalDataGroup[n]
          /\ \A x \in DOMAIN virtuals : x # n => put[x] = virtuals[x]
      BY <2>1 DEF IsMap, Put
    <3> HIDE DEF put
    <3>2. virtuals' = put
      BY <1>2, ZenonT(30) DEF put
    <3> QED
      BY <3>1, <3>2, ZenonT(30)
  <2>3. Tier2TypeOK'
    BY <1>2, <2>2 DEF Tier2TypeOK
  <2>4. RecordPerVirtual'
    BY <1>2, <2>2 DEF RecordPerVirtual
  <2>5. AddressesInRange' /\ Accounted'
    BY <1>2 DEF AddressesInRange, Accounted
  <2> QED
    BY <2>3, <2>4, <2>5
<1>3. CASE Unassigned(n) /\ takeReaped(n) /\ UNCHANGED <<firstSyncDone, recycled>>
  BY <1>3, TakeReapedInv
<1>4. CASE Unassigned(n) /\ takeNext(n) /\ UNCHANGED <<firstSyncDone, recycled>>
  BY <1>4, TakeNextInv
<1> QED
  BY <1>1, <1>2, <1>3, <1>4, ZenonT(30) DEF assignVSPort, tier2Vars

\* assignVSPort fails: only the holder moves, to the last address.
LEMMA AssignFailsInv ==
    ASSUME Tier2Inv, NEW n \in Name, assignVSPortFails(n)
    PROVE  Tier2Inv'
<1>1. holder' \in Pool
  BY Tier2Assumption DEF assignVSPortFails, ranOut, Pool
<1>2. UNCHANGED <<virtuals, internalDataGroup, usedPorts, reapedPorts,
                  firstSyncDone, recycled>>
  BY DEF assignVSPortFails, ranOut
<1> QED
  BY <1>1, <1>2 DEF Tier2Inv, Tier2TypeOK, RecordPerVirtual, AddressesInRange, Accounted

\* A route is removed: its record goes, and the address is appended to
\* reapedPorts; if it was in there, or recorded for another route as well, then
\* truncation had reaped it.
LEMMA ReleaseInv ==
    ASSUME Tier2Inv, NEW n \in DOMAIN virtuals, releaseVSPort(n)
    PROVE  Tier2Inv'
<1> DEFINE va == internalDataGroup[n]
<1> USE DEF Tier2Inv
<1>1. n \in DOMAIN internalDataGroup /\ va \in Address
  BY DEF RecordPerVirtual, Tier2TypeOK, IsMap
<1>2. /\ virtuals' = Drop(virtuals, n)
      /\ internalDataGroup' = Drop(internalDataGroup, n)
      /\ reapedPorts' = Append(reapedPorts, va)
      /\ UNCHANGED <<usedPorts, holder, firstSyncDone, recycled>>
  BY <1>1 DEF releaseVSPort
<1>3. /\ IsMap(virtuals', Name, Address)
      /\ DOMAIN virtuals' = DOMAIN virtuals \ {n}
      /\ \A x \in DOMAIN virtuals \ {n} : virtuals'[x] = virtuals[x]
  <2>1. IsMap(virtuals, Name, Address) /\ virtuals' = Drop(virtuals, n)
    BY <1>2 DEF Tier2TypeOK
  <2> QED
    BY ONLY <2>1 DEF Drop, IsMap
<1>4. /\ IsMap(internalDataGroup', Name, Address)
      /\ DOMAIN internalDataGroup' = DOMAIN internalDataGroup \ {n}
      /\ \A x \in DOMAIN internalDataGroup \ {n} :
            internalDataGroup'[x] = internalDataGroup[x]
  <2>1. IsMap(internalDataGroup, Name, Address) /\ internalDataGroup' = Drop(internalDataGroup, n)
    BY <1>2 DEF Tier2TypeOK
  <2> QED
    BY ONLY <2>1 DEF Drop, IsMap
<1>5. /\ reapedPorts \in Seq(Address) /\ DOMAIN reapedPorts = 1 .. Len(reapedPorts)
      /\ Len(reapedPorts) \in Nat
      /\ reapedPorts' \in Seq(Address)
      /\ DOMAIN reapedPorts' = 1 .. Len(reapedPorts) + 1
      /\ \A i \in DOMAIN reapedPorts : reapedPorts'[i] = reapedPorts[i]
      /\ reapedPorts'[Len(reapedPorts) + 1] = va
  BY <1>1, <1>2 DEF Tier2TypeOK
<1>6. Tier2TypeOK'
  BY <1>2, <1>3, <1>4, <1>5 DEF Tier2TypeOK
<1>7. RecordPerVirtual'
  BY <1>2, <1>3, <1>4 DEF RecordPerVirtual
<1>8. \A i \in DOMAIN reapedPorts' :
         i \in DOMAIN reapedPorts \/ (i = Len(reapedPorts) + 1 /\ reapedPorts'[i] = va)
  BY <1>5
<1>9. AddressesInRange'
  <2>1. InRange(va)
    BY <1>1 DEF AddressesInRange, Values
  <2>2. \A i \in DOMAIN reapedPorts' : InRange(reapedPorts'[i])
    BY <1>5, <1>8, <2>1 DEF AddressesInRange, Values
  <2>3. \A x \in DOMAIN internalDataGroup' : InRange(internalDataGroup'[x])
    BY <1>4 DEF AddressesInRange, Values
  <2> QED
    BY <1>2, <2>2, <2>3 DEF AddressesInRange, Values, InRange
<1>10. Accounted'
  <2>1. \A x \in DOMAIN internalDataGroup' :
           internalDataGroup'[x] \in usedPorts' \cup recycled'
    BY <1>2, <1>4 DEF Accounted
  <2>2. \A i \in DOMAIN reapedPorts' : reapedPorts'[i] \in usedPorts' \cup recycled'
    BY <1>1, <1>2, <1>5, <1>8 DEF Accounted
  <2>3. \A x, y \in DOMAIN internalDataGroup' :
           x # y /\ internalDataGroup'[x] = internalDataGroup'[y]
              => internalDataGroup'[x] \in recycled'
    BY <1>2, <1>4 DEF Accounted
  <2>4. \A i \in DOMAIN reapedPorts : reapedPorts[i] = va => va \in recycled
    BY <1>1 DEF Accounted
  <2>5. \A i, j \in DOMAIN reapedPorts' :
           i # j /\ reapedPorts'[i] = reapedPorts'[j] => reapedPorts'[i] \in recycled'
    <3> TAKE i, j \in DOMAIN reapedPorts'
    <3> HAVE i # j /\ reapedPorts'[i] = reapedPorts'[j]
    <3>1. CASE i \in DOMAIN reapedPorts /\ j \in DOMAIN reapedPorts
      BY <1>2, <1>5, <3>1 DEF Accounted
    <3>2. CASE i \notin DOMAIN reapedPorts \/ j \notin DOMAIN reapedPorts
      BY <1>2, <1>5, <1>8, <2>4, <3>2
    <3> QED
      BY <3>1, <3>2
  <2>6. \A x \in DOMAIN internalDataGroup', i \in DOMAIN reapedPorts' :
           internalDataGroup'[x] = reapedPorts'[i] => reapedPorts'[i] \in recycled'
    <3> TAKE x \in DOMAIN internalDataGroup', i \in DOMAIN reapedPorts'
    <3> HAVE internalDataGroup'[x] = reapedPorts'[i]
    <3>1. x # n /\ x \in DOMAIN internalDataGroup
          /\ internalDataGroup'[x] = internalDataGroup[x]
      BY <1>4
    <3>2. CASE i \in DOMAIN reapedPorts
      BY <1>2, <1>5, <3>1, <3>2 DEF Accounted
    <3>3. CASE i \notin DOMAIN reapedPorts
      BY <1>1, <1>2, <1>8, <3>1, <3>3 DEF Accounted
    <3> QED
      BY <3>2, <3>3
  <2> QED
    BY <2>1, <2>2, <2>3, <2>5, <2>6, ZenonT(30) DEF Accounted
<1> QED
  BY <1>6, <1>7, <1>9, <1>10

\* The first drain: records without a virtual go, and addresses that are in
\* usedPorts without a record are reaped.  They all become recycled, so nothing
\* else has to be known about where they already were.
LEMMA TruncateInv ==
    ASSUME Tier2Inv, truncateInternalDataGroup
    PROVE  Tier2Inv'
<1> DEFINE kept == Only(internalDataGroup, DOMAIN virtuals)
           unused == usedPorts \ Values(kept)
<1> USE DEF Tier2Inv
<1>1. /\ internalDataGroup' = kept /\ usedPorts' = Values(kept)
      /\ recycled' = recycled \cup unused /\ firstSyncDone' = TRUE
      /\ UNCHANGED <<virtuals, holder>>
  BY DEF truncateInternalDataGroup
<1>2. PICK s \in Orders(unused) : reapedPorts' = reapedPorts \o s
  BY DEF truncateInternalDataGroup
<1>3. /\ IsMap(kept, Name, Address)
      /\ DOMAIN kept = DOMAIN internalDataGroup \cap DOMAIN virtuals
      /\ \A x \in DOMAIN internalDataGroup \cap DOMAIN virtuals :
            kept[x] = internalDataGroup[x]
  <2>1. IsMap(internalDataGroup, Name, Address)
    BY DEF Tier2TypeOK
  <2> QED
    BY ONLY <2>1 DEF Only, IsMap, kept
<1>4. Values(kept) \in SUBSET Address /\ IsFiniteSet(Values(kept))
  BY ONLY <1>3, Tier2Assumption, ValuesOfMap
<1>5. unused \subseteq usedPorts /\ IsFiniteSet(unused) /\ unused \in SUBSET Address
  BY FS_Subset DEF Tier2TypeOK
<1>6. s \in Seq(unused) /\ s \in Seq(Address)
  <2>1. s \in Seq(unused)
    BY ONLY <1>5, OrdersSeq, s \in Orders(unused)
  <2> HIDE DEF unused
  <2> QED
    BY <1>5, <2>1
<1> HIDE DEF kept, unused
<1>7. /\ reapedPorts \in Seq(Address) /\ Len(reapedPorts) \in Nat
      /\ DOMAIN reapedPorts = 1 .. Len(reapedPorts)
      /\ reapedPorts' \in Seq(Address)
      /\ DOMAIN reapedPorts' = 1 .. Len(reapedPorts) + Len(s)
      /\ \A i \in DOMAIN reapedPorts : reapedPorts'[i] = reapedPorts[i]
      /\ \A i \in DOMAIN reapedPorts' :
            i \notin DOMAIN reapedPorts => reapedPorts'[i] \in unused
  BY <1>2, <1>6 DEF Tier2TypeOK
<1>8. Tier2TypeOK'
  <2>1. recycled' \in SUBSET Address /\ holder' \in Pool
    BY <1>1, <1>5 DEF Tier2TypeOK
  <2>2. IsMap(virtuals', Name, Address) /\ IsMap(internalDataGroup', Name, Address)
    BY <1>1, <1>3 DEF Tier2TypeOK
  <2>3. usedPorts' \in SUBSET Address /\ IsFiniteSet(usedPorts')
    BY <1>1, <1>4
  <2>4. firstSyncDone' \in BOOLEAN
    BY <1>1
  <2> QED
    BY <1>7, <2>1, <2>2, <2>3, <2>4 DEF Tier2TypeOK
<1>9. RecordPerVirtual'
  BY <1>1, <1>3 DEF RecordPerVirtual
<1>10. \A x \in DOMAIN kept : x \in DOMAIN internalDataGroup /\ kept[x] = internalDataGroup[x]
  BY <1>3
<1>11. AddressesInRange'
  <2>1. \A x \in DOMAIN internalDataGroup' : InRange(internalDataGroup'[x])
    BY <1>1, <1>10 DEF AddressesInRange, Values
  <2>2. \A a \in usedPorts' : InRange(a)
    BY <1>1, <2>1 DEF Values
  <2>3. \A i \in DOMAIN reapedPorts' : InRange(reapedPorts'[i])
    BY <1>5, <1>7 DEF AddressesInRange, Values
  <2> QED
    BY <2>1, <2>2, <2>3 DEF AddressesInRange, Values, InRange
<1>12. Accounted'
  <2>1. \A x \in DOMAIN internalDataGroup' : internalDataGroup'[x] \in usedPorts'
    BY <1>1 DEF Values
  <2>2. \A a \in usedPorts : a \in usedPorts' \cup recycled'
    BY <1>1 DEF unused
  <2>3. \A i \in DOMAIN reapedPorts' : reapedPorts'[i] \in usedPorts' \cup recycled'
    BY <1>1, <1>7, <2>2, ZenonT(30) DEF Accounted
  <2>4. \A x, y \in DOMAIN internalDataGroup' :
           x # y /\ internalDataGroup'[x] = internalDataGroup'[y]
              => internalDataGroup'[x] \in recycled'
    BY <1>1, <1>10 DEF Accounted
  <2>5. \A i, j \in DOMAIN reapedPorts' :
           i # j /\ reapedPorts'[i] = reapedPorts'[j] => reapedPorts'[i] \in recycled'
    <3> TAKE i, j \in DOMAIN reapedPorts'
    <3> HAVE i # j /\ reapedPorts'[i] = reapedPorts'[j]
    <3>1. CASE i \in DOMAIN reapedPorts /\ j \in DOMAIN reapedPorts
      BY <1>1, <1>7, <3>1 DEF Accounted
    <3>2. CASE i \notin DOMAIN reapedPorts \/ j \notin DOMAIN reapedPorts
      BY <1>1, <1>7, <3>2
    <3> QED
      BY <3>1, <3>2
  <2>6. \A x \in DOMAIN internalDataGroup', i \in DOMAIN reapedPorts' :
           internalDataGroup'[x] = reapedPorts'[i] => reapedPorts'[i] \in recycled'
    <3> TAKE x \in DOMAIN internalDataGroup', i \in DOMAIN reapedPorts'
    <3> HAVE internalDataGroup'[x] = reapedPorts'[i]
    <3>1. CASE i \in DOMAIN reapedPorts
      BY <1>1, <1>7, <1>10, <3>1 DEF Accounted
    <3>2. CASE i \notin DOMAIN reapedPorts
      BY <1>1, <1>7, <3>2
    <3> QED
      BY <3>1, <3>2
  <2> QED
    BY <2>1, <2>3, <2>4, <2>5, <2>6 DEF Accounted
<1> QED
  BY <1>8, <1>9, <1>11, <1>12

\* A restart.
LEMMA RestartInv ==
    ASSUME NEW dg \in CachedDataGroups \cup {EmptyMap}, startTier2(dg)
    PROVE  Tier2Inv'
<1>1. PICK kept \in KeptRecords(dg) :
         internalDataGroup' = Only(dg, kept) /\ usedPorts' = Values(Only(dg, kept))
  BY DEF startTier2
<1> DEFINE idg == Only(dg, kept)
<1>2. /\ IsMap(idg, Name, Address)
      /\ Values(idg) \in SUBSET Address /\ IsFiniteSet(Values(idg))
      /\ \A n \in DOMAIN idg : InRange(idg[n])
      /\ \A m, n \in DOMAIN idg : idg[m] = idg[n] => m = n
  BY StartLemma
<1>3. /\ virtuals' = EmptyMap /\ reapedPorts' = <<>> /\ holder' = <<FirstIP, MinPort>>
      /\ firstSyncDone' = FALSE /\ recycled' = {}
      /\ internalDataGroup' = idg /\ usedPorts' = Values(idg)
  BY <1>1 DEF startTier2
<1> HIDE DEF idg
<1>4. Tier2TypeOK'
  <2>1. IsMap(virtuals', Name, Address)
    BY <1>3, EmptyIsMap
  <2>2. holder' \in Pool
    BY <1>3, Tier2Assumption DEF Pool
  <2>3. reapedPorts' \in Seq(Address) /\ recycled' \in SUBSET Address
    BY <1>3
  <2>4. firstSyncDone' \in BOOLEAN
    BY <1>3, ZenonT(30)
  <2>5. IsMap(internalDataGroup', Name, Address) /\ usedPorts' \in SUBSET Address
        /\ IsFiniteSet(usedPorts')
    BY <1>2, <1>3
  <2> QED
    BY <2>1, <2>2, <2>3, <2>4, <2>5 DEF Tier2TypeOK
<1>5. RecordPerVirtual'
  BY <1>3, EmptyIsMap DEF RecordPerVirtual
<1>6. AddressesInRange'
  BY <1>2, <1>3 DEF AddressesInRange, Values
<1>7. Accounted'
  BY <1>2, <1>3 DEF Accounted, Values
<1> QED
  BY <1>4, <1>5, <1>6, <1>7 DEF Tier2Inv
-----------------------------------------------------------------------------
(***************************************************************************)
(* Theorems                                                                *)
(***************************************************************************)

\* Every step of Tier2VS preserves the invariant.
LEMMA NextInv == Tier2Inv /\ [Tier2Next]_tier2Vars => Tier2Inv'
<1> SUFFICES ASSUME Tier2Inv, [Tier2Next]_tier2Vars PROVE Tier2Inv'
  OBVIOUS
<1>1. ASSUME NEW n \in Name, assignVSPort(n) PROVE Tier2Inv'
  BY <1>1, AssignInv
<1>2. ASSUME NEW n \in Name, assignVSPortFails(n) PROVE Tier2Inv'
  BY <1>2, AssignFailsInv
<1>3. ASSUME NEW n \in DOMAIN virtuals, releaseVSPort(n) PROVE Tier2Inv'
  BY <1>3, ReleaseInv
<1>4. CASE truncateInternalDataGroup
  BY <1>4, TruncateInv
<1>5. ASSUME NEW dg \in CachedDataGroups \cup {EmptyMap}, startTier2(dg)
      PROVE  Tier2Inv'
  BY <1>5, RestartInv, ZenonT(30)
<1>6. CASE UNCHANGED tier2Vars
  BY <1>6, ZenonT(30) DEF tier2Vars, Tier2Inv, Tier2TypeOK, RecordPerVirtual, AddressesInRange,
              Accounted
<1> QED
  BY <1>1, <1>2, <1>3, <1>4, <1>5, <1>6 DEF Tier2Next

\* The invariant says that sharing needs a recycled address.
LEMMA InvSharing == Tier2Inv => SharedOnlyIfRecycled
  BY DEF Tier2Inv, RecordPerVirtual, Accounted, SharedOnlyIfRecycled

\* The state of the allocator keeps its types, whatever routes come and go and
\* whatever data group a start finds.
THEOREM Tier2TypeCorrect == Tier2Spec => []Tier2TypeOK
<1>1. Tier2Inv => Tier2TypeOK
  BY DEF Tier2Inv
<1> QED
  BY <1>1, InitInv, NextInv, PTL DEF Tier2Spec

\* A virtual server always has a record with its destination, and from the first
\* drain on there are no other records.
THEOREM Tier2Records == Tier2Spec => []RecordPerVirtual
<1>1. Tier2Inv => RecordPerVirtual
  BY DEF Tier2Inv
<1> QED
  BY <1>1, InitInv, NextInv, PTL DEF Tier2Spec

\* No address outside the configured range is ever recorded or handed out.
THEOREM Tier2Range == Tier2Spec => []AddressesInRange
<1>1. Tier2Inv => AddressesInRange
  BY DEF Tier2Inv
<1> QED
  BY <1>1, InitInv, NextInv, PTL DEF Tier2Spec

\* Two virtual servers have different destinations, unless truncation at the
\* first drain reaped the address.
THEOREM Tier2Sharing == Tier2Spec => []SharedOnlyIfRecycled
  BY InvSharing, InitInv, NextInv, PTL DEF Tier2Spec
-----------------------------------------------------------------------------
(***************************************************************************)
(* Member slices (PoolMembers)                                             *)
(***************************************************************************)

\* removePool leaves members that were there before.
LEMMA RemoveMatchesSeq ==
    ASSUME NEW S, NEW s \in Seq(S), NEW m, NEW first \in 1 .. 2
    PROVE  RemoveMatches(s, m, first) \in Seq(S)
<1> DEFINE matches(i) == {j \in first .. i : s[j] = m}
           rank(i) == Cardinality(matches(i))
           fromEnd(i) == Len(s) - rank(i) + 1
           removed == {i \in first .. Len(s) : s[i] = m /\ i <= fromEnd(i)}
           n == Len(s) - Cardinality(removed)
<1>1. \A i \in first .. Len(s) : IsFiniteSet(matches(i)) /\ rank(i) \in Nat
  <2> TAKE i \in first .. Len(s)
  <2>1. IsFiniteSet(first .. i) /\ matches(i) \subseteq first .. i
    BY FS_Interval
  <2> QED
    BY <2>1, FS_Subset, FS_CardinalityType
<1>2. \A i \in first .. Len(s) : s[i] = m => rank(i) > 0
  <2> SUFFICES ASSUME NEW i \in first .. Len(s), s[i] = m PROVE rank(i) > 0
    OBVIOUS
  <2>1. i \in matches(i)
    OBVIOUS
  <2>2. matches(i) # {}
    BY <2>1
  <2>3. IsFiniteSet(matches(i)) /\ Cardinality(matches(i)) \in Nat
    BY <1>1, ZenonT(30)
  <2>4. Cardinality(matches(i)) # 0
    <3> HIDE DEF matches
    <3> QED
      BY <2>2, <2>3, FS_EmptySet
  <2> QED
    BY <2>3, <2>4
<1>3. \A i \in removed : fromEnd(i) \in 1 .. Len(s)
  <2> TAKE i \in removed
  <2>1. i \in first .. Len(s) /\ i <= Len(s) - rank(i) + 1
    OBVIOUS
  <2>2. rank(i) \in Nat /\ rank(i) > 0
    BY <1>1, <1>2, ZenonT(30)
  <2> HIDE DEF rank
  <2> QED
    BY <2>1, <2>2
<1>4. IsFiniteSet(removed) /\ Cardinality(removed) \in Nat
  <2>1. IsFiniteSet(first .. Len(s)) /\ removed \subseteq first .. Len(s)
    BY FS_Interval
  <2> QED
    BY <2>1, FS_Subset, FS_CardinalityType, ZenonT(30)
<1>5. \A i \in 1 .. n : (IF i \in removed THEN s[fromEnd(i)] ELSE s[i]) \in S
  <2> TAKE i \in 1 .. n
  <2>1. i \in 1 .. Len(s)
    BY <1>4
  <2> HIDE DEF removed, fromEnd
  <2> QED
    BY <1>3, <2>1
<1>6. [i \in 1 .. n |-> IF i \in removed THEN s[fromEnd(i)] ELSE s[i]] \in Seq(S)
  <2>1. n \in Int
    BY <1>4
  <2> HIDE DEF removed, fromEnd, n
  <2> QED
    BY <1>5, <2>1
<1> QED
  BY <1>6 DEF RemoveMatches

\* So does removePool for one member,
LEMMA RemoveMemberSeq ==
    ASSUME NEW S, NEW s \in Seq(S), NEW m
    PROVE  RemoveMember(s, m) \in Seq(S)
  BY RemoveMatchesSeq DEF RemoveMember

\* and for the first member of the slice being changed.
LEMMA RemoveOwnFirstSeq ==
    ASSUME NEW S, NEW s \in Seq(S), s # <<>>
    PROVE  RemoveOwnFirst(s) \in Seq(S)
<1> DEFINE rest == [i \in 1 .. Len(s) - 1 |-> IF i = 1 THEN s[Len(s)] ELSE s[i]]
<1>1. rest \in Seq(S)
  OBVIOUS
<1> HIDE DEF rest
<1>2. RemoveMatches(rest, rest[1], 2) \in Seq(S)
  BY <1>1, RemoveMatchesSeq
<1> QED
  BY <1>1, <1>2 DEF RemoveOwnFirst, rest

\* A pool that has members keeps some when others are added.
LEMMA AddMembersSeq ==
    ASSUME NEW S, NEW s \in Seq(S), NEW new \in Seq(S), s # <<>>
    PROVE  AddMembers(s, new) \in Seq(S) /\ AddMembers(s, new) # <<>>
<1>1. s \o new \in Seq(S) /\ s \o new # <<>>
  OBVIOUS
<1> QED
  BY <1>1 DEF AddMembers

\* Of a slice that lists m once at most removePool's loop removes that one: the
\* last member takes its place, m is gone, and none is listed twice.
LEMMA RemoveMemberInjective ==
    ASSUME NEW S, NEW s \in Seq(S), IsInjective(s), NEW m
    PROVE  IsInjective(RemoveMember(s, m)) /\ m \notin Range(RemoveMember(s, m))
<1> DEFINE rank(i) == Cardinality({j \in 1 .. i : s[j] = m})
           fromEnd(i) == Len(s) - rank(i) + 1
           removed == {i \in 1 .. Len(s) : s[i] = m /\ i <= fromEnd(i)}
           left == [i \in 1 .. Len(s) - Cardinality(removed) |->
                      IF i \in removed THEN s[fromEnd(i)] ELSE s[i]]
<1>1. RemoveMember(s, m) = left
  BY DEF RemoveMember, RemoveMatches
<1>2. /\ Len(s) \in Nat /\ DOMAIN s = 1 .. Len(s)
      /\ \A i, j \in 1 .. Len(s) : s[i] = s[j] => i = j
  BY DEF IsInjective
<1>3. CASE \A i \in 1 .. Len(s) : s[i] # m
  <2>1. removed = {}
    BY <1>3
  <2>2. Cardinality(removed) = 0
    BY <2>1, FS_EmptySet, ZenonT(30)
  <2> HIDE DEF removed, fromEnd
  <2>3. left = [i \in 1 .. Len(s) |-> s[i]]
    BY <1>2, <2>1, <2>2
  <2> HIDE DEF left
  <2> QED
    BY <1>1, <1>2, <1>3, <2>3 DEF IsInjective, Range
<1>4. CASE \E i \in 1 .. Len(s) : s[i] = m
  <2>1. PICK k \in 1 .. Len(s) : s[k] = m
    BY <1>4
  <2>2. {j \in 1 .. k : s[j] = m} = {k}
    BY <1>2, <2>1
  <2>3. fromEnd(k) = Len(s)
    <3>1. rank(k) = 1
      BY <2>2, FS_Singleton, ZenonT(30)
    <3> QED
      BY <1>2, <3>1
  <2>4. removed = {k}
    <3>1. k \in removed
      <4> HIDE DEF fromEnd
      <4> QED
        BY <1>2, <2>1, <2>3
    <3>2. \A i \in removed : i = k
      BY <1>2, <2>1
    <3> QED
      BY <3>1, <3>2, ZenonT(30)
  <2>5. Cardinality(removed) = 1
    BY <2>4, FS_Singleton, ZenonT(30)
  <2> HIDE DEF removed, fromEnd
  <2>6. left = [i \in 1 .. Len(s) - 1 |-> IF i = k THEN s[Len(s)] ELSE s[i]]
    BY <2>3, <2>4, <2>5
  <2> HIDE DEF left
  <2> QED
    BY <1>1, <1>2, <2>1, <2>6 DEF IsInjective, Range
<1> QED
  BY <1>3, <1>4

\* addPool with one member adds it once.
LEMMA AddMembersInjective ==
    ASSUME NEW S, NEW s \in Seq(S), IsInjective(s), NEW e \in S
    PROVE  IsInjective(AddMembers(s, <<e>>))
<1>1. CASE e \in Range(s)
  BY <1>1 DEF AddMembers
<1>2. CASE e \notin Range(s)
  <2>1. \A i \in 1 .. Len(s) : s[i] # e
    BY <1>2 DEF Range
  <2>2. AddMembers(s, <<e>>) = s \o <<e>>
    BY <1>2 DEF AddMembers
  <2>3. /\ DOMAIN (s \o <<e>>) = 1 .. Len(s) + 1 /\ Len(s) \in Nat
        /\ \A i \in 1 .. Len(s) : (s \o <<e>>)[i] = s[i]
        /\ (s \o <<e>>)[Len(s) + 1] = e
    OBVIOUS
  <2> QED
    BY <2>1, <2>2, <2>3 DEF IsInjective
<1> QED
  BY <1>1, <1>2

\* A slice of one member leaves nothing.
LEMMA RemoveOwnFirstAlone ==
    ASSUME NEW S, NEW s \in Seq(S), Len(s) = 1
    PROVE  RemoveOwnFirst(s) = <<>>
<1> DEFINE rest == [i \in 1 .. Len(s) - 1 |-> IF i = 1 THEN s[Len(s)] ELSE s[i]]
<1>1. rest = <<>>
  OBVIOUS
<1> HIDE DEF rest
<1> QED
  BY <1>1 DEF RemoveOwnFirst, rest
-----------------------------------------------------------------------------
(***************************************************************************)
(* Pools                                                                   *)
(***************************************************************************)

\* A map of pools none of which is empty.
PoolsOK(ps) ==
    /\ IsMap(ps, Range(ObjectName), PoolResource)
    /\ \A n \in DOMAIN ps : ps[n].members # <<>>

\* HTTP routes have the names of tier-2 virtual servers, TCP routes others.
LEMMA Names ==
    /\ \A u \in Uri : ObjectName[u] \in Name
    /\ \A x \in Uri \cup RoutePort : ObjectName[x] \in Range(ObjectName)
    /\ \A u, v \in Uri : ObjectName[u] = ObjectName[v] => u = v
    /\ \A u \in Uri, p \in RoutePort : ObjectName[u] # ObjectName[p]
    /\ Name \subseteq Range(ObjectName)
<1>1. \A u \in Uri, p \in RoutePort : ObjectName[u] # ObjectName[p]
  BY RouterAssumption
<1> QED
  BY <1>1, RouterAssumption DEF Range

\* A pool with members may be added to the map.
LEMMA PutPool ==
    ASSUME NEW ps, PoolsOK(ps), NEW n \in Range(ObjectName), NEW pool \in PoolResource,
           pool.members # <<>>
    PROVE  PoolsOK(Put(ps, n, pool)) /\ DOMAIN Put(ps, n, pool) = DOMAIN ps \cup {n}
  BY DEF PoolsOK, IsMap, Put

\* Giving a pool other members.
LEMMA ExceptMembers ==
    ASSUME NEW ps, PoolsOK(ps), NEW n \in DOMAIN ps, NEW members \in Seq(Endpoint),
           members # <<>>
    PROVE  /\ PoolsOK([ps EXCEPT ![n].members = members])
           /\ DOMAIN [ps EXCEPT ![n].members = members] = DOMAIN ps
<1>1. [ps[n] EXCEPT !.members = members] \in PoolResource
  BY ZenonT(30) DEF PoolsOK, IsMap, PoolResource
<1>2. [ps[n] EXCEPT !.members = members].members = members
  BY DEF PoolsOK, IsMap, PoolResource
<1> QED
  BY <1>1, <1>2 DEF PoolsOK, IsMap

\* addPool leaves the pool it is asked for, with members, and the other pools.
LEMMA AddPool ==
    ASSUME NEW ps, PoolsOK(ps), NEW n \in Range(ObjectName), NEW pool \in PoolResource,
           pool.members # <<>>
    PROVE  PoolsOK(addPool(ps, n, pool)) /\ DOMAIN addPool(ps, n, pool) = DOMAIN ps \cup {n}
<1>1. CASE n \in DOMAIN ps
  <2>1. /\ ps[n].members \in Seq(Endpoint) /\ ps[n].members # <<>>
        /\ pool.members \in Seq(Endpoint)
    BY <1>1 DEF PoolsOK, IsMap, PoolResource
  <2>2. /\ AddMembers(ps[n].members, pool.members) \in Seq(Endpoint)
        /\ AddMembers(ps[n].members, pool.members) # <<>>
    BY <2>1, AddMembersSeq
  <2> QED
    BY <1>1, <2>2, ExceptMembers, ZenonT(30) DEF addPool
<1>2. CASE n \notin DOMAIN ps
  BY <1>2, PutPool, ZenonT(30) DEF addPool
<1> QED
  BY <1>1, <1>2

\* removePool leaves no pool without members.
LEMMA RemovePool ==
    ASSUME NEW ps, PoolsOK(ps), NEW n \in DOMAIN ps, NEW left \in Seq(Endpoint)
    PROVE  /\ PoolsOK(removePool(ps, n, left))
           /\ DOMAIN removePool(ps, n, left) =
                 IF left = <<>> THEN DOMAIN ps \ {n} ELSE DOMAIN ps
<1>1. PoolsOK(Drop(ps, n)) /\ DOMAIN Drop(ps, n) = DOMAIN ps \ {n}
  BY DEF PoolsOK, IsMap, Drop
<1> QED
  BY <1>1, ExceptMembers DEF removePool

\* A plan that sets something exists.
LEMMA SetsPlan ==
    ASSUME NEW p, NEW setting, Sets(p, setting)
    PROVE  p \in PlanID
  BY RouterAssumption DEF Sets, IsMap

\* Merging a plan into a pool leaves its members alone.
LEMMA UpdatedPool ==
    ASSUME NEW pool \in PoolResource, NEW p
    PROVE  UpdatePool(pool, p) \in PoolResource /\ UpdatePool(pool, p).members = pool.members
  BY SetsPlan, ZenonT(30) DEF UpdatePool, PoolResource

\* The pool that the config alone describes.
LEMMA NewPool ==
    ASSUME NEW members \in Seq(Endpoint)
    PROVE  DefaultPool(members) \in PoolResource /\ DefaultPool(members).members = members
  BY DEF DefaultPool, PoolResource
-----------------------------------------------------------------------------
(***************************************************************************)
(* The handlers                                                            *)
(***************************************************************************)

\* The types of what the handlers change.
ResourceTypeOK ==
    /\ IsMap(pools, Range(ObjectName), PoolResource)
    /\ IsMap(profiles, Name, PlanID \cup {Default})
    /\ tcpVirtuals \subseteq {ObjectName[p] : p \in RoutePort}
    /\ rules \subseteq Uri
    /\ IsMap(monitors, Name, PlanID)
    /\ IsMap(unmapped, Name, PlanID)
    /\ refused \subseteq Uri \X Endpoint
    /\ scarred \subseteq Name

\* What each handler may take for granted, and leaves behind.
ResourceInv == ResourceTypeOK /\ Coherent

\* assignVSPort adds the virtual server of its route and no other.
LEMMA AssignedVirtual ==
    ASSUME NEW n, assignVSPort(n)
    PROVE  DOMAIN virtuals' = DOMAIN virtuals \cup {n}
  BY ZenonT(30) DEF assignVSPort, takeReaped, takeNext, Record, Put

\* Where a pool and a virtual server stand for each other.
LEMMA CoherentHttp ==
    ASSUME ResourceInv, NEW u \in Uri
    PROVE  ObjectName[u] \in DOMAIN pools <=> ObjectName[u] \in DOMAIN virtuals
<1>1. ObjectName[u] \notin tcpVirtuals
  BY Names, ZenonT(30) DEF ResourceInv, ResourceTypeOK
<1> QED
  BY <1>1 DEF ResourceInv, Coherent

\* processRouteAdd gives a route its virtual, pool, profiles and rule together, or
\* nothing when it is refused.
LEMMA AddKeeps ==
    ASSUME ResourceInv, NEW u \in Uri, NEW e \in Endpoint, processRouteAdd(u, e)
    PROVE  ResourceInv' /\ [Tier2Next]_tier2Vars
<1> DEFINE n == ObjectName[u]
           plan == IF n \in DOMAIN unmapped THEN unmapped[n] ELSE Default
<1>1. n \in Name /\ n \in Range(ObjectName)
  BY Names
<1>2. ASSUME refuseAdd(u, e), UNCHANGED virtuals
      PROVE  ResourceInv'
  <2>1. /\ UNCHANGED <<pools, profiles, tcpVirtuals, rules, monitors, unmapped, scarred, virtuals>>
        /\ refused' = refused \cup {<<u, e>>}
    BY <1>2 DEF refuseAdd, resourceVars
  <2>2. refused' \subseteq Uri \X Endpoint
    <3>1. refused \subseteq Uri \X Endpoint
      BY ZenonT(30) DEF ResourceInv, ResourceTypeOK
    <3> QED
      BY <2>1, <3>1
  <2>3. ResourceTypeOK'
    BY <2>1, <2>2, ZenonT(30) DEF ResourceInv, ResourceTypeOK
  <2>4. Coherent'
    BY <2>1, ZenonT(30) DEF ResourceInv, Coherent
  <2> QED
    BY <2>3, <2>4 DEF ResourceInv
<1>3. CASE UNCHANGED tier2Vars /\ refuseAdd(u, e)
  BY <1>2, <1>3 DEF tier2Vars
<1>4. CASE assignVSPortFails(n) /\ refuseAdd(u, e)
  BY <1>1, <1>2, <1>4, ZenonT(30) DEF assignVSPortFails, ranOut, Tier2Next
<1>5. CASE /\ assignVSPort(n)
           /\ monitors' = IF Sets(plan, "monitors") THEN Put(monitors, n, plan) ELSE monitors
           /\ pools' = addPool(pools, n, UpdatePool(DefaultPool(<<e>>), plan))
           /\ profiles' = IF n \in DOMAIN virtuals THEN profiles
                          ELSE Put(profiles, n, UpdateProfiles(Default, plan))
           /\ rules' = rules \cup {u}
           /\ refused' = refused \ {<<u, e>>}
           /\ UNCHANGED <<tcpVirtuals, unmapped, scarred>>
  <2> HIDE DEF plan
  <2>1. DOMAIN virtuals' = DOMAIN virtuals \cup {n}
    BY <1>5, AssignedVirtual, ZenonT(30)
  <2>2. /\ UpdatePool(DefaultPool(<<e>>), plan) \in PoolResource
        /\ UpdatePool(DefaultPool(<<e>>), plan).members # <<>>
    <3>1. <<e>> \in Seq(Endpoint) /\ <<e>> # <<>>
      OBVIOUS
    <3>2. DefaultPool(<<e>>) \in PoolResource /\ DefaultPool(<<e>>).members = <<e>>
      BY <3>1, NewPool, ZenonT(30)
    <3>3. /\ UpdatePool(DefaultPool(<<e>>), plan) \in PoolResource
          /\ UpdatePool(DefaultPool(<<e>>), plan).members = DefaultPool(<<e>>).members
      BY <3>2, UpdatedPool
    <3> QED
      BY <3>1, <3>2, <3>3, ZenonT(30)
  <2>3. PoolsOK(pools') /\ DOMAIN pools' = DOMAIN pools \cup {n}
    <3>1. PoolsOK(pools)
      BY ZenonT(30) DEF ResourceInv, ResourceTypeOK, Coherent, PoolsOK
    <3> QED
      BY <1>1, <1>5, <2>2, <3>1, AddPool, ZenonT(30)
  <2>4. /\ IsMap(profiles', Name, PlanID \cup {Default})
        /\ DOMAIN profiles' = DOMAIN profiles \cup {n}
    <3>1. UpdateProfiles(Default, plan) \in PlanID \cup {Default}
      BY SetsPlan DEF UpdateProfiles
    <3>2. CASE n \in DOMAIN virtuals
      BY <1>5, <3>2, ZenonT(30) DEF ResourceInv, ResourceTypeOK, Coherent
    <3>3. CASE n \notin DOMAIN virtuals
      <4>1. IsMap(profiles, Name, PlanID \cup {Default})
        BY ZenonT(30) DEF ResourceInv, ResourceTypeOK
      <4> QED
        BY <1>1, <1>5, <3>1, <3>3, <4>1, ZenonT(30) DEF IsMap, Put
    <3> QED
      BY <3>2, <3>3, ZenonT(30)
  <2>5. /\ IsMap(monitors', Name, PlanID)
        /\ DOMAIN monitors' \subseteq DOMAIN monitors \cup {n}
    <3>1. IsMap(monitors, Name, PlanID)
      BY ZenonT(30) DEF ResourceInv, ResourceTypeOK
    <3>2. CASE Sets(plan, "monitors")
      <4>1. plan \in PlanID
        BY <3>2, SetsPlan, ZenonT(30)
      <4> QED
        BY <1>1, <1>5, <3>1, <3>2, <4>1 DEF IsMap, Put
    <3> QED
      BY <1>5, <3>1, <3>2, ZenonT(30)
  <2>6. ResourceTypeOK'
    BY <1>5, <2>3, <2>4, <2>5, ZenonT(30) DEF ResourceInv, ResourceTypeOK, PoolsOK
  <2>7. Coherent'
    <3>1. UNCHANGED tcpVirtuals /\ rules' = rules \cup {u}
      BY <1>5, ZenonT(30)
    <3>2. {ObjectName[v] : v \in rules'} = {ObjectName[v] : v \in rules} \cup {n}
      BY <3>1, ZenonT(30)
    <3> HIDE DEF n
    <3> QED
      BY <2>1, <2>3, <2>4, <2>5, <3>1, <3>2, ZenonT(30) DEF ResourceInv, Coherent, PoolsOK
  <2> QED
    BY <1>1, <1>5, <2>6, <2>7, ZenonT(30) DEF ResourceInv, Tier2Next
<1> QED
  BY <1>3, <1>4, <1>5, ZenonT(30) DEF processRouteAdd

\* The last endpoint takes the virtual server, the rule and the monitors along.
LEMMA RemoveKeeps ==
    ASSUME ResourceInv, NEW u \in Uri, NEW e \in Endpoint, processRouteRemove(u, e)
    PROVE  ResourceInv' /\ [Tier2Next]_tier2Vars
<1> DEFINE n == ObjectName[u]
           left == RemoveMember(pools[n].members, e)
<1>1. n \in Name /\ n \in Range(ObjectName)
  BY Names, ZenonT(30)
<1>2. /\ refused' = refused \ {<<u, e>>}
      /\ UNCHANGED <<tcpVirtuals, unmapped>>
  BY ZenonT(30) DEF processRouteRemove
<1>3. CASE UNCHANGED <<tier2Vars, pools, profiles, rules, monitors, scarred>>
  <2>1. UNCHANGED <<virtuals, pools, profiles, rules, monitors, scarred>>
    BY <1>3, ZenonT(30) DEF tier2Vars
  <2>2. ResourceTypeOK'
    BY <1>2, <2>1, ZenonT(30) DEF ResourceInv, ResourceTypeOK
  <2>3. Coherent'
    BY <1>2, <2>1, ZenonT(30) DEF ResourceInv, Coherent
  <2> QED
    BY <1>3, <2>2, <2>3 DEF ResourceInv
<1>4. CASE n \in DOMAIN pools /\ pools' = removePool(pools, n, left)
  <2>1. PoolsOK(pools) /\ left \in Seq(Endpoint)
    <3>1. PoolsOK(pools)
      BY ZenonT(30) DEF ResourceInv, ResourceTypeOK, Coherent, PoolsOK
    <3>2. pools[n].members \in Seq(Endpoint)
      BY <1>4, <3>1 DEF PoolsOK, IsMap, PoolResource
    <3> QED
      BY <3>1, <3>2, RemoveMemberSeq, ZenonT(30)
  <2> HIDE DEF left
  <2>2. /\ PoolsOK(pools')
        /\ DOMAIN pools' = IF left = <<>> THEN DOMAIN pools \ {n} ELSE DOMAIN pools
    BY <1>4, <2>1, RemovePool, ZenonT(30)
  <2>3. n \in DOMAIN virtuals /\ n \notin tcpVirtuals
    BY <1>4, CoherentHttp, Names, ZenonT(30) DEF ResourceInv, ResourceTypeOK
  <2>4. CASE /\ left = <<>>
             /\ monitors' = Drop(monitors, n)
             /\ rules' = rules \ {u}
             /\ profiles' = Drop(profiles, n)
             /\ releaseVSPort(n)
             /\ scarred' = scarred \ {n}
    <3>1. DOMAIN virtuals' = DOMAIN virtuals \ {n}
      BY <2>4, ZenonT(30) DEF releaseVSPort, Drop
    <3>2. /\ IsMap(profiles', Name, PlanID \cup {Default})
          /\ DOMAIN profiles' = DOMAIN profiles \ {n}
      BY <2>4 DEF ResourceInv, ResourceTypeOK, IsMap, Drop
    <3>3. IsMap(monitors', Name, PlanID) /\ DOMAIN monitors' = DOMAIN monitors \ {n}
      BY <2>4, ZenonT(30) DEF ResourceInv, ResourceTypeOK, IsMap, Drop
    <3>4. ResourceTypeOK'
      BY <1>2, <2>2, <2>4, <3>2, <3>3, ZenonT(30) DEF ResourceInv, ResourceTypeOK, PoolsOK
    <3>5. {ObjectName[v] : v \in rules'} = {ObjectName[v] : v \in rules} \ {n}
      BY <2>4, Names, ZenonT(30) DEF ResourceInv, ResourceTypeOK
    <3>6. Coherent'
      <4> HIDE DEF n
      <4> QED
        BY <1>2, <2>2, <2>3, <2>4, <3>1, <3>2, <3>3, <3>5, ZenonT(30) DEF ResourceInv, Coherent, PoolsOK
    <3> QED
      BY <2>3, <2>4, <3>4, <3>6, ZenonT(30) DEF ResourceInv, Tier2Next
  <2>5. CASE left # <<>> /\ UNCHANGED <<tier2Vars, profiles, rules, monitors, scarred>>
    <3>1. UNCHANGED <<virtuals, profiles, rules, monitors, scarred>>
      BY <2>5 DEF tier2Vars
    <3>2. ResourceTypeOK'
      BY <1>2, <2>2, <3>1, ZenonT(30) DEF ResourceInv, ResourceTypeOK, PoolsOK
    <3>3. Coherent'
      BY <1>2, <2>2, <2>5, <3>1, ZenonT(30) DEF ResourceInv, Coherent, PoolsOK
    <3> QED
      BY <2>5, <3>2, <3>3 DEF ResourceInv
  <2> QED
    BY <1>3, <1>4, <2>4, <2>5, ZenonT(30) DEF processRouteRemove, left
<1> QED
  BY <1>3, <1>4, ZenonT(30) DEF processRouteRemove

\* A plan changes settings of resources that exist, and their monitors.
LEMMA BindKeeps ==
    ASSUME ResourceInv, NEW u \in Uri, NEW p \in PlanID, processRouteBind(u, p)
    PROVE  ResourceInv' /\ [Tier2Next]_tier2Vars
<1> DEFINE n == ObjectName[u]
<1>1. n \in Name
  BY Names
<1>2. UNCHANGED <<virtuals, tcpVirtuals, rules, refused, scarred>> /\ UNCHANGED tier2Vars
  BY DEF processRouteBind, tier2Vars
<1>3. CASE /\ Mapped(n)
           /\ pools' = BoundPools(n, p)
           /\ profiles' = [profiles EXCEPT ![n] = UpdateProfiles(@, p)]
           /\ monitors' = BoundMonitors(n, p)
           /\ UNCHANGED unmapped
  <2>1. n \in DOMAIN pools /\ n \in DOMAIN virtuals
    BY <1>3 DEF Mapped
  <2>2. PoolsOK(pools') /\ DOMAIN pools' = DOMAIN pools
    <3>1. PoolsOK(pools) /\ pools[n] \in PoolResource
      BY <2>1, ZenonT(30) DEF ResourceInv, ResourceTypeOK, Coherent, PoolsOK, IsMap
    <3>2. /\ UpdatePool(pools[n], p) \in PoolResource
          /\ UpdatePool(pools[n], p).members = pools[n].members
      BY <3>1, UpdatedPool
    <3>3. pools' = [pools EXCEPT ![n] = UpdatePool(pools[n], p)]
      BY <1>3 DEF BoundPools
    <3> QED
      BY <2>1, <3>1, <3>2, <3>3 DEF PoolsOK, IsMap
  <2>3. IsMap(profiles', Name, PlanID \cup {Default}) /\ DOMAIN profiles' = DOMAIN profiles
    <3>1. IsMap(profiles, Name, PlanID \cup {Default}) /\ n \in DOMAIN profiles
      BY <2>1 DEF ResourceInv, ResourceTypeOK, Coherent
    <3>2. UpdateProfiles(profiles[n], p) \in PlanID \cup {Default}
      BY <3>1 DEF UpdateProfiles, IsMap
    <3>3. profiles' = [profiles EXCEPT ![n] = UpdateProfiles(profiles[n], p)]
      BY <1>3
    <3> QED
      BY <3>1, <3>2, <3>3, ZenonT(30) DEF IsMap
  <2>4. IsMap(monitors', Name, PlanID) /\ DOMAIN monitors' \subseteq DOMAIN monitors \cup {n}
    <3>1. IsMap(monitors, Name, PlanID)
      BY ZenonT(30) DEF ResourceInv, ResourceTypeOK
    <3> QED
      BY <1>1, <1>3, <3>1, ZenonT(30) DEF BoundMonitors, IsMap, Put, Drop
  <2>5. ResourceTypeOK'
    BY <1>2, <1>3, <2>2, <2>3, <2>4, ZenonT(30) DEF ResourceInv, ResourceTypeOK, PoolsOK
  <2>6. Coherent'
    BY <1>2, <2>1, <2>2, <2>3, <2>4, ZenonT(30) DEF ResourceInv, Coherent, PoolsOK
  <2> QED
    BY <1>2, <2>5, <2>6, ZenonT(30) DEF ResourceInv
<1>4. CASE /\ unmapped' = IF p \in DOMAIN plansMap THEN Put(unmapped, n, p) ELSE unmapped
           /\ UNCHANGED <<pools, profiles, monitors>>
  <2>1. IsMap(unmapped', Name, PlanID)
    BY <1>1, <1>4, ZenonT(30) DEF ResourceInv, ResourceTypeOK, IsMap, Put
  <2>2. ResourceTypeOK'
    BY <1>2, <1>4, <2>1, ZenonT(30) DEF ResourceInv, ResourceTypeOK
  <2>3. Coherent'
    BY <1>2, <1>4, ZenonT(30) DEF ResourceInv, Coherent
  <2> QED
    BY <1>2, <2>2, <2>3 DEF ResourceInv
<1> QED
  BY <1>3, <1>4 DEF processRouteBind

\* The pool keeps its members, whatever removePool left of it in between.
LEMMA UnbindKeeps ==
    ASSUME ResourceInv, NEW u \in Uri, processRouteUnbind(u)
    PROVE  ResourceInv' /\ [Tier2Next]_tier2Vars
<1> DEFINE n == ObjectName[u]
           members == pools[n].members
           left == RemoveOwnFirst(members)
<1>1. n \in Name /\ n \in Range(ObjectName)
  BY Names
<1>2. UNCHANGED <<virtuals, tcpVirtuals, rules, refused>> /\ UNCHANGED tier2Vars
  BY ZenonT(30) DEF processRouteUnbind, tier2Vars
<1>3. CASE /\ Mapped(n)
           /\ pools' = addPool(removePool(pools, n, left), n, DefaultPool(members))
           /\ profiles' = [profiles EXCEPT ![n] = Default]
           /\ monitors' = Drop(monitors, n)
           /\ scarred' = IF Len(members) > 1 THEN scarred \cup {n} ELSE scarred
           /\ UNCHANGED unmapped
  <2>1. n \in DOMAIN pools /\ n \in DOMAIN virtuals
    BY <1>3, ZenonT(30) DEF Mapped
  <2>2. PoolsOK(pools') /\ DOMAIN pools' = DOMAIN pools
    <3>1. PoolsOK(pools) /\ members \in Seq(Endpoint) /\ members # <<>>
      BY <2>1 DEF ResourceInv, ResourceTypeOK, Coherent, PoolsOK, IsMap, PoolResource
    <3> HIDE DEF members
    <3>2. left \in Seq(Endpoint)
      BY <3>1, RemoveOwnFirstSeq
    <3>3. DefaultPool(members) \in PoolResource /\ DefaultPool(members).members # <<>>
      BY <3>1, NewPool
    <3> HIDE DEF left
    <3>4. /\ PoolsOK(removePool(pools, n, left))
          /\ DOMAIN removePool(pools, n, left) =
                IF left = <<>> THEN DOMAIN pools \ {n} ELSE DOMAIN pools
      BY <2>1, <3>1, <3>2, RemovePool, ZenonT(30)
    <3>5. DOMAIN removePool(pools, n, left) \cup {n} = DOMAIN pools
      BY <2>1, <3>4, ZenonT(30)
    <3> QED
      BY <1>1, <1>3, <3>3, <3>4, <3>5, AddPool, ZenonT(30)
  <2>3. IsMap(profiles', Name, PlanID \cup {Default}) /\ DOMAIN profiles' = DOMAIN profiles
    BY <1>3, ZenonT(30) DEF ResourceInv, ResourceTypeOK, IsMap
  <2>4. IsMap(monitors', Name, PlanID) /\ DOMAIN monitors' \subseteq DOMAIN monitors
    BY <1>3, ZenonT(30) DEF ResourceInv, ResourceTypeOK, IsMap, Drop
  <2>5. scarred' \subseteq Name
    BY <1>1, <1>3, ZenonT(30) DEF ResourceInv, ResourceTypeOK
  <2>6. ResourceTypeOK'
    BY <1>2, <1>3, <2>2, <2>3, <2>4, <2>5, ZenonT(30) DEF ResourceInv, ResourceTypeOK, PoolsOK
  <2>7. Coherent'
    BY <1>2, <2>2, <2>3, <2>4, ZenonT(30) DEF ResourceInv, Coherent, PoolsOK
  <2> QED
    BY <1>2, <2>6, <2>7 DEF ResourceInv
<1>4. CASE unmapped' = Drop(unmapped, n) /\ UNCHANGED <<pools, profiles, monitors, scarred>>
  <2>1. IsMap(unmapped', Name, PlanID)
    BY <1>4, ZenonT(30) DEF ResourceInv, ResourceTypeOK, IsMap, Drop
  <2>2. ResourceTypeOK'
    BY <1>2, <1>4, <2>1, ZenonT(30) DEF ResourceInv, ResourceTypeOK
  <2>3. Coherent'
    BY <1>2, <1>4, ZenonT(30) DEF ResourceInv, Coherent
  <2> QED
    BY <1>2, <2>2, <2>3 DEF ResourceInv
<1> QED
  BY <1>3, <1>4, ZenonT(30) DEF processRouteUnbind

\* processTCPRouteAdd gives a route port its virtual and its pool.
LEMMA TCPAddKeeps ==
    ASSUME ResourceInv, NEW port \in RoutePort, NEW e \in Endpoint, processTCPRouteAdd(port, e)
    PROVE  ResourceInv' /\ [Tier2Next]_tier2Vars
<1> DEFINE n == ObjectName[port]
<1>1. n \in Range(ObjectName)
  BY Names
<1>2. /\ pools' = addPool(pools, n, DefaultPool(<<e>>))
      /\ tcpVirtuals' = tcpVirtuals \cup {n}
      /\ UNCHANGED <<virtuals, profiles, rules, monitors, unmapped, refused, scarred>>
      /\ UNCHANGED tier2Vars
  BY DEF processTCPRouteAdd, tier2Vars
<1>3. PoolsOK(pools') /\ DOMAIN pools' = DOMAIN pools \cup {n}
  <2>1. <<e>> \in Seq(Endpoint) /\ <<e>> # <<>>
    OBVIOUS
  <2>2. DefaultPool(<<e>>) \in PoolResource /\ DefaultPool(<<e>>).members # <<>>
    BY <2>1, NewPool, ZenonT(30)
  <2>3. PoolsOK(pools)
    BY ZenonT(30) DEF ResourceInv, ResourceTypeOK, Coherent, PoolsOK
  <2> QED
    BY <1>1, <1>2, <2>2, <2>3, AddPool, ZenonT(30)
<1>4. ResourceTypeOK'
  BY <1>2, <1>3, ZenonT(30) DEF ResourceInv, ResourceTypeOK, PoolsOK
<1>5. Coherent'
  BY <1>2, <1>3, ZenonT(30) DEF ResourceInv, Coherent, PoolsOK
<1> QED
  BY <1>2, <1>4, <1>5 DEF ResourceInv

\* processTCPRouteRemove takes the virtual away with the last member.
LEMMA TCPRemoveKeeps ==
    ASSUME ResourceInv, NEW port \in RoutePort, NEW e \in Endpoint,
           processTCPRouteRemove(port, e)
    PROVE  ResourceInv' /\ [Tier2Next]_tier2Vars
<1> DEFINE n == ObjectName[port]
           left == RemoveMember(pools[n].members, e)
<1>1. /\ UNCHANGED <<virtuals, profiles, rules, monitors, unmapped, refused, scarred>>
      /\ UNCHANGED tier2Vars
  BY ZenonT(30) DEF processTCPRouteRemove, tier2Vars
<1>2. CASE UNCHANGED <<pools, tcpVirtuals>>
  <2>1. ResourceTypeOK'
    BY <1>1, <1>2, ZenonT(30) DEF ResourceInv, ResourceTypeOK
  <2>2. Coherent'
    BY <1>1, <1>2, ZenonT(30) DEF ResourceInv, Coherent
  <2> QED
    BY <1>1, <2>1, <2>2, ZenonT(30) DEF ResourceInv
<1>3. CASE /\ n \in DOMAIN pools
           /\ pools' = removePool(pools, n, left)
           /\ tcpVirtuals' = IF left = <<>> THEN tcpVirtuals \ {n} ELSE tcpVirtuals
  <2>1. PoolsOK(pools) /\ left \in Seq(Endpoint)
    <3>1. PoolsOK(pools)
      BY DEF ResourceInv, ResourceTypeOK, Coherent, PoolsOK
    <3>2. pools[n].members \in Seq(Endpoint)
      BY <1>3, <3>1 DEF PoolsOK, IsMap, PoolResource
    <3> QED
      BY <3>1, <3>2, RemoveMemberSeq, ZenonT(30)
  <2> HIDE DEF left
  <2>2. /\ PoolsOK(pools')
        /\ DOMAIN pools' = IF left = <<>> THEN DOMAIN pools \ {n} ELSE DOMAIN pools
    BY <1>3, <2>1, RemovePool, ZenonT(30)
  <2>3. n \notin DOMAIN virtuals
    BY Names, ZenonT(30) DEF ResourceInv, ResourceTypeOK, Coherent
  <2>4. ResourceTypeOK'
    BY <1>1, <1>3, <2>2, ZenonT(30) DEF ResourceInv, ResourceTypeOK, PoolsOK
  <2>5. Coherent'
    BY <1>1, <1>3, <2>2, <2>3, ZenonT(30) DEF ResourceInv, Coherent, PoolsOK
  <2> QED
    BY <1>1, <2>4, <2>5 DEF ResourceInv
<1> QED
  BY <1>2, <1>3, ZenonT(30) DEF processTCPRouteRemove

\* Whatever update the worker takes, its handler keeps the resources in step, and
\* does to the tier-2 part what an operation of the allocator does.
LEMMA HandleKeeps ==
    ASSUME ResourceInv, NEW i \in Item, handle(i)
    PROVE  ResourceInv' /\ [Tier2Next]_tier2Vars
<1>1. CASE i \in HttpItem /\ i.op = "Add" /\ processRouteAdd(i.uri, i.endpoint)
  <2>1. i.uri \in Uri /\ i.endpoint \in Endpoint
    BY <1>1 DEF HttpItem
  <2> QED
    BY <1>1, <2>1, AddKeeps
<1>2. CASE i \in HttpItem /\ i.op = "Remove" /\ processRouteRemove(i.uri, i.endpoint)
  <2>1. i.uri \in Uri /\ i.endpoint \in Endpoint
    BY <1>2 DEF HttpItem
  <2> QED
    BY <1>2, <2>1, RemoveKeeps
<1>3. CASE i \in HttpItem /\ i.op = "Bind" /\ processRouteBind(i.uri, i.planID)
  <2>1. i.uri \in Uri /\ i.planID \in PlanID
    BY <1>3 DEF HttpItem
  <2> QED
    BY <1>3, <2>1, BindKeeps
<1>4. CASE i \in HttpItem /\ i.op = "Unbind" /\ processRouteUnbind(i.uri)
  <2>1. i.uri \in Uri
    BY <1>4 DEF HttpItem
  <2> QED
    BY <1>4, <2>1, UnbindKeeps
<1>5. CASE i \in TcpItem /\ i.op = "Add" /\ processTCPRouteAdd(i.routePort, i.member)
  <2>1. i.routePort \in RoutePort /\ i.member \in Endpoint
    BY <1>5 DEF TcpItem
  <2> QED
    BY <1>5, <2>1, TCPAddKeeps
<1>6. CASE i \in TcpItem /\ i.op = "Remove" /\ processTCPRouteRemove(i.routePort, i.member)
  <2>1. i.routePort \in RoutePort /\ i.member \in Endpoint
    BY <1>6 DEF TcpItem
  <2> QED
    BY <1>6, <2>1, TCPRemoveKeeps
<1> QED
  BY <1>1, <1>2, <1>3, <1>4, <1>5, <1>6 DEF handle
=============================================================================
