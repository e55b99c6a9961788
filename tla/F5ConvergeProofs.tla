-------------------------- MODULE F5ConvergeProofs --------------------------
(***************************************************************************)
(* Updates of a route and endpoint take effect in the order in which       *)
(* UpdateRoute was called, for any routes, endpoints, plans and queues:    *)
(* what the loops over the members do to the set of members,               *)
(* what each handler does to the members of each pool, and the             *)
(* inductive invariants that relate members, the queued updates and the    *)
(* update in progress to the last call made.                               *)
(***************************************************************************)
EXTENDS F5RouterProofs, WellFoundedInduction

(***************************************************************************)
(* The member slices                                                       *)
(***************************************************************************)

\* Of two positions of a slice or of the queue, neither before the other.
LEMMA SamePosition ==
    ASSUME NEW i \in Int, NEW j \in Int, i <= j, j <= i
    PROVE  i = j
  OBVIOUS

\* Get moves every position of the queue down by one.
LEMMA PositionBefore ==
    ASSUME NEW i \in Nat, NEW j \in Nat, i + 1 <= j
    PROVE  i <= j - 1
  OBVIOUS

\* A slice without members, as removePool leaves none behind.
LEMMA NoMembers == Range(<<>>) = {}
  BY DEF Range

\* Numbers have a least one among them,
LEMMA NatMin ==
    ASSUME NEW T \in SUBSET Nat, T # {}
    PROVE  \E m \in T : \A k \in T : m <= k
<1> DEFINE R == {ss \in Nat \X Nat : ss[1] < ss[2]}
<1>1. IsWellFoundedOn(R, Nat)
  BY NatLessThanWellFounded DEF OpToRel
<1> HIDE DEF R
<1>2. PICK m \in T : \A k \in T : ~(<<k, m>> \in R)
  BY <1>1, WFMin, ZenonT(30)
<1>3. \A k \in T : ~(k < m)
  BY <1>2, ZenonT(30) DEF R
<1> SUFFICES \A k \in T : m <= k
  OBVIOUS
<1> QED
  BY <1>3

\* and the positions of a slice a greatest.
LEMMA Greatest ==
    ASSUME NEW n \in Nat, NEW T \in SUBSET (1 .. n), T # {}
    PROVE  \E m \in T : \A k \in T : k <= m
<1> DEFINE U == {n - k : k \in T}
<1>1. U \in SUBSET Nat /\ U # {}
  <2>1. \A k \in T : n - k \in Nat
    OBVIOUS
  <2> QED
    BY <2>1, ZenonT(30)
<1>2. PICK m \in U : \A k \in U : m <= k
  <2> HIDE DEF U
  <2> QED
    BY <1>1, NatMin
<1>3. PICK t \in T : m = n - t
  OBVIOUS
<1>4. \A k \in T : n - t <= n - k
  BY <1>2, <1>3
<1> QED
  BY <1>4

\* How many positions from first to i of s hold m.
Matches(s, m, first, i) == {j \in first .. i : s[j] = m}
Rank(s, m, first, i) == Cardinality(Matches(s, m, first, i))

\* The rank grows by one at each match and nowhere else.
LEMMA RankSteps ==
    ASSUME NEW s, NEW m, NEW first \in 1 .. 2
    PROVE  /\ \A i \in Int : IsFiniteSet(Matches(s, m, first, i)) /\ Rank(s, m, first, i) \in Nat
           /\ Rank(s, m, first, first - 1) = 0
           /\ \A i \in Int : i >= first /\ s[i] = m
                 => Rank(s, m, first, i) = Rank(s, m, first, i - 1) + 1
           /\ \A i \in Int : s[i] # m => Rank(s, m, first, i) = Rank(s, m, first, i - 1)
           /\ \A i, j \in Int : i <= j => Rank(s, m, first, i) <= Rank(s, m, first, j)
<1>1. \A i \in Int : IsFiniteSet(Matches(s, m, first, i)) /\ Rank(s, m, first, i) \in Nat
  <2> TAKE i \in Int
  <2>1. IsFiniteSet(first .. i) /\ Matches(s, m, first, i) \subseteq first .. i
    BY FS_Interval DEF Matches
  <2> QED
    BY <2>1, FS_Subset, FS_CardinalityType DEF Rank
<1>2. Rank(s, m, first, first - 1) = 0
  <2>1. Matches(s, m, first, first - 1) = {}
    BY DEF Matches
  <2> QED
    BY <2>1, FS_EmptySet DEF Rank
<1>3. ASSUME NEW i \in Int, i >= first, s[i] = m
      PROVE  Rank(s, m, first, i) = Rank(s, m, first, i - 1) + 1
  <2>1. /\ Matches(s, m, first, i) = Matches(s, m, first, i - 1) \cup {i}
        /\ i \notin Matches(s, m, first, i - 1)
    BY <1>3 DEF Matches
  <2>2. IsFiniteSet(Matches(s, m, first, i - 1))
    BY <1>1
  <2> QED
    BY <2>1, <2>2, FS_AddElement DEF Rank
<1>4. ASSUME NEW i \in Int, s[i] # m
      PROVE  Rank(s, m, first, i) = Rank(s, m, first, i - 1)
  <2>1. Matches(s, m, first, i) = Matches(s, m, first, i - 1)
    BY <1>4 DEF Matches
  <2> QED
    BY <2>1 DEF Rank
<1>5. ASSUME NEW i \in Int, NEW j \in Int, i <= j
      PROVE  Rank(s, m, first, i) <= Rank(s, m, first, j)
  <2>1. Matches(s, m, first, i) \subseteq Matches(s, m, first, j)
    BY <1>5 DEF Matches
  <2> QED
    BY <1>1, <2>1, FS_Subset DEF Rank
<1> QED
  BY <1>1, <1>2, <1>3, <1>4, <1>5

\* So there is a match of each rank up to that of a given one.
LEMMA RankReached ==
    ASSUME NEW s, NEW m, NEW first \in 1 .. 2, NEW n \in Int, n >= first,
           NEW k \in 1 .. Rank(s, m, first, n)
    PROVE  \E i \in first .. n : s[i] = m /\ Rank(s, m, first, i) = k
<1> DEFINE rank(i) == Rank(s, m, first, i)
<1>0. /\ \A i \in Int : rank(i) \in Nat
      /\ rank(first - 1) = 0
      /\ \A i \in Int : i >= first /\ s[i] = m => rank(i) = rank(i - 1) + 1
      /\ \A i \in Int : s[i] # m => rank(i) = rank(i - 1)
  BY RankSteps, ZenonT(30)
<1> HIDE DEF rank
<1> DEFINE T == {i \in first .. n : k <= rank(i)}
<1>1. T \in SUBSET Nat /\ n \in T
  BY <1>0 DEF rank
<1>2. PICK i \in T : \A j \in T : i <= j
  <2> HIDE DEF T
  <2> QED
    BY <1>1, NatMin
<1>3. i \in first .. n /\ k <= rank(i)
  BY <1>2
<1>4. rank(i - 1) < k
  <2>1. i - 1 \in first .. n \/ i - 1 = first - 1
    BY <1>3
  <2>2. i - 1 \notin T
    BY <1>2, <1>3
  <2>3. rank(i - 1) \in Nat /\ rank(first - 1) = 0
    BY <1>0, <1>3
  <2> QED
    BY <2>1, <2>2, <2>3
<1>5. rank(i - 1) \in Nat /\ rank(i) \in Nat
  BY <1>0, <1>3
<1>6. s[i] = m
  <2>1. s[i] # m => rank(i) = rank(i - 1)
    BY <1>0, <1>3
  <2> QED
    BY <1>3, <1>4, <1>5, <2>1
<1>7. rank(i) = rank(i - 1) + 1
  BY <1>0, <1>3, <1>6
<1>8. rank(i) = k
  BY <1>3, <1>4, <1>5, <1>7
<1> QED
  BY <1>3, <1>6, <1>8 DEF rank

\* removePool's loop loses no other member: an element it cuts off at the end was
\* moved to the place of the match of the same rank.
LEMMA RemoveMatchesKeeps ==
    ASSUME NEW S, NEW s \in Seq(S), NEW m, NEW first \in 1 .. 2
    PROVE  /\ Range(s) \ {m} \subseteq Range(RemoveMatches(s, m, first))
           /\ Range(RemoveMatches(s, m, first)) \subseteq Range(s)
           /\ first = 2 /\ s # <<>> => s[1] \in Range(RemoveMatches(s, m, first))
<1> DEFINE rank(i) == Rank(s, m, first, i)
           fromEnd(i) == Len(s) - rank(i) + 1
           removed == {i \in first .. Len(s) : s[i] = m /\ i <= fromEnd(i)}
           c == Cardinality(removed)
           left == [i \in 1 .. Len(s) - c |-> IF i \in removed THEN s[fromEnd(i)] ELSE s[i]]
<1>1. RemoveMatches(s, m, first) = left
  BY DEF RemoveMatches, Rank, Matches
<1>2. /\ \A i \in Int : rank(i) \in Nat
      /\ rank(first - 1) = 0
      /\ \A i \in Int : i >= first /\ s[i] = m => rank(i) = rank(i - 1) + 1
      /\ \A i, j \in Int : i <= j => rank(i) <= rank(j)
  BY RankSteps, ZenonT(30)
<1>3. Len(s) \in Nat /\ DOMAIN s = 1 .. Len(s)
  OBVIOUS
<1>4. \A n \in first .. Len(s) : \A k \in 1 .. rank(n) :
         \E i \in first .. n : s[i] = m /\ rank(i) = k
  <2> TAKE n \in first .. Len(s)
  <2> TAKE k \in 1 .. rank(n)
  <2>1. n \in Int /\ n >= first
    OBVIOUS
  <2> QED
    BY <2>1, RankReached, ZenonT(30)
<1> HIDE DEF rank
<1>5. IsFiniteSet(removed) /\ c \in Nat
  <2>1. IsFiniteSet(first .. Len(s)) /\ removed \subseteq first .. Len(s)
    BY <1>3, FS_Interval
  <2> QED
    BY <2>1, FS_Subset, FS_CardinalityType, ZenonT(30)
<1>6. \A i \in removed : fromEnd(i) \in 1 .. Len(s) /\ i \in first .. Len(s) /\ s[i] = m
  <2> TAKE i \in removed
  <2>1. /\ i \in first .. Len(s) /\ i <= fromEnd(i) /\ s[i] = m
        /\ i \in Int /\ i - 1 \in Int /\ i >= first
    OBVIOUS
  <2>2. rank(i) \in Nat /\ rank(i - 1) \in Nat /\ rank(i) = rank(i - 1) + 1
    BY <1>2, <2>1, ZenonT(30)
  <2> QED
    BY <1>3, <2>1, <2>2
\* The removed positions are the matches up to the last of them.
<1>7. ASSUME removed # {}
      PROVE  \E n \in removed : rank(n) = c
  <2>1. PICK n \in removed : \A i \in removed : i <= n
    <3>1. removed \in SUBSET (1 .. Len(s))
      OBVIOUS
    <3> HIDE DEF removed
    <3> QED
      BY <1>3, <1>7, <3>1, Greatest, ZenonT(30)
  <2>2. removed \subseteq Matches(s, m, first, n)
    BY <2>1 DEF Matches
  <2>3. Matches(s, m, first, n) \subseteq removed
    <3> SUFFICES ASSUME NEW j \in Matches(s, m, first, n) PROVE j \in removed
      OBVIOUS
    <3>1. j \in first .. n /\ s[j] = m /\ n \in first .. Len(s) /\ n <= fromEnd(n)
      BY <2>1 DEF Matches
    <3>2. rank(j) <= rank(n) /\ rank(j) \in Nat /\ rank(n) \in Nat
      BY <1>2, <3>1
    <3> QED
      BY <1>3, <3>1, <3>2
  <2>4. removed = Matches(s, m, first, n)
    BY <2>2, <2>3
  <2> QED
    BY <2>4, ZenonT(30) DEF Rank, rank
<1>8. \A k \in 1 .. c : \E i \in removed : rank(i) = k
  <2> SUFFICES ASSUME NEW k \in 1 .. c PROVE \E i \in removed : rank(i) = k
    OBVIOUS
  <2>1. removed # {}
    <3>1. c # 0
      BY <1>5
    <3> QED
      BY <3>1, FS_EmptySet, ZenonT(30)
  <2>2. PICK n \in removed : rank(n) = c
    BY <1>7, <2>1
  <2>3. n \in first .. Len(s) /\ n <= fromEnd(n)
    BY <2>2
  <2>4. PICK i \in first .. n : s[i] = m /\ rank(i) = k
    BY <1>4, <2>2, <2>3
  <2>5. i <= fromEnd(i)
    BY <1>3, <1>5, <2>2, <2>3, <2>4
  <2> QED
    BY <2>3, <2>4, <2>5
<1>9. \A i \in 1 .. Len(s) - c : left[i] = IF i \in removed THEN s[fromEnd(i)] ELSE s[i]
  OBVIOUS
<1>10. DOMAIN left = 1 .. Len(s) - c
  OBVIOUS
<1>11. Range(left) \subseteq Range(s)
  <2> HIDE DEF left, removed, fromEnd, c
  <2>1. \A i \in 1 .. Len(s) - c : i \in 1 .. Len(s)
    BY <1>3, <1>5
  <2> QED
    BY <1>3, <1>6, <1>9, <1>10, <2>1 DEF Range
<1>12. ASSUME NEW p \in 1 .. Len(s), s[p] # m
       PROVE  s[p] \in Range(left)
  <2>1. CASE p <= Len(s) - c
    <3>1. p \in 1 .. Len(s) - c /\ p \notin removed
      BY <1>3, <1>5, <1>12, <2>1
    <3> HIDE DEF left, removed, c
    <3> QED
      BY <1>9, <1>10, <3>1 DEF Range
  <2>2. CASE p > Len(s) - c
    <3>1. Len(s) - p + 1 \in 1 .. c /\ c \in 1 .. c
      BY <1>3, <1>5, <2>2
    <3>2. PICK i \in removed : rank(i) = Len(s) - p + 1
      <4> HIDE DEF removed
      <4> QED
        BY <1>8, <3>1
    <3>3. i <= p /\ i # p /\ fromEnd(i) = p /\ i \in first .. Len(s)
      BY <1>3, <1>12, <3>2
    <3>4. PICK n \in removed : rank(n) = c
      <4> HIDE DEF removed
      <4> QED
        BY <1>8, <3>1
    <3>5. n \in first .. Len(s) /\ n <= Len(s) - c + 1
      BY <3>4
    <3>6. n <= i => c <= Len(s) - p + 1
      BY <1>2, <3>2, <3>3, <3>4, <3>5
    <3>7. i <= Len(s) - c
      BY <1>3, <1>5, <2>2, <3>3, <3>5, <3>6
    <3>8. i \in 1 .. Len(s) - c
      BY <1>3, <1>5, <3>3, <3>7
    <3> HIDE DEF left, removed, c, fromEnd
    <3> QED
      BY <1>9, <1>10, <3>2, <3>3, <3>8 DEF Range
  <2> QED
    BY <1>3, <1>5, <2>1, <2>2
<1>13. first = 2 /\ s # <<>> => s[1] \in Range(left)
  <2> SUFFICES ASSUME first = 2, s # <<>> PROVE s[1] \in Range(left)
    OBVIOUS
  <2>1. c <= Len(s) - 1
    <3>1. CASE removed = {}
      <4>1. c = 0
        BY <3>1, FS_EmptySet, ZenonT(30)
      <4> QED
        BY <1>3, <4>1
    <3>2. CASE removed # {}
      <4>1. PICK n \in removed : rank(n) = c
        BY <1>7, <3>2
      <4>2. n \in 2 .. Len(s) /\ n <= Len(s) - c + 1
        BY <4>1
      <4> QED
        BY <1>3, <1>5, <4>2
    <3> QED
      BY <3>1, <3>2
  <2>2. 1 \in 1 .. Len(s) - c /\ 1 \notin removed
    BY <1>3, <1>5, <2>1
  <2> HIDE DEF left, removed, c
  <2> QED
    BY <1>9, <1>10, <2>2 DEF Range
<1> HIDE DEF left
<1> QED
  BY <1>1, <1>3, <1>11, <1>12, <1>13 DEF Range

\* removePool takes the member out and no other; all of it where it was listed once.
LEMMA RemoveMemberRange ==
    ASSUME NEW S, NEW s \in Seq(S), NEW e
    PROVE  /\ Range(s) \ {e} \subseteq Range(RemoveMember(s, e))
           /\ Range(RemoveMember(s, e)) \subseteq Range(s)
           /\ IsInjective(s) => e \notin Range(RemoveMember(s, e))
<1>1. IsInjective(s) => e \notin Range(RemoveMember(s, e))
  BY RemoveMemberInjective
<1>2. 1 \in 1 .. 2
  OBVIOUS
<1> QED
  BY <1>1, <1>2, RemoveMatchesKeeps DEF RemoveMember

\* addPool adds the member.
LEMMA AddMembersRange ==
    ASSUME NEW S, NEW s \in Seq(S), NEW new \in Seq(S), new # <<>>
    PROVE  /\ new[1] \in Range(s) => Range(AddMembers(s, new)) = Range(s)
           /\ new[1] \notin Range(s) => Range(AddMembers(s, new)) = Range(s) \cup Range(new)
<1>1. CASE new[1] \in Range(s)
  BY <1>1 DEF AddMembers
<1>2. CASE new[1] \notin Range(s)
  <2>1. AddMembers(s, new) = s \o new
    BY <1>2 DEF AddMembers
  <2>2. /\ Len(s) \in Nat /\ Len(new) \in Nat
        /\ DOMAIN s = 1 .. Len(s) /\ DOMAIN new = 1 .. Len(new)
        /\ DOMAIN (s \o new) = 1 .. Len(s) + Len(new)
        /\ \A i \in 1 .. Len(s) + Len(new) :
              (s \o new)[i] = IF i <= Len(s) THEN s[i] ELSE new[i - Len(s)]
    OBVIOUS
  <2> DEFINE both == s \o new
  <2> HIDE DEF both
  <2>3. Range(both) \subseteq Range(s) \cup Range(new)
    <3> SUFFICES ASSUME NEW i \in DOMAIN both PROVE both[i] \in Range(s) \cup Range(new)
      BY DEF Range
    <3>1. i \in 1 .. Len(s) + Len(new)
      BY <2>2 DEF both
    <3>2. i <= Len(s) => i \in 1 .. Len(s) /\ both[i] = s[i]
      BY <2>2, <3>1 DEF both
    <3>3. ~(i <= Len(s)) => i - Len(s) \in 1 .. Len(new) /\ both[i] = new[i - Len(s)]
      BY <2>2, <3>1 DEF both
    <3> QED
      BY <2>2, <3>2, <3>3 DEF Range
  <2>4. \A i \in 1 .. Len(s) : i \in DOMAIN both /\ both[i] = s[i]
    BY <2>2 DEF both
  <2>5. \A i \in 1 .. Len(new) : Len(s) + i \in DOMAIN both /\ both[Len(s) + i] = new[i]
    BY <2>2 DEF both
  <2>6. Range(s) \cup Range(new) \subseteq Range(both)
    BY <2>2, <2>4, <2>5 DEF Range
  <2> QED
    BY <1>2, <2>1, <2>3, <2>6 DEF both
<1> QED
  BY <1>1, <1>2

\* In particular one member.
LEMMA AddOneRange ==
    ASSUME NEW S, NEW s \in Seq(S), NEW e \in S
    PROVE  Range(AddMembers(s, <<e>>)) = Range(s) \cup {e}
<1> DEFINE new == <<e>>
<1>1. new \in Seq(S) /\ new # <<>> /\ new[1] = e /\ Range(new) = {e}
  BY DEF Range
<1> HIDE DEF new
<1>2. /\ new[1] \in Range(s) => Range(AddMembers(s, new)) = Range(s)
      /\ new[1] \notin Range(s) => Range(AddMembers(s, new)) = Range(s) \cup Range(new)
  BY <1>1, AddMembersRange
<1>3. Range(AddMembers(s, new)) = Range(s) \cup {e}
  BY <1>1, <1>2
<1> QED
  BY <1>3 DEF new

\* Of a slice with several members removePool leaves some when it is given that
\* slice itself, and all of them but perhaps the first.
LEMMA RemoveOwnFirstRange ==
    ASSUME NEW S, NEW s \in Seq(S), Len(s) > 1
    PROVE  /\ RemoveOwnFirst(s) # <<>>
           /\ Range(s) \ {s[1]} \subseteq Range(RemoveOwnFirst(s))
           /\ Range(RemoveOwnFirst(s)) \subseteq Range(s)
<1> DEFINE rest == [i \in 1 .. Len(s) - 1 |-> IF i = 1 THEN s[Len(s)] ELSE s[i]]
           left == RemoveMatches(rest, rest[1], 2)
<1>0. Len(s) \in Nat /\ Len(s) > 1 /\ DOMAIN s = 1 .. Len(s)
  OBVIOUS
<1>1. /\ rest \in Seq(S) /\ rest # <<>> /\ DOMAIN rest = 1 .. Len(s) - 1
      /\ rest[1] = s[Len(s)] /\ \A i \in 2 .. Len(s) - 1 : rest[i] = s[i]
  <2>1. DOMAIN rest = 1 .. Len(s) - 1 /\ 1 \in 1 .. Len(s) - 1
    BY <1>0
  <2>2. rest[1] = s[Len(s)] /\ \A i \in 2 .. Len(s) - 1 : rest[i] = s[i]
    BY <1>0
  <2>3. rest \in Seq(S)
    OBVIOUS
  <2> HIDE DEF rest
  <2> QED
    BY <2>1, <2>2, <2>3
<1>2. RemoveOwnFirst(s) = left
  BY <1>1 DEF RemoveOwnFirst
<1> HIDE DEF rest
<1>3. /\ Range(rest) \ {rest[1]} \subseteq Range(left) /\ Range(left) \subseteq Range(rest)
      /\ rest[1] \in Range(left)
  BY <1>1, RemoveMatchesKeeps
<1>4. Range(rest) \subseteq Range(s)
  <2>1. \A i \in 1 .. Len(s) - 1 : i = 1 \/ i \in 2 .. Len(s) - 1
    BY <1>0
  <2>2. Len(s) \in DOMAIN s /\ \A i \in 2 .. Len(s) - 1 : i \in DOMAIN s
    BY <1>0
  <2>3. \A i \in DOMAIN rest : \E j \in DOMAIN s : rest[i] = s[j]
    BY <1>1, <2>1, <2>2
  <2> QED
    BY <2>3 DEF Range
<1>5. Range(s) \ {s[1]} \subseteq Range(rest)
  <2>1. \A n \in Nat : \A i \in 1 .. n : i = 1 \/ i = n \/ i \in 2 .. n - 1
    OBVIOUS
  <2>2. 1 \in DOMAIN rest /\ \A i \in 2 .. Len(s) - 1 : i \in DOMAIN rest
    BY <1>0, <1>1
  <2>3. \A i \in DOMAIN s : s[i] = s[1] \/ \E j \in DOMAIN rest : rest[j] = s[i]
    BY <1>0, <1>1, <2>1, <2>2
  <2> QED
    BY <2>3 DEF Range
<1>6. left # <<>>
  <2>1. Range(<<>>) = {}
    BY DEF Range
  <2> HIDE DEF left
  <2> QED
    BY <1>3, <2>1
<1> QED
  BY <1>2, <1>3, <1>4, <1>5, <1>6
-----------------------------------------------------------------------------
(***************************************************************************)
(* What the handlers do to the members                                     *)
(***************************************************************************)

\* A step changes the members of pool n only.
OnlyAt(n) == \A m : m # n => Members(m)' = Members(m)

\* So it is when the map of pools differs at n only.
LEMMA OnlyAtSame ==
    ASSUME NEW n, SameBut(pools, pools', n)
    PROVE  OnlyAt(n)
  BY DEF OnlyAt, SameBut, Members

\* addPool with a pool of one member adds it.
LEMMA AddPoolMembers ==
    ASSUME ResourceInv, NEW n, NEW e \in Endpoint, NEW pool, pool.members = <<e>>,
           pools' = addPool(pools, n, pool)
    PROVE  OnlyAt(n) /\ Members(n)' = Members(n) \cup {e}
<1>1. PoolsOK(pools) /\ \A m \in DOMAIN pools : pools[m].members \in Seq(Endpoint)
  BY PoolTyped
<1>2. /\ SameBut(pools, pools', n)
      /\ n \notin DOMAIN pools => pools'[n] = pool
      /\ n \in DOMAIN pools => pools'[n].members = AddMembers(pools[n].members, pool.members)
  BY <1>1, AddPoolAt
<1>3. n \in DOMAIN pools'
  BY DEF addPool, Put
<1>4. Members(n)' = Range(pools'[n].members)
  BY <1>3 DEF Members
<1>5. CASE n \notin DOMAIN pools
  <2>1. Range(<<e>>) = {e}
    BY DEF Range
  <2> QED
    BY <1>2, <1>4, <1>5, <2>1, OnlyAtSame DEF Members
<1>6. CASE n \in DOMAIN pools
  <2>1. Range(pools'[n].members) = Range(pools[n].members) \cup {e}
    BY <1>1, <1>2, <1>6, AddOneRange
  <2> QED
    BY <1>2, <1>4, <1>6, <2>1, OnlyAtSame, ZenonT(30) DEF Members
<1> QED
  BY <1>5, <1>6

\* removePool leaves what is left of the members.
LEMMA RemovePoolMembers ==
    ASSUME ResourceInv, NEW n \in DOMAIN pools, NEW left, pools' = removePool(pools, n, left)
    PROVE  OnlyAt(n) /\ Members(n)' = Range(left)
<1>1. /\ SameBut(pools, pools', n)
      /\ left = <<>> => n \notin DOMAIN pools'
      /\ left # <<>> => pools'[n].members = left
  BY PoolTyped, PoolRemoved, ZenonT(30)
<1>2. left # <<>> => n \in DOMAIN pools'
  BY DEF removePool
<1>3. left = <<>> => Range(left) = {}
  BY NoMembers, ZenonT(30)
<1> QED
  BY <1>1, <1>2, <1>3, OnlyAtSame DEF Members

\* Add: the endpoint becomes a member, or is refused.
LEMMA AddMembership ==
    ASSUME ResourceInv, NEW u \in Uri, NEW e \in Endpoint, processRouteAdd(u, e)
    PROVE  /\ OnlyAt(ObjectName[u]) /\ UNCHANGED scarred
           /\ \/ /\ refused' = refused \cup {<<u, e>>} /\ UNCHANGED pools
                 /\ \/ u \in MultiWildcard \/ ~CanCreate(e)
                    \/ ObjectName[u] \notin DOMAIN pools
              \/ /\ u \notin MultiWildcard /\ CanCreate(e)
                 /\ refused' = refused \ {<<u, e>>}
                 /\ Members(ObjectName[u])' = Members(ObjectName[u]) \cup {e}
<1> DEFINE n == ObjectName[u]
           plan == IF n \in DOMAIN unmapped THEN unmapped[n] ELSE Default
           pool == UpdatePool(DefaultPool(<<e>>), plan)
<1>1. CASE refuseAdd(u, e) /\ (u \in MultiWildcard \/ ~CanCreate(e) \/ assignVSPortFails(n))
  <2>1. refused' = refused \cup {<<u, e>>} /\ UNCHANGED <<pools, scarred>>
    BY <1>1 DEF refuseAdd, resourceVars
  <2>2. assignVSPortFails(n) => n \notin DOMAIN pools
    BY CoherentHttp DEF assignVSPortFails, Unassigned
  <2>3. OnlyAt(n)
    BY <2>1 DEF OnlyAt, Members
  <2> QED
    BY <1>1, <2>1, <2>2, <2>3
<1>2. CASE /\ u \notin MultiWildcard /\ CanCreate(e)
           /\ pools' = addPool(pools, n, pool)
           /\ refused' = refused \ {<<u, e>>}
           /\ UNCHANGED scarred
  <2>1. pool.members = <<e>>
    BY DEF UpdatePool, DefaultPool
  <2> HIDE DEF pool
  <2>2. OnlyAt(n) /\ Members(n)' = Members(n) \cup {e}
    BY <1>2, <2>1, AddPoolMembers, ZenonT(30)
  <2> QED
    BY <1>2, <2>2
<1> QED
  BY <1>1, <1>2, ZenonT(30) DEF processRouteAdd

\* Remove: no other member goes, and this one does, unless its pool is scarred.
LEMMA RemoveMembership ==
    ASSUME ResourceInv, PoolInv, NEW u \in Uri, NEW e \in Endpoint, processRouteRemove(u, e)
    PROVE  LET n == ObjectName[u] IN
           /\ OnlyAt(n) /\ refused' = refused \ {<<u, e>>}
           /\ Members(n)' \subseteq Members(n) /\ Members(n) \ {e} \subseteq Members(n)'
           /\ \A m : m # n => (m \in scarred' <=> m \in scarred)
           /\ n \in scarred' => n \in scarred
           /\ n \in scarred \ scarred' => Members(n)' = {}
           /\ e \in Members(n)' => n \in scarred' \/ u \in MultiWildcard \/ ~CanCreate(e)
<1> DEFINE n == ObjectName[u]
           left == RemoveMember(pools[n].members, e)
<1>1. refused' = refused \ {<<u, e>>}
  BY DEF processRouteRemove
<1>2. CASE /\ u \in MultiWildcard \/ ~CanCreate(e) \/ n \notin DOMAIN pools
           /\ UNCHANGED <<pools, scarred>>
  BY <1>1, <1>2, ZenonT(30) DEF OnlyAt, Members
<1>3. CASE /\ n \in DOMAIN pools /\ pools' = removePool(pools, n, left)
           /\ scarred' = IF left = <<>> THEN scarred \ {n} ELSE scarred
  <2>1. pools[n].members \in Seq(Endpoint)
    BY <1>3, PoolTyped
  <2>2. /\ Range(pools[n].members) \ {e} \subseteq Range(left)
        /\ Range(left) \subseteq Range(pools[n].members)
        /\ IsInjective(pools[n].members) => e \notin Range(left)
    BY <2>1, RemoveMemberRange
  <2>3. n \notin scarred => IsInjective(pools[n].members)
    BY <1>3 DEF PoolInv, PoolHolds
  <2>4. left = <<>> => Range(left) = {}
    BY DEF Range
  <2> HIDE DEF left, n
  <2>5. OnlyAt(n) /\ Members(n)' = Range(left) /\ Members(n) = Range(pools[n].members)
    BY <1>3, RemovePoolMembers DEF Members
  <2> QED
    BY <1>1, <1>3, <2>2, <2>3, <2>4, <2>5, ZenonT(30) DEF n
<1> QED
  BY <1>2, <1>3, ZenonT(30) DEF processRouteRemove

\* Bind changes no members.
LEMMA BindMembership ==
    ASSUME ResourceInv, NEW u \in Uri, NEW p \in PlanID, processRouteBind(u, p)
    PROVE  (\A m : Members(m)' = Members(m)) /\ UNCHANGED <<refused, scarred>>
<1> DEFINE n == ObjectName[u]
<1>1. UNCHANGED <<refused, scarred>>
  BY DEF processRouteBind
<1>2. CASE Mapped(n) /\ pools' = BoundPools(n, p)
  <2> HIDE DEF n
  <2>1. n \in DOMAIN pools /\ pools[n] \in PoolResource
    BY <1>2, PoolTyped DEF Mapped, PoolsOK, IsMap
  <2>2. /\ DOMAIN pools' = DOMAIN pools
        /\ \A m \in DOMAIN pools : pools'[m].members = pools[m].members
    BY <1>2, <2>1 DEF BoundPools, UpdatePool, PoolResource
  <2> QED
    BY <1>1, <2>2 DEF Members
<1>3. CASE UNCHANGED pools
  BY <1>1, <1>3, ZenonT(30) DEF Members
<1> QED
  BY <1>2, <1>3 DEF processRouteBind

\* Unbind loses none either: removePool leaves all members but perhaps the first,
\* and addPool puts them all back where the first is missing.
LEMMA UnbindMembership ==
    ASSUME ResourceInv, NEW u \in Uri, processRouteUnbind(u)
    PROVE  /\ \A m : Members(m)' = Members(m)
           /\ UNCHANGED refused /\ scarred \subseteq scarred'
<1> DEFINE n == ObjectName[u]
           members == pools[n].members
           own == RemoveOwnFirst(members)
           kept == removePool(pools, n, own)
<1>1. UNCHANGED refused /\ scarred \subseteq scarred'
  BY DEF processRouteUnbind
<1>2. CASE Mapped(n) /\ pools' = addPool(kept, n, DefaultPool(members))
  <2>1. /\ n \in DOMAIN pools /\ PoolsOK(pools)
        /\ members \in Seq(Endpoint) /\ members # <<>>
    BY <1>2, PoolTyped DEF Mapped, PoolsOK
  <2>2. own \in Seq(Endpoint)
    BY <2>1, RemoveOwnFirstSeq
  <2>3. PoolsOK(kept)
    BY <2>1, <2>2, RemovePool, ZenonT(30)
  <2>4. SameBut(pools, kept, n) /\ (own # <<>> => kept[n].members = own)
    <3> HIDE DEF n, own
    <3>1. SameBut(pools, removePool(pools, n, own), n)
      BY <2>1, RemovePoolAt, ZenonT(30)
    <3>2. ASSUME own # <<>> PROVE removePool(pools, n, own)[n].members = own
      BY <2>1, <3>2, RemovePoolAt, SMTT(30)
    <3> QED
      BY <3>1, <3>2, ZenonT(30)
  <2>5. n \in DOMAIN kept <=> own # <<>>
    <3>1. DOMAIN kept = IF own = <<>> THEN DOMAIN pools \ {n} ELSE DOMAIN pools
      BY <2>1, <2>2, RemovePool, ZenonT(30)
    <3> HIDE DEF kept, own, n
    <3> QED
      BY <2>1, <3>1
  <2>6. Len(members) = 1 => own = <<>>
    BY <2>1, RemoveOwnFirstAlone
  <2>7. Len(members) > 1 => /\ Range(members) \ {members[1]} \subseteq Range(own)
                            /\ Range(own) \subseteq Range(members)
    BY <2>1, RemoveOwnFirstRange
  <2>8. DefaultPool(members).members = members
    BY DEF DefaultPool
  <2> HIDE DEF n, members, kept, own
  <2>9. /\ SameBut(kept, pools', n)
        /\ n \notin DOMAIN kept => pools'[n] = DefaultPool(members)
        /\ n \in DOMAIN kept => pools'[n].members = AddMembers(kept[n].members, members)
    <3>1. pools' = addPool(kept, n, DefaultPool(members))
      BY <1>2
    <3> QED
      BY <2>3, <2>8, <3>1, AddPoolAt
  <2>10. OnlyAt(n)
    <3>1. SameBut(pools, pools', n)
      BY <2>4, <2>9 DEF SameBut
    <3> QED
      BY <3>1, OnlyAtSame
  <2>11. Range(pools'[n].members) = Range(members)
    <3>1. CASE own = <<>>
      BY <2>5, <2>8, <2>9, <3>1
    <3>2. CASE own # <<>>
      <4>1. pools'[n].members = AddMembers(own, members)
        BY <2>4, <2>5, <2>9, <3>2
      <4>2. /\ members[1] \in Range(own) => Range(AddMembers(own, members)) = Range(own)
            /\ members[1] \notin Range(own)
                  => Range(AddMembers(own, members)) = Range(own) \cup Range(members)
        BY <2>1, <2>2, AddMembersRange
      <4>3. Len(members) > 1
        <5>1. Len(members) \in Nat /\ Len(members) # 0
          BY <2>1
        <5>2. Len(members) # 1
          BY <2>6, <3>2
        <5>3. \A k \in Nat : k # 0 /\ k # 1 => k > 1
          OBVIOUS
        <5> QED
          BY <5>1, <5>2, <5>3, ZenonT(30)
      <4> QED
        BY <2>7, <4>1, <4>2, <4>3, ZenonT(30)
    <3> QED
      BY <3>1, <3>2
  <2>12. n \in DOMAIN pools'
    BY <1>2 DEF addPool, Put
  <2>13. Members(n)' = Members(n)
    BY <2>1, <2>11, <2>12 DEF Members, members
  <2> QED
    BY <1>1, <2>10, <2>13, ZenonT(30) DEF OnlyAt
<1>3. CASE UNCHANGED pools
  BY <1>1, <1>3 DEF Members
<1> QED
  BY <1>2, <1>3, ZenonT(30) DEF processRouteUnbind

\* TCP updates do what they say to the pool of their port.
LEMMA TCPAddMembership ==
    ASSUME ResourceInv, NEW port \in RoutePort, NEW e \in Endpoint, processTCPRouteAdd(port, e)
    PROVE  /\ OnlyAt(ObjectName[port]) /\ UNCHANGED <<refused, scarred>>
           /\ Members(ObjectName[port])' = Members(ObjectName[port]) \cup {e}
<1>1. /\ pools' = addPool(pools, ObjectName[port], DefaultPool(<<e>>))
      /\ UNCHANGED <<refused, scarred>>
  BY DEF processTCPRouteAdd
<1>2. DefaultPool(<<e>>).members = <<e>>
  BY DEF DefaultPool
<1> QED
  BY <1>1, <1>2, AddPoolMembers

\* A TCP pool is never scarred, so Remove takes the member out.
LEMMA TCPRemoveMembership ==
    ASSUME ResourceInv, PoolInv, NEW port \in RoutePort, NEW e \in Endpoint,
           processTCPRouteRemove(port, e)
    PROVE  /\ OnlyAt(ObjectName[port]) /\ UNCHANGED <<refused, scarred>>
           /\ Members(ObjectName[port])' = Members(ObjectName[port]) \ {e}
<1> DEFINE n == ObjectName[port]
           left == RemoveMember(pools[n].members, e)
<1>1. UNCHANGED <<refused, scarred>>
  BY DEF processTCPRouteRemove
<1>2. CASE n \notin DOMAIN pools /\ UNCHANGED pools
  BY <1>1, <1>2 DEF OnlyAt, Members
<1>3. CASE n \in DOMAIN pools /\ pools' = removePool(pools, n, left)
  <2>1. pools[n].members \in Seq(Endpoint)
    BY <1>3, PoolTyped
  <2>2. n \notin scarred
    <3>1. scarred \subseteq Name
      BY ZenonT(30) DEF ResourceInv, ResourceTypeOK
    <3>2. Name = {ObjectName[u] : u \in Uri}
      BY RouterAssumption, ZenonT(30)
    <3> QED
      BY <3>1, <3>2, Names, ZenonT(30)
  <2>3. IsInjective(pools[n].members)
    BY <1>3, <2>2 DEF PoolInv, PoolHolds
  <2>4. Range(left) = Range(pools[n].members) \ {e}
    BY <2>1, <2>3, RemoveMemberRange, ZenonT(30)
  <2> HIDE DEF left, n
  <2>5. OnlyAt(n) /\ Members(n)' = Range(left) /\ Members(n) = Range(pools[n].members)
    BY <1>3, RemovePoolMembers DEF Members
  <2> QED
    BY <1>1, <2>4, <2>5 DEF n
<1> QED
  BY <1>2, <1>3, ZenonT(30) DEF processTCPRouteRemove
-----------------------------------------------------------------------------
(***************************************************************************)
(* HTTP updates take effect in order                                       *)
(***************************************************************************)

\* What createResources fails for, or a rule cannot be made for.
Hopeless(u, e) == u \in MultiWildcard \/ ~CanCreate(e)

\* It never becomes a member.
HopelessOut == \A u \in Uri, e \in Endpoint : Hopeless(u, e) => e \notin Members(ObjectName[u])

\* No update of the endpoint waits, and the last one has taken effect.  A scarred
\* pool may list an endpoint that was removed, but lacks none that is wanted.
Settled(u, e) ==
    /\ <<u, e>> \in wanted \ refused => e \in Members(ObjectName[u])
    /\ e \in Members(ObjectName[u])
          => ObjectName[u] \in scarred \/ <<u, e>> \in wanted \ refused

\* An endpoint whose own membership a step leaves alone stays settled.
LEMMA SettledKept ==
    ASSUME NEW u, NEW e, Settled(u, e), UNCHANGED wanted,
           <<u, e>> \in refused' <=> <<u, e>> \in refused,
           e \in Members(ObjectName[u])' <=> e \in Members(ObjectName[u]),
           ObjectName[u] \in scarred \ scarred' => e \notin Members(ObjectName[u])'
    PROVE  Settled(u, e)'
  BY ZenonT(30) DEF Settled

\* Add settles its own endpoint, and no other is unsettled.
LEMMA AddSettles ==
    ASSUME ResourceInv, HopelessOut, UNCHANGED wanted,
           NEW u \in Uri, NEW e \in Endpoint, processRouteAdd(u, e)
    PROVE  /\ HopelessOut'
           /\ <<u, e>> \in wanted => Settled(u, e)'
           /\ \A v \in Uri, f \in Endpoint :
                 <<v, f>> # <<u, e>> /\ Settled(v, f) => Settled(v, f)'
<1> DEFINE n == ObjectName[u]
<1>1. OnlyAt(n) /\ UNCHANGED scarred
  BY AddMembership
<1>2. \A v \in Uri : v # u => Members(ObjectName[v])' = Members(ObjectName[v])
  BY <1>1, Names DEF OnlyAt
<1>3. CASE /\ refused' = refused \cup {<<u, e>>} /\ UNCHANGED pools
           /\ Hopeless(u, e) \/ n \notin DOMAIN pools
  <2>1. \A m : Members(m)' = Members(m)
    BY <1>3 DEF Members
  <2>2. HopelessOut'
    BY <2>1 DEF HopelessOut, Hopeless, CanCreate
  <2>3. e \notin Members(n)
    BY <1>3 DEF HopelessOut, Members
  <2>4. Settled(u, e)'
    BY <1>3, <2>1, <2>3 DEF Settled
  <2>5. \A v \in Uri, f \in Endpoint :
           <<v, f>> # <<u, e>> => (<<v, f>> \in refused' <=> <<v, f>> \in refused)
    BY <1>3
  <2> QED
    BY <1>1, <2>1, <2>2, <2>4, <2>5, SettledKept, ZenonT(30)
<1>4. CASE /\ ~Hopeless(u, e) /\ refused' = refused \ {<<u, e>>}
           /\ Members(n)' = Members(n) \cup {e}
  <2>1. HopelessOut'
    <3> SUFFICES ASSUME NEW v \in Uri, NEW f \in Endpoint, Hopeless(v, f)
                 PROVE  f \notin Members(ObjectName[v])'
      BY DEF HopelessOut, Hopeless, CanCreate
    <3>1. f \notin Members(ObjectName[v])
      BY DEF HopelessOut
    <3>2. v = u => f # e
      BY <1>4
    <3> QED
      BY <1>2, <1>4, <3>1, <3>2
  <2>2. <<u, e>> \in wanted => Settled(u, e)'
    BY <1>4 DEF Settled
  <2>3. ASSUME NEW v \in Uri, NEW f \in Endpoint, <<v, f>> # <<u, e>>, Settled(v, f)
        PROVE  Settled(v, f)'
    <3>1. f \in Members(ObjectName[v])' <=> f \in Members(ObjectName[v])
      BY <1>2, <1>4, <2>3
    <3>2. <<v, f>> \in refused' <=> <<v, f>> \in refused
      BY <1>4, <2>3
    <3> QED
      BY <1>1, <2>3, <3>1, <3>2, SettledKept
  <2> QED
    BY <2>1, <2>2, <2>3
<1> QED
  BY <1>3, <1>4, AddMembership, ZenonT(30) DEF Hopeless

\* So does Remove: where the last member goes, and the scar with it, no other
\* endpoint of the route was wanted.
LEMMA RemoveSettles ==
    ASSUME ResourceInv, PoolInv, HopelessOut, UNCHANGED wanted,
           NEW u \in Uri, NEW e \in Endpoint, processRouteRemove(u, e)
    PROVE  /\ HopelessOut'
           /\ <<u, e>> \notin wanted => Settled(u, e)'
           /\ \A v \in Uri, f \in Endpoint :
                 <<v, f>> # <<u, e>> /\ Settled(v, f) => Settled(v, f)'
<1> DEFINE n == ObjectName[u]
<1>1. OnlyAt(n) /\ refused' = refused \ {<<u, e>>}
  BY RemoveMembership
<1>2. Members(n)' \subseteq Members(n) /\ Members(n) \ {e} \subseteq Members(n)'
  BY RemoveMembership
<1>3. /\ \A m : m # n => (m \in scarred' <=> m \in scarred)
      /\ n \in scarred \ scarred' => Members(n)' = {}
      /\ e \in Members(n)' => n \in scarred' \/ Hopeless(u, e)
  BY RemoveMembership DEF Hopeless
<1>4. \A v \in Uri : v # u => /\ ObjectName[v] # n
                              /\ Members(ObjectName[v])' = Members(ObjectName[v])
  BY <1>1, Names DEF OnlyAt
<1>5. HopelessOut'
  <2> SUFFICES ASSUME NEW v \in Uri, NEW f \in Endpoint, Hopeless(v, f)
               PROVE  f \notin Members(ObjectName[v])'
    BY DEF HopelessOut, Hopeless, CanCreate
  <2>1. f \notin Members(ObjectName[v])
    BY DEF HopelessOut
  <2> QED
    BY <1>2, <1>4, <2>1
<1>6. ASSUME <<u, e>> \notin wanted PROVE Settled(u, e)'
  <2>1. e \in Members(n)' => n \in scarred'
    BY <1>2, <1>3, ZenonT(30) DEF HopelessOut
  <2> QED
    BY <1>6, <2>1 DEF Settled
<1>7. ASSUME NEW v \in Uri, NEW f \in Endpoint, <<v, f>> # <<u, e>>, Settled(v, f)
      PROVE  Settled(v, f)'
  <2>1. f \in Members(ObjectName[v])' <=> f \in Members(ObjectName[v])
    BY <1>2, <1>4, <1>7
  <2>2. <<v, f>> \in refused' <=> <<v, f>> \in refused
    BY <1>1, <1>7
  <2>3. ObjectName[v] \in scarred \ scarred' => f \notin Members(ObjectName[v])'
    BY <1>3, <1>4
  <2> QED
    BY <1>7, <2>1, <2>2, <2>3, SettledKept
<1> QED
  BY <1>5, <1>6, <1>7

\* Every other update leaves the members of the HTTP routes alone.
LEMMA OthersSettle ==
    ASSUME HopelessOut, UNCHANGED <<wanted, refused>>, scarred \subseteq scarred',
           \A u \in Uri : Members(ObjectName[u])' = Members(ObjectName[u])
    PROVE  /\ HopelessOut'
           /\ \A u \in Uri, e \in Endpoint : Settled(u, e) => Settled(u, e)'
<1>1. HopelessOut'
  BY DEF HopelessOut, Hopeless, CanCreate
<1>2. ASSUME NEW u \in Uri, NEW e \in Endpoint, Settled(u, e) PROVE Settled(u, e)'
  BY <1>2, SettledKept
<1> QED
  BY <1>1, <1>2

\* The update is about this route and endpoint.
About(i, x) == i.op \in {"Add", "Remove"} /\ Subject(i) = x

\* The handler of an update settles its own route and endpoint, and unsettles no
\* other.
LEMMA HandleSettles ==
    ASSUME ResourceInv, PoolInv, HopelessOut, UNCHANGED wanted, NEW i \in Item, handle(i)
    PROVE  /\ HopelessOut'
           /\ \A u \in Uri, e \in Endpoint :
                 IF About(i, <<u, e>>)
                 THEN (i.op = "Add" <=> <<u, e>> \in wanted) => Settled(u, e)'
                 ELSE Settled(u, e) => Settled(u, e)'
<1>0. \A u \in Uri, p \in RoutePort : \A e, f : <<u, e>> # <<p, f>>
  BY RouterAssumption, ZenonT(30)
<1>1. CASE i \in HttpItem /\ i.op = "Add" /\ processRouteAdd(i.uri, i.endpoint)
  <2>1. i.uri \in Uri /\ i.endpoint \in Endpoint /\ i \notin TcpItem
    BY <1>1 DEF HttpItem, TcpItem
  <2>2. Subject(i) = <<i.uri, i.endpoint>>
    BY <2>1 DEF Subject
  <2> QED
    BY <1>1, <2>1, <2>2, AddSettles DEF About
<1>2. CASE i \in HttpItem /\ i.op = "Remove" /\ processRouteRemove(i.uri, i.endpoint)
  <2>1. i.uri \in Uri /\ i.endpoint \in Endpoint /\ i \notin TcpItem
    BY <1>2 DEF HttpItem, TcpItem
  <2>2. Subject(i) = <<i.uri, i.endpoint>>
    BY <2>1 DEF Subject
  <2> QED
    BY <1>2, <2>1, <2>2, RemoveSettles DEF About
<1>3. CASE i \in HttpItem /\ i.op = "Bind" /\ processRouteBind(i.uri, i.planID)
  <2>1. i.uri \in Uri /\ i.planID \in PlanID
    BY <1>3 DEF HttpItem
  <2>2. (\A m : Members(m)' = Members(m)) /\ UNCHANGED <<refused, scarred>>
    BY <1>3, <2>1, BindMembership
  <2> QED
    BY <1>3, <2>2, OthersSettle, ZenonT(30) DEF About
<1>4. CASE i \in HttpItem /\ i.op = "Unbind" /\ processRouteUnbind(i.uri)
  <2>1. i.uri \in Uri
    BY <1>4 DEF HttpItem
  <2>2. (\A m : Members(m)' = Members(m)) /\ UNCHANGED refused /\ scarred \subseteq scarred'
    BY <1>4, <2>1, UnbindMembership, ZenonT(30)
  <2> QED
    BY <1>4, <2>2, OthersSettle DEF About
<1>5. CASE \/ i \in TcpItem /\ processTCPRouteAdd(i.routePort, i.member)
           \/ i \in TcpItem /\ processTCPRouteRemove(i.routePort, i.member)
  <2>1. i.routePort \in RoutePort /\ i.member \in Endpoint
    BY <1>5, ZenonT(30) DEF TcpItem
  <2>2. OnlyAt(ObjectName[i.routePort]) /\ UNCHANGED <<refused, scarred>>
    BY <1>5, <2>1, TCPAddMembership, TCPRemoveMembership
  <2>3. \A u \in Uri : Members(ObjectName[u])' = Members(ObjectName[u])
    BY <2>1, <2>2, Names, ZenonT(30) DEF OnlyAt
  <2>4. \A u \in Uri, e \in Endpoint : ~About(i, <<u, e>>)
    BY <1>0, <1>5, <2>1 DEF About, Subject
  <2> QED
    BY <2>2, <2>3, <2>4, OthersSettle
<1> QED
  BY <1>1, <1>2, <1>3, <1>4, <1>5, ZenonT(30) DEF handle

\* The last update waiting is the one that was asked for last.
LastSays(x) ==
    \E k \in Pending(x) : /\ \A j \in Pending(x) : j <= k
                          /\ queue[k].op = "Add" <=> x \in wanted

InOrder(u, e) == IF Pending(<<u, e>>) # {} THEN LastSays(<<u, e>>) ELSE Settled(u, e)

HttpInv == HopelessOut /\ \A u \in Uri, e \in Endpoint : InOrder(u, e)

\* What waits after one more update has been queued,
LEMMA AppendPending ==
    ASSUME queue \in Seq(Item), NEW i, queue' = Append(queue, i), NEW x
    PROVE  /\ About(i, x) => \E k \in Pending(x)' : /\ queue'[k] = i
                                                    /\ \A j \in Pending(x)' : j <= k
           /\ ~About(i, x) => /\ Pending(x)' = Pending(x)
                              /\ \A k \in Pending(x) : queue'[k] = queue[k]
<1>1. /\ Len(queue) \in Nat /\ DOMAIN queue = 1 .. Len(queue)
      /\ DOMAIN queue' = 1 .. Len(queue) + 1 /\ queue'[Len(queue) + 1] = i
      /\ \A k \in 1 .. Len(queue) : queue'[k] = queue[k]
  OBVIOUS
<1>2. ASSUME About(i, x)
      PROVE  \E k \in Pending(x)' : queue'[k] = i /\ \A j \in Pending(x)' : j <= k
  <2>1. Len(queue) + 1 \in Pending(x)'
    BY <1>1, <1>2 DEF Pending, About
  <2>2. \A j \in Pending(x)' : j <= Len(queue) + 1
    BY <1>1 DEF Pending
  <2> QED
    BY <1>1, <2>1, <2>2
<1>3. ASSUME ~About(i, x)
      PROVE  Pending(x)' = Pending(x) /\ \A k \in Pending(x) : queue'[k] = queue[k]
  <2>1. \A k \in DOMAIN queue' : k \in DOMAIN queue \/ queue'[k] = i
    BY <1>1
  <2>2. \A k \in DOMAIN queue : k \in DOMAIN queue' /\ queue'[k] = queue[k]
    BY <1>1
  <2> QED
    BY <1>3, <2>1, <2>2 DEF Pending, About
<1> QED
  BY <1>2, <1>3, ZenonT(30)

\* and after the first has been taken out.
LEMMA TailPending ==
    ASSUME queue \in Seq(Item), queue # <<>>, queue' = Tail(queue), NEW x
    PROVE  /\ \A k \in Pending(x)' : k \in Nat \ {0} /\ k + 1 \in Pending(x)
           /\ \A k \in Pending(x) : \/ k = 1 /\ About(Head(queue), x)
                                    \/ /\ k - 1 \in Pending(x)' /\ queue'[k - 1] = queue[k]
                                       /\ k \in Nat
           /\ About(Head(queue), x) => 1 \in Pending(x)
<1>1. /\ Len(queue) \in Nat /\ Len(queue) > 0 /\ DOMAIN queue = 1 .. Len(queue)
      /\ DOMAIN queue' = 1 .. Len(queue) - 1 /\ Head(queue) = queue[1]
      /\ \A k \in 1 .. Len(queue) - 1 : queue'[k] = queue[k + 1]
  OBVIOUS
<1>2. \A k \in DOMAIN queue' : /\ k \in Nat \ {0} /\ k + 1 \in DOMAIN queue
                               /\ queue'[k] = queue[k + 1]
  BY <1>1
<1>3. \A k \in DOMAIN queue : \/ k = 1
                              \/ /\ k \in Nat /\ k - 1 \in DOMAIN queue'
                                 /\ queue'[k - 1] = queue[k]
  BY <1>1
<1>4. 1 \in DOMAIN queue
  BY <1>1
<1> QED
  BY <1>1, <1>2, <1>3, <1>4 DEF Pending, About

\* An update that is about something else leaves the order as it is,
LEMMA AppendKeepsOrder ==
    ASSUME queue \in Seq(Item), NEW i, queue' = Append(queue, i), NEW u, NEW e,
           ~About(i, <<u, e>>), <<u, e>> \in wanted' <=> <<u, e>> \in wanted,
           UNCHANGED <<pools, refused, scarred>>, InOrder(u, e)
    PROVE  InOrder(u, e)'
<1> DEFINE x == <<u, e>>
<1> HIDE DEF x
<1>1. Pending(x)' = Pending(x) /\ \A k \in Pending(x) : queue'[k] = queue[k]
  BY AppendPending, ZenonT(30) DEF x
<1>2. LastSays(x) => LastSays(x)'
  BY <1>1, ZenonT(30) DEF LastSays, x
<1>3. Settled(u, e) => Settled(u, e)'
  BY DEF Settled, Members
<1> QED
  BY <1>1, <1>2, <1>3, ZenonT(30) DEF InOrder, x

\* and so does a step that changes neither the queue nor the members.
LEMMA OrderKept ==
    ASSUME NEW u, NEW e, <<u, e>> \in wanted' <=> <<u, e>> \in wanted,
           UNCHANGED <<queue, pools, refused, scarred>>, InOrder(u, e)
    PROVE  InOrder(u, e)'
<1>1. Settled(u, e) => Settled(u, e)'
  BY DEF Settled, Members
<1>2. LastSays(<<u, e>>) => LastSays(<<u, e>>)'
  BY DEF LastSays, Pending
<1>3. Pending(<<u, e>>)' = Pending(<<u, e>>)
  BY DEF Pending
<1> QED
  BY <1>1, <1>2, <1>3, ZenonT(30) DEF InOrder

\* Members and hopeless endpoints where the pools stay.
LEMMA HopelessKept ==
    ASSUME HopelessOut, UNCHANGED pools
    PROVE  HopelessOut'
  BY DEF HopelessOut, Hopeless, CanCreate, Members

\* An HTTP update is always queued, behind all others.
LEMMA UpdateInOrder ==
    ASSUME RouterInv, HttpInv, NEW i \in Item, UpdateRoute(i)
    PROVE  HttpInv'
<1>1. Add(i) /\ UNCHANGED <<resourceVars, refused, scarred>>
  BY DEF UpdateRoute
<1>2. UNCHANGED <<pools, refused, scarred>>
  BY <1>1, ZenonT(30) DEF resourceVars
<1>3. queue \in Seq(Item) /\ dirty \subseteq TcpItem /\ processing \subseteq TcpItem
  BY RouterAssumption DEF RouterInv, QueueInv, QueueTypeOK
<1>4. /\ queue' = queue \/ queue' = Append(queue, i)
      /\ shuttingDown => queue' = queue
      /\ ~shuttingDown /\ i \notin TcpItem => queue' = Append(queue, i)
  BY <1>1, <1>3 DEF Add, Accepts, queueVars
<1>5. /\ shuttingDown \/ i.op \notin {"Add", "Remove"} => UNCHANGED wanted
      /\ ~shuttingDown /\ i.op \in {"Add", "Remove"}
            => wanted' = IF i.op = "Add" THEN wanted \cup {Subject(i)} ELSE wanted \ {Subject(i)}
  BY DEF UpdateRoute
<1>6. ASSUME NEW u \in Uri, NEW e \in Endpoint PROVE InOrder(u, e)'
  <2> DEFINE x == <<u, e>>
  <2>1. InOrder(u, e)
    BY DEF HttpInv
  <2>2. CASE shuttingDown \/ ~About(i, x)
    <3>1. x \in wanted' <=> x \in wanted
      BY <1>5, <2>2 DEF About
    <3>2. queue' = queue \/ (queue' = Append(queue, i) /\ ~About(i, x))
      BY <1>4, <2>2
    <3> QED
      BY <1>2, <1>3, <2>1, <3>1, <3>2, OrderKept, AppendKeepsOrder
  <2>3. CASE ~shuttingDown /\ About(i, x)
    <3>1. i \notin TcpItem
      <4>1. i \in TcpItem => Subject(i)[1] \in RoutePort
        BY DEF Subject, TcpItem
      <4> QED
        BY <2>3, <4>1, RouterAssumption DEF About
    <3>2. queue' = Append(queue, i)
      BY <1>4, <2>3, <3>1, ZenonT(30)
    <3>3. i.op = "Add" <=> x \in wanted'
      BY <1>5, <2>3 DEF About
    <3> HIDE DEF x
    <3>4. PICK k \in Pending(x)' : queue'[k] = i /\ \A j \in Pending(x)' : j <= k
      BY <1>3, <2>3, <3>2, AppendPending, ZenonT(30)
    <3>5. LastSays(x)' /\ Pending(x)' # {}
      BY <3>3, <3>4 DEF LastSays
    <3> QED
      BY <3>5 DEF InOrder, x
  <2> QED
    BY <2>2, <2>3
<1> QED
  BY <1>2, <1>6, HopelessKept DEF HttpInv

\* The worker takes the oldest update: when it was the last one of its route and
\* endpoint, its handler settles them.
LEMMA ProcessInOrder ==
    ASSUME RouterInv, PoolInv, HttpInv, processItem
    PROVE  HttpInv'
<1>1. Get /\ handle(Head(queue)) /\ UNCHANGED wanted
  BY DEF processItem
<1>2. queue \in Seq(Item) /\ queue # <<>> /\ queue' = Tail(queue)
  BY <1>1 DEF Get, RouterInv, QueueInv, QueueTypeOK
<1>3. PICK i \in Item : i = Head(queue)
  BY <1>2
<1>4. ResourceInv /\ HopelessOut
  BY DEF RouterInv, HttpInv
<1>5. /\ HopelessOut'
      /\ \A u \in Uri, e \in Endpoint :
            IF About(i, <<u, e>>) THEN (i.op = "Add" <=> <<u, e>> \in wanted) => Settled(u, e)'
                                  ELSE Settled(u, e) => Settled(u, e)'
  BY <1>1, <1>3, <1>4, HandleSettles
<1>6. ASSUME NEW u \in Uri, NEW e \in Endpoint PROVE InOrder(u, e)'
  <2> DEFINE x == <<u, e>>
  <2>1. InOrder(u, e)
    BY DEF HttpInv
  <2>2. IF About(i, x) THEN (i.op = "Add" <=> x \in wanted) => Settled(u, e)'
                       ELSE Settled(u, e) => Settled(u, e)'
    BY <1>5
  <2> HIDE DEF x
  <2>3. /\ \A k \in Pending(x)' : k \in Nat \ {0} /\ k + 1 \in Pending(x)
        /\ \A k \in Pending(x) : \/ k = 1 /\ About(i, x)
                                 \/ /\ k - 1 \in Pending(x)' /\ queue'[k - 1] = queue[k]
                                    /\ k \in Nat
        /\ About(i, x) => 1 \in Pending(x)
    BY <1>2, <1>3, TailPending, ZenonT(30)
  <2>4. CASE Pending(x) = {}
    <3>1. Pending(x)' = {} /\ ~About(i, x) /\ Settled(u, e)
      BY <2>1, <2>3, <2>4, ZenonT(30) DEF InOrder, x
    <3> QED
      BY <2>2, <3>1 DEF InOrder, x
  <2>5. CASE Pending(x) # {}
    <3>1. LastSays(x)
      BY <2>1, <2>5 DEF InOrder, x
    <3>2. PICK k \in Pending(x) : /\ \A j \in Pending(x) : j <= k
                                  /\ queue[k].op = "Add" <=> x \in wanted
      BY <3>1, ZenonT(30) DEF LastSays
    <3>3. CASE Pending(x)' = {}
      <4>1. k = 1 /\ About(i, x)
        BY <2>3, <3>3
      <4>2. i = queue[1]
        BY <1>2, <1>3
      <4> QED
        BY <2>2, <3>2, <3>3, <4>1, <4>2, ZenonT(30) DEF InOrder, x
    <3>4. CASE Pending(x)' # {}
      <4>1. PICK j \in Pending(x)' : j \in Nat \ {0} /\ j + 1 \in Pending(x)
        BY <2>3, <3>4
      <4>2. k # 1
        BY <3>2, <4>1
      <4>3. k - 1 \in Pending(x)' /\ queue'[k - 1] = queue[k] /\ k \in Nat
        BY <2>3, <4>2
      <4>4. \A l \in Pending(x)' : l <= k - 1
        BY <2>3, <3>2, <4>3, PositionBefore, ZenonT(30)
      <4>5. LastSays(x)'
        BY <1>1, <3>2, <4>3, <4>4 DEF LastSays, x
      <4> QED
        BY <3>4, <4>5 DEF InOrder, x
    <3> QED
      BY <3>3, <3>4
  <2> QED
    BY <2>4, <2>5
<1> QED
  BY <1>5, <1>6 DEF HttpInv

\* Done may queue a TCP update again, which is about no HTTP route.
LEMMA FinishInOrder ==
    ASSUME RouterInv, HttpInv, finishItem
    PROVE  HttpInv'
<1>1. Done(item) /\ UNCHANGED <<resourceVars, historyVars>>
  BY DEF finishItem
<1>2. UNCHANGED <<pools, wanted, refused, scarred>>
  BY <1>1 DEF resourceVars, historyVars
<1>3. queue \in Seq(Item) /\ dirty \subseteq Hashed
  BY DEF RouterInv, QueueInv, QueueTypeOK
<1>4. queue' = queue \/ (item \in Hashed /\ queue' = Append(queue, item))
  BY <1>1, <1>3 DEF Done
<1>5. \A u \in Uri, e \in Endpoint : item \in Hashed => ~About(item, <<u, e>>)
  <2>1. \A p \in RoutePort : p \notin Uri
    BY RouterAssumption
  <2> QED
    BY <2>1, Subjects DEF About
<1>6. ASSUME NEW u \in Uri, NEW e \in Endpoint PROVE InOrder(u, e)'
  <2>1. InOrder(u, e)
    BY DEF HttpInv
  <2> QED
    BY <1>2, <1>3, <1>4, <1>5, <2>1, OrderKept, AppendKeepsOrder, ZenonT(30)
<1> QED
  BY <1>2, <1>6, HopelessKept DEF HttpInv

\* The other steps change neither the queue nor the resources.
LEMMA HttpNext == RouterInv /\ PoolInv /\ HttpInv /\ [Next]_vars => HttpInv'
<1> SUFFICES ASSUME RouterInv, PoolInv, HttpInv, [Next]_vars PROVE HttpInv'
  OBVIOUS
<1>1. CASE UNCHANGED <<queue, resourceVars, historyVars>>
  <2>1. UNCHANGED <<queue, pools, wanted, refused, scarred>>
    BY <1>1 DEF resourceVars, historyVars
  <2> QED
    BY <2>1, OrderKept, HopelessKept DEF HttpInv
<1>2. ASSUME NEW dg, Run(dg) PROVE UNCHANGED <<queue, resourceVars, historyVars>>
  BY <1>2 DEF Run, queueVars
<1>3. checkDrained \/ writeConfig \/ quit => UNCHANGED <<queue, resourceVars, historyVars>>
  BY DEF checkDrained, writeConfig, quit, queueVars
<1>4. Signal \/ UNCHANGED vars => UNCHANGED <<queue, resourceVars, historyVars>>
  BY DEF Signal, ShutDown, vars, routerVars, queueVars
<1> QED
  BY <1>1, <1>2, <1>3, <1>4, UpdateInOrder, ProcessInOrder, FinishInOrder DEF Next, Worker

\* The Adds and Removes of an HTTP route and endpoint take effect in the order in
\* which UpdateRoute was called, whatever Binds, Unbinds and updates of other
\* routes the worker handles between them, and however many members the pool has.
THEOREM RouterHttpConverges == Spec => []HttpConverges
<1>1. Init => HttpInv
  <2> SUFFICES ASSUME Init PROVE HttpInv
    OBVIOUS
  <2>1. queue = <<>> /\ pools = EmptyMap /\ wanted = {}
    BY ZenonT(30) DEF Init, QueueInit, RouterInit
  <2>2. \A x : Pending(x) = {}
    BY <2>1 DEF Pending
  <2>3. \A n : Members(n) = {}
    BY <2>1 DEF Members, EmptyMap
  <2> QED
    BY <2>1, <2>2, <2>3, ZenonT(30) DEF HttpInv, HopelessOut, InOrder, Settled
<1>2. RouterInv /\ HttpInv => HttpConverges
  <2> SUFFICES ASSUME RouterInv, HttpInv, NEW u \in Uri, NEW e \in Endpoint
               PROVE  LET pending == Pending(<<u, e>>)
                          last == CHOOSE k \in pending : \A j \in pending : j <= k
                      IN  IF pending # {}
                          THEN queue[last].op = "Add" <=> <<u, e>> \in wanted
                          ELSE ObjectName[u] \notin scarred =>
                                  (e \in Members(ObjectName[u])
                                      <=> <<u, e>> \in wanted \ refused)
    BY DEF HttpConverges
  <2>1. InOrder(u, e)
    BY ZenonT(30) DEF HttpInv
  <2>2. CASE Pending(<<u, e>>) = {}
    BY <2>1, <2>2 DEF InOrder, Settled
  <2>3. CASE Pending(<<u, e>>) # {}
    <3> DEFINE pending == Pending(<<u, e>>)
               last == CHOOSE k \in pending : \A j \in pending : j <= k
    <3>1. PICK k \in pending : /\ \A j \in pending : j <= k
                               /\ queue[k].op = "Add" <=> <<u, e>> \in wanted
      BY <2>1, <2>3 DEF InOrder, LastSays
    <3>2. last \in pending /\ \A j \in pending : j <= last
      BY <3>1, ZenonT(30)
    <3>3. pending \subseteq Int
      <4>1. queue \in Seq(Item)
        BY DEF RouterInv, QueueInv, QueueTypeOK
      <4> QED
        BY <4>1 DEF Pending
    <3> HIDE DEF last, pending
    <3>4. last = k
      BY <3>1, <3>2, <3>3, SamePosition, ZenonT(30)
    <3> QED
      BY <2>3, <3>1, <3>4, ZenonT(30) DEF last, pending
  <2> QED
    BY <2>2, <2>3, ZenonT(30)
<1> QED
  BY <1>1, <1>2, HttpNext, RouterInvariant, PoolInvariant, PTL DEF Spec
-----------------------------------------------------------------------------
(***************************************************************************)
(* TCP updates take effect in order                                        *)
(***************************************************************************)

\* No update of x waits.
NoneWaits(x) == \A j \in dirty : Subject(j) # x

\* As long as no opposite update was added, all that the queue or the worker holds
\* of x say the same; and once the worker has taken them out, x is so.
TcpOrder(p, e) ==
    /\ \A j \in Unfinished(<<p, e>>) : j.op = "Add" <=> <<p, e>> \in wanted
    /\ NoneWaits(<<p, e>>) => (e \in Members(ObjectName[p]) <=> <<p, e>> \in wanted)

TcpInv == \A p \in RoutePort, e \in Endpoint : <<p, e>> \notin crossed => TcpOrder(p, e)

\* The handler of a TCP update decides on its own endpoint; no other handler
\* changes the members of a TCP route.
LEMMA HandleTcp ==
    ASSUME ResourceInv, PoolInv, NEW i \in Item, handle(i), NEW p \in RoutePort, NEW e \in Endpoint
    PROVE  IF i \in TcpItem /\ Subject(i) = <<p, e>>
           THEN e \in Members(ObjectName[p])' <=> i.op = "Add"
           ELSE e \in Members(ObjectName[p])' <=> e \in Members(ObjectName[p])
<1> DEFINE n == ObjectName[p]
<1>1. \A u \in Uri : OnlyAt(ObjectName[u]) => Members(n)' = Members(n)
  BY Names, ZenonT(30) DEF OnlyAt
<1>2. \A q \in RoutePort : q # p => ObjectName[q] # n
  BY RouterAssumption, ZenonT(30)
<1>3. i \in HttpItem => i \notin TcpItem
  BY ZenonT(30) DEF HttpItem, TcpItem
<1>4. CASE i \in HttpItem /\ i.op = "Add" /\ processRouteAdd(i.uri, i.endpoint)
  <2>1. i.uri \in Uri /\ i.endpoint \in Endpoint
    BY <1>4, ZenonT(30) DEF HttpItem
  <2>2. OnlyAt(ObjectName[i.uri])
    BY <1>4, <2>1, AddMembership, ZenonT(30)
  <2> QED
    BY <1>1, <1>3, <1>4, <2>1, <2>2, ZenonT(30)
<1>5. CASE i \in HttpItem /\ i.op = "Remove" /\ processRouteRemove(i.uri, i.endpoint)
  <2>1. i.uri \in Uri /\ i.endpoint \in Endpoint
    BY <1>5, ZenonT(30) DEF HttpItem
  <2>2. OnlyAt(ObjectName[i.uri])
    BY <1>5, <2>1, RemoveMembership, ZenonT(30)
  <2> QED
    BY <1>1, <1>3, <1>5, <2>1, <2>2
<1>6. CASE i \in HttpItem /\ i.op = "Bind" /\ processRouteBind(i.uri, i.planID)
  <2>1. i.uri \in Uri /\ i.planID \in PlanID
    BY <1>6 DEF HttpItem
  <2> QED
    BY <1>3, <1>6, <2>1, BindMembership, ZenonT(30)
<1>7. CASE i \in HttpItem /\ i.op = "Unbind" /\ processRouteUnbind(i.uri)
  <2>1. i.uri \in Uri
    BY <1>7, ZenonT(30) DEF HttpItem
  <2> QED
    BY <1>3, <1>7, <2>1, UnbindMembership, ZenonT(30)
<1>8. CASE i \in TcpItem /\ i.op = "Add" /\ processTCPRouteAdd(i.routePort, i.member)
  <2>1. /\ i.routePort \in RoutePort /\ i.member \in Endpoint
        /\ Subject(i) = <<i.routePort, i.member>>
    BY <1>8, ZenonT(30) DEF TcpItem, Subject
  <2>2. /\ OnlyAt(ObjectName[i.routePort])
        /\ Members(ObjectName[i.routePort])' = Members(ObjectName[i.routePort]) \cup {i.member}
    BY <1>8, <2>1, TCPAddMembership, ZenonT(30)
  <2> QED
    BY <1>2, <1>8, <2>1, <2>2 DEF OnlyAt
<1>9. CASE i \in TcpItem /\ i.op = "Remove" /\ processTCPRouteRemove(i.routePort, i.member)
  <2>1. /\ i.routePort \in RoutePort /\ i.member \in Endpoint
        /\ Subject(i) = <<i.routePort, i.member>>
    BY <1>9, ZenonT(30) DEF TcpItem, Subject
  <2>2. /\ OnlyAt(ObjectName[i.routePort])
        /\ Members(ObjectName[i.routePort])' = Members(ObjectName[i.routePort]) \ {i.member}
    BY <1>9, <2>1, TCPRemoveMembership, ZenonT(30)
  <2> QED
    BY <1>2, <1>9, <2>1, <2>2 DEF OnlyAt
<1> QED
  BY <1>4, <1>5, <1>6, <1>7, <1>8, <1>9 DEF handle

\* Two TCP updates that ask for the same thing are the same key of the queue.
LEMMA SameTcpItem ==
    ASSUME NEW i \in TcpItem, NEW j \in TcpItem, Subject(i) = Subject(j), i.op = j.op
    PROVE  i = j
<1>1. i.routePort = j.routePort /\ i.member = j.member
  BY DEF Subject
<1> QED
  BY <1>1 DEF TcpItem

\* Add queues the update unless an equal one waits; where the opposite one waits
\* or is in progress the pair counts as crossed.
LEMMA UpdateTcp ==
    ASSUME RouterInv, TcpInv, NEW i \in Item, UpdateRoute(i)
    PROVE  TcpInv'
<1>1. Add(i) /\ UNCHANGED pools
  BY ZenonT(30) DEF UpdateRoute, resourceVars
<1>2. dirty \subseteq TcpItem /\ processing \subseteq TcpItem /\ (i \in TcpItem => i \in Hashed)
  BY RouterAssumption, ZenonT(30) DEF RouterInv, QueueInv, QueueTypeOK
<1>3. /\ UNCHANGED processing
      /\ dirty' = dirty \/ dirty' = dirty \cup ({i} \cap Hashed)
      /\ i \in Hashed => shuttingDown \/ i \in dirty'
      /\ shuttingDown => dirty' = dirty
  BY <1>1 DEF Add, Accepts, queueVars, Key
<1>4. \A m : Members(m)' = Members(m)
  BY <1>1 DEF Members
<1>5. ASSUME NEW p \in RoutePort, NEW e \in Endpoint, <<p, e>> \notin crossed' PROVE TcpOrder(p, e)'
  <2>1. PICK x : x = <<p, e>>
    OBVIOUS
  <2>2. CASE shuttingDown \/ ~About(i, x)
    <3>1. (x \in wanted' <=> x \in wanted) /\ (x \in crossed' <=> x \in crossed)
      <4>1. CASE shuttingDown \/ i.op \notin {"Add", "Remove"}
        BY <4>1 DEF UpdateRoute
      <4>2. CASE ~shuttingDown /\ i.op \in {"Add", "Remove"} /\ x # Subject(i)
        BY <4>2 DEF UpdateRoute
      <4> QED
        BY <2>2, <4>1, <4>2 DEF About
    <3>2. \A j \in TcpItem : j.op \in {"Add", "Remove"}
      BY ZenonT(30) DEF TcpItem
    <3>3. \A j \in dirty' : Subject(j) = x => j \in dirty
      BY <1>2, <1>3, <2>2, <3>2, RouterAssumption, ZenonT(30) DEF About
    <3>4. dirty \subseteq dirty'
      BY <1>3
    <3>5. TcpOrder(p, e)
      BY <1>5, <2>1, <3>1 DEF TcpInv
    <3>6. Unfinished(x)' = Unfinished(x) /\ (NoneWaits(x)' <=> NoneWaits(x))
      BY <1>3, <3>3, <3>4 DEF Unfinished, NoneWaits
    <3> QED
      BY <1>4, <2>1, <3>1, <3>5, <3>6 DEF TcpOrder
  <2>3. CASE ~shuttingDown /\ About(i, x)
    <3>1. i \in TcpItem /\ i.op \in {"Add", "Remove"} /\ Subject(i) = x
      <4>1. i \in HttpItem /\ i.op \in {"Add", "Remove"} /\ i \notin TcpItem
              => Subject(i)[1] \in Uri
        BY DEF Subject, HttpItem
      <4> QED
        BY <2>1, <2>3, <4>1, RouterAssumption DEF About
    <3>2. i.op = "Add" <=> x \in wanted'
      BY <2>3, <3>1, ZenonT(30) DEF UpdateRoute
    <3>3. \A j \in Unfinished(x) : j.op = i.op
      BY <1>5, <2>1, <2>3, <3>1, ZenonT(30) DEF UpdateRoute
    <3>4. \A j \in Unfinished(x) : j = i
      BY <1>2, <3>1, <3>3, SameTcpItem, ZenonT(30) DEF Unfinished
    <3>5. \A j \in Unfinished(x)' : j = i
      BY <1>3, <3>4 DEF Unfinished
    <3>6. ~NoneWaits(x)'
      BY <1>2, <1>3, <2>3, <3>1 DEF NoneWaits
    <3> QED
      BY <2>1, <3>2, <3>5, <3>6, ZenonT(30) DEF TcpOrder
  <2> QED
    BY <2>2, <2>3
<1> QED
  BY <1>5 DEF TcpInv

\* The worker takes the update out of the queue and makes it so.
LEMMA ProcessTcp ==
    ASSUME RouterInv, PoolInv, TcpInv, processItem
    PROVE  TcpInv'
<1>1. Get /\ handle(Head(queue)) /\ UNCHANGED <<wanted, crossed>>
  BY DEF processItem
<1>2. /\ queue \in Seq(Item) /\ queue # <<>> /\ ResourceInv
      /\ dirty \subseteq TcpItem /\ processing \subseteq TcpItem
  BY <1>1, RouterAssumption DEF Get, RouterInv, QueueInv, QueueTypeOK
<1>3. PICK i \in Item : i = Head(queue)
  BY <1>2
<1>4. i \in Hashed => i \in dirty
  <2>1. 1 \in DOMAIN queue /\ queue[1] = i
    BY <1>2, <1>3
  <2> QED
    BY <2>1 DEF RouterInv, QueueInv, QueueOK
<1>5. /\ dirty' = dirty \ ({i} \cap Hashed)
      /\ processing' = processing \cup ({i} \cap Hashed)
  BY <1>1, <1>3, ZenonT(30) DEF Get, Key
<1>6. i \in TcpItem <=> i \in Hashed
  BY RouterAssumption
<1>7. ASSUME NEW p \in RoutePort, NEW e \in Endpoint, <<p, e>> \notin crossed' PROVE TcpOrder(p, e)'
  <2>1. PICK x : x = <<p, e>>
    OBVIOUS
  <2>2. TcpOrder(p, e)
    BY <1>1, <1>7 DEF TcpInv
  <2>3. Unfinished(x)' = Unfinished(x)
    BY <1>4, <1>5 DEF Unfinished
  <2>4. IF i \in TcpItem /\ Subject(i) = x
        THEN e \in Members(ObjectName[p])' <=> i.op = "Add"
        ELSE e \in Members(ObjectName[p])' <=> e \in Members(ObjectName[p])
    BY <1>1, <1>2, <1>3, <2>1, HandleTcp
  <2>5. CASE i \in TcpItem /\ Subject(i) = x
    <3>1. i \in Unfinished(x)
      BY <1>4, <1>6, <2>5 DEF Unfinished
    <3>2. i.op = "Add" <=> x \in wanted
      BY <2>1, <2>2, <3>1, ZenonT(30) DEF TcpOrder
    <3> QED
      BY <1>1, <2>1, <2>2, <2>3, <2>4, <2>5, <3>2 DEF TcpOrder
  <2>6. CASE ~(i \in TcpItem /\ Subject(i) = x)
    <3>1. NoneWaits(x)' => NoneWaits(x)
      BY <1>5, <1>6, <2>6, ZenonT(30) DEF NoneWaits
    <3> QED
      BY <1>1, <2>1, <2>2, <2>3, <2>4, <2>6, <3>1, ZenonT(30) DEF TcpOrder
  <2> QED
    BY <2>5, <2>6
<1> QED
  BY <1>7 DEF TcpInv

\* Done, and the steps that leave queue and pools alone.
LEMMA OthersTcp ==
    ASSUME TcpInv, UNCHANGED <<dirty, pools, wanted, crossed>>, processing' \subseteq processing
    PROVE  TcpInv'
<1> SUFFICES ASSUME NEW p \in RoutePort, NEW e \in Endpoint, <<p, e>> \notin crossed'
             PROVE  TcpOrder(p, e)'
  BY DEF TcpInv
<1>1. TcpOrder(p, e)
  BY DEF TcpInv
<1>2. Unfinished(<<p, e>>)' \subseteq Unfinished(<<p, e>>)
  BY DEF Unfinished
<1>3. NoneWaits(<<p, e>>)' <=> NoneWaits(<<p, e>>)
  BY DEF NoneWaits
<1>4. Members(ObjectName[p])' = Members(ObjectName[p])
  BY DEF Members
<1> QED
  BY <1>1, <1>2, <1>3, <1>4, ZenonT(30) DEF TcpOrder

\* All steps keep the order of the TCP updates.
LEMMA TcpNext == RouterInv /\ PoolInv /\ TcpInv /\ [Next]_vars => TcpInv'
<1> SUFFICES ASSUME RouterInv, PoolInv, TcpInv, [Next]_vars PROVE TcpInv'
  OBVIOUS
<1>1. CASE UNCHANGED <<dirty, resourceVars, historyVars>> /\ processing' \subseteq processing
  BY <1>1, OthersTcp DEF resourceVars, historyVars
<1>2. ASSUME NEW dg, Run(dg)
      PROVE  UNCHANGED <<dirty, resourceVars, historyVars>> /\ processing' \subseteq processing
  BY <1>2, ZenonT(30) DEF Run, queueVars
<1>3. checkDrained \/ writeConfig \/ finishItem \/ quit
        => UNCHANGED <<dirty, resourceVars, historyVars>> /\ processing' \subseteq processing
  BY DEF checkDrained, writeConfig, finishItem, Done, quit, queueVars
<1>4. Signal \/ UNCHANGED vars
        => UNCHANGED <<dirty, resourceVars, historyVars>> /\ processing' \subseteq processing
  BY DEF Signal, ShutDown, vars, routerVars, queueVars
<1> QED
  BY <1>1, <1>2, <1>3, <1>4, UpdateTcp, ProcessTcp, ZenonT(30) DEF Next, Worker

\* The Adds and Removes of a TCP route and endpoint take effect in the order in
\* which UpdateRoute was called, as long as none is made while the opposite one is
\* queued or in progress, although the queue drops the repeated ones.
THEOREM RouterTcpConverges == Spec => []TcpConverges
<1>1. Init => TcpInv
  BY DEF Init, QueueInit, RouterInit, TcpInv, TcpOrder, Unfinished, Members, EmptyMap
<1>2. TcpInv => TcpConverges
  <2> SUFFICES ASSUME TcpInv, NEW p \in RoutePort, NEW e \in Endpoint,
                      <<p, e>> \notin crossed, Unfinished(<<p, e>>) = {}
               PROVE  e \in Members(ObjectName[p]) <=> <<p, e>> \in wanted
    BY DEF TcpConverges
  <2>1. NoneWaits(<<p, e>>)
    BY DEF NoneWaits, Unfinished
  <2> QED
    BY <2>1 DEF TcpInv, TcpOrder
<1> QED
  BY <1>1, <1>2, TcpNext, RouterInvariant, PoolInvariant, PTL DEF Spec
=============================================================================
