---------------------------- MODULE PoolMembers ----------------------------
(***************************************************************************)
(* The member slices of addPool and removePool (f5router.go), as sequences *)
(* without duplicates or, after an Unbind, with them.                      *)
(***************************************************************************)
EXTENDS Integers, FiniteSets, Sequences, Functions

\* removePool's loop from position first on: i runs over the positions the
\* slice had when the loop began; where element i equals m, the last element
\* takes its place and the slice shrinks.  The element moved in is not looked
\* at again.  So the k-th match is overwritten by the k-th element from the
\* end, as long as that is not to its left.
RemoveMatches(s, m, first) ==
    LET rank(i) == Cardinality({j \in first .. i : s[j] = m})
        fromEnd(i) == Len(s) - rank(i) + 1
        removed == {i \in first .. Len(s) : s[i] = m /\ i <= fromEnd(i)}
    IN  [i \in 1 .. Len(s) - Cardinality(removed) |->
            IF i \in removed THEN s[fromEnd(i)] ELSE s[i]]

\* removePool called with a pool whose first member is m.
RemoveMember(s, m) == RemoveMatches(s, m, 1)

\* removePool called with the very pool object it finds in poolResources, as
\* Bind and Unbind do: the member compared with is the first one of the slice
\* being changed.  It matches at once, and from then on it is the old last one.
RemoveOwnFirst(s) ==
    LET rest == [i \in 1 .. Len(s) - 1 |-> IF i = 1 THEN s[Len(s)] ELSE s[i]]
    IN  IF rest = <<>> THEN rest ELSE RemoveMatches(rest, rest[1], 2)

\* Variant of AddMembers that does not look for the member first.
AddMembersBlindly(s, new) == s \o new

\* addPool, when the pool exists: only the first new member is looked for, and
\* then all of them are appended.
AddMembers(s, new) == IF new[1] \in Range(s) THEN s ELSE s \o new
=============================================================================
