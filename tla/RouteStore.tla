----------------------------- MODULE RouteStore -----------------------------
(***************************************************************************)
(* What a store of routes promises to those who feed it and to the router  *)
(* it informs, whatever it keeps inside: the TCP routing table and the     *)
(* registry of HTTP routes both implement it.  A member is a route with    *)
(* one of its backends, and has the tag it was last accepted with.         *)
(***************************************************************************)
EXTENDS Maps, ModificationTag

CONSTANTS
    Member,
    MemberTag

VARIABLES
    tags,    \* the members of the store, each with its tag
    heard    \* the members the router has heard of and not lost again

Init == tags = EmptyMap /\ heard = {}

\* The router hears of a member once, when the store takes it in.
Announce(m) ==
    /\ heard' = heard \cup {m}
    /\ m \notin DOMAIN tags
    /\ \E tag \in MemberTag : tags' = Put(tags, m, tag)

\* A newer state of a member replaces the older one; the router is not bothered.
Renew(m) ==
    /\ UNCHANGED heard
    /\ m \in DOMAIN tags
    /\ \E tag \in MemberTag : SucceededBy(tags[m], tag) /\ tags' = Put(tags, m, tag)

\* Members are deleted or expire, some at once, and the router hears of each.
Withdraw(gone) ==
    /\ heard' = heard \ gone
    /\ tags' = Only(tags, DOMAIN tags \ gone)

\* What comes late, or concerns nobody here, is refused.
Refuse == UNCHANGED heard /\ UNCHANGED tags

Next ==
    \/ Refuse
    \/ \E m \in Member : Announce(m)
    \/ \E m \in heard : Renew(m)
    \/ \E gone \in SUBSET heard : Withdraw(gone)

Spec == Init /\ [][Next]_<<tags, heard>>
=============================================================================
