--------------------------- MODULE ModificationTag ---------------------------
(***************************************************************************)
(* The modification tags by which the routing API orders the states of one *)
(* route (routing-api/models): a guid, new each time the route is created, *)
(* and an index that counts its changes.                                   *)
(***************************************************************************)
EXTENDS Naturals

\* ModificationTag.SucceededBy.  A tag without a guid, as every registration
\* from NATS has, neither wins nor loses.
SucceededBy(tag, other) ==
    \/ tag.guid = "" \/ other.guid = ""
    \/ tag.guid # other.guid
    \/ tag.index < other.index

\* modificationTagSameOrNewer of a pool, deleteSucceededBy of the routing table
SameOrNewer(tag, other) == tag = other \/ SucceededBy(tag, other)
=============================================================================
