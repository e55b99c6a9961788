---------------------------- MODULE MCTCPFetcher ----------------------------
(***************************************************************************)
(* TCPFetcher with one route that the API changes three times: created,    *)
(* updated, deleted, created again.                                        *)
(***************************************************************************)
EXTENDS TCPFetcher

MCRoute == RoutingKey \X BackendServerKey

MCGuid == <<"g", "h", "k">>

MCTag == VersionTag

MCRouteTTL == [r \in MCRoute |-> 1]
=============================================================================
