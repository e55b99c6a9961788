------------------------------- MODULE Config -------------------------------
(***************************************************************************)
(* What Process (config/config.go) makes of a configuration.  A string or  *)
(* a port that is only compared with "" or 0 is a Boolean: whether it is   *)
(* set.  Durations are in seconds.                                         *)
(***************************************************************************)
EXTENDS Integers

\* The outcome of a call that panics.
Panic == [panic |-> TRUE]

RoutingMode == {"TCP", "HTTP", "all"}

LoadBalancingStrategies == {"round-robin", "least-connection"}

defaultEndpointTimeout == 60

\* The type Config, with what bigip says in its section for the BIG-IP.
ConfigOf(bigip) ==
    [RouteMode : STRING, RoutingMode : RoutingMode,
     RoutingApi : [Uri : BOOLEAN, Port : BOOLEAN, AuthDisabled : BOOLEAN],
     OAuthTLS : BOOLEAN, RouterGroupName : BOOLEAN, BrokerMode : BOOLEAN,
     Status : [User : BOOLEAN, Pass : BOOLEAN],
     StartResponseDelayInterval : Int, DropletStaleThreshold : Int,
     EndpointTimeout : Int, DrainTimeout : Int, LoadBalance : STRING,
     RouteServiceSecret : BOOLEAN, RouteServiceEnabled : BOOLEAN,
     EnableSSL : BOOLEAN, CipherString : {"", "known", "unknown"}, SSLKeyPair : BOOLEAN,
     SuspendPruningIfNatsUnavailable : BOOLEAN,
     BigIP : bigip]

\* A list of suites is needed, and one suite that is not known spoils it.
processCipherSuites(c) == c.CipherString = "known"

RoutingApiEnabled(c) == c.RoutingApi.Uri /\ c.RoutingApi.Port

\* "all" needs the routing API and makes do with HTTP without it.
routingMode(c) ==
    IF c.RouteMode = "tcp" THEN "TCP"
    ELSE IF c.RouteMode = "http" \/ ~RoutingApiEnabled(c) THEN "HTTP" ELSE "all"

\* What Process panics on in a configuration; that it also panics on a machine without
\* an address is in configure (CtlrProcess).
Invalid(c) ==
    \/ c.EnableSSL /\ ~(processCipherSuites(c) /\ c.SSLKeyPair)
    \/ c.LoadBalance \notin LoadBalancingStrategies
    \/ c.RouterGroupName /\ ~RoutingApiEnabled(c)
    \/ c.RouteMode \notin {"http", "tcp", "all"}
    \/ c.RouteMode = "tcp" /\ ~RoutingApiEnabled(c)
    \/ c.BrokerMode /\ ~(c.Status.User /\ c.Status.Pass)

Process(c) ==
    IF Invalid(c) THEN Panic
    ELSE [c EXCEPT
            !.DropletStaleThreshold =
                IF @ < c.StartResponseDelayInterval THEN c.StartResponseDelayInterval ELSE @,
            !.DrainTimeout =
                IF @ \in {0, defaultEndpointTimeout} THEN c.EndpointTimeout ELSE @,
            !.RouteServiceEnabled = @ \/ c.RouteServiceSecret,
            !.RoutingMode = routingMode(c)]
=============================================================================
