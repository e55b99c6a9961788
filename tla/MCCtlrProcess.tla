---------------------------- MODULE MCCtlrProcess ----------------------------
(***************************************************************************)
(* CtlrProcess with one configuration per routing mode, HTTP without the   *)
(* routing API and "all" with all that goes with it, and four that end the *)
(* process on its way to the group.  All combinations of the options that  *)
(* Process and the router look at are checked against what main and the    *)
(* router rely on.                                                         *)
(***************************************************************************)
EXTENDS CtlrProcess

DefaultBigIP ==
    [URL |-> TRUE, User |-> TRUE, Pass |-> TRUE, Partitions |-> <<"cf">>,
     ExternalAddr |-> "IPv4", Tier2IPRange |-> "", HealthMonitors |-> <<>>,
     Profiles |-> <<>>, SSLProfiles |-> <<>>, Policies |-> <<>>]

\* The configuration that DefaultConfig starts from.
Default ==
    [RouteMode |-> "http", RoutingMode |-> "HTTP",
     RoutingApi |-> [Uri |-> FALSE, Port |-> FALSE, AuthDisabled |-> FALSE],
     OAuthTLS |-> TRUE, RouterGroupName |-> FALSE, BrokerMode |-> FALSE,
     Status |-> [User |-> TRUE, Pass |-> TRUE],
     StartResponseDelayInterval |-> 5, DropletStaleThreshold |-> 120,
     EndpointTimeout |-> 60, DrainTimeout |-> 60,
     LoadBalance |-> "round-robin", RouteServiceSecret |-> FALSE,
     RouteServiceEnabled |-> FALSE,
     EnableSSL |-> FALSE, CipherString |-> "", SSLKeyPair |-> FALSE,
     SuspendPruningIfNatsUnavailable |-> FALSE,
     BigIP |-> DefaultBigIP]

WithApi(mode) ==
    [Default EXCEPT !.RouteMode = mode, !.RoutingApi.Uri = TRUE, !.RoutingApi.Port = TRUE]

MCConfiguration ==
    {Default,
     [WithApi("all") EXCEPT !.RouterGroupName = TRUE, !.BrokerMode = TRUE,
                            !.SuspendPruningIfNatsUnavailable = TRUE],
     [WithApi("tcp") EXCEPT !.RoutingApi.AuthDisabled = TRUE],
     [WithApi("tcp") EXCEPT !.OAuthTLS = FALSE],
     [Default EXCEPT !.RouteMode = "tcp"],
     [Default EXCEPT !.BigIP.Tier2IPRange = "loopback"],
     [Default EXCEPT !.BrokerMode = TRUE, !.Status.Pass = FALSE]}

\* Every combination of the options that Process looks at
AnyConfiguration ==
    {[Default EXCEPT
        !.RouteMode = mode,
        !.RoutingApi = [Uri |-> api[1], Port |-> api[2], AuthDisabled |-> TRUE],
        !.RouterGroupName = flags[1], !.BrokerMode = flags[2],
        !.Status = [User |-> TRUE, Pass |-> flags[3]], !.RouteServiceSecret = flags[4], !.DropletStaleThreshold = times[1],
        !.EndpointTimeout = times[2], !.DrainTimeout = times[3],
        !.LoadBalance = ssl[1], !.EnableSSL = ssl[2], !.CipherString = ssl[3],
        !.SSLKeyPair = ssl[4]] :
        mode \in {"http", "tcp", "all", "udp"},
        api \in BOOLEAN \X BOOLEAN,
        flags \in BOOLEAN \X BOOLEAN \X BOOLEAN \X BOOLEAN,
        times \in {2, 120} \X {60, 90} \X {0, 60, 75},
        ssl \in {<<"round-robin", FALSE, "", FALSE>>, <<"random", FALSE, "", FALSE>>,
                 <<"least-connection", TRUE, "known", TRUE>>,
                 <<"round-robin", TRUE, "known", FALSE>>,
                 <<"round-robin", TRUE, "unknown", TRUE>>}}

\* A configuration that Process accepts has what main relies on: the routing API for
\* TCP routes and router groups, credentials for the broker, a member that is not
\* stale before the start response delay is over.  Processing it once more, as main
\* does after DefaultConfig has, changes nothing.
ASSUME ProcessedIsUsable ==
    \A raw \in AnyConfiguration :
       LET p == Process(raw)
       IN  p # Panic =>
             /\ p.RoutingMode \in RoutingMode
             /\ p.RoutingMode # "HTTP" \/ p.RouterGroupName => RoutingApiEnabled(p)
             /\ p.BrokerMode => p.Status.User /\ p.Status.Pass
             /\ p.DropletStaleThreshold >= p.StartResponseDelayInterval
             /\ Process(p) = p
-----------------------------------------------------------------------------
Bare(name) == [slash |-> FALSE, parts |-> <<"Common", name>>]

Incomplete == [slash |-> FALSE, parts |-> <<"http">>]

Names == {<<>>, <<Common("http")>>, <<Common("tcp")>>, <<Bare("tcp")>>,
          <<Incomplete, Common("http")>>}

AnyBigIP ==
    {[DefaultBigIP EXCEPT
        !.URL = required[1], !.Partitions = required[2], !.ExternalAddr = addr,
        !.Tier2IPRange = range, !.HealthMonitors = monitors, !.Profiles = lists[1],
        !.SSLProfiles = lists[2], !.Policies = lists[3]] :
        required \in {<<FALSE, <<"cf">>>>, <<TRUE, <<>>>>, <<TRUE, <<"cf">>>>, <<TRUE, <<"a", "b">>>>},
        addr \in {"", "IPv4", "IPv6", "IPv4%1", "name"},
        range \in {"", "network", "host bits", "loopback", "no slash", "two slashes"},
        monitors \in {<<>>, <<Bare("tcp")>>},
        lists \in Names \X {<<>>, <<Common("clientssl")>>} \X {<<>>, <<Incomplete>>}}

\* What the router accepts of all these, against what it relies on.
ASSUME BigIPChecked ==
    \A b \in AnyBigIP : AcceptedIsUsable(b) /\ DestinationsApart(b, {443, 1024})
=============================================================================
