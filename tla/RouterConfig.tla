---------------------------- MODULE RouterConfig ----------------------------
(***************************************************************************)
(* What NewF5Router (f5router.go) accepts of the bigip section of the      *)
(* configuration, the defaults it fills in, and the virtual servers on the *)
(* external address that it and the TCP routes make from them.  A name     *)
(* is the sequence of its parts between slashes and whether it starts with *)
(* one; an address or a range is what its parser finds it to be.           *)
(***************************************************************************)
EXTENDS Integers, Sequences, Functions

\* The outcome of a call that returns an error.
Refused == [err |-> TRUE]

Name == [slash : BOOLEAN, parts : Seq(STRING)]

BigIPConfig ==
    [URL : BOOLEAN, User : BOOLEAN, Pass : BOOLEAN, Partitions : Seq(STRING),
     ExternalAddr : STRING, Tier2IPRange : STRING, HealthMonitors : Seq(Name),
     Profiles : Seq(Name), SSLProfiles : Seq(Name), Policies : Seq(Name)]

\* "/partition/name", which is how the defaults are written
Common(name) == [slash |-> TRUE, parts |-> <<"Common", name>>]

\* The whole of the address is parsed, a route domain included, and no IP address
\* has one.
verifyDestAddress(addr, port, partition) ==
    IF addr \in {"IPv4", "IPv6"} THEN [partition |-> partition, ip |-> addr, port |-> port]
    ELSE Refused

\* A CIDR network that is not the loopback's.
validateTier2Range(range) == range \in {"default", "network"}

\* Two names are the same only if both start with a slash, or neither does.
checkForString(names, name) == name \in Range(names)

validateConfig(b) ==
    IF \/ ~(b.URL /\ b.User /\ b.Pass) \/ b.Partitions = <<>> \/ b.ExternalAddr = ""
       \/ verifyDestAddress(b.ExternalAddr, 80, b.Partitions[1]) = Refused
       \/ b.Tier2IPRange # "" /\ ~validateTier2Range(b.Tier2IPRange)
    THEN Refused
    ELSE [b EXCEPT !.Tier2IPRange = IF @ = "" THEN "default" ELSE @,
                   !.HealthMonitors = IF @ = <<>> THEN <<Common("tcp_half_open")>> ELSE @,
                   !.Profiles = IF @ = <<>> THEN <<Common("http"), Common("tcp")>>
                                ELSE IF checkForString(@, Common("tcp")) THEN @
                                ELSE Append(@, Common("tcp"))]

\* A name that is not a partition and a name in it is skipped.
generateNameList(names) ==
    LET kept == SelectSeq(names, LAMBDA n : Len(n.parts) = 2)
    IN  [i \in DOMAIN kept |-> kept[i].parts]

generateProfileList(names, context) ==
    LET refs == generateNameList(names)
    IN  [i \in DOMAIN refs |-> [name |-> refs[i], context |-> context]]

Virtual(b, port, policies, profiles) ==
    [destination |-> verifyDestAddress(b.ExternalAddr, port, b.Partitions[1]),
     policies |-> policies, profiles |-> profiles]

\* The HTTP virtual, and with SSL profiles the HTTPS one.  The policy that picks
\* the route comes after the configured ones.
createHTTPVirtuals(b) ==
    LET policies == Append(generateNameList(b.Policies), <<b.Partitions[1], "cf-routing-policy">>)
        profiles == generateProfileList(b.Profiles, "all")
        http == Virtual(b, 80, policies, profiles)
        https == Virtual(b, 443, policies,
                         profiles \o generateProfileList(b.SSLProfiles, "clientside"))
    IN  <<http>> \o (IF b.SSLProfiles = <<>> THEN <<>> ELSE <<https>>)

\* The virtual of a TCP route has no profiles but tcp, whatever is configured.
createTCPResources(b, routePort) ==
    Virtual(b, routePort, <<>>, generateProfileList(<<Common("tcp")>>, "all"))
-----------------------------------------------------------------------------
(***************************************************************************)
(* What the router relies on                                               *)
(***************************************************************************)

\* A configuration that is accepted stays as it is when it is validated again, and
\* each of its virtuals has a destination, the policy that picks the route, and the
\* tcp profile exactly once, unless a profile is given as "Common/tcp".
AcceptedIsUsable(raw) ==
    LET b == validateConfig(raw)
        tcp(v) == {i \in DOMAIN v.profiles : v.profiles[i].name = <<"Common", "tcp">>}
    IN  b # Refused =>
          /\ validateConfig(b) = b
          /\ \A v \in Range(createHTTPVirtuals(b)) :
                /\ v.destination # Refused
                /\ v.policies[Len(v.policies)] = <<b.Partitions[1], "cf-routing-policy">>
                /\ tcp(v) # {}
                /\ \A i, j \in tcp(v) : i = j \/ [Common("tcp") EXCEPT !.slash = FALSE]
                                                    \in Range(b.Profiles)

\* No two virtuals share a destination, unless a TCP route has a port of the HTTP
\* virtuals: nothing keeps a router group from handing out 80 or 443.
DestinationsApart(raw, routePorts) ==
    LET b == validateConfig(raw)
        http == {v.destination : v \in Range(createHTTPVirtuals(b))}
        tcp == {createTCPResources(b, port).destination : port \in routePorts}
    IN  b # Refused => (http \cap tcp = {} <=> {d.port : d \in http} \cap routePorts = {})
=============================================================================
