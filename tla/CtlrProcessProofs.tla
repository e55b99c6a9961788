-------------------------- MODULE CtlrProcessProofs --------------------------
(***************************************************************************)
(* The safety properties of CtlrProcess, for any configurations and any    *)
(* room in the queue of NATS callbacks.                                    *)
(***************************************************************************)
EXTENDS CtlrProcess, FiniteSetTheorems, SequenceTheorems, TLAPS

(***************************************************************************)
(* The inductive invariant                                                 *)
(***************************************************************************)
Step == {"none", "starting", "greet", "routes", "delay", "broker data group", "ready",
         "draining", "stopping", "exited", "failed"}

TypeInv ==
    /\ status \in Outcome
    /\ main \in {"config", "nats", "natsHost", "routing api", "router group", "f5router",
                 "members", "controller", "group", "wait"}
    /\ attempts \in 0 .. 3 /\ client \in BOOLEAN
    /\ listener \in {"none", "open", "closed"} /\ heartbeatOK \in BOOLEAN
    /\ member \in [Member -> Step] /\ signals \subseteq Member
    /\ group \in {"none", "starting", "running", "stopping"} /\ at \in 0 .. Len(members)
    /\ signalled \in BOOLEAN /\ terminating \in BOOLEAN
    /\ child \in {"none", "up", "exit 0", "exit 1", "killed", "reaped"}

\* The places in the client's queue that hold a DisconnectedCB: each starts a
\* goroutine when it runs, and each stands for one outage.
Disconnected(q) == {i \in 1 .. Len(q) : q[i] = "DisconnectedCB"}

\* What the holder of nc.mu may have to send, and the disconnections among it.
Sendings ==
    {<<>>, <<"DisconnectedCB">>, <<"ReconnectedCB">>,
     <<"DisconnectedCB", "ClosedCB", "closeAsyncFunc">>, <<"ClosedCB", "closeAsyncFunc">>,
     <<"closeAsyncFunc">>}

One(name) == IF name = "DisconnectedCB" THEN 1 ELSE 0

Owed(q) == IF q = <<>> THEN 0 ELSE One(Head(q))

NatsInv ==
    /\ connection \in {"none", "connected", "reconnecting", "closed"}
    /\ sending \in Sendings
    /\ ach \in Seq(Callback) /\ Len(ach) <= asyncCBChanSize
    /\ callback \in {"none", "connectedChan", "connectedUrl", "startMsg"}
    /\ calls \subseteq {"start message", "status"}
    /\ waiters \in Nat /\ natsHost \in BOOLEAN /\ outages \in 0 .. MaxOutages
    /\ waiters + Cardinality(Disconnected(ach)) + Owed(sending) <= outages

\* What main has done before its next step.
SetupInv ==
    /\ c \in ConfigOf({c.BigIP})
    /\ main # "config" => (c.RoutingMode # "HTTP" => RoutingApiEnabled(c))
    /\ Running /\ main \in {"config", "nats"} => attempts > 0
    /\ main = "router group" => client
    /\ main \in {"f5router", "members", "controller", "group", "wait"} =>
          (RoutingApiEnabled(c) => client)

\* The steps of each member, and what the steps of one say of the rest.
StepsOf ==
    [m \in Member |->
       IF m = "subscriber" THEN {"none", "starting", "greet", "routes", "ready", "exited", "failed"}
       ELSE IF m = "controller" THEN {"none", "starting", "delay", "ready", "exited"}
       ELSE IF m = "f5router"
            THEN {"none", "starting", "broker data group", "ready", "draining", "exited"}
       ELSE IF m = "f5driver" THEN {"none", "starting", "ready", "stopping", "exited", "failed"}
       ELSE {"none", "starting", "ready", "exited"}]

StepsInv ==
    /\ \A m \in Member : member[m] \in StepsOf[m]
    /\ heartbeatOK <=> member["controller"] \in {"ready", "exited"}
    /\ member["controller"] = "exited" => listener # "open"
    /\ child = "up" => member["f5driver"] \in {"ready", "stopping"}

\* The step of a member that became ready once.
Past == {"ready", "draining", "stopping", "exited"}

\* The group: members before the last started one are ready, those after it were
\* never started, or have ended while the group stops; only a group that stops
\* signals.
GroupInv ==
    /\ group = "none" <=> main # "wait"
    /\ group = "none" => /\ at = 0 /\ signals = {}
                         /\ \A m \in Member : member[m] = "none"
    /\ group # "none" /\ Running => at > 0
    /\ group # "stopping" => signals = {}
    /\ \A m \in signals : \E i \in 1 .. Len(members) : i >= at /\ m = members[i]
    /\ \A i \in 1 .. Len(members) :
          /\ i < at => member[members[i]] = "ready"
          /\ i = at => /\ member[members[i]] # "none"
                       /\ group # "stopping" =>
                             member[members[i]] \notin {"draining", "stopping", "exited"}
          /\ i > at => \/ member[members[i]] = "none"
                       \/ group = "stopping" /\ Ended(members[i])
    /\ \A i, j \in 1 .. Len(members) :
          i < j /\ member[members[j]] # "none" => member[members[i]] \in Past
    /\ \A m \in Member \ Range(members) : member[m] = "none"

ProcessInv == TypeInv /\ NatsInv /\ SetupInv /\ StepsInv /\ GroupInv
-----------------------------------------------------------------------------
(***************************************************************************)
(* The list of members                                                     *)
(***************************************************************************)

\* What the group relies on of its list of members.
IsMemberList(s) ==
    /\ s \in Seq(Member) /\ Len(s) \in 3 .. 6
    /\ \A i, j \in 1 .. Len(s) : s[i] = s[j] => i = j
    /\ s[Len(s) - 2] = "controller" /\ s[Len(s) - 1] = "f5router" /\ s[Len(s)] = "f5driver"
    /\ \A i \in 1 .. Len(s) : i < Len(s) - 2 => s[i] \in Fetchers \cup {"subscriber"}

\* Three members follow those of the routing mode.
LEMMA ThirdLast == \A n \in 3 .. 6 : n - 2 \in 1 .. n
  OBVIOUS

\* The elements of one sequence and those of the other.
LEMMA Joined ==
    ASSUME NEW S, NEW s \in Seq(S), NEW t \in Seq(S)
    PROVE  /\ s \o t \in Seq(S) /\ Len(s \o t) = Len(s) + Len(t)
           /\ \A i \in 1 .. Len(s) : (s \o t)[i] = s[i]
           /\ \A i \in 1 .. Len(t) : (s \o t)[Len(s) + i] = t[i]
  OBVIOUS

\* A list that has one more member before the others.
LEMMA Prepended ==
    ASSUME NEW x \in Fetchers \cup {"subscriber"}, NEW s, IsMemberList(s), Len(s) < 6,
           x \notin Range(s)
    PROVE  /\ IsMemberList(<<x>> \o s) /\ Len(<<x>> \o s) = 1 + Len(s)
           /\ Range(<<x>> \o s) = {x} \cup Range(s)
<1>1. x \in Member /\ s \in Seq(Member)
  BY DEF Member, IsMemberList
<1> DEFINE u == <<x>>
           t == u \o s
<1>2. u \in Seq(Member)
  BY <1>1
<1>3. /\ t \in Seq(Member) /\ Len(t) = Len(u) + Len(s)
      /\ \A i \in 1 .. Len(u) : t[i] = u[i]
      /\ \A i \in 1 .. Len(s) : t[Len(u) + i] = s[i]
  BY <1>1, <1>2, Joined
<1>4. Len(u) = 1 /\ u[1] = x
  OBVIOUS
<1> HIDE DEF u, t
<1>5. /\ t \in Seq(Member) /\ Len(t) = 1 + Len(s) /\ t[1] = x /\ Len(s) \in 3 .. 6
      /\ \A i \in 1 .. Len(s) : t[1 + i] = s[i]
  BY <1>3, <1>4 DEF IsMemberList
<1>6. /\ \A i \in 1 .. Len(t) : i = 1 \/ (i - 1 \in 1 .. Len(s) /\ t[i] = s[i - 1])
      /\ DOMAIN s = 1 .. Len(s) /\ DOMAIN t = 1 .. Len(t)
  <2>1. \A i \in 1 .. Len(t) : i = 1 \/ (i - 1 \in 1 .. Len(s) /\ 1 + (i - 1) = i)
    BY <1>5
  <2> QED
    BY <1>1, <1>5, <2>1
<1>7. Range(t) = {x} \cup Range(s)
  <2>1. \A y \in Range(t) : y = x \/ y \in Range(s)
    BY <1>5, <1>6 DEF Range
  <2>2. x \in Range(t)
    BY <1>5, <1>6 DEF Range
  <2>3. \A i \in 1 .. Len(s) : s[i] \in Range(t)
    <3>1. \A i \in 1 .. Len(s) : 1 + i \in 1 .. Len(t)
      BY <1>5
    <3> QED
      BY <1>5, <1>6, <3>1 DEF Range
  <2> QED
    BY <1>6, <2>1, <2>2, <2>3, ZenonT(30) DEF Range
<1>8. \A i, j \in 1 .. Len(t) : t[i] = t[j] => i = j
  <2>1. \A i \in 1 .. Len(s) : s[i] # x
    BY <1>6 DEF Range
  <2>2. \A i, j \in 1 .. Len(s) : s[i] = s[j] => i = j
    BY DEF IsMemberList
  <2>3. ASSUME NEW i \in 1 .. Len(t), NEW j \in 1 .. Len(t), t[i] = t[j] PROVE i = j
    BY <1>5, <1>6, <2>1, <2>2, <2>3
  <2> QED
    BY <2>3
<1>9. /\ t[Len(t) - 2] = "controller" /\ t[Len(t) - 1] = "f5router" /\ t[Len(t)] = "f5driver"
  <2>a. Len(s) - 2 \in 1 .. Len(s) /\ Len(s) - 1 \in 1 .. Len(s) /\ Len(s) \in 1 .. Len(s)
    <3>1. Len(s) \in 3 .. 6
      BY DEF IsMemberList
    <3>2. \A n \in 3 .. 6 : n - 2 \in 1 .. n /\ n - 1 \in 1 .. n /\ n \in 1 .. n
      OBVIOUS
    <3> QED
      BY <3>1, <3>2, ZenonT(30)
  <2>1. /\ t[1 + (Len(s) - 2)] = s[Len(s) - 2] /\ t[1 + (Len(s) - 1)] = s[Len(s) - 1]
        /\ t[1 + Len(s)] = s[Len(s)]
    BY <1>5, <2>a
  <2>2. 1 + (Len(s) - 2) = Len(t) - 2 /\ 1 + (Len(s) - 1) = Len(t) - 1
    BY <1>5
  <2> QED
    BY <1>5, <2>1, <2>2 DEF IsMemberList
<1>10. \A i \in 1 .. Len(t) : i < Len(t) - 2 => t[i] \in Fetchers \cup {"subscriber"}
  <2> SUFFICES ASSUME NEW i \in 1 .. Len(t), i < Len(t) - 2
               PROVE  t[i] \in Fetchers \cup {"subscriber"}
    OBVIOUS
  <2>1. CASE i = 1
    BY <1>5, <2>1
  <2>2. CASE i - 1 \in 1 .. Len(s) /\ t[i] = s[i - 1]
    <3>1. i - 1 < Len(s) - 2
      BY <1>5
    <3> QED
      BY <2>2, <3>1 DEF IsMemberList
  <2> QED
    BY <1>6, <2>1, <2>2
<1>11. IsMemberList(t)
  BY <1>5, <1>8, <1>9, <1>10 DEF IsMemberList
<1> QED
  BY <1>5, <1>7, <1>11 DEF t, u

MembersOK ==
    /\ IsMemberList(members)
    /\ Range(members) = {members[i] : i \in 1 .. Len(members)}
    /\ "http-route-fetcher" \in Range(members) => RoutingApiEnabled(c)
    /\ "tcp-route-fetcher" \in Range(members) => c.RoutingMode # "HTTP"

\* Each list that main builds (routeMode in main.go) starts with sources of routes,
\* names nobody twice, and ends with the controller, the router and the driver.
LEMMA MembersListed == MembersOK
<1> DEFINE api == RoutingApiEnabled(c)
           mode == c.RoutingMode
           end == <<"controller", "f5router", "f5driver">>
           tcp == IF mode = "HTTP" THEN <<>> ELSE <<"tcp-route-fetcher">>
           http == IF api THEN <<"http-route-fetcher">> ELSE <<>>
           nats == <<"subscriber">>
<1>1. IsMemberList(end) /\ Len(end) = 3 /\ Range(end) = {"controller", "f5router", "f5driver"}
  <2>1. IsMemberList(end) /\ Len(end) = 3
    BY DEF IsMemberList, Member, Fetchers
  <2>2. Range(end) = {end[1], end[2], end[3]}
    BY DEF Range
  <2> QED
    BY <2>1, <2>2
<1>2. /\ end \in Seq(Member) /\ tcp \in Seq(Member) /\ http \in Seq(Member) /\ nats \in Seq(Member)
  <2>1. /\ end \in Seq(Member) /\ nats \in Seq(Member) /\ <<>> \in Seq(Member)
        /\ <<"tcp-route-fetcher">> \in Seq(Member) /\ <<"http-route-fetcher">> \in Seq(Member)
    BY DEF Member, Fetchers
  <2> QED
    BY <2>1
<1> HIDE DEF end
<1>3. /\ IsMemberList(tcp \o end) /\ Len(tcp \o end) \in 3 .. 4 /\ tcp \o end \in Seq(Member)
      /\ Range(tcp \o end) \subseteq {"tcp-route-fetcher", "controller", "f5router", "f5driver"}
      /\ "tcp-route-fetcher" \in Range(tcp \o end) => mode # "HTTP"
  <2>1. CASE mode = "HTTP"
    <3>1. tcp \o end = end
      BY <1>2, <2>1, ConcatEmptySeq
    <3> QED
      BY <1>1, <1>2, <2>1, <3>1
  <2>2. CASE mode # "HTTP"
    <3>1. tcp = <<"tcp-route-fetcher">> /\ "tcp-route-fetcher" \in Fetchers
             /\ "tcp-route-fetcher" \notin Range(end)
      BY <1>1, <2>2 DEF Fetchers
    <3> HIDE DEF tcp
    <3>2. Len(end) < 6
      BY <1>1
    <3>3. /\ IsMemberList(tcp \o end) /\ Len(tcp \o end) = 1 + Len(end)
          /\ Range(tcp \o end) = {"tcp-route-fetcher"} \cup Range(end)
      BY <1>1, <3>1, <3>2, Prepended, ZenonT(30)
    <3> QED
      BY <1>1, <2>2, <3>3 DEF IsMemberList
  <2> QED
    BY <2>1, <2>2
<1> DEFINE rest == tcp \o end
<1> HIDE DEF tcp, rest
<1>4. /\ IsMemberList(nats \o rest) /\ Len(nats \o rest) \in 4 .. 5 /\ nats \o rest \in Seq(Member)
      /\ Range(nats \o rest) = {"subscriber"} \cup Range(rest)
  <2>1. IsMemberList(rest) /\ Len(rest) < 6 /\ "subscriber" \notin Range(rest) /\ Len(rest) \in 3 .. 4
    BY <1>3 DEF rest
  <2>2. /\ IsMemberList(nats \o rest) /\ Len(nats \o rest) = 1 + Len(rest)
        /\ Range(nats \o rest) = {"subscriber"} \cup Range(rest)
    BY <2>1, Prepended, ZenonT(30)
  <2>3. nats \o rest \in Seq(Member)
    BY <2>2, ZenonT(30) DEF IsMemberList
  <2>4. Len(nats \o rest) \in 4 .. 5
    <3>1. \A n \in 3 .. 4 : 1 + n \in 4 .. 5
      OBVIOUS
    <3> QED
      BY <2>1, <2>2, <3>1, ZenonT(30)
  <2> QED
    BY <2>2, <2>3, <2>4, ZenonT(30)
<1> HIDE DEF nats
<1>5. /\ IsMemberList(http \o (nats \o rest))
      /\ Range(http \o (nats \o rest)) \subseteq {"http-route-fetcher", "subscriber"} \cup Range(rest)
      /\ "http-route-fetcher" \in Range(http \o (nats \o rest)) => api
  <2>1. "http-route-fetcher" \notin {"subscriber"} \cup Range(rest)
    BY <1>3 DEF rest
  <2>2. CASE ~api
    <3>1. http \o (nats \o rest) = nats \o rest
      BY <1>4, <2>2, ConcatEmptySeq
    <3> QED
      BY <1>4, <2>1, <2>2, <3>1
  <2>3. CASE api
    <3>1. http = <<"http-route-fetcher">> /\ "http-route-fetcher" \in Fetchers
      BY <2>3 DEF Fetchers
    <3> HIDE DEF http
    <3>2. Len(nats \o rest) < 6 /\ "http-route-fetcher" \notin Range(nats \o rest)
      BY <1>4, <2>1
    <3>3. /\ IsMemberList(http \o (nats \o rest))
          /\ Range(http \o (nats \o rest)) = {"http-route-fetcher"} \cup Range(nats \o rest)
      BY <1>4, <3>1, <3>2, Prepended, ZenonT(30)
    <3> QED
      BY <1>4, <2>3, <3>3
  <2> QED
    BY <2>2, <2>3
<1>6. IsMemberList(members) /\ ("http-route-fetcher" \in Range(members) => api)
         /\ ("tcp-route-fetcher" \in Range(members) => mode # "HTTP")
  <2>1. CASE mode = "TCP"
    <3>1. members = <<>> \o tcp \o end
      BY <2>1 DEF members, tcp, end
    <3>2. members = rest
      BY <1>2, <3>1, ConcatEmptySeq DEF rest
    <3> QED
      BY <1>3, <2>1, <3>2 DEF rest
  <2>2. CASE mode # "TCP"
    <3>1. members = (http \o nats) \o tcp \o end
      BY <2>2 DEF members, http, nats, tcp, end
    <3>2. members = http \o (nats \o rest)
      <4> HIDE DEF http
      <4>a. http \o nats \in Seq(Member)
        BY <1>2, Joined
      <4>b. \A s, t, u \in Seq(Member) : (s \o t) \o u = s \o (t \o u)
        BY ConcatAssociative
      <4>1. (http \o nats) \o tcp \o end = (http \o nats) \o rest
        BY <1>2, <4>a, <4>b, ZenonT(30) DEF rest
      <4>2. rest \in Seq(Member)
        BY <1>3 DEF rest
      <4>3. (http \o nats) \o rest = http \o (nats \o rest)
        BY <1>2, <4>2, <4>b, ZenonT(30)
      <4> QED
        BY <3>1, <4>1, <4>3
    <3> QED
      BY <1>3, <1>5, <3>2 DEF rest
  <2> QED
    BY <2>1, <2>2
<1>7. Range(members) = {members[i] : i \in 1 .. Len(members)}
  BY <1>6 DEF IsMemberList, Range
<1> QED
  BY <1>6, <1>7 DEF MembersOK

\* So does the list that main builds from another configuration.
LEMMA MembersListedNext == MembersOK'
  BY MembersListed, PTL
-----------------------------------------------------------------------------
(***************************************************************************)
(* What the steps have in common                                           *)
(***************************************************************************)

\* The list depends on nothing but the configuration.
LEMMA MembersKept == UNCHANGED c => members' = members
  BY DEF members, RoutingApiEnabled

\* A process that has ended runs no more; nothing else of main changes.
LEMMA SetupKept ==
    ASSUME SetupInv, UNCHANGED setupVars, Running' => Running
    PROVE  SetupInv'
  BY DEF SetupInv, setupVars, RoutingApiEnabled

\* The same for what is known of the group, while no member and no signal moves.
LEMMA GroupKept ==
    ASSUME GroupInv, UNCHANGED <<c, main, group, at, member, signals>>, Running' => Running
    PROVE  GroupInv'
<1>1. members' = members
  BY MembersKept
<1> QED
  BY <1>1 DEF GroupInv, Ended

\* The same for the steps of the members; the child of the driver may end.
LEMMA StepsKept ==
    ASSUME StepsInv, UNCHANGED <<member, heartbeatOK, listener>>, child' = "up" => child = "up"
    PROVE  StepsInv'
  BY DEF StepsInv

\* The same for the NATS client, in a step that leaves the connection alone.
LEMMA NatsKept ==
    ASSUME NatsInv, UNCHANGED natsVars
    PROVE  NatsInv'
  BY DEF NatsInv, natsVars

\* The steps of a member that is on its way to its loop.
Early == {"starting", "greet", "routes", "delay", "broker data group"}

\* A member that is on its way, that ends, or that receives a signal is the one the
\* group has started last or stops now.
LEMMA ActiveIsAt ==
    ASSUME TypeInv, GroupInv, NEW m \in Member,
           \/ member[m] \in Early \cup {"draining", "stopping"}
           \/ member[m] = "ready" /\ m \in signals
    PROVE  /\ at \in 1 .. Len(members) /\ m = members[at] /\ group # "none"
           /\ member[m] \in Past => group = "stopping"
<1>1. IsMemberList(members) /\ Range(members) = {members[i] : i \in 1 .. Len(members)}
  BY MembersListed DEF MembersOK
<1>2. member[m] # "none" /\ group # "none"
  BY DEF GroupInv, Early, TypeInv
<1>3. PICK i \in 1 .. Len(members) : m = members[i]
  BY <1>1, <1>2 DEF GroupInv
<1>4. at \in Nat /\ Len(members) \in Nat /\ i \in Nat
  <2>1. Len(members) \in Nat
    BY <1>1 DEF IsMemberList
  <2>2. at \in 0 .. Len(members)
    BY DEF TypeInv
  <2> QED
    BY <2>1, <2>2
<1>5. ~(i > at)
  BY <1>2, <1>3 DEF GroupInv, Ended, Early
<1>6. ~(i < at)
  <2>1. CASE member[m] \in Early \cup {"draining", "stopping"}
    BY <1>3, <2>1 DEF GroupInv, Early
  <2>2. CASE m \in signals
    <3>1. PICK k \in 1 .. Len(members) : k >= at /\ m = members[k]
      BY <2>2 DEF GroupInv
    <3>2. k = i
      BY <1>1, <1>3, <3>1, ZenonT(30) DEF IsMemberList
    <3> QED
      BY <1>4, <3>1, <3>2
  <2> QED
    BY <2>1, <2>2
<1>7. i = at
  BY <1>4, <1>5, <1>6
<1>8. member[m] \in Past => group = "stopping"
  BY <1>3, <1>7 DEF GroupInv, Past, Early
<1> QED
  BY <1>2, <1>3, <1>7, <1>8

\* Such a member moves on, and the group stays as it should be.
LEMMA MemberMoves ==
    ASSUME TypeInv, GroupInv, NEW m \in Member, NEW new \in Step, Goes(m, new),
           signals' \subseteq signals, UNCHANGED <<status, c, main, group, at>>,
           \/ member[m] \in Early /\ new \in Early \cup {"ready", "failed"}
           \/ /\ member[m] = "ready" /\ m \in signals
              /\ new \in Past \/ (new = "failed" /\ m = "f5driver")
           \/ member[m] \in {"draining", "stopping"} /\ new = "exited"
    PROVE  GroupInv' /\ member' \in [Member -> Step]
<1>1. /\ IsMemberList(members) /\ Range(members) = {members[i] : i \in 1 .. Len(members)}
      /\ members' = members
  BY MembersListed, MembersKept DEF MembersOK
<1>2. /\ at \in 1 .. Len(members) /\ m = members[at] /\ group # "none"
      /\ member[m] \in Past => group = "stopping"
  BY ActiveIsAt
<1>3. /\ member' \in [Member -> Step] /\ member'[m] = new
      /\ \A x \in Member \ {m} : member'[x] = member[x]
  BY DEF TypeInv, Goes
<1>4. /\ Len(members) \in Nat /\ at \in Nat
      /\ \A i \in 1 .. Len(members) : i # at => members[i] # m /\ members[i] \in Member
  <2>1. Len(members) \in Nat
    BY <1>1 DEF IsMemberList
  <2>2. members \in Seq(Member) /\ \A i, j \in 1 .. Len(members) : members[i] = members[j] => i = j
    BY <1>1 DEF IsMemberList
  <2> QED
    BY <1>2, <2>1, <2>2
<1>5. new # "none" /\ (group # "stopping" => new \notin {"draining", "stopping", "exited"})
  BY <1>2 DEF Past, Early
<1>6. /\ \A x \in signals' : \E i \in 1 .. Len(members) : i >= at /\ x = members[i]
      /\ group # "stopping" => signals' = {}
  BY DEF GroupInv
<1>7. \A i \in 1 .. Len(members) :
         /\ i < at => member'[members[i]] = "ready"
         /\ i = at => /\ member'[members[i]] # "none"
                      /\ group # "stopping" =>
                            member'[members[i]] \notin {"draining", "stopping", "exited"}
         /\ i > at => \/ member'[members[i]] = "none"
                      \/ group = "stopping" /\ Ended(members[i])'
  <2> SUFFICES ASSUME NEW i \in 1 .. Len(members)
               PROVE  /\ i < at => member'[members[i]] = "ready"
                      /\ i = at => /\ member'[members[i]] # "none"
                                   /\ group # "stopping" =>
                                      member'[members[i]] \notin {"draining", "stopping", "exited"}
                      /\ i > at => \/ member'[members[i]] = "none"
                                   \/ group = "stopping" /\ Ended(members[i])'
    OBVIOUS
  <2>1. CASE i = at
    BY <1>2, <1>3, <1>4, <1>5, <2>1
  <2>2. CASE i # at
    <3>1. member'[members[i]] = member[members[i]]
      BY <1>3, <1>4, <2>2
    <3> QED
      BY <1>1, <1>4, <2>2, <3>1 DEF GroupInv, Ended
  <2> QED
    BY <2>1, <2>2
<1>8. \A i, j \in 1 .. Len(members) :
         i < j /\ member'[members[j]] # "none" => member'[members[i]] \in Past
  <2> SUFFICES ASSUME NEW i \in 1 .. Len(members), NEW j \in 1 .. Len(members),
                      i < j, member'[members[j]] # "none"
               PROVE  member'[members[i]] \in Past
    OBVIOUS
  <2>1. CASE i = at
    <3>1. member[members[j]] # "none" /\ member[m] \in Past
      BY <1>2, <1>3, <1>4, <2>1 DEF GroupInv
    <3>2. m # "f5driver"
      BY <1>1, <1>2, <1>4, <2>1 DEF IsMemberList
    <3> QED
      BY <1>2, <1>3, <2>1, <3>1, <3>2 DEF Past, Early
  <2>2. CASE i # at /\ j = at
    BY <1>3, <1>4, <2>2 DEF GroupInv, Past
  <2>3. CASE i # at /\ j # at
    BY <1>3, <1>4, <2>3 DEF GroupInv
  <2> QED
    BY <2>1, <2>2, <2>3
<1>9. \A x \in Member \ Range(members) : member'[x] = "none"
  BY <1>1, <1>2, <1>3 DEF GroupInv
<1> QED
  BY <1>1, <1>2, <1>3, <1>6, <1>7, <1>8, <1>9 DEF GroupInv, Running
-----------------------------------------------------------------------------
(***************************************************************************)
(* The NATS client                                                         *)
(***************************************************************************)

\* The places of a queue are finitely many, and one more callback takes one more at
\* most.
LEMMA DisconnectedFinite ==
    ASSUME NEW q \in Seq(Callback)
    PROVE  IsFiniteSet(Disconnected(q)) /\ Cardinality(Disconnected(q)) \in Nat
<1>1. Disconnected(q) \subseteq 1 .. Len(q) /\ IsFiniteSet(1 .. Len(q))
  BY FS_Interval DEF Disconnected
<1>2. IsFiniteSet(Disconnected(q))
  BY <1>1, FS_Subset
<1> QED
  BY <1>2, FS_CardinalityType

\* Sending a callback to the client's channel adds one disconnection at most.
LEMMA DisconnectedSent ==
    ASSUME NEW q \in Seq(Callback), NEW x \in Callback
    PROVE  /\ Append(q, x) \in Seq(Callback) /\ Len(Append(q, x)) = Len(q) + 1
           /\ Cardinality(Disconnected(Append(q, x))) \in Nat
           /\ Cardinality(Disconnected(Append(q, x))) <= Cardinality(Disconnected(q)) + One(x)
<1> DEFINE a == Append(q, x)
           last == Len(q) + 1
<1>1. /\ a \in Seq(Callback) /\ Len(a) = Len(q) + 1 /\ Len(q) \in Nat
      /\ \A i \in 1 .. Len(q) : a[i] = q[i]
      /\ a[Len(q) + 1] = x
  OBVIOUS
<1>2. ASSUME NEW i \in Disconnected(a)
      PROVE  i \in Disconnected(q) \/ (x = "DisconnectedCB" /\ i = last)
  BY <1>1, <1>2 DEF Disconnected
<1> HIDE DEF a, last
<1>3. IsFiniteSet(Disconnected(q)) /\ Cardinality(Disconnected(q)) \in Nat
  BY DisconnectedFinite
<1>4. Cardinality(Disconnected(a)) \in Nat
  BY <1>1, DisconnectedFinite
<1>5. CASE x # "DisconnectedCB"
  <2>1. Disconnected(a) \subseteq Disconnected(q) /\ One(x) = 0
    BY <1>2, <1>5 DEF One
  <2>2. Cardinality(Disconnected(a)) <= Cardinality(Disconnected(q))
    BY <1>3, <2>1, FS_Subset
  <2> QED
    BY <1>1, <1>3, <1>4, <2>1, <2>2 DEF a
<1>6. CASE x = "DisconnectedCB"
  <2>1. Disconnected(a) \subseteq Disconnected(q) \cup {last} /\ One(x) = 1
    BY <1>2, <1>6 DEF One
  <2>2. /\ IsFiniteSet(Disconnected(q) \cup {last})
        /\ Cardinality(Disconnected(q) \cup {last}) =
              IF last \in Disconnected(q) THEN Cardinality(Disconnected(q))
              ELSE Cardinality(Disconnected(q)) + 1
    BY <1>3, FS_AddElement
  <2>3. Cardinality(Disconnected(a)) <= Cardinality(Disconnected(q) \cup {last})
    BY <2>1, <2>2, FS_Subset
  <2> QED
    BY <1>1, <1>3, <1>4, <2>1, <2>2, <2>3 DEF a
<1> QED
  BY <1>5, <1>6

\* The dispatcher takes the first of them: the rest move up by one.
LEMMA DisconnectedTaken ==
    ASSUME NEW q \in Seq(Callback), q # <<>>
    PROVE  /\ Cardinality(Disconnected(Tail(q))) <= Cardinality(Disconnected(q))
           /\ Head(q) = "DisconnectedCB" =>
                 Cardinality(Disconnected(Tail(q))) + 1 <= Cardinality(Disconnected(q))
<1> DEFINE t == Tail(q)
           D == Disconnected(q)
           up == [i \in D \ {1} |-> i - 1]
<1>1. /\ t \in Seq(Callback) /\ Len(q) \in Nat /\ Len(q) > 0 /\ Len(t) = Len(q) - 1
      /\ \A i \in 1 .. Len(t) : t[i] = q[i + 1]
      /\ Head(q) = q[1]
  BY HeadTailProperties
<1>2. IsFiniteSet(D) /\ Cardinality(D) \in Nat /\ Cardinality(Disconnected(t)) \in Nat
  BY <1>1, DisconnectedFinite, ZenonT(30)
<1>3. IsFiniteSet(D \ {1}) /\ Cardinality(D \ {1}) = IF 1 \in D THEN Cardinality(D) - 1 ELSE Cardinality(D)
  BY <1>2, FS_RemoveElement
<1>4. up \in Surjection(D \ {1}, Disconnected(t))
  <2>1. ASSUME NEW i \in D \ {1} PROVE i - 1 \in Disconnected(t)
    <3>1. i \in 1 .. Len(q) /\ i # 1 /\ q[i] = "DisconnectedCB"
      BY <2>1 DEF Disconnected
    <3>2. i - 1 \in 1 .. Len(t) /\ (i - 1) + 1 = i
      BY <1>1, <3>1
    <3> QED
      BY <1>1, <3>1, <3>2 DEF Disconnected
  <2>2. ASSUME NEW j \in Disconnected(t) PROVE \E i \in D \ {1} : up[i] = j
    <3>1. j \in 1 .. Len(t) /\ t[j] = "DisconnectedCB"
      BY <2>2 DEF Disconnected
    <3>2. j + 1 \in 1 .. Len(q) /\ j + 1 # 1 /\ (j + 1) - 1 = j
      BY <1>1, <3>1
    <3>3. j + 1 \in D \ {1}
      BY <1>1, <3>1, <3>2 DEF Disconnected
    <3> QED
      BY <3>2, <3>3
  <2> QED
    BY <2>1, <2>2 DEF Surjection
<1> HIDE DEF up, D, t
<1>5. Cardinality(Disconnected(t)) <= Cardinality(D \ {1})
  BY <1>3, <1>4, FS_Surjection
<1>6. Head(q) = "DisconnectedCB" => 1 \in D
  BY <1>1 DEF D, Disconnected
<1> QED
  BY <1>2, <1>3, <1>5, <1>6 DEF t, D

\* What the client and its callbacks do to the connection: an outage may start one
\* more goroutine, and none waits that no outage has started.
LEMMA NatsMoves ==
    ASSUME NatsInv, Client \/ Callbacks
    PROVE  /\ NatsInv'
           /\ status' = status \/ (status = "running" /\ status' \in {"fatal", "panic"})
<1>1. /\ ach \in Seq(Callback) /\ Cardinality(Disconnected(ach)) \in Nat
      /\ waiters \in Nat /\ outages \in 0 .. MaxOutages /\ MaxOutages \in Nat
      /\ Owed(sending) \in Nat /\ Len(ach) <= asyncCBChanSize /\ asyncCBChanSize \in Nat
      /\ waiters + Cardinality(Disconnected(ach)) + Owed(sending) <= outages
  BY DisconnectedFinite, NatsAssumption DEF NatsInv, Owed, One
<1>2. ASSUME NEW next \in Sendings, Holds(next), UNCHANGED <<status, ach, callback, calls, waiters, natsHost>>,
             connection' \in {"connected", "reconnecting", "closed"},
             \/ outages' = outages /\ Owed(next) = 0
             \/ outages' = outages + 1 /\ outages < MaxOutages /\ Owed(next) = 1
      PROVE  NatsInv'
  <2>1. sending' = next /\ Owed(sending) = 0
    BY <1>2 DEF Holds, Free, Owed
  <2>2. outages' \in 0 .. MaxOutages
    BY <1>1, <1>2
  <2>3. waiters' + Cardinality(Disconnected(ach')) + Owed(sending') <= outages'
    BY <1>1, <1>2, <2>1
  <2> QED
    BY <1>2, <2>1, <2>2, <2>3 DEF NatsInv
<1>3. CASE Disconnects
  <2>1. Owed(<<"DisconnectedCB">>) = 1 /\ <<"DisconnectedCB">> \in Sendings
    BY DEF Owed, One, Sendings
  <2> QED
    BY <1>2, <1>3, <2>1 DEF Disconnects
<1>4. CASE doReconnect
  <2>1. Owed(<<"ReconnectedCB">>) = 0 /\ <<"ReconnectedCB">> \in Sendings
    BY DEF Owed, One, Sendings
  <2> QED
    BY <1>2, <1>4, <2>1 DEF doReconnect
<1>5. CASE Closes
  <2>1. /\ Owed(<<"DisconnectedCB", "ClosedCB", "closeAsyncFunc">>) = 1
        /\ <<"DisconnectedCB", "ClosedCB", "closeAsyncFunc">> \in Sendings
    BY DEF Owed, One, Sendings
  <2> QED
    BY <1>2, <1>5, <2>1 DEF Closes
<1>6. ASSUME NEW name, asyncDispatch(name)
      PROVE  /\ ach' \in Seq(Callback) /\ Len(ach') <= asyncCBChanSize
             /\ status = "running"
             /\ Cardinality(Disconnected(ach')) <= Cardinality(Disconnected(ach))
             /\ Cardinality(Disconnected(ach')) \in Nat
             /\ name = "DisconnectedCB" =>
                   Cardinality(Disconnected(ach')) + 1 <= Cardinality(Disconnected(ach))
  <2>1. ach # <<>> /\ Head(ach) = name /\ ach' = Tail(ach) /\ status = "running"
    BY <1>6 DEF asyncDispatch, Running
  <2>2. Tail(ach) \in Seq(Callback) /\ Len(Tail(ach)) = Len(ach) - 1 /\ Len(ach) \in Nat
    BY <1>1, <2>1, HeadTailProperties
  <2>3. Len(Tail(ach)) <= asyncCBChanSize
    BY <1>1, <2>2
  <2> QED
    BY <1>1, <2>1, <2>2, <2>3, DisconnectedFinite, DisconnectedTaken, ZenonT(30)
<1>7. CASE ClosedCB
  <2>1. /\ asyncDispatch("ClosedCB") /\ status' = "fatal"
        /\ UNCHANGED <<connection, sending, callback, calls, waiters, natsHost, outages>>
    BY <1>7 DEF ClosedCB, Fatal
  <2>2. waiters + Cardinality(Disconnected(ach')) + Owed(sending) <= outages
    BY <1>1, <1>6, <2>1
  <2> QED
    BY <1>6, <2>1, <2>2 DEF NatsInv
<1>8. CASE DisconnectedCB
  <2>1. /\ asyncDispatch("DisconnectedCB")
        /\ \/ waiters' = waiters + 1 /\ status' = status
           \/ waiters' = waiters /\ status' = "panic"
        /\ UNCHANGED <<connection, sending, callback, calls, natsHost, outages>>
    BY <1>8 DEF DisconnectedCB, Panics
  <2>2. waiters' \in Nat /\ waiters' + Cardinality(Disconnected(ach')) + Owed(sending) <= outages
    BY <1>1, <1>6, <2>1
  <2> QED
    BY <1>6, <2>1, <2>2 DEF NatsInv
<1>9. CASE ReconnectedCB
  <2>1. /\ asyncDispatch("ReconnectedCB") /\ callback' = "connectedChan"
        /\ UNCHANGED <<status, connection, sending, calls, waiters, natsHost, outages>>
    BY <1>9 DEF ReconnectedCB
  <2>2. waiters + Cardinality(Disconnected(ach')) + Owed(sending) <= outages
    BY <1>1, <1>6, <2>1
  <2> QED
    BY <1>6, <2>1, <2>2 DEF NatsInv
<1>10. CASE connectedChan
  <2>1. /\ waiters > 0 /\ waiters' = waiters - 1 /\ callback' = "connectedUrl"
        /\ UNCHANGED <<status, connection, sending, ach, calls, natsHost, outages>>
    BY <1>10 DEF connectedChan
  <2>2. waiters' \in Nat /\ waiters' + Cardinality(Disconnected(ach)) + Owed(sending) <= outages
    BY <1>1, <2>1
  <2> QED
    BY <2>1, <2>2 DEF NatsInv
<1>11. CASE connectedUrl
  BY <1>11 DEF connectedUrl, NatsInv
<1>12. CASE \E call \in calls : Returns(call)
  BY <1>12 DEF Returns, NatsInv
<1>13. CASE Sends
  <2>1. /\ sending # <<>> /\ Len(ach) < asyncCBChanSize /\ sending \in Sendings
        /\ ach' = Append(ach, Head(sending)) /\ sending' = Tail(sending)
        /\ UNCHANGED <<status, connection, callback, calls, waiters, natsHost, outages>>
    BY <1>13 DEF Sends, Free, NatsInv
  <2>2. /\ Head(sending) \in Callback /\ Tail(sending) \in Sendings
        /\ Owed(sending) = One(Head(sending)) /\ Owed(Tail(sending)) = 0
    <3>1. \/ Head(sending) \in Callback /\ Tail(sending) = <<>>
          \/ Head(sending) = "DisconnectedCB" /\ Tail(sending) = <<"ClosedCB", "closeAsyncFunc">>
          \/ Head(sending) = "ClosedCB" /\ Tail(sending) = <<"closeAsyncFunc">>
      <4>1. ASSUME NEW cb \in {"DisconnectedCB", "ReconnectedCB", "closeAsyncFunc"},
                   sending = <<cb>>
            PROVE  Head(sending) \in Callback /\ Tail(sending) = <<>>
        <5>1. Head(sending) = cb /\ Tail(sending) = <<>>
          BY <4>1
        <5> QED
          BY <5>1 DEF Callback
      <4>2. CASE sending = <<"DisconnectedCB", "ClosedCB", "closeAsyncFunc">>
        BY <4>2
      <4>3. CASE sending = <<"ClosedCB", "closeAsyncFunc">>
        BY <4>3
      <4> QED
        BY <2>1, <4>1, <4>2, <4>3 DEF Sendings
    <3>2. /\ Owed(<<>>) = 0 /\ Owed(<<"ClosedCB", "closeAsyncFunc">>) = 0
          /\ Owed(<<"closeAsyncFunc">>) = 0
      BY DEF Owed, One
    <3> QED
      BY <2>1, <3>1, <3>2, ZenonT(30) DEF Sendings, Callback, Owed
  <2>3. One(Head(sending)) \in Nat
    BY DEF One
  <2>4. /\ ach' \in Seq(Callback) /\ Len(ach') = Len(ach) + 1 /\ Len(ach) \in Nat
        /\ Cardinality(Disconnected(ach')) \in Nat
        /\ Cardinality(Disconnected(ach')) <= Cardinality(Disconnected(ach)) + One(Head(sending))
    BY <1>1, <2>1, <2>2, DisconnectedSent
  <2>5. Len(ach') <= asyncCBChanSize
    BY <2>1, <2>4, NatsAssumption
  <2>6. waiters + Cardinality(Disconnected(ach')) + Owed(sending') <= outages
    BY <1>1, <2>1, <2>2, <2>3, <2>4
  <2> QED
    BY <2>1, <2>2, <2>4, <2>5, <2>6 DEF NatsInv
<1>14. status' = status \/ (status = "running" /\ status' \in {"fatal", "panic"})
  BY DEF Client, Callbacks, Disconnects, doReconnect, Closes, ClosedCB, DisconnectedCB,
         ReconnectedCB, connectedChan, connectedUrl, Returns, Sends, asyncDispatch, Running,
         Fatal, Panics
<1> QED
  BY <1>3, <1>4, <1>5, <1>7, <1>8, <1>9, <1>10, <1>11, <1>12, <1>13, <1>14
     DEF Client, Callbacks
-----------------------------------------------------------------------------
(***************************************************************************)
(* Every step keeps the invariant: main, up to the group                   *)
(***************************************************************************)
MainStep == {"config", "nats", "natsHost", "routing api", "router group", "f5router",
             "members", "controller", "group", "wait"}

\* Before main has the group, no member runs, whatever else a step of main does.
LEMMA SetupStep ==
    ASSUME ProcessInv, main # "wait", main' \in MainStep \ {"wait"}, status' \in Outcome,
           attempts' \in 0 .. 3, client' \in BOOLEAN, listener' \in {"none", "open", "closed"},
           UNCHANGED <<heartbeatOK, groupVars, memberVars, child>>
    PROVE  TypeInv' /\ StepsInv' /\ GroupInv'
<1>1. /\ UNCHANGED <<group, at, signalled, terminating, member, signals>>
      /\ group = "none" /\ at = 0 /\ signals = {} /\ \A m \in Member : member[m] = "none"
  BY DEF ProcessInv, GroupInv, groupVars, memberVars
<1>2. members' \in Seq(Member) /\ Len(members') \in Nat
  BY MembersListedNext DEF MembersOK, IsMemberList
<1>3. TypeInv'
  <2>1. at' \in 0 .. Len(members')
    BY <1>1, <1>2
  <2> QED
    BY <1>1, <2>1 DEF ProcessInv, TypeInv, MainStep
<1>4. StepsInv'
  <2>1. "controller" \in Member /\ "f5driver" \in Member
    BY DEF Member
  <2> QED
    BY <1>1, <2>1 DEF ProcessInv, StepsInv
<1>5. GroupInv'
  <2>1. \A i \in 1 .. Len(members') : members'[i] \in Member /\ i > 0
    BY <1>2
  <2> QED
    BY <1>1, <1>2, <2>1 DEF GroupInv
<1> QED
  BY <1>3, <1>4, <1>5

\* What Process accepts has the routing API for every mode that needs it.
LEMMA Processed ==
    ASSUME NEW b, NEW k \in ConfigOf({b}), Process(k) # Panic
    PROVE  /\ Process(k) \in ConfigOf({b})
           /\ Process(k).RoutingMode # "HTTP" => RoutingApiEnabled(Process(k))
<1>1. ~Invalid(k)
  BY DEF Process
<1> DEFINE stale == IF k.DropletStaleThreshold < k.StartResponseDelayInterval
                    THEN k.StartResponseDelayInterval ELSE k.DropletStaleThreshold
           drain == IF k.DrainTimeout \in {0, defaultEndpointTimeout} THEN k.EndpointTimeout
                    ELSE k.DrainTimeout
           enabled == k.RouteServiceEnabled \/ k.RouteServiceSecret
           mode == routingMode(k)
<1>2. Process(k) = [k EXCEPT !.DropletStaleThreshold = stale, !.DrainTimeout = drain,
                             !.RouteServiceEnabled = enabled, !.RoutingMode = mode]
  BY <1>1 DEF Process, ConfigOf
<1>3. stale \in Int /\ drain \in Int /\ enabled \in BOOLEAN /\ mode \in RoutingMode
  <2>1. /\ k.DropletStaleThreshold \in Int /\ k.StartResponseDelayInterval \in Int
        /\ k.DrainTimeout \in Int /\ k.EndpointTimeout \in Int
    BY DEF ConfigOf
  <2>2. stale \in Int /\ drain \in Int
    BY <2>1
  <2>3. enabled \in BOOLEAN
    OBVIOUS
  <2>4. mode \in RoutingMode
    BY DEF routingMode, RoutingMode
  <2> QED
    BY <2>2, <2>3, <2>4
<1>4. mode # "HTTP" => RoutingApiEnabled(k)
  BY <1>1 DEF routingMode, Invalid
<1> HIDE DEF stale, drain, enabled, mode
<1>5. Process(k) \in ConfigOf({b})
  BY <1>2, <1>3, ZenonT(30) DEF ConfigOf
<1>6. Process(k).RoutingMode = mode /\ Process(k).RoutingApi = k.RoutingApi
  BY <1>2 DEF ConfigOf
<1> QED
  BY <1>4, <1>5, <1>6 DEF RoutingApiEnabled

\* main, one step at a time.
LEMMA SetupKeeps ==
    ASSUME ProcessInv, Setup
    PROVE  ProcessInv'
<1>1. Running /\ status \in Outcome /\ attempts \in 0 .. 3 /\ client \in BOOLEAN
         /\ listener \in {"none", "open", "closed"}
  BY DEF ProcessInv, TypeInv, Setup, configure, ConnectNats, ConnectNatsFails, storeNatsHost,
         setupRoutingAPIClient, fetchRoutingGroupGUID, createRouter, createMembers,
         NewController, startGroup, Main
<1>2. "fatal" \in Outcome /\ "panic" \in Outcome
  BY DEF Outcome
<1>3. CASE configure
  <2>1. /\ main = "config" /\ UNCHANGED <<natsVars, attempts, client, listener, heartbeatOK>>
        /\ UNCHANGED <<groupVars, memberVars, child>>
        /\ \/ main' = main /\ c' = c /\ status' = "panic"
           \/ /\ Process(c) # Panic /\ c' = Process(c)
              /\ \/ main' = "nats" /\ status' = status
                 \/ main' = main /\ status' = "fatal"
    BY <1>3 DEF configure, Main, Proceed, Dies, Panics, Fatal, statusVars
  <2>2. TypeInv' /\ StepsInv' /\ GroupInv'
    BY <1>1, <1>2, <2>1, SetupStep DEF MainStep
  <2>3. SetupInv'
    <3>1. CASE main' = main /\ c' = c /\ status' = "panic"
      BY <2>1, <3>1 DEF ProcessInv, SetupInv, Running
    <3>2. CASE Process(c) # Panic /\ c' = Process(c)
      <4>1. c' \in ConfigOf({c.BigIP}) /\ (c'.RoutingMode # "HTTP" => RoutingApiEnabled(c'))
        BY <3>2, Processed DEF ProcessInv, SetupInv
      <4>2. c' \in ConfigOf({c'.BigIP})
        BY <4>1 DEF ConfigOf
      <4> QED
        BY <1>1, <2>1, <3>2, <4>1, <4>2 DEF ProcessInv, SetupInv, Running
    <3> QED
      BY <2>1, <3>1, <3>2
  <2> QED
    BY <2>1, <2>2, <2>3, NatsKept DEF ProcessInv
<1>4. CASE ConnectNats
  <2>1. /\ main = "nats" /\ main' = "natsHost" /\ status' = status /\ connection' = "connected"
        /\ UNCHANGED <<sending, ach, callback, calls, waiters, natsHost, outages>>
        /\ UNCHANGED <<c, attempts, client, listener, heartbeatOK, groupVars, memberVars, child>>
    BY <1>4 DEF ConnectNats, Main, Proceed, statusVars
  <2>2. TypeInv' /\ StepsInv' /\ GroupInv'
    BY <1>1, <2>1, SetupStep DEF MainStep
  <2>3. SetupInv' /\ NatsInv'
    BY <2>1 DEF ProcessInv, SetupInv, NatsInv, RoutingApiEnabled
  <2> QED
    BY <2>2, <2>3 DEF ProcessInv
<1>5. CASE ConnectNatsFails
  <2>1. /\ main = "nats" /\ attempts' = attempts - 1
        /\ \/ attempts' = 0 /\ status' = "fatal" /\ main' = main
           \/ attempts' # 0 /\ main' = "nats" /\ status' = status
        /\ UNCHANGED <<natsVars, c, client, listener, heartbeatOK, groupVars, memberVars, child>>
    BY <1>5 DEF ConnectNatsFails, Main, Proceed, Dies, Fatal, statusVars
  <2>2. attempts > 0
    BY <1>1, <2>1 DEF ProcessInv, SetupInv
  <2>3. attempts' \in 0 .. 3
    BY <1>1, <2>1, <2>2
  <2>4. TypeInv' /\ StepsInv' /\ GroupInv'
    BY <1>1, <1>2, <2>1, <2>3, SetupStep DEF MainStep
  <2>5. Running' => attempts' > 0
    BY <2>1, <2>3 DEF Running
  <2>6. main' = "nats"
    BY <2>1
  <2>7. SetupInv'
    BY <2>1, <2>5, <2>6 DEF ProcessInv, SetupInv, RoutingApiEnabled
  <2> QED
    BY <2>1, <2>4, <2>7, NatsKept DEF ProcessInv
<1>6. CASE storeNatsHost
  <2>1. /\ main = "natsHost" /\ main' = "routing api" /\ status' = status /\ natsHost' = TRUE
        /\ UNCHANGED <<connection, sending, ach, callback, calls, waiters, outages>>
        /\ UNCHANGED <<c, attempts, client, listener, heartbeatOK, groupVars, memberVars, child>>
    BY <1>6 DEF storeNatsHost, Main, Proceed, statusVars
  <2>2. TypeInv' /\ StepsInv' /\ GroupInv'
    BY <1>1, <2>1, SetupStep DEF MainStep
  <2>3. SetupInv' /\ NatsInv'
    BY <2>1 DEF ProcessInv, SetupInv, NatsInv, RoutingApiEnabled
  <2> QED
    BY <2>2, <2>3 DEF ProcessInv
<1>7. CASE setupRoutingAPIClient
  <2>1. /\ main = "routing api"
        /\ \/ main' = "router group" /\ client' = TRUE /\ status' = status
           \/ main' = main /\ client' = client /\ status' = "fatal"
           \/ ~RoutingApiEnabled(c) /\ main' = "f5router" /\ client' = client /\ status' = status
        /\ UNCHANGED <<natsVars, c, attempts, listener, heartbeatOK, groupVars, memberVars, child>>
    BY <1>7 DEF setupRoutingAPIClient, Main, Proceed, Dies, Fatal, statusVars
  <2>2. TypeInv' /\ StepsInv' /\ GroupInv'
    BY <1>1, <1>2, <2>1, SetupStep DEF MainStep
  <2>3. SetupInv'
    BY <2>1 DEF ProcessInv, SetupInv, RoutingApiEnabled
  <2> QED
    BY <2>1, <2>2, <2>3, NatsKept DEF ProcessInv
<1>8. CASE fetchRoutingGroupGUID
  <2>1. /\ main = "router group"
        /\ \/ main' = "f5router" /\ status' = status
           \/ main' = main /\ status' = "fatal"
        /\ UNCHANGED <<natsVars, c, client, attempts, listener, heartbeatOK, groupVars,
                       memberVars, child>>
    BY <1>8 DEF fetchRoutingGroupGUID, Main, Proceed, Dies, Fatal, statusVars
  <2>2. TypeInv' /\ StepsInv' /\ GroupInv'
    BY <1>1, <1>2, <2>1, SetupStep DEF MainStep
  <2>3. SetupInv'
    BY <2>1 DEF ProcessInv, SetupInv, RoutingApiEnabled
  <2> QED
    BY <2>1, <2>2, <2>3, NatsKept DEF ProcessInv
<1>9. CASE createRouter
  <2>1. /\ main = "f5router"
        /\ \/ /\ c' = [c EXCEPT !.BigIP = validateConfig(@)]
              /\ main' = "members" /\ status' = status
           \/ main' = main /\ c' = c /\ status' = "fatal"
        /\ UNCHANGED <<natsVars, client, attempts, listener, heartbeatOK, groupVars,
                       memberVars, child>>
    BY <1>9 DEF createRouter, Main, Proceed, Dies, Fatal, statusVars
  <2>2. TypeInv' /\ StepsInv' /\ GroupInv'
    BY <1>1, <1>2, <2>1, SetupStep DEF MainStep
  <2>3. /\ c' \in ConfigOf({c'.BigIP})
        /\ c'.RoutingMode = c.RoutingMode /\ c'.RoutingApi = c.RoutingApi
    BY <2>1, ZenonT(30) DEF ProcessInv, SetupInv, ConfigOf
  <2>4. SetupInv'
    BY <2>1, <2>3 DEF ProcessInv, SetupInv, RoutingApiEnabled
  <2> QED
    BY <2>1, <2>2, <2>4, NatsKept DEF ProcessInv
<1>10. CASE createMembers
  <2>1. /\ main = "members"
        /\ \/ main' = "controller" /\ status' = status
           \/ main' = main /\ status' = "fatal"
        /\ UNCHANGED <<natsVars, c, client, attempts, listener, heartbeatOK, groupVars,
                       memberVars, child>>
    BY <1>10 DEF createMembers, Main, Proceed, Dies, Fatal, statusVars
  <2>2. TypeInv' /\ StepsInv' /\ GroupInv'
    BY <1>1, <1>2, <2>1, SetupStep DEF MainStep
  <2>3. SetupInv'
    BY <2>1 DEF ProcessInv, SetupInv, RoutingApiEnabled
  <2> QED
    BY <2>1, <2>2, <2>3, NatsKept DEF ProcessInv
<1>11. CASE NewController
  <2>1. /\ main = "controller"
        /\ \/ main' = "group" /\ status' = status /\ listener' \in {"open", "none"}
           \/ main' = main /\ status' = "fatal" /\ listener' = listener
        /\ UNCHANGED <<natsVars, c, client, attempts, heartbeatOK, groupVars,
                       memberVars, child>>
    BY <1>11 DEF NewController, componentStart, ListenAndServe, Main, Proceed, Dies, Fatal
  <2>2. TypeInv' /\ StepsInv' /\ GroupInv'
    BY <1>1, <1>2, <2>1, SetupStep DEF MainStep
  <2>3. SetupInv'
    BY <2>1 DEF ProcessInv, SetupInv, RoutingApiEnabled
  <2> QED
    BY <2>1, <2>2, <2>3, NatsKept DEF ProcessInv
<1>12. CASE startGroup
  <2>1. /\ main = "group" /\ main' = "wait" /\ status' = status
        /\ group' = "starting" /\ at' = 1
        /\ member' = [member EXCEPT ![members[1]] = "starting"]
        /\ UNCHANGED <<natsVars, c, client, attempts, listener, heartbeatOK, signalled,
                       terminating, signals, child>>
    BY <1>12 DEF startGroup, Main, Proceed, statusVars
  <2>2. /\ IsMemberList(members) /\ Range(members) = {members[i] : i \in 1 .. Len(members)}
        /\ members' = members
    BY <2>1, MembersListed, MembersKept DEF MembersOK
  <2>3. /\ Len(members) \in Nat /\ Len(members) >= 1
        /\ \A i \in 1 .. Len(members) : members[i] \in Member /\ (i # 1 => members[i] # members[1])
    BY <2>2, SMTT(30) DEF IsMemberList
  <2>4. members[1] \in Member /\ members[1] \in Range(members)
    BY <2>2, <2>3
  <2>5. group = "none" /\ signals = {} /\ \A m \in Member : member[m] = "none"
    BY <2>1 DEF ProcessInv, GroupInv
  <2>6. /\ member' \in [Member -> Step] /\ member'[members[1]] = "starting"
        /\ \A m \in Member \ {members[1]} : member'[m] = "none"
    BY <2>1, <2>4, <2>5 DEF ProcessInv, TypeInv, Step
  <2>7. TypeInv'
    <3>1. at' \in 0 .. Len(members')
      BY <2>1, <2>2, <2>3
    <3> QED
      BY <2>1, <2>6, <3>1 DEF ProcessInv, TypeInv
  <2>8. SetupInv'
    BY <2>1 DEF ProcessInv, SetupInv, RoutingApiEnabled
  <2>9. StepsInv'
    <3>1. \A m \in Member : member'[m] \in {"none", "starting"}
      BY <2>6
    <3>2. \A m \in Member : {"none", "starting"} \subseteq StepsOf[m]
      BY DEF StepsOf
    <3>3. "controller" \in Member /\ "f5driver" \in Member
      BY DEF Member
    <3> QED
      BY <2>1, <2>5, <3>1, <3>2, <3>3 DEF ProcessInv, StepsInv
  <2>10. GroupInv'
    <3>1. \A i \in 1 .. Len(members) : IF i = 1 THEN member'[members[i]] = "starting"
                                       ELSE i > 1 /\ member'[members[i]] = "none"
      BY <2>3, <2>6
    <3> QED
      BY <2>1, <2>2, <2>3, <2>4, <2>5, <2>6, <3>1, SMTT(30) DEF GroupInv
  <2> QED
    BY <2>1, <2>7, <2>8, <2>9, <2>10, NatsKept DEF ProcessInv
<1> QED
  BY <1>3, <1>4, <1>5, <1>6, <1>7, <1>8, <1>9, <1>10, <1>11, <1>12 DEF Setup
-----------------------------------------------------------------------------
(***************************************************************************)
(* Every step keeps the invariant: the group                               *)
(***************************************************************************)

\* A signal is for sigmon once the group runs, and ends the process before that.
LEMMA OsSignalKeeps ==
    ASSUME ProcessInv, OsSignal
    PROVE  ProcessInv'
<1>1. /\ status = "running" /\ status' \in {"running", "killed"} /\ terminating' = TRUE
      /\ signalled' \in BOOLEAN
      /\ UNCHANGED <<natsVars, setupVars, c, main, attempts, client, listener, heartbeatOK,
                     group, at, member, signals, child>>
  BY DEF OsSignal, Running, setupVars, statusVars, memberVars, ProcessInv, TypeInv
<1>2. members' = members
  BY <1>1, MembersKept
<1>3. TypeInv'
  <2>1. /\ UNCHANGED <<main, attempts, client, listener, heartbeatOK, group, at, member,
                       signals, child, members>>
        /\ status' \in Outcome /\ signalled' \in BOOLEAN /\ terminating' \in BOOLEAN
    BY <1>1, <1>2 DEF Outcome
  <2>2. TypeInv
    BY DEF ProcessInv
  <2> QED
    BY <2>1, <2>2, ZenonT(30) DEF TypeInv
<1>4. SetupInv' /\ GroupInv' /\ StepsInv' /\ NatsInv'
  BY <1>1, SetupKept, GroupKept, StepsKept, NatsKept DEF ProcessInv, Running
<1> QED
  BY <1>3, <1>4 DEF ProcessInv

\* The next member is started after all before it are ready.
LEMMA OrderedStartKeeps ==
    ASSUME ProcessInv, orderedStart
    PROVE  ProcessInv'
<1>1. /\ Running /\ group = "starting" /\ member[members[at]] = "ready"
      /\ UNCHANGED <<status, natsVars, setupVars, c, main, attempts, client, listener,
                     heartbeatOK, signalled, terminating, signals, child>>
  BY DEF orderedStart, InGroup, setupVars, statusVars
<1>2. /\ IsMemberList(members) /\ Range(members) = {members[i] : i \in 1 .. Len(members)}
      /\ members' = members
  BY <1>1, MembersListed, MembersKept DEF MembersOK
<1>3. Len(members) \in Nat
  BY <1>2 DEF IsMemberList
<1>4. /\ \A i \in 1 .. Len(members) : members[i] \in Member
      /\ \A i, j \in 1 .. Len(members) : members[i] = members[j] => i = j
  BY <1>2 DEF IsMemberList
<1>5. at \in 0 .. Len(members) /\ at > 0
  BY <1>1 DEF ProcessInv, TypeInv, GroupInv
<1>6. SetupInv' /\ NatsInv'
  BY <1>1, SetupKept, NatsKept DEF ProcessInv, Running
<1>7. CASE at = Len(members)
  <2>1. group' = "running" /\ UNCHANGED <<at, member>>
    BY <1>7 DEF orderedStart
  <2>2. TypeInv' /\ StepsInv'
    BY <1>1, <1>2, <2>1, StepsKept, ZenonT(30) DEF ProcessInv, TypeInv
  <2>3. GroupInv'
    BY <1>1, <1>2, <2>1 DEF ProcessInv, GroupInv, Ended, Running
  <2> QED
    BY <1>6, <2>2, <2>3 DEF ProcessInv
<1>8. CASE at # Len(members)
  <2>1. /\ at' = at + 1 /\ group' = group
        /\ member' = [member EXCEPT ![members[at + 1]] = "starting"]
    BY <1>8 DEF orderedStart
  <2>2. at + 1 \in 1 .. Len(members) /\ at \in Nat
    BY <1>3, <1>5, <1>8
  <2>3. PICK next \in Member : next = members[at + 1] /\ next \in Range(members)
    BY <1>2, <1>4, <2>2
  <2>4. member[next] = "none"
    BY <1>1, <2>2, <2>3 DEF ProcessInv, GroupInv
  <2>5. /\ member' \in [Member -> Step] /\ member'[next] = "starting"
        /\ \A m \in Member \ {next} : member'[m] = member[m]
    BY <2>1, <2>3 DEF ProcessInv, TypeInv, Step
  <2>6. TypeInv'
    <3>1. at' \in 0 .. Len(members')
      BY <1>2, <1>3, <2>1, <2>2
    <3> QED
      BY <1>1, <2>1, <2>5, <3>1, ZenonT(30) DEF ProcessInv, TypeInv
  <2>7. StepsInv'
    <3>1. "starting" \in StepsOf[next]
      BY DEF StepsOf
    <3>2. "controller" \in Member /\ "f5driver" \in Member
      BY DEF Member
    <3> QED
      BY <1>1, <2>4, <2>5, <3>1, <3>2, ZenonT(30) DEF ProcessInv, StepsInv
  <2>8. \A i \in 1 .. Len(members) : i # at + 1 => member'[members[i]] = member[members[i]]
    BY <1>4, <2>2, <2>3, <2>5, ZenonT(30)
  <2>9. \A i \in 1 .. Len(members) :
           /\ i < at + 1 => member[members[i]] = "ready"
           /\ i > at + 1 => member[members[i]] = "none"
    BY <1>1, <1>3, <2>2, SMTT(30) DEF ProcessInv, GroupInv
  <2>10. \A i, j \in 1 .. Len(members) :
            i < j /\ member'[members[j]] # "none" => member'[members[i]] \in Past
    <3>1. \A j \in 1 .. Len(members) : member'[members[j]] # "none" => j <= at + 1
      BY <2>2, <2>8, <2>9
    <3>2. \A i \in 1 .. Len(members) : i < at + 1 => member'[members[i]] \in Past
      BY <2>2, <2>8, <2>9 DEF Past
    <3> QED
      BY <2>2, <3>1, <3>2
  <2>11. GroupInv'
    <3>1. group' = "starting" /\ main' = "wait" /\ signals' = {} /\ at' > 0
      <4>1. main = "wait" /\ signals = {}
        BY <1>1 DEF ProcessInv, GroupInv
      <4> QED
        BY <1>1, <2>1, <2>2, <4>1
    <3>2. \A i \in 1 .. Len(members) :
             /\ i < at' => member'[members[i]] = "ready"
             /\ i = at' => member'[members[i]] = "starting"
             /\ i > at' => member'[members[i]] = "none"
      <4>1. at' = at + 1 /\ member'[members[at + 1]] = "starting"
        BY <2>1, <2>3, <2>5
      <4> QED
        BY <2>2, <2>8, <2>9, <4>1
    <3>3. \A m \in Member \ Range(members) : member'[m] = "none"
      <4>1. \A m \in Member \ Range(members) : member[m] = "none"
        BY ZenonT(30) DEF ProcessInv, GroupInv
      <4> QED
        BY <2>3, <2>5, <4>1, ZenonT(30)
    <3> QED
      BY <1>2, <2>10, <3>1, <3>2, <3>3, ZenonT(30) DEF GroupInv
  <2> QED
    BY <1>6, <2>6, <2>7, <2>11 DEF ProcessInv
<1> QED
  BY <1>7, <1>8

\* A group interrupted before all its members are ready turns to stopping them
\* (the signal case of orderedStart in grouper).
LEMMA InterruptedKeeps ==
    ASSUME ProcessInv, Interrupted
    PROVE  ProcessInv'
<1>1. /\ Running /\ group \in {"starting", "running"} /\ group' = "stopping"
      /\ signals' = signals \cup {members[at]} /\ signalled' \in BOOLEAN
      /\ UNCHANGED <<status, natsVars, setupVars, c, main, attempts, client, listener,
                     heartbeatOK, at, terminating, member, child>>
  BY DEF Interrupted, InGroup, setupVars, statusVars, ProcessInv, TypeInv
<1>2. IsMemberList(members) /\ members' = members
  BY <1>1, MembersListed, MembersKept DEF MembersOK
<1>3. at \in 0 .. Len(members) /\ at > 0
  BY <1>1 DEF ProcessInv, TypeInv, GroupInv
<1>4. at \in 1 .. Len(members) /\ members[at] \in Member /\ at \in Nat
  <2>1. members \in Seq(Member)
    BY <1>2 DEF IsMemberList
  <2> QED
    BY <1>3, <2>1
<1>5. TypeInv'
  BY <1>1, <1>2, <1>4, ZenonT(30) DEF ProcessInv, TypeInv
<1>6. GroupInv'
  BY <1>1, <1>2, <1>4, SMTT(30) DEF ProcessInv, GroupInv, Ended, Running
<1> QED
  BY <1>1, <1>5, <1>6, SetupKept, StepsKept, NatsKept DEF ProcessInv, Running

\* A member that has stopped stays stopped while the ones before it are.
LEMMA StopKeeps ==
    ASSUME ProcessInv, stop
    PROVE  ProcessInv'
<1>1. /\ Running /\ group = "stopping" /\ Ended(members[at]) /\ at' = at - 1
      /\ UNCHANGED <<natsVars, setupVars, c, main, attempts, client, listener, heartbeatOK,
                     group, signalled, terminating, member, child>>
      /\ IF at = 1 THEN status' = exitStatus /\ UNCHANGED signals
         ELSE signals' = signals \cup {members[at - 1]} /\ UNCHANGED status
  BY DEF stop, InGroup, setupVars, statusVars
<1>2. IsMemberList(members) /\ members' = members
  BY <1>1, MembersListed, MembersKept DEF MembersOK
<1>3. Len(members) \in Nat /\ members \in Seq(Member)
  BY <1>2 DEF IsMemberList
<1>4. at \in 0 .. Len(members) /\ at > 0
  BY <1>1 DEF ProcessInv, TypeInv, GroupInv
<1>5. at \in 1 .. Len(members) /\ at' \in 0 .. Len(members) /\ at \in Nat
  BY <1>1, <1>3, <1>4
<1>6. at # 1 => at - 1 \in 1 .. Len(members) /\ members[at - 1] \in Member
  BY <1>3, <1>5
<1>7. TypeInv'
  <2>1. status' \in Outcome /\ signals' \subseteq Member
    BY <1>1, <1>6 DEF ProcessInv, TypeInv, exitStatus, Outcome
  <2> QED
    BY <1>1, <1>2, <1>5, <2>1, ZenonT(30) DEF ProcessInv, TypeInv
<1>8. GroupInv'
  <2>1. ASSUME NEW m \in signals'
        PROVE  \E i \in 1 .. Len(members) : i >= at - 1 /\ m = members[i]
    <3>1. CASE m \in signals
      <4>1. PICK i \in 1 .. Len(members) : i >= at /\ m = members[i]
        BY <3>1, ZenonT(30) DEF ProcessInv, GroupInv
      <4>2. i >= at - 1
        BY <1>3, <1>5, <4>1
      <4> QED
        BY <4>1, <4>2, ZenonT(30)
    <3>2. CASE m \notin signals
      <4>1. at # 1 /\ m = members[at - 1]
        BY <1>1, <2>1, <3>2
      <4>2. at - 1 >= at - 1
        BY <1>5
      <4> QED
        BY <1>6, <4>1, <4>2
    <3> QED
      BY <3>1, <3>2
  <2>2. Running' => at - 1 > 0
    <3>1. at = 1 => ~Running'
      BY <1>1 DEF Running, exitStatus
    <3> QED
      BY <1>5, <3>1
  <2>3. \A i \in 1 .. Len(members) :
           /\ i < at - 1 => member[members[i]] = "ready"
           /\ i = at - 1 => member[members[i]] # "none"
           /\ i > at - 1 => member[members[i]] = "none" \/ Ended(members[i])
    <3>1. \A i \in 1 .. Len(members) :
             /\ i < at => member[members[i]] = "ready"
             /\ i > at => member[members[i]] = "none" \/ Ended(members[i])
      BY DEF ProcessInv, GroupInv
    <3>2. \A i \in 1 .. Len(members) :
             (i < at - 1 => i < at) /\ (i = at - 1 => i < at) /\ (i > at - 1 => i > at \/ i = at)
      BY <1>3, <1>5
    <3> QED
      BY <1>1, <3>1, <3>2, ZenonT(30)
  <2> QED
    BY <1>1, <1>2, <2>1, <2>2, <2>3, ZenonT(30) DEF ProcessInv, GroupInv, Ended
<1> QED
  BY <1>1, <1>7, <1>8, SetupKept, StepsKept, NatsKept DEF ProcessInv, Running
-----------------------------------------------------------------------------
(***************************************************************************)
(* Every step keeps the invariant: the members, the driver and its child   *)
(***************************************************************************)

\* The members that nothing else looks at.
LEMMA StepsMove ==
    ASSUME TypeInv, StepsInv, NEW m \in Member \ {"controller", "f5driver"},
           NEW new \in StepsOf[m], Goes(m, new), UNCHANGED <<heartbeatOK, listener, child>>
    PROVE  StepsInv'
<1>1. "controller" \in Member /\ "f5driver" \in Member
  BY DEF Member
<1> QED
  BY <1>1 DEF TypeInv, StepsInv, Goes

\* A step that only moves a member, and may take a signal from it.
LEMMA MovesKeep ==
    ASSUME ProcessInv, NEW m \in Member, NEW new \in Step, Goes(m, new), StepsInv', NatsInv',
           signals' \subseteq signals, child' \in {"none", "up", "exit 0", "exit 1", "killed", "reaped"},
           heartbeatOK' \in BOOLEAN, listener' \in {"none", "open", "closed"},
           UNCHANGED <<status, setupVars, groupVars>>,
           \/ member[m] \in Early /\ new \in Early \cup {"ready", "failed"}
           \/ /\ member[m] = "ready" /\ m \in signals
              /\ new \in Past \/ (new = "failed" /\ m = "f5driver")
           \/ member[m] \in {"draining", "stopping"} /\ new = "exited"
    PROVE  ProcessInv'
<1>1. UNCHANGED <<c, main, attempts, client, group, at, signalled, terminating>>
  BY DEF setupVars, groupVars
<1>2. members' = members
  BY <1>1, MembersKept
<1>3. GroupInv' /\ member' \in [Member -> Step]
  BY <1>1, MemberMoves DEF ProcessInv
<1>4. TypeInv'
  BY <1>1, <1>2, <1>3 DEF ProcessInv, TypeInv
<1>5. SetupInv'
  BY SetupKept DEF ProcessInv, Running
<1> QED
  BY <1>3, <1>4, <1>5 DEF ProcessInv

\* A step that ends the process where it stands, or that only the child takes.
LEMMA EndsKeep ==
    ASSUME ProcessInv, status' \in Outcome, Running' => Running, NatsInv',
           child' \in {"none", "up", "exit 0", "exit 1", "killed", "reaped"},
           child' = "up" => child = "up",
           UNCHANGED <<setupVars, statusVars, groupVars, memberVars>>
    PROVE  ProcessInv'
<1>1. UNCHANGED <<c, main, attempts, client, group, at, signalled, terminating, listener,
                  heartbeatOK, member, signals>>
  BY DEF setupVars, groupVars, statusVars, memberVars
<1>2. members' = members
  BY <1>1, MembersKept
<1>3. TypeInv'
  BY <1>1, <1>2, ZenonT(30) DEF ProcessInv, TypeInv
<1>4. SetupInv' /\ GroupInv' /\ StepsInv'
  BY <1>1, SetupKept, GroupKept, StepsKept DEF ProcessInv
<1> QED
  BY <1>3, <1>4 DEF ProcessInv

\* A fetcher's Run: ready at once, and gone when signalled.
LEMMA FetcherKeeps ==
    ASSUME ProcessInv, NEW m \in Fetchers, FetcherRuns(m)
    PROVE  ProcessInv'
<1>1. m \in Member \ {"controller", "f5driver"} /\ StepsOf[m] = {"none", "starting", "ready", "exited"}
  BY DEF Member, Fetchers, StepsOf
<1>2. UNCHANGED <<status, natsVars, setupVars, listener, heartbeatOK, groupVars, child>>
  BY DEF FetcherRuns, statusVars
<1>3. PICK new \in {"ready", "exited"} :
         /\ Goes(m, new) /\ signals' \subseteq signals
         /\ \/ member[m] = "starting" /\ new = "ready"
            \/ member[m] = "ready" /\ m \in signals /\ new = "exited"
  BY DEF FetcherRuns, In, Signalled
<1>4. StepsInv' /\ NatsInv'
  BY <1>1, <1>2, <1>3, StepsMove, NatsKept DEF ProcessInv
<1>5. /\ child' \in {"none", "up", "exit 0", "exit 1", "killed", "reaped"}
      /\ heartbeatOK' \in BOOLEAN /\ listener' \in {"none", "open", "closed"}
  BY <1>2 DEF ProcessInv, TypeInv
<1> QED
  BY <1>1, <1>2, <1>3, <1>4, <1>5, MovesKeep DEF Step, Early, Past

\* The subscriber's Run: its subscriptions, the greeting, and the start messages it
\* receives from the reconnect callback.
LEMMA SubscriberKeeps ==
    ASSUME ProcessInv, SubscriberStarts \/ subscribeRoutes \/ SubscriberRuns
    PROVE  ProcessInv'
<1> DEFINE m == "subscriber"
<1>1. /\ m \in Member \ {"controller", "f5driver"}
      /\ StepsOf[m] = {"none", "starting", "greet", "routes", "ready", "exited", "failed"}
  BY DEF Member, Fetchers, StepsOf
<1>2. /\ child \in {"none", "up", "exit 0", "exit 1", "killed", "reaped"}
      /\ heartbeatOK \in BOOLEAN /\ listener \in {"none", "open", "closed"}
      /\ "panic" \in Outcome
  BY DEF ProcessInv, TypeInv, Outcome
<1>3. ASSUME NEW new \in {"greet", "routes", "ready", "failed", "exited"}, Goes(m, new),
             signals' \subseteq signals, UNCHANGED <<status, natsVars, setupVars, statusVars, groupVars, child>>,
             \/ member[m] \in Early /\ new # "exited"
             \/ member[m] = "ready" /\ m \in signals /\ new = "exited"
      PROVE  ProcessInv'
  <2>1. UNCHANGED <<listener, heartbeatOK>>
    BY <1>3 DEF statusVars
  <2>2. StepsInv' /\ NatsInv'
    BY <1>1, <1>3, <2>1, StepsMove, NatsKept DEF ProcessInv
  <2> QED
    BY <1>1, <1>2, <1>3, <2>1, <2>2, MovesKeep, ZenonT(30) DEF Step, Early, Past
<1>4. CASE SubscriberStarts
  <2>1. /\ member[m] \in {"starting", "greet"}
        /\ Goes(m, "failed") \/ Goes(m, "greet") \/ Goes(m, "routes")
    BY <1>4 DEF SubscriberStarts, In
  <2>2. UNCHANGED <<status, natsVars, setupVars, statusVars, groupVars, signals, child>>
    BY <1>4 DEF SubscriberStarts
  <2>3. PICK new \in {"greet", "routes", "failed"} : Goes(m, new)
    BY <2>1
  <2> QED
    BY <1>3, <2>1, <2>2, <2>3 DEF Early
<1>5. CASE subscribeRoutes
  <2>1. /\ member[m] = "routes" /\ (Goes(m, "failed") \/ Goes(m, "ready"))
        /\ UNCHANGED <<status, natsVars, setupVars, statusVars, groupVars, signals, child>>
    BY <1>5 DEF subscribeRoutes, In
  <2>2. PICK new \in {"ready", "failed"} : Goes(m, new)
    BY <2>1
  <2> QED
    BY <1>3, <2>1, <2>2 DEF Early
<1>6. CASE SubscriberRuns
  <2>1. member[m] = "ready" /\ Running /\ UNCHANGED <<status, setupVars, statusVars, groupVars, child>>
    BY <1>6 DEF SubscriberRuns, In
  <2>2. CASE startMsgReceived /\ UNCHANGED memberVars
    <3>1. NatsInv'
      BY <2>2 DEF ProcessInv, NatsInv, startMsgReceived
    <3> QED
      BY <1>2, <2>1, <2>2, <3>1, EndsKeep DEF ProcessInv, TypeInv, Running
  <2>3. CASE Signalled(m) /\ Goes(m, "exited") /\ UNCHANGED natsVars
    BY <1>3, <2>1, <2>3, ZenonT(30) DEF Signalled
  <2> QED
    BY <1>6, <2>2, <2>3 DEF SubscriberRuns
<1> QED
  BY <1>4, <1>5, <1>6

\* /health says yes from here on, until the listener is closed.
LEMMA ControllerKeeps ==
    ASSUME ProcessInv, ControllerStarts \/ ControllerStops
    PROVE  ProcessInv'
<1> DEFINE m == "controller"
<1>1. /\ m \in Member /\ "f5driver" \in Member
      /\ StepsOf[m] = {"none", "starting", "delay", "ready", "exited"}
  BY DEF Member, Fetchers, StepsOf
<1>2. /\ UNCHANGED <<status, natsVars, setupVars, groupVars, child>>
      /\ child' \in {"none", "up", "exit 0", "exit 1", "killed", "reaped"}
      /\ heartbeatOK \in BOOLEAN /\ listener \in {"none", "open", "closed"}
      /\ member \in [Member -> Step]
  BY DEF ControllerStarts, ControllerStops, ProcessInv, TypeInv
<1>3. PICK new \in {"delay", "ready", "exited"} :
         /\ Goes(m, new) /\ signals' \subseteq signals
         /\ \/ member[m] = "starting" /\ new = "delay" /\ UNCHANGED <<heartbeatOK, listener>>
            \/ member[m] = "delay" /\ new = "ready" /\ heartbeatOK' = TRUE /\ UNCHANGED listener
            \/ /\ member[m] = "ready" /\ m \in signals /\ new = "exited" /\ UNCHANGED heartbeatOK
               /\ listener' = IF listener = "open" THEN "closed" ELSE listener
  BY DEF ControllerStarts, ControllerStops, componentStop, In, Signalled
<1>4. /\ heartbeatOK' \in BOOLEAN /\ listener' \in {"none", "open", "closed"}
      /\ listener' # "open" \/ new # "exited"
  BY <1>2, <1>3
<1>5. /\ member'[m] = new /\ \A x \in Member \ {m} : member'[x] = member[x]
  BY <1>1, <1>2, <1>3 DEF Goes
<1>6. StepsInv'
  <2>1. \A x \in Member : member'[x] \in StepsOf[x]
    BY <1>1, <1>5 DEF ProcessInv, StepsInv
  <2>2. heartbeatOK' <=> member'[m] \in {"ready", "exited"}
    <3>1. heartbeatOK <=> member[m] \in {"ready", "exited"}
      BY DEF ProcessInv, StepsInv
    <3>2. CASE new = "delay"
      BY <1>3, <1>5, <3>1, <3>2
    <3>3. CASE new = "ready"
      BY <1>3, <1>5, <3>3
    <3>4. CASE new = "exited"
      BY <1>3, <1>5, <3>1, <3>4
    <3> QED
      BY <3>2, <3>3, <3>4
  <2> QED
    BY <1>1, <1>2, <1>4, <1>5, <2>1, <2>2 DEF ProcessInv, StepsInv
<1> QED
  BY <1>1, <1>2, <1>3, <1>4, <1>6, MovesKeep, NatsKept DEF ProcessInv, Step, Early, Past

\* A tick of the pruning cycle waits for the client's lock.
LEMMA PruningKeeps ==
    ASSUME ProcessInv, pruneStaleDroplets
    PROVE  ProcessInv'
<1>1. /\ calls' = calls \cup {"status"}
      /\ UNCHANGED <<status, connection, sending, ach, callback, waiters, natsHost, outages>>
      /\ UNCHANGED <<setupVars, statusVars, groupVars, memberVars, child>>
      /\ Running
  BY DEF pruneStaleDroplets
<1>2. NatsInv'
  BY <1>1 DEF ProcessInv, NatsInv
<1>3. child \in {"none", "up", "exit 0", "exit 1", "killed", "reaped"} /\ status \in Outcome
  BY DEF ProcessInv, TypeInv
<1> QED
  BY <1>1, <1>2, <1>3, EndsKeep DEF ProcessInv, Running

\* The router's Run: the data groups, its worker, and the queue it drains.
LEMMA RouterKeeps ==
    ASSUME ProcessInv, RouterFetches \/ RouterRuns
    PROVE  ProcessInv'
<1> DEFINE m == "f5router"
<1>1. /\ m \in Member \ {"controller", "f5driver"}
      /\ StepsOf[m] = {"none", "starting", "broker data group", "ready", "draining", "exited"}
  BY DEF Member, Fetchers, StepsOf
<1>2. UNCHANGED <<status, natsVars, setupVars, listener, heartbeatOK, groupVars, child>>
  BY DEF RouterFetches, RouterRuns, statusVars
<1>3. PICK new \in {"broker data group", "ready", "draining", "exited"} :
         /\ Goes(m, new) /\ signals' \subseteq signals
         /\ \/ member[m] = "starting" /\ new \in {"broker data group", "ready"}
            \/ member[m] = "broker data group" /\ new = "ready"
            \/ member[m] = "ready" /\ m \in signals /\ new = "draining"
            \/ member[m] = "draining" /\ new = "exited"
  <2>1. CASE /\ In("f5router", "starting") /\ UNCHANGED signals
             /\ Goes("f5router", IF c.BrokerMode THEN "broker data group" ELSE "ready")
    BY <2>1 DEF In
  <2> QED
    BY <2>1 DEF RouterFetches, RouterRuns, In, Signalled
<1>4. StepsInv' /\ NatsInv'
  BY <1>1, <1>2, <1>3, StepsMove, NatsKept DEF ProcessInv
<1>5. /\ child' \in {"none", "up", "exit 0", "exit 1", "killed", "reaped"}
      /\ heartbeatOK' \in BOOLEAN /\ listener' \in {"none", "open", "closed"}
  BY <1>2 DEF ProcessInv, TypeInv
<1> QED
  BY <1>1, <1>2, <1>3, <1>4, <1>5, MovesKeep DEF Step, Early, Past

\* The child is there only while the driver is in its loop or waits for it.
LEMMA DriverKeeps ==
    ASSUME ProcessInv, DriverStarts \/ DriverSignals \/ DriverStops
    PROVE  ProcessInv'
<1> DEFINE m == "f5driver"
<1>1. /\ m \in Member /\ "controller" \in Member
      /\ StepsOf[m] = {"none", "starting", "ready", "stopping", "exited", "failed"}
  BY DEF Member, Fetchers, StepsOf
<1>2. /\ UNCHANGED <<natsVars, setupVars, statusVars, listener, heartbeatOK, groupVars>>
      /\ heartbeatOK \in BOOLEAN /\ listener \in {"none", "open", "closed"}
      /\ child \in {"none", "up", "exit 0", "exit 1", "killed", "reaped"}
      /\ member \in [Member -> Step] /\ "fatal" \in Outcome
  BY DEF DriverStarts, DriverSignals, DriverStops, statusVars, ProcessInv, TypeInv, Outcome
<1>3. CASE DriverStarts /\ status' = "fatal" /\ UNCHANGED <<member, child>>
  <2>1. Running /\ UNCHANGED memberVars
    BY <1>3 DEF DriverStarts, In, memberVars
  <2> QED
    BY <1>2, <1>3, <2>1, EndsKeep, NatsKept DEF ProcessInv, Running
<1>4. ASSUME NEW new \in {"ready", "stopping", "failed", "exited"},
             Goes(m, new), signals' \subseteq signals, UNCHANGED status,
             \/ member[m] = "starting" /\ new = "ready" /\ child' = "up"
             \/ member[m] = "ready" /\ m \in signals /\ new = "failed" /\ child = "reaped" /\ child' = child
             \/ member[m] = "ready" /\ m \in signals /\ new = "stopping" /\ child' = child
             \/ member[m] = "stopping" /\ new = "exited" /\ child = "reaped" /\ child' = child
      PROVE  ProcessInv'
  <2>1. /\ member'[m] = new /\ \A x \in Member \ {m} : member'[x] = member[x]
    BY <1>1, <1>2, <1>4 DEF Goes
  <2>2. child' = "up" => new \in {"ready", "stopping"}
    BY <1>4
  <2>3. StepsInv'
    BY <1>1, <1>2, <2>1, <2>2 DEF ProcessInv, StepsInv
  <2> QED
    BY <1>1, <1>2, <1>4, <2>3, MovesKeep, NatsKept DEF ProcessInv, Step, Early, Past
<1>5. CASE DriverStarts /\ status' # "fatal"
  <2>1. member[m] = "starting" /\ Goes(m, "ready") /\ child' = "up" /\ UNCHANGED <<status, signals>>
    BY <1>5 DEF DriverStarts, In, Fatal
  <2> QED
    BY <1>4, <2>1
<1>6. CASE DriverSignals
  <2>1. /\ member[m] = "ready" /\ m \in signals /\ signals' \subseteq signals /\ UNCHANGED <<status, child>>
        /\ Goes(m, IF child = "reaped" THEN "failed" ELSE "stopping")
    BY <1>6 DEF DriverSignals, In, Signalled
  <2>2. CASE child = "reaped"
    <3>1. Goes(m, "failed")
      BY <2>1, <2>2
    <3> QED
      BY <1>4, <2>1, <2>2, <3>1
  <2>3. CASE child # "reaped"
    <3>1. Goes(m, "stopping")
      BY <2>1, <2>3
    <3> QED
      BY <1>4, <2>1, <3>1
  <2> QED
    BY <2>2, <2>3
<1>7. CASE DriverStops
  <2>1. /\ member[m] = "stopping" /\ Goes(m, "exited") /\ child = "reaped"
        /\ UNCHANGED <<status, signals, child>>
    BY <1>7 DEF DriverStops, In
  <2> QED
    BY <1>4, <2>1
<1>8. DriverStarts => status' # "fatal" \/ UNCHANGED <<member, child>>
  BY DEF DriverStarts, In, Fatal, Running
<1> QED
  BY <1>3, <1>5, <1>6, <1>7, <1>8

\* A child never comes back.
LEMMA ChildKeeps ==
    ASSUME ProcessInv, ChildEnds \/ ChildObeys \/ ChildWaitedFor \/ ChildFatal
    PROVE  ProcessInv'
<1>1. /\ UNCHANGED <<natsVars, setupVars, statusVars, groupVars, memberVars>>
      /\ child' \in {"none", "up", "exit 0", "exit 1", "killed", "reaped"}
      /\ child' = "up" => child = "up"
      /\ status' = status \/ (status' = "fatal" /\ Running)
  BY DEF ChildEnds, ChildObeys, ChildWaitedFor, ChildFatal, In, Fatal, ProcessInv, TypeInv
<1>2. status' \in Outcome /\ (Running' => Running)
  BY <1>1 DEF ProcessInv, TypeInv, Outcome, Running
<1> QED
  BY <1>1, <1>2, EndsKeep, NatsKept DEF ProcessInv
-----------------------------------------------------------------------------
(***************************************************************************)
(* The theorems                                                            *)
(***************************************************************************)

\* The process starts with its configuration and nothing else.
LEMMA ProcessInit == Init => ProcessInv
<1> SUFFICES ASSUME Init PROVE ProcessInv
  OBVIOUS
<1>1. IsMemberList(members)
  BY MembersListed DEF MembersOK
<1>2. members \in Seq(Member) /\ Len(members) \in Nat
  BY <1>1 DEF IsMemberList
<1>3. TypeInv
  <2>1. member \in [Member -> Step] /\ signals \subseteq Member
    BY DEF Init, Step
  <2>2. at \in 0 .. Len(members) /\ attempts \in 0 .. 3
    BY <1>2 DEF Init
  <2> QED
    BY <2>1, <2>2, ZenonT(30) DEF Init, TypeInv, Outcome
<1>4. NatsInv
  <2>1. ach \in Seq(Callback) /\ Disconnected(ach) = {} /\ Len(ach) = 0 /\ Owed(sending) = 0
    BY DEF Init, NatsInit, Disconnected, Owed
  <2>2. Cardinality({}) = 0
    BY FS_EmptySet
  <2>3. /\ waiters + Cardinality(Disconnected(ach)) + Owed(sending) <= outages
        /\ outages \in 0 .. MaxOutages
    BY <2>1, <2>2, NatsAssumption DEF Init, NatsInit
  <2>4. Len(ach) <= asyncCBChanSize
    BY <2>1, NatsAssumption
  <2> QED
    BY <2>1, <2>3, <2>4, ZenonT(30) DEF Init, NatsInit, NatsInv, Sendings
<1>5. SetupInv
  <2>1. c \in ConfigOf(BigIPConfig)
    BY ConfigurationAssumption DEF Init
  <2>2. c \in ConfigOf({c.BigIP})
    BY <2>1 DEF ConfigOf
  <2> QED
    BY <2>2 DEF Init, SetupInv
<1>6. StepsInv
  <2>1. \A m \in Member : "none" \in StepsOf[m]
    BY DEF StepsOf
  <2>2. "controller" \in Member /\ "f5driver" \in Member
    BY DEF Member
  <2> QED
    BY <2>1, <2>2 DEF Init, StepsInv
<1>7. GroupInv
  <2>1. \A i \in 1 .. Len(members) : members[i] \in Member /\ i > 0
    BY <1>2
  <2> QED
    BY <2>1 DEF Init, GroupInv
<1> QED
  BY <1>3, <1>4, <1>5, <1>6, <1>7 DEF ProcessInv

\* One case per step of main, the group, each member, the child and the client.
LEMMA ProcessNext == ProcessInv /\ [Next]_vars => ProcessInv'
<1> SUFFICES ASSUME ProcessInv, [Next]_vars PROVE ProcessInv'
  OBVIOUS
<1>1. CASE Setup
  BY <1>1, SetupKeeps
<1>2. CASE orderedStart \/ Interrupted \/ stop
  BY <1>2, OrderedStartKeeps, InterruptedKeeps, StopKeeps
<1>3. CASE Members
  BY <1>3, FetcherKeeps, SubscriberKeeps, ControllerKeeps, RouterKeeps, DriverKeeps, ChildKeeps
     DEF Members
<1>4. CASE (Client \/ Callbacks) /\ UNCHANGED <<setupVars, statusVars, groupVars, memberVars, child>>
  <2>1. NatsInv' /\ (status' = status \/ (status = "running" /\ status' \in {"fatal", "panic"}))
    BY <1>4, NatsMoves DEF ProcessInv
  <2>2. status' \in Outcome /\ (Running' => Running)
    BY <2>1 DEF ProcessInv, TypeInv, Outcome, Running
  <2>3. child' \in {"none", "up", "exit 0", "exit 1", "killed", "reaped"} /\ child' = child
    BY <1>4 DEF ProcessInv, TypeInv
  <2> QED
    BY <1>4, <2>1, <2>2, <2>3, EndsKeep
<1>5. CASE OsSignal
  BY <1>5, OsSignalKeeps
<1>6. CASE ChildEnds
  BY <1>6, ChildKeeps
<1>7. CASE pruneStaleDroplets \/ RouterFetches
  BY <1>7, PruningKeeps, RouterKeeps
<1>8. CASE UNCHANGED vars
  <2>1. UNCHANGED <<status, natsVars, setupVars, statusVars, groupVars, memberVars, child>>
    BY <1>8 DEF vars
  <2>2. /\ child' \in {"none", "up", "exit 0", "exit 1", "killed", "reaped"} /\ child' = child
        /\ status' \in Outcome /\ (Running' => Running)
    BY <2>1 DEF ProcessInv, TypeInv, Running
  <2> QED
    BY <2>1, <2>2, EndsKeep, NatsKept DEF ProcessInv
<1> QED
  BY <1>1, <1>2, <1>3, <1>4, <1>5, <1>6, <1>7, <1>8 DEF Next, Code, Environment

\* The inductive invariant holds in every state of the process.
THEOREM ProcessInvariant == Spec => []ProcessInv
  BY ProcessInit, ProcessNext, PTL DEF Spec

\* Six members at most.
LEMMA MembersCounted == IsFiniteSet(Member) /\ Cardinality(Member) = 6
<1> DEFINE A == {"http-route-fetcher", "tcp-route-fetcher"}
           B == A \cup {"subscriber"}
           C == B \cup {"controller"}
           D == C \cup {"f5router"}
<1>1. Member = D \cup {"f5driver"}
  BY DEF Member, Fetchers
<1>2. IsFiniteSet(A) /\ Cardinality(A) = 2
  <2>1. IsFiniteSet({"http-route-fetcher"}) /\ Cardinality({"http-route-fetcher"}) = 1
    BY FS_Singleton
  <2>2. A = {"http-route-fetcher"} \cup {"tcp-route-fetcher"}
           /\ "tcp-route-fetcher" \notin {"http-route-fetcher"}
    OBVIOUS
  <2> QED
    BY <2>1, <2>2, FS_AddElement
<1>3. "subscriber" \notin A /\ "controller" \notin B /\ "f5router" \notin C /\ "f5driver" \notin D
  OBVIOUS
<1> HIDE DEF A
<1>4. IsFiniteSet(B) /\ Cardinality(B) = 3
  BY <1>2, <1>3, FS_AddElement
<1> HIDE DEF B
<1>5. IsFiniteSet(C) /\ Cardinality(C) = 4
  BY <1>3, <1>4, FS_AddElement
<1> HIDE DEF C
<1>6. IsFiniteSet(D) /\ Cardinality(D) = 5
  BY <1>3, <1>5, FS_AddElement
<1> HIDE DEF D
<1> QED
  BY <1>1, <1>3, <1>6, FS_AddElement

\* The state of main, of the group and its members, of the child and of the NATS
\* client keeps its type: no goroutine waits for a reconnection that no outage has
\* caused, and the queue of callbacks never overflows (main.go, natsOptions).
THEOREM ProcessTypeCorrect == Spec => []ProcessTypeOK
<1>1. ProcessInv => ProcessTypeOK
  <2> SUFFICES ASSUME ProcessInv PROVE ProcessTypeOK
    OBVIOUS
  <2>1. at \in 0 .. Cardinality(Member)
    <3>1. IsMemberList(members)
      BY MembersListed DEF MembersOK
    <3>2. Len(members) \in 3 .. 6
      BY <3>1 DEF IsMemberList
    <3>3. at \in 0 .. Len(members)
      BY DEF ProcessInv, TypeInv
    <3>4. at \in 0 .. 6
      <4>1. \A k \in 3 .. 6 : \A n \in 0 .. k : n \in 0 .. 6
        OBVIOUS
      <4> QED
        BY <3>2, <3>3, <4>1, ZenonT(30)
    <3> QED
      BY <3>4, MembersCounted
  <2>2. NatsTypeOK
    <3>1. Cardinality(Disconnected(ach)) \in Nat /\ Owed(sending) \in Nat
      BY DisconnectedFinite DEF ProcessInv, NatsInv, Owed, One
    <3>2. waiters \in 0 .. MaxOutages
      <4>1. /\ waiters \in Nat /\ outages \in 0 .. MaxOutages
            /\ waiters + Cardinality(Disconnected(ach)) + Owed(sending) <= outages
        BY ZenonT(30) DEF ProcessInv, NatsInv
      <4>2. \A n, x, y \in Nat : \A k \in 0 .. MaxOutages :
                n + x + y <= k => n \in 0 .. MaxOutages
        BY NatsAssumption
      <4> QED
        BY <3>1, <4>1, <4>2, ZenonT(30)
    <3>3. \A s \in Sendings : s \in Seq(Callback)
      <4>1. {"DisconnectedCB", "ReconnectedCB", "ClosedCB", "closeAsyncFunc"} \subseteq Callback
        BY DEF Callback
      <4>2. <<>> \in Seq(Callback) /\ \A cb \in Callback : <<cb>> \in Seq(Callback)
        OBVIOUS
      <4>3. <<"ClosedCB", "closeAsyncFunc">> \in Seq(Callback)
        BY <4>1
      <4>4. <<"DisconnectedCB", "ClosedCB", "closeAsyncFunc">> \in Seq(Callback)
        BY <4>1
      <4> QED
        BY <4>1, <4>2, <4>3, <4>4, ZenonT(30) DEF Sendings
    <3> QED
      BY <3>2, <3>3, ZenonT(30) DEF ProcessInv, NatsInv, NatsTypeOK
  <2>3. \A m \in Member : member[m] \in Step
    BY DEF ProcessInv, TypeInv
  <2> QED
    BY <2>1, <2>2, <2>3 DEF ProcessInv, TypeInv, ProcessTypeOK, Step
<1> QED
  BY <1>1, ProcessInvariant, PTL

\* /health says yes only while the subscriber and the fetchers of the routing mode are
\* at work: the controller is started after them and stopped, with its listener,
\* before them, although heartbeatOK is never reset (Controller.Run and Stop, main's
\* list of members).  Only a connection from before that may be told otherwise, and
\* only once the controller has exited in a group that stops.
THEOREM ProcessHealth == Spec => []HealthyMeansListening
<1>1. ProcessInv => HealthyMeansListening
  <2> SUFFICES ASSUME ProcessInv, Healthy PROVE HealthyMeansListening
    BY DEF HealthyMeansListening
  <2>1. IsMemberList(members) /\ Range(members) = {members[i] : i \in 1 .. Len(members)}
    BY MembersListed DEF MembersOK
  <2>2. Len(members) \in 3 .. 6
    BY <2>1 DEF IsMemberList
  <2>a. Len(members) - 2 \in 1 .. Len(members)
    BY <2>2, ThirdLast, ZenonT(30)
  <2>b. members[Len(members) - 2] = "controller"
    BY <2>1 DEF IsMemberList
  <2>3. PICK n \in 1 .. Len(members) : n = Len(members) - 2 /\ members[n] = "controller"
    BY <2>a, <2>b
  <2>4. CASE member["controller"] = "exited"
    <3>1. listener = "closed"
      BY <2>4 DEF ProcessInv, TypeInv, StepsInv, Healthy
    <3>2. n < at \/ n = at \/ n > at
      <4>1. at \in 0 .. Len(members)
        BY DEF ProcessInv, TypeInv
      <4> QED
        BY <2>2, <2>3, <4>1
    <3>3. group = "stopping"
      BY <2>3, <2>4, <3>2 DEF ProcessInv, GroupInv
    <3> QED
      BY <2>4, <3>1, <3>3 DEF HealthyMeansListening
  <2>5. CASE member["controller"] # "exited"
    <3> SUFFICES ASSUME NEW m \in Range(members) \cap (Fetchers \cup {"subscriber"})
                 PROVE  member[m] = "ready"
      BY DEF HealthyMeansListening
    <3>1. PICK i \in 1 .. Len(members) : m = members[i]
      BY <2>1
    <3>2. i < n
      <4>1. m \notin {"controller", "f5router", "f5driver"}
        BY DEF Fetchers
      <4>2. i # n /\ i # n + 1 /\ i # n + 2
        BY <2>1, <2>2, <2>3, <3>1, <4>1 DEF IsMemberList
      <4> QED
        BY <2>2, <2>3, <3>1, <4>2
    <3>3. member["controller"] = "ready"
      BY <2>5 DEF ProcessInv, StepsInv, Healthy
    <3>4. ~(n > at)
      BY <2>3, <3>3 DEF ProcessInv, GroupInv, Ended
    <3>5. i < at
      <4>1. at \in 0 .. Len(members)
        BY DEF ProcessInv, TypeInv
      <4> QED
        BY <2>2, <2>3, <3>1, <3>2, <3>4, <4>1
    <3> QED
      BY <3>1, <3>5 DEF ProcessInv, GroupInv
  <2> QED
    BY <2>4, <2>5
<1> QED
  BY <1>1, ProcessInvariant, PTL

\* A member that runs finds what it depends on: a fetcher its client, the router's
\* worker a controller that has waited for registrations, and the driver's process a
\* router that writes its file (main.go, setupRoutingAPIClient, Controller.Run).
THEOREM ProcessDependencies == Spec => []DependenciesMet
<1>1. ProcessInv => DependenciesMet
  <2> SUFFICES ASSUME ProcessInv PROVE DependenciesMet
    OBVIOUS
  <2>1. MembersOK
    BY MembersListed
  <2>2. Len(members) \in 3 .. 6
    BY <2>1 DEF MembersOK, IsMemberList
  <2>3. PICK n \in 1 .. Len(members) :
           /\ n = Len(members) - 2 /\ members[n] = "controller"
           /\ n + 1 \in 1 .. Len(members) /\ members[n + 1] = "f5router"
           /\ n + 2 \in 1 .. Len(members) /\ members[n + 2] = "f5driver" /\ n + 1 < n + 2
    <3>1. \A k \in 3 .. 6 : /\ k - 2 \in 1 .. k /\ (k - 2) + 1 = k - 1 /\ (k - 2) + 2 = k
                            /\ k - 1 \in 1 .. k /\ k \in 1 .. k /\ k - 1 < k
      OBVIOUS
    <3>2. members[Len(members) - 2] = "controller" /\ members[Len(members) - 1] = "f5router"
             /\ members[Len(members)] = "f5driver"
      BY <2>1 DEF MembersOK, IsMemberList
    <3> DEFINE k == Len(members)
    <3> HIDE DEF k
    <3>3. k - 2 \in 1 .. k /\ (k - 2) + 1 = k - 1 /\ (k - 2) + 2 = k
             /\ k - 1 \in 1 .. k /\ k \in 1 .. k /\ k - 1 < k
      BY <2>2, <3>1, ZenonT(30) DEF k
    <3> QED
      <4>1. k - 2 \in 1 .. Len(members)
        BY <3>3 DEF k
      <4> USE <4>1
      <4> WITNESS k - 2 \in 1 .. Len(members)
      <4> QED
        BY <3>2, <3>3, ZenonT(30) DEF k
  <2>4. ASSUME NEW m \in Fetchers, member[m] # "none" PROVE client
    <3>1. m \in Range(members) /\ group # "none"
      BY <2>4 DEF ProcessInv, GroupInv, Member
    <3>2. main = "wait"
      BY <3>1 DEF ProcessInv, GroupInv
    <3>3. RoutingApiEnabled(c)
      BY <2>1, <2>4, <3>1, <3>2 DEF MembersOK, Fetchers, ProcessInv, SetupInv
    <3> QED
      BY <3>2, <3>3 DEF ProcessInv, SetupInv
  <2>5. ASSUME member["f5router"] = "ready" PROVE heartbeatOK
    <3>1. member["controller"] \in Past
      BY <2>2, <2>3, <2>5 DEF ProcessInv, GroupInv
    <3>2. member["controller"] \in {"none", "starting", "delay", "ready", "exited"}
      BY DEF ProcessInv, StepsInv, StepsOf, Member
    <3> QED
      BY <3>1, <3>2 DEF ProcessInv, StepsInv, Past
  <2>6. ASSUME Running, child = "up" PROVE member["f5router"] = "ready"
    <3>1. member["f5driver"] \in {"ready", "stopping"}
      BY <2>6 DEF ProcessInv, StepsInv
    <3>2. ~(n + 2 > at)
      BY <2>3, <3>1 DEF ProcessInv, GroupInv, Ended
    <3>3. n + 1 < at
      <4>1. at \in 0 .. Len(members)
        BY DEF ProcessInv, TypeInv
      <4> QED
        BY <2>2, <2>3, <3>2, <4>1
    <3> QED
      BY <2>3, <3>3 DEF ProcessInv, GroupInv
  <2> QED
    BY <2>4, <2>5, <2>6 DEF DependenciesMet
<1> QED
  BY <1>1, ProcessInvariant, PTL
=============================================================================
