---------------------------- MODULE CtlrProcess ----------------------------
(***************************************************************************)
(* The process from main (main.go) to its exit: the configuration, the     *)
(* set-up that main does itself, the group of members that starts them in  *)
(* order and stops them in reverse (ifrit), each member's Run, the child   *)
(* process that the driver runs, and the NATS callbacks that interleave    *)
(* with all of it.  logger.Fatal, a panic and os.Exit end the process      *)
(* wherever it stands, and leave a child behind.                           *)
(***************************************************************************)
EXTENDS Config, RouterConfig, NatsClient, FiniteSets

CONSTANT Configuration   \* configurations, before Process

ASSUME ConfigurationAssumption == Configuration \subseteq ConfigOf(BigIPConfig)

VARIABLES
    c,             \* the configuration
    main,          \* the next step of main
    attempts,      \* connectToNatsServer: attempts left
    client,        \* routingAPIClient is not nil
    listener,      \* of the status endpoints: "none", "open" or "closed"
    heartbeatOK,
    member,        \* how far each member's Run is
    signals,       \* the members with a signal to receive
    group,         \* "none", "starting", "running" or "stopping"
    at,            \* the member the group last started or is about to stop
    signalled,     \* a signal for the process has come, and is not received yet
    terminating,   \* history: a signal has come
    child          \* the driver's process: "none", "up" or how it ended; "reaped"

setupVars == <<c, main, attempts, client>>
statusVars == <<listener, heartbeatOK>>
groupVars == <<group, at, signalled, terminating>>
memberVars == <<member, signals>>
vars == <<status, natsVars, setupVars, statusVars, groupVars, memberVars, child>>

Fetchers == {"http-route-fetcher", "tcp-route-fetcher"}

Member == Fetchers \cup {"subscriber", "controller", "f5router", "f5driver"}

Init ==
    /\ status = "running" /\ NatsInit
    /\ c \in Configuration /\ main = "config" /\ attempts = 3 /\ client = FALSE
    /\ listener = "none" /\ heartbeatOK = FALSE
    /\ member = [m \in Member |-> "none"] /\ signals = {}
    /\ group = "none" /\ at = 0
    /\ signalled = FALSE /\ terminating = FALSE
    /\ child = "none"
-----------------------------------------------------------------------------
(***************************************************************************)
(* main, up to the group                                                   *)
(***************************************************************************)
Main(step) == Running /\ main = step

\* What main does next; each step may end the process instead.
Proceed(step) == main' = step /\ UNCHANGED status
Dies(how) == how /\ UNCHANGED main

\* Text that is no YAML, a machine without an address and a configuration that
\* Process refuses are panics; dropsonde may fail afterwards.
configure ==
    /\ Main("config")
    /\ \/ Dies(Panics) /\ UNCHANGED c
       \/ /\ Process(c) # Panic /\ c' = Process(c)
          /\ Proceed("nats") \/ Dies(Fatal)
    /\ UNCHANGED <<natsVars, attempts, client, statusVars, groupVars, memberVars, child>>

\* Connect returns: its callbacks run from now on.
ConnectNats ==
    /\ Main("nats")
    /\ Proceed("natsHost")
    /\ connection' = "connected"
    /\ UNCHANGED <<sending, ach, callback, calls, waiters, natsHost, outages, c, attempts,
                   client, statusVars, groupVars, memberVars, child>>

\* Variant of ConnectNatsFails that never gives up.
ConnectNatsAgain ==
    /\ Main("nats")
    /\ attempts' = attempts - 1
    /\ Proceed("nats")
    /\ UNCHANGED <<natsVars, c, client, statusVars, groupVars, memberVars, child>>

ConnectNatsFails ==
    /\ Main("nats")
    /\ attempts' = attempts - 1
    /\ IF attempts' = 0 THEN Dies(Fatal) ELSE Proceed("nats")
    /\ UNCHANGED <<natsVars, c, client, statusVars, groupVars, memberVars, child>>

\* ConnectedUrl takes nc.mu.
storeNatsHost ==
    /\ Main("natsHost") /\ Free
    /\ natsHost' = TRUE
    /\ Proceed("routing api")
    /\ UNCHANGED <<connection, sending, ach, callback, calls, waiters, outages, c, attempts,
                   client, statusVars, groupVars, memberVars, child>>

\* A client for tokens needs TLS, unless authentication is off.
newUaaClient == c.RoutingApi.AuthDisabled \/ c.OAuthTLS

\* setupRoutingAPIClient gets a token, if it needs one, and asks for the routes once.
setupRoutingAPIClient ==
    /\ Main("routing api")
    /\ IF RoutingApiEnabled(c)
       THEN \/ newUaaClient /\ Proceed("router group") /\ client' = TRUE
            \/ Dies(Fatal) /\ UNCHANGED client
       ELSE Proceed("f5router") /\ UNCHANGED client
    /\ UNCHANGED <<natsVars, c, attempts, statusVars, groupVars, memberVars, child>>

fetchRoutingGroupGUID ==
    /\ Main("router group")
    /\ \/ Proceed("f5router")
       \/ c.RouterGroupName /\ Dies(Fatal)
    /\ UNCHANGED <<natsVars, c, attempts, client, statusVars, groupVars, memberVars, child>>

\* The writer, the router, which fills in its part of the configuration, the
\* driver's command and the plans; any of them may fail.
createRouter ==
    /\ Main("f5router")
    /\ \/ /\ validateConfig(c.BigIP) # Refused
          /\ c' = [c EXCEPT !.BigIP = validateConfig(@)]
          /\ Proceed("members")
       \/ Dies(Fatal) /\ UNCHANGED c
    /\ UNCHANGED <<natsVars, attempts, client, statusVars, groupVars, memberVars, child>>

\* Variant of members that starts the driver before the router.
membersDriverFirst ==
    (IF c.RoutingMode = "TCP" THEN <<>>
     ELSE (IF RoutingApiEnabled(c) THEN <<"http-route-fetcher">> ELSE <<>>) \o <<"subscriber">>)
    \o (IF c.RoutingMode = "HTTP" THEN <<>> ELSE <<"tcp-route-fetcher">>)
    \o <<"controller", "f5driver", "f5router">>

members ==
    (IF c.RoutingMode = "TCP" THEN <<>>
     ELSE (IF RoutingApiEnabled(c) THEN <<"http-route-fetcher">> ELSE <<>>) \o <<"subscriber">>)
    \o (IF c.RoutingMode = "HTTP" THEN <<>> ELSE <<"tcp-route-fetcher">>)
    \o <<"controller", "f5router", "f5driver">>

\* setupRouteFetcher, setupTCPRouteFetcher and createSubscriber.
createMembers ==
    /\ Main("members")
    /\ \/ /\ Range(members) \cap Fetchers # {} => newUaaClient
          /\ Proceed("controller")
       \/ Dies(Fatal)
    /\ UNCHANGED <<natsVars, c, attempts, client, statusVars, groupVars, memberVars, child>>

\* A port that is taken is noted where nobody looks: the process goes on without
\* its endpoints.
ListenAndServe == listener' \in {"open", "none"}

\* The component serves from here on, long before the controller runs; without a
\* UUID or an address it does not start.
componentStart ==
    \/ ListenAndServe /\ Proceed("group")
    \/ Dies(Fatal) /\ UNCHANGED listener

NewController ==
    /\ Main("controller")
    /\ componentStart
    /\ UNCHANGED <<natsVars, c, attempts, client, heartbeatOK, groupVars, memberVars, child>>

\* The first member is started.
startGroup ==
    /\ Main("group")
    /\ Proceed("wait")
    /\ group' = "starting" /\ at' = 1
    /\ member' = [member EXCEPT ![members[1]] = "starting"]
    /\ UNCHANGED <<natsVars, c, attempts, client, statusVars, signalled, terminating,
                   signals, child>>

Setup ==
    \/ configure \/ ConnectNats \/ ConnectNatsFails \/ storeNatsHost
    \/ setupRoutingAPIClient \/ fetchRoutingGroupGUID \/ createRouter \/ createMembers
    \/ NewController \/ startGroup
-----------------------------------------------------------------------------
(***************************************************************************)
(* The group and its signals                                               *)
(***************************************************************************)

\* SIGTERM, SIGINT or SIGUSR1.  Before sigmon runs nothing handles them.
OsSignal ==
    /\ Running /\ ~terminating
    /\ terminating' = TRUE
    /\ IF main = "wait"
       THEN signalled' = TRUE /\ UNCHANGED status
       ELSE status' = "killed" /\ UNCHANGED signalled
    /\ UNCHANGED <<natsVars, setupVars, statusVars, group, at, memberVars, child>>

InGroup(phase) == Running /\ group = phase

Ended(m) == member[m] \in {"exited", "failed"}

\* The member is ready: the next one is started.
orderedStart ==
    /\ InGroup("starting")
    /\ member[members[at]] = "ready"
    /\ IF at = Len(members)
       THEN group' = "running" /\ UNCHANGED <<at, member>>
       ELSE /\ at' = at + 1
            /\ member' = [member EXCEPT ![members[at + 1]] = "starting"]
            /\ UNCHANGED group
    /\ UNCHANGED <<status, natsVars, setupVars, statusVars, signalled, terminating,
                   signals, child>>

\* Variant of Interrupted that signals only a member that is ready.
InterruptedReady ==
    /\ InGroup("starting") \/ InGroup("running")
    /\ signalled /\ signalled' = FALSE
    /\ group' = "stopping"
    /\ signals' = {m \in {members[at]} : member[m] = "ready"}
    /\ UNCHANGED <<status, natsVars, setupVars, statusVars, at, terminating, member, child>>

\* A signal, or a member that ended, stops the members started so far; the last of
\* them is signalled, ready or not.
Interrupted ==
    /\ InGroup("starting") \/ InGroup("running")
    /\ \/ signalled /\ signalled' = FALSE
       \/ (\E i \in 1 .. at : Ended(members[i])) /\ UNCHANGED signalled
    /\ group' = "stopping"
    /\ signals' = signals \cup {members[at]}
    /\ UNCHANGED <<status, natsVars, setupVars, statusVars, at, terminating, member, child>>

exitStatus == IF \E m \in Member : member[m] = "failed" THEN "exit 1" ELSE "exit 0"

\* One member has stopped, and the one before it is signalled; after the first
\* member main exits.  A second signal only replaces the one to be passed on.
stop ==
    /\ InGroup("stopping")
    /\ Ended(members[at])
    /\ at' = at - 1
    /\ IF at = 1
       THEN status' = exitStatus /\ UNCHANGED signals
       ELSE signals' = signals \cup {members[at - 1]} /\ UNCHANGED status
    /\ UNCHANGED <<natsVars, setupVars, statusVars, group, signalled, terminating,
                   member, child>>
-----------------------------------------------------------------------------
(***************************************************************************)
(* The members.  "ready" is the member's loop, from which only a signal    *)
(* takes it.                                                               *)
(***************************************************************************)
In(m, step) == Running /\ member[m] = step

Goes(m, step) == member' = [member EXCEPT ![m] = step]

Signalled(m) == m \in signals /\ signals' = signals \ {m}

\* A fetcher is ready at once, and returns from the call it is in.
FetcherRuns(m) ==
    /\ \/ In(m, "starting") /\ Goes(m, "ready") /\ UNCHANGED signals
       \/ In(m, "ready") /\ Signalled(m) /\ Goes(m, "exited")
    /\ UNCHANGED <<status, natsVars, setupVars, statusVars, groupVars, child>>

\* The subscriber's start message, sent before it subscribes to anything, and the
\* first subscription.  Both need nc.mu and fail on a closed connection; the message
\* also fails without a local address, or when the client buffers no more.
SubscriberStarts ==
    /\ Free
    /\ \/ In("subscriber", "starting") /\ Goes("subscriber", "failed")
       \/ \E step \in {"starting", "greet"} :
             /\ In("subscriber", step)
             /\ Goes("subscriber", IF connection = "closed" THEN "failed"
                                   ELSE IF step = "starting" THEN "greet" ELSE "routes")
    /\ UNCHANGED <<status, natsVars, setupVars, statusVars, groupVars, signals, child>>

\* The limits are set even for a subscription it has not got: an error nobody looks at.
subscribeRoutes ==
    /\ In("subscriber", "routes") /\ Free
    /\ Goes("subscriber", IF connection = "closed" THEN "failed" ELSE "ready")
    /\ UNCHANGED <<status, natsVars, setupVars, statusVars, groupVars, signals, child>>

\* The loop, which it is not in while it publishes a start message.
SubscriberRuns ==
    /\ In("subscriber", "ready") /\ "start message" \notin calls
    /\ \/ startMsgReceived /\ UNCHANGED memberVars
       \/ Signalled("subscriber") /\ Goes("subscriber", "exited") /\ UNCHANGED natsVars
    /\ UNCHANGED <<status, setupVars, statusVars, groupVars, child>>

\* The pruning cycles come first, then Register, which subscribes and publishes; the
\* delay cannot be interrupted.
ControllerStarts ==
    /\ \/ /\ In("controller", "starting") /\ Free
          /\ Goes("controller", "delay") /\ UNCHANGED heartbeatOK
       \/ In("controller", "delay") /\ Goes("controller", "ready") /\ heartbeatOK' = TRUE
    /\ UNCHANGED <<status, natsVars, setupVars, listener, groupVars, signals, child>>

\* A tick of the registry's pruning cycle asks for the status of the connection while
\* nc.mu is taken, and holds the registry's lock meanwhile.
pruneStaleDroplets ==
    /\ Running /\ member["controller"] \in {"starting", "delay", "ready"}
    /\ c.RoutingMode # "TCP" /\ c.SuspendPruningIfNatsUnavailable
    /\ ~Free /\ "status" \notin calls
    /\ calls' = calls \cup {"status"}
    /\ UNCHANGED <<status, connection, sending, ach, callback, waiters, natsHost, outages,
                   setupVars, statusVars, groupVars, memberVars, child>>

\* Variant of ControllerStops that leaves the endpoints open.
ControllerStopsAlone ==
    /\ In("controller", "ready") /\ "status" \notin calls
    /\ Signalled("controller") /\ Goes("controller", "exited")
    /\ UNCHANGED <<status, natsVars, setupVars, statusVars, groupVars, child>>

\* The listener is closed, if there is one, and its goroutine waited for.
componentStop == listener' = IF listener = "open" THEN "closed" ELSE listener

\* The pruning cycles stop, for which the registry's lock must be free, then the
\* component.
ControllerStops ==
    /\ In("controller", "ready") /\ "status" \notin calls
    /\ Signalled("controller") /\ Goes("controller", "exited")
    /\ componentStop
    /\ UNCHANGED <<status, natsVars, setupVars, heartbeatOK, groupVars, child>>

\* What a request to /health is answered, on a new connection or, once the listener is
\* closed, on one that was accepted before: nothing but the end of the process closes
\* those, and heartbeatOK is never reset.
Healthy == Running /\ listener # "none" /\ heartbeatOK

\* The two data groups are fetched.  A fetch that times out is tried again for ever.
RouterFetches ==
    /\ \/ /\ In("f5router", "starting")
          /\ Goes("f5router", IF c.BrokerMode THEN "broker data group" ELSE "ready")
       \/ In("f5router", "broker data group") /\ Goes("f5router", "ready")
    /\ UNCHANGED <<status, natsVars, setupVars, statusVars, groupVars, signals, child>>

\* The worker runs until the queue is shut down and empty.
RouterRuns ==
    /\ \/ In("f5router", "ready") /\ Signalled("f5router") /\ Goes("f5router", "draining")
       \/ In("f5router", "draining") /\ Goes("f5router", "exited") /\ UNCHANGED signals
    /\ UNCHANGED <<status, natsVars, setupVars, statusVars, groupVars, child>>
-----------------------------------------------------------------------------
(***************************************************************************)
(* The driver and its child                                                *)
(***************************************************************************)
DriverStarts ==
    /\ In("f5driver", "starting")
    /\ \/ Goes("f5driver", "ready") /\ child' = "up" /\ UNCHANGED status
       \/ Fatal /\ UNCHANGED <<member, child>>
    /\ UNCHANGED <<natsVars, setupVars, statusVars, groupVars, signals>>

\* The child ends on its own, or someone else ends it.
ChildEnds ==
    /\ child = "up"
    /\ child' \in {"exit 0", "exit 1", "killed"}
    /\ UNCHANGED <<status, natsVars, setupVars, statusVars, groupVars, memberVars>>

\* A signal to a child that was waited for is an error.
DriverSignals ==
    /\ In("f5driver", "ready") /\ Signalled("f5driver")
    /\ Goes("f5driver", IF child = "reaped" THEN "failed" ELSE "stopping")
    /\ UNCHANGED <<status, natsVars, setupVars, statusVars, groupVars, child>>

\* The child obeys: it dies of the signal, or handles it and exits.
ChildObeys ==
    /\ In("f5driver", "stopping") /\ child = "up"
    /\ child' \in {"exit 0", "exit 1", "killed"}
    /\ UNCHANGED <<status, natsVars, setupVars, statusVars, groupVars, memberVars>>

\* runBigIPDriver after the child: only a signal while the driver stops, and a
\* status of 0 at any time, are not fatal.
ChildWaitedFor ==
    /\ Running /\ child \in {"exit 0", "exit 1", "killed"}
    /\ \/ child = "exit 0"
       \/ child = "killed" /\ member["f5driver"] = "stopping"
    /\ child' = "reaped"
    /\ UNCHANGED <<status, natsVars, setupVars, statusVars, groupVars, memberVars>>

ChildFatal ==
    /\ Running
    /\ \/ child = "exit 1"
       \/ child = "killed" /\ member["f5driver"] # "stopping"
    /\ Fatal
    /\ UNCHANGED <<natsVars, setupVars, statusVars, groupVars, memberVars, child>>

DriverStops ==
    /\ In("f5driver", "stopping") /\ child = "reaped"
    /\ Goes("f5driver", "exited")
    /\ UNCHANGED <<status, natsVars, setupVars, statusVars, groupVars, signals, child>>
-----------------------------------------------------------------------------
Members ==
    \/ \E m \in Fetchers : FetcherRuns(m)
    \/ SubscriberStarts \/ subscribeRoutes \/ SubscriberRuns
    \/ ControllerStarts \/ ControllerStops
    \/ RouterRuns
    \/ DriverStarts \/ DriverSignals \/ ChildObeys \/ ChildWaitedFor \/ ChildFatal
    \/ DriverStops

\* What the code does by itself.
Code ==
    \/ Setup
    \/ orderedStart \/ Interrupted \/ stop
    \/ Members
    \/ Callbacks /\ UNCHANGED <<setupVars, statusVars, groupVars, memberVars, child>>

\* What it has no influence on.
Environment ==
    \/ OsSignal
    \/ ChildEnds
    \/ pruneStaleDroplets
    \/ RouterFetches
    \/ Client /\ UNCHANGED <<setupVars, statusVars, groupVars, memberVars, child>>

Next == Code \/ Environment

Spec == Init /\ [][Next]_vars

\* The Go scheduler runs every goroutine that can go on, calls to other systems
\* return, those that RouterFetches makes excepted, and the child obeys a signal.  No step of Code can be repeated for
\* ever, so one condition of weak fairness covers them all.
FairSpec == Spec /\ WF_vars(Code)
-----------------------------------------------------------------------------
Outcome == {"running", "fatal", "panic", "killed", "exit 0", "exit 1"}

ProcessTypeOK ==
    /\ status \in Outcome /\ NatsTypeOK
    /\ main \in {"config", "nats", "natsHost", "routing api", "router group", "f5router",
                 "members", "controller", "group", "wait"}
    /\ attempts \in 0 .. 3 /\ client \in BOOLEAN
    /\ listener \in {"none", "open", "closed"} /\ heartbeatOK \in BOOLEAN
    /\ \A m \in Member : member[m] \in {"none", "starting", "greet", "routes", "delay",
          "broker data group", "ready", "draining", "stopping", "exited", "failed"}
    /\ signals \subseteq Member
    /\ group \in {"none", "starting", "running", "stopping"} /\ at \in 0 .. Cardinality(Member)
    /\ signalled \in BOOLEAN /\ terminating \in BOOLEAN
    /\ child \in {"none", "up", "exit 0", "exit 1", "killed", "reaped"}

\* While /health answers that all is well the subscriber and the fetchers of the
\* routing mode are at work, during start-up and shutdown too: heartbeatOK is set
\* once and never reset, and only the order in which the group stops its members
\* keeps the answer true (Controller.Run and Stop, main's list of members).  The
\* exception is a connection that was accepted before a shutdown closed the
\* listener: it is answered yes until the process ends.
HealthyMeansListening ==
    Healthy =>
       \/ \A m \in Range(members) \cap (Fetchers \cup {"subscriber"}) : member[m] = "ready"
       \/ listener = "closed" /\ group = "stopping" /\ member["controller"] = "exited"

\* A member that runs finds what it depends on: a fetcher the client of the routing
\* API, the router's worker the registrations of the start response delay (the
\* comment on the controller in main), the driver's process a router that
\* writes its file, until that process is gone.
DependenciesMet ==
    /\ \A m \in Fetchers : member[m] # "none" => client
    /\ member["f5router"] = "ready" => heartbeatOK
    /\ Running /\ child = "up" => member["f5router"] = "ready"

\* The router waits for a data group.
Fetching == Running /\ member["f5router"] \in {"starting", "broker data group"}

\* A process that is told to stop ends, whatever it was doing: setting up, waiting
\* for a member to get ready, running, reconnecting to NATS (main, the Run of every
\* member).  Two things can keep it for ever: a BIG-IP that does not answer while
\* the router fetches a data group, and a NATS client whose channel of callbacks
\* stays full.
ShutdownCompletes == <>[]Fetching \/ <>[]Blocked \/ (terminating ~> ~Running)

\* With a subscriber, every callback of the NATS client returns in the end, or the
\* process ends: each reconnection is followed by a start message, and a closed
\* connection is fatal as ClosedCB wants it (natsOptions, Subscriber.Run); unless
\* so many callbacks pile up behind one that the client blocks with its lock held.
\* With TCP routes only, nobody receives from startMsgChan, and neither holds.
CallbacksServed ==
    \/ <>[]Blocked
    \/ c.RoutingMode # "TCP" /\ (sending \o ach # <<>> \/ callback # "none")
          ~> ~Running \/ (sending \o ach = <<>> /\ callback = "none")
=============================================================================
