----------------------------- MODULE Subscriber -----------------------------
(***************************************************************************)
(* The subscriber (mbus/subscriber.go) between the applications that       *)
(* announce themselves over NATS and the registry.  One subscription,      *)
(* "router.*", carries both kinds of message in order, through a queue in  *)
(* the NATS client that drops what it cannot hold; its callback registers  *)
(* the URIs of a message one after the other, so pruning and outages fall  *)
(* between them.                                                           *)
(***************************************************************************)
EXTENDS RouteRegistry

CONSTANTS
    App,               \* application instances: [uris, endpoint, group, https] records
    routerGroupGuid,   \* the subscriber's own group, or ""
    PendingLimit       \* SetPendingLimits; 131072 messages in the code

ASSUME SubscriberAssumption ==
    /\ \A app \in App :
          /\ app.uris \in Seq(Path)
          /\ \A i \in DOMAIN app.uris : <<app.uris[i], app.endpoint>> \in Registration
    /\ PendingLimit \in Nat \ {0}

VARIABLES
    running,    \* the applications that run
    pending,    \* messages in the client's queue
    handling,   \* the message the callback is busy with, cut to the URIs left
    timer       \* history: the timer that fired last, "clock" or "pruning"

messageVars == <<pending, handling>>
subscriberVars == <<running, messageVars, timer>>

Message == [subject : {"router.register", "router.unregister"}, app : App]

NoMessage == [subject |-> "none", uris |-> <<>>]

SubscriberInit ==
    /\ Init
    /\ running = {} /\ pending = <<>> /\ handling = NoMessage /\ timer = "clock"

-----------------------------------------------------------------------------
(***************************************************************************)
(* Applications and NATS.  A message published during an outage is lost,   *)
(* and so is one that finds the queue full.                                *)
(***************************************************************************)
Publish(subject, app) ==
    pending' = IF natsUp /\ Len(pending) < PendingLimit
               THEN Append(pending, [subject |-> subject, app |-> app])
               ELSE pending

AppStarts(app) ==
    /\ app \notin running
    /\ running' = running \cup {app}
    /\ Publish("router.register", app)
    /\ UNCHANGED <<vars, handling, timer>>

\* Applications repeat themselves, and answer a start message in the same way.
AppRepeats(app) ==
    /\ app \in running
    /\ Publish("router.register", app)
    /\ UNCHANGED <<vars, running, handling, timer>>

AppStops(app) ==
    /\ app \in running
    /\ running' = running \ {app}
    /\ Publish("router.unregister", app)
    /\ UNCHANGED <<vars, handling, timer>>

\* The application dies, or its host does: nobody unregisters it.
AppCrashes(app) ==
    /\ app \in running
    /\ running' = running \ {app}
    /\ UNCHANGED <<vars, messageVars, timer>>

-----------------------------------------------------------------------------
(***************************************************************************)
(* The callback of subscribeRoutes                                         *)
(***************************************************************************)
ValidateMessage(app) == app.https

\* Variant of SameGroup that takes messages of every group.
AnyGroup(app) == TRUE

\* handleRouteRegister and handleRouteUnregsiter: without a group of its own the
\* router takes the messages that name none.
SameGroup(app) == app.group = routerGroupGuid

\* A message without URIs is not looped over.
createRegistryMessage(msg) ==
    IF ValidateMessage(msg.app) /\ SameGroup(msg.app) /\ msg.app.uris # <<>>
    THEN [subject |-> msg.subject, uris |-> msg.app.uris, endpoint |-> msg.app.endpoint]
    ELSE NoMessage

Receive ==
    /\ handling.uris = <<>> /\ pending # <<>>
    /\ handling' = createRegistryMessage(Head(pending))
    /\ pending' = Tail(pending)
    /\ UNCHANGED <<vars, running, timer>>

\* Variant of NextUri that handles the first URI only.
NextUriOnly == NoMessage

\* The rest of the message, once the call for its first URI has returned.
NextUri ==
    IF Len(handling.uris) = 1 THEN NoMessage ELSE [handling EXCEPT !.uris = Tail(@)]

registerEndpoint ==
    /\ handling.subject = "router.register"
    /\ Register(Head(handling.uris), handling.endpoint)
    /\ handling' = NextUri
    /\ UNCHANGED <<running, pending, timer>>

\* Unregister does nothing about a route it does not find.
unregisterEndpoint ==
    /\ handling.subject = "router.unregister"
    /\ IF Finds(byURI, Head(handling.uris))
       THEN Unregister(Head(handling.uris), handling.endpoint)
       ELSE UNCHANGED vars
    /\ handling' = NextUri
    /\ UNCHANGED <<running, pending, timer>>

-----------------------------------------------------------------------------
Timers ==
    \/ pruneStaleDroplets /\ timer' = "pruning"
    \/ Tick /\ timer' = "clock"

SubscriberNext ==
    \/ \E app \in App :
          AppStarts(app) \/ AppRepeats(app) \/ AppStops(app) \/ AppCrashes(app)
    \/ Receive
    \/ registerEndpoint
    \/ unregisterEndpoint
    \/ Timers /\ UNCHANGED <<running, messageVars>>
    \/ NatsStatus /\ UNCHANGED subscriberVars

allVars == <<vars, subscriberVars>>

SubscriberSpec == SubscriberInit /\ [][SubscriberNext]_allVars

\* Time passes and the pruning goroutine never ends; the callback returns from
\* every message and takes the next; and an application that keeps running
\* repeats itself for ever, and does not find the queue full each time.
Fairness ==
    /\ []<>(timer = "clock") /\ []<>(timer = "pruning")
    /\ []<>(handling = NoMessage)
    /\ WF_allVars(Receive)
    /\ \A app \in App : SF_allVars(AppRepeats(app))

FairSubscriberSpec == SubscriberSpec /\ Fairness

-----------------------------------------------------------------------------
\* The members of the registry that an application stands for.
MembersOf(app) == {<<app.uris[i], app.endpoint.addr>> : i \in DOMAIN app.uris}

Accepted == {app \in App : app.https /\ app.group = routerGroupGuid}

\* Once NATS stays up, each URI of an application that keeps running is registered
\* again and again, and the URIs of one that is gone for good, unregistered or not,
\* are gone for good too, whatever was lost in the queue or during the outage
\* (registerEndpoint, unregisterEndpoint, pruneStaleDroplets).
RegistryFollowsApps ==
    <>[]natsUp =>
       \A app \in Accepted : \A m \in MembersOf(app) :
          /\ <>[](app \in running) => []<>(m \in Members)
          /\ <>[](app \notin running) => <>[](m \notin Members)

\* No application of another group, and none whose route service is not https, is
\* ever registered, and the router hears of none (registerWithRouterGroup,
\* registerRoute, createRegistryMessage).
OnlyAcceptedApps == told \subseteq UNION {MembersOf(app) : app \in Accepted}
=============================================================================
