---------------------------- MODULE RouteFetcher ----------------------------
(***************************************************************************)
(* A route fetcher (routefetcher/route_fetcher.go) and the routing API it  *)
(* follows.  Two goroutines share it: "run", the loop of Run, polls the    *)
(* API and handles events, and "events", which startEventCycle starts,     *)
(* subscribes to the API's event stream, fetches all routes once more and  *)
(* passes the events on through a channel.  Both call FetchRoutes, and     *)
(* both read and assign the list endpoints without a lock.                 *)
(*                                                                         *)
(* FetchRoutes and HandleEvent end in calls to a store of routes.  This    *)
(* module has the control of the goroutines and says which call comes      *)
(* next; a module that extends it makes the call.  A snapshot lists the    *)
(* routes in an order of the API's own, so any call of a loop may be next. *)
(***************************************************************************)
EXTENDS Integers, Sequences, Maps

CONSTANTS
    Route,       \* what routeEquals tells apart
    Guid,        \* guids of modification tags, a new one for each change of the API;
                 \* bound: there are as many changes as guids
    MaxEvents,   \* bound: the events of a stream that wait to be read
    ChannelSize  \* the capacity of eventChannel; 1024 in the code

ASSUME FetcherAssumption ==
    /\ Guid \in Seq(STRING)
    /\ MaxEvents \in Nat \ {0} /\ ChannelSize \in Nat

VARIABLES
    api,              \* the routes of the routing API, each with its tag
    changes,          \* how often the API has changed so far
    stream,           \* the event stream: whether it is open, and what waits in it
    accepted,         \* whether the API accepts the token that is cached
    pc,               \* where each goroutine is
    work,             \* the snapshot each goroutine applies, and the calls left
    endpoints,        \* the last snapshot applied
    eventChannel,
    held,             \* the event the event goroutine is sending
    forceUpdate,
    eventSource,      \* the stored source: "none", "current" or an "old" one
    stopEventSource

apiVars == <<api, changes, stream>>
tokenVars == <<accepted, forceUpdate>>
fetchVars == <<work, endpoints>>
eventVars == <<eventChannel, held, eventSource, stopEventSource>>
runVars == <<pc, fetchVars, eventVars, forceUpdate>>
fetcherVars == <<apiVars, accepted, runVars>>

Goroutine == {"run", "events"}

VersionTag == UNION {[guid : {Guid[i]}, index : 0 .. Len(Guid) - i] : i \in DOMAIN Guid}

NoStream == [open |-> FALSE, events |-> <<>>]

Idle == [snapshot |-> EmptyMap, calls |-> {}]

NoEvent == [action |-> "none"]

FetcherInit ==
    /\ api = EmptyMap /\ changes = 0 /\ stream = NoStream /\ accepted = TRUE
    /\ pc = [g \in Goroutine |-> IF g = "run" THEN "select" ELSE "token"]
    /\ work = [g \in Goroutine |-> Idle]
    /\ endpoints = EmptyMap
    /\ eventChannel = <<>> /\ held = NoEvent
    /\ forceUpdate = FALSE /\ eventSource = "none" /\ stopEventSource = FALSE

Goto(g, label) == pc' = [pc EXCEPT ![g] = label]
-----------------------------------------------------------------------------
(***************************************************************************)
(* The routing API.  A route that is created gets a new guid, one that     *)
(* changes the next index.  Whoever is subscribed hears of it, unless the  *)
(* stream breaks first.                                                    *)
(***************************************************************************)
Emit(action, r, tag) ==
    /\ stream.open => Len(stream.events) < MaxEvents
    /\ stream' = IF stream.open
                 THEN [stream EXCEPT !.events =
                          Append(@, [action |-> action, route |-> r, tag |-> tag])]
                 ELSE stream

Changed ==
    /\ changes < Len(Guid)
    /\ changes' = changes + 1
    /\ UNCHANGED <<tokenVars, fetchVars, eventVars, pc>>

ApiUpserts(r) ==
    LET tag == IF r \in DOMAIN api THEN [api[r] EXCEPT !.index = @ + 1]
                                   ELSE [guid |-> Guid[changes + 1], index |-> 0]
    IN  /\ Changed
        /\ api' = Put(api, r, tag)
        /\ Emit("Upsert", r, tag)

ApiDeletes(r) ==
    /\ r \in DOMAIN api
    /\ Changed
    /\ api' = Drop(api, r)
    /\ Emit("Delete", r, api[r])

\* The connection is lost, and with it the events that were not read.
StreamBreaks ==
    /\ stream.open
    /\ stream' = NoStream
    /\ UNCHANGED <<tokenVars, fetchVars, eventVars, api, changes, pc>>

\* The API stops accepting the token in use.
TokenExpires ==
    /\ accepted
    /\ accepted' = FALSE
    /\ UNCHANGED <<apiVars, fetchVars, eventVars, pc, forceUpdate>>
-----------------------------------------------------------------------------
(***************************************************************************)
(* FetchRoutes, on either goroutine                                        *)
(***************************************************************************)
Returned(g) == IF g = "run" THEN "select" ELSE "store"

\* No token, or an error other than "unauthorized", or "unauthorized" twice.
FetchRoutesFails(g) ==
    /\ pc[g] = "fetch"
    /\ Goto(g, Returned(g))
    /\ UNCHANGED <<apiVars, tokenVars, fetchVars, eventVars>>

\* The API answers, after a second attempt with a new token if the cached one is
\* refused.  What it answers may be out of date at once.
FetchRoutesReturns(g) ==
    /\ pc[g] = "fetch"
    /\ accepted' = TRUE
    /\ work' = [work EXCEPT ![g].snapshot = api]
    /\ Goto(g, "diff")
    /\ UNCHANGED <<apiVars, eventVars, endpoints, forceUpdate>>

\* The rows of routes m whose route is in S
Rows(m, S) == {<<r, m[r]>> : r \in DOMAIN m \cap S}

\* What the last snapshot had and this one lacks is to be deleted, under the tag
\* the last snapshot had for it.
deleteEndpointsDiff(g) ==
    /\ pc[g] = "diff"
    /\ work' = [work EXCEPT ![g].calls =
                   Rows(endpoints, Route \ DOMAIN work[g].snapshot)]
    /\ Goto(g, "delete")
    /\ UNCHANGED <<apiVars, tokenVars, eventVars, endpoints>>

\* The next Delete of deleteEndpoints, or the next Upsert of refreshEndpoints
Call(g, label, row) ==
    /\ pc[g] = label
    /\ work' = [work EXCEPT ![g].calls = @ \ {row}]
    /\ UNCHANGED <<apiVars, tokenVars, eventVars, pc, endpoints>>

\* Variant of endpointsAssigned that keeps the old list.
endpointsKept(g) ==
    /\ pc[g] = "delete" /\ work[g].calls = {}
    /\ endpoints' = IF endpoints = EmptyMap THEN work[g].snapshot ELSE endpoints
    /\ work' = [work EXCEPT ![g] = Idle]
    /\ Goto(g, "range")
    /\ UNCHANGED <<apiVars, tokenVars, eventVars>>

endpointsAssigned(g) ==
    /\ pc[g] = "delete" /\ work[g].calls = {}
    /\ endpoints' = work[g].snapshot
    /\ work' = [work EXCEPT ![g] = Idle]
    /\ Goto(g, "range")
    /\ UNCHANGED <<apiVars, tokenVars, eventVars>>

\* The loop of Upserts is over the list as it is now: the other goroutine may
\* have assigned it in between.
endpointsRange(g) ==
    /\ pc[g] = "range"
    /\ work' = [work EXCEPT ![g].calls = Rows(endpoints, Route)]
    /\ Goto(g, "upsert")
    /\ UNCHANGED <<apiVars, tokenVars, eventVars, endpoints>>

FetchRoutesDone(g) ==
    /\ pc[g] = "upsert" /\ work[g].calls = {}
    /\ Goto(g, Returned(g))
    /\ UNCHANGED <<apiVars, tokenVars, fetchVars, eventVars>>
-----------------------------------------------------------------------------
(***************************************************************************)
(* The event goroutine                                                     *)
(***************************************************************************)

\* A token is fetched; a new one, if the last was refused.  After an error the
\* goroutine tries again at once.
FetchToken ==
    /\ pc["events"] = "token"
    /\ accepted' = (accepted \/ forceUpdate)
    /\ Goto("events", IF stopEventSource THEN "stopped" ELSE "subscribe")
    /\ UNCHANGED <<apiVars, fetchVars, eventVars, forceUpdate>>

\* The end of a subscription: the cycle starts over, after a pause.
Again == IF stopEventSource THEN "stopped" ELSE "token"

SubscribeFails ==
    /\ pc["events"] = "subscribe"
    /\ forceUpdate' \in {FALSE, ~accepted}
    /\ Goto("events", Again)
    /\ UNCHANGED <<apiVars, fetchVars, eventVars, accepted>>

\* From here on the API sends events; what they announce may already be in the
\* snapshot that is fetched next.
Subscribe ==
    /\ pc["events"] = "subscribe" /\ accepted
    /\ stream' = [open |-> TRUE, events |-> <<>>]
    /\ eventSource' = IF eventSource = "current" THEN "old" ELSE eventSource
    /\ Goto("events", "fetch")
    /\ UNCHANGED <<tokenVars, fetchVars, api, changes, eventChannel, held,
                   stopEventSource>>

\* Only from here on a signal finds the source to close it.
StoreSource ==
    /\ pc["events"] = "store"
    /\ eventSource' = "current"
    /\ Goto("events", "next")
    /\ UNCHANGED <<apiVars, tokenVars, fetchVars, eventChannel, held,
                   stopEventSource>>

\* source.Next: an event, or an error once the stream is closed.
NextEvent ==
    /\ pc["events"] = "next"
    /\ IF stream.open
       THEN /\ stream.events # <<>>
            /\ held' = Head(stream.events)
            /\ stream' = [stream EXCEPT !.events = Tail(@)]
            /\ Goto("events", "send")
            /\ UNCHANGED forceUpdate
       ELSE /\ forceUpdate' = FALSE
            /\ Goto("events", Again)
            /\ UNCHANGED <<stream, held>>
    /\ UNCHANGED <<fetchVars, api, changes, accepted, eventChannel, eventSource,
                   stopEventSource>>

\* Variant of SendEvent that does not wait for room.
SendAnyway ==
    /\ pc["events"] = "send"
    /\ eventChannel' = Append(eventChannel, held)
    /\ held' = NoEvent
    /\ Goto("events", "next")
    /\ UNCHANGED <<apiVars, tokenVars, fetchVars, eventSource, stopEventSource>>

SendEvent ==
    /\ pc["events"] = "send" /\ Len(eventChannel) < ChannelSize
    /\ eventChannel' = Append(eventChannel, held)
    /\ held' = NoEvent
    /\ Goto("events", "next")
    /\ UNCHANGED <<apiVars, tokenVars, fetchVars, eventSource, stopEventSource>>

-----------------------------------------------------------------------------
(***************************************************************************)
(* The loop of Run                                                         *)
(***************************************************************************)
Poll ==
    /\ pc["run"] = "select"
    /\ Goto("run", "fetch")
    /\ UNCHANGED <<apiVars, tokenVars, fetchVars, eventVars>>

\* An event is taken out of the channel; HandleEvent makes one call for it.
ReceiveEvent ==
    /\ pc["run"] = "select" /\ eventChannel # <<>>
    /\ eventChannel' = Tail(eventChannel)
    /\ UNCHANGED <<apiVars, tokenVars, fetchVars, pc, held, eventSource,
                   stopEventSource>>

Signalled ==
    /\ pc["run"] = "select"
    /\ stopEventSource' = TRUE
    /\ stream' = IF eventSource = "current" THEN NoStream ELSE stream
    /\ Goto("run", "stopped")
    /\ UNCHANGED <<tokenVars, fetchVars, api, changes, eventChannel, held,
                   eventSource>>
-----------------------------------------------------------------------------
\* The steps that call no store
FetchSteps(g) ==
    \/ FetchRoutesFails(g) \/ FetchRoutesReturns(g) \/ deleteEndpointsDiff(g)
    \/ endpointsAssigned(g) \/ endpointsRange(g) \/ FetchRoutesDone(g)

EventSteps ==
    \/ FetchToken \/ SubscribeFails \/ Subscribe \/ StoreSource \/ NextEvent
    \/ SendEvent

ApiSteps ==
    \/ \E r \in Route : ApiUpserts(r) \/ ApiDeletes(r)
    \/ StreamBreaks
    \/ TokenExpires

ControlSteps ==
    \/ \E g \in Goroutine : FetchSteps(g)
    \/ EventSteps
    \/ Poll
    \/ Signalled
    \/ ApiSteps

FetcherTypeOK ==
    /\ IsMap(api, Route, VersionTag) /\ IsMap(endpoints, Route, VersionTag)
    /\ changes \in 0 .. Len(Guid)
    /\ stream.open \in BOOLEAN /\ Len(stream.events) \in 0 .. MaxEvents
    /\ pc["run"] \in {"select", "fetch", "diff", "delete", "range",
                      "upsert", "stopped"}
    /\ pc["events"] \in {"token", "subscribe", "fetch", "diff", "delete",
                         "range", "upsert", "store", "next", "send", "stopped"}
    /\ \A g \in Goroutine : /\ IsMap(work[g].snapshot, Route, VersionTag)
                            /\ work[g].calls \subseteq Route \X VersionTag
    /\ Len(eventChannel) \in 0 .. ChannelSize
    /\ accepted \in BOOLEAN /\ forceUpdate \in BOOLEAN /\ stopEventSource \in BOOLEAN
    /\ eventSource \in {"none", "current", "old"}
=============================================================================
