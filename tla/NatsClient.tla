----------------------------- MODULE NatsClient -----------------------------
(***************************************************************************)
(* The connection to NATS and the callbacks that natsOptions (main.go)     *)
(* installs on it.  The client queues its callbacks in a channel and runs  *)
(* them one after the other on one goroutine, so a callback that blocks    *)
(* holds up all that follow.  It sends to that channel while it holds its  *)
(* lock, nc.mu: once the channel is full, every call of the client waits,  *)
(* those of the callback that should make room included.                   *)
(***************************************************************************)
EXTENDS Integers, Sequences

CONSTANTS
    asyncCBChanSize,   \* room in the client's queue of callbacks; 32 in the code
    MaxOutages         \* bound: how often the connection breaks

ASSUME NatsAssumption == asyncCBChanSize \in Nat /\ asyncCBChanSize >= 2 /\ MaxOutages \in Nat

VARIABLES
    status,       \* of the process: "running", or how it ended
    connection,   \* nats.Conn's status: "none", "connected", "reconnecting" or "closed"
    sending,      \* what the holder of nc.mu has still to send to ach; empty: nobody
                  \* holds it
    ach,          \* the callbacks that wait
    callback,     \* where the one that runs is: "none", "connectedChan", "connectedUrl"
                  \* or "startMsg"
    calls,        \* calls of the client in progress: the subscriber's "start message",
                  \* the "status" that a tick of the pruning cycle asks for
    waiters,      \* goroutines that receive from connectedChan
    natsHost,     \* natsHost has a value
    outages       \* history: how often the connection broke

natsVars == <<connection, sending, ach, callback, calls, waiters, natsHost, outages>>

NatsInit ==
    /\ connection = "none" /\ sending = <<>> /\ ach = <<>>
    /\ callback = "none" /\ calls = {}
    /\ waiters = 0 /\ natsHost = FALSE /\ outages = 0

Running == status = "running"

\* logger.Fatal and panic end the process where it stands.
Fatal == status' = "fatal"
Panics == status' = "panic"
-----------------------------------------------------------------------------
(***************************************************************************)
(* The client.  MaxReconnect is -1: it never gives a server up, and closes *)
(* the connection only when a server refuses it.                           *)
(***************************************************************************)
Free == sending = <<>>

\* Takes nc.mu, and keeps it until the callbacks are sent.
Holds(callbacks) == Free /\ sending' = callbacks

\* The holder of nc.mu waits for room in the channel.
Sends ==
    /\ Running /\ ~Free /\ Len(ach) < asyncCBChanSize
    /\ ach' = Append(ach, Head(sending))
    /\ sending' = Tail(sending)
    /\ UNCHANGED <<status, connection, callback, calls, waiters, natsHost, outages>>

Disconnects ==
    /\ Running /\ connection = "connected" /\ outages < MaxOutages
    /\ connection' = "reconnecting"
    /\ outages' = outages + 1
    /\ Holds(<<"DisconnectedCB">>)
    /\ UNCHANGED <<status, ach, callback, calls, waiters, natsHost>>

doReconnect ==
    /\ Running /\ connection = "reconnecting"
    /\ connection' = "connected"
    /\ Holds(<<"ReconnectedCB">>)
    /\ UNCHANGED <<status, ach, callback, calls, waiters, natsHost, outages>>

Closes ==
    /\ Running /\ connection = "connected" /\ outages < MaxOutages
    /\ connection' = "closed"
    /\ outages' = outages + 1
    /\ Holds(<<"DisconnectedCB", "ClosedCB", "closeAsyncFunc">>)
    /\ UNCHANGED <<status, ach, callback, calls, waiters, natsHost>>

\* Publish or Status gets nc.mu and returns; an error is only logged.
Returns(call) ==
    /\ Running /\ call \in calls /\ Free
    /\ calls' = calls \ {call}
    /\ UNCHANGED <<status, connection, sending, ach, callback, waiters, natsHost, outages>>
-----------------------------------------------------------------------------
(***************************************************************************)
(* The callbacks                                                           *)
(***************************************************************************)
asyncDispatch(name) ==
    /\ Running /\ callback = "none"
    /\ ach # <<>> /\ Head(ach) = name
    /\ ach' = Tail(ach)

\* Fatal, before closeAsyncFunc gets its turn.
ClosedCB ==
    /\ asyncDispatch("ClosedCB")
    /\ Fatal
    /\ UNCHANGED <<connection, sending, callback, calls, waiters, natsHost, outages>>

\* Variant of DisconnectedCB that starts no goroutine.
DisconnectedCBAlone ==
    /\ asyncDispatch("DisconnectedCB")
    /\ IF natsHost THEN UNCHANGED status ELSE Panics
    /\ UNCHANGED <<connection, sending, callback, calls, waiters, natsHost, outages>>

\* natsHost is read before anything is stored there if the connection breaks
\* between the return of Connect and the end of connectToNatsServer.
DisconnectedCB ==
    /\ asyncDispatch("DisconnectedCB")
    /\ IF natsHost
       THEN waiters' = waiters + 1 /\ UNCHANGED status
       ELSE Panics /\ UNCHANGED waiters
    /\ UNCHANGED <<connection, sending, callback, calls, natsHost, outages>>

ReconnectedCB ==
    /\ asyncDispatch("ReconnectedCB")
    /\ callback' = "connectedChan"
    /\ UNCHANGED <<status, connection, sending, calls, waiters, natsHost, outages>>

\* One of the goroutines receives and ends.
connectedChan ==
    /\ Running /\ callback = "connectedChan" /\ waiters > 0
    /\ waiters' = waiters - 1
    /\ callback' = "connectedUrl"
    /\ UNCHANGED <<status, connection, sending, ach, calls, natsHost, outages>>

\* ConnectedUrl takes nc.mu; the new host is stored.
connectedUrl ==
    /\ Running /\ callback = "connectedUrl" /\ Free
    /\ natsHost' = TRUE
    /\ callback' = "startMsg"
    /\ UNCHANGED <<status, connection, sending, ach, calls, waiters, outages>>

\* The subscriber receives what the callback sends, and publishes a start message.
startMsgReceived ==
    /\ callback = "startMsg"
    /\ callback' = "none"
    /\ calls' = calls \cup {"start message"}
    /\ UNCHANGED <<connection, sending, ach, waiters, natsHost, outages>>

Client == Disconnects \/ doReconnect \/ Closes

Callbacks ==
    \/ Sends \/ (\E call \in calls : Returns(call))
    \/ ClosedCB \/ DisconnectedCB \/ ReconnectedCB \/ connectedChan \/ connectedUrl

\* The channel is full, and who waits for room holds nc.mu.
Blocked == Running /\ ~Free /\ Len(ach) = asyncCBChanSize

Callback == {"DisconnectedCB", "ReconnectedCB", "ClosedCB", "closeAsyncFunc"}

NatsTypeOK ==
    /\ connection \in {"none", "connected", "reconnecting", "closed"}
    /\ sending \in Seq(Callback) /\ ach \in Seq(Callback) /\ Len(ach) <= asyncCBChanSize
    /\ callback \in {"none", "connectedChan", "connectedUrl", "startMsg"}
    /\ calls \subseteq {"start message", "status"}
    /\ waiters \in 0 .. MaxOutages /\ natsHost \in BOOLEAN /\ outages \in 0 .. MaxOutages
=============================================================================
