--------------------------- MODULE F5RouterProofs ---------------------------
(***************************************************************************)
(* The work queue, the resource maps and the file of F5Router, for any     *)
(* routes, endpoints, plans and data groups and for a queue of any length; *)
(* and that the router's steps are steps of Tier2VS, so that what is       *)
(* proved there holds in the router; and what the pools hold: no member    *)
(* twice, and the monitors of the plan they name.                          *)
(***************************************************************************)
EXTENDS F5ResourceProofs

(***************************************************************************)
(* The work queue: its methods keep QueueOK, for any items and for a queue *)
(* of any length                                                           *)
(***************************************************************************)

\* Add queues an item that is neither dirty nor being processed, and only then, so
\* that a producer cannot queue one twice (Add of workqueue/queue.go).
LEMMA AddKeepsQueue ==
    ASSUME QueueTypeOK, QueueOK, NEW i \in Item, Add(i)
    PROVE  QueueTypeOK' /\ QueueOK' /\ UNCHANGED processing
<1>1. CASE UNCHANGED queueVars
  BY <1>1 DEF queueVars, QueueTypeOK, QueueOK
<1>2. CASE /\ Accepts(i)
           /\ dirty' = dirty \cup Key(i)
           /\ queue' = IF i \in processing THEN queue ELSE Append(queue, i)
           /\ UNCHANGED <<processing, shuttingDown>>
  <2>1. QueueTypeOK'
    BY <1>2 DEF QueueTypeOK, Key
  <2>2. CASE i \in processing
    <3>1. i \in Hashed /\ dirty' = dirty \cup {i}
      BY <1>2, <2>2 DEF QueueTypeOK, Key
    <3> QED
      BY <1>2, <2>1, <2>2, <3>1 DEF QueueTypeOK, QueueOK
  <2>3. CASE i \notin processing
    <3>1. /\ queue' = Append(queue, i) /\ i \notin dirty
          /\ i \in Hashed => dirty' = dirty \cup {i}
          /\ i \notin Hashed => dirty' = dirty
      BY <1>2, <2>3 DEF Key, Accepts
    <3>2. /\ DOMAIN queue = 1 .. Len(queue) /\ DOMAIN queue' = 1 .. Len(queue) + 1
          /\ Len(queue) \in Nat
          /\ \A k \in 1 .. Len(queue) : queue'[k] = queue[k]
          /\ queue'[Len(queue) + 1] = i
      BY <3>1 DEF QueueTypeOK
    <3>3. \A k \in DOMAIN queue' :
             queue'[k] \in Hashed => queue'[k] \in dirty' /\ queue'[k] \notin processing'
      BY <1>2, <2>3, <3>1, <3>2 DEF QueueOK
    <3>4. \A j, k \in DOMAIN queue' :
             queue'[j] \in Hashed /\ queue'[j] = queue'[k] => j = k
      BY <3>1, <3>2 DEF QueueOK
    <3>5. \A x \in dirty' : x \in processing' \/ \E k \in DOMAIN queue' : queue'[k] = x
      <4> SUFFICES ASSUME NEW x \in dirty', x \notin processing'
                   PROVE  \E k \in DOMAIN queue' : queue'[k] = x
        OBVIOUS
      <4>1. CASE x = i
        BY <3>2, <4>1
      <4>2. CASE x \in dirty
        <5>1. PICK k \in DOMAIN queue : queue[k] = x
          BY <1>2, <4>2 DEF QueueOK
        <5> QED
          BY <3>2, <5>1
      <4> QED
        BY <3>1, <4>1, <4>2
    <3> QED
      BY <1>2, <2>1, <3>3, <3>4, <3>5 DEF QueueOK
  <2> QED
    BY <1>2, <2>2, <2>3
<1> QED
  BY <1>1, <1>2 DEF Add, queueVars

\* Get moves the item at the head from the dirty set to the processing set; no
\* other place in the queue holds it (Get of workqueue/queue.go).
LEMMA GetKeepsQueue ==
    ASSUME QueueTypeOK, QueueOK, Get
    PROVE  /\ QueueTypeOK' /\ QueueOK'
           /\ Head(queue) \in Item
           /\ Head(queue) \in Hashed => Head(queue) \in processing'
<1> DEFINE h == Head(queue)
<1>1. /\ queue \in Seq(Item) /\ queue # <<>> /\ queue' = Tail(queue)
      /\ processing' = processing \cup ({h} \cap Hashed)
      /\ dirty' = dirty \ ({h} \cap Hashed)
  BY DEF QueueTypeOK, Get, Key
<1>2. /\ Len(queue) \in Nat /\ Len(queue) > 0
      /\ DOMAIN queue = 1 .. Len(queue) /\ DOMAIN queue' = 1 .. Len(queue) - 1
      /\ \A k \in DOMAIN queue' : k + 1 \in DOMAIN queue /\ queue'[k] = queue[k + 1]
      /\ 1 \in DOMAIN queue /\ h = queue[1] /\ h \in Item
  BY <1>1
<1>3. QueueTypeOK'
  BY <1>1, <1>2 DEF QueueTypeOK, Get
<1>4. \A k \in DOMAIN queue' : queue'[k] \in Hashed => queue'[k] # h
  <2> SUFFICES ASSUME NEW k \in DOMAIN queue', queue'[k] \in Hashed, queue'[k] = h
               PROVE  FALSE
    OBVIOUS
  <2>1. k + 1 = 1
    BY <1>2 DEF QueueOK
  <2> QED
    BY <1>2, <2>1
<1> HIDE DEF h
<1>5. \A k \in DOMAIN queue' :
         queue'[k] \in Hashed => queue'[k] \in dirty' /\ queue'[k] \notin processing'
  BY <1>1, <1>2, <1>4 DEF QueueOK
<1>6. \A j, k \in DOMAIN queue' :
         queue'[j] \in Hashed /\ queue'[j] = queue'[k] => j = k
  <2> SUFFICES ASSUME NEW j \in DOMAIN queue', NEW k \in DOMAIN queue',
                      queue'[j] \in Hashed, queue'[j] = queue'[k]
               PROVE  j = k
    OBVIOUS
  <2>1. j + 1 = k + 1
    BY <1>2 DEF QueueOK
  <2> QED
    BY <1>2, <2>1
<1>7. \A x \in dirty' : x \in processing' \/ \E k \in DOMAIN queue' : queue'[k] = x
  <2> SUFFICES ASSUME NEW x \in dirty', x \notin processing'
               PROVE  \E k \in DOMAIN queue' : queue'[k] = x
    OBVIOUS
  <2>1. x \in Hashed /\ x \in dirty /\ x # h
    BY <1>1 DEF QueueTypeOK
  <2>2. PICK k \in DOMAIN queue : queue[k] = x
    BY <1>1, <2>1 DEF QueueOK
  <2>3. k - 1 \in DOMAIN queue' /\ queue'[k - 1] = queue[k]
    BY <1>2, <2>1, <2>2
  <2> QED
    BY <2>2, <2>3
<1> QED
  BY <1>1, <1>2, <1>3, <1>5, <1>6, <1>7 DEF QueueOK, h

\* Done queues an item again that became dirty while it was processed, which was
\* therefore not in the queue (Done of workqueue/queue.go).
LEMMA DoneKeepsQueue ==
    ASSUME QueueTypeOK, QueueOK, NEW i, i \in Hashed => i \in processing, Done(i)
    PROVE  QueueTypeOK' /\ QueueOK'
<1>1. /\ processing' = processing \ Key(i)
      /\ queue' = IF i \in dirty THEN Append(queue, i) ELSE queue
      /\ UNCHANGED <<dirty, shuttingDown>>
  BY DEF Done
<1>2. \A x : x \in processing' <=> x \in processing /\ ~(x = i /\ i \in Hashed)
  BY <1>1 DEF Key
<1>3. CASE i \in dirty
  <2>1. i \in Hashed /\ i \in Item /\ i \in processing /\ i \notin processing'
    BY <1>2, <1>3, QueueAssumption DEF QueueTypeOK
  <2>2. /\ DOMAIN queue = 1 .. Len(queue) /\ DOMAIN queue' = 1 .. Len(queue) + 1
        /\ Len(queue) \in Nat
        /\ \A k \in 1 .. Len(queue) : queue'[k] = queue[k] /\ queue'[k] # i
        /\ queue'[Len(queue) + 1] = i
    BY <1>1, <1>3, <2>1 DEF QueueTypeOK, QueueOK
  <2>3. QueueTypeOK'
    BY <1>1, <1>3, <2>1 DEF QueueTypeOK
  <2>4. \A k \in DOMAIN queue' :
           queue'[k] \in Hashed => queue'[k] \in dirty' /\ queue'[k] \notin processing'
    BY <1>1, <1>2, <1>3, <2>1, <2>2 DEF QueueOK
  <2>5. \A j, k \in DOMAIN queue' :
           queue'[j] \in Hashed /\ queue'[j] = queue'[k] => j = k
    BY <2>2 DEF QueueOK
  <2>6. \A x \in dirty' : x \in processing' \/ \E k \in DOMAIN queue' : queue'[k] = x
    <3> SUFFICES ASSUME NEW x \in dirty', x \notin processing'
                 PROVE  \E k \in DOMAIN queue' : queue'[k] = x
      OBVIOUS
    <3>1. CASE x = i
      BY <2>2, <3>1
    <3>2. CASE x # i
      <4>1. x \in dirty /\ x \notin processing
        BY <1>1, <1>2, <3>2
      <4>2. PICK k \in DOMAIN queue : queue[k] = x
        BY <4>1 DEF QueueOK
      <4> QED
        BY <2>2, <4>2
    <3> QED
      BY <3>1, <3>2
  <2> QED
    BY <2>3, <2>4, <2>5, <2>6 DEF QueueOK
<1>4. CASE i \notin dirty
  <2>1. UNCHANGED <<queue, dirty, shuttingDown>>
    BY <1>1, <1>4
  <2>2. QueueTypeOK'
    BY <1>1, <2>1 DEF QueueTypeOK
  <2> QED
    BY <1>2, <1>4, <2>1, <2>2 DEF QueueOK
<1> QED
  BY <1>3, <1>4
-----------------------------------------------------------------------------
\* From Get to Done the worker's item is in the processing set, so that Done
\* queues again only what is not in the queue.
Held == pc \in {"len", "write", "done"} /\ item \in Hashed => item \in processing

\* The queue as the worker finds it.
QueueInv == QueueTypeOK /\ QueueOK /\ Held
-----------------------------------------------------------------------------
(***************************************************************************)
(* The worker and the file                                                 *)
(***************************************************************************)

WorkerTypeOK ==
    /\ pc \in {"starting", "get", "len", "write", "done", "stopped"}
    /\ item \in Item \cup {NoItem}
    /\ file \in {"none", "resources"} /\ current \in BOOLEAN /\ writeFailed \in BOOLEAN
    /\ wanted \subseteq (Uri \cup RoutePort) \X Endpoint
    /\ crossed \subseteq RoutePort \X Endpoint

\* No route is handled before Run has processed the data group.
StartsEmpty == pc = "starting" => virtuals = EmptyMap

\* The worker writes after the first drain only; and from a write to its next
\* Get, as long as the queue is empty, the file is current.
FileInv ==
    /\ pc = "write" => firstSyncDone
    /\ pc \in {"get", "done", "stopped"} /\ queue = <<>> /\ firstSyncDone /\ ~writeFailed
          => file = "resources" /\ current

WorkerInv == WorkerTypeOK /\ StartsEmpty /\ FileInv

RouterInv == Tier2Inv /\ ResourceInv /\ QueueInv /\ WorkerInv

\* What is left alone by a step keeps its part of the invariant.
LEMMA ResourcesKept ==
    ASSUME ResourceInv, UNCHANGED <<resourceVars, refused, scarred>>,
           DOMAIN virtuals' = DOMAIN virtuals
    PROVE  ResourceInv'
<1>1. UNCHANGED <<pools, profiles, tcpVirtuals, rules, monitors, unmapped, refused, scarred>>
  BY DEF resourceVars
<1> QED
  BY <1>1, Zenon DEF ResourceInv, ResourceTypeOK, Coherent

\* Run finds the maps empty, and processes the data group the way a start does.
LEMMA RunKeeps ==
    ASSUME RouterInv, NEW dg \in CachedDataGroups \cup {EmptyMap}, Run(dg)
    PROVE  ResourceInv' /\ QueueInv' /\ WorkerInv' /\ [Tier2Next]_tier2Vars
<1>1. /\ pc = "starting" /\ pc' = "get" /\ startTier2(dg)
      /\ UNCHANGED <<queue, dirty, processing, shuttingDown, item, file, current, writeFailed>>
      /\ UNCHANGED <<resourceVars, wanted, refused, scarred, crossed>>
  BY DEF Run, queueVars, fileVars, historyVars
<1>2. virtuals = EmptyMap /\ virtuals' = EmptyMap /\ firstSyncDone' = FALSE
  BY <1>1 DEF startTier2, RouterInv, WorkerInv, StartsEmpty
<1>3. ResourceInv'
  BY <1>1, <1>2, ResourcesKept DEF RouterInv
<1>4. QueueInv'
  BY <1>1 DEF RouterInv, QueueInv, QueueTypeOK, QueueOK, Held
<1>5. WorkerInv'
  BY <1>1, <1>2 DEF RouterInv, WorkerInv, WorkerTypeOK, StartsEmpty, FileInv
<1> QED
  BY <1>1, <1>3, <1>4, <1>5 DEF Tier2Next

\* Get hands the worker an item, and its handler keeps the maps in step.
LEMMA ProcessItemKeeps ==
    ASSUME RouterInv, processItem
    PROVE  ResourceInv' /\ QueueInv' /\ WorkerInv' /\ [Tier2Next]_tier2Vars
<1> DEFINE h == Head(queue)
<1>1. /\ pc = "get" /\ pc' = "len" /\ Get /\ handle(h)
      /\ item' = IF h \in Hashed THEN h ELSE NoItem
      /\ current' = (current /\ UNCHANGED writtenVars)
      /\ UNCHANGED <<file, writeFailed, wanted, crossed>>
  BY DEF processItem
<1>2. /\ QueueTypeOK' /\ QueueOK' /\ h \in Item
      /\ h \in Hashed => h \in processing'
  BY <1>1, GetKeepsQueue DEF RouterInv, QueueInv
<1> HIDE DEF h
<1>3. ResourceInv' /\ [Tier2Next]_tier2Vars
  BY <1>1, <1>2, HandleKeeps DEF RouterInv
<1>4. Held'
  <2> SUFFICES ASSUME item' \in Hashed, item' # h PROVE FALSE
    BY <1>2 DEF Held
  <2>1. NoItem \in TcpItem
    BY <1>1, RouterAssumption
  <2> QED
    BY <2>1 DEF NoItem, TcpItem
<1>5. current' \in BOOLEAN
  BY <1>1 DEF RouterInv, WorkerInv, WorkerTypeOK
<1>6. WorkerTypeOK'
  BY <1>1, <1>2, <1>5 DEF RouterInv, WorkerInv, WorkerTypeOK
<1>7. StartsEmpty' /\ FileInv'
  BY <1>1 DEF StartsEmpty, FileInv
<1> QED
  BY <1>2, <1>3, <1>4, <1>6, <1>7 DEF QueueInv, WorkerInv

\* The worker goes on to write exactly when it finds the queue empty, and then
\* the first drain has been.
LEMMA CheckDrainedKeeps ==
    ASSUME RouterInv, checkDrained
    PROVE  ResourceInv' /\ QueueInv' /\ WorkerInv' /\ [Tier2Next]_tier2Vars
<1>1. /\ pc = "len" /\ pc' = IF queue = <<>> THEN "write" ELSE "done"
      /\ IF queue = <<>> /\ ~firstSyncDone THEN truncateInternalDataGroup
                                           ELSE UNCHANGED tier2Vars
      /\ UNCHANGED <<queue, dirty, processing, shuttingDown, item, file, writeFailed>>
      /\ UNCHANGED <<resourceVars, wanted, refused, scarred, crossed>>
      /\ current' = (current /\ UNCHANGED writtenVars)
  BY DEF checkDrained, queueVars, historyVars
<1>2. UNCHANGED virtuals /\ (queue = <<>> => firstSyncDone')
  BY <1>1 DEF truncateInternalDataGroup, tier2Vars
<1>3. ResourceInv'
  BY <1>1, <1>2, ResourcesKept DEF RouterInv
<1>4. QueueInv'
  BY <1>1 DEF RouterInv, QueueInv, QueueTypeOK, QueueOK, Held
<1>5. current' \in BOOLEAN
  BY <1>1 DEF RouterInv, WorkerInv, WorkerTypeOK
<1>6. WorkerTypeOK'
  BY <1>1, <1>5 DEF RouterInv, WorkerInv, WorkerTypeOK
<1>7. StartsEmpty'
  BY <1>1 DEF StartsEmpty
<1>8. FileInv'
  <2>1. CASE queue = <<>>
    <3>1. pc' = "write" /\ firstSyncDone'
      BY <1>1, <1>2, <2>1
    <3> QED
      BY <3>1 DEF FileInv
  <2>2. CASE queue # <<>>
    <3>1. pc' = "done" /\ queue' # <<>>
      BY <1>1, <2>2
    <3> QED
      BY <3>1 DEF FileInv
  <2> QED
    BY <2>1, <2>2
<1> QED
  BY <1>1, <1>3, <1>4, <1>6, <1>7, <1>8 DEF Tier2Next, WorkerInv

\* Whatever becomes of the write, the file is current or the failure is known.
LEMMA WriteConfigKeeps ==
    ASSUME RouterInv, writeConfig
    PROVE  ResourceInv' /\ QueueInv' /\ WorkerInv' /\ [Tier2Next]_tier2Vars
<1>1. /\ pc = "write" /\ pc' = "done"
      /\ UNCHANGED <<queue, dirty, processing, shuttingDown, item, virtuals>>
      /\ UNCHANGED <<tier2Vars, resourceVars, wanted, refused, scarred, crossed>>
  BY DEF writeConfig, queueVars, historyVars, tier2Vars
<1>2. \/ file' = "resources" /\ current' = TRUE /\ writeFailed' = FALSE
      \/ UNCHANGED <<file, current>> /\ writeFailed' = TRUE
      \/ file' = "none" /\ current' = FALSE /\ writeFailed' = TRUE
  BY DEF writeConfig
<1>3. ResourceInv'
  BY <1>1, ResourcesKept DEF RouterInv
<1>4. QueueInv'
  BY <1>1 DEF RouterInv, QueueInv, QueueTypeOK, QueueOK, Held
<1>5. WorkerTypeOK'
  BY <1>1, <1>2, Zenon DEF RouterInv, WorkerInv, WorkerTypeOK
<1>6. StartsEmpty'
  BY <1>1 DEF StartsEmpty
<1>7. FileInv'
  <2>1. CASE writeFailed' = TRUE
    BY <1>1, <2>1 DEF FileInv
  <2>2. CASE file' = "resources" /\ current' = TRUE
    BY <1>1, <2>2 DEF FileInv
  <2> QED
    BY <1>2, <2>1, <2>2, Zenon
<1> QED
  BY <1>1, <1>3, <1>4, <1>5, <1>6, <1>7 DEF WorkerInv

\* Done queues the item again when it became dirty meanwhile; an empty queue
\* after it was empty before.
LEMMA FinishItemKeeps ==
    ASSUME RouterInv, finishItem
    PROVE  ResourceInv' /\ QueueInv' /\ WorkerInv' /\ [Tier2Next]_tier2Vars
<1>1. /\ pc = "done" /\ pc' = "get" /\ Done(item) /\ item' = NoItem
      /\ UNCHANGED <<tier2Vars, resourceVars, wanted, refused, scarred, crossed>>
      /\ UNCHANGED <<virtuals, firstSyncDone, file, current, writeFailed>>
  BY DEF finishItem, fileVars, historyVars, tier2Vars
<1>2. ResourceInv'
  BY <1>1, ResourcesKept DEF RouterInv
<1>3. item \in Hashed => item \in processing
  BY <1>1 DEF RouterInv, QueueInv, Held
<1>4. QueueTypeOK' /\ QueueOK'
  BY <1>1, <1>3, DoneKeepsQueue DEF RouterInv, QueueInv
<1>5. QueueInv'
  BY <1>1, <1>4 DEF QueueInv, Held
<1>6. queue' = <<>> => queue = <<>>
  <2>1. item \in dirty => item \in Item
    BY QueueAssumption DEF RouterInv, QueueInv, QueueTypeOK
  <2> QED
    BY <1>1, <2>1 DEF Done, RouterInv, QueueInv, QueueTypeOK
<1>7. WorkerTypeOK'
  BY <1>1 DEF RouterInv, WorkerInv, WorkerTypeOK
<1>8. StartsEmpty'
  BY <1>1 DEF StartsEmpty
<1>9. FileInv'
  BY <1>1, <1>6, Zenon DEF RouterInv, WorkerInv, FileInv
<1> QED
  BY <1>1, <1>2, <1>5, <1>7, <1>8, <1>9 DEF WorkerInv

\* The worker quits from where it waits.
LEMMA QuitKeeps ==
    ASSUME RouterInv, quit
    PROVE  ResourceInv' /\ QueueInv' /\ WorkerInv' /\ [Tier2Next]_tier2Vars
<1>1. /\ pc = "get" /\ pc' = "stopped"
      /\ UNCHANGED <<tier2Vars, resourceVars, wanted, refused, scarred, crossed>>
      /\ UNCHANGED <<virtuals, firstSyncDone, file, current, writeFailed>>
      /\ UNCHANGED <<queue, dirty, processing, shuttingDown, item>>
  BY DEF quit, queueVars, fileVars, historyVars, tier2Vars
<1>2. ResourceInv'
  BY <1>1, ResourcesKept DEF RouterInv
<1>3. QueueInv'
  BY <1>1 DEF RouterInv, QueueInv, QueueTypeOK, QueueOK, Held
<1>4. WorkerInv'
  BY <1>1 DEF RouterInv, WorkerInv, WorkerTypeOK, StartsEmpty, FileInv
<1> QED
  BY <1>1, <1>2, <1>3, <1>4

\* The route and endpoint of an update, and of any TCP update.
LEMMA Subjects ==
    /\ \A i \in Item : i.op \in {"Add", "Remove"}
                        => Subject(i) \in (Uri \cup RoutePort) \X Endpoint
    /\ \A j \in Hashed : Subject(j) \in RoutePort \X Endpoint
<1>1. \A j \in TcpItem : Subject(j) \in RoutePort \X Endpoint
  BY DEF TcpItem, Subject
<1>2. ASSUME NEW i \in HttpItem, i \notin TcpItem, i.op \in {"Add", "Remove"}
      PROVE  Subject(i) \in Uri \X Endpoint
  <2>1. i \in [op : {"Add", "Remove"}, uri : Uri, endpoint : Endpoint]
    BY <1>2 DEF HttpItem
  <2> QED
    BY <1>2, <2>1 DEF Subject
<1> QED
  BY <1>1, <1>2, RouterAssumption

\* UpdateRoute falls between any two steps of the worker.
LEMMA UpdateRouteKeeps ==
    ASSUME RouterInv, NEW i \in Item, UpdateRoute(i)
    PROVE  ResourceInv' /\ QueueInv' /\ WorkerInv' /\ [Tier2Next]_tier2Vars
<1>1. /\ Add(i)
      /\ UNCHANGED <<tier2Vars, resourceVars, refused, scarred>>
      /\ UNCHANGED <<pc, item, virtuals, firstSyncDone, file, current, writeFailed>>
  BY DEF UpdateRoute, fileVars, tier2Vars
<1>2. ResourceInv'
  BY <1>1, ResourcesKept DEF RouterInv
<1>3. QueueTypeOK' /\ QueueOK' /\ UNCHANGED processing
  BY <1>1, AddKeepsQueue DEF RouterInv, QueueInv
<1>4. QueueInv'
  BY <1>1, <1>3 DEF RouterInv, QueueInv, Held
<1>5. queue' = <<>> => queue = <<>>
  BY <1>1 DEF Add, queueVars, RouterInv, QueueInv, QueueTypeOK
<1>6. wanted' \subseteq (Uri \cup RoutePort) \X Endpoint
  <2>1. CASE UNCHANGED wanted
    BY <2>1 DEF RouterInv, WorkerInv, WorkerTypeOK
  <2>2. CASE i.op \in {"Add", "Remove"} /\ wanted' \subseteq wanted \cup {Subject(i)}
    BY <2>2, Subjects DEF RouterInv, WorkerInv, WorkerTypeOK
  <2> QED
    BY <2>1, <2>2, Zenon DEF UpdateRoute
<1>7. crossed' \subseteq RoutePort \X Endpoint
  <2>1. CASE crossed' \subseteq crossed
    BY <2>1 DEF RouterInv, WorkerInv, WorkerTypeOK
  <2>2. CASE /\ Unfinished(Subject(i)) # {}
             /\ crossed' = crossed \cup {Subject(i)}
    <3>1. PICK j \in dirty \cup processing : Subject(j) = Subject(i)
      BY <2>2 DEF Unfinished
    <3>2. Subject(i) \in RoutePort \X Endpoint
      BY <3>1, Subjects DEF RouterInv, QueueInv, QueueTypeOK
    <3> QED
      BY <2>2, <3>2 DEF RouterInv, WorkerInv, WorkerTypeOK
  <2> QED
    BY <2>1, <2>2 DEF UpdateRoute
<1>8. WorkerTypeOK'
  BY <1>1, <1>6, <1>7 DEF RouterInv, WorkerInv, WorkerTypeOK
<1>9. StartsEmpty'
  BY <1>1 DEF RouterInv, WorkerInv, StartsEmpty
<1>10. FileInv'
  <2>1. FileInv
    BY DEF RouterInv, WorkerInv
  <2> QED
    BY <1>1, <1>5, <2>1, Zenon DEF FileInv
<1> QED
  BY <1>1, <1>2, <1>4, <1>8, <1>9, <1>10 DEF WorkerInv

\* A signal only shuts the queue down.
LEMMA SignalKeeps ==
    ASSUME RouterInv, Signal
    PROVE  ResourceInv' /\ QueueInv' /\ WorkerInv' /\ [Tier2Next]_tier2Vars
<1>1. /\ shuttingDown' = TRUE /\ UNCHANGED <<queue, dirty, processing>>
      /\ UNCHANGED <<tier2Vars, resourceVars, wanted, refused, scarred, crossed>>
      /\ UNCHANGED <<pc, item, virtuals, firstSyncDone, file, current, writeFailed>>
  BY DEF Signal, ShutDown, routerVars, fileVars, historyVars, tier2Vars
<1>2. ResourceInv'
  BY <1>1, ResourcesKept DEF RouterInv
<1>3. QueueInv'
  BY <1>1, Zenon DEF RouterInv, QueueInv, QueueTypeOK, QueueOK, Held
<1>4. WorkerInv'
  BY <1>1 DEF RouterInv, WorkerInv, WorkerTypeOK, StartsEmpty, FileInv
<1> QED
  BY <1>1, <1>2, <1>3, <1>4
-----------------------------------------------------------------------------
(***************************************************************************)
(* The router                                                              *)
(***************************************************************************)

\* NewF5Router leaves empty maps, an empty queue and a file without resources.
LEMMA RouterInitInv == Init => RouterInv
<1> SUFFICES ASSUME Init PROVE RouterInv
  OBVIOUS
<1>1. Tier2Inv
  BY InitInv DEF Init
<1>2. /\ virtuals = EmptyMap /\ pools = EmptyMap /\ profiles = EmptyMap
      /\ monitors = EmptyMap /\ unmapped = EmptyMap
      /\ tcpVirtuals = {} /\ rules = {} /\ refused = {} /\ scarred = {}
  BY DEF Init, Tier2Init, RouterInit
<1>3. ResourceTypeOK
  BY <1>2, EmptyIsMap DEF ResourceTypeOK
<1>4. Coherent
  BY <1>2 DEF Coherent, EmptyMap
<1>5. QueueInv
  <2>1. queue = <<>> /\ dirty = {} /\ processing = {} /\ shuttingDown = FALSE
    BY DEF Init, QueueInit
  <2>2. QueueTypeOK
    <3>1. queue \in Seq(Item)
      BY <2>1
    <3>2. dirty \in SUBSET Hashed /\ processing \in SUBSET Hashed
      BY <2>1
    <3> QED
      BY <2>1, <3>1, <3>2, Zenon DEF QueueTypeOK
  <2>3. DOMAIN queue = {}
    BY <2>1
  <2>4. QueueOK
    BY <2>1, <2>3 DEF QueueOK
  <2>5. Held
    BY DEF Init, RouterInit, Held
  <2> QED
    BY <2>2, <2>4, <2>5 DEF QueueInv
<1>6. WorkerInv
  BY <1>2, Zenon DEF Init, RouterInit, WorkerInv, WorkerTypeOK, StartsEmpty, FileInv
<1> QED
  BY <1>1, <1>3, <1>4, <1>5, <1>6 DEF RouterInv, ResourceInv

\* Every step of the worker and of its environment keeps the invariant, and is a
\* step of the allocator or leaves it alone.
LEMMA RouterNextInv == RouterInv /\ [Next]_vars => RouterInv' /\ [Tier2Next]_tier2Vars
<1> SUFFICES ASSUME RouterInv, [Next]_vars PROVE RouterInv' /\ [Tier2Next]_tier2Vars
  OBVIOUS
<1>1. ASSUME ResourceInv', QueueInv', WorkerInv', [Tier2Next]_tier2Vars
      PROVE  RouterInv'
  <2>1. Tier2Inv'
    BY <1>1, NextInv DEF RouterInv
  <2> QED
    BY <1>1, <2>1 DEF RouterInv
<1>2. CASE \E dg \in CachedDataGroups \cup {EmptyMap} : Run(dg)
  BY <1>1, <1>2, RunKeeps
<1>3. CASE processItem
  BY <1>1, <1>3, ProcessItemKeeps
<1>4. CASE checkDrained
  BY <1>1, <1>4, CheckDrainedKeeps
<1>5. CASE writeConfig
  BY <1>1, <1>5, WriteConfigKeeps
<1>6. CASE finishItem
  BY <1>1, <1>6, FinishItemKeeps
<1>7. CASE quit
  BY <1>1, <1>7, QuitKeeps
<1>8. CASE \E i \in Item : UpdateRoute(i)
  BY <1>1, <1>8, UpdateRouteKeeps
<1>9. CASE Signal
  BY <1>1, <1>9, SignalKeeps
<1>10. CASE UNCHANGED vars
  <2>1. /\ UNCHANGED <<tier2Vars, resourceVars, wanted, refused, scarred, crossed>>
        /\ UNCHANGED <<pc, item, virtuals, firstSyncDone, file, current, writeFailed>>
        /\ UNCHANGED <<queue, dirty, processing, shuttingDown>>
    BY <1>10 DEF vars, queueVars, routerVars, fileVars, historyVars, tier2Vars
  <2>2. ResourceInv'
    BY <2>1, ResourcesKept DEF RouterInv
  <2>3. QueueInv'
    BY <2>1 DEF RouterInv, QueueInv, QueueTypeOK, QueueOK, Held
  <2>4. WorkerInv'
    BY <2>1 DEF RouterInv, WorkerInv, WorkerTypeOK, StartsEmpty, FileInv
  <2> QED
    BY <1>1, <2>1, <2>2, <2>3, <2>4
<1> QED
  BY <1>2, <1>3, <1>4, <1>5, <1>6, <1>7, <1>8, <1>9, <1>10 DEF Next, Worker

\* So the invariant holds at all times.
LEMMA RouterInvariant == Spec => []RouterInv
<1>1. RouterInv /\ [Next]_vars => RouterInv'
  BY RouterNextInv
<1> QED
  BY <1>1, RouterInitInv, PTL DEF Spec

\* The worker's state and the resource maps keep their types, whatever updates
\* arrive in whatever order (process and its handlers).
THEOREM RouterTypeCorrect == Spec => []RouterTypeOK
<1>1. RouterInv => RouterTypeOK
  BY Zenon DEF RouterInv, ResourceInv, ResourceTypeOK, WorkerInv, WorkerTypeOK, RouterTypeOK
<1> QED
  BY <1>1, RouterInvariant, PTL

\* The handlers keep virtuals, pools, profiles, rules and monitors in step, for any
\* interleaving of HTTP, TCP and broker updates.
THEOREM RouterCoherence == Spec => []Coherent
<1>1. RouterInv => Coherent
  BY DEF RouterInv, ResourceInv
<1> QED
  BY <1>1, RouterInvariant, PTL

\* The work queue forgets no update it accepted and holds none twice, however
\* UpdateRoute falls between the worker's Get and Done.
THEOREM RouterQueue == Spec => []QueueOK
<1>1. RouterInv => QueueOK
  BY DEF RouterInv, QueueInv
<1> QED
  BY <1>1, RouterInvariant, PTL

\* The router's worker works the tier-2 allocator the way Tier2VS allows: its
\* start, its handlers, the first drain and everything in between are steps of
\* Tier2Spec, or leave the allocator alone.
THEOREM RouterImplementsTier2 == Spec => Tier2Spec
<1>1. Init => Tier2Init
  BY DEF Init
<1>2. RouterInv /\ [Next]_vars => [Tier2Next]_tier2Vars
  BY RouterNextInv
<1> QED
  BY <1>1, <1>2, RouterInvariant, PTL DEF Spec, Tier2Spec

\* In the router too, two routes share a destination only when the first drain
\* had reaped it.
THEOREM RouterSharing == Spec => []SharedOnlyIfRecycled
  BY RouterImplementsTier2, Tier2Sharing, PTL

\* Every write has a record with the same name for each tier-2 VIP and no other
\* record, and each VIP with its pool and its rule.
THEOREM RouterWrites == Spec => []WritesConsistent
<1>1. RouterInv => WritesConsistent
  <2> SUFFICES ASSUME RouterInv, pc = "write" PROVE WritesConsistent
    BY DEF WritesConsistent
  <2>1. firstSyncDone
    BY DEF RouterInv, WorkerInv, FileInv
  <2>2. /\ DOMAIN internalDataGroup = DOMAIN virtuals
        /\ \A n \in DOMAIN virtuals : internalDataGroup[n] = virtuals[n]
    BY <2>1 DEF RouterInv, Tier2Inv, RecordPerVirtual
  <2>3. /\ internalDataGroup = [n \in DOMAIN internalDataGroup |-> internalDataGroup[n]]
        /\ virtuals = [n \in DOMAIN virtuals |-> virtuals[n]]
    BY DEF RouterInv, Tier2Inv, Tier2TypeOK, IsMap
  <2>4. internalDataGroup = virtuals
    BY <2>2, <2>3
  <2> QED
    BY <2>1, <2>4 DEF WritesConsistent, RouterInv, ResourceInv, Coherent
<1> QED
  BY <1>1, RouterInvariant, PTL

\* Whenever the worker waits for an update after its first drain, the file is
\* current, unless the write itself failed.
THEOREM RouterDrained == Spec => []DrainedMeansWritten
<1>1. RouterInv => DrainedMeansWritten
  BY DEF RouterInv, WorkerInv, FileInv, DrainedMeansWritten
<1> QED
  BY <1>1, RouterInvariant, PTL
-----------------------------------------------------------------------------
(***************************************************************************)
(* What the pools hold                                                     *)
(***************************************************************************)

\* What a pool must hold, unless an Unbind found it with several members.
PoolHolds(n) ==
    /\ IsInjective(pools[n].members)
    /\ \/ HasMonitors(n)
       \/ n \in DOMAIN unmapped /\ unmapped[n] # pools[n].monitorNames

PoolInv == \A n \in DOMAIN pools \ scarred : PoolHolds(n)

\* The two properties of F5Router that PoolInv stands for.
LEMMA PoolInvMeans == PoolInv <=> MembersUnique /\ MonitorsCreated
  BY ZenonT(30) DEF PoolInv, PoolHolds, MembersUnique, MonitorsCreated

\* A map that differs from another at n only.
SameBut(f, g, n) ==
    \A m : m # n => /\ m \in DOMAIN g <=> m \in DOMAIN f
                    /\ m \in DOMAIN f => g[m] = f[m]

\* Each handler changes what belongs to one route, so that one pool is left to
\* look at.
LEMMA OnePool ==
    ASSUME PoolInv, NEW n, SameBut(pools, pools', n), SameBut(monitors, monitors', n),
           SameBut(unmapped, unmapped', n),
           \A m : m # n => (m \in scarred' <=> m \in scarred),
           n \in DOMAIN pools' \ scarred' => PoolHolds(n)'
    PROVE  PoolInv'
<1> SUFFICES ASSUME NEW m \in DOMAIN pools' \ scarred', m # n PROVE PoolHolds(m)'
  BY DEF PoolInv
<1>1. /\ m \in DOMAIN pools \ scarred /\ pools'[m] = pools[m]
      /\ m \in DOMAIN monitors' <=> m \in DOMAIN monitors
      /\ m \in DOMAIN monitors => monitors'[m] = monitors[m]
      /\ m \in DOMAIN unmapped' <=> m \in DOMAIN unmapped
      /\ m \in DOMAIN unmapped => unmapped'[m] = unmapped[m]
  BY DEF SameBut
<1>2. PoolHolds(m)
  BY <1>1, ZenonT(30) DEF PoolInv
<1>3. HasMonitors(m) => HasMonitors(m)'
  BY <1>1 DEF HasMonitors
<1> QED
  BY <1>1, <1>2, <1>3, ZenonT(30) DEF PoolHolds

\* Put changes a map at one key,
LEMMA SamePut ==
    ASSUME NEW f, NEW n, NEW v
    PROVE  SameBut(f, Put(f, n, v), n) /\ Put(f, n, v)[n] = v /\ n \in DOMAIN Put(f, n, v)
  BY DEF SameBut, Put

\* and so does Drop.
LEMMA SameDrop ==
    ASSUME NEW f, NEW n
    PROVE  SameBut(f, Drop(f, n), n)
  BY ZenonT(30) DEF SameBut, Drop

\* What addPool makes of a pool: a new one, or the old one with other members.
LEMMA AddPoolAt ==
    ASSUME NEW ps, PoolsOK(ps), NEW n, NEW pool
    PROVE  /\ SameBut(ps, addPool(ps, n, pool), n)
           /\ n \notin DOMAIN ps => addPool(ps, n, pool)[n] = pool
           /\ n \in DOMAIN ps =>
                /\ addPool(ps, n, pool)[n].members = AddMembers(ps[n].members, pool.members)
                /\ addPool(ps, n, pool)[n].monitorNames = ps[n].monitorNames
<1>1. CASE n \notin DOMAIN ps
  BY <1>1, SamePut DEF addPool
<1>2. CASE n \in DOMAIN ps
  <2>1. addPool(ps, n, pool) =
          [ps EXCEPT ![n].members = AddMembers(ps[n].members, pool.members)]
    BY <1>2 DEF addPool
  <2>2. ps[n] \in PoolResource
    BY <1>2, ZenonT(30) DEF PoolsOK, IsMap
  <2> QED
    BY <1>2, <2>1, <2>2 DEF SameBut, PoolResource
<1> QED
  BY <1>1, <1>2

\* removePool takes members away, or the pool.
LEMMA RemovePoolAt ==
    ASSUME NEW ps, PoolsOK(ps), NEW n \in DOMAIN ps, NEW left
    PROVE  /\ SameBut(ps, removePool(ps, n, left), n)
           /\ left = <<>> => n \notin DOMAIN removePool(ps, n, left)
           /\ left # <<>> => /\ removePool(ps, n, left)[n].members = left
                             /\ removePool(ps, n, left)[n].monitorNames = ps[n].monitorNames
<1>1. CASE left = <<>>
  BY <1>1, SameDrop, ZenonT(30) DEF removePool, Drop
<1>2. CASE left # <<>>
  <2>1. removePool(ps, n, left) = [ps EXCEPT ![n].members = left]
    BY <1>2 DEF removePool
  <2>2. ps[n] \in PoolResource
    BY ZenonT(30) DEF PoolsOK, IsMap
  <2> QED
    BY <1>2, <2>1, <2>2 DEF SameBut, PoolResource
<1> QED
  BY <1>1, <1>2

\* The same of a step that takes members out of a pool.
LEMMA PoolRemoved ==
    ASSUME PoolsOK(pools), NEW n \in DOMAIN pools, NEW left, pools' = removePool(pools, n, left)
    PROVE  /\ SameBut(pools, pools', n)
           /\ left = <<>> => n \notin DOMAIN pools'
           /\ left # <<>> => /\ pools'[n].members = left
                             /\ pools'[n].monitorNames = pools[n].monitorNames
  BY RemovePoolAt

\* The config's default names no plan.
LEMMA DefaultSetsNothing == \A setting : ~Sets(Default, setting)
  BY RouterAssumption DEF Sets, IsMap

\* A slice of one member lists it once.
LEMMA OneMember == \A e : IsInjective(<<e>>)
  BY DEF IsInjective

\* A pool of ResourceInv.
LEMMA PoolTyped ==
    ASSUME ResourceInv
    PROVE  /\ PoolsOK(pools)
           /\ \A n \in DOMAIN pools : pools[n].members \in Seq(Endpoint)
  BY DEF ResourceInv, ResourceTypeOK, Coherent, PoolsOK, IsMap, PoolResource

\* A step that leaves the pools, their monitors and the waiting plans alone.
LEMMA PoolsUntouched ==
    ASSUME PoolInv, UNCHANGED <<pools, monitors, unmapped, scarred>>
    PROVE  PoolInv'
  BY ZenonT(30) DEF PoolInv, PoolHolds, HasMonitors
-----------------------------------------------------------------------------
(***************************************************************************)
(* The handlers                                                            *)
(***************************************************************************)

\* A pool that Add makes has the monitors of the plan it found waiting.
LEMMA AddHolds ==
    ASSUME ResourceInv, PoolInv, NEW u \in Uri, NEW e \in Endpoint, processRouteAdd(u, e)
    PROVE  PoolInv'
<1> DEFINE n == ObjectName[u]
           plan == IF n \in DOMAIN unmapped THEN unmapped[n] ELSE Default
           pool == UpdatePool(DefaultPool(<<e>>), plan)
<1>1. CASE refuseAdd(u, e)
  <2>1. UNCHANGED <<pools, monitors, unmapped, scarred>>
    BY <1>1 DEF refuseAdd, resourceVars
  <2> QED
    BY <2>1, PoolsUntouched
<1>2. CASE /\ monitors' = IF Sets(plan, "monitors") THEN Put(monitors, n, plan) ELSE monitors
           /\ pools' = addPool(pools, n, pool)
           /\ UNCHANGED <<unmapped, scarred>>
  <2>1. pool.members = <<e>>
    BY DEF UpdatePool, DefaultPool
  <2>2. pool.monitorNames = IF Sets(plan, "monitorNames") THEN plan ELSE Default
    BY ZenonT(30) DEF UpdatePool, DefaultPool
  <2>3. Sets(plan, "monitors") => Sets(plan, "monitorNames")
    BY RouterAssumption, ZenonT(30) DEF Sets
  <2>4. Sets(plan, "monitors") => n \in DOMAIN unmapped /\ unmapped[n] = plan
    BY DefaultSetsNothing, ZenonT(30)
  <2> HIDE DEF plan, pool, n
  <2>5. /\ SameBut(pools, pools', n)
        /\ n \notin DOMAIN pools => pools'[n] = pool
        /\ n \in DOMAIN pools => /\ pools'[n].members = AddMembers(pools[n].members, pool.members)
                                 /\ pools'[n].monitorNames = pools[n].monitorNames
    <3>1. pools' = addPool(pools, n, pool) /\ PoolsOK(pools)
      BY <1>2, PoolTyped, ZenonT(30)
    <3>2. SameBut(pools, addPool(pools, n, pool), n)
      BY <3>1, AddPoolAt, ZenonT(30)
    <3>3. n \notin DOMAIN pools => addPool(pools, n, pool)[n] = pool
      BY <3>1, AddPoolAt, ZenonT(30)
    <3>4. n \in DOMAIN pools =>
            /\ addPool(pools, n, pool)[n].members = AddMembers(pools[n].members, pool.members)
            /\ addPool(pools, n, pool)[n].monitorNames = pools[n].monitorNames
      BY <3>1, AddPoolAt
    <3> QED
      BY <3>1, <3>2, <3>3, <3>4, ZenonT(30)
  <2>6. /\ SameBut(monitors, monitors', n)
        /\ Sets(plan, "monitors") => n \in DOMAIN monitors' /\ monitors'[n] = plan
        /\ ~Sets(plan, "monitors") => monitors' = monitors
    <3>1. SameBut(monitors, monitors, n)
      BY ZenonT(30) DEF SameBut
    <3> QED
      BY <1>2, <3>1, SamePut
  <2>7. CASE n \notin DOMAIN pools
    <3>1. IsInjective(pools'[n].members)
      <4>1. pools'[n].members = <<e>>
        BY <2>1, <2>5, <2>7, ZenonT(30)
      <4> QED
        BY <4>1, OneMember
    <3>2. HasMonitors(n)'
      BY <2>2, <2>3, <2>5, <2>6, <2>7, DefaultSetsNothing, ZenonT(30) DEF HasMonitors
    <3> QED
      BY <1>2, <2>5, <2>6, <3>1, <3>2, OnePool, ZenonT(30) DEF PoolHolds, SameBut
  <2>8. CASE n \in DOMAIN pools
    <3>1. ASSUME n \notin scarred PROVE PoolHolds(n)'
      <4>1. PoolHolds(n)
        BY <2>8, <3>1, ZenonT(30) DEF PoolInv
      <4>2. IsInjective(pools'[n].members)
        BY <2>1, <2>5, <2>8, <4>1, PoolTyped, AddMembersInjective, ZenonT(30) DEF PoolHolds
      <4>3. CASE Sets(plan, "monitors")
        BY <1>2, <2>4, <2>5, <2>6, <2>8, <4>2, <4>3, ZenonT(30) DEF PoolHolds, HasMonitors
      <4>4. CASE ~Sets(plan, "monitors")
        BY <1>2, <2>5, <2>6, <2>8, <4>1, <4>2, <4>4, ZenonT(30) DEF PoolHolds, HasMonitors
      <4> QED
        BY <4>3, <4>4
    <3> QED
      BY <1>2, <2>5, <2>6, <3>1, OnePool, ZenonT(30) DEF SameBut
  <2> QED
    BY <2>7, <2>8
<1> QED
  BY <1>1, <1>2, ZenonT(30) DEF processRouteAdd

\* Remove takes the member out, and the monitors with the last one.
LEMMA RemoveHolds ==
    ASSUME ResourceInv, PoolInv, NEW u \in Uri, NEW e \in Endpoint, processRouteRemove(u, e)
    PROVE  PoolInv'
<1> DEFINE n == ObjectName[u]
           left == RemoveMember(pools[n].members, e)
<1>1. CASE UNCHANGED <<pools, monitors, unmapped, scarred>>
  BY <1>1, PoolsUntouched, ZenonT(30)
<1>2. CASE /\ n \in DOMAIN pools /\ pools' = removePool(pools, n, left)
           /\ monitors' = IF left = <<>> THEN Drop(monitors, n) ELSE monitors
           /\ scarred' = IF left = <<>> THEN scarred \ {n} ELSE scarred
           /\ UNCHANGED unmapped
  <2>1. pools[n].members \in Seq(Endpoint) /\ PoolsOK(pools)
    BY <1>2, PoolTyped, ZenonT(30)
  <2>2. IsInjective(pools[n].members) => IsInjective(left)
    BY <2>1, RemoveMemberInjective, ZenonT(30)
  <2> HIDE DEF left, n
  <2>3. /\ SameBut(pools, pools', n)
        /\ left = <<>> => n \notin DOMAIN pools'
        /\ left # <<>> => /\ pools'[n].members = left
                          /\ pools'[n].monitorNames = pools[n].monitorNames
    BY <1>2, <2>1, PoolRemoved, ZenonT(30)
  <2>4. SameBut(monitors, monitors', n)
    <3>1. SameBut(monitors, monitors, n)
      BY DEF SameBut
    <3> QED
      BY <1>2, <3>1, SameDrop
  <2>5. ASSUME n \in DOMAIN pools' \ scarred' PROVE PoolHolds(n)'
    <3>1. left # <<>> /\ n \notin scarred /\ monitors' = monitors
      BY <1>2, <2>3, <2>5, ZenonT(30)
    <3>2. PoolHolds(n)
      BY <1>2, <3>1 DEF PoolInv
    <3> QED
      BY <1>2, <2>2, <2>3, <3>1, <3>2, ZenonT(30) DEF PoolHolds, HasMonitors
  <2>6. \A m : m # n => (m \in scarred' <=> m \in scarred)
    BY <1>2
  <2>7. SameBut(unmapped, unmapped', n)
    BY <1>2 DEF SameBut
  <2> QED
    BY <2>3, <2>4, <2>5, <2>6, <2>7, OnePool, ZenonT(30)
<1> QED
  BY <1>1, <1>2, ZenonT(30) DEF processRouteRemove

\* Bind gives the pool the plan's monitors with their names.
LEMMA BindHolds ==
    ASSUME ResourceInv, PoolInv, NEW u \in Uri, NEW p \in PlanID, processRouteBind(u, p)
    PROVE  PoolInv'
<1> DEFINE n == ObjectName[u]
<1>1. UNCHANGED scarred
  BY ZenonT(30) DEF processRouteBind
<1>2. CASE /\ Mapped(n) /\ pools' = BoundPools(n, p) /\ monitors' = BoundMonitors(n, p)
           /\ UNCHANGED unmapped
  <2> HIDE DEF n
  <2>1. n \in DOMAIN pools /\ pools[n] \in PoolResource
    BY <1>2, PoolTyped DEF Mapped, PoolsOK, IsMap
  <2>2. /\ SameBut(pools, pools', n)
        /\ pools'[n].members = pools[n].members
        /\ pools'[n].monitorNames =
              IF Sets(p, "monitorNames") THEN p ELSE pools[n].monitorNames
    BY <1>2, <2>1, ZenonT(30) DEF BoundPools, UpdatePool, SameBut, PoolResource
  <2>3. SameBut(monitors, monitors', n)
    <3>1. SameBut(monitors, monitors, n)
      BY ZenonT(30) DEF SameBut
    <3> QED
      BY <1>2, <3>1, SamePut, SameDrop, ZenonT(30) DEF BoundMonitors
  <2>4. Sets(p, "monitors") => Sets(p, "monitorNames")
    BY RouterAssumption, ZenonT(30) DEF Sets
  <2>5. ASSUME n \notin scarred PROVE PoolHolds(n)'
    <3>1. PoolHolds(n)
      BY <2>1, <2>5, ZenonT(30) DEF PoolInv
    <3>2. CASE Sets(p, "monitors")
      <4>1. n \in DOMAIN monitors' /\ monitors'[n] = p
        <5>1. monitors' = Put(monitors, n, p)
          BY <1>2, <3>2, ZenonT(30) DEF BoundMonitors
        <5>2. n \in DOMAIN Put(monitors, n, p) /\ Put(monitors, n, p)[n] = p
          BY ZenonT(30) DEF Put
        <5> QED
          BY <5>1, <5>2, ZenonT(30)
      <4> QED
        BY <2>2, <2>4, <3>1, <3>2, <4>1 DEF PoolHolds, HasMonitors
    <3>3. CASE ~Sets(p, "monitors") /\ Sets(p, "monitorNames")
      BY <2>2, <3>1, <3>3, ZenonT(30) DEF PoolHolds, HasMonitors
    <3>4. CASE ~Sets(p, "monitorNames")
      <4>1. monitors' = monitors
        BY <1>2, <2>4, <3>4 DEF BoundMonitors
      <4> QED
        BY <1>2, <2>2, <3>1, <3>4, <4>1 DEF PoolHolds, HasMonitors
    <3> QED
      BY <3>2, <3>3, <3>4
  <2> QED
    BY <1>1, <1>2, <2>2, <2>3, <2>5, OnePool, ZenonT(30) DEF SameBut
<1>3. CASE /\ ~Mapped(n) /\ UNCHANGED <<pools, monitors>>
           /\ unmapped' = IF p \in DOMAIN plansMap THEN Put(unmapped, n, p) ELSE unmapped
  <2>1. n \notin DOMAIN pools
    BY <1>3, CoherentHttp DEF Mapped
  <2> HIDE DEF n
  <2>2. SameBut(pools, pools', n) /\ SameBut(monitors, monitors', n)
    BY <1>3 DEF SameBut
  <2>3. SameBut(unmapped, unmapped', n)
    <3>1. SameBut(unmapped, unmapped, n)
      BY ZenonT(30) DEF SameBut
    <3> QED
      BY <1>3, <3>1, SamePut
  <2> QED
    BY <1>1, <1>3, <2>1, <2>2, <2>3, OnePool, ZenonT(30)
<1> QED
  BY <1>2, <1>3 DEF processRouteBind

\* Unbind leaves the default pool where it found one member; with more it scars
\* the pool.
LEMMA UnbindHolds ==
    ASSUME ResourceInv, PoolInv, NEW u \in Uri, processRouteUnbind(u)
    PROVE  PoolInv'
<1> DEFINE n == ObjectName[u]
           members == pools[n].members
           kept == removePool(pools, n, RemoveOwnFirst(members))
<1>1. CASE /\ Mapped(n) /\ pools' = addPool(kept, n, DefaultPool(members))
           /\ monitors' = Drop(monitors, n)
           /\ scarred' = IF Len(members) > 1 THEN scarred \cup {n} ELSE scarred
           /\ UNCHANGED unmapped
  <2>1. /\ n \in DOMAIN pools /\ PoolsOK(pools)
        /\ members \in Seq(Endpoint) /\ members # <<>>
    BY <1>1, PoolTyped, ZenonT(30) DEF Mapped, PoolsOK
  <2>2. RemoveOwnFirst(members) \in Seq(Endpoint)
    BY <2>1, RemoveOwnFirstSeq
  <2>3. Len(members) = 1 => RemoveOwnFirst(members) = <<>>
    BY <2>1, RemoveOwnFirstAlone
  <2>4. PoolsOK(kept)
    BY <2>1, <2>2, RemovePool, ZenonT(30)
  <2>5. SameBut(pools, kept, n) /\ (Len(members) = 1 => n \notin DOMAIN kept)
    BY <2>1, <2>3, RemovePoolAt, ZenonT(30)
  <2> HIDE DEF n, members, kept
  <2>6. SameBut(kept, pools', n) /\ (n \notin DOMAIN kept => pools'[n] = DefaultPool(members))
    <3>1. pools' = addPool(kept, n, DefaultPool(members))
      BY <1>1
    <3>2. SameBut(kept, addPool(kept, n, DefaultPool(members)), n)
      BY <2>4, AddPoolAt, ZenonT(30)
    <3>3. n \notin DOMAIN kept => addPool(kept, n, DefaultPool(members))[n] = DefaultPool(members)
      BY <2>4, AddPoolAt, ZenonT(30)
    <3> QED
      BY <3>1, <3>2, <3>3
  <2>7. SameBut(pools, pools', n)
    BY <2>5, <2>6 DEF SameBut
  <2>8. SameBut(monitors, monitors', n)
    BY <1>1, SameDrop, ZenonT(30)
  <2>9. ASSUME n \notin scarred' PROVE PoolHolds(n)'
    <3>1. Len(members) = 1 /\ n \notin scarred
      <4>1. Len(members) \in Nat /\ Len(members) # 0
        BY <2>1
      <4>2. ~(Len(members) > 1) /\ n \notin scarred
        BY <1>1, <2>9
      <4>3. \A k \in Nat : k # 0 /\ ~(k > 1) => k = 1
        OBVIOUS
      <4> QED
        BY <4>1, <4>2, <4>3, Zenon
    <3>2. pools'[n] = DefaultPool(members)
      BY <2>5, <2>6, <3>1
    <3>3. PoolHolds(n)
      BY <2>1, <3>1 DEF PoolInv
    <3>4. pools'[n].members = pools[n].members /\ pools'[n].monitorNames = Default
      BY <3>2 DEF DefaultPool, members
    <3>5. HasMonitors(n)'
      BY <3>4, DefaultSetsNothing DEF HasMonitors
    <3> QED
      BY <3>3, <3>4, <3>5 DEF PoolHolds
  <2> QED
    BY <1>1, <2>7, <2>8, <2>9, OnePool, ZenonT(30) DEF SameBut
<1>2. CASE ~Mapped(n) /\ UNCHANGED <<pools, monitors, scarred>> /\ unmapped' = Drop(unmapped, n)
  <2>1. n \notin DOMAIN pools
    BY <1>2, CoherentHttp, ZenonT(30) DEF Mapped
  <2> HIDE DEF n
  <2>2. SameBut(pools, pools', n) /\ SameBut(monitors, monitors', n)
    BY <1>2 DEF SameBut
  <2>3. SameBut(unmapped, unmapped', n)
    BY <1>2, SameDrop
  <2> QED
    BY <1>2, <2>1, <2>2, <2>3, OnePool
<1> QED
  BY <1>1, <1>2, ZenonT(30) DEF processRouteUnbind

\* A TCP pool has the default settings.
LEMMA TCPAddHolds ==
    ASSUME ResourceInv, PoolInv, NEW port \in RoutePort, NEW e \in Endpoint,
           processTCPRouteAdd(port, e)
    PROVE  PoolInv'
<1> DEFINE n == ObjectName[port]
<1>1. pools' = addPool(pools, n, DefaultPool(<<e>>)) /\ UNCHANGED <<monitors, unmapped, scarred>>
  BY ZenonT(30) DEF processTCPRouteAdd
<1> HIDE DEF n
<1>2. /\ SameBut(pools, pools', n)
      /\ n \notin DOMAIN pools => pools'[n] = DefaultPool(<<e>>)
      /\ n \in DOMAIN pools => /\ pools'[n].members = AddMembers(pools[n].members, <<e>>)
                               /\ pools'[n].monitorNames = pools[n].monitorNames
  <2>1. pools' = addPool(pools, n, DefaultPool(<<e>>)) /\ PoolsOK(pools)
    BY <1>1, PoolTyped
  <2>2. DefaultPool(<<e>>).members = <<e>>
    BY ZenonT(30) DEF DefaultPool
  <2>3. SameBut(pools, addPool(pools, n, DefaultPool(<<e>>)), n)
    BY <2>1, AddPoolAt, ZenonT(30)
  <2>4. n \notin DOMAIN pools => addPool(pools, n, DefaultPool(<<e>>))[n] = DefaultPool(<<e>>)
    BY <2>1, AddPoolAt, ZenonT(30)
  <2>5. n \in DOMAIN pools =>
          /\ addPool(pools, n, DefaultPool(<<e>>))[n].members =
                AddMembers(pools[n].members, DefaultPool(<<e>>).members)
          /\ addPool(pools, n, DefaultPool(<<e>>))[n].monitorNames = pools[n].monitorNames
    BY <2>1, AddPoolAt, ZenonT(30)
  <2> QED
    BY <2>1, <2>2, <2>3, <2>4, <2>5, ZenonT(30)
<1>3. CASE n \notin DOMAIN pools
  <2>1. PoolHolds(n)'
    <3>1. pools'[n].members = <<e>> /\ pools'[n].monitorNames = Default
      <4>1. pools'[n] = DefaultPool(<<e>>)
        BY <1>2, <1>3
      <4>2. DefaultPool(<<e>>).members = <<e>> /\ DefaultPool(<<e>>).monitorNames = Default
        BY DEF DefaultPool
      <4> QED
        BY ONLY <4>1, <4>2
    <3>2. HasMonitors(n)'
      BY <3>1, DefaultSetsNothing, ZenonT(30) DEF HasMonitors
    <3> QED
      BY <3>1, <3>2, OneMember, ZenonT(30) DEF PoolHolds
  <2> QED
    BY <1>1, <1>2, <2>1, OnePool, ZenonT(30) DEF SameBut
<1>4. CASE n \in DOMAIN pools
  <2>1. ASSUME n \notin scarred PROVE PoolHolds(n)'
    <3>1. PoolHolds(n)
      BY <1>4, <2>1, ZenonT(30) DEF PoolInv
    <3>2. IsInjective(pools'[n].members)
      BY <1>2, <1>4, <3>1, PoolTyped, AddMembersInjective, ZenonT(30) DEF PoolHolds
    <3> QED
      BY <1>1, <1>2, <1>4, <3>1, <3>2, ZenonT(30) DEF PoolHolds, HasMonitors
  <2> QED
    BY <1>1, <1>2, <2>1, OnePool, ZenonT(30) DEF SameBut
<1> QED
  BY <1>3, <1>4

\* Its members go the way those of an HTTP pool do.
LEMMA TCPRemoveHolds ==
    ASSUME ResourceInv, PoolInv, NEW port \in RoutePort, NEW e \in Endpoint,
           processTCPRouteRemove(port, e)
    PROVE  PoolInv'
<1> DEFINE n == ObjectName[port]
           left == RemoveMember(pools[n].members, e)
<1>1. UNCHANGED <<monitors, unmapped, scarred>>
  BY ZenonT(30) DEF processTCPRouteRemove
<1>2. CASE UNCHANGED pools
  BY <1>1, <1>2, PoolsUntouched, ZenonT(30)
<1>3. CASE n \in DOMAIN pools /\ pools' = removePool(pools, n, left)
  <2>1. pools[n].members \in Seq(Endpoint) /\ PoolsOK(pools)
    BY <1>3, PoolTyped, ZenonT(30)
  <2>2. IsInjective(pools[n].members) => IsInjective(left)
    BY <2>1, RemoveMemberInjective, ZenonT(30)
  <2> HIDE DEF left, n
  <2>3. /\ SameBut(pools, pools', n)
        /\ left = <<>> => n \notin DOMAIN pools'
        /\ left # <<>> => /\ pools'[n].members = left
                          /\ pools'[n].monitorNames = pools[n].monitorNames
    BY <1>3, <2>1, PoolRemoved, ZenonT(30)
  <2>4. ASSUME n \in DOMAIN pools' \ scarred' PROVE PoolHolds(n)'
    <3>1. PoolHolds(n)
      BY <1>1, <1>3, <2>4 DEF PoolInv
    <3> QED
      BY <1>1, <2>2, <2>3, <2>4, <3>1 DEF PoolHolds, HasMonitors
  <2> QED
    BY <1>1, <2>3, <2>4, OnePool, ZenonT(30) DEF SameBut
<1> QED
  BY <1>2, <1>3, ZenonT(30) DEF processTCPRouteRemove

\* Every handler leaves each pool with what it must hold.
LEMMA HandleHolds ==
    ASSUME ResourceInv, PoolInv, NEW i \in Item, handle(i)
    PROVE  PoolInv'
<1>1. CASE i \in HttpItem /\ i.op = "Add" /\ processRouteAdd(i.uri, i.endpoint)
  BY <1>1, AddHolds DEF HttpItem
<1>2. CASE i \in HttpItem /\ i.op = "Remove" /\ processRouteRemove(i.uri, i.endpoint)
  BY <1>2, RemoveHolds DEF HttpItem
<1>3. CASE i \in HttpItem /\ i.op = "Bind" /\ processRouteBind(i.uri, i.planID)
  BY <1>3, BindHolds DEF HttpItem
<1>4. CASE i \in HttpItem /\ i.op = "Unbind" /\ processRouteUnbind(i.uri)
  BY <1>4, UnbindHolds DEF HttpItem
<1>5. CASE i \in TcpItem /\ i.op = "Add" /\ processTCPRouteAdd(i.routePort, i.member)
  BY <1>5, TCPAddHolds DEF TcpItem
<1>6. CASE i \in TcpItem /\ i.op = "Remove" /\ processTCPRouteRemove(i.routePort, i.member)
  BY <1>6, TCPRemoveHolds DEF TcpItem
<1> QED
  BY <1>1, <1>2, <1>3, <1>4, <1>5, <1>6, ZenonT(30) DEF handle
-----------------------------------------------------------------------------
(***************************************************************************)
(* The router                                                              *)
(***************************************************************************)

\* Only the handler touches the pools, their monitors and the waiting plans.
LEMMA PoolNext == RouterInv /\ PoolInv /\ [Next]_vars => PoolInv'
<1> SUFFICES ASSUME RouterInv, PoolInv, [Next]_vars PROVE PoolInv'
  OBVIOUS
<1>1. CASE processItem
  <2>1. Get /\ handle(Head(queue))
    BY <1>1 DEF processItem
  <2>2. Head(queue) \in Item
    BY <2>1, GetKeepsQueue DEF RouterInv, QueueInv
  <2> QED
    BY <2>1, <2>2, HandleHolds DEF RouterInv
<1>2. CASE UNCHANGED <<resourceVars, scarred>>
  <2>1. UNCHANGED <<pools, monitors, unmapped, scarred>>
    BY <1>2 DEF resourceVars
  <2> QED
    BY <2>1, PoolsUntouched
<1>3. ASSUME NEW dg, Run(dg) PROVE UNCHANGED <<resourceVars, scarred>>
  BY <1>3, ZenonT(30) DEF Run, historyVars
<1>4. checkDrained \/ writeConfig \/ finishItem \/ quit => UNCHANGED <<resourceVars, scarred>>
  BY DEF checkDrained, writeConfig, finishItem, quit, historyVars
<1>5. ASSUME NEW i, UpdateRoute(i) PROVE UNCHANGED <<resourceVars, scarred>>
  BY <1>5 DEF UpdateRoute
<1>6. Signal \/ UNCHANGED vars => UNCHANGED <<resourceVars, scarred>>
  BY DEF Signal, vars, routerVars, historyVars
<1> QED
  BY <1>1, <1>2, <1>3, <1>4, <1>5, <1>6 DEF Next, Worker

\* So PoolInv holds at all times.
LEMMA PoolInvariant == Spec => []PoolInv
<1>1. Init => PoolInv
  BY DEF Init, RouterInit, PoolInv, EmptyMap
<1> QED
  BY <1>1, PoolNext, RouterInvariant, PTL DEF Spec

\* A pool lists no member twice, unless Unbind found it with several members, for
\* any order of Add, Remove, Bind and Unbind (addPool, removePool).
THEOREM RouterMembersUnique == Spec => []MembersUnique
  BY PoolInvariant, PoolInvMeans, PTL

\* A pool that names monitors of a plan has that plan's monitors created for it,
\* with the exceptions MonitorsCreated states (processRouteAdd, processRouteBind).
THEOREM RouterMonitors == Spec => []MonitorsCreated
  BY PoolInvariant, PoolInvMeans, PTL
=============================================================================
