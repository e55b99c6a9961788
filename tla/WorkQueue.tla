----------------------------- MODULE WorkQueue -----------------------------
(***************************************************************************)
(* The Kubernetes work queue the F5Router takes its updates from.  Every   *)
(* method holds the queue's lock, so each is one atomic step.              *)
(*                                                                         *)
(* The dirty and processing sets are Go maps keyed by the item.  Two TCP   *)
(* updates with the same fields are the same key.  An HTTP update carries  *)
(* a pointer to a logger session made for it alone, so it equals no other  *)
(* update, and its membership in either set is never asked for again.      *)
(***************************************************************************)
EXTENDS Sequences

CONSTANTS
    Item,    \* the updates that may be queued
    Hashed   \* those that equal any other update with the same fields

ASSUME QueueAssumption == Hashed \subseteq Item

VARIABLES queue, dirty, processing, shuttingDown

queueVars == <<queue, dirty, processing, shuttingDown>>

QueueTypeOK ==
    /\ queue \in Seq(Item)
    /\ dirty \in SUBSET Hashed
    /\ processing \in SUBSET Hashed
    /\ shuttingDown \in BOOLEAN

QueueInit ==
    /\ queue = <<>>
    /\ dirty = {}
    /\ processing = {}
    /\ shuttingDown = FALSE

\* What inserting or deleting i does to a set of hashed items.
Key(i) == {i} \cap Hashed

Accepts(i) == ~shuttingDown /\ i \notin dirty

\* Variant of Add that puts the item in front of the others.
AddInFront(i) ==
    \/ /\ ~Accepts(i)
       /\ UNCHANGED queueVars
    \/ /\ Accepts(i)
       /\ dirty' = dirty \cup Key(i)
       /\ queue' = IF i \in processing THEN queue ELSE <<i>> \o queue
       /\ UNCHANGED <<processing, shuttingDown>>

Add(i) ==
    \/ /\ ~Accepts(i)
       /\ UNCHANGED queueVars
    \/ /\ Accepts(i)
       /\ dirty' = dirty \cup Key(i)
       /\ queue' = IF i \in processing THEN queue ELSE Append(queue, i)
       /\ UNCHANGED <<processing, shuttingDown>>

\* Get returns the item at the head; it blocks while there is none.
Get ==
    /\ queue # <<>>
    /\ queue' = Tail(queue)
    /\ processing' = processing \cup Key(Head(queue))
    /\ dirty' = dirty \ Key(Head(queue))
    /\ UNCHANGED shuttingDown

\* Variant of Done that does not look at the dirty set.
DoneForgetting(i) ==
    /\ processing' = processing \ Key(i)
    /\ UNCHANGED <<queue, dirty, shuttingDown>>

Done(i) ==
    /\ processing' = processing \ Key(i)
    /\ queue' = IF i \in dirty THEN Append(queue, i) ELSE queue
    /\ UNCHANGED <<dirty, shuttingDown>>

ShutDown ==
    /\ shuttingDown' = TRUE
    /\ UNCHANGED <<queue, dirty, processing>>

\* "Every element of queue should be in the dirty set and not in the processing
\* set", no item is queued twice, and a dirty item is either queued or will be
\* queued by the Done of the worker that is processing it: no update that Add
\* accepted is forgotten.
QueueOK ==
    /\ \A k \in DOMAIN queue :
          queue[k] \in Hashed => queue[k] \in dirty /\ queue[k] \notin processing
    /\ \A j, k \in DOMAIN queue :
          queue[j] \in Hashed /\ queue[j] = queue[k] => j = k
    /\ \A i \in dirty : i \in processing \/ \E k \in DOMAIN queue : queue[k] = i
=============================================================================
