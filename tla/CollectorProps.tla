--------------------------- MODULE CollectorProps ---------------------------
(***************************************************************************)
(* What the collector promises to the dashboards and to the history.       *)
(***************************************************************************)
EXTENDS Collector

InSession == {"reading", "transitions", "snapshot", "initial", "ending"}

Batches(d) == {i \in 1 .. Len(queue) : queue[i].device = d}

\* The exporter shows the cache of the current session or nothing: it shows
\* no entity before the device has been read completely, none the cache has
\* dropped, and none once the session is over; and it calls the device
\* synchronized exactly as long.
ExporterMirrorsCache ==
    \A d \in Device :
       LET published == synced[d] /\ pc[d] \in InSession
       IN  /\ devices[d] = IF published THEN view[d] ELSE Nothing
           /\ synchronized[d] <=> published

\* Between two messages of a session whose batches have left the queue, the
\* document readers find of every entity seen in the session is its current
\* state, or the deletion, unless its newest batch was dropped or its write
\* raised: whatever writes that raised before it bring in late shows no more.
HistoryFollowsSession ==
    \A d \in Device :
       synced[d] /\ pc[d] = "reading" =>
          \A e \in Entity :
             /\ view[d][e] # Absent => persisted[d][e] = view[d][e]
             /\ view[d][e] = Absent => persisted[d][e] \in {Deleted, Absent}
             /\ Batches(d) = {} /\ batch = NoBatch
                  /\ persisted[d][e] # Absent /\ e \notin lost[d]
                => history[d][e] = persisted[d][e]

\* What a stop may cost: once the sink thread has gone, a worker finishes the
\* message it is on, and that message fills at most two batches.
LossAtStopBounded ==
    loop = "exited" => \A d \in Device : Cardinality(Batches(d)) <= 2

\* docs/design.md says a deletion is kept as deleted=true history.  Here it is
\* claimed of an entity that left the device while its stream was down: once
\* synchronized, with every batch stored, no entity the device no longer has
\* is left undeleted in the history.
RemovalIsRecorded ==
    \A d \in Device :
       synced[d] /\ pc[d] = "reading" /\ Batches(d) = {} /\ batch = NoBatch
         /\ lost[d] = {} =>
          \A e \in Entity : view[d][e] = Absent => history[d][e] \in {Deleted, Absent}
==============================================================================
