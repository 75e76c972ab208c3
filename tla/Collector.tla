------------------------------ MODULE Collector ------------------------------
(***************************************************************************)
(* The gNMI collector process: a worker thread per device, the storage     *)
(* queue and its thread, the exporter's tables, and the history they leave *)
(* in OpenSearch (worker in gnmi.py, Metrics.disconnected and update).     *)
(*                                                                         *)
(* Each step of a worker touches shared state at most once.  An entity is  *)
(* known by the part of it state_signature looks at; counters that change  *)
(* without it make a report that leaves the view as it was.  The cache is  *)
(* the CacheContract that StateCache implements.  Time is left to the      *)
(* module Session: a stream may end at any moment here, and the ten        *)
(* seconds of the periodic snapshot may be over at any message.            *)
(***************************************************************************)
EXTENDS Naturals, Sequences, FiniteSets

CONSTANTS Device,
          Ethernet, OtherInterface, Neighbor,  \* the entities of a device
          State,         \* signatures of a complete entity
          Partial,       \* an entity with a required leaf missing
          Absent,        \* not in a table
          Deleted,       \* the signature of a deleted=True observation
          Capacity, NoBatch,
          MaxMessages    \* bound: notifications and sync responses received

Interface == Ethernet \cup OtherInterface
Entity    == Interface \cup Neighbor
Present   == State \cup {Partial}

ASSUME CollectorAssumption ==
    /\ Capacity \in Nat \ {0}
    /\ MaxMessages \in Nat
    /\ Absent \notin Present \cup {Deleted}
    /\ Deleted \notin Present

\* One document of each entity of a set.
Documents == UNION {[S -> Present \cup {Deleted}] : S \in SUBSET Entity}

ASSUME NoBatchAssumption == NoBatch \notin [device : Device, obs : Documents]

Uncounted(b) == 0     \* SinkAccounting does the counting

VARIABLES pc,         \* pc[d]: where the worker of d is
          view,       \* view[d]: what cache.snapshot() would return
          changed,    \* changed[d], gone[d]: what the last apply() returned
          gone,
          synced,     \* synced[d], the local of worker()
          persisted,  \* persisted[d]: persisted_states
          devices,    \* devices[d]: Metrics.devices without reception times
          synchronized,  \* Metrics.synchronized
          stop, queue, batch, loop, dropped,   \* of Sink
          history,    \* history[d]: of each entity the document readers find,
                      \* the one with the highest collected_at
          late,       \* late[d][e]: newer ones that raised writes may have left
                      \* on their way, in the order they were collected
          lost,       \* ghost: entities whose newest batch was not written
          messages    \* bound: messages received

INSTANCE Sink WITH Size <- Uncounted

Cache(d) == INSTANCE CacheContract
              WITH Key <- Entity, view <- view[d],
                   changed <- changed[d], gone <- gone[d]

local   == <<pc, view, changed, gone, synced, persisted>>
metrics == <<devices, synchronized>>
sink    == <<queue, batch, loop, dropped>>
stored  == <<history, late>>
vars    == <<local, metrics, stop, sink, stored, lost, messages>>

Nothing == [e \in Entity |-> Absent]

Init == /\ pc = [d \in Device |-> "top"]
        /\ view = [d \in Device |-> Nothing]
        /\ changed = [d \in Device |-> {}]
        /\ gone = [d \in Device |-> {}]
        /\ synced = [d \in Device |-> FALSE]
        /\ persisted = [d \in Device |-> Nothing]
        /\ devices = [d \in Device |-> Nothing]
        /\ synchronized = [d \in Device |-> FALSE]
        /\ stop = FALSE
        /\ SinkInit
        /\ history = [d \in Device |-> Nothing]
        /\ late = [d \in Device |-> [e \in Entity |-> <<>>]]
        /\ lost = [d \in Device |-> {}]
        /\ messages = 0

Goto(d, label) == pc' = [pc EXCEPT ![d] = label]

------------------------------------------------------------------------------
\* Metrics.disconnected and Metrics.update.
Disconnected(d) == /\ devices' = [devices EXCEPT ![d] = Nothing]
                   /\ synchronized' = [synchronized EXCEPT ![d] = FALSE]

\* The row of e after an update; mutant: a deleted entity stays in the table.
RowKept(old, e, present, deleted, snapshot) ==
    IF e \in present THEN snapshot[e] ELSE old

Row(old, e, present, deleted, snapshot) ==
    IF e \in present THEN snapshot[e] ELSE IF e \in deleted THEN Absent ELSE old

Update(d, present, deleted, snapshot) ==
    /\ devices' = [devices EXCEPT ![d] =
                     [e \in Entity |-> Row(@[e], e, present, deleted, snapshot)]]
    /\ synchronized' = [synchronized EXCEPT ![d] = TRUE]

\* sink.put; an empty list is not a batch.
Offer(d, obs) ==
    IF obs = <<>>
    THEN UNCHANGED <<sink, lost>>
    ELSE /\ Put([device |-> d, obs |-> obs])
         /\ lost' = [lost EXCEPT ![d] = IF Full THEN @ \cup DOMAIN obs
                                               ELSE @ \ DOMAIN obs]

Held(v)     == {e \in Entity : v[e] # Absent}
Snapshot(v) == [e \in Held(v) |-> v[e]]

\* cache.validate_sync
SyncValid(v) == /\ Held(v) \cap Interface # {}
                /\ Held(v) \cap Neighbor # {}
                /\ \A e \in Held(v) \ OtherInterface : v[e] # Partial

\* The entities of the last report; mutant: deletions are left out.
ReportedLiving(d) == changed[d]
Reported(d)       == changed[d] \cup gone[d]

\* The observations of the last report whose signature was not persisted yet.
Transitions(d) ==
    LET signature == [e \in Reported(d) |->
                        IF e \in gone[d] THEN Deleted ELSE view[d][e]]
    IN  [e \in {x \in DOMAIN signature : persisted[d][x] # signature[x]} |->
            signature[e]]

------------------------------------------------------------------------------
\* while not stop: the tables are cleared before every session.
Top(d) == /\ pc[d] = "top"
          /\ IF stop
             THEN Goto(d, "done")
                  /\ UNCHANGED <<view, changed, gone, synced, persisted, metrics>>
             ELSE /\ Goto(d, "connect")
                  /\ Disconnected(d)
                  /\ view' = [view EXCEPT ![d] = Nothing]
                  /\ changed' = [changed EXCEPT ![d] = {}]
                  /\ gone' = [gone EXCEPT ![d] = {}]
                  /\ synced' = [synced EXCEPT ![d] = FALSE]
                  /\ persisted' = [persisted EXCEPT ![d] = Nothing]
          /\ UNCHANGED <<stop, sink, stored, lost, messages>>

\* The dial and the subscription succeed, or raise.
Connect(d) == /\ pc[d] = "connect"
              /\ Goto(d, "reading") \/ Goto(d, "ending")
              /\ UNCHANGED <<view, changed, gone, synced, persisted, metrics,
                             stop, sink, stored, lost, messages>>

\* A message arrives after the stop event: the loop is left before it is read.
ReadStopped(d) == /\ pc[d] = "reading"
                  /\ stop
                  /\ Goto(d, "ending")
                  /\ UNCHANGED <<view, changed, gone, synced, persisted, metrics,
                                 stop, sink, stored, lost, messages>>

\* The loop goes on to the next message; mutant: also after the stop event.
ReadsAnyway(d) == pc[d] = "reading"
Reads(d)       == pc[d] = "reading" /\ ~stop

Receive(d) == /\ Reads(d)
              /\ messages < MaxMessages
              /\ messages' = messages + 1

\* An update: the cache reports, and a synchronized session publishes.
ReadUpdate(d) ==
    /\ Receive(d)
    /\ \E c, g \in SUBSET Entity :
         \E v \in [c -> Present] :
            /\ view' = [view EXCEPT ![d] =
                          [e \in Entity |-> IF e \in c THEN v[e]
                                            ELSE IF e \in g THEN Absent ELSE @[e]]]
            /\ changed' = [changed EXCEPT ![d] = c]
            /\ gone' = [gone EXCEPT ![d] = g]
    /\ Cache(d)!Report
    /\ IF synced[d]
       THEN Update(d, changed'[d], gone'[d], view'[d]) /\ Goto(d, "transitions")
       ELSE UNCHANGED <<metrics, pc>>
    /\ UNCHANGED <<synced, persisted, stop, sink, stored, lost>>

\* Transitions are remembered as persisted whether or not the queue took them.
PutTransitions(d) ==
    /\ pc[d] = "transitions"
    /\ Offer(d, Transitions(d))
    /\ persisted' = [persisted EXCEPT ![d] =
                       [e \in Entity |-> IF e \in DOMAIN Transitions(d)
                                         THEN Transitions(d)[e] ELSE @[e]]]
    /\ Goto(d, "reading") \/ Goto(d, "snapshot")
    /\ UNCHANGED <<view, changed, gone, synced, metrics, stop, stored, messages>>

\* Ten seconds since the last snapshot.
PutSnapshot(d) ==
    /\ pc[d] = "snapshot"
    /\ Offer(d, Snapshot(view[d]))
    /\ Goto(d, "reading")
    /\ UNCHANGED <<view, changed, gone, synced, persisted, metrics, stop, stored,
                   messages>>

\* A sync response: refuse an incomplete cache, publish a complete one.
ReadSync(d) ==
    /\ Receive(d)
    /\ IF SyncValid(view[d])
       THEN /\ synced' = [synced EXCEPT ![d] = TRUE]
            /\ Update(d, Held(view[d]), {}, view[d])
            /\ Goto(d, "initial")
       ELSE Goto(d, "ending") /\ UNCHANGED <<synced, metrics>>
    /\ UNCHANGED <<view, changed, gone, persisted, stop, sink, stored, lost>>

PutInitial(d) ==
    /\ pc[d] = "initial"
    /\ Offer(d, Snapshot(view[d]))
    /\ persisted' = [persisted EXCEPT ![d] = view[d]]
    /\ Goto(d, "reading")
    /\ UNCHANGED <<view, changed, gone, synced, metrics, stop, stored, messages>>

\* The device, the network or a message that cannot be decoded ends the stream.
StreamFails(d) == /\ pc[d] = "reading"
                  /\ Goto(d, "ending")
                  /\ UNCHANGED <<view, changed, gone, synced, persisted, metrics,
                                 stop, sink, stored, lost, messages>>

\* finally: the tables of the device are cleared, then stop.wait(delay).
End(d) == /\ pc[d] = "ending"
          /\ Disconnected(d)
          /\ Goto(d, "backoff")
          /\ UNCHANGED <<view, changed, gone, synced, persisted, stop, sink,
                         stored, lost, messages>>

Backoff(d) == /\ pc[d] = "backoff"
              /\ Goto(d, "top")
              /\ UNCHANGED <<view, changed, gone, synced, persisted, metrics, stop,
                             sink, stored, lost, messages>>

Worker(d) == \/ Top(d) \/ Connect(d) \/ ReadUpdate(d) \/ ReadSync(d)
             \/ PutTransitions(d) \/ PutSnapshot(d) \/ PutInitial(d)
             \/ ReadStopped(d) \/ End(d) \/ Backoff(d)

------------------------------------------------------------------------------
(* OpenSearch keeps every document; the dashboards and verify.py take the  *)
(* one with the highest collected_at, which rises with every batch of a    *)
(* device.  So a document shows unless a newer one is there already.       *)

\* The write returned: all its documents are stored, and nothing older that is
\* still on its way will show.
WriteBatch ==
    /\ Written
    /\ history' = [history EXCEPT ![batch.device] =
                     [e \in Entity |-> IF e \in DOMAIN batch.obs
                                       THEN batch.obs[e] ELSE @[e]]]
    /\ late' = [late EXCEPT ![batch.device] =
                  [e \in Entity |-> IF e \in DOMAIN batch.obs THEN <<>> ELSE @[e]]]
    /\ UNCHANGED lost

\* The write raised: a request of it may be processed later, in part or not at
\* all.  Its entities are lost unless a newer batch of them is waiting.
LoseBatch ==
    /\ Failed
    /\ late' = [late EXCEPT ![batch.device] =
                  [e \in Entity |-> IF e \in DOMAIN batch.obs
                                    THEN Append(@[e], batch.obs[e]) ELSE @[e]]]
    /\ LET waiting == {i \in 1 .. Len(queue) : queue[i].device = batch.device}
           newer == UNION {DOMAIN queue[i].obs : i \in waiting}
       IN  lost' = [lost EXCEPT ![batch.device] = @ \cup (DOMAIN batch.obs \ newer)]
    /\ UNCHANGED history

SinkThread == /\ \/ (Check \/ Get \/ GetTimeout) /\ UNCHANGED <<stored, lost>>
                 \/ WriteBatch
                 \/ LoseBatch
              /\ UNCHANGED <<local, metrics, stop, messages>>

\* A document of a write that raised is indexed after all, at whatever time; the
\* older ones on their way will not show any more.
Arrive(d, e) ==
    /\ \E i \in 1 .. Len(late[d][e]) :
          /\ history' = [history EXCEPT ![d][e] = late[d][e][i]]
          /\ late' = [late EXCEPT ![d][e] = SubSeq(@, i + 1, Len(@))]
    /\ UNCHANGED <<local, metrics, stop, sink, lost, messages>>

\* SIGTERM or SIGINT
Stop == /\ ~stop
        /\ stop' = TRUE
        /\ UNCHANGED <<local, metrics, sink, stored, lost, messages>>

Next == \/ \E d \in Device : Worker(d) \/ StreamFails(d)
        \/ SinkThread
        \/ \E d \in Device, e \in Entity : Arrive(d, e)
        \/ Stop

\* That the threads end is shown where their timing is: Session and
\* SinkAccounting.
Spec == Init /\ [][Next]_vars
==============================================================================
