--------------------------- MODULE CollectorProofs ---------------------------
(***************************************************************************)
(* What the collector promises holds for every number of devices, entities *)
(* and messages and for every capacity of the queue.                       *)
(***************************************************************************)
EXTENDS CollectorProps, TLAPS, SequenceTheorems, FiniteSetTheorems

Document == Present \cup {Deleted}
Batch    == [device : Device, obs : Documents]
Label    == {"top", "connect", "reading", "transitions", "snapshot", "initial",
             "ending", "backoff", "done"}

LocalTypes == /\ pc \in [Device -> Label]
              /\ view \in [Device -> [Entity -> Present \cup {Absent}]]
              /\ changed \in [Device -> SUBSET Entity]
              /\ gone \in [Device -> SUBSET Entity]
              /\ synced \in [Device -> BOOLEAN]
              /\ persisted \in [Device -> [Entity -> Document \cup {Absent}]]

SharedTypes == /\ devices \in [Device -> [Entity -> Present \cup {Absent}]]
               /\ synchronized \in [Device -> BOOLEAN]
               /\ stop \in BOOLEAN
               /\ queue \in Seq(Batch)
               /\ loop \in {"check", "get", "write", "exited"}
               /\ batch \in IF loop = "write" THEN Batch ELSE {NoBatch}
               /\ history \in [Device -> [Entity -> Document \cup {Absent}]]
               /\ late \in [Device -> [Entity -> Seq(Document)]]
               /\ lost \in [Device -> SUBSET Entity]

TypeInv == LocalTypes /\ SharedTypes

\* The exporter's rows, that a session begins unsynchronized, and that only a
\* synchronized one publishes.
Mirrors(d) ==
    LET published == synced[d] /\ pc[d] \in InSession
    IN  /\ devices[d] = IF published THEN view[d] ELSE Nothing
        /\ synchronized[d] <=> published
        /\ pc[d] = "connect" => ~synced[d]
        /\ pc[d] \in {"transitions", "snapshot"} => synced[d]

ExporterInv == \A d \in Device : Mirrors(d)

\* The entities of the last report: the ones that changed are held, the ones
\* that are gone are not.
Consistent(d) == /\ \A e \in changed[d] : view[d][e] # Absent /\ e \notin gone[d]
                 /\ \A e \in gone[d] : view[d][e] = Absent

\* The transition log agrees with the cache about e.
Logged(d, e) == /\ view[d][e] # Absent => persisted[d][e] = view[d][e]
                /\ view[d][e] = Absent => persisted[d][e] \in {Deleted, Absent}

\* It does between two messages; while a report is being put, it does about
\* everything else.
LogInv ==
    \A d \in Device :
       /\ pc[d] = "transitions" => Consistent(d)
       /\ synced[d] /\ pc[d] \in {"reading", "snapshot"} => \A e \in Entity : Logged(d, e)
       /\ synced[d] /\ pc[d] = "transitions" =>
             \A e \in Entity \ Reported(d) : Logged(d, e)

\* Where the newest document of entity e of device d is: in the last batch of
\* the queue that has one, in the hands of the sink thread, or stored, and then
\* no newer one of a raised write is on its way.
Waiting(d, e) == {i \in 1 .. Len(queue) : queue[i].device = d /\ e \in DOMAIN queue[i].obs}

InHand(d, e) == loop = "write" /\ batch.device = d /\ e \in DOMAIN batch.obs

Newest(d, e, doc) ==
    \/ \E i \in Waiting(d, e) : /\ \A j \in Waiting(d, e) : j <= i
                                /\ queue[i].obs[e] = doc
    \/ /\ Waiting(d, e) = {}
       /\ IF InHand(d, e) THEN batch.obs[e] = doc
                          ELSE history[d][e] = doc /\ late[d][e] = <<>>

\* Unless it was lost, the newest document of an entity is the one the
\* transition log remembers.
HistoryInv ==
    \A d \in Device, e \in Entity, doc \in Document :
       persisted[d][e] = doc /\ e \notin lost[d] => Newest(d, e, doc)

\* How many batches a worker can have put since the sink thread found the queue
\* empty.
Allowance(d) == CASE pc[d] \in {"transitions", "initial"} -> 0
                  [] pc[d] = "snapshot" -> 1
                  [] OTHER -> 2

StopInv == loop = "exited" =>
              /\ stop
              /\ \A d \in Device : Cardinality(Batches(d)) <= Allowance(d)

IInv == TypeInv /\ ExporterInv /\ LogInv /\ HistoryInv /\ StopInv

------------------------------------------------------------------------------
\* Data: what a snapshot and the transitions are made of.
LEMMA SnapshotIsDocuments ==
    ASSUME NEW v \in [Entity -> Present \cup {Absent}]
    PROVE  /\ Snapshot(v) \in Documents
           /\ DOMAIN Snapshot(v) = Held(v)
           /\ \A e \in Held(v) : Snapshot(v)[e] = v[e]
<1>1. /\ Held(v) \subseteq Entity
      /\ \A e \in Held(v) : v[e] \in Present \cup {Deleted}
  BY DEF Held
<1>2. Snapshot(v) \in [Held(v) -> Present \cup {Deleted}]
  BY <1>1 DEF Snapshot
<1>3. QED
  BY <1>1, <1>2 DEF Snapshot, Documents

\* transitions() reports what differs from what was persisted, and the rest agrees.
LEMMA TransitionsAreDocuments ==
    ASSUME TypeInv, NEW d \in Device, Consistent(d)
    PROVE  /\ Transitions(d) \in Documents
           /\ DOMAIN Transitions(d) \subseteq Reported(d)
           /\ \A e \in DOMAIN Transitions(d) :
                 Transitions(d)[e] = IF e \in gone[d] THEN Deleted ELSE view[d][e]
           /\ \A e \in Reported(d) \ DOMAIN Transitions(d) :
                 persisted[d][e] = IF e \in gone[d] THEN Deleted ELSE view[d][e]
<1> DEFINE signature == [e \in Reported(d) |-> IF e \in gone[d] THEN Deleted ELSE view[d][e]]
           news == {x \in DOMAIN signature : persisted[d][x] # signature[x]}
<1>1. Transitions(d) = [e \in news |-> signature[e]]
  BY DEF Transitions
<1>2. /\ news \subseteq Reported(d) /\ Reported(d) \subseteq Entity
      /\ \A e \in Reported(d) : signature[e] = IF e \in gone[d] THEN Deleted ELSE view[d][e]
  BY DEF Reported, TypeInv, LocalTypes
<1>3. \A e \in Reported(d) : signature[e] \in Present \cup {Deleted}
  BY <1>2 DEF Reported, Consistent, TypeInv, LocalTypes
<1>4. \A e \in Reported(d) \ news : persisted[d][e] = signature[e]
  OBVIOUS
<1> HIDE DEF signature, news
<1>5. Transitions(d) \in [news -> Present \cup {Deleted}] /\ DOMAIN Transitions(d) = news
  BY <1>1, <1>2, <1>3
<1>6. Transitions(d) \in Documents
  BY <1>2, <1>5 DEF Documents
<1>7. QED
  BY <1>1, <1>2, <1>4, <1>5, <1>6

\* What the queue holds are batches.
LEMMA QueueElements ==
    ASSUME TypeInv
    PROVE  /\ Len(queue) \in Nat
           /\ \A i \in 1 .. Len(queue) : /\ queue[i].device \in Device
                                         /\ queue[i].obs \in Documents
<1>1. \A i \in 1 .. Len(queue) : queue[i] \in Batch
  BY ElementOfSeq DEF TypeInv, SharedTypes
<1>2. QED
  BY <1>1 DEF TypeInv, SharedTypes, Batch

------------------------------------------------------------------------------
\* What one call of sink.put does to the queue and to the ghost of what was lost.
LEMMA OfferStep ==
    ASSUME TypeInv, NEW d \in Device, NEW obs \in Documents, Offer(d, obs)
    PROVE  /\ queue' \in Seq(Batch) /\ lost' \in [Device -> SUBSET Entity]
           /\ UNCHANGED <<loop, batch>>
           /\ \A x \in Device, e \in Entity : x # d \/ e \notin DOMAIN obs =>
                 /\ e \in lost'[x] <=> e \in lost[x]
                 /\ Waiting(x, e)' = Waiting(x, e)
                 /\ \A i \in Waiting(x, e) : queue'[i] = queue[i]
           /\ \A e \in DOMAIN obs : e \in lost'[d] \/ Newest(d, e, obs[e])'
           /\ \A x \in Device : Batches(x)' \subseteq
                 Batches(x) \cup (IF x = d THEN {Len(queue) + 1} ELSE {})
<1> DEFINE b == [device |-> d, obs |-> obs]
<1>1. b \in Batch /\ b.device = d /\ b.obs = obs
  BY DEF Batch
<1>2. DOMAIN obs \subseteq Entity
  BY DEF Documents
<1>3. queue \in Seq(Batch) /\ lost \in [Device -> SUBSET Entity] /\ Len(queue) \in Nat
  BY DEF TypeInv, SharedTypes
<1>4. \/ /\ UNCHANGED queue
         /\ lost' \in [Device -> SUBSET Entity]
         /\ \A e \in DOMAIN obs : e \in lost'[d]
      \/ /\ queue' = Append(queue, b)
         /\ lost' \in [Device -> SUBSET Entity]
  BY <1>2, <1>3 DEF Offer, Put, sink
<1>5. /\ UNCHANGED <<loop, batch>>
      /\ \A x \in Device, e \in Entity :
            x # d \/ e \notin DOMAIN obs => (e \in lost'[x] <=> e \in lost[x])
  BY <1>2, <1>3 DEF Offer, Put, sink
<1> HIDE DEF b
<1>6. CASE UNCHANGED queue /\ \A e \in DOMAIN obs : e \in lost'[d]
  BY <1>3, <1>4, <1>5, <1>6 DEF Waiting, Batches
<1>7. CASE queue' = Append(queue, b)
  <2>1. /\ queue' \in Seq(Batch) /\ Len(queue') = Len(queue) + 1
        /\ \A i \in 1 .. Len(queue) : queue'[i] = queue[i]
        /\ queue'[Len(queue) + 1] = b
    BY <1>1, <1>3, <1>7, AppendProperties
  <2>2. \A i \in 1 .. Len(queue') : \/ i \in 1 .. Len(queue)
                                    \/ i = Len(queue) + 1
    BY <1>3, <2>1
  <2>3. 1 .. Len(queue) \subseteq 1 .. Len(queue') /\ Len(queue) + 1 \in 1 .. Len(queue')
    BY <1>3, <2>1
  <2>4. ASSUME NEW x \in Device, NEW e \in Entity, x # d \/ e \notin DOMAIN obs
        PROVE  /\ Waiting(x, e)' = Waiting(x, e)
               /\ \A i \in Waiting(x, e) : queue'[i] = queue[i]
    BY <1>1, <2>1, <2>2, <2>3, <2>4 DEF Waiting
  <2>5. ASSUME NEW e \in DOMAIN obs PROVE Newest(d, e, obs[e])'
    <3>1. Len(queue) + 1 \in Waiting(d, e)'
      BY <1>1, <2>1, <2>3, <2>5 DEF Waiting
    <3>2. \A j \in Waiting(d, e)' : j <= Len(queue) + 1
      BY <1>3, <2>2 DEF Waiting
    <3>3. queue'[Len(queue) + 1].obs[e] = obs[e]
      BY <1>1, <2>1
    <3>4. QED
      BY <3>1, <3>2, <3>3 DEF Newest
  <2>6. \A x \in Device : Batches(x)' \subseteq
           Batches(x) \cup (IF x = d THEN {Len(queue) + 1} ELSE {})
    BY <1>1, <2>1, <2>2 DEF Batches
  <2>7. QED
    BY <1>4, <1>5, <2>1, <2>4, <2>5, <2>6
<1>8. QED
  BY <1>4, <1>6, <1>7

\* If the worker remembers what it offers, the log and the history agree again.
LEMMA OfferKeepsHistory ==
    ASSUME TypeInv, HistoryInv, NEW d \in Device, NEW obs \in Documents, Offer(d, obs),
           UNCHANGED stored,
           \A e \in DOMAIN obs : persisted'[d][e] = obs[e],
           \A x \in Device, e \in Entity : x # d \/ e \notin DOMAIN obs =>
              persisted'[x][e] \in {persisted[x][e], Absent}
    PROVE  HistoryInv'
<1> SUFFICES ASSUME NEW x \in Device, NEW e \in Entity, NEW doc \in Document,
                    persisted'[x][e] = doc, e \notin lost'[x]
             PROVE  Newest(x, e, doc)'
  BY DEF HistoryInv
<1>1. CASE x = d /\ e \in DOMAIN obs
  <2>1. obs[e] = doc /\ Newest(d, e, obs[e])'
    BY <1>1, OfferStep
  <2>2. QED
    BY <1>1, <2>1
<1>2. CASE x # d \/ e \notin DOMAIN obs
  <2>1. /\ persisted[x][e] = doc /\ e \notin lost[x]
        /\ Waiting(x, e)' = Waiting(x, e)
        /\ \A i \in Waiting(x, e) : queue'[i] = queue[i]
        /\ UNCHANGED <<loop, batch>>
    BY <1>2, OfferStep, CollectorAssumption DEF Document
  <2>2. Newest(x, e, doc)
    BY <2>1 DEF HistoryInv
  <2>3. QED
    BY <2>1, <2>2 DEF Newest, InHand, stored
<1>3. QED
  BY <1>1, <1>2

\* A worker that puts a batch uses up one of its allowance.
LEMMA OfferKeepsStop ==
    ASSUME TypeInv, StopInv, NEW d \in Device, NEW obs \in Documents, Offer(d, obs),
           NEW label \in {"reading", "snapshot"}, Goto(d, label), UNCHANGED stop,
           pc[d] \in {"transitions", "initial"} \/ (pc[d] = "snapshot" /\ label = "reading")
    PROVE  StopInv'
<1> SUFFICES ASSUME loop' = "exited"
             PROVE  stop' /\ \A x \in Device : Cardinality(Batches(x)') <= Allowance(x)'
  BY DEF StopInv
<1>1. /\ loop = "exited" /\ queue' \in Seq(Batch)
      /\ \A x \in Device : Batches(x)' \subseteq
            Batches(x) \cup (IF x = d THEN {Len(queue) + 1} ELSE {})
  BY OfferStep
<1>2. pc'[d] = label /\ \A x \in Device \ {d} : pc'[x] = pc[x]
  BY DEF Goto, TypeInv, LocalTypes
<1>3. ASSUME NEW x \in Device PROVE Cardinality(Batches(x)') <= Allowance(x)'
  <2>1. IsFiniteSet(Batches(x)) /\ Cardinality(Batches(x)) \in Nat
    <3>1. IsFiniteSet(1 .. Len(queue))
      BY QueueElements, FS_Interval
    <3>2. QED
      BY <3>1, FS_Subset, FS_CardinalityType DEF Batches
  <2>2. Cardinality(Batches(x)) <= Allowance(x)
    BY <1>1 DEF StopInv
  <2>3. CASE x # d
    <3>1. Cardinality(Batches(x)') <= Cardinality(Batches(x)) /\ Cardinality(Batches(x)') \in Nat
      BY <1>1, <2>1, <2>3, FS_Subset, FS_CardinalityType
    <3>2. Allowance(x)' = Allowance(x) /\ Allowance(x) \in Nat
      BY <1>2, <2>3 DEF Allowance
    <3>3. QED
      BY <2>1, <2>2, <3>1, <3>2
  <2>4. CASE x = d
    <3> DEFINE more == Batches(d) \cup {Len(queue) + 1}
    <3>1. IsFiniteSet(more) /\ Cardinality(more) <= Cardinality(Batches(d)) + 1
      <4>1. /\ IsFiniteSet(more)
            /\ \/ Cardinality(more) = Cardinality(Batches(d))
               \/ Cardinality(more) = Cardinality(Batches(d)) + 1
        BY <2>1, <2>4, FS_AddElement
      <4> HIDE DEF more
      <4>2. QED
        BY <4>1, <2>1, <2>4
    <3>2. Cardinality(more) \in Nat /\ Cardinality(Batches(d)') \in Nat
          /\ Cardinality(Batches(d)') <= Cardinality(more)
      BY <1>1, <2>4, <3>1, FS_Subset, FS_CardinalityType
    <3>3. Allowance(d) + 1 <= Allowance(d)' /\ Allowance(d) \in Nat /\ Allowance(d)' \in Nat
      BY <1>2 DEF Allowance
    <3> HIDE DEF more
    <3>4. QED
      BY <2>1, <2>2, <2>4, <3>1, <3>2, <3>3
  <2>5. QED
    BY <2>3, <2>4
<1>4. QED
  BY <1>1, <1>3 DEF StopInv

------------------------------------------------------------------------------
\* The sink thread.  It leaves the workers' variables alone.
LEMMA SinkKeepsWorkers ==
    ASSUME IInv, UNCHANGED <<local, metrics>>
    PROVE  LocalTypes' /\ ExporterInv' /\ LogInv'
           /\ devices' \in [Device -> [Entity -> Present \cup {Absent}]]
           /\ synchronized' \in [Device -> BOOLEAN]
<1> USE DEF IInv, TypeInv, local, metrics
<1>1. LocalTypes'
  BY DEF LocalTypes
<1>2. ExporterInv'
  BY DEF ExporterInv, Mirrors
<1>3. LogInv'
  BY DEF LogInv, Consistent, Logged, Reported
<1>4. QED
  BY <1>1, <1>2, <1>3 DEF SharedTypes

\* The thread takes the oldest batch: what waited in it is in its hands now.
LEMMA GetKeepsInv ==
    ASSUME IInv, Get, UNCHANGED <<history, late, lost, local, metrics, stop, messages>>
    PROVE  IInv'
<1>1. /\ loop = "get" /\ loop' = "write" /\ queue # <<>>
      /\ batch' = Head(queue) /\ queue' = Tail(queue)
      /\ queue \in Seq(Batch)
  BY DEF Get, IInv, TypeInv, SharedTypes
<1>2. /\ queue' \in Seq(Batch) /\ Len(queue) \in Nat \ {0} /\ Len(queue') = Len(queue) - 1
      /\ batch' = queue[1] /\ batch' \in Batch
      /\ \A i \in 1 .. Len(queue') : i + 1 \in 1 .. Len(queue) /\ queue'[i] = queue[i + 1]
  BY <1>1
<1>3. \A i \in 1 .. Len(queue) : i = 1 \/ i - 1 \in 1 .. Len(queue')
  BY <1>2
<1>4. TypeInv'
  BY <1>1, <1>2, SinkKeepsWorkers DEF IInv, TypeInv, SharedTypes
<1>5. HistoryInv'
  <2> SUFFICES ASSUME NEW d \in Device, NEW e \in Entity, NEW doc \in Document,
                      persisted[d][e] = doc, e \notin lost[d]
               PROVE  Newest(d, e, doc)'
    BY DEF HistoryInv, local
  <2>1. Newest(d, e, doc)
    BY DEF IInv, HistoryInv
  <2>2. ~InHand(d, e)
    BY <1>1 DEF InHand
  <2>3. ASSUME NEW i \in Waiting(d, e), i # 1
        PROVE  i - 1 \in Waiting(d, e)' /\ queue'[i - 1] = queue[i]
    <3>1. i \in 1 .. Len(queue) /\ i - 1 \in 1 .. Len(queue') /\ (i - 1) + 1 = i
      BY <1>2, <1>3, <2>3 DEF Waiting
    <3>2. QED
      BY <1>2, <3>1 DEF Waiting
  <2>4. \A i \in Waiting(d, e)' : i \in Int /\ i + 1 \in Waiting(d, e)
    BY <1>2 DEF Waiting
  <2>5. CASE Waiting(d, e) = {}
    <3>1. Waiting(d, e)' = {} /\ ~InHand(d, e)'
      <4>1. 1 \in 1 .. Len(queue)
        BY <1>2
      <4>2. ~InHand(d, e)'
        BY <1>2, <2>5, <4>1 DEF InHand, Waiting
      <4>3. QED
        BY <2>4, <2>5, <4>2
    <3>2. QED
      BY <2>1, <2>2, <2>5, <3>1 DEF Newest
  <2>6. ASSUME NEW i \in Waiting(d, e), \A j \in Waiting(d, e) : j <= i, queue[i].obs[e] = doc
        PROVE  Newest(d, e, doc)'
    <3>1. i \in Int
      BY DEF Waiting
    <3>2. CASE i = 1
      <4>1. Waiting(d, e)' = {}
        <5>1. SUFFICES ASSUME NEW j \in Waiting(d, e)' PROVE FALSE
          OBVIOUS
        <5>2. j + 1 <= 1 /\ j \in 1 .. Len(queue')
          BY <2>4, <2>6, <3>2 DEF Waiting
        <5>3. QED
          BY <5>2
      <4>2. InHand(d, e)' /\ batch'.obs[e] = doc
        BY <1>1, <1>2, <2>6, <3>2 DEF InHand, Waiting
      <4>3. QED
        BY <4>1, <4>2 DEF Newest
    <3>3. CASE i # 1
      <4>1. i - 1 \in Waiting(d, e)' /\ queue'[i - 1].obs[e] = doc
        BY <2>3, <2>6, <3>3
      <4>2. \A j \in Waiting(d, e)' : j <= i - 1
        BY <2>4, <2>6, <3>1
      <4>3. QED
        BY <4>1, <4>2 DEF Newest
    <3>4. QED
      BY <3>2, <3>3
  <2>7. QED
    BY <2>1, <2>5, <2>6 DEF Newest
<1>6. StopInv'
  BY <1>1 DEF StopInv
<1>7. QED
  BY <1>4, <1>5, <1>6, SinkKeepsWorkers DEF IInv

\* What the sink thread has to leave behind it when it lets go of a batch: every
\* entity without a newer document waiting shows the batch's, or is counted among
\* the lost; the others stay as they were.
LEMMA ReleaseKeepsInv ==
    ASSUME IInv, loop = "write", loop' = "check", batch' = NoBatch,
           history' \in [Device -> [Entity -> Document \cup {Absent}]],
           late' \in [Device -> [Entity -> Seq(Document)]],
           lost' \in [Device -> SUBSET Entity],
           \A d \in Device : lost[d] \subseteq lost'[d],
           \A d \in Device, e \in Entity :
              IF d = batch.device /\ e \in DOMAIN batch.obs
              THEN \/ e \in lost'[d]
                   \/ Waiting(d, e) # {}
                   \/ history'[d][e] = batch.obs[e] /\ late'[d][e] = <<>>
              ELSE history'[d][e] = history[d][e] /\ late'[d][e] = late[d][e],
           UNCHANGED <<queue, local, metrics, stop>>
    PROVE  IInv'
<1>1. TypeInv'
  BY SinkKeepsWorkers DEF IInv, TypeInv, SharedTypes
<1>2. HistoryInv'
  <2> SUFFICES ASSUME NEW d \in Device, NEW e \in Entity, NEW doc \in Document,
                      persisted[d][e] = doc, e \notin lost'[d]
               PROVE  Newest(d, e, doc)'
    BY DEF HistoryInv, local
  <2>1. Newest(d, e, doc)
    BY DEF IInv, HistoryInv
  <2>2. Waiting(d, e)' = Waiting(d, e) /\ ~InHand(d, e)'
    BY DEF Waiting, InHand
  <2>3. CASE Waiting(d, e) # {}
    BY <2>1, <2>2, <2>3 DEF Newest
  <2>4. CASE Waiting(d, e) = {}
    <3>1. IF InHand(d, e) THEN batch.obs[e] = doc
                          ELSE history[d][e] = doc /\ late[d][e] = <<>>
      BY <2>1, <2>4 DEF Newest
    <3>2. history'[d][e] = doc /\ late'[d][e] = <<>>
      BY <2>4, <3>1 DEF InHand
    <3>3. QED
      BY <2>2, <2>4, <3>2 DEF Newest
  <2>5. QED
    BY <2>3, <2>4
<1>3. StopInv'
  BY DEF StopInv
<1>4. QED
  BY <1>1, <1>2, <1>3, SinkKeepsWorkers DEF IInv

\* A batch in the hands of the thread is made of documents of entities.
LEMMA HandIsDocuments ==
    ASSUME IInv, loop = "write"
    PROVE  /\ batch.device \in Device
           /\ DOMAIN batch.obs \subseteq Entity
           /\ \A e \in DOMAIN batch.obs : batch.obs[e] \in Document
BY DEF IInv, TypeInv, SharedTypes, Batch, Documents, Document

\* A write that returned has stored everything, and what raised writes left on its
\* way is older.
LEMMA WriteKeepsInv ==
    ASSUME IInv, WriteBatch, UNCHANGED <<local, metrics, stop>>
    PROVE  IInv'
<1>1. /\ loop = "write" /\ loop' = "check" /\ batch' = NoBatch /\ UNCHANGED <<queue, lost>>
      /\ history' = [history EXCEPT ![batch.device] =
                        [e \in Entity |-> IF e \in DOMAIN batch.obs
                                          THEN batch.obs[e] ELSE @[e]]]
      /\ late' = [late EXCEPT ![batch.device] =
                     [e \in Entity |-> IF e \in DOMAIN batch.obs THEN <<>> ELSE @[e]]]
  BY DEF WriteBatch, Written
<1>2. /\ batch.device \in Device
      /\ DOMAIN batch.obs \subseteq Entity
      /\ \A e \in DOMAIN batch.obs : batch.obs[e] \in Document
  BY <1>1, HandIsDocuments
<1>3. /\ history \in [Device -> [Entity -> Document \cup {Absent}]]
      /\ late \in [Device -> [Entity -> Seq(Document)]]
      /\ lost \in [Device -> SUBSET Entity]
  BY DEF IInv, TypeInv, SharedTypes
<1>4. <<>> \in Seq(Document)
  OBVIOUS
<1>5. history' \in [Device -> [Entity -> Document \cup {Absent}]]
  BY <1>1, <1>2, <1>3
<1>6. late' \in [Device -> [Entity -> Seq(Document)]]
  BY <1>1, <1>2, <1>3, <1>4
<1>7. \A d \in Device, e \in Entity :
         IF d = batch.device /\ e \in DOMAIN batch.obs
         THEN history'[d][e] = batch.obs[e] /\ late'[d][e] = <<>>
         ELSE history'[d][e] = history[d][e] /\ late'[d][e] = late[d][e]
  BY <1>1, <1>2, <1>3
<1>8. QED
  BY <1>1, <1>3, <1>5, <1>6, <1>7, ReleaseKeepsInv

\* A write that raised leaves its documents on their way, and no entity without a
\* newer document waiting out of the lost.
LEMMA LoseKeepsInv ==
    ASSUME IInv, LoseBatch, UNCHANGED <<local, metrics, stop>>
    PROVE  IInv'
<1> DEFINE waiting == {i \in 1 .. Len(queue) : queue[i].device = batch.device}
           newer == UNION {DOMAIN queue[i].obs : i \in waiting}
<1>1. /\ loop = "write" /\ loop' = "check" /\ batch' = NoBatch /\ UNCHANGED <<queue, history>>
      /\ late' = [late EXCEPT ![batch.device] =
                     [e \in Entity |-> IF e \in DOMAIN batch.obs
                                       THEN Append(@[e], batch.obs[e]) ELSE @[e]]]
      /\ lost' = [lost EXCEPT ![batch.device] = @ \cup (DOMAIN batch.obs \ newer)]
  BY DEF LoseBatch, Failed
<1>2. /\ batch.device \in Device
      /\ DOMAIN batch.obs \subseteq Entity
      /\ \A e \in DOMAIN batch.obs : batch.obs[e] \in Document
  BY <1>1, HandIsDocuments
<1>3. /\ history \in [Device -> [Entity -> Document \cup {Absent}]]
      /\ late \in [Device -> [Entity -> Seq(Document)]]
      /\ lost \in [Device -> SUBSET Entity]
  BY DEF IInv, TypeInv, SharedTypes
<1>4. \A e \in newer : Waiting(batch.device, e) # {}
  BY DEF Waiting
<1> HIDE DEF newer
<1>5. /\ lost' \in [Device -> SUBSET Entity]
      /\ \A d \in Device : lost[d] \subseteq lost'[d]
      /\ \A e \in DOMAIN batch.obs :
            e \in lost'[batch.device] \/ Waiting(batch.device, e) # {}
  BY <1>1, <1>2, <1>3, <1>4
<1>6. \A e \in DOMAIN batch.obs : Append(late[batch.device][e], batch.obs[e]) \in Seq(Document)
  BY <1>2, <1>3, AppendProperties
<1>7. late' \in [Device -> [Entity -> Seq(Document)]]
  BY <1>1, <1>2, <1>3, <1>6
<1>8. \A d \in Device, e \in Entity :
         ~ (d = batch.device /\ e \in DOMAIN batch.obs) => late'[d][e] = late[d][e]
  BY <1>1, <1>2, <1>3
<1>9. QED
  BY <1>1, <1>3, <1>5, <1>7, <1>8, ReleaseKeepsInv

\* A late document of a raised write shows: of that entity the newest document is
\* waiting, in hand or lost, otherwise none would be on its way.
LEMMA ArriveKeepsInv ==
    ASSUME IInv, NEW d \in Device, NEW e \in Entity, Arrive(d, e)
    PROVE  IInv'
<1>1. PICK i \in 1 .. Len(late[d][e]) :
         /\ history' = [history EXCEPT ![d][e] = late[d][e][i]]
         /\ late' = [late EXCEPT ![d][e] = SubSeq(@, i + 1, Len(@))]
  BY DEF Arrive
<1>2. UNCHANGED <<local, metrics, stop, queue, batch, loop, lost>>
  BY DEF Arrive, sink
<1>3. /\ history \in [Device -> [Entity -> Document \cup {Absent}]]
      /\ late \in [Device -> [Entity -> Seq(Document)]]
      /\ late[d][e] \in Seq(Document) /\ late[d][e] # <<>>
  BY <1>1 DEF IInv, TypeInv, SharedTypes
<1>4. late[d][e][i] \in Document
  BY <1>3, ElementOfSeq
<1>5. SubSeq(late[d][e], i + 1, Len(late[d][e])) \in Seq(Document)
  <2>1. \A j \in i + 1 .. Len(late[d][e]) : late[d][e][j] \in Document
    BY <1>3, ElementOfSeq
  <2>2. QED
    BY <1>3, <2>1, SubSeqProperties
<1>6. TypeInv'
  <2>1. history' \in [Device -> [Entity -> Document \cup {Absent}]]
    BY <1>1, <1>3, <1>4
  <2>2. late' \in [Device -> [Entity -> Seq(Document)]]
    BY <1>1, <1>3, <1>5
  <2>3. QED
    BY <1>2, <2>1, <2>2, SinkKeepsWorkers DEF IInv, TypeInv, SharedTypes
<1>7. HistoryInv'
  <2> SUFFICES ASSUME NEW x \in Device, NEW f \in Entity, NEW doc \in Document,
                      persisted[x][f] = doc, f \notin lost[x]
               PROVE  Newest(x, f, doc)'
    BY <1>2 DEF HistoryInv, local
  <2>1. Newest(x, f, doc)
    BY DEF IInv, HistoryInv
  <2>2. Waiting(x, f)' = Waiting(x, f) /\ InHand(x, f)' = InHand(x, f)
    BY <1>2 DEF Waiting, InHand
  <2>3. x # d \/ f # e => history'[x][f] = history[x][f] /\ late'[x][f] = late[x][f]
    BY <1>1, <1>3
  <2>4. QED
    BY <1>2, <1>3, <2>1, <2>2, <2>3 DEF Newest
<1>8. StopInv'
  BY <1>2 DEF IInv, StopInv, Batches, Allowance, local
<1>9. QED
  BY <1>2, <1>6, <1>7, <1>8, SinkKeepsWorkers DEF IInv

\* The sink thread.
LEMMA SinkStep ==
    ASSUME IInv, SinkThread
    PROVE  IInv'
<1>1. UNCHANGED <<local, metrics, stop, messages>>
  BY DEF SinkThread
<1>2. ASSUME UNCHANGED <<queue, batch, history, late, lost>>,
             loop \in {"check", "get"}, loop' \in {"check", "get", "exited"},
             loop' = "exited" => stop /\ queue = <<>>
      PROVE  IInv'
  <2>1. TypeInv'
    BY <1>1, <1>2, SinkKeepsWorkers DEF IInv, TypeInv, SharedTypes
  <2>2. HistoryInv'
    BY <1>1, <1>2 DEF IInv, HistoryInv, Newest, Waiting, InHand, local
  <2>3. StopInv'
    <3>1. SUFFICES ASSUME loop' = "exited", NEW d \in Device
                   PROVE  Cardinality(Batches(d)') <= Allowance(d)'
      BY <1>1, <1>2 DEF StopInv
    <3>2. Batches(d)' = {}
      BY <1>2, <3>1 DEF Batches
    <3>3. Cardinality(Batches(d)') = 0 /\ Allowance(d)' \in Nat
      BY <3>2, FS_EmptySet DEF Allowance
    <3>4. QED
      BY <3>3
  <2>4. QED
    BY <1>1, <2>1, <2>2, <2>3, SinkKeepsWorkers DEF IInv
<1>3. CASE Check /\ UNCHANGED <<stored, lost>>
  BY <1>2, <1>3 DEF Check, stored
<1>4. CASE GetTimeout /\ UNCHANGED <<stored, lost>>
  BY <1>2, <1>4 DEF GetTimeout, stored
<1>5. CASE Get /\ UNCHANGED <<stored, lost>>
  BY <1>1, <1>5, GetKeepsInv DEF stored
<1>6. CASE WriteBatch
  BY <1>1, <1>6, WriteKeepsInv
<1>7. CASE LoseBatch
  BY <1>1, <1>7, LoseKeepsInv
<1>8. QED
  BY <1>3, <1>4, <1>5, <1>6, <1>7 DEF SinkThread

------------------------------------------------------------------------------
\* The worker.  Two facts serve the steps that put nothing into the queue.
LEMMA HistoryStays ==
    ASSUME HistoryInv,
           UNCHANGED <<queue, batch, loop, stored, lost>>,
           \A x \in Device, e \in Entity : persisted'[x][e] \in {persisted[x][e], Absent}
    PROVE  HistoryInv'
<1> SUFFICES ASSUME NEW x \in Device, NEW e \in Entity, NEW doc \in Document,
                    persisted'[x][e] = doc, e \notin lost[x]
             PROVE  Newest(x, e, doc)'
  BY DEF HistoryInv
<1>1. persisted[x][e] = doc
  BY CollectorAssumption DEF CollectorAssumption, Document
<1>2. Newest(x, e, doc)
  BY <1>1 DEF HistoryInv
<1>3. QED
  BY <1>2 DEF Newest, Waiting, InHand, stored

\* A worker that goes on without a put stays within what it may still put.
LEMMA StopStays ==
    ASSUME TypeInv, StopInv, NEW d \in Device, NEW label \in Label, Goto(d, label),
           label \in {"transitions", "initial", "snapshot"} => ~stop,
           UNCHANGED <<queue, loop, stop>>
    PROVE  StopInv'
<1> SUFFICES ASSUME loop = "exited", NEW x \in Device
             PROVE  stop /\ Cardinality(Batches(x)) <= Allowance(x)'
  BY DEF StopInv, Batches
<1>1. stop /\ Cardinality(Batches(x)) <= Allowance(x)
  BY DEF StopInv
<1>2. IsFiniteSet(Batches(x)) /\ Cardinality(Batches(x)) \in Nat
  <2>1. IsFiniteSet(1 .. Len(queue))
    BY QueueElements, FS_Interval
  <2>2. QED
    BY <2>1, FS_Subset, FS_CardinalityType DEF Batches
<1>3. Allowance(x)' = Allowance(x) \/ (Allowance(x)' = 2 /\ Allowance(x) \in {0, 1, 2})
  BY <1>1 DEF Allowance, Goto, TypeInv, LocalTypes
<1>4. QED
  BY <1>1, <1>2, <1>3

\* A step of the worker that only moves on, out of the session or, before the
\* sync response, into it.
LEMMA MoveKeepsInv ==
    ASSUME IInv, NEW d \in Device, NEW label \in {"reading", "ending", "top"},
           Goto(d, label),
           label = "reading" => ~synced[d],
           synced[d] => (pc[d] \in InSession <=> label \in InSession),
           UNCHANGED <<view, changed, gone, synced, persisted, metrics,
                       stop, sink, stored, lost>>
    PROVE  IInv'
<1> USE DEF IInv, metrics, sink
<1>1. pc'[d] = label /\ \A x \in Device \ {d} : pc'[x] = pc[x]
  BY DEF Goto, TypeInv, LocalTypes
<1>2. TypeInv'
  BY DEF TypeInv, LocalTypes, SharedTypes, stored, Goto, Label
<1>3. ExporterInv'
  BY <1>1 DEF ExporterInv, Mirrors
<1>4. LogInv'
  BY <1>1 DEF LogInv, Consistent, Logged, Reported
<1>5. HistoryInv'
  BY HistoryStays
<1>6. StopInv'
  BY StopStays DEF Label
<1>7. QED
  BY <1>2, <1>3, <1>4, <1>5, <1>6

\* A session begins, with an empty cache and without persisted fields.
LEMMA TopKeepsInv ==
    ASSUME IInv, NEW d \in Device, Top(d)
    PROVE  IInv'
<1> USE DEF IInv
<1>1. UNCHANGED <<stop, queue, batch, loop, dropped, stored, lost>> /\ pc[d] = "top"
  BY DEF Top, sink
<1>2. CASE stop
  <2>1. /\ UNCHANGED <<view, changed, gone, synced, persisted, devices, synchronized>>
        /\ Goto(d, "done")
    BY <1>2 DEF Top, metrics
  <2>2. pc'[d] = "done" /\ \A x \in Device \ {d} : pc'[x] = pc[x]
    BY <2>1 DEF Goto, TypeInv, LocalTypes
  <2>3. TypeInv'
    BY <1>1, <2>1 DEF TypeInv, LocalTypes, SharedTypes, stored, Goto, Label
  <2>4. ExporterInv' /\ LogInv'
    BY <1>1, <2>1, <2>2 DEF ExporterInv, Mirrors, InSession, LogInv, Consistent, Logged, Reported
  <2>5. HistoryInv' /\ StopInv'
    BY <1>1, <2>1, HistoryStays, StopStays DEF Label
  <2>6. QED
    BY <2>3, <2>4, <2>5
<1>3. CASE ~stop
  <2>1. /\ Goto(d, "connect")
        /\ devices' = [devices EXCEPT ![d] = Nothing]
        /\ synchronized' = [synchronized EXCEPT ![d] = FALSE]
        /\ view' = [view EXCEPT ![d] = Nothing]
        /\ changed' = [changed EXCEPT ![d] = {}]
        /\ gone' = [gone EXCEPT ![d] = {}]
        /\ synced' = [synced EXCEPT ![d] = FALSE]
        /\ persisted' = [persisted EXCEPT ![d] = Nothing]
    BY <1>3 DEF Top, Disconnected
  <2>2. Nothing \in [Entity -> {Absent}]
    BY DEF Nothing
  <2>3. /\ pc'[d] = "connect" /\ ~synced'[d] /\ devices'[d] = Nothing /\ ~synchronized'[d]
        /\ \A e \in Entity : persisted'[d][e] = Absent
        /\ \A x \in Device \ {d} :
              /\ pc'[x] = pc[x] /\ view'[x] = view[x] /\ changed'[x] = changed[x]
              /\ gone'[x] = gone[x] /\ synced'[x] = synced[x]
              /\ persisted'[x] = persisted[x] /\ devices'[x] = devices[x]
              /\ synchronized'[x] = synchronized[x]
    BY <2>1, <2>2 DEF Goto, TypeInv, LocalTypes, SharedTypes
  <2>4. TypeInv'
    <3>1. LocalTypes'
      BY <2>1, <2>2 DEF TypeInv, LocalTypes, Goto, Label
    <3>2. SharedTypes'
      BY <1>1, <2>1, <2>2 DEF TypeInv, SharedTypes, stored
    <3>3. QED
      BY <3>1, <3>2 DEF TypeInv
  <2>5. ExporterInv'
    BY <2>3 DEF ExporterInv, Mirrors
  <2>6. LogInv'
    BY <2>3 DEF LogInv, Consistent, Logged, Reported
  <2>7. HistoryInv'
    <3>1. \A x \in Device, e \in Entity : persisted'[x][e] \in {persisted[x][e], Absent}
      BY <2>3
    <3>2. QED
      BY <1>1, <3>1, HistoryStays
  <2>8. StopInv'
    BY <1>1, <2>1, StopStays DEF Label
  <2>9. QED
    BY <2>4, <2>5, <2>6, <2>7, <2>8
<1>4. QED
  BY <1>2, <1>3

\* A session ends, and the exporter forgets the device.
LEMMA EndKeepsInv ==
    ASSUME IInv, NEW d \in Device, End(d)
    PROVE  IInv'
<1> USE DEF IInv
<1>1. /\ UNCHANGED <<view, changed, gone, synced, persisted>>
      /\ UNCHANGED <<stop, queue, batch, loop, dropped, stored, lost>>
      /\ Goto(d, "backoff")
      /\ devices' = [devices EXCEPT ![d] = Nothing]
      /\ synchronized' = [synchronized EXCEPT ![d] = FALSE]
  BY DEF End, Disconnected, sink
<1>2. /\ pc'[d] = "backoff" /\ devices'[d] = Nothing /\ ~synchronized'[d]
      /\ \A x \in Device \ {d} : /\ pc'[x] = pc[x] /\ devices'[x] = devices[x]
                               /\ synchronized'[x] = synchronized[x]
  BY <1>1 DEF Goto, TypeInv, LocalTypes, SharedTypes
<1>3. TypeInv'
  <2>1. LocalTypes'
    BY <1>1 DEF TypeInv, LocalTypes, Goto, Label
  <2>2. SharedTypes'
    BY <1>1 DEF TypeInv, SharedTypes, stored, Nothing
  <2>3. QED
    BY <2>1, <2>2 DEF TypeInv
<1>4. ExporterInv' /\ LogInv'
  BY <1>1, <1>2 DEF ExporterInv, Mirrors, InSession, LogInv, Consistent, Logged, Reported
<1>5. HistoryInv' /\ StopInv'
  BY <1>1, HistoryStays, StopStays DEF Label
<1>6. QED
  BY <1>3, <1>4, <1>5

------------------------------------------------------------------------------
\* A message.  All that is used of the cache is its contract: outside the
\* report nothing changed.
LEMMA ReportStep ==
    ASSUME IInv, NEW d \in Device, ReadUpdate(d)
    PROVE  /\ LocalTypes'
           /\ Consistent(d)'
           /\ \A e \in Entity \ Reported(d)' : view'[d][e] = view[d][e]
           /\ \A x \in Device \ {d} : /\ pc'[x] = pc[x] /\ view'[x] = view[x]
                                    /\ changed'[x] = changed[x] /\ gone'[x] = gone[x]
<1>1. PICK c \in SUBSET Entity, g \in SUBSET Entity : \E v \in [c -> Present] :
         /\ view' = [view EXCEPT ![d] = [e \in Entity |-> IF e \in c THEN v[e]
                                                         ELSE IF e \in g THEN Absent ELSE @[e]]]
         /\ changed' = [changed EXCEPT ![d] = c]
         /\ gone' = [gone EXCEPT ![d] = g]
  BY DEF ReadUpdate
<1>2. PICK v \in [c -> Present] :
         view' = [view EXCEPT ![d] = [e \in Entity |-> IF e \in c THEN v[e]
                                                        ELSE IF e \in g THEN Absent ELSE @[e]]]
  BY <1>1
<1>3. /\ changed'[d] = c /\ gone'[d] = g
      /\ \A x \in Device \ {d} : /\ view'[x] = view[x] /\ changed'[x] = changed[x]
                               /\ gone'[x] = gone[x]
  BY <1>1, <1>2 DEF IInv, TypeInv, LocalTypes
<1>4. /\ view' \in [Device -> [Entity -> Present \cup {Absent}]]
      /\ \A e \in Entity : view'[d][e] = IF e \in c THEN v[e]
                                          ELSE IF e \in g THEN Absent ELSE view[d][e]
  BY <1>2 DEF IInv, TypeInv, LocalTypes
<1>5. \A e \in c : view'[d][e] # Absent /\ e \notin g
  BY <1>3 DEF ReadUpdate, Cache!Report
<1>6. pc' \in [Device -> Label] /\ \A x \in Device \ {d} : pc'[x] = pc[x]
  BY DEF ReadUpdate, Goto, IInv, TypeInv, LocalTypes, Label
<1>7. LocalTypes'
  BY <1>1, <1>4, <1>6 DEF LocalTypes, IInv, TypeInv, ReadUpdate
<1>8. QED
  BY <1>3, <1>4, <1>5, <1>6, <1>7 DEF Consistent, Reported

\* An update changes the cache and, after the sync response, the exporter.
LEMMA UpdateKeepsInv ==
    ASSUME IInv, NEW d \in Device, ReadUpdate(d)
    PROVE  IInv'
<1>1. /\ pc[d] = "reading" /\ ~stop
      /\ UNCHANGED <<synced, persisted, stop, queue, batch, loop, dropped, stored, lost>>
  BY DEF ReadUpdate, Receive, Reads, sink
<1>2. CASE ~synced[d]
  <2>1. UNCHANGED <<devices, synchronized, pc>>
    BY <1>2 DEF ReadUpdate, metrics
  <2>2. TypeInv'
    BY <1>1, <2>1, ReportStep DEF IInv, TypeInv, SharedTypes, stored
  <2>3. ExporterInv'
    <3>1. \A x \in Device \ {d} : Mirrors(x)'
      BY <1>1, <2>1, ReportStep DEF IInv, ExporterInv, Mirrors
    <3>2. Mirrors(d)'
      BY <1>1, <1>2, <2>1 DEF IInv, ExporterInv, Mirrors
    <3>3. QED
      BY <3>1, <3>2 DEF ExporterInv
  <2>4. LogInv'
    BY <1>1, <1>2, <2>1, ReportStep DEF IInv, LogInv, Consistent, Logged, Reported
  <2>5. HistoryInv'
    BY <1>1, HistoryStays DEF IInv
  <2>6. StopInv'
    BY <1>1, <2>1 DEF IInv, StopInv, Batches, Allowance
  <2>7. QED
    BY <2>2, <2>3, <2>4, <2>5, <2>6 DEF IInv
<1>3. CASE synced[d]
  <2>1. Goto(d, "transitions") /\ Update(d, changed'[d], gone'[d], view'[d])
    BY <1>3 DEF ReadUpdate
  <2>2. pc'[d] = "transitions"
    BY <2>1 DEF Goto, IInv, TypeInv, LocalTypes
  <2>3. /\ view[d] \in [Entity -> Present \cup {Absent}]
        /\ view'[d] \in [Entity -> Present \cup {Absent}]
        /\ devices[d] = view[d]
    BY <1>1, <1>3, ReportStep DEF IInv, TypeInv, LocalTypes, ExporterInv, Mirrors, InSession
  <2>4. /\ devices'[d] = [e \in Entity |-> Row(view[d][e], e, changed'[d], gone'[d], view'[d])]
        /\ synchronized'[d]
        /\ synchronized' \in [Device -> BOOLEAN]
        /\ \A x \in Device \ {d} : devices'[x] = devices[x] /\ synchronized'[x] = synchronized[x]
    BY <2>1, <2>3 DEF Update, IInv, TypeInv, SharedTypes
  <2>5. \A e \in Entity : Row(view[d][e], e, changed'[d], gone'[d], view'[d]) = view'[d][e]
    BY ReportStep DEF Row, Consistent, Reported
  <2>6. devices'[d] = view'[d]
    BY <2>3, <2>4, <2>5
  <2>7. TypeInv'
    <3>1. devices' \in [Device -> [Entity -> Present \cup {Absent}]]
      BY <2>1, <2>3, <2>4, <2>6 DEF Update, IInv, TypeInv, SharedTypes
    <3>2. QED
      BY <1>1, <2>4, <3>1, ReportStep DEF IInv, TypeInv, SharedTypes, stored
  <2>8. ExporterInv'
    <3>1. \A x \in Device \ {d} : Mirrors(x)'
      BY <1>1, <2>4, ReportStep DEF IInv, ExporterInv, Mirrors
    <3>2. Mirrors(d)'
      BY <1>1, <1>3, <2>2, <2>4, <2>6 DEF Mirrors, InSession
    <3>3. QED
      BY <3>1, <3>2 DEF ExporterInv
  <2>9. LogInv'
    <3>1. \A e \in Entity \ Reported(d)' : Logged(d, e)'
      BY <1>1, <1>3, ReportStep DEF IInv, LogInv, Logged
    <3>2. Consistent(d)'
      BY ReportStep
    <3>3. \A x \in Device \ {d} :
             /\ pc'[x] = pc[x] /\ synced'[x] = synced[x]
             /\ Consistent(x)' <=> Consistent(x)
             /\ Reported(x)' = Reported(x)
             /\ \A e \in Entity : Logged(x, e)' <=> Logged(x, e)
      BY <1>1, ReportStep DEF Consistent, Reported, Logged
    <3>4. QED
      BY <2>2, <3>1, <3>2, <3>3 DEF IInv, LogInv
  <2>10. HistoryInv'
    BY <1>1, HistoryStays DEF IInv
  <2>11. StopInv'
    BY <1>1, <2>1, StopStays DEF IInv, Label
  <2>12. QED
    BY <2>7, <2>8, <2>9, <2>10, <2>11 DEF IInv
<1>4. QED
  BY <1>2, <1>3

\* The sync response publishes the cache.
LEMMA SyncKeepsInv ==
    ASSUME IInv, NEW d \in Device, ReadSync(d)
    PROVE  IInv'
<1>1. /\ pc[d] = "reading" /\ ~stop
      /\ UNCHANGED <<view, changed, gone, persisted, stop, queue, batch, loop, dropped,
                      stored, lost>>
  BY DEF ReadSync, Receive, Reads, sink
<1>2. CASE ~SyncValid(view[d])
  <2>1. Goto(d, "ending") /\ UNCHANGED <<synced, metrics>>
    BY <1>2 DEF ReadSync
  <2>2. QED
    BY <1>1, <2>1, MoveKeepsInv DEF InSession, sink
<1>3. CASE SyncValid(view[d])
  <2>1. /\ synced' = [synced EXCEPT ![d] = TRUE] /\ Goto(d, "initial")
        /\ Update(d, Held(view[d]), {}, view[d])
    BY <1>3 DEF ReadSync
  <2>2. /\ pc'[d] = "initial" /\ synced'[d]
        /\ \A x \in Device \ {d} : pc'[x] = pc[x] /\ synced'[x] = synced[x]
    BY <2>1 DEF Goto, IInv, TypeInv, LocalTypes
  <2>3. /\ view[d] \in [Entity -> Present \cup {Absent}]
        /\ devices[d] \in {view[d], Nothing}
    BY DEF IInv, TypeInv, LocalTypes, ExporterInv, Mirrors
  <2>4. /\ devices'[d] = [e \in Entity |-> Row(devices[d][e], e, Held(view[d]), {}, view[d])]
        /\ synchronized'[d]
        /\ synchronized' \in [Device -> BOOLEAN]
        /\ \A x \in Device \ {d} : devices'[x] = devices[x] /\ synchronized'[x] = synchronized[x]
    BY <2>1 DEF Update, IInv, TypeInv, SharedTypes
  <2>5. \A e \in Entity : Row(devices[d][e], e, Held(view[d]), {}, view[d]) = view[d][e]
    BY <2>3 DEF Row, Held, Nothing
  <2>6. devices'[d] = view[d]
    BY <2>3, <2>4, <2>5
  <2>7. TypeInv'
    <3>1. devices' \in [Device -> [Entity -> Present \cup {Absent}]]
      BY <2>1, <2>3, <2>4, <2>6 DEF Update, IInv, TypeInv, SharedTypes
    <3>2. LocalTypes'
      BY <1>1, <2>1 DEF IInv, TypeInv, LocalTypes, Goto, Label
    <3>3. QED
      BY <1>1, <2>4, <3>1, <3>2 DEF IInv, TypeInv, SharedTypes, stored
  <2>8. ExporterInv'
    BY <1>1, <2>2, <2>4, <2>6 DEF IInv, ExporterInv, Mirrors, InSession
  <2>9. LogInv'
    BY <1>1, <2>2 DEF IInv, LogInv, Consistent, Logged, Reported
  <2>10. HistoryInv'
    BY <1>1, HistoryStays DEF IInv
  <2>11. StopInv'
    BY <1>1, <2>1, StopStays DEF IInv, Label
  <2>12. QED
    BY <2>7, <2>8, <2>9, <2>10, <2>11 DEF IInv
<1>4. QED
  BY <1>2, <1>3

------------------------------------------------------------------------------
\* A batch is offered, and the log says what is in it.
LEMMA PutKeepsInv ==
    ASSUME IInv, NEW d \in Device, NEW obs \in Documents, Offer(d, obs),
           NEW label \in {"reading", "snapshot"}, Goto(d, label),
           pc[d] \in {"transitions", "initial"} \/ (pc[d] = "snapshot" /\ label = "reading"),
           label = "snapshot" => synced[d],
           UNCHANGED <<view, changed, gone, synced, metrics, stop, stored>>,
           persisted' \in [Device -> [Entity -> Document \cup {Absent}]],
           \A x \in Device \ {d} : persisted'[x] = persisted[x],
           \A e \in DOMAIN obs : persisted'[d][e] = obs[e],
           \A e \in Entity \ DOMAIN obs : persisted'[d][e] \in {persisted[d][e], Absent},
           \A e \in Entity : synced[d] => Logged(d, e)'
    PROVE  IInv'
<1>1. pc'[d] = label /\ \A x \in Device \ {d} : pc'[x] = pc[x]
  BY DEF Goto, IInv, TypeInv, LocalTypes
<1>2. TypeInv'
  <2>1. LocalTypes'
    BY DEF IInv, TypeInv, LocalTypes, Goto, Label
  <2>2. SharedTypes'
    BY OfferStep DEF IInv, TypeInv, SharedTypes, stored, metrics
  <2>3. QED
    BY <2>1, <2>2 DEF TypeInv
<1>3. ExporterInv'
  BY <1>1 DEF IInv, ExporterInv, Mirrors, InSession, metrics
<1>4. LogInv'
  <2>1. \A x \in Device \ {d} :
           /\ Consistent(x)' <=> Consistent(x)
           /\ Reported(x)' = Reported(x)
           /\ \A e \in Entity : Logged(x, e)' <=> Logged(x, e)
    BY DEF Consistent, Reported, Logged
  <2>2. QED
    BY <1>1, <2>1 DEF IInv, LogInv
<1>5. HistoryInv'
  <2>1. \A x \in Device, e \in Entity : x # d \/ e \notin DOMAIN obs =>
           persisted'[x][e] \in {persisted[x][e], Absent}
    OBVIOUS
  <2>2. QED
    BY <2>1, OfferKeepsHistory DEF IInv
<1>6. StopInv'
  BY OfferKeepsStop DEF IInv
<1>7. QED
  BY <1>2, <1>3, <1>4, <1>5, <1>6 DEF IInv

\* The transitions of an update are put behind the sink thread.
LEMMA TransitionsKeepInv ==
    ASSUME IInv, NEW d \in Device, PutTransitions(d)
    PROVE  IInv'
<1>1. /\ pc[d] = "transitions" /\ Offer(d, Transitions(d))
      /\ persisted' = [persisted EXCEPT ![d] = [e \in Entity |-> IF e \in DOMAIN Transitions(d)
                                                        THEN Transitions(d)[e] ELSE @[e]]]
      /\ UNCHANGED <<view, changed, gone, synced, metrics, stop, stored>>
  BY DEF PutTransitions
<1>2. PICK label \in {"reading", "snapshot"} : Goto(d, label)
  BY DEF PutTransitions
<1>3. Consistent(d) /\ synced[d]
  BY <1>1 DEF IInv, LogInv, ExporterInv, Mirrors
<1>4. /\ Transitions(d) \in Documents /\ DOMAIN Transitions(d) \subseteq Reported(d)
      /\ \A e \in DOMAIN Transitions(d) :
            Transitions(d)[e] = IF e \in gone[d] THEN Deleted ELSE view[d][e]
      /\ \A e \in Reported(d) \ DOMAIN Transitions(d) :
            persisted[d][e] = IF e \in gone[d] THEN Deleted ELSE view[d][e]
  BY <1>3, TransitionsAreDocuments DEF IInv
<1>5. Reported(d) \subseteq Entity /\ Reported(d) = changed[d] \cup gone[d]
  BY DEF Reported, IInv, TypeInv, LocalTypes
<1>6. \A e \in DOMAIN Transitions(d) : Transitions(d)[e] \in Document
  BY <1>4 DEF Documents, Document
<1>7. /\ persisted' \in [Device -> [Entity -> Document \cup {Absent}]]
      /\ \A x \in Device \ {d} : persisted'[x] = persisted[x]
      /\ \A e \in Entity : persisted'[d][e] = IF e \in DOMAIN Transitions(d)
                                             THEN Transitions(d)[e] ELSE persisted[d][e]
  BY <1>1, <1>6 DEF IInv, TypeInv, LocalTypes
<1>8. \A e \in DOMAIN Transitions(d) : persisted'[d][e] = Transitions(d)[e]
  BY <1>4, <1>5, <1>7
<1>9. ASSUME NEW e \in Entity PROVE Logged(d, e)'
  <2>1. CASE e \in Reported(d)
    <3>1. persisted'[d][e] = IF e \in gone[d] THEN Deleted ELSE view[d][e]
      BY <1>4, <1>7, <2>1
    <3>2. QED
      BY <1>1, <1>3, <1>5, <2>1, <3>1 DEF Consistent, Logged
  <2>2. CASE e \notin Reported(d)
    <3>1. Logged(d, e) /\ persisted'[d][e] = persisted[d][e]
      BY <1>1, <1>3, <1>4, <1>7, <2>2 DEF IInv, LogInv
    <3>2. QED
      BY <1>1, <3>1 DEF Logged
  <2>3. QED
    BY <2>1, <2>2
<1>10. \A e \in Entity \ DOMAIN Transitions(d) : persisted'[d][e] \in {persisted[d][e], Absent}
  BY <1>7
<1> HIDE DEF Transitions
<1>11. QED
  BY <1>1, <1>2, <1>3, <1>4, <1>7, <1>8, <1>9, <1>10, PutKeepsInv

\* The whole cache is put behind the sink thread.
LEMMA SnapshotKeepsInv ==
    ASSUME IInv, NEW d \in Device, PutSnapshot(d) \/ PutInitial(d)
    PROVE  IInv'
<1>1. /\ Offer(d, Snapshot(view[d])) /\ Goto(d, "reading")
      /\ pc[d] \in {"initial", "snapshot"}
      /\ UNCHANGED <<view, changed, gone, synced, metrics, stop, stored>>
  BY DEF PutSnapshot, PutInitial
<1>2. /\ view[d] \in [Entity -> Present \cup {Absent}]
      /\ persisted \in [Device -> [Entity -> Document \cup {Absent}]]
  BY DEF IInv, TypeInv, LocalTypes
<1>3. /\ Snapshot(view[d]) \in Documents /\ DOMAIN Snapshot(view[d]) = Held(view[d])
      /\ \A e \in Held(view[d]) : Snapshot(view[d])[e] = view[d][e]
  BY <1>2, SnapshotIsDocuments
<1>4. persisted' \in [Device -> [Entity -> Document \cup {Absent}]]
  BY <1>2 DEF PutSnapshot, PutInitial, Document
<1>5. \A x \in Device \ {d} : persisted'[x] = persisted[x]
  BY <1>2 DEF PutSnapshot, PutInitial
<1>6. ASSUME NEW e \in Entity
      PROVE  /\ e \in Held(view[d]) => persisted'[d][e] = view[d][e]
             /\ e \notin Held(view[d]) => persisted'[d][e] \in {persisted[d][e], Absent}
             /\ synced[d] => Logged(d, e)'
  <2>1. CASE PutInitial(d)
    <3>1. persisted'[d] = view[d]
      BY <1>2, <2>1 DEF PutInitial
    <3>2. QED
      BY <1>1, <3>1 DEF Held, Logged
  <2>2. CASE PutSnapshot(d)
    <3>1. pc[d] = "snapshot" /\ synced[d] /\ persisted' = persisted
      BY <2>2 DEF PutSnapshot, IInv, ExporterInv, Mirrors
    <3>2. Logged(d, e)
      BY <3>1 DEF IInv, LogInv
    <3>3. QED
      BY <1>1, <3>1, <3>2 DEF Logged, Held
  <2>3. QED
    BY <2>1, <2>2
<1>7. \A e \in DOMAIN Snapshot(view[d]) : persisted'[d][e] = Snapshot(view[d])[e]
  BY <1>3, <1>6 DEF Held
<1>8. \A e \in Entity \ DOMAIN Snapshot(view[d]) : persisted'[d][e] \in {persisted[d][e], Absent}
  BY <1>3, <1>6
<1>9. QED
  BY <1>1, <1>3, <1>4, <1>5, <1>6, <1>7, <1>8, PutKeepsInv

------------------------------------------------------------------------------
\* The invariant holds at the start.
THEOREM InitInv == Init => IInv
<1> SUFFICES ASSUME Init PROVE IInv
  OBVIOUS
<1>1. Nothing \in [Entity -> {Absent}]
  BY DEF Nothing
<1>2. /\ queue = <<>> /\ batch = NoBatch /\ loop = "check"
      /\ persisted = [d \in Device |-> Nothing]
  BY DEF Init, SinkInit
<1>3. TypeInv
  <2>1. LocalTypes
    BY <1>1 DEF Init, LocalTypes, Label
  <2>2. SharedTypes
    <3>1. queue \in Seq(Batch) /\ batch \in IF loop = "write" THEN Batch ELSE {NoBatch}
      BY <1>2
    <3>2. /\ devices \in [Device -> [Entity -> Present \cup {Absent}]]
          /\ history \in [Device -> [Entity -> Document \cup {Absent}]]
          /\ late \in [Device -> [Entity -> Seq(Document)]]
      BY <1>1 DEF Init
    <3>3. QED
      BY <1>2, <3>1, <3>2 DEF Init, SharedTypes
  <2>3. QED
    BY <2>1, <2>2 DEF TypeInv
<1>4. ExporterInv /\ LogInv
  BY DEF Init, ExporterInv, Mirrors, InSession, LogInv
<1>5. HistoryInv
  <2>1. \A d \in Device, e \in Entity : persisted[d][e] = Absent
    BY <1>2 DEF Nothing
  <2>2. QED
    BY <2>1, CollectorAssumption DEF HistoryInv, Document
<1>6. StopInv
  BY <1>2 DEF StopInv
<1>7. QED
  BY <1>3, <1>4, <1>5, <1>6 DEF IInv

\* One step of a worker, of the sink thread or of the process.
THEOREM StepInv == IInv /\ [Next]_vars => IInv'
<1> SUFFICES ASSUME IInv, [Next]_vars PROVE IInv'
  OBVIOUS
<1>1. ASSUME NEW d \in Device, Connect(d) PROVE IInv'
  <2>1. ~synced[d]
    BY <1>1 DEF Connect, IInv, ExporterInv, Mirrors
  <2>2. QED
    BY <1>1, <2>1, MoveKeepsInv DEF Connect
<1>2. ASSUME NEW d \in Device, ReadStopped(d) \/ StreamFails(d) PROVE IInv'
  BY <1>2, MoveKeepsInv DEF ReadStopped, StreamFails, InSession
<1>3. ASSUME NEW d \in Device, Backoff(d) PROVE IInv'
  BY <1>3, MoveKeepsInv DEF Backoff, InSession
<1>4. ASSUME NEW d \in Device, Top(d) PROVE IInv'
  BY <1>4, TopKeepsInv
<1>5. ASSUME NEW d \in Device, ReadUpdate(d) PROVE IInv'
  BY <1>5, UpdateKeepsInv
<1>6. ASSUME NEW d \in Device, ReadSync(d) PROVE IInv'
  BY <1>6, SyncKeepsInv
<1>7. ASSUME NEW d \in Device, PutTransitions(d) PROVE IInv'
  BY <1>7, TransitionsKeepInv
<1>8. ASSUME NEW d \in Device, PutSnapshot(d) \/ PutInitial(d) PROVE IInv'
  BY <1>8, SnapshotKeepsInv
<1>9. ASSUME NEW d \in Device, End(d) PROVE IInv'
  BY <1>9, EndKeepsInv
<1>10. CASE SinkThread
  BY <1>10, SinkStep
<1>11. CASE Stop \/ UNCHANGED vars
  <2>1. UNCHANGED <<local, metrics, sink, stored, lost>> /\ stop' \in {stop, TRUE}
    BY <1>11 DEF Stop, vars
  <2>2. TypeInv' /\ ExporterInv' /\ LogInv'
    BY <2>1, SinkKeepsWorkers DEF sink, IInv, TypeInv, SharedTypes, stored
  <2>3. HistoryInv'
    <3>1. \A x \in Device, e \in Entity : persisted'[x][e] \in {persisted[x][e], Absent}
      BY <2>1 DEF local
    <3>2. QED
      BY <2>1, <3>1, HistoryStays DEF sink, IInv
  <2>4. StopInv'
    BY <2>1 DEF sink, local, IInv, StopInv, Batches, Allowance
  <2>5. QED
    BY <2>2, <2>3, <2>4 DEF IInv
<1>12. ASSUME NEW d \in Device, NEW e \in Entity, Arrive(d, e) PROVE IInv'
  BY <1>12, ArriveKeepsInv
<1>13. QED
  BY <1>1, <1>2, <1>3, <1>4, <1>5, <1>6, <1>7, <1>8, <1>9, <1>10, <1>11, <1>12
     DEF Next, Worker

\* It holds in every state of every behaviour.
THEOREM Invariance == Spec => []IInv
<1>1. QED
  BY InitInv, StepInv, PTL DEF Spec

\* Metrics.update and disconnected keep the exporter's tables equal to the cache
\* of the session, whatever the cache reports as long as its contract holds.
THEOREM ExporterCorrect == Spec => []ExporterMirrorsCache
<1>1. IInv => ExporterMirrorsCache
  BY DEF IInv, ExporterInv, Mirrors, ExporterMirrorsCache
<1>2. QED
  BY <1>1, Invariance, PTL

\* The transitions and snapshots worker() puts leave in the history what the
\* cache says, through overflow, refused writes and reconnections, and however
\* late OpenSearch processes what a refused write has left behind.
THEOREM HistoryCorrect == Spec => []HistoryFollowsSession
<1>1. IInv => HistoryFollowsSession
  <2> SUFFICES ASSUME IInv, NEW d \in Device, NEW e \in Entity,
                      synced[d], pc[d] = "reading"
               PROVE  /\ view[d][e] # Absent => persisted[d][e] = view[d][e]
                      /\ view[d][e] = Absent => persisted[d][e] \in {Deleted, Absent}
                      /\ Batches(d) = {} /\ batch = NoBatch
                           /\ persisted[d][e] # Absent /\ e \notin lost[d]
                         => history[d][e] = persisted[d][e]
    BY DEF HistoryFollowsSession
  <2>1. Logged(d, e)
    BY DEF IInv, LogInv
  <2>2. ASSUME Batches(d) = {}, batch = NoBatch, persisted[d][e] # Absent, e \notin lost[d]
        PROVE  history[d][e] = persisted[d][e]
    <3>1. persisted[d][e] \in Document
      BY <2>2 DEF IInv, TypeInv, LocalTypes
    <3>2. Newest(d, e, persisted[d][e])
      BY <2>2, <3>1 DEF IInv, HistoryInv
    <3>3. Waiting(d, e) = {}
      BY <2>2 DEF Waiting, Batches
    <3>4. loop # "write"
      BY <2>2, NoBatchAssumption DEF IInv, TypeInv, SharedTypes, Batch
    <3>5. QED
      BY <3>2, <3>3, <3>4 DEF Newest, InHand
  <2>3. QED
    BY <2>1, <2>2 DEF Logged
<1>2. QED
  BY <1>1, Invariance, PTL

\* A worker leaves its loop at the first message after the stop event, so what
\* it still puts behind the sink thread is the rest of one message.
THEOREM StopLosesLittle == Spec => []LossAtStopBounded
<1>1. IInv => LossAtStopBounded
  <2> SUFFICES ASSUME IInv, loop = "exited", NEW d \in Device
               PROVE  Cardinality(Batches(d)) <= 2
    BY DEF LossAtStopBounded
  <2>1. Cardinality(Batches(d)) <= Allowance(d) /\ Allowance(d) \in {0, 1, 2}
    BY DEF IInv, StopInv, Allowance
  <2>2. IsFiniteSet(1 .. Len(queue)) /\ Batches(d) \subseteq 1 .. Len(queue)
    BY QueueElements, FS_Interval DEF IInv, Batches
  <2>3. Cardinality(Batches(d)) \in Nat
    BY <2>2, FS_Subset, FS_CardinalityType
  <2>4. QED
    BY <2>1, <2>3
<1>2. QED
  BY <1>1, Invariance, PTL
==============================================================================
