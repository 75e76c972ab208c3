--------------------------- MODULE SinkAccounting ---------------------------
(***************************************************************************)
(* The sink with anonymous producers: any thread may put a batch at any    *)
(* time, the store may refuse any batch, the stop event may come between   *)
(* any two steps, and the process may end before the sink thread does:     *)
(* main joins it for a bounded time.  What became of every batch offered?  *)
(***************************************************************************)
EXTENDS Naturals, Sequences, FiniteSetsExt

CONSTANTS Capacity, NoBatch,
          MaxPuts,    \* bound: batches offered
          MaxSize     \* bound: observations of a batch

ASSUME CapacityAssumption == Capacity \in Nat \ {0}
ASSUME BoundsAssumption == MaxPuts \in Nat /\ MaxSize \in Nat
ASSUME NoBatchAssumption == NoBatch \notin [number : Nat, size : Nat]

\* A batch is known here by its number and its length.
BatchSize(b) == b.size

VARIABLES stop, queue, batch, loop, dropped

INSTANCE Sink WITH Size <- BatchSize

VARIABLES offered,    \* ghost: the sizes of the batches put so far, in order
          written,    \* ghost: numbers of the batches whose write returned
          refused,    \* ghost: numbers of the batches whose write raised
          lastBefore  \* ghost: batches offered when the sink thread exited

\* What OpenSearch has made of them.
VARIABLES stored,     \* numbers of the batches it has documents of
          late        \* those with a document it got after one of a newer batch

ghosts == <<offered, written, refused, lastBefore>>
index  == <<stored, late>>
vars   == <<stop, queue, batch, loop, dropped, ghosts, index>>

InHand == IF batch # NoBatch THEN {batch.number} ELSE {}
Queued == {queue[i].number : i \in 1 .. Len(queue)}

Init == /\ SinkInit
        /\ stop = FALSE
        /\ offered = <<>>
        /\ written = {}
        /\ refused = {}
        /\ lastBefore = 0
        /\ stored = {}
        /\ late = {}

\* put() by whichever thread, with a nonempty batch.
PutNext(n) == /\ loop # "killed"
              /\ Len(offered) < MaxPuts
              /\ Put([number |-> Len(offered) + 1, size |-> n])
              /\ offered' = Append(offered, n)
              /\ UNCHANGED <<stop, written, refused, lastBefore, index>>

Stop == /\ ~stop
        /\ stop' = TRUE
        /\ UNCHANGED <<queue, batch, loop, dropped, ghosts, index>>

CheckLoop == /\ Check
             /\ lastBefore' = Len(offered)
             /\ UNCHANGED <<stop, offered, written, refused, index>>

\* OpenSearch indexes documents of batch n.
Indexed(n) == /\ stored' = stored \cup {n}
              /\ late' = IF \E m \in stored : m > n THEN late \cup {n} ELSE late

\* A request of the write under way, or one that a write which raised has left
\* behind, a timed-out one, is processed, as a whole or in part and at any later
\* time.  Of a write that returned nothing is left that would change a document.
Index(n) == /\ n \in InHand \cup refused
            /\ Indexed(n)
            /\ UNCHANGED <<stop, queue, batch, loop, dropped, ghosts>>

\* repository.write returns once every document is stored (Repository).
WrittenBatch == /\ Written
                /\ written' = written \cup {batch.number}
                /\ Indexed(batch.number)
                /\ UNCHANGED <<stop, offered, refused, lastBefore>>

FailedBatch == /\ Failed
               /\ refused' = refused \cup {batch.number}
               /\ UNCHANGED <<stop, offered, written, lastBefore, index>>

\* The joins are over and main returns; the daemon thread is cut off wherever
\* it is, and the batch in its hands may be stored or not.
ProcessEnds ==
    /\ stop /\ loop # "killed"
    /\ loop' = "killed"
    /\ UNCHANGED <<stop, queue, batch, dropped, ghosts, index>>

Thread == \/ CheckLoop
          \/ WrittenBatch
          \/ FailedBatch
          \/ (Get \/ GetTimeout) /\ UNCHANGED <<stop, ghosts, index>>

Next == \/ \E n \in 1 .. MaxSize : PutNext(n)
        \/ Stop
        \/ ProcessEnds
        \/ Thread
        \/ \E n \in 1 .. MaxPuts : Index(n)

\* The sink thread runs; repository.write always comes back (Repository).
Spec == Init /\ [][Next]_vars /\ WF_vars(Thread)

------------------------------------------------------------------------------
Lost == (1 .. Len(offered)) \ (written \cup InHand \cup Queued)

Total(sizes, S) == FoldSet(LAMBDA n, sum : sum + sizes[n], 0, S)

\* The history has no gap that nobody counted: when it has any document of a
\* batch, every older batch has been written or counted as dropped, so that what
\* the end of the process cuts off is the newest end of the history.  And it is
\* stored in the order it was observed, except for batches already counted as
\* dropped: of those a timed-out request may still bring documents behind newer
\* ones.
StoredInOrder ==
    /\ \A m \in stored : \A n \in 1 .. m - 1 : n \in written \cup Lost
    /\ late \subseteq Lost

\* collector_dropped_observations is exact with regard to the queue: at every
\* moment each batch offered is written, in hand, queued, or counted there,
\* and no batch is counted twice; at the end of the process, too, nothing but
\* what it cut off is missing from both.  Counted are the batches that put()
\* refused or whose write raised; of the latter documents may be stored.
Accounted == dropped = Total(offered, Lost)

\* The stop event loses nothing that was offered before the thread looked at
\* an empty queue for the last time.
DrainedBeforeExit ==
    loop = "exited" => \A n \in Queued : n > lastBefore

\* Once the process is stopping, the sink thread ends: it leaves when it finds the
\* queue empty, which it does because the puts come to an end.  Here they are
\* bounded; in the process the workers stop (StopsInTime of Session).
StopEndsThread == stop ~> loop \in {"exited", "killed"}
=============================================================================
