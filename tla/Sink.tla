-------------------------------- MODULE Sink --------------------------------
(***************************************************************************)
(* The storage queue of the gNMI collector, class Sink of gnmi.py: the     *)
(* worker threads put batches without blocking, one thread writes them.    *)
(* Operations only; SinkAccounting gives the queue anonymous producers and *)
(* Collector gives it the worker threads.                                  *)
(***************************************************************************)
EXTENDS Naturals, Sequences

CONSTANTS Capacity,   \* 120 batches in the code
          NoBatch,    \* the sink thread holds no batch
          Size(_)     \* len(batch)

VARIABLES stop,       \* the process-wide stop event
          queue,      \* self.queue
          batch,      \* the batch in the hands of the sink thread
          loop,       \* where the sink thread is
          dropped     \* Metrics.dropped

SinkInit == /\ queue = <<>>
            /\ batch = NoBatch
            /\ loop = "check"
            /\ dropped = 0

Full == Len(queue) >= Capacity

\* put() of a nonempty batch; the batch is gone if the queue is full.
Put(b) == /\ IF Full
             THEN dropped' = dropped + Size(b) /\ UNCHANGED queue
             ELSE queue' = Append(queue, b) /\ UNCHANGED dropped
          /\ UNCHANGED <<batch, loop>>

\* Mutant of Check: the queue is left behind at the stop event.
CheckStopOnly == /\ loop = "check"
                 /\ loop' = IF ~stop THEN "get" ELSE "exited"
                 /\ UNCHANGED <<queue, batch, dropped>>

\* Mutant of Check: the stop event is ignored.
CheckNever == /\ loop = "check"
              /\ loop' = "get"
              /\ UNCHANGED <<queue, batch, dropped>>

\* The loop condition: not stopped, or something left.
Check == /\ loop = "check"
         /\ loop' = IF ~stop \/ queue # <<>> THEN "get" ELSE "exited"
         /\ UNCHANGED <<queue, batch, dropped>>

\* Mutant of Get: the newest batch first.
GetNewest == /\ loop = "get"
             /\ queue # <<>>
             /\ batch' = queue[Len(queue)]
             /\ queue' = SubSeq(queue, 1, Len(queue) - 1)
             /\ loop' = "write"
             /\ UNCHANGED dropped

Get == /\ loop = "get"
       /\ queue # <<>>
       /\ batch' = Head(queue)
       /\ queue' = Tail(queue)
       /\ loop' = "write"
       /\ UNCHANGED dropped

\* queue.get(timeout=0.5) found nothing.
GetTimeout == /\ loop = "get"
              /\ queue = <<>>
              /\ loop' = "check"
              /\ UNCHANGED <<queue, batch, dropped>>

\* repository.write returned, or raised after its last attempt.
Written == /\ loop = "write"
           /\ batch' = NoBatch
           /\ loop' = "check"
           /\ UNCHANGED <<queue, dropped>>

\* Mutant of Failed: the batch is not counted.
FailedUncounted == /\ loop = "write"
                   /\ batch' = NoBatch
                   /\ loop' = "check"
                   /\ UNCHANGED <<queue, dropped>>

Failed == /\ loop = "write"
          /\ batch' = NoBatch
          /\ loop' = "check"
          /\ dropped' = dropped + Size(batch)
          /\ UNCHANGED queue
==============================================================================
