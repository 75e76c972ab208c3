------------------------------- MODULE Session -------------------------------
(***************************************************************************)
(* The timing of one device's stream: the worker thread, its watchdog, the *)
(* reconnection backoff and the freshness the exporter computes at every   *)
(* scrape (worker in gnmi.py, Metrics.collect).  A tick is a unit of real  *)
(* time; threads act within the tick in which they become runnable, and    *)
(* the watchdog looks once a tick (finished.wait(1)).                      *)
(*                                                                         *)
(* Ages are capped one above the limit they are compared with.             *)
(***************************************************************************)
EXTENDS Naturals

CONSTANTS Silence,       \* 35 s without a message: the watchdog closes
          FreshFor,      \* 35 s without an update: the exporter hides
          DialTimeout,   \* gnmi_timeout, 15 s
          MaxDelay,      \* cap of the backoff, 15 s
          SamplePeriod,  \* sample_interval, 10 s: what a healthy device keeps
          MaxFaults      \* bound: times the device turns unhealthy

ASSUME SessionAssumption ==
    /\ {Silence, FreshFor, DialTimeout, MaxDelay, SamplePeriod} \subseteq Nat \ {0}
    /\ MaxFaults \in Nat
    /\ SamplePeriod < FreshFor /\ SamplePeriod < Silence

VARIABLES pc,            \* the worker
          synced,        \* its local
          quiet,         \* age of last_message
          delay,         \* its local: the next backoff
          wait,          \* time left of the dial or of the backoff
          watch,         \* the watchdog: "off", "armed", "closing"
          due,           \* it has yet to look in this tick
          synchronized,  \* Metrics.synchronized of the device
          lastAge,       \* age of Metrics.last
          stop,
          stopAge,       \* ghost: time since the stop event
          healthy,       \* the device answers, and keeps its sample period
          healthyFor,    \* ghost: for how long it has been healthy
          owed,          \* time since it last kept its sample period
          wedged,        \* the connection is dead and neither end knows
          faults         \* bound: times it turned unhealthy

worker  == <<pc, synced, delay, wait>>
dog     == <<watch, due>>
metrics == <<synchronized, lastAge>>
process == <<stop, stopAge>>
device  == <<healthy, healthyFor, faults>>
link    == <<owed, wedged>>
vars    == <<worker, quiet, dog, metrics, process, device, link>>

Smaller(a, b) == IF a < b THEN a ELSE b
Larger(a, b)  == IF a < b THEN b ELSE a
Older(age, limit) == Smaller(age + 1, limit + 1)

\* The longest a working device can stay unpublished: a dead connection is
\* noticed (by the watchdog, or the dial ends), the longest backoff, one dial,
\* one sample period.
DetectBound   == Larger(Silence + 1, DialTimeout)
RecoveryBound == DetectBound + MaxDelay + DialTimeout + SamplePeriod

Init == /\ pc = "top" /\ synced = FALSE /\ delay = 1 /\ wait = 0
        /\ quiet = 0
        /\ watch = "off" /\ due = FALSE
        /\ synchronized = FALSE
        /\ lastAge = FreshFor + 1
        /\ stop = FALSE /\ stopAge = 0
        /\ healthy = TRUE /\ healthyFor = 0 /\ faults = 0
        /\ owed = 0 /\ wedged = FALSE

------------------------------------------------------------------------------
\* Metrics.disconnected clears a device but keeps its last; mutant: nothing.
Unnoticed    == UNCHANGED synchronized
Disconnected == synchronized' = FALSE

\* The worker.
Top == /\ pc = "top"
       /\ pc' = IF stop THEN "done" ELSE "connect"
       /\ synced' = FALSE
       /\ Disconnected
       /\ wait' = DialTimeout
       /\ wedged' = FALSE
       /\ UNCHANGED <<quiet, delay, dog, lastAge, process, device, owed>>

Connect == /\ pc = "connect"
           /\ ~wedged
           /\ pc' = "reading"
           /\ quiet' = 0 /\ owed' = 0
           /\ watch' = "armed" /\ due' = FALSE
           /\ UNCHANGED <<synced, delay, wait, metrics, process, device,
                          wedged>>

\* Any exception of the session, and the stop event seen by a reader, lead to
\* the finally blocks.
Leave == /\ pc' = "ending"
         /\ UNCHANGED <<quiet, synced, delay, wait, dog, metrics, process,
                        device, link>>

ConnectFails == /\ pc = "connect"
                /\ ~healthy \/ (wedged /\ wait = 0)
                /\ Leave

ReadStopped == pc = "reading" /\ stop /\ ~wedged /\ Leave

Message == pc = "reading" /\ ~stop /\ ~wedged

\* A complete sync response publishes the snapshot and resets the backoff.
ReadSync == /\ Message
            /\ quiet' = 0 /\ owed' = 0
            /\ synced' = TRUE
            /\ synchronized' = TRUE
            /\ lastAge' = 0
            /\ delay' = 1
            /\ UNCHANGED <<pc, wait, dog, process, device, wedged>>

ReadBadSync == Message /\ ~healthy /\ Leave

\* An update; apply() may return nothing (an unknown path, a late timestamp),
\* and Metrics.update takes the time of the call either way.
ReadUpdate ==
    /\ Message
    /\ quiet' = 0
    /\ owed' = IF synced THEN 0 ELSE owed
    /\ IF synced
       THEN /\ synchronized' = TRUE
            /\ lastAge' = 0
       ELSE UNCHANGED metrics
    /\ UNCHANGED <<worker, dog, process, device, wedged>>

StreamFails == pc = "reading" /\ ~healthy /\ Leave

\* The backoff doubles up to its cap; mutant: it has no cap.
DoubledUncapped == delay * 2
Doubled         == Smaller(delay * 2, MaxDelay)

\* finished.set and the join, then disconnected and stop.wait(delay).
End == /\ pc = "ending"
       /\ pc' = "backoff"
       /\ watch' = "off" /\ due' = FALSE
       /\ Disconnected
       /\ wait' = delay
       /\ delay' = Doubled
       /\ UNCHANGED <<quiet, synced, lastAge, process, device, link>>

Backoff == /\ pc = "backoff"
           /\ wait = 0 \/ stop
           /\ pc' = "top"
           /\ UNCHANGED <<quiet, synced, delay, wait, dog, metrics, process,
                          device, link>>

------------------------------------------------------------------------------
\* What makes the watchdog close the client; mutants: the stop event alone,
\* silence alone.
OverdueAtStop    == stop
OverdueBySilence == quiet > Silence
Overdue          == stop \/ quiet > Silence

\* The watchdog looks, then closes; a message may arrive in between.
Look == /\ watch = "armed" /\ due
        /\ due' = FALSE
        /\ watch' = IF Overdue THEN "closing" ELSE "armed"
        /\ UNCHANGED <<worker, quiet, metrics, process, device, link>>

\* client.close() makes the reader raise; the watchdog thread is done.
Close == /\ watch = "closing"
         /\ watch' = "off"
         /\ pc' = IF pc = "reading" THEN "ending" ELSE pc
         /\ UNCHANGED <<quiet, synced, delay, wait, due, metrics, process,
                        device, link>>

------------------------------------------------------------------------------
\* Time passes when no thread is overdue, and a healthy device is not late.
Punctual == /\ pc \notin {"top", "ending"}
            /\ pc = "connect" => wait > 0
            /\ pc = "backoff" => wait > 0 /\ ~stop
            /\ watch # "closing" /\ ~due
            /\ healthy /\ pc = "reading" /\ ~stop /\ ~wedged => owed < SamplePeriod

Tick == /\ Punctual
        /\ quiet' = Older(quiet, Silence)
        /\ lastAge' = Older(lastAge, FreshFor)
        /\ owed' = Older(owed, SamplePeriod)
        /\ wait' = IF wait = 0 THEN 0 ELSE wait - 1
        /\ due' = (watch = "armed")
        /\ stopAge' = IF stop THEN Older(stopAge, DialTimeout + 1) ELSE 0
        /\ healthyFor' = IF healthy THEN Older(healthyFor, RecoveryBound) ELSE 0
        /\ UNCHANGED <<pc, synced, delay, watch, synchronized, stop,
                       healthy, faults, wedged>>

Stop == /\ ~stop
        /\ stop' = TRUE
        /\ UNCHANGED <<worker, quiet, dog, metrics, stopAge, device, link>>

\* The device or the path to it breaks; connections in use may be left dead.
Degrade == /\ healthy
           /\ faults < MaxFaults
           /\ healthy' = FALSE
           /\ healthyFor' = 0
           /\ faults' = faults + 1
           /\ UNCHANGED <<worker, quiet, dog, metrics, process, link>>

Wedge == /\ ~healthy
         /\ pc \in {"connect", "reading"}
         /\ wedged' = TRUE
         /\ UNCHANGED <<worker, quiet, dog, metrics, process, device, owed>>

Repair == /\ ~healthy
          /\ healthy' = TRUE
          /\ owed' = 0
          /\ UNCHANGED <<worker, quiet, dog, metrics, process, healthyFor, faults,
                         wedged>>

Thread == Top \/ ConnectFails \/ ReadStopped \/ End \/ Backoff \/ Look \/ Close

Answer == Connect \/ ReadSync \/ ReadUpdate

Fault == ReadBadSync \/ StreamFails \/ Degrade \/ Wedge

Next == Thread \/ Answer \/ Fault \/ Tick \/ Stop \/ Repair

\* Threads run, time passes, and a healthy device answers.
Fairness == /\ WF_vars(Thread)
            /\ WF_vars(Tick)
            /\ WF_vars(healthy /\ Connect)
            /\ WF_vars(healthy /\ ReadSync)

Spec == Init /\ [][Next]_vars /\ Fairness

------------------------------------------------------------------------------
\* Metrics.collect, at any moment.
CollectorConnected == synchronized /\ lastAge < FreshFor

\* collector_connected is 1 only while a session of the device is open and a
\* message of that session arrived less than FreshFor ago.
ConnectedMeansHeard ==
    CollectorConnected => /\ pc \in {"reading", "ending"}
                          /\ quiet <= lastAge
                          /\ quiet < FreshFor

\* After the stop event the worker is gone as soon as a dial can end.
StopsInTime == stop /\ stopAge > DialTimeout + 1 => pc = "done"

\* A device that works again is published again within a fixed time, even if
\* the fault left a dead connection behind that no error ever reports.
RecoversInTime ==
    healthy /\ healthyFor > RecoveryBound /\ ~stop => synced /\ CollectorConnected

\* The same without a bound: the threads never stop time or each other.
Recovers == <>[](healthy /\ ~stop) => <>[]CollectorConnected
==============================================================================
