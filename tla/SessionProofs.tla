---------------------------- MODULE SessionProofs ----------------------------
(***************************************************************************)
(* The timing of a session, for every choice of the timeouts: what         *)
(* collector_connected says, how long the stop takes, and how long a       *)
(* device that works again stays unpublished.                              *)
(***************************************************************************)
EXTENDS Session, TLAPS

Places == /\ pc \in {"top", "connect", "reading", "ending", "backoff", "done"}
          /\ watch \in {"off", "armed", "closing"}

Flags == /\ synced \in BOOLEAN /\ due \in BOOLEAN /\ synchronized \in BOOLEAN
         /\ stop \in BOOLEAN /\ healthy \in BOOLEAN /\ wedged \in BOOLEAN

Clocks == /\ quiet \in Nat /\ quiet <= Silence + 1
          /\ delay \in Nat /\ 1 <= delay /\ delay <= MaxDelay
          /\ wait \in Nat
          /\ lastAge \in Nat /\ stopAge \in Nat /\ healthyFor \in Nat /\ owed \in Nat

TypeInv == Places /\ Flags /\ Clocks

\* One watchdog for a session: it is armed while the worker reads, it looks once
\* a tick, and a silence it has not looked at yet stops time.
WatchInv ==
    /\ pc = "reading" => watch # "off"
    /\ pc \notin {"reading", "ending"} => watch = "off"
    /\ due => watch = "armed"
    /\ pc = "reading" /\ watch = "armed" /\ quiet > Silence => due
    /\ pc = "done" => stop

\* The exporter has a device as synchronized only within its session, and its
\* last update is no younger than the last message.
HeardInv ==
    /\ synchronized => /\ pc \in {"reading", "ending"}
                       /\ quiet <= lastAge \/ lastAge >= FreshFor
    /\ pc = "reading" /\ synced => synchronized /\ lastAge <= quiet
    /\ pc = "connect" => ~synced

\* What is left of the dial when the stop event comes is the longest wait;
\* the watchdog takes one more look.
StopInv ==
    /\ ~stop => stopAge = 0
    /\ pc = "connect" => wait <= DialTimeout
    /\ stop /\ pc # "done" => stopAge <= DialTimeout + 1
    /\ stop /\ pc = "connect" => stopAge + wait <= DialTimeout
    /\ stop /\ pc = "reading" /\ watch = "armed" /\ ~due => stopAge <= DialTimeout

\* The last message of the session is no older than the last sample, which keeps
\* the watchdog away from a healthy device.
Lively == /\ ~wedged
          /\ quiet <= owed
          /\ synced \/ healthyFor + SamplePeriod <= RecoveryBound + owed

\* How far a healthy device can be from being published: each place of the worker
\* and its time left.
RecoveryInv ==
    /\ ~healthy => healthyFor = 0
    /\ ~stop =>
       /\ pc = "reading" /\ healthy /\ ~wedged => owed <= SamplePeriod
       /\ pc = "reading" /\ watch = "closing" => healthyFor <= Silence + 1
       /\ pc = "reading" /\ watch = "armed" => healthyFor <= quiet \/ Lively
       /\ pc = "ending" => healthyFor <= DetectBound
       /\ pc = "backoff" => healthyFor + wait <= DetectBound + MaxDelay
       /\ pc = "top" => healthyFor <= DetectBound + MaxDelay
       /\ pc = "connect" =>
             IF wedged THEN healthyFor + wait <= DialTimeout
                       ELSE healthyFor + wait <= DetectBound + MaxDelay + DialTimeout

IInv == TypeInv /\ WatchInv /\ HeardInv /\ StopInv /\ RecoveryInv

------------------------------------------------------------------------------
\* The constants are numbers, and no limit is smaller than what it is made of.
LEMMA Limits ==
    /\ Silence \in Nat /\ FreshFor \in Nat /\ DialTimeout \in Nat
    /\ MaxDelay \in Nat /\ SamplePeriod \in Nat
    /\ 1 <= MaxDelay /\ 1 <= DialTimeout
    /\ SamplePeriod < FreshFor /\ SamplePeriod < Silence
    /\ DetectBound \in Nat /\ Silence + 1 <= DetectBound /\ DialTimeout <= DetectBound
    /\ RecoveryBound = DetectBound + MaxDelay + DialTimeout + SamplePeriod
<1>1. /\ Silence \in Nat /\ FreshFor \in Nat /\ DialTimeout \in Nat
      /\ MaxDelay \in Nat \ {0} /\ SamplePeriod \in Nat /\ DialTimeout # 0
      /\ SamplePeriod < FreshFor /\ SamplePeriod < Silence
  BY SessionAssumption DEF SessionAssumption
<1>2. QED
  BY <1>1 DEF DetectBound, RecoveryBound, Larger

\* The invariant holds at the start.
THEOREM InitInv == Init => IInv
<1> SUFFICES ASSUME Init PROVE IInv
  OBVIOUS
<1> USE Limits DEF Init
<1>1. TypeInv
  <2>1. Places /\ Flags
    BY DEF Places, Flags
  <2>2. Clocks
    BY DEF Clocks
  <2>3. QED
    BY <2>1, <2>2 DEF TypeInv
<1>2. WatchInv /\ HeardInv
  BY DEF WatchInv, HeardInv
<1>3. StopInv /\ RecoveryInv
  BY DEF StopInv, RecoveryInv
<1>4. QED
  BY <1>1, <1>2, <1>3 DEF IInv

------------------------------------------------------------------------------
\* The calls of the worker.
LEMMA WorkerKeepsInv ==
    ASSUME IInv, Top \/ Connect \/ ConnectFails \/ ReadStopped \/ ReadSync
           \/ ReadBadSync \/ ReadUpdate \/ StreamFails \/ End \/ Backoff
    PROVE  IInv'
<1> USE Limits DEF IInv, worker, dog, metrics, process, device, link
<1>1. CASE Top
  <2>1. TypeInv'
    <3>1. Places' /\ Flags'
      BY <1>1 DEF Top, Disconnected, TypeInv, Places, Flags
    <3>2. Clocks'
      BY <1>1 DEF Top, Disconnected, TypeInv, Clocks
    <3>3. QED
      BY <3>1, <3>2 DEF TypeInv
  <2>2. WatchInv'
    BY <1>1 DEF Top, Disconnected, TypeInv, Places, Flags, Clocks, WatchInv
  <2>3. HeardInv'
    BY <1>1 DEF Top, Disconnected, TypeInv, Places, Flags, Clocks, WatchInv,
          HeardInv
  <2>4. StopInv'
    BY <1>1 DEF Top, Disconnected, TypeInv, Places, Flags, Clocks, WatchInv,
          StopInv
  <2>5. RecoveryInv'
    BY <1>1 DEF Top, Disconnected, TypeInv, Places, Flags, Clocks, WatchInv,
          RecoveryInv, Lively
  <2>6. QED
    BY <2>1, <2>2, <2>3, <2>4, <2>5
<1>2. CASE Connect
  <2>1. TypeInv'
    <3>1. Places' /\ Flags'
      BY <1>2 DEF Connect, TypeInv, Places, Flags
    <3>2. Clocks'
      BY <1>2 DEF Connect, TypeInv, Clocks
    <3>3. QED
      BY <3>1, <3>2 DEF TypeInv
  <2>2. WatchInv'
    BY <1>2 DEF Connect, TypeInv, Places, Flags, Clocks, WatchInv
  <2>3. HeardInv'
    BY <1>2 DEF Connect, TypeInv, Places, Flags, Clocks, WatchInv,
          HeardInv
  <2>4. StopInv'
    BY <1>2 DEF Connect, TypeInv, Places, Flags, Clocks, WatchInv,
          StopInv
  <2>5. RecoveryInv'
    BY <1>2 DEF Connect, TypeInv, Places, Flags, Clocks, WatchInv,
          RecoveryInv, Lively
  <2>6. QED
    BY <2>1, <2>2, <2>3, <2>4, <2>5
<1>3. CASE ConnectFails
  <2>1. TypeInv'
    <3>1. Places' /\ Flags'
      BY <1>3 DEF ConnectFails, Leave, TypeInv, Places, Flags
    <3>2. Clocks'
      BY <1>3 DEF ConnectFails, Leave, TypeInv, Clocks
    <3>3. QED
      BY <3>1, <3>2 DEF TypeInv
  <2>2. WatchInv'
    BY <1>3 DEF ConnectFails, Leave, TypeInv, Places, Flags, Clocks, WatchInv
  <2>3. HeardInv'
    BY <1>3 DEF ConnectFails, Leave, TypeInv, Places, Flags, Clocks, WatchInv,
          HeardInv
  <2>4. StopInv'
    BY <1>3 DEF ConnectFails, Leave, TypeInv, Places, Flags, Clocks, WatchInv,
          StopInv
  <2>5. RecoveryInv'
    BY <1>3 DEF ConnectFails, Leave, TypeInv, Places, Flags, Clocks, WatchInv,
          RecoveryInv, Lively
  <2>6. QED
    BY <2>1, <2>2, <2>3, <2>4, <2>5
<1>4. CASE ReadStopped
  <2>1. TypeInv'
    <3>1. Places' /\ Flags'
      BY <1>4 DEF ReadStopped, Leave, TypeInv, Places, Flags
    <3>2. Clocks'
      BY <1>4 DEF ReadStopped, Leave, TypeInv, Clocks
    <3>3. QED
      BY <3>1, <3>2 DEF TypeInv
  <2>2. WatchInv'
    BY <1>4 DEF ReadStopped, Leave, TypeInv, Places, Flags, Clocks, WatchInv
  <2>3. HeardInv'
    BY <1>4 DEF ReadStopped, Leave, TypeInv, Places, Flags, Clocks, WatchInv,
          HeardInv
  <2>4. StopInv'
    BY <1>4 DEF ReadStopped, Leave, TypeInv, Places, Flags, Clocks, WatchInv,
          StopInv
  <2>5. RecoveryInv'
    BY <1>4 DEF ReadStopped, Leave, TypeInv, Places, Flags, Clocks, WatchInv,
          RecoveryInv, Lively
  <2>6. QED
    BY <2>1, <2>2, <2>3, <2>4, <2>5
<1>5. CASE ReadSync
  <2>1. TypeInv'
    <3>1. Places' /\ Flags'
      BY <1>5 DEF ReadSync, Message, TypeInv, Places, Flags
    <3>2. Clocks'
      BY <1>5 DEF ReadSync, Message, TypeInv, Clocks
    <3>3. QED
      BY <3>1, <3>2 DEF TypeInv
  <2>2. WatchInv'
    BY <1>5 DEF ReadSync, Message, TypeInv, Places, Flags, Clocks, WatchInv
  <2>3. HeardInv'
    BY <1>5 DEF ReadSync, Message, TypeInv, Places, Flags, Clocks, WatchInv,
          HeardInv
  <2>4. StopInv'
    BY <1>5 DEF ReadSync, Message, TypeInv, Places, Flags, Clocks, WatchInv,
          StopInv
  <2>5. RecoveryInv'
    BY <1>5 DEF ReadSync, Message, TypeInv, Places, Flags, Clocks, WatchInv,
          RecoveryInv, Lively
  <2>6. QED
    BY <2>1, <2>2, <2>3, <2>4, <2>5
<1>6. CASE ReadBadSync
  <2>1. TypeInv'
    <3>1. Places' /\ Flags'
      BY <1>6 DEF ReadBadSync, Leave, Message, TypeInv, Places, Flags
    <3>2. Clocks'
      BY <1>6 DEF ReadBadSync, Leave, Message, TypeInv, Clocks
    <3>3. QED
      BY <3>1, <3>2 DEF TypeInv
  <2>2. WatchInv'
    BY <1>6 DEF ReadBadSync, Leave, Message, TypeInv, Places, Flags, Clocks, WatchInv
  <2>3. HeardInv'
    BY <1>6 DEF ReadBadSync, Leave, Message, TypeInv, Places, Flags, Clocks, WatchInv,
          HeardInv
  <2>4. StopInv'
    BY <1>6 DEF ReadBadSync, Leave, Message, TypeInv, Places, Flags, Clocks, WatchInv,
          StopInv
  <2>5. RecoveryInv'
    BY <1>6 DEF ReadBadSync, Leave, Message, TypeInv, Places, Flags, Clocks, WatchInv,
          RecoveryInv, Lively
  <2>6. QED
    BY <2>1, <2>2, <2>3, <2>4, <2>5
<1>7. CASE ReadUpdate
  <2>1. TypeInv'
    <3>1. Places' /\ Flags'
      BY <1>7 DEF ReadUpdate, Message, TypeInv, Places, Flags
    <3>2. Clocks'
      BY <1>7 DEF ReadUpdate, Message, TypeInv, Clocks
    <3>3. QED
      BY <3>1, <3>2 DEF TypeInv
  <2>2. WatchInv'
    BY <1>7 DEF ReadUpdate, Message, TypeInv, Places, Flags, Clocks, WatchInv
  <2>3. HeardInv'
    BY <1>7 DEF ReadUpdate, Message, TypeInv, Places, Flags, Clocks, WatchInv,
          HeardInv
  <2>4. StopInv'
    BY <1>7 DEF ReadUpdate, Message, TypeInv, Places, Flags, Clocks, WatchInv,
          StopInv
  <2>5. RecoveryInv'
    <3>1. /\ pc = "reading" /\ ~stop /\ ~wedged
          /\ UNCHANGED <<pc, watch, synced, stop, wedged, healthy, healthyFor>>
          /\ quiet' = 0
          /\ owed' = IF synced THEN 0 ELSE owed
      BY <1>7 DEF ReadUpdate, Message
    <3>2. watch = "armed" => Lively'
      <4>1. CASE synced
        BY <3>1, <4>1 DEF Lively
      <4>2. CASE ~synced
        BY <3>1, <4>2 DEF TypeInv, Places, Flags, Clocks, RecoveryInv, Lively
      <4>3. QED
        BY <4>1, <4>2
    <3>3. QED
      BY <3>1, <3>2 DEF RecoveryInv
  <2>6. QED
    BY <2>1, <2>2, <2>3, <2>4, <2>5
<1>8. CASE StreamFails
  <2>1. TypeInv'
    <3>1. Places' /\ Flags'
      BY <1>8 DEF StreamFails, Leave, TypeInv, Places, Flags
    <3>2. Clocks'
      BY <1>8 DEF StreamFails, Leave, TypeInv, Clocks
    <3>3. QED
      BY <3>1, <3>2 DEF TypeInv
  <2>2. WatchInv'
    BY <1>8 DEF StreamFails, Leave, TypeInv, Places, Flags, Clocks, WatchInv
  <2>3. HeardInv'
    BY <1>8 DEF StreamFails, Leave, TypeInv, Places, Flags, Clocks, WatchInv,
          HeardInv
  <2>4. StopInv'
    BY <1>8 DEF StreamFails, Leave, TypeInv, Places, Flags, Clocks, WatchInv,
          StopInv
  <2>5. RecoveryInv'
    BY <1>8 DEF StreamFails, Leave, TypeInv, Places, Flags, Clocks, WatchInv,
          RecoveryInv, Lively
  <2>6. QED
    BY <2>1, <2>2, <2>3, <2>4, <2>5
<1>9. CASE End
  <2>1. TypeInv'
    <3>1. Places' /\ Flags'
      BY <1>9 DEF End, Disconnected, Doubled, Smaller, TypeInv, Places, Flags
    <3>2. Clocks'
      BY <1>9 DEF End, Disconnected, Doubled, Smaller, TypeInv, Clocks
    <3>3. QED
      BY <3>1, <3>2 DEF TypeInv
  <2>2. WatchInv'
    BY <1>9 DEF End, Disconnected, Doubled, Smaller, TypeInv, Places, Flags, Clocks, WatchInv
  <2>3. HeardInv'
    BY <1>9 DEF End, Disconnected, Doubled, Smaller, TypeInv, Places, Flags, Clocks, WatchInv,
          HeardInv
  <2>4. StopInv'
    BY <1>9 DEF End, Disconnected, Doubled, Smaller, TypeInv, Places, Flags, Clocks, WatchInv,
          StopInv
  <2>5. RecoveryInv'
    BY <1>9 DEF End, Disconnected, Doubled, Smaller, TypeInv, Places, Flags, Clocks, WatchInv,
          RecoveryInv, Lively
  <2>6. QED
    BY <2>1, <2>2, <2>3, <2>4, <2>5
<1>10. CASE Backoff
  <2>1. TypeInv'
    <3>1. Places' /\ Flags'
      BY <1>10 DEF Backoff, TypeInv, Places, Flags
    <3>2. Clocks'
      BY <1>10 DEF Backoff, TypeInv, Clocks
    <3>3. QED
      BY <3>1, <3>2 DEF TypeInv
  <2>2. WatchInv'
    BY <1>10 DEF Backoff, TypeInv, Places, Flags, Clocks, WatchInv
  <2>3. HeardInv'
    BY <1>10 DEF Backoff, TypeInv, Places, Flags, Clocks, WatchInv,
          HeardInv
  <2>4. StopInv'
    BY <1>10 DEF Backoff, TypeInv, Places, Flags, Clocks, WatchInv,
          StopInv
  <2>5. RecoveryInv'
    BY <1>10 DEF Backoff, TypeInv, Places, Flags, Clocks, WatchInv,
          RecoveryInv, Lively
  <2>6. QED
    BY <2>1, <2>2, <2>3, <2>4, <2>5
<1>11. QED
  BY <1>1, <1>2, <1>3, <1>4, <1>5, <1>6, <1>7, <1>8, <1>9, <1>10

\* The watchdog.
LEMMA WatchdogKeepsInv ==
    ASSUME IInv, Look \/ Close
    PROVE  IInv'
<1> USE Limits DEF IInv, worker, dog, metrics, process, device, link
<1>1. CASE Look
  <2>1. TypeInv'
    <3>1. Places' /\ Flags'
      BY <1>1 DEF Look, Overdue, TypeInv, Places, Flags
    <3>2. Clocks'
      BY <1>1 DEF Look, Overdue, TypeInv, Clocks
    <3>3. QED
      BY <3>1, <3>2 DEF TypeInv
  <2>2. WatchInv'
    BY <1>1 DEF Look, Overdue, TypeInv, Places, Flags, Clocks, WatchInv
  <2>3. HeardInv'
    BY <1>1 DEF Look, Overdue, TypeInv, Places, Flags, Clocks, WatchInv,
          HeardInv
  <2>4. StopInv'
    BY <1>1 DEF Look, Overdue, TypeInv, Places, Flags, Clocks, WatchInv,
          StopInv
  <2>5. RecoveryInv'
    BY <1>1 DEF Look, Overdue, TypeInv, Places, Flags, Clocks, WatchInv,
          RecoveryInv, Lively
  <2>6. QED
    BY <2>1, <2>2, <2>3, <2>4, <2>5
<1>2. CASE Close
  <2>1. TypeInv'
    <3>1. Places' /\ Flags'
      BY <1>2 DEF Close, TypeInv, Places, Flags
    <3>2. Clocks'
      BY <1>2 DEF Close, TypeInv, Clocks
    <3>3. QED
      BY <3>1, <3>2 DEF TypeInv
  <2>2. WatchInv'
    BY <1>2 DEF Close, TypeInv, Places, Flags, Clocks, WatchInv
  <2>3. HeardInv'
    BY <1>2 DEF Close, TypeInv, Places, Flags, Clocks, WatchInv,
          HeardInv
  <2>4. StopInv'
    BY <1>2 DEF Close, TypeInv, Places, Flags, Clocks, WatchInv,
          StopInv
  <2>5. RecoveryInv'
    BY <1>2 DEF Close, TypeInv, Places, Flags, Clocks, WatchInv,
          RecoveryInv, Lively
  <2>6. QED
    BY <2>1, <2>2, <2>3, <2>4, <2>5
<1>3. QED
  BY <1>1, <1>2

\* Time passes.
LEMMA TickKeepsInv ==
    ASSUME IInv, Tick
    PROVE  IInv'
<1> USE Limits DEF IInv, worker, dog, metrics, process, device, link
<1>1. CASE Tick
  <2>1. TypeInv'
    <3>1. Places' /\ Flags'
      BY <1>1 DEF Tick, Punctual, Older, Smaller, TypeInv, Places, Flags
    <3>2. Clocks'
      BY <1>1 DEF Tick, Punctual, Older, Smaller, TypeInv, Clocks
    <3>3. QED
      BY <3>1, <3>2 DEF TypeInv
  <2>2. WatchInv'
    <3>1. watch' = watch /\ pc' = pc /\ stop' = stop /\ (due' <=> watch = "armed")
      BY <1>1 DEF Tick
    <3>2. QED
      BY <3>1 DEF WatchInv
  <2>3. HeardInv'
    BY <1>1 DEF Tick, Punctual, Older, Smaller, TypeInv, Places, Flags, Clocks, WatchInv,
          HeardInv
  <2>4. StopInv'
    BY <1>1 DEF Tick, Punctual, Older, Smaller, TypeInv, Places, Flags, Clocks, WatchInv,
          StopInv
  <2>5. RecoveryInv'
    BY <1>1 DEF Tick, Punctual, Older, Smaller, TypeInv, Places, Flags, Clocks, WatchInv,
          RecoveryInv, Lively
  <2>6. QED
    BY <2>1, <2>2, <2>3, <2>4, <2>5
<1>2. QED
  BY <1>1

\* The stop event and the device.
LEMMA DeviceKeepsInv ==
    ASSUME IInv, Stop \/ Degrade \/ Wedge \/ Repair
    PROVE  IInv'
<1> USE Limits DEF IInv, worker, dog, metrics, process, device, link
<1>1. CASE Stop
  <2>1. TypeInv'
    <3>1. Places' /\ Flags'
      BY <1>1 DEF Stop, TypeInv, Places, Flags
    <3>2. Clocks'
      BY <1>1 DEF Stop, TypeInv, Clocks
    <3>3. QED
      BY <3>1, <3>2 DEF TypeInv
  <2>2. WatchInv'
    BY <1>1 DEF Stop, TypeInv, Places, Flags, Clocks, WatchInv
  <2>3. HeardInv'
    BY <1>1 DEF Stop, TypeInv, Places, Flags, Clocks, WatchInv,
          HeardInv
  <2>4. StopInv'
    BY <1>1 DEF Stop, TypeInv, Places, Flags, Clocks, WatchInv,
          StopInv
  <2>5. RecoveryInv'
    BY <1>1 DEF Stop, TypeInv, Places, Flags, Clocks, WatchInv,
          RecoveryInv, Lively
  <2>6. QED
    BY <2>1, <2>2, <2>3, <2>4, <2>5
<1>2. CASE Degrade
  <2>1. TypeInv'
    <3>1. Places' /\ Flags'
      BY <1>2 DEF Degrade, TypeInv, Places, Flags
    <3>2. Clocks'
      BY <1>2 DEF Degrade, TypeInv, Clocks
    <3>3. QED
      BY <3>1, <3>2 DEF TypeInv
  <2>2. WatchInv'
    BY <1>2 DEF Degrade, TypeInv, Places, Flags, Clocks, WatchInv
  <2>3. HeardInv'
    BY <1>2 DEF Degrade, TypeInv, Places, Flags, Clocks, WatchInv,
          HeardInv
  <2>4. StopInv'
    BY <1>2 DEF Degrade, TypeInv, Places, Flags, Clocks, WatchInv,
          StopInv
  <2>5. RecoveryInv'
    BY <1>2 DEF Degrade, TypeInv, Places, Flags, Clocks, WatchInv,
          RecoveryInv, Lively
  <2>6. QED
    BY <2>1, <2>2, <2>3, <2>4, <2>5
<1>3. CASE Wedge
  <2>1. TypeInv'
    <3>1. Places' /\ Flags'
      BY <1>3 DEF Wedge, TypeInv, Places, Flags
    <3>2. Clocks'
      BY <1>3 DEF Wedge, TypeInv, Clocks
    <3>3. QED
      BY <3>1, <3>2 DEF TypeInv
  <2>2. WatchInv'
    BY <1>3 DEF Wedge, TypeInv, Places, Flags, Clocks, WatchInv
  <2>3. HeardInv'
    BY <1>3 DEF Wedge, TypeInv, Places, Flags, Clocks, WatchInv,
          HeardInv
  <2>4. StopInv'
    BY <1>3 DEF Wedge, TypeInv, Places, Flags, Clocks, WatchInv,
          StopInv
  <2>5. RecoveryInv'
    <3>1. healthyFor = 0 /\ (pc = "reading" \/ wait <= DialTimeout)
      BY <1>3 DEF Wedge, StopInv, RecoveryInv
    <3>2. QED
      BY <1>3, <3>1 DEF Wedge, TypeInv, Places, Flags, Clocks, RecoveryInv, Lively
  <2>6. QED
    BY <2>1, <2>2, <2>3, <2>4, <2>5
<1>4. CASE Repair
  <2>1. TypeInv'
    <3>1. Places' /\ Flags'
      BY <1>4 DEF Repair, TypeInv, Places, Flags
    <3>2. Clocks'
      BY <1>4 DEF Repair, TypeInv, Clocks
    <3>3. QED
      BY <3>1, <3>2 DEF TypeInv
  <2>2. WatchInv'
    BY <1>4 DEF Repair, TypeInv, Places, Flags, Clocks, WatchInv
  <2>3. HeardInv'
    BY <1>4 DEF Repair, TypeInv, Places, Flags, Clocks, WatchInv,
          HeardInv
  <2>4. StopInv'
    BY <1>4 DEF Repair, TypeInv, Places, Flags, Clocks, WatchInv,
          StopInv
  <2>5. RecoveryInv'
    BY <1>4 DEF Repair, TypeInv, Places, Flags, Clocks, WatchInv,
          RecoveryInv, Lively
  <2>6. QED
    BY <2>1, <2>2, <2>3, <2>4, <2>5
<1>5. QED
  BY <1>1, <1>2, <1>3, <1>4

\* Every step keeps the invariant.
THEOREM StepInv == IInv /\ [Next]_vars => IInv'
<1> SUFFICES ASSUME IInv, [Next]_vars PROVE IInv'
  OBVIOUS
<1>1. CASE UNCHANGED vars
  BY <1>1 DEF vars, worker, dog, metrics, process, device, link, IInv, TypeInv, Places, Flags, Clocks, WatchInv,
              HeardInv, StopInv, RecoveryInv, Lively
<1>2. CASE Next
  BY <1>2, WorkerKeepsInv, WatchdogKeepsInv, TickKeepsInv, DeviceKeepsInv
     DEF Next, Thread, Answer, Fault
<1>3. QED
  BY <1>1, <1>2

\* It holds in every state of every behaviour.
THEOREM Invariance == Spec => []IInv
BY InitInv, StepInv, PTL DEF Spec

------------------------------------------------------------------------------
\* Metrics.collect says collector_connected only of a device whose session is open
\* and was heard of less than FreshFor ago: whatever order the worker, the watchdog
\* and the scrape run in, for every choice of the timeouts.
THEOREM ConnectedIsHeard == Spec => []ConnectedMeansHeard
<1>1. IInv => ConnectedMeansHeard
  BY Limits DEF IInv, TypeInv, Places, Flags, Clocks, HeardInv, ConnectedMeansHeard, CollectorConnected
<1>2. QED
  BY Invariance, <1>1, PTL

\* The stop event ends the worker as soon as a dial can end: every other wait of it
\* is woken by the event or by the watchdog.
THEOREM StopIsBounded == Spec => []StopsInTime
<1>1. IInv => StopsInTime
  BY Limits DEF IInv, TypeInv, Places, Flags, Clocks, StopInv, StopsInTime
<1>2. QED
  BY Invariance, <1>1, PTL

\* A device that works again is published within RecoveryBound, even if the fault
\* left a dead connection behind: watchdog or dial, backoff, dial, first sample.
THEOREM RecoveryIsBounded == Spec => []RecoversInTime
<1>1. IInv => RecoversInTime
  <2> SUFFICES ASSUME IInv, healthy, healthyFor > RecoveryBound, ~stop
               PROVE  synced /\ CollectorConnected
    BY DEF RecoversInTime
  <2> USE Limits DEF IInv, TypeInv, Places, Flags, Clocks
  <2>1. pc = "reading" /\ watch = "armed" /\ ~ (healthyFor <= quiet)
    BY DEF WatchInv, RecoveryInv
  <2>2. Lively
    BY <2>1 DEF RecoveryInv
  <2>3. synced /\ quiet <= SamplePeriod
    BY <2>1, <2>2 DEF RecoveryInv, Lively
  <2>4. QED
    BY <2>1, <2>3 DEF HeardInv, CollectorConnected
<1>2. QED
  BY Invariance, <1>1, PTL
==============================================================================
