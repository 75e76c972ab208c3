---------------------------- MODULE CliTaskProofs ----------------------------
(***************************************************************************)
(* What the exit code of the CLI collector and the answer of collect-cli   *)
(* say is true for every number of devices, threads and commands.          *)
(***************************************************************************)
EXTENDS CliTask, TLAPS

JobState == {"queued", "connect", "send", "write", "close", "ok", "error"}
Over     == {"ok", "error"}

RunTypes == /\ job \in [Device -> JobState]
            /\ done \in [Device -> 0 .. Commands]
            /\ counted \subseteq {d \in Device : job[d] \in Over}
            /\ failed \in Nat
            /\ exit \in {"none", "success", "failure"}
            /\ posted \subseteq Everything
            /\ stored \subseteq Everything
            /\ fault \subseteq Device

\* A device has stored what it is done with and begun at most one write more; it
\* asks only for commands that are left, and closes its session with none left.
Progress == \A d \in Device :
               /\ {d} \X (1 .. done[d]) \subseteq stored
               /\ job[d] \in {"queued", "connect"} => done[d] = 0
               /\ job[d] \in {"send", "write"} => done[d] < Commands
               /\ job[d] \in {"close", "ok"} => done[d] = Commands
               /\ \A i \in 1 .. Commands : <<d, i>> \in posted => i <= done[d] + 1

\* A future has an exception exactly if something failed for its device.
ErrorsAreFaults == \A d \in Device : job[d] = "error" <=> d \in fault

\* The counter says whether one of the futures taken so far had one.
FailuresCounted == failed = 0 <=> \A d \in counted : job[d] = "ok"

\* The run is over when every future was taken, and its code is the counter's.
ExitAtEnd == /\ exit # "none" => counted = Device
             /\ exit = "success" => failed = 0
             /\ exit = "failure" => failed > 0

RunInv == RunTypes /\ Progress /\ ErrorsAreFaults /\ FailuresCounted /\ ExitAtEnd

\* Only a run that succeeded has exit code zero, and only such a code makes
\* collect-cli succeed.
IInv == /\ RunInv
        /\ exitCode = "zero" => exit = "success"
        /\ caller = "ok" => exit = "success"

------------------------------------------------------------------------------
\* The invariant holds at the start.
THEOREM InitInv == Init => IInv
<1> SUFFICES ASSUME Init PROVE IInv
  OBVIOUS
<1> USE CliAssumption DEF Init, CliInit
<1>1. RunTypes
  BY DEF RunTypes, JobState
<1>2. Progress /\ ErrorsAreFaults /\ FailuresCounted /\ ExitAtEnd
  BY DEF Progress, ErrorsAreFaults, FailuresCounted, ExitAtEnd
<1>3. QED
  BY <1>1, <1>2 DEF IInv, RunInv

\* A step that moves only the job of d to another place of its session, before
\* anything is over, keeps the invariant.
LEMMA MoveKeepsInv ==
    ASSUME RunInv, NEW d \in Device, NEW s \in JobState,
           job[d] \notin Over, Becomes(d, s),
           s = "connect" => done[d] = 0,
           s \in {"send", "write"} => done[d] < Commands,
           s \in {"close", "ok"} => done[d] = Commands,
           s \notin {"queued", "error"},
           UNCHANGED <<done, run, posted, stored, fault>>
    PROVE  RunInv'
<1> USE CliAssumption DEF RunInv, RunTypes, Becomes, run
<1>1. d \notin counted
  OBVIOUS
<1>2. RunTypes' /\ ErrorsAreFaults'
  BY DEF ErrorsAreFaults, JobState, Over
<1>3. Progress'
  BY DEF Progress, JobState
<1>4. FailuresCounted'
  BY <1>1 DEF FailuresCounted
<1>5. ExitAtEnd'
  BY DEF ExitAtEnd
<1>6. QED
  BY <1>2, <1>3, <1>4, <1>5

\* A write that begins is of the command that follows what the device is done with.
LEMMA AnsweredKeepsInv ==
    ASSUME RunInv, NEW d \in Device, Answered(d)
    PROVE  RunInv'
<1> USE CliAssumption DEF RunInv, RunTypes
<1>1. done[d] \in Nat /\ done[d] < Commands /\ job[d] = "send" /\ job'[d] = "write"
  BY DEF Answered, Becomes, Progress
<1>2. \A e \in Device \ {d} : job'[e] = job[e]
  BY DEF Answered, Becomes
<1>3. d \notin counted
  BY <1>1 DEF Over
<1>4. /\ posted' = posted \cup {<<d, done[d] + 1>>}
      /\ UNCHANGED <<done, counted, failed, exit, stored, fault>>
  BY DEF Answered, run
<1>5. RunTypes'
  <2>1. job' \in [Device -> JobState]
    BY DEF Answered, Becomes, JobState
  <2>2. counted' \subseteq {e \in Device : job'[e] \in Over}
    BY <1>2, <1>3, <1>4
  <2>3. posted' \subseteq Everything
    BY <1>1, <1>4 DEF Everything
  <2>4. QED
    BY <1>4, <2>1, <2>2, <2>3
<1>6. Progress'
  <2>1. ASSUME NEW e \in Device, NEW i \in 1 .. Commands, <<e, i>> \in posted'
        PROVE  i <= done[e] + 1
    BY <1>1, <1>4, <2>1 DEF Progress
  <2>2. QED
    BY <1>1, <1>2, <1>4, <2>1 DEF Progress
<1>7. ErrorsAreFaults' /\ FailuresCounted' /\ ExitAtEnd'
  BY <1>1, <1>2, <1>3, <1>4 DEF ErrorsAreFaults, FailuresCounted, ExitAtEnd
<1>8. QED
  BY <1>5, <1>6, <1>7

\* OpenSearch only adds to what is stored, and only what was sent to it.
LEMMA IndexingKeepsInv ==
    ASSUME RunInv, Indexing
    PROVE  RunInv'
<1> USE DEF RunInv, RunTypes
<1>1. /\ stored \subseteq stored' /\ stored' \subseteq Everything
      /\ UNCHANGED <<job, done, counted, failed, exit, posted, fault>>
  BY DEF Indexing, Index, run, Everything
<1>2. RunTypes'
  BY <1>1
<1>3. Progress' /\ ErrorsAreFaults' /\ FailuresCounted' /\ ExitAtEnd'
  BY <1>1 DEF Progress, ErrorsAreFaults, FailuresCounted, ExitAtEnd
<1>4. QED
  BY <1>2, <1>3

\* A command whose result is stored is one more of the device.
LEMMA WrittenKeepsInv ==
    ASSUME RunInv, NEW d \in Device, Written(d)
    PROVE  RunInv'
<1> USE CliAssumption DEF RunInv, RunTypes, run
<1>1. done[d] \in Nat /\ done[d] < Commands /\ done'[d] = done[d] + 1 /\ job[d] = "write"
  BY DEF Written, Progress
<1>2. job'[d] = IF done[d] + 1 < Commands THEN "send" ELSE "close"
  BY DEF Written, NextCommand, Becomes
<1>3. \A e \in Device \ {d} : job'[e] = job[e] /\ done'[e] = done[e]
  BY DEF Written, NextCommand, Becomes
<1>4. d \notin counted
  BY <1>1 DEF Over
<1>5. RunTypes'
  <2>1. job' \in [Device -> JobState] /\ done' \in [Device -> 0 .. Commands]
    BY <1>1 DEF Written, NextCommand, Becomes, JobState
  <2>2. counted' \subseteq {e \in Device : job'[e] \in Over}
    BY <1>3, <1>4 DEF Written
  <2>3. stored' \subseteq Everything
    BY <1>1 DEF Written, Everything
  <2>4. QED
    BY <2>1, <2>2, <2>3 DEF Written
<1>6. Progress'
  <2>1. ASSUME NEW i \in 1 .. done'[d] PROVE <<d, i>> \in stored'
    <3>1. i = done[d] + 1 \/ i \in 1 .. done[d]
      BY <1>1
    <3>2. QED
      BY <3>1 DEF Written, Progress
  <2>2. \A e \in Device \ {d} : {e} \X (1 .. done'[e]) \subseteq stored'
    BY <1>3 DEF Written, Progress
  <2>3. done'[d] \in 0 .. Commands
    BY <1>1
  <2>4. \A e \in Device, i \in 1 .. Commands : <<e, i>> \in posted' => i <= done'[e] + 1
    BY <1>1, <1>3 DEF Written, Progress
  <2>5. job'[d] = "close" => done'[d] = Commands
    BY <1>1, <1>2
  <2>6. job'[d] = "send" => done'[d] < Commands
    BY <1>1, <1>2
  <2>7. job'[d] \in {"send", "close"}
    BY <1>2
  <2>8. QED
    BY <1>3, <2>1, <2>2, <2>3, <2>4, <2>5, <2>6, <2>7 DEF Progress
<1>7. ErrorsAreFaults'
  BY <1>1, <1>2, <1>3 DEF ErrorsAreFaults, Written
<1>8. FailuresCounted'
  BY <1>3, <1>4 DEF FailuresCounted, Written
<1>9. ExitAtEnd'
  BY DEF ExitAtEnd, Written
<1>10. QED
  BY <1>5, <1>6, <1>7, <1>8, <1>9

\* An exception ends the collection of its device and of no other.
LEMMA RaisesKeepsInv ==
    ASSUME RunInv, NEW d \in Device, Raises(d)
    PROVE  RunInv'
<1> USE CliAssumption DEF RunInv, RunTypes, run
<1>1. job[d] \in {"connect", "send", "write", "close"} /\ job'[d] = "error" /\ d \notin counted
  BY DEF Raises, Ends, Becomes, Over
<1>2. \A e \in Device \ {d} : job'[e] = job[e]
  BY DEF Raises, Ends, Becomes
<1>3. UNCHANGED <<done, counted, failed, exit, posted, stored>>
  BY DEF Raises
<1>4. fault' = fault \cup {d}
  BY DEF Raises
<1>5. RunTypes'
  <2>1. job' \in [Device -> JobState]
    BY DEF Raises, Ends, Becomes, JobState
  <2>2. counted' \subseteq {e \in Device : job'[e] \in Over}
    BY <1>1, <1>2, <1>3
  <2>3. QED
    BY <1>3, <1>4, <2>1, <2>2
<1>6. Progress'
  BY <1>1, <1>2, <1>3 DEF Progress
<1>7. ErrorsAreFaults'
  BY <1>1, <1>2 DEF ErrorsAreFaults, Raises
<1>8. FailuresCounted'
  BY <1>1, <1>2, <1>3 DEF FailuresCounted
<1>9. ExitAtEnd'
  BY <1>3 DEF ExitAtEnd
<1>10. QED
  BY <1>5, <1>6, <1>7, <1>8, <1>9

\* main counts a device once, when its future is done.
LEMMA CountKeepsInv ==
    ASSUME RunInv, NEW d \in Device, Count(d)
    PROVE  RunInv'
<1> USE DEF RunInv, RunTypes
<1>1. /\ job[d] \in Over /\ d \notin counted /\ counted' = counted \cup {d}
      /\ UNCHANGED <<job, done, exit, posted, stored, fault>>
  BY DEF Count, Over
<1>2. failed' \in Nat /\ (failed' = 0 <=> failed = 0 /\ job[d] = "ok")
  BY <1>1 DEF Count, Failure, Over
<1>3. RunTypes' /\ Progress' /\ ErrorsAreFaults'
  BY <1>1, <1>2 DEF Progress, ErrorsAreFaults
<1>4. FailuresCounted'
  BY <1>1, <1>2 DEF FailuresCounted
<1>5. ExitAtEnd'
  BY <1>1 DEF ExitAtEnd
<1>6. QED
  BY <1>3, <1>4, <1>5

\* One step of the run.
LEMMA RunStep == RunInv /\ CliNext => RunInv'
<1> SUFFICES ASSUME RunInv, CliNext PROVE RunInv'
  OBVIOUS
<1> USE CliAssumption DEF RunInv
<1>1. CASE Exit
  BY <1>1 DEF Exit, RunTypes, Progress, ErrorsAreFaults, FailuresCounted, ExitAtEnd
<1>2. ASSUME NEW d \in Device, Start(d) PROVE RunInv'
  BY <1>2, MoveKeepsInv DEF Start, Progress, JobState, Over
<1>3. ASSUME NEW d \in Device, LoggedIn(d) PROVE RunInv'
  <2>1. done[d] = 0
    BY <1>3 DEF LoggedIn, Progress
  <2>2. QED
    BY <1>3, <2>1, MoveKeepsInv DEF LoggedIn, NextCommand, JobState, Over
<1>4. ASSUME NEW d \in Device, Answered(d) PROVE RunInv'
  BY <1>4, AnsweredKeepsInv
<1>5. ASSUME NEW d \in Device, Written(d) PROVE RunInv'
  BY <1>5, WrittenKeepsInv
<1>6. ASSUME NEW d \in Device, Raises(d) PROVE RunInv'
  BY <1>6, RaisesKeepsInv
<1>7. ASSUME NEW d \in Device, Count(d) PROVE RunInv'
  BY <1>7, CountKeepsInv
<1>8. ASSUME NEW d \in Device, Closed(d) PROVE RunInv'
  BY <1>8, MoveKeepsInv DEF Closed, Progress, JobState, Over
<1>9. QED
  BY <1>1, <1>2, <1>3, <1>4, <1>5, <1>6, <1>7, <1>8 DEF CliNext, Session

------------------------------------------------------------------------------
\* The task, the emulator and collect_cli around the run.
THEOREM StepInv == IInv /\ [Next]_vars => IInv'
<1> SUFFICES ASSUME IInv, [Next]_vars PROVE IInv'
  OBVIOUS
<1> USE DEF IInv
<1>1. ASSUME UNCHANGED cliVars PROVE RunInv' /\ exit' = exit
  BY <1>1 DEF cliVars, run, RunInv, RunTypes, Progress, ErrorsAreFaults,
              FailuresCounted, ExitAtEnd
<1>2. CASE TaskStarts
  BY <1>1, <1>2 DEF TaskStarts
<1>3. CASE TaskRuns
  <2>1. RunInv'
    BY <1>3, RunStep DEF TaskRuns
  <2>2. exit = "success" => exit' = "success"
    BY <1>3 DEF TaskRuns, CliNext, Session, Exit, Start, LoggedIn, Answered,
                Written, Closed, Raises, Count, run
  <2>3. QED
    BY <1>3, <2>1, <2>2 DEF TaskRuns, taskVars
<1>4. CASE TaskExits
  BY <1>1, <1>4 DEF TaskExits
<1>5. CASE TaskDies
  BY <1>1, <1>5 DEF TaskDies
<1>6. CASE RunTask
  BY <1>1, <1>6 DEF RunTask
<1>7. CASE Deadline
  BY <1>1, <1>7 DEF Deadline
<1>8. CASE PollStopped
  BY <1>1, <1>8 DEF PollStopped, Passed
<1>9. CASE ApiRaises
  BY <1>1, <1>9 DEF ApiRaises
<1>10. CASE GiveUp
  BY <1>1, <1>10 DEF GiveUp
<1>11. CASE UNCHANGED vars
  BY <1>1, <1>11 DEF vars, taskVars
<1>12. CASE StoreWorks
  BY <1>12, IndexingKeepsInv DEF StoreWorks, Indexing, Index, run, taskVars
<1>13. QED
  BY <1>2, <1>3, <1>4, <1>5, <1>6, <1>7, <1>8, <1>9, <1>10, <1>11, <1>12 DEF Next

\* It holds in every state of every behaviour.
THEOREM Invariance == Spec => []IInv
<1>1. QED
  BY InitInv, StepInv, PTL DEF Spec

\* A run that succeeded has every future ended well, and hence stored all.
LEMMA SuccessStoresAll ==
    ASSUME RunInv, exit = "success"
    PROVE  stored = Everything
<1>1. counted = Device /\ failed = 0
  BY DEF RunInv, ExitAtEnd
<1>2. \A d \in Device : done[d] = Commands
  BY <1>1 DEF RunInv, FailuresCounted, Progress
<1>3. \A d \in Device : {d} \X (1 .. Commands) \subseteq stored
  BY <1>2 DEF RunInv, Progress
<1>4. QED
  BY <1>3 DEF RunInv, RunTypes, Everything

\* The exit code of run() in cli.py: 0 only with the observations of every
\* command of every device in the history, 1 only if something failed.
THEOREM ExitCodeCorrect == Spec => []ExitCodeHonest
<1>1. IInv => ExitCodeHonest
  <2> SUFFICES ASSUME IInv PROVE ExitCodeHonest
    OBVIOUS
  <2>1. exit = "failure" => fault # {}
    <3>1. SUFFICES ASSUME exit = "failure" PROVE fault # {}
      OBVIOUS
    <3>2. PICK d \in counted : job[d] # "ok"
      BY <3>1 DEF IInv, RunInv, RunTypes, ExitAtEnd, FailuresCounted
    <3>3. job[d] = "error" /\ d \in Device
      BY <3>2 DEF IInv, RunInv, RunTypes, Over
    <3>4. QED
      BY <3>3 DEF IInv, RunInv, ErrorsAreFaults
  <2>2. QED
    BY <2>1, SuccessStoresAll DEF IInv, ExitCodeHonest
<1>2. QED
  BY <1>1, Invariance, PTL

\* One device's failure takes nothing from another: collect_device of cli.py
\* has each exception end its own future only.
THEOREM FailuresStayApart == Spec => []FailuresIsolated
<1>1. IInv => FailuresIsolated
  <2> SUFFICES ASSUME IInv, exit # "none", NEW d \in Device \ fault
               PROVE  {d} \X (1 .. Commands) \subseteq stored
    BY DEF FailuresIsolated
  <2>1. job[d] \in Over
    BY DEF IInv, RunInv, RunTypes, ExitAtEnd
  <2>2. job[d] = "ok"
    BY <2>1 DEF IInv, RunInv, ErrorsAreFaults, Over
  <2>3. QED
    BY <2>2 DEF IInv, RunInv, Progress
<1>2. QED
  BY <1>1, Invariance, PTL

\* collect_device of cli.py sends a command only when the write of the one before
\* has returned: a run that is cut off, or whose write raised, leaves no gap, even
\* if OpenSearch stores the rest of that write later.
THEOREM PrefixStored == Spec => []StoredIsPrefix
<1>1. IInv => StoredIsPrefix
  <2> SUFFICES ASSUME IInv, NEW d \in Device
               PROVE  \E n \in 0 .. Commands :
                         /\ {d} \X (1 .. n) \subseteq stored
                         /\ \A i \in 1 .. Commands : <<d, i>> \in posted => i <= n + 1
    BY DEF StoredIsPrefix
  <2>1. done[d] \in 0 .. Commands
    BY DEF IInv, RunInv, RunTypes
  <2>2. WITNESS done[d] \in 0 .. Commands
  <2>3. QED
    BY DEF IInv, RunInv, Progress
<1>2. QED
  BY <1>1, Invariance, PTL

\* collect_cli of ecs.py returns a task only if the history is complete,
\* whatever the emulator loses and whenever the container dies.
THEOREM SuccessIsStored == Spec => []SuccessMeansStored
<1>1. IInv => SuccessMeansStored
  BY SuccessStoresAll DEF IInv, SuccessMeansStored
<1>2. QED
  BY <1>1, Invariance, PTL
==============================================================================
