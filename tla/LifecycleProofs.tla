--------------------------- MODULE LifecycleProofs ---------------------------
(***************************************************************************)
(* What "make up" and "make down" leave behind, and what the discovery     *)
(* file says, for every number of tasks the service may launch and of      *)
(* commands given, whenever the API fails, a task dies or a call raises.   *)
(***************************************************************************)
EXTENDS Lifecycle, TLAPS

TaskStatus == {"none", "PENDING", "RUNNING", "STOPPED"}

Label == {"off", "list", "describe", "compare", "write", "sleep", "done", "failed",
          "clear", "dead"}

UpSteps   == {"deploy", "floci", "register", "service", "ready", "inspect", "address",
              "write", "healthy"}
DownSteps == {"find", "clusters", "scale", "delete", "tasks", "stop", "poll", "destroy",
              "clear"}

\* A task that has run once has run for ever.
Begun(t) == last[t] \in {"RUNNING", "STOPPED"}

EcsTypes == /\ emulator \in {"answers", "fails", "down"}
            /\ wanted \in {0, 1}
            /\ definition \in Nat
            /\ desired \in [Task -> {"none", "RUNNING", "STOPPED"}]
            /\ last \in [Task -> TaskStatus]
            /\ revision \in [Task -> Nat]

FileTypes == /\ file \subseteq Task
             /\ at \in [Writer -> Label]
             /\ answer \in [Writer -> SUBSET Task]

CommandTypes == /\ step \in {"none"} \cup UpSteps \cup DownSteps
                /\ deployed \in BOOLEAN /\ cluster \in BOOLEAN
                /\ latest \in Nat

TypeInv == EcsTypes /\ FileTypes /\ CommandTypes

\* What the file says, and what a writer is about to write, comes from
\* describe_tasks.
FileBegun == /\ \A t \in file : Begun(t)
             /\ \A w \in Writer : at[w] \in {"compare", "write"} =>
                                      \A t \in answer[w] : Begun(t)

\* "make up" writes only in its own step, so that no other call of the command
\* overwrites its answer.
HostInStep == at["host"] \in {"list", "describe", "compare", "write"} => step = "write"

TargetsBegun == FileBegun /\ HostInStep

\* A command begins without an answer of ECS.
FreshAnswer ==
    step \in {"none", "deploy", "floci", "register", "service", "find", "clusters",
              "scale", "delete", "tasks"} => answer["host"] = {}

\* An emulator that has no cluster has no service and no task; "make up" has made
\* the cluster before the service.
NoClusterNoTask ==
    /\ ~deployed => ~cluster
    /\ ~cluster => definition = 0 /\ Listed = {}
    /\ step \in {"floci", "register"} => deployed
    /\ step = "service" => cluster

\* While "make up" waits for the collector the service runs the newest revision,
\* so what the scheduler adds to the answer the command holds is of that one.
UpInv ==
    /\ step \in {"ready", "inspect", "address", "write", "healthy"} => definition = latest
    /\ step = "inspect" =>
          \A t \in Listed : t \in answer["host"] \/ revision[t] = latest
    /\ step \in {"address", "write", "healthy"} => \A t \in Listed : revision[t] = latest

\* Once the service is gone the set of listed tasks can only shrink, so that the
\* answer "make down" holds covers it until it is empty.
DownInv ==
    /\ step \in {"tasks", "stop", "poll"} => definition = 0
    /\ step = "stop" => Listed \subseteq answer["host"]
    /\ step = "poll" => Listed = {}
    /\ step = "destroy" /\ emulator # "down" =>
          /\ definition = 0 /\ Listed = {}
          /\ \A t \in answer["host"] : last[t] = "STOPPED"

IInv == TypeInv /\ TargetsBegun /\ FreshAnswer /\ NoClusterNoTask /\ UpInv /\ DownInv

------------------------------------------------------------------------------
\* The invariant holds at the start.
THEOREM InitInv == Init => IInv
<1> SUFFICES ASSUME Init PROVE IInv
  OBVIOUS
<1> USE DEF Init, EcsInit, FileInit
<1>1. TypeInv
  BY DEF TypeInv, EcsTypes, FileTypes, CommandTypes, TaskStatus, Label, Writer
<1>2. Listed = {}
  BY DEF Listed
<1>3. TargetsBegun
  BY DEF TargetsBegun, FileBegun, HostInStep, Writer
<1>4. FreshAnswer /\ NoClusterNoTask /\ UpInv /\ DownInv
  BY <1>2 DEF FreshAnswer, NoClusterNoTask, UpInv, DownInv, Writer
<1>5. QED
  BY <1>1, <1>3, <1>4 DEF IInv

------------------------------------------------------------------------------
(* What the two parts beside the command can do.                           *)

\* A step of ECS: a task that has run stays so, one that has stopped stays so,
\* and one that is listed was listed before or is launched with the task
\* definition of the service.
EcsMoves == /\ emulator = "down" => emulator' = "down"
            /\ UNCHANGED <<wanted, definition>>
            /\ \A t \in Task : Begun(t) => last'[t] \in {"RUNNING", "STOPPED"}
            /\ \A t \in Task : last[t] = "STOPPED" => last'[t] = "STOPPED"
            /\ \A t \in Task : desired'[t] = "RUNNING" =>
                  \/ t \in Listed /\ revision'[t] = revision[t]
                  \/ definition > 0 /\ revision'[t] = definition

\* Weather, Launch, Retire, Runs and Ends move no task otherwise.
LEMMA EcsEffect == EcsTypes /\ EcsNext => EcsTypes' /\ EcsMoves
<1> SUFFICES ASSUME EcsTypes, EcsNext PROVE EcsTypes' /\ EcsMoves
  OBVIOUS
<1> USE DEF EcsTypes, EcsMoves, TaskStatus, Listed, Begun
<1>1. CASE Weather
  BY <1>1 DEF Weather, tasks
<1>2. CASE \E t \in Task : Launch(t)
  <2>1. PICK u \in Task : Launch(u)
    BY <1>2
  <2>2. QED
    BY <2>1 DEF Launch
<1>3. CASE \E t \in Task : Retire(t)
  <2>1. PICK u \in Task : Retire(u)
    BY <1>3
  <2>2. QED
    BY <2>1 DEF Retire
<1>4. CASE \E t \in Task : Runs(t)
  <2>1. PICK u \in Task : Runs(u)
    BY <1>4
  <2>2. QED
    BY <2>1 DEF Runs
<1>5. CASE \E t \in Task : Ends(t)
  <2>1. PICK u \in Task : Ends(u)
    BY <1>5
  <2>2. QED
    BY <2>1 DEF Ends
<1>6. QED
  BY <1>1, <1>2, <1>3, <1>4, <1>5 DEF EcsNext

\* A step of a writer of the file: only what runs is about to be written, and
\* the other writer is left alone.
LEMMA WriterEffect ==
    ASSUME FileTypes, FileBegun, NEW w \in Writer,
           Writes(w) \/ (w = "loop" /\ (Clear \/ Wake))
    PROVE  /\ FileTypes' /\ FileBegun'
           /\ UNCHANGED ecs
           /\ \A v \in Writer \ {w} : at'[v] = at[v] /\ answer'[v] = answer[v]
<1> USE DEF FileTypes, FileBegun, Writer, Label, Begun, Moves, Learns, Rests, ecs, tasks
<1>1. CASE List(w)
  BY <1>1 DEF List, Listed
<1>2. CASE Describe(w)
  BY <1>2 DEF Describe, Started
<1>3. CASE Compare(w)
  BY <1>3 DEF Compare
<1>4. CASE Replace(w)
  BY <1>4 DEF Replace
<1>5. CASE Raises(w)
  BY <1>5 DEF Raises, Handler
<1>6. CASE w = "loop" /\ Clear
  BY <1>6 DEF Clear
<1>7. CASE w = "loop" /\ Wake
  BY <1>7 DEF Wake
<1>8. QED
  BY <1>1, <1>2, <1>3, <1>4, <1>5, <1>6, <1>7 DEF Writes

------------------------------------------------------------------------------
(* Every step keeps the invariant; first those beside the command.         *)

\* The service scheduler, the tasks and the API.
LEMMA EcsKeepsInv ==
    ASSUME IInv, EcsNext, UNCHANGED <<writers, disk, step, given, lab>>
    PROVE  IInv'
<1> USE DEF writers, lab, Begun
<1>1. EcsTypes' /\ EcsMoves
  BY EcsEffect DEF IInv, TypeInv
<1>2. TypeInv'
  BY <1>1 DEF IInv, TypeInv, FileTypes, CommandTypes
<1>3. TargetsBegun'
  BY <1>1 DEF IInv, TypeInv, FileTypes, TargetsBegun, FileBegun, HostInStep, EcsMoves
<1>4. FreshAnswer'
  BY DEF IInv, FreshAnswer
<1>5. \A t \in Listed' : \/ t \in Listed /\ revision'[t] = revision[t]
                         \/ definition > 0 /\ revision'[t] = definition
  <2>1. \A t \in Listed' : t \in Task /\ desired'[t] = "RUNNING"
    BY DEF Listed
  <2>2. QED
    BY <1>1, <2>1 DEF EcsMoves
<1>6. definition' = definition /\ (definition = 0 => Listed' \subseteq Listed)
  BY <1>1, <1>5 DEF EcsMoves
<1>7. NoClusterNoTask'
  BY <1>6 DEF IInv, NoClusterNoTask
<1>8. UpInv'
  BY <1>5, <1>6 DEF IInv, UpInv
<1>9. DownInv'
  BY <1>1, <1>6 DEF IInv, TypeInv, FileTypes, Writer, DownInv, EcsMoves
<1>10. QED
  BY <1>2, <1>3, <1>4, <1>7, <1>8, <1>9 DEF IInv

\* The discovery loop.
LEMMA LoopKeepsInv ==
    ASSUME IInv, LoopRuns
    PROVE  IInv'
<1> USE DEF lab, ecs, tasks
<1>1. /\ FileTypes' /\ FileBegun'
      /\ UNCHANGED ecs
      /\ at'["host"] = at["host"] /\ answer'["host"] = answer["host"]
  BY WriterEffect DEF IInv, TypeInv, TargetsBegun, LoopRuns, LoopStep, Writer
<1>2. UNCHANGED <<step, given, lab>>
  BY DEF LoopRuns
<1>3. TypeInv' /\ TargetsBegun'
  BY <1>1, <1>2 DEF IInv, TypeInv, EcsTypes, CommandTypes, TargetsBegun, HostInStep
<1>4. FreshAnswer' /\ NoClusterNoTask' /\ UpInv' /\ DownInv'
  BY <1>1, <1>2 DEF IInv, FreshAnswer, NoClusterNoTask, UpInv, DownInv, Listed
<1>5. QED
  BY <1>3, <1>4 DEF IInv

\* write_discovery of "make up".
LEMMA HostWritesKeepsInv ==
    ASSUME IInv, HostWrites
    PROVE  IInv'
<1> USE DEF lab, ecs, tasks
<1>1. /\ FileTypes' /\ FileBegun'
      /\ UNCHANGED ecs
  BY WriterEffect DEF IInv, TypeInv, TargetsBegun, HostWrites, Writer
<1>2. step = "write" /\ UNCHANGED <<step, given, lab>>
  BY DEF HostWrites
<1>3. TypeInv' /\ TargetsBegun'
  BY <1>1, <1>2 DEF IInv, TypeInv, EcsTypes, CommandTypes, TargetsBegun, HostInStep
<1>4. FreshAnswer' /\ NoClusterNoTask' /\ UpInv' /\ DownInv'
  BY <1>1, <1>2 DEF IInv, FreshAnswer, NoClusterNoTask, UpInv, DownInv, Listed
<1>5. QED
  BY <1>3, <1>4 DEF IInv

(* The calls of the two commands.                                          *)

\* "make up".
LEMMA UpKeepsInv ==
    ASSUME IInv, Up
    PROVE  IInv'
<1> USE DEF IInv, TypeInv, EcsTypes, FileTypes, CommandTypes, UpSteps, DownSteps, Label,
            Writer, At, Goto, Over, Asks, Moves, Learns, lab, ecs, tasks, vars, writers
<1>1. CASE Deploy
  <2>1. TypeInv'
    BY <1>1 DEF Deploy, Listed, TaskStatus
  <2>2. TargetsBegun'
    BY <1>1 DEF Deploy, TargetsBegun, FileBegun, HostInStep, Begun
  <2>3. FreshAnswer' /\ NoClusterNoTask'
    BY <1>1 DEF Deploy, FreshAnswer, NoClusterNoTask, Listed
  <2>4. UpInv'
    BY <1>1 DEF Deploy, UpInv, Listed
  <2>5. DownInv'
    BY <1>1 DEF Deploy, DownInv, FreshAnswer, NoClusterNoTask, Listed
  <2>6. QED
    BY <2>1, <2>2, <2>3, <2>4, <2>5
<1>2. CASE DeployFails
  <2>1. TypeInv'
    BY <1>2 DEF DeployFails, Listed, TaskStatus
  <2>2. TargetsBegun'
    BY <1>2 DEF DeployFails, TargetsBegun, FileBegun, HostInStep, Begun
  <2>3. FreshAnswer' /\ NoClusterNoTask'
    BY <1>2 DEF DeployFails, FreshAnswer, NoClusterNoTask, Listed
  <2>4. UpInv'
    BY <1>2 DEF DeployFails, UpInv, Listed
  <2>5. DownInv'
    BY <1>2 DEF DeployFails, DownInv, FreshAnswer, NoClusterNoTask, Listed
  <2>6. QED
    BY <2>1, <2>2, <2>3, <2>4, <2>5
<1>3. CASE FlociReady
  <2>1. TypeInv'
    BY <1>3 DEF FlociReady, Listed, TaskStatus
  <2>2. TargetsBegun'
    BY <1>3 DEF FlociReady, TargetsBegun, FileBegun, HostInStep, Begun
  <2>3. FreshAnswer' /\ NoClusterNoTask'
    BY <1>3 DEF FlociReady, FreshAnswer, NoClusterNoTask, Listed
  <2>4. UpInv'
    BY <1>3 DEF FlociReady, UpInv, Listed
  <2>5. DownInv'
    BY <1>3 DEF FlociReady, DownInv, FreshAnswer, NoClusterNoTask, Listed
  <2>6. QED
    BY <2>1, <2>2, <2>3, <2>4, <2>5
<1>4. CASE Register
  <2>1. TypeInv'
    BY <1>4 DEF Register, Listed, TaskStatus
  <2>2. TargetsBegun'
    BY <1>4 DEF Register, TargetsBegun, FileBegun, HostInStep, Begun
  <2>3. FreshAnswer' /\ NoClusterNoTask'
    BY <1>4 DEF Register, FreshAnswer, NoClusterNoTask, Listed
  <2>4. UpInv'
    BY <1>4 DEF Register, UpInv, Listed
  <2>5. DownInv'
    BY <1>4 DEF Register, DownInv, FreshAnswer, NoClusterNoTask, Listed
  <2>6. QED
    BY <2>1, <2>2, <2>3, <2>4, <2>5
<1>5. CASE UpsertService
  <2>1. TypeInv'
    BY <1>5 DEF UpsertService, Listed, TaskStatus
  <2>2. TargetsBegun'
    BY <1>5 DEF UpsertService, TargetsBegun, FileBegun, HostInStep, Begun
  <2>3. FreshAnswer' /\ NoClusterNoTask'
    BY <1>5 DEF UpsertService, FreshAnswer, NoClusterNoTask, Listed
  <2>4. UpInv'
    BY <1>5 DEF UpsertService, UpInv, Listed
  <2>5. DownInv'
    BY <1>5 DEF UpsertService, DownInv, FreshAnswer, NoClusterNoTask, Listed
  <2>6. QED
    BY <2>1, <2>2, <2>3, <2>4, <2>5
<1>6. CASE ReadyList
  <2>1. TypeInv'
    BY <1>6 DEF ReadyList, Listed, TaskStatus
  <2>2. TargetsBegun'
    BY <1>6 DEF ReadyList, TargetsBegun, FileBegun, HostInStep, Begun
  <2>3. FreshAnswer' /\ NoClusterNoTask'
    BY <1>6 DEF ReadyList, FreshAnswer, NoClusterNoTask, Listed
  <2>4. UpInv'
    BY <1>6 DEF ReadyList, UpInv, Listed
  <2>5. DownInv'
    BY <1>6 DEF ReadyList, DownInv, FreshAnswer, NoClusterNoTask, Listed
  <2>6. QED
    BY <2>1, <2>2, <2>3, <2>4, <2>5
<1>7. CASE ReadyInspect
  <2>1. TypeInv'
    BY <1>7 DEF ReadyInspect, Ready, Listed, TaskStatus
  <2>2. TargetsBegun'
    BY <1>7 DEF ReadyInspect, Ready, TargetsBegun, FileBegun, HostInStep, Begun
  <2>3. FreshAnswer' /\ NoClusterNoTask'
    BY <1>7 DEF ReadyInspect, Ready, FreshAnswer, NoClusterNoTask, Listed
  <2>4. UpInv'
    BY <1>7 DEF ReadyInspect, Ready, UpInv, Listed
  <2>5. DownInv'
    BY <1>7 DEF ReadyInspect, Ready, DownInv, FreshAnswer, NoClusterNoTask, Listed
  <2>6. QED
    BY <2>1, <2>2, <2>3, <2>4, <2>5
<1>8. CASE ReadyRaises
  <2>1. TypeInv'
    BY <1>8 DEF ReadyRaises, Listed, TaskStatus
  <2>2. TargetsBegun'
    BY <1>8 DEF ReadyRaises, TargetsBegun, FileBegun, HostInStep, Begun
  <2>3. FreshAnswer' /\ NoClusterNoTask'
    BY <1>8 DEF ReadyRaises, FreshAnswer, NoClusterNoTask, Listed
  <2>4. UpInv'
    BY <1>8 DEF ReadyRaises, UpInv, Listed
  <2>5. DownInv'
    BY <1>8 DEF ReadyRaises, DownInv, FreshAnswer, NoClusterNoTask, Listed
  <2>6. QED
    BY <2>1, <2>2, <2>3, <2>4, <2>5
<1>9. CASE AddressReady
  <2>1. TypeInv'
    BY <1>9 DEF AddressReady, Started, Listed, TaskStatus
  <2>2. TargetsBegun'
    BY <1>9 DEF AddressReady, Started, TargetsBegun, FileBegun, HostInStep, Begun
  <2>3. FreshAnswer' /\ NoClusterNoTask'
    BY <1>9 DEF AddressReady, Started, FreshAnswer, NoClusterNoTask, Listed
  <2>4. UpInv'
    BY <1>9 DEF AddressReady, Started, UpInv, Listed
  <2>5. DownInv'
    BY <1>9 DEF AddressReady, Started, DownInv, FreshAnswer, NoClusterNoTask, Listed
  <2>6. QED
    BY <2>1, <2>2, <2>3, <2>4, <2>5
<1>10. CASE Written
  <2>1. TypeInv'
    BY <1>10 DEF Written, Listed, TaskStatus
  <2>2. TargetsBegun'
    BY <1>10 DEF Written, TargetsBegun, FileBegun, HostInStep, Begun
  <2>3. FreshAnswer' /\ NoClusterNoTask'
    BY <1>10 DEF Written, FreshAnswer, NoClusterNoTask, Listed
  <2>4. UpInv'
    BY <1>10 DEF Written, UpInv, Listed
  <2>5. DownInv'
    BY <1>10 DEF Written, DownInv, FreshAnswer, NoClusterNoTask, Listed
  <2>6. QED
    BY <2>1, <2>2, <2>3, <2>4, <2>5
<1>11. CASE Healthy
  <2>1. TypeInv'
    BY <1>11 DEF Healthy, Listed, TaskStatus
  <2>2. TargetsBegun'
    BY <1>11 DEF Healthy, TargetsBegun, FileBegun, HostInStep, Begun
  <2>3. FreshAnswer' /\ NoClusterNoTask'
    BY <1>11 DEF Healthy, FreshAnswer, NoClusterNoTask, Listed
  <2>4. UpInv'
    BY <1>11 DEF Healthy, UpInv, Listed
  <2>5. DownInv'
    BY <1>11 DEF Healthy, DownInv, FreshAnswer, NoClusterNoTask, Listed
  <2>6. QED
    BY <2>1, <2>2, <2>3, <2>4, <2>5
<1>12. CASE HostWrites
  BY <1>12, HostWritesKeepsInv
<1>13. QED
  BY <1>1, <1>2, <1>3, <1>4, <1>5, <1>6, <1>7, <1>8, <1>9, <1>10, <1>11, <1>12 DEF Up

\* "make down".
LEMMA DownKeepsInv ==
    ASSUME IInv, Down
    PROVE  IInv'
<1> USE DEF IInv, TypeInv, EcsTypes, FileTypes, CommandTypes, UpSteps, DownSteps, Label,
            Writer, At, Goto, Over, Asks, Moves, Learns, lab, ecs, tasks, vars, writers
<1>1. CASE FindFloci
  <2>1. TypeInv'
    BY <1>1 DEF FindFloci, Listed, TaskStatus
  <2>2. TargetsBegun'
    BY <1>1 DEF FindFloci, TargetsBegun, FileBegun, HostInStep, Begun
  <2>3. FreshAnswer' /\ NoClusterNoTask'
    BY <1>1 DEF FindFloci, FreshAnswer, NoClusterNoTask, Listed
  <2>4. UpInv'
    BY <1>1 DEF FindFloci, UpInv, Listed
  <2>5. DownInv'
    BY <1>1 DEF FindFloci, DownInv, FreshAnswer, NoClusterNoTask, Listed
  <2>6. QED
    BY <2>1, <2>2, <2>3, <2>4, <2>5
<1>2. CASE FindCluster
  <2>1. TypeInv'
    BY <1>2 DEF FindCluster, Listed, TaskStatus
  <2>2. TargetsBegun'
    BY <1>2 DEF FindCluster, TargetsBegun, FileBegun, HostInStep, Begun
  <2>3. FreshAnswer' /\ NoClusterNoTask'
    BY <1>2 DEF FindCluster, FreshAnswer, NoClusterNoTask, Listed
  <2>4. UpInv'
    BY <1>2 DEF FindCluster, UpInv, Listed
  <2>5. DownInv'
    BY <1>2 DEF FindCluster, DownInv, FreshAnswer, NoClusterNoTask, Listed
  <2>6. QED
    BY <2>1, <2>2, <2>3, <2>4, <2>5
<1>3. CASE Scale
  <2>1. TypeInv'
    BY <1>3 DEF Scale, Scaled, Listed, TaskStatus
  <2>2. TargetsBegun'
    BY <1>3 DEF Scale, Scaled, TargetsBegun, FileBegun, HostInStep, Begun
  <2>3. FreshAnswer' /\ NoClusterNoTask'
    BY <1>3 DEF Scale, Scaled, FreshAnswer, NoClusterNoTask, Listed
  <2>4. UpInv'
    BY <1>3 DEF Scale, Scaled, UpInv, Listed
  <2>5. DownInv'
    BY <1>3 DEF Scale, Scaled, DownInv, FreshAnswer, NoClusterNoTask, Listed
  <2>6. QED
    BY <2>1, <2>2, <2>3, <2>4, <2>5
<1>4. CASE DeleteService
  <2>1. TypeInv'
    BY <1>4 DEF DeleteService, Listed, TaskStatus
  <2>2. TargetsBegun'
    BY <1>4 DEF DeleteService, TargetsBegun, FileBegun, HostInStep, Begun
  <2>3. FreshAnswer' /\ NoClusterNoTask'
    BY <1>4 DEF DeleteService, FreshAnswer, NoClusterNoTask, Listed
  <2>4. UpInv'
    BY <1>4 DEF DeleteService, UpInv, Listed
  <2>5. DownInv'
    BY <1>4 DEF DeleteService, DownInv, FreshAnswer, NoClusterNoTask, Listed
  <2>6. QED
    BY <2>1, <2>2, <2>3, <2>4, <2>5
<1>5. CASE ListTasks
  <2>1. TypeInv'
    BY <1>5 DEF ListTasks, Listed, TaskStatus
  <2>2. TargetsBegun'
    BY <1>5 DEF ListTasks, TargetsBegun, FileBegun, HostInStep, Begun
  <2>3. FreshAnswer' /\ NoClusterNoTask'
    BY <1>5 DEF ListTasks, FreshAnswer, NoClusterNoTask, Listed
  <2>4. UpInv'
    BY <1>5 DEF ListTasks, UpInv, Listed
  <2>5. DownInv'
    BY <1>5 DEF ListTasks, DownInv, FreshAnswer, NoClusterNoTask, Listed
  <2>6. QED
    BY <2>1, <2>2, <2>3, <2>4, <2>5
<1>6. CASE StopTask
  <2>1. TypeInv'
    BY <1>6 DEF StopTask, Listed, TaskStatus
  <2>2. TargetsBegun'
    BY <1>6 DEF StopTask, TargetsBegun, FileBegun, HostInStep, Begun
  <2>3. FreshAnswer' /\ NoClusterNoTask'
    BY <1>6 DEF StopTask, FreshAnswer, NoClusterNoTask, Listed
  <2>4. UpInv'
    BY <1>6 DEF StopTask, UpInv, Listed
  <2>5. DownInv'
    BY <1>6 DEF StopTask, DownInv, FreshAnswer, NoClusterNoTask, Listed
  <2>6. QED
    BY <2>1, <2>2, <2>3, <2>4, <2>5
<1>7. CASE PollStopped
  <2>1. TypeInv'
    BY <1>7 DEF PollStopped, Listed, TaskStatus
  <2>2. TargetsBegun'
    BY <1>7 DEF PollStopped, TargetsBegun, FileBegun, HostInStep, Begun
  <2>3. FreshAnswer' /\ NoClusterNoTask'
    BY <1>7 DEF PollStopped, FreshAnswer, NoClusterNoTask, Listed
  <2>4. UpInv'
    BY <1>7 DEF PollStopped, UpInv, Listed
  <2>5. DownInv'
    BY <1>7 DEF PollStopped, DownInv, FreshAnswer, NoClusterNoTask, Listed
  <2>6. QED
    BY <2>1, <2>2, <2>3, <2>4, <2>5
<1>8. CASE PollDeadline
  <2>1. TypeInv'
    BY <1>8 DEF PollDeadline, Listed, TaskStatus
  <2>2. TargetsBegun'
    BY <1>8 DEF PollDeadline, TargetsBegun, FileBegun, HostInStep, Begun
  <2>3. FreshAnswer' /\ NoClusterNoTask'
    BY <1>8 DEF PollDeadline, FreshAnswer, NoClusterNoTask, Listed
  <2>4. UpInv'
    BY <1>8 DEF PollDeadline, UpInv, Listed
  <2>5. DownInv'
    BY <1>8 DEF PollDeadline, DownInv, FreshAnswer, NoClusterNoTask, Listed
  <2>6. QED
    BY <2>1, <2>2, <2>3, <2>4, <2>5
<1>9. CASE Destroy
  <2>1. TypeInv'
    BY <1>9 DEF Destroy, Listed, TaskStatus
  <2>2. TargetsBegun'
    BY <1>9 DEF Destroy, TargetsBegun, FileBegun, HostInStep, Begun
  <2>3. FreshAnswer' /\ NoClusterNoTask'
    BY <1>9 DEF Destroy, FreshAnswer, NoClusterNoTask, Listed
  <2>4. UpInv'
    BY <1>9 DEF Destroy, UpInv, Listed
  <2>5. DownInv'
    BY <1>9 DEF Destroy, DownInv, FreshAnswer, NoClusterNoTask, Listed
  <2>6. QED
    BY <2>1, <2>2, <2>3, <2>4, <2>5
<1>10. CASE DestroyFails
  <2>1. TypeInv'
    BY <1>10 DEF DestroyFails, Listed, TaskStatus
  <2>2. TargetsBegun'
    BY <1>10 DEF DestroyFails, TargetsBegun, FileBegun, HostInStep, Begun
  <2>3. FreshAnswer' /\ NoClusterNoTask'
    BY <1>10 DEF DestroyFails, FreshAnswer, NoClusterNoTask, Listed
  <2>4. UpInv'
    BY <1>10 DEF DestroyFails, UpInv, Listed
  <2>5. DownInv'
    BY <1>10 DEF DestroyFails, DownInv, FreshAnswer, NoClusterNoTask, Listed
  <2>6. QED
    BY <2>1, <2>2, <2>3, <2>4, <2>5
<1>11. CASE ClearTargets
  <2>1. TypeInv'
    BY <1>11 DEF ClearTargets, Listed, TaskStatus
  <2>2. TargetsBegun'
    BY <1>11 DEF ClearTargets, TargetsBegun, FileBegun, HostInStep, Begun
  <2>3. FreshAnswer' /\ NoClusterNoTask'
    BY <1>11 DEF ClearTargets, FreshAnswer, NoClusterNoTask, Listed
  <2>4. UpInv'
    BY <1>11 DEF ClearTargets, UpInv, Listed
  <2>5. DownInv'
    BY <1>11 DEF ClearTargets, DownInv, FreshAnswer, NoClusterNoTask, Listed
  <2>6. QED
    BY <2>1, <2>2, <2>3, <2>4, <2>5
<1>12. QED
  BY <1>1, <1>2, <1>3, <1>4, <1>5, <1>6, <1>7, <1>8, <1>9, <1>10, <1>11 DEF Down

\* A command begins, and one that raises is over with its answer.
LEMMA EdgesKeepInv ==
    ASSUME IInv, Give("deploy") \/ Give("find") \/ Fails
    PROVE  IInv'
<1> USE DEF lab, ecs, tasks, writers
<1>1. CASE Give("deploy") \/ Give("find")
  BY <1>1 DEF IInv, TypeInv, EcsTypes, FileTypes, CommandTypes, UpSteps, DownSteps, Give,
              TargetsBegun, FileBegun, HostInStep, Begun, FreshAnswer, NoClusterNoTask,
              UpInv, DownInv, Listed
<1>2. CASE Fails
  <2>1. /\ step' = "none"
        /\ answer' = [answer EXCEPT !["host"] = {}]
        /\ UNCHANGED <<ecs, file, at, disk, given, lab>>
    BY <1>2 DEF Fails, Over, Learns
  <2>2. TypeInv'
    BY <2>1 DEF IInv, TypeInv, EcsTypes, FileTypes, CommandTypes
  <2>3. at["host"] \notin {"list", "describe", "compare", "write"}
    BY <1>2 DEF IInv, TargetsBegun, HostInStep, Fails, Raised, Waits, Calls
  <2>4. TargetsBegun'
    BY <2>1, <2>3
       DEF IInv, TypeInv, FileTypes, Writer, TargetsBegun, FileBegun, HostInStep, Begun
  <2>5. FreshAnswer'
    BY <2>1 DEF IInv, TypeInv, FileTypes, Writer, FreshAnswer
  <2>6. NoClusterNoTask' /\ UpInv' /\ DownInv'
    BY <2>1 DEF IInv, NoClusterNoTask, UpInv, DownInv, Listed
  <2>7. QED
    BY <2>2, <2>4, <2>5, <2>6 DEF IInv
<1>3. QED
  BY <1>1, <1>2

\* The disk fills up or has room again, or nothing happens.
LEMMA OutsideKeepsInv ==
    ASSUME IInv, UNCHANGED <<ecs, writers, step, lab>>
    PROVE  IInv'
BY DEF IInv, TypeInv, EcsTypes, FileTypes, CommandTypes, TargetsBegun, FileBegun,
       HostInStep, Begun, FreshAnswer, NoClusterNoTask, UpInv, DownInv, Listed,
       lab, ecs, tasks, writers

\* Every step keeps the invariant.
THEOREM StepInv == IInv /\ [Next]_vars => IInv'
<1> SUFFICES ASSUME IInv, [Next]_vars PROVE IInv'
  OBVIOUS
<1>1. CASE Give("deploy") \/ Give("find") \/ Fails
  BY <1>1, EdgesKeepInv
<1>2. CASE Up
  BY <1>2, UpKeepsInv
<1>3. CASE Down
  BY <1>3, DownKeepsInv
<1>4. CASE LoopRuns
  BY <1>4, LoopKeepsInv
<1>5. CASE EcsNext /\ UNCHANGED <<writers, disk, step, given, lab>>
  BY <1>5, EcsKeepsInv
<1>6. CASE DiskChanges /\ UNCHANGED <<step, given, lab>>
  BY <1>6, OutsideKeepsInv DEF DiskChanges
<1>7. CASE UNCHANGED vars
  BY <1>7, OutsideKeepsInv DEF vars
<1>8. QED
  BY <1>1, <1>2, <1>3, <1>4, <1>5, <1>6, <1>7 DEF Next

\* It holds in every state of every behaviour.
THEOREM Invariance == Spec => []IInv
BY InitInv, StepInv, PTL DEF Spec

------------------------------------------------------------------------------
\* When "make down" is about to destroy the network (ecs.py shutdown, lab.py
\* down), nothing it has to stop is left and nothing comes back: the scheduler
\* has lost the service before the tasks were listed.
THEOREM ShutdownComplete == Spec => []NothingRelaunched
<1>1. IInv => NothingRelaunched
  BY DEF IInv, DownInv, NothingRelaunched
<1>2. QED
  BY Invariance, <1>1, PTL

\* From the moment service_ready said yes, "make up" deals with the revision it
\* registered only, whichever tasks die and are launched meanwhile.
THEOREM NewRevisionOnly == Spec => []NoOldCollector
<1>1. IInv => NoOldCollector
  BY DEF IInv, UpInv, NoOldCollector
<1>2. QED
  BY Invariance, <1>1, PTL

\* Prometheus is never sent to a task that has not begun to run, whatever stale
\* answers the discovery loop and "make up" hold (discover, write_discovery).
THEOREM TargetsStarted == Spec => []OnlyStartedTargets
<1>1. IInv => OnlyStartedTargets
  BY DEF IInv, TargetsBegun, FileBegun, Begun, OnlyStartedTargets
<1>2. QED
  BY Invariance, <1>1, PTL
==============================================================================
