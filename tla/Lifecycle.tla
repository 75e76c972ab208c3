------------------------------ MODULE Lifecycle ------------------------------
(***************************************************************************)
(* "make up" and "make down": up and down of scripts/lab.py, bootstrap,    *)
(* service_ready and shutdown of ecs.py, one command at a time, beside the *)
(* service scheduler, the discovery loop and tasks that may die or refuse  *)
(* to.  up may be repeated on a running lab and deploys a new revision of  *)
(* the collector each time; any call may fail and end the command.         *)
(***************************************************************************)
EXTENDS Discovery

CONSTANT MaxCommands   \* bound: commands given

ASSUME BoundAssumption == MaxCommands \in Nat

VARIABLES step,        \* the next call of the command, "none" without one
          deployed,    \* containers of the topology exist
          cluster,     \* the emulator knows the cluster
          latest,      \* newest revision registered, what bootstrap returned
          given        \* bound: commands given so far

lab  == <<deployed, cluster, latest>>
vars == <<ecs, writers, disk, step, given, lab>>

Init == /\ EcsInit("down")
        /\ FileInit
        /\ at = [w \in Writer |-> "off"]
        /\ step = "none" /\ given = 0
        /\ deployed = FALSE /\ cluster = FALSE /\ latest = 0

Give(first) == /\ step = "none"
               /\ given < MaxCommands
               /\ given' = given + 1
               /\ step' = first
               /\ UNCHANGED <<ecs, writers, disk, lab>>

\* The command is at call s and goes on with its next one, or it is over and
\* its locals are gone.
At(s) == step = s /\ UNCHANGED <<disk, given>>

Goto(s) == step' = s /\ UNCHANGED answer

Over == step' = "none" /\ Learns("host", {})

\* The command is at call s of the API, which answers and leaves ECS alone.
Asks(s) == At(s) /\ Answers /\ UNCHANGED <<ecs, file, at, lab>>

------------------------------------------------------------------------------
\* docker ps: containers in place are left alone, otherwise deploy; a fresh
\* emulator knows nothing.
Deploy == /\ At("deploy")
          /\ Goto("floci")
          /\ IF deployed
             THEN UNCHANGED <<emulator, at, deployed, cluster>>
             ELSE /\ deployed' = TRUE /\ cluster' = FALSE
                  /\ emulator' = "answers"
                  /\ at' = [w \in Writer |-> IF w = "loop" THEN "list" ELSE "off"]
          /\ UNCHANGED <<wanted, definition, tasks, file, latest>>

\* A deployment that fails may leave containers, the emulator and the discovery
\* loop among them or not.
DeployFails == /\ At("deploy")
               /\ ~deployed
               /\ deployed' = TRUE
               /\ emulator' \in {"down", "answers"}
               /\ at' \in {at, [at EXCEPT !["loop"] = "list"]}
               /\ Over
               /\ UNCHANGED <<wanted, definition, tasks, file, cluster, latest>>

FlociReady == Asks("floci") /\ Goto("register")

\* bootstrap: the cluster and new revisions, then the service, new or updated.  A
\* registration may fail when there is a cluster already.
Register == /\ At("register") /\ Answers
            /\ cluster' = TRUE
            /\ \/ latest' = latest + 1 /\ Goto("service")
               \/ Over /\ UNCHANGED latest
            /\ UNCHANGED <<ecs, file, at, deployed>>

UpsertService == /\ At("service") /\ Answers
                 /\ definition' = latest
                 /\ wanted' = 1
                 /\ Goto("ready")
                 /\ UNCHANGED <<emulator, tasks, file, at, lab>>

\* service_ready, called until it says yes: one task is listed, and it runs
\* the current revision.
ReadyList == /\ Asks("ready")
             /\ Learns("host", Listed)
             /\ step' = IF Cardinality(Listed) = 1 THEN "inspect" ELSE "ready"

\* Mutant of Ready: any revision will do.
ReadyAny(t) == last[t] = "RUNNING"

Ready(t) == last[t] = "RUNNING" /\ revision[t] = latest

ReadyInspect == /\ Asks("inspect")
                /\ Goto(IF \A t \in answer["host"] : Ready(t) THEN "address" ELSE "ready")

\* An exception in a check counts as "not ready" (wait_for).
ReadyRaises == /\ At("inspect") /\ ~Answers
               /\ Goto("ready")
               /\ UNCHANGED <<ecs, file, at, lab>>

\* The wait for an address discards its answer; write_discovery asks again.
AddressReady == /\ At("address") /\ Answers
                /\ Started(Listed) # {}
                /\ Goto("write")
                /\ Moves("host", "list")
                /\ UNCHANGED <<ecs, file, lab>>

HostWrites == /\ step = "write"
              /\ Writes("host")
              /\ UNCHANGED <<step, given, lab>>

Written == /\ At("write")
           /\ at["host"] = "done"
           /\ Goto("healthy")
           /\ UNCHANGED <<ecs, file, at, lab>>

\* All streams are synchronized, as Prometheus sees them.
Healthy == At("healthy") /\ Over /\ UNCHANGED <<ecs, file, at, lab>>

------------------------------------------------------------------------------
\* docker ps: without an emulator there is nothing to ask.
FindFloci == /\ At("find")
             /\ Goto(IF emulator = "down" THEN "destroy" ELSE "clusters")
             /\ UNCHANGED <<ecs, file, at, lab>>

\* shutdown
FindCluster == Asks("clusters") /\ Goto(IF cluster THEN "scale" ELSE "destroy")

\* Mutant of Scaled: the service is left as it is.
ScaledNever == FALSE

Scaled == definition > 0

Scale == /\ At("scale") /\ Answers
         /\ IF Scaled THEN wanted' = 0 /\ Goto("delete")
                      ELSE UNCHANGED wanted /\ Goto("tasks")
         /\ UNCHANGED <<emulator, definition, tasks, file, at, lab>>

DeleteService == /\ At("delete") /\ Answers
                 /\ definition' = 0
                 /\ Goto("tasks")
                 /\ UNCHANGED <<emulator, wanted, tasks, file, at, lab>>

ListTasks == Asks("tasks") /\ Learns("host", Listed) /\ step' = "stop"

\* One stop_task for each task of the answer.
StopTask == /\ At("stop") /\ Answers
            /\ LET left == answer["host"] \cap Listed
               IN  IF left = {}
                   THEN Goto("poll") /\ UNCHANGED desired
                   ELSE /\ \E t \in left : desired' = [desired EXCEPT ![t] = "STOPPED"]
                        /\ Goto("stop")
            /\ UNCHANGED <<emulator, wanted, definition, last, revision, file, at, lab>>

\* Until every listed task has stopped; after 45 seconds the command fails and
\* the topology is left alone.
PollStopped == /\ At("poll")
               /\ Answers \/ answer["host"] = {}
               /\ \A t \in answer["host"] : last[t] = "STOPPED"
               /\ Goto("destroy")
               /\ UNCHANGED <<ecs, file, at, lab>>

\* Mutant of PollDeadline: no deadline.
PollForEver == At("poll") /\ answer["host"] # {} /\ UNCHANGED vars

PollDeadline == /\ At("poll")
                /\ answer["host"] # {}
                /\ Over
                /\ UNCHANGED <<ecs, file, at, lab>>

\* containerlab destroy: the containers of the topology go, the emulator and
\* the discovery loop among them; tasks are not part of it.
Destroy == /\ At("destroy")
           /\ deployed' = FALSE /\ cluster' = FALSE
           /\ emulator' = "down"
           /\ wanted' = 0 /\ definition' = 0
           /\ desired' = [t \in Task |-> "none"]
           /\ at' = [w \in Writer |-> "off"]
           /\ answer' = [w \in Writer |-> {}]
           /\ step' = "clear"
           /\ UNCHANGED <<last, revision, file, latest>>

\* It fails half-way: the emulator and the loop may be gone.
DestroyFails == /\ At("destroy")
                /\ emulator' \in {emulator, "down"}
                /\ at' \in {at, [at EXCEPT !["loop"] = "off"]}
                /\ Over
                /\ UNCHANGED <<wanted, definition, tasks, file, lab>>

ClearTargets == /\ At("clear")
                /\ disk
                /\ file' = {}
                /\ Over
                /\ UNCHANGED <<ecs, at, lab>>

------------------------------------------------------------------------------
\* A call that raises, a program that fails, or a wait that is over.
Waits == {"floci", "ready", "inspect", "address", "healthy"}

Calls == {"register", "service", "clusters", "scale", "delete", "tasks", "stop"}

Raised == \/ step \in {"deploy", "find", "clear"} \cup Waits
          \/ step \in Calls /\ ~Answers
          \/ step = "poll" /\ answer["host"] # {} /\ ~Answers
          \/ step = "write" /\ at["host"] = "failed"

Fails == Raised /\ Over /\ UNCHANGED <<ecs, file, at, disk, given, lab>>

Up == \/ Deploy \/ DeployFails \/ FlociReady \/ Register \/ UpsertService
      \/ ReadyList \/ ReadyInspect \/ ReadyRaises \/ AddressReady
      \/ HostWrites \/ Written \/ Healthy

Down == \/ FindFloci \/ FindCluster \/ Scale \/ DeleteService \/ ListTasks
        \/ StopTask \/ PollStopped \/ PollDeadline
        \/ Destroy \/ DestroyFails \/ ClearTargets

LoopRuns == LoopStep /\ UNCHANGED <<step, given, lab>>

Next == \/ Give("deploy") \/ Give("find")
        \/ Up \/ Down \/ Fails \/ LoopRuns
        \/ EcsNext /\ UNCHANGED <<writers, disk, step, given, lab>>
        \/ DiskChanges /\ UNCHANGED <<step, given, lab>>

\* A command makes its calls, and its waits end; the loop runs while its
\* container does.  Nothing is asked of ECS.
Spec == /\ Init /\ [][Next]_vars
        /\ WF_vars(Up \/ Down \/ Fails)
        /\ WF_vars(Fails)
        /\ WF_vars(LoopRuns)

------------------------------------------------------------------------------
\* When "make down" is about to destroy the management network, no task it
\* has to stop is left or will come: the scheduler has nothing to replace what
\* was stopped with, and every task it listed has stopped.
NothingRelaunched ==
    step = "destroy" /\ emulator # "down" =>
       /\ Listed = {}
       /\ \A t \in answer["host"] : last[t] = "STOPPED"

\* From the moment "make up" has seen the collector ready, no collector of an
\* earlier revision is meant to run beside it or instead of it.
NoOldCollector ==
    step \in {"address", "write", "healthy"} => \A t \in Listed : revision[t] = latest

\* Every command ends, even if ECS never answers and no task ever stops.
CommandsEnd == step # "none" ~> step = "none"

\* Prometheus is never sent to a task that has not been running yet: an ECS
\* task is listed as soon as it is meant to run, its collector answers later.
OnlyStartedTargets == \A t \in file : last[t] \in {"RUNNING", "STOPPED"}

LoopLives == at["loop"] \notin {"off", "dead"}

\* Once ECS has settled and answers, the file settles on exactly the tasks
\* that run, whichever stale answer either writer still held.  It settles
\* here because Task is finite.
TargetsFollowTasks ==
    []disk /\ <>[](Answers /\ LoopLives) => <>[](file = Started(Listed))

\* Once ECS fails for good, the targets are gone for good (docs/design.md: a
\* failure to reach the API empties the targets).
EmptyWithoutApi == []disk /\ <>[](~Answers /\ LoopLives) => <>[](file = {})

\* docs/design.md says of down: it confirms that the tasks have stopped and
\* then destroys the management network.
DestroyAfterTasksStopped ==
    step = "destroy" /\ emulator # "down" => \A t \in Task : last[t] # "RUNNING"
==============================================================================
