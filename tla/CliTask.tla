------------------------------- MODULE CliTask -------------------------------
(***************************************************************************)
(* "make collect-cli": collect_cli of ecs.py starts the CLI collector as   *)
(* an ECS task and polls it against a deadline.  The container may die on  *)
(* its own, the emulator may lose its exit code, an API call may raise,    *)
(* and the deadline may pass while the task is finishing.                  *)
(***************************************************************************)
EXTENDS CliRun

VARIABLES caller,      \* collect_cli: "run", "poll", "ok", "raised", "timeout"
          task,        \* lastStatus: "none", "PENDING", "RUNNING", "STOPPED"
          exitCode,    \* of its container: "none", "zero" or "nonzero"
          expired      \* the deadline has passed

taskVars == <<caller, task, exitCode, expired>>
vars     == <<cliVars, taskVars>>

Init == /\ CliInit
        /\ caller = "run"
        /\ task = "none"
        /\ exitCode = "none"
        /\ expired = FALSE

------------------------------------------------------------------------------
\* The emulator (external).
TaskStarts == /\ task = "PENDING"
              /\ task' = "RUNNING"
              /\ UNCHANGED <<cliVars, caller, exitCode, expired>>

TaskRuns == /\ task = "RUNNING"
            /\ CliNext
            /\ UNCHANGED taskVars

\* What the task has sent to OpenSearch may be processed when it is gone.
StoreWorks == Indexing /\ UNCHANGED taskVars

\* The collector exits; its code is reported, or lost with the container.
TaskExits == /\ task = "RUNNING"
             /\ exit # "none"
             /\ task' = "STOPPED"
             /\ exitCode' \in {"none", IF exit = "success" THEN "zero" ELSE "nonzero"}
             /\ UNCHANGED <<cliVars, caller, expired>>

\* Killed from outside or by stop_task, or never started: sessions end where
\* they are.
TaskDies == /\ task \in {"PENDING", "RUNNING"}
            /\ task' = "STOPPED"
            /\ exitCode' \in {"none", "nonzero"}
            /\ UNCHANGED <<cliVars, caller, expired>>

------------------------------------------------------------------------------
\* run_task launches one task, or reports failures or raises, which it may after
\* the launch.
RunTask == /\ caller = "run"
           /\ \/ caller' = "poll" /\ task' = "PENDING"
              \/ caller' = "raised" /\ task' \in {"none", "PENDING"}
           /\ UNCHANGED <<cliVars, exitCode, expired>>

Deadline == /\ caller = "poll"
            /\ ~expired
            /\ expired' = TRUE
            /\ UNCHANGED <<cliVars, caller, task, exitCode>>

\* Mutant of Passed: a missing exit code is no failure.
PassedLenient == exitCode # "nonzero"

Passed == exitCode = "zero"

\* One turn of the polling loop, begun before the deadline.
PollStopped == /\ caller = "poll"
               /\ task = "STOPPED"
               /\ caller' = IF Passed THEN "ok" ELSE "raised"
               /\ UNCHANGED <<cliVars, task, exitCode, expired>>

ApiRaises == /\ caller = "poll"
             /\ caller' = "raised"
             /\ UNCHANGED <<cliVars, task, exitCode, expired>>

\* Past the deadline: stop_task, of which TaskDies may or may not come, then raise;
\* the call itself may raise.
GiveUp == /\ caller = "poll"
          /\ expired
          /\ caller' \in {"timeout", "raised"}
          /\ UNCHANGED <<cliVars, task, exitCode, expired>>

Next == \/ TaskStarts \/ TaskRuns \/ TaskExits \/ TaskDies \/ StoreWorks
        \/ RunTask \/ Deadline \/ PollStopped \/ ApiRaises \/ GiveUp

Spec == Init /\ [][Next]_vars

------------------------------------------------------------------------------
\* When collect-cli prints a task, the history holds the observations of every
\* command of every device: neither a container that died nor an exit code
\* that got lost is taken for a success.
SuccessMeansStored == caller = "ok" => stored = Everything
==============================================================================
