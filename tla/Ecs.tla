--------------------------------- MODULE Ecs ---------------------------------
(***************************************************************************)
(* The ECS emulator as the lab uses it (external): one service, which      *)
(* keeps one task of its current task definition running, and the tasks it *)
(* has launched.  list_tasks with desiredStatus=RUNNING sees what a task   *)
(* should do, describe_tasks what it does; the two differ while a task     *)
(* starts or stops.  Operations only.                                      *)
(***************************************************************************)
EXTENDS Naturals, FiniteSets

CONSTANT Task          \* tasks the service may launch; each runs once

VARIABLES emulator,    \* "answers", "fails" (every call raises) or "down"
          wanted,      \* desiredCount of the service
          definition,  \* its task definition, 0 if there is no active service
          desired,     \* desired[t]: desiredStatus, "none" if ECS has no t
          last,        \* last[t]: lastStatus, "none" before the launch
          revision     \* revision[t]: task definition it was launched with

tasks == <<desired, last, revision>>
ecs   == <<emulator, wanted, definition, tasks>>

EcsInit(mode) == /\ emulator = mode
                 /\ wanted = 0
                 /\ definition = 0
                 /\ desired = [t \in Task |-> "none"]
                 /\ last = [t \in Task |-> "none"]
                 /\ revision = [t \in Task |-> 0]

\* list_tasks(desiredStatus="RUNNING")
Listed == {t \in Task : desired[t] = "RUNNING"}

Answers == emulator = "answers"

------------------------------------------------------------------------------
\* The service scheduler: a missing task is launched, one too many or out of
\* date is told to stop, in any order.
Launch(t) == /\ emulator # "down"
             /\ wanted = 1 /\ definition > 0
             /\ last[t] = "none"
             /\ \A u \in Listed : revision[u] # definition
             /\ desired' = [desired EXCEPT ![t] = "RUNNING"]
             /\ last' = [last EXCEPT ![t] = "PENDING"]
             /\ revision' = [revision EXCEPT ![t] = definition]
             /\ UNCHANGED <<emulator, wanted, definition>>

Retire(t) == /\ emulator # "down"
             /\ t \in Listed
             /\ wanted = 0 \/ revision[t] # definition
             /\ desired' = [desired EXCEPT ![t] = "STOPPED"]
             /\ UNCHANGED <<emulator, wanted, definition, last, revision>>

Runs(t) == /\ t \in Listed
           /\ last[t] = "PENDING"
           /\ last' = [last EXCEPT ![t] = "RUNNING"]
           /\ UNCHANGED <<emulator, wanted, definition, desired, revision>>

\* Told to stop, or died; a container outlives an emulator that forgot it.
Ends(t) == /\ last[t] \in {"PENDING", "RUNNING"}
           /\ last' = [last EXCEPT ![t] = "STOPPED"]
           /\ desired' = [desired EXCEPT ![t] = IF @ = "none" THEN @ ELSE "STOPPED"]
           /\ UNCHANGED <<emulator, wanted, definition, revision>>

\* The API comes and goes, and the emulator may crash.
Weather == /\ emulator # "down"
           /\ emulator' \in {"answers", "fails", "down"} \ {emulator}
           /\ UNCHANGED <<wanted, definition, tasks>>

EcsNext == Weather \/ \E t \in Task : Launch(t) \/ Retire(t) \/ Runs(t) \/ Ends(t)
==============================================================================
