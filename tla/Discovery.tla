------------------------------ MODULE Discovery ------------------------------
(***************************************************************************)
(* Prometheus file discovery: discover, write_discovery, atomic_write and  *)
(* discovery_loop of ecs.py.  Two programs write the file, the discovery   *)
(* container every five seconds and "make up" on the host; neither knows   *)
(* of the other, and each decides on tasks it read one or two calls ago.   *)
(*                                                                         *)
(* A task stands for the target derived from it (an address, or a name     *)
(* made from its id).  The temporary file of atomic_write is the writer's  *)
(* own, and its rename is the one step others can see.                     *)
(***************************************************************************)
EXTENDS Ecs

Writer == {"loop", "host"}

VARIABLES file,       \* targets in runtime/discovery/gnmi.json
          at,         \* at[w]: where writer w is
          answer,     \* answer[w]: what its last call of ECS told it
          disk        \* atomic_write succeeds

writers == <<file, at, answer>>

FileInit == /\ file = {}
            /\ answer = [w \in Writer |-> {}]
            /\ disk = TRUE

Moves(w, label) == at' = [at EXCEPT ![w] = label]

Learns(w, S) == answer' = [answer EXCEPT ![w] = S]

\* The loop waits five seconds, the host goes on with "make up"; either way
\* the locals are gone.
Rests(w) == Moves(w, IF w = "loop" THEN "sleep" ELSE "done") /\ Learns(w, {})

------------------------------------------------------------------------------
\* discover: no task is no target, otherwise the tasks are described.
List(w) == /\ at[w] = "list"
           /\ Answers
           /\ Learns(w, Listed)
           /\ Moves(w, IF Listed = {} THEN "compare" ELSE "describe")
           /\ UNCHANGED <<file, disk, ecs>>

\* Mutant of Started: a task is a target before it runs.
StartedAll(S) == S

Started(S) == {t \in S : last[t] = "RUNNING"}

Describe(w) == /\ at[w] = "describe"
               /\ Answers
               /\ Learns(w, Started(answer[w]))
               /\ Moves(w, "compare")
               /\ UNCHANGED <<file, disk, ecs>>

\* Mutant of Same: what is empty is not written.
SameOrEmpty(S) == S \in {file, {}}

Same(S) == S = file

\* write_discovery leaves a file alone that says the same already.
Compare(w) == /\ at[w] = "compare"
              /\ IF Same(answer[w]) THEN Rests(w)
                                    ELSE Moves(w, "write") /\ UNCHANGED answer
              /\ UNCHANGED <<file, disk, ecs>>

Replace(w) == /\ at[w] = "write"
              /\ disk
              /\ file' = answer[w]
              /\ Rests(w)
              /\ UNCHANGED <<disk, ecs>>

\* Mutant of Handler: the loop only logs.
HandlerLogs(w) == IF w = "loop" THEN "sleep" ELSE "failed"

\* The loop handles the exception, "make up" ends with it.
Handler(w) == IF w = "loop" THEN "clear" ELSE "failed"

Raises(w) == /\ \/ at[w] \in {"list", "describe"} /\ ~Answers
                \/ at[w] = "write" /\ ~disk
             /\ Moves(w, Handler(w)) /\ Learns(w, {})
             /\ UNCHANGED <<file, disk, ecs>>

\* The exception handler removes the targets; a second exception ends the loop.
Clear == /\ at["loop"] = "clear"
         /\ IF disk THEN file' = {} /\ Moves("loop", "sleep")
                    ELSE Moves("loop", "dead") /\ UNCHANGED file
         /\ UNCHANGED <<answer, disk, ecs>>

Wake == /\ at["loop"] = "sleep"
        /\ Moves("loop", "list")
        /\ UNCHANGED <<file, answer, disk, ecs>>

Writes(w) == List(w) \/ Describe(w) \/ Compare(w) \/ Replace(w) \/ Raises(w)

LoopStep == Writes("loop") \/ Clear \/ Wake

DiskChanges == disk' = ~disk /\ UNCHANGED <<writers, ecs>>
==============================================================================
