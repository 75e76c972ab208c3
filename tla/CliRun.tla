------------------------------- MODULE CliRun -------------------------------
(***************************************************************************)
(* One run of the CLI collector: run and collect_device of cli.py.  Two    *)
(* threads log in to one device after another, send the commands of the    *)
(* profile in order and write the observations of each to the history; the *)
(* exit code is the verdict of the run.                                    *)
(***************************************************************************)
EXTENDS Naturals, FiniteSets

CONSTANTS Device,
          Workers,     \* max_workers, 2 in the code
          Commands     \* number of commands in the profile, 2 in the code

ASSUME CliAssumption ==
    /\ IsFiniteSet(Device)
    /\ Workers \in Nat \ {0}
    /\ Commands \in Nat

VARIABLES job,         \* job[d]: the future of device d
          done,        \* done[d]: commands whose observations are written
          counted,     \* futures run() has taken from as_completed
          failed,      \* how many of them raised
          exit,        \* exit code of the process, or "none"
          posted,      \* <<d, i>>: the write of what command i of d said has begun,
                       \* so that documents of it may be in the history
          stored,      \* <<d, i>>: all of them are
          fault        \* ghost: devices a session, a command or a write failed for

run     == <<counted, failed, exit>>
cliVars == <<job, done, run, posted, stored, fault>>

CliInit == /\ job = [d \in Device |-> "queued"]
           /\ done = [d \in Device |-> 0]
           /\ counted = {}
           /\ failed = 0
           /\ exit = "none"
           /\ posted = {}
           /\ stored = {}
           /\ fault = {}

Active == {d \in Device : job[d] \in {"connect", "send", "write", "close"}}

Becomes(d, state) == job' = [job EXCEPT ![d] = state]

\* A free thread of the pool takes a device.
Start(d) == /\ job[d] = "queued"
            /\ Cardinality(Active) < Workers
            /\ Becomes(d, "connect")
            /\ UNCHANGED <<done, run, posted, stored, fault>>

\* The loop over the commands: the next one, or the end of the session.
NextCommand(d, n) == Becomes(d, IF n < Commands THEN "send" ELSE "close")

LoggedIn(d) == /\ job[d] = "connect"
               /\ NextCommand(d, 0)
               /\ UNCHANGED <<done, run, posted, stored, fault>>

\* Mutant of Answered: the write is not waited for.
AnsweredAhead(d) == /\ job[d] = "send"
                    /\ posted' = posted \cup {<<d, done[d] + 1>>}
                    /\ done' = [done EXCEPT ![d] = @ + 1]
                    /\ NextCommand(d, done[d] + 1)
                    /\ UNCHANGED <<run, stored, fault>>

\* send_command, raise_for_status and normalize; repository.write begins.
Answered(d) == /\ job[d] = "send"
               /\ Becomes(d, "write")
               /\ posted' = posted \cup {<<d, done[d] + 1>>}
               /\ UNCHANGED <<done, run, stored, fault>>

\* OpenSearch has processed a write that was begun, which may be after it raised
\* or its task ended (BulkWrite!Store).
Index(d, i) == /\ <<d, i>> \in posted
               /\ stored' = stored \cup {<<d, i>>}
               /\ UNCHANGED <<job, done, run, posted, fault>>

\* repository.write returns once all is stored (BulkWrite!Return).
Written(d) == /\ job[d] = "write"
              /\ stored' = stored \cup {<<d, done[d] + 1>>}
              /\ done' = [done EXCEPT ![d] = @ + 1]
              /\ NextCommand(d, done[d] + 1)
              /\ UNCHANGED <<run, posted, fault>>

\* The driver closes the session.
Closed(d) == /\ job[d] = "close"
             /\ Becomes(d, "ok")
             /\ UNCHANGED <<done, run, posted, stored, fault>>

\* Mutant of Ends: the first failure cancels the devices still queued.
EndsAll(d) == job' = [x \in Device |-> IF x = d \/ job[x] = "queued" THEN "error" ELSE job[x]]

Ends(d) == Becomes(d, "error")

\* Any exception ends the device's session, one on closing it included.
Raises(d) == /\ job[d] \in {"connect", "send", "write", "close"}
             /\ Ends(d)
             /\ fault' = fault \cup {d}
             /\ UNCHANGED <<done, run, posted, stored>>

\* Mutant of Failure: it is logged but not counted.
FailureSwallowed(d) == 0

Failure(d) == IF job[d] = "error" THEN 1 ELSE 0

\* as_completed yields the futures in the order they end.
Count(d) == /\ job[d] \in {"ok", "error"}
            /\ d \notin counted
            /\ counted' = counted \cup {d}
            /\ failed' = failed + Failure(d)
            /\ UNCHANGED <<job, done, exit, posted, stored, fault>>

Exit == /\ exit = "none"
        /\ counted = Device
        /\ exit' = IF failed > 0 THEN "failure" ELSE "success"
        /\ UNCHANGED <<job, done, counted, failed, posted, stored, fault>>

Session(d) == LoggedIn(d) \/ Answered(d) \/ Written(d) \/ Closed(d) \/ Raises(d)

CliNext == Exit \/ \E d \in Device : Start(d) \/ Session(d) \/ Count(d)

Indexing == \E d \in Device, i \in 1 .. Commands : Index(d, i)

------------------------------------------------------------------------------
Everything == Device \X (1 .. Commands)

\* Exit code 0 says that the observations of every command of every device
\* are in the history, and only then is it 0: a run that failed nowhere is
\* never reported as failed.
ExitCodeHonest ==
    /\ exit = "success" => stored = Everything
    /\ exit = "failure" => fault # {}

\* The failure of one device takes nothing from another: when the run is over,
\* every device nothing failed for is stored completely.
FailuresIsolated ==
    exit # "none" => \A d \in Device \ fault : {d} \X (1 .. Commands) \subseteq stored

\* What a run leaves of a device, wherever it raises or is cut off, and whatever
\* OpenSearch still makes of it, is what the first commands of the profile said,
\* the last of them perhaps in part: the history has no command without all the
\* commands before it.
StoredIsPrefix ==
    \A d \in Device : \E n \in 0 .. Commands :
       /\ {d} \X (1 .. n) \subseteq stored
       /\ \A i \in 1 .. Commands : <<d, i>> \in posted => i <= n + 1
=============================================================================
