----------------------------- MODULE Repository -----------------------------
(***************************************************************************)
(* One call of Repository.write: the bulk request, its retries and the     *)
(* OpenSearch server at the other end.  The request may be lost, processed *)
(* in part, processed after the client has given up on it, or answered by  *)
(* a reply that never arrives; the client cannot tell these apart.  Names  *)
(* that Observations has, too, are prefixed.                               *)
(***************************************************************************)
EXTENDS Naturals

CONSTANTS Obs,        \* the observations of the batch
          Attempts    \* 3 in the code

ASSUME AttemptsAssumption == Attempts \in Nat \ {0}

Attempt == 0 .. Attempts - 1

VARIABLES phase,      \* of the call
          attempt,    \* the loop variable
          reply,      \* what reached the client: "none", "ok" or "errors"
          inflight,   \* attempts whose request the server has yet to process
          stored      \* observations of the batch the index has a document of

writeVars == <<phase, attempt, reply, inflight, stored>>

WriteInit == /\ phase = "ready"
             /\ attempt = 0
             /\ reply = "none"
             /\ inflight = {}
             /\ stored = {}

\* The payload is made once, before the first attempt, and the id of a document is
\* its hash: whichever attempts the server processes, it keeps one document of an
\* observation.
Post == /\ phase = "ready"
        /\ phase' = "waiting"
        /\ inflight' = inflight \cup {attempt}
        /\ UNCHANGED <<attempt, reply, stored>>

\* Mutant of Return: the errors in the body are not looked at.
ReturnUnchecked == /\ phase = "waiting"
                   /\ reply # "none"
                   /\ phase' = "returned"
                   /\ UNCHANGED <<attempt, reply, inflight, stored>>

\* A 2xx reply whose body has no "errors".
Return == /\ phase = "waiting"
          /\ reply = "ok"
          /\ phase' = "returned"
          /\ UNCHANGED <<attempt, reply, inflight, stored>>

\* Mutant of Fail: one attempt too many.
FailTooLate == /\ phase = "waiting"
               /\ phase' = IF attempt = Attempts THEN "raised" ELSE "sleeping"
               /\ UNCHANGED <<attempt, reply, inflight, stored>>

\* A refused connection, the 5 second timeout (whether or not the server
\* processed the request), an HTTP error, or failed items in the body.
Fail == /\ phase = "waiting"
        /\ phase' = IF attempt = Attempts - 1 THEN "raised" ELSE "sleeping"
        /\ UNCHANGED <<attempt, reply, inflight, stored>>

\* Mutant of Wake: the attempts are not counted.
WakeUncounted == /\ phase = "sleeping"
                 /\ phase' = "ready"
                 /\ reply' = "none"
                 /\ UNCHANGED <<attempt, inflight, stored>>

Wake == /\ phase = "sleeping"
        /\ phase' = "ready"
        /\ attempt' = attempt + 1
        /\ reply' = "none"
        /\ UNCHANGED <<inflight, stored>>

\* The server indexes some of the items; the reply is of use only to a client
\* that still waits for this very attempt.
Index(a, items) ==
    /\ a \in inflight
    /\ inflight' = inflight \ {a}
    /\ stored' = stored \cup items
    /\ reply' = IF phase = "waiting" /\ attempt = a
                THEN IF items = Obs THEN "ok" ELSE "errors"
                ELSE reply
    /\ UNCHANGED <<phase, attempt>>

Lose(a) == /\ a \in inflight
           /\ inflight' = inflight \ {a}
           /\ UNCHANGED <<phase, attempt, reply, stored>>

Client == Post \/ Return \/ Fail \/ Wake

Server == \E a \in Attempt : Lose(a) \/ \E items \in SUBSET Obs : Index(a, items)

WriteNext == Client \/ Server

\* The client runs: a request ends with its answer, an error or five seconds of
\* silence, and the sleeps are one and two seconds.
WriteSpec == WriteInit /\ [][WriteNext]_writeVars /\ WF_writeVars(Client)

------------------------------------------------------------------------------
TypeOK ==
    /\ phase \in {"ready", "waiting", "sleeping", "returned", "raised"}
    /\ attempt \in Attempt
    /\ reply \in {"none", "ok", "errors"}
    /\ inflight \subseteq 0 .. attempt
    /\ stored \subseteq Obs

\* The promise to the callers: a call that returns has stored everything.
Outcome == IF phase \in {"returned", "raised"} THEN phase ELSE "pending"

Promise == INSTANCE BulkWrite
             WITH outcome <- Outcome

KeepsPromise == Promise!Spec

\* The call comes back whatever the server does, silence included.  The sink thread
\* and the CLI run rely on it: neither has a timeout of its own around a write.
CallEnds == <>(Outcome # "pending")
==============================================================================
