------------------------------ MODULE BulkWrite ------------------------------
(***************************************************************************)
(* What the callers of Repository.write rely on: the sink thread of the    *)
(* gNMI collector and the devices of a CLI run.  A call that returns has   *)
(* stored its whole batch; one that raises has stored some of it, perhaps  *)
(* all, and the rest may still arrive afterwards.  No observation is ever  *)
(* taken back out of the history.                                          *)
(***************************************************************************)
CONSTANT Obs              \* the observations of the batch

VARIABLES outcome,        \* of the call: "pending", "returned" or "raised"
          stored          \* observations of the batch found in OpenSearch

vars == <<outcome, stored>>

Init == outcome = "pending" /\ stored = {}

Store == /\ stored \subseteq stored'
         /\ stored' \subseteq Obs
         /\ UNCHANGED outcome

Return == /\ outcome = "pending"
          /\ stored = Obs
          /\ outcome' = "returned"
          /\ UNCHANGED stored

Raise == /\ outcome = "pending"
         /\ outcome' = "raised"
         /\ UNCHANGED stored

Next == Store \/ Return \/ Raise

Spec == Init /\ [][Next]_vars
==============================================================================
