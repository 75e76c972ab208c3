---------------------------- MODULE CacheContract ----------------------------
(***************************************************************************)
(* What the rest of the collector relies on when it calls StateCache.apply *)
(* (gnmi.py): the call returns every entity whose snapshot it may have     *)
(* changed, the surviving ones as observations and the others as           *)
(* observations with deleted=True.  Whoever applies each report to a copy  *)
(* of its own (the exporter, the transition log) never drifts away from    *)
(* the cache.  Nothing is said about how notifications are merged.         *)
(***************************************************************************)
CONSTANTS Key,      \* entities: an interface, or a BGP neighbor
          Absent    \* the view of an entity the cache does not hold

VARIABLES view,     \* view[k]: what snapshot() would return for k
          changed,  \* surviving entities the last apply() returned
          gone      \* entities the last apply() returned with deleted=True

vars == <<view, changed, gone>>

Init == /\ view = [k \in Key |-> Absent]
        /\ changed = {}
        /\ gone = {}

\* One notification, whatever it carries.  The three sets of entities are
\* disjoint: still there, gone, and not mentioned because not affected.
Report == /\ changed' \subseteq Key
          /\ gone' \subseteq Key
          /\ \A k \in changed' : view'[k] # Absent /\ k \notin gone'
          /\ \A k \in gone' : view'[k] = Absent
          /\ \A k \in Key \ (changed' \cup gone') : view'[k] = view[k]

Next == Report

Spec == Init /\ [][Next]_vars
==============================================================================
