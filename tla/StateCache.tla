----------------------------- MODULE StateCache -----------------------------
(***************************************************************************)
(* The per-session merge of gNMI notifications, class StateCache of        *)
(* gnmi.py.  A notification carries one device timestamp, leaf updates and *)
(* deleted paths; the transport may deliver notifications late, twice or   *)
(* out of order, so the cache keeps one timestamp per leaf and one         *)
(* tombstone per deleted path.                                             *)
(*                                                                         *)
(* A deleted path is the set of leaves under it, which is all apply()      *)
(* looks at when it compares path prefixes.  The state containers of the   *)
(* code are such sets, and they need not cover an entity: the path         *)
(* neighbor/state does not cover the received-prefixes leaf, which lives   *)
(* under neighbor/afi-safis.  Every leaf has one path, its own name.       *)
(***************************************************************************)
EXTENDS Naturals, FiniteSetsExt

CONSTANTS Leaf,              \* leaf paths below the subscribed containers
          Key,               \* entities
          Owner,             \* the entity of each leaf, identity() in the code
          Value,             \* leaf values
          NoValue,           \* marks a leaf the cache does not hold
          DeletePath,        \* deletable paths, as the leaves they cover
          Notification,      \* what the device may send
          MaxNotifications   \* bound: distinct notifications of a session

\* A leaf update is a partial function from leaves to values; wire.decode
\* refuses a notification without a positive timestamp.
ASSUME CacheAssumption ==
    /\ Owner \in [Leaf -> Key]
    /\ NoValue \notin Value
    /\ DeletePath \subseteq SUBSET Leaf
    /\ MaxNotifications \in Nat
    /\ \A n \in Notification :
          /\ n.ts \in Nat \ {0}
          /\ DOMAIN n.update \subseteq Leaf
          /\ \A l \in DOMAIN n.update : n.update[l] \in Value
          /\ n.delete \subseteq DeletePath

VARIABLES value,        \* self.values, flattened: the value of a leaf
          leafTime,     \* self.leaf_timestamps: 0 when the leaf is not held
          tombstone,    \* self.tombstones: newest deletion of a path, or 0
          observedAt,   \* self.timestamps: 0 when the entity is not held
          touched,      \* surviving entities the last apply() returned
          gone,         \* entities it returned with deleted=True
          seen          \* ghost: the notifications applied so far

state == <<value, leafTime, tombstone, observedAt>>
vars  == <<value, leafTime, tombstone, observedAt, touched, gone, seen>>

LeavesOf(k) == {l \in Leaf : Owner[l] = k}
Held(time)  == {l \in Leaf : time[l] > 0}
Live(time)  == {k \in Key : \E l \in Held(time) : Owner[l] = k}

Init ==
    /\ value = [l \in Leaf |-> NoValue]
    /\ leafTime = [l \in Leaf |-> 0]
    /\ tombstone = [d \in DeletePath |-> 0]
    /\ observedAt = [k \in Key |-> 0]
    /\ touched = {}
    /\ gone = {}
    /\ seen = {}

------------------------------------------------------------------------------
\* Mutant of Accepted: no tombstones.
AcceptedUndead(n) == {l \in DOMAIN n.update : n.ts >= leafTime[l]}

\* The update loop: a leaf update is dropped if a deletion of a path above it
\* is as new, or if the leaf already holds something strictly newer.
Accepted(n) ==
    {l \in DOMAIN n.update :
        /\ \A d \in DeletePath : l \in d => n.ts > tombstone[d]
        /\ n.ts >= leafTime[l]}

Merged(n) == [l \in Leaf |-> IF l \in Accepted(n) THEN n.ts ELSE leafTime[l]]

\* The deletion loop, which runs after every update of the notification: it
\* removes what is not strictly newer than the notification.
Removed(n) ==
    {l \in Held(Merged(n)) :
        /\ \E d \in n.delete : l \in d
        /\ Merged(n)[l] <= n.ts}

Remaining(n) ==
    [l \in Leaf |-> IF l \in Removed(n) THEN 0 ELSE Merged(n)[l]]

Buried(n) ==
    [d \in DeletePath |->
        IF d \in n.delete /\ n.ts > tombstone[d] THEN n.ts ELSE tombstone[d]]

Owners(leaves) == {Owner[l] : l \in leaves}

\* self.timestamps: the newest leaf after an accepted update, then at least
\* the time of a partial deletion; dropped together with the entity.
AfterUpdates(n, k) ==
    IF k \in Owners(Accepted(n))
    THEN Max({Merged(n)[l] : l \in LeavesOf(k) \cap Held(Merged(n))})
    ELSE observedAt[k]

\* Mutant of AfterDeletes: the time of the deletion, even if it is older.
AfterDeletesPlain(n, k) ==
    IF k \in Owners(Removed(n)) THEN n.ts ELSE AfterUpdates(n, k)

AfterDeletes(n, k) ==
    IF k \in Owners(Removed(n)) /\ AfterUpdates(n, k) < n.ts
    THEN n.ts
    ELSE AfterUpdates(n, k)

\* Mutant of Observed: the entity keeps its time when its last leaf goes.
ObservedKept(n) ==
    [k \in Key |-> IF k \in Live(Remaining(n)) THEN AfterDeletes(n, k)
                   ELSE observedAt[k]]

Observed(n) ==
    [k \in Key |-> IF k \in Live(Remaining(n)) THEN AfterDeletes(n, k) ELSE 0]

Stored(n) ==
    [l \in Leaf |-> IF l \in Removed(n) THEN NoValue
                    ELSE IF l \in Accepted(n) THEN n.update[l]
                    ELSE value[l]]

\* Mutant of Apply: a partial deletion is not reported.
ApplySilently(n) ==
    /\ value' = Stored(n)
    /\ leafTime' = Remaining(n)
    /\ tombstone' = Buried(n)
    /\ observedAt' = Observed(n)
    /\ touched' = Owners(Accepted(n)) \cap Live(Remaining(n))
    /\ gone' = Owners(Removed(n)) \ Live(Remaining(n))
    /\ seen' = seen \cup {n}

Apply(n) ==
    /\ value' = Stored(n)
    /\ leafTime' = Remaining(n)
    /\ tombstone' = Buried(n)
    /\ observedAt' = Observed(n)
    /\ touched' = Owners(Accepted(n) \cup Removed(n)) \cap Live(Remaining(n))
    /\ gone' = Owners(Removed(n)) \ Live(Remaining(n))
    /\ seen' = seen \cup {n}

\* Any notification may arrive next, one already applied included.
Next == \E n \in Notification :
          /\ Cardinality(seen \cup {n}) <= MaxNotifications
          /\ Apply(n)

Spec == Init /\ [][Next]_vars

------------------------------------------------------------------------------
\* The dictionaries stay in step: a leaf has a value exactly when it has a
\* time, and an entity has an observed_at exactly when it has a leaf.  apply()
\* deletes from five dictionaries by hand, and make() indexes all of them.
TypeOK ==
    /\ value \in [Leaf -> Value \cup {NoValue}]
    /\ leafTime \in [Leaf -> Nat]
    /\ tombstone \in [DeletePath -> Nat]
    /\ observedAt \in [Key -> Nat]
    /\ touched \subseteq Key
    /\ gone \subseteq Key
    /\ seen \subseteq Notification
    /\ \A l \in Leaf : value[l] = NoValue <=> leafTime[l] = 0
    /\ \A k \in Key : observedAt[k] = 0 <=> k \notin Live(leafTime)

UpdatesOf(l) == {n \in seen : l \in DOMAIN n.update}
DeletesOf(l) == {n \in seen : \E d \in n.delete : l \in d}

Survives(l) ==
    \E u \in UpdatesOf(l) : \A d \in DeletesOf(l) : u.ts > d.ts

Newest(l) == {u \in UpdatesOf(l) : \A w \in UpdatesOf(l) : w.ts <= u.ts}

\* Two updates of one timestamp that disagree about the leaf.
Tied(l) == \E u, w \in Newest(l) : u.update[l] # w.update[l]

\* Which leaves are held, and since when, depends on the set of notifications
\* received only, not on the order or the number of times they came: a leaf is
\* held exactly when one update is newer than every deletion above it, and its
\* time is that of the newest update.  So does its value, unless the newest
\* updates tie: then it is the value of one of them, and the order they came in
\* decides of which, because apply() lets an equal timestamp overwrite.  Of
\* observed_at nothing of the kind holds, see ObservedAtCoversLeaves.
Converged ==
    \A l \in Leaf :
       /\ leafTime[l] > 0 <=> Survives(l)
       /\ leafTime[l] > 0 =>
            /\ \A u \in Newest(l) : u.ts = leafTime[l]
            /\ \E u \in Newest(l) : u.update[l] = value[l]
            /\ ~Tied(l) => \A u \in Newest(l) : u.update[l] = value[l]

\* The observed_at of an entity is the time of something the device said, and
\* is never older than a leaf it is published with, although a partial
\* deletion and a late update move it in opposite directions.
ObservedAtCoversLeaves ==
    /\ \A l \in Held(leafTime) : leafTime[l] <= observedAt[Owner[l]]
    /\ \A k \in Live(leafTime) : \E n \in seen : observedAt[k] = n.ts

\* What snapshot() contributes for an entity: one observation or none.
Snapshot(k) ==
    IF k \in Live(leafTime)
    THEN {[values |-> [l \in LeavesOf(k) |-> value[l]], observed_at |-> observedAt[k]]}
    ELSE {}

Contract == INSTANCE CacheContract
              WITH Absent <- {},
                   view <- [k \in Key |-> Snapshot(k)],
                   changed <- touched

\* An entity leaves snapshot() only in a step that reports it as deleted, and
\* every entity whose snapshot changes is in the report of apply(): the
\* exporter and the transition log are built on nothing else.
ReportsEveryChange == Contract!Spec
==============================================================================
