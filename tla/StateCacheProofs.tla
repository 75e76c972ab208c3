-------------------------- MODULE StateCacheProofs --------------------------
(***************************************************************************)
(* The merge of StateCache is correct for every set of leaves, paths and   *)
(* notifications, whatever their number and order.                         *)
(***************************************************************************)
EXTENDS StateCache, TLAPS, WellFoundedInduction

\* A tombstone is the newest deletion of its path.  It stands for all the
\* deletions the cache has forgotten, which is what makes HeldIsNewest inductive.
TombstonesRemember ==
    \A p \in DeletePath :
       /\ \A n \in seen : p \in n.delete => n.ts <= tombstone[p]
       /\ tombstone[p] > 0 =>
            \E n \in seen : p \in n.delete /\ n.ts = tombstone[p]

\* Converged leaf by leaf, in the form one merge step preserves: a leaf has the
\* time and the value of one of its newest updates.
HeldIsNewest ==
    \A l \in Leaf :
       /\ leafTime[l] > 0 <=> Survives(l)
       /\ leafTime[l] > 0 =>
            /\ \A u \in UpdatesOf(l) : u.ts <= leafTime[l]
            /\ \E u \in UpdatesOf(l) : u.ts = leafTime[l] /\ u.update[l] = value[l]

\* Every leaf time comes from a notification, hence so does their maximum.
TimesBounded == \E m \in Nat : \A l \in Leaf : leafTime[l] <= m

\* No deletion above leaf l is as new as time t.
Fresh(l, t) == \A p \in DeletePath : l \in p => t > tombstone[p]

IInv == /\ TypeOK
        /\ TombstonesRemember
        /\ HeldIsNewest
        /\ ObservedAtCoversLeaves
        /\ TimesBounded

------------------------------------------------------------------------------
\* A bounded nonempty set of naturals has a maximum, the one Max chooses: this
\* is what self.timestamps is computed with.
LEMMA MaxOfBounded ==
    ASSUME NEW S \in SUBSET Nat, S # {}, NEW m \in Nat, \A x \in S : x <= m
    PROVE  Max(S) \in S /\ \A x \in S : x <= Max(S)
<1> DEFINE Bounds == {b \in Nat : \A x \in S : x <= b}
<1>1. \E b \in Bounds : \A c \in Bounds : ~ (<<c, b>> \in OpToRel(<, Nat))
  <2>1. Bounds \subseteq Nat /\ Bounds # {}
    OBVIOUS
  <2> HIDE DEF Bounds
  <2>2. QED
    BY <2>1, NatLessThanWellFounded, WFMin
<1>2. PICK b \in Bounds : \A c \in Bounds : ~ (<<c, b>> \in OpToRel(<, Nat))
  BY <1>1
<1>3. ASSUME NEW c \in Bounds PROVE b <= c
  <2>1. <<c, b>> \notin OpToRel(<, Nat)
    BY <1>2
  <2>2. <<c, b>> \in Nat \X Nat
    OBVIOUS
  <2>3. ~ (c < b)
    BY <2>1, <2>2 DEF OpToRel
  <2>4. QED
    BY <2>3
<1>4. b \in S
  <2>1. CASE b = 0
    <3>1. PICK x \in S : x <= 0
      BY <2>1
    <3>2. QED
      BY <3>1, <2>1
  <2>2. CASE b > 0
    <3>1. SUFFICES ASSUME b \notin S PROVE FALSE
      OBVIOUS
    <3>2. b - 1 \in Bounds
      BY <3>1, <2>2
    <3>3. QED
      BY <3>2, <1>3
  <2>3. QED
    BY <2>1, <2>2
<1>5. \E x \in S : \A y \in S : x >= y
  BY <1>4
<1>6. Max(S) \in S /\ \A y \in S : Max(S) >= y
  BY <1>5 DEF Max
<1>7. QED
  BY <1>6

------------------------------------------------------------------------------
\* Typing of one merge step.
LEMMA NotificationType ==
    ASSUME NEW n \in Notification
    PROVE  /\ n.ts \in Nat /\ n.ts > 0
           /\ DOMAIN n.update \subseteq Leaf
           /\ \A l \in DOMAIN n.update : n.update[l] \in Value
           /\ n.delete \subseteq DeletePath
BY CacheAssumption DEF CacheAssumption

\* The parts of apply() keep the types of what they compute.
LEMMA MergeType ==
    ASSUME TypeOK, NEW n \in Notification
    PROVE  /\ Accepted(n) \subseteq Leaf
           /\ Removed(n) \subseteq Leaf
           /\ Merged(n) \in [Leaf -> Nat]
           /\ Remaining(n) \in [Leaf -> Nat]
           /\ Buried(n) \in [DeletePath -> Nat]
BY NotificationType
   DEF TypeOK, Accepted, Removed, Held, Merged, Remaining, Buried

\* What a merge step does to one leaf, with the deletions of the notification
\* and the tombstones folded into Fresh.
LEMMA LeafStep ==
    ASSUME TypeOK, NEW n \in Notification, NEW l \in Leaf
    PROVE  /\ l \in Accepted(n) <=> /\ l \in DOMAIN n.update
                                    /\ Fresh(l, n.ts)
                                    /\ n.ts >= leafTime[l]
           /\ Merged(n)[l] = IF l \in Accepted(n) THEN n.ts ELSE leafTime[l]
           /\ l \in Removed(n) <=> /\ Merged(n)[l] > 0
                                   /\ Merged(n)[l] <= n.ts
                                   /\ \E p \in n.delete : l \in p
           /\ Remaining(n)[l] = IF l \in Removed(n) THEN 0 ELSE Merged(n)[l]
BY DEF Accepted, Removed, Held, Merged, Remaining, Fresh

------------------------------------------------------------------------------
\* Fresh speaks of tombstones and Survives of the deletions received: they
\* agree, because the tombstone of a path is its newest deletion.
LEMMA FreshIsUndeleted ==
    ASSUME TypeOK, TombstonesRemember, NEW l \in Leaf, NEW t \in Nat, t > 0
    PROVE  Fresh(l, t) <=> \A d \in DeletesOf(l) : t > d.ts
<1>1. ASSUME Fresh(l, t), NEW d \in DeletesOf(l)
      PROVE  t > d.ts
  <2>1. PICK p \in d.delete : l \in p
    BY DEF DeletesOf
  <2>2. d \in seen /\ d \in Notification
    BY DEF DeletesOf, TypeOK
  <2>3. p \in DeletePath /\ d.ts \in Nat
    BY <2>2, NotificationType
  <2>4. d.ts <= tombstone[p] /\ tombstone[p] \in Nat
    BY <2>1, <2>2, <2>3 DEF TombstonesRemember, TypeOK
  <2>5. QED
    BY <1>1, <2>1, <2>3, <2>4 DEF Fresh
<1>2. ASSUME \A d \in DeletesOf(l) : t > d.ts, NEW p \in DeletePath, l \in p
      PROVE  t > tombstone[p]
  <2>1. CASE tombstone[p] > 0
    <3>1. PICK n \in seen : p \in n.delete /\ n.ts = tombstone[p]
      BY <2>1 DEF TombstonesRemember
    <3>2. n \in DeletesOf(l)
      BY <3>1, <1>2 DEF DeletesOf
    <3>3. QED
      BY <3>1, <3>2, <1>2
  <2>2. CASE tombstone[p] = 0
    BY <2>2
  <2>3. QED
    BY <2>1, <2>2 DEF TypeOK
<1>3. QED
  BY <1>1, <1>2 DEF Fresh

------------------------------------------------------------------------------
\* The invariant holds at the start.
THEOREM InitInv == Init => IInv
<1> SUFFICES ASSUME Init PROVE IInv
  OBVIOUS
<1>1. TypeOK
  BY DEF Init, TypeOK, Live, Held
<1>2. TombstonesRemember
  BY DEF Init, TombstonesRemember
<1>3. HeldIsNewest
  BY DEF Init, HeldIsNewest, Survives, UpdatesOf
<1>4. ObservedAtCoversLeaves /\ TimesBounded
  BY DEF Init, ObservedAtCoversLeaves, Held, Live, TimesBounded
<1>5. QED
  BY <1>1, <1>2, <1>3, <1>4 DEF IInv

\* The times a step leaves behind have a common bound, so that Max applies.
LEMMA BoundedStep ==
    ASSUME TypeOK, TimesBounded, NEW n \in Notification
    PROVE  \E m \in Nat : \A l \in Leaf : Merged(n)[l] <= m /\ Remaining(n)[l] <= m
<1>1. PICK m \in Nat : \A l \in Leaf : leafTime[l] <= m
  BY DEF TimesBounded
<1>2. DEFINE b == IF m < n.ts THEN n.ts ELSE m
<1>3. n.ts \in Nat /\ b \in Nat /\ n.ts <= b /\ m <= b
  BY NotificationType
<1> HIDE DEF b
<1>4. ASSUME NEW l \in Leaf
      PROVE  Merged(n)[l] <= b /\ Remaining(n)[l] <= b
  <2>1. leafTime[l] <= m /\ leafTime[l] \in Nat
    BY <1>1 DEF TypeOK
  <2>2. Merged(n)[l] <= b
    BY <2>1, <1>3 DEF Merged
  <2>3. QED
    BY <2>2, <1>3 DEF Remaining
<1>5. QED
  BY <1>3, <1>4

\* The time the update loop leaves for a live entity: a positive natural that
\* no leaf of the entity exceeds, and the time of a leaf or the one before.
LEMMA AfterUpdatesCovers ==
    ASSUME TypeOK, ObservedAtCoversLeaves, TimesBounded,
           NEW n \in Notification, NEW k \in Key, k \in Live(Merged(n))
    PROVE  /\ AfterUpdates(n, k) \in Nat
           /\ \A l \in LeavesOf(k) : Merged(n)[l] <= AfterUpdates(n, k)
           /\ \/ AfterUpdates(n, k) = observedAt[k] /\ k \in Live(leafTime)
              \/ \E l \in Leaf : Merged(n)[l] > 0 /\ AfterUpdates(n, k) = Merged(n)[l]
<1> DEFINE S == {Merged(n)[l] : l \in LeavesOf(k) \cap Held(Merged(n))}
<1>1. Merged(n) \in [Leaf -> Nat] /\ Accepted(n) \subseteq Leaf
  BY MergeType
<1>2. PICK m \in Nat : \A l \in Leaf : Merged(n)[l] <= m
  BY BoundedStep
<1>3. CASE k \in Owners(Accepted(n))
  <2>1. S \in SUBSET Nat /\ S # {} /\ \A x \in S : x <= m
    <3>1. S \subseteq Nat /\ \A x \in S : x <= m
      BY <1>1, <1>2 DEF LeavesOf, Held
    <3>2. PICK l \in Held(Merged(n)) : Owner[l] = k
      BY DEF Live
    <3>3. Merged(n)[l] \in S
      BY <3>2 DEF LeavesOf, Held
    <3>4. QED
      BY <3>1, <3>3
  <2> HIDE DEF S
  <2>2. Max(S) \in S /\ \A x \in S : x <= Max(S)
    BY <2>1, <1>2, MaxOfBounded
  <2>3. AfterUpdates(n, k) = Max(S)
    BY <1>3 DEF AfterUpdates, S
  <2>4. Max(S) \in Nat
    BY <2>1, <2>2
  <2>5. ASSUME NEW l \in LeavesOf(k) PROVE Merged(n)[l] <= Max(S)
    <3>1. CASE Merged(n)[l] > 0
      BY <3>1, <2>2 DEF S, Held, LeavesOf
    <3>2. CASE Merged(n)[l] = 0
      BY <3>2, <2>4
    <3>3. QED
      BY <3>1, <3>2, <1>1 DEF LeavesOf
  <2>6. \E l \in Leaf : Merged(n)[l] > 0 /\ Max(S) = Merged(n)[l]
    BY <2>2 DEF S, Held, LeavesOf
  <2>7. QED
    BY <2>3, <2>4, <2>5, <2>6
<1>4. CASE k \notin Owners(Accepted(n))
  <2>1. AfterUpdates(n, k) = observedAt[k]
    BY <1>4 DEF AfterUpdates
  <2>2. \A l \in LeavesOf(k) : Merged(n)[l] = leafTime[l]
    BY <1>4 DEF LeavesOf, Owners, Merged
  <2>3. k \in Live(leafTime)
    BY <2>2 DEF Live, Held, LeavesOf
  <2>4. ASSUME NEW l \in LeavesOf(k) PROVE leafTime[l] <= observedAt[k]
    <3>1. CASE leafTime[l] > 0
      BY <3>1 DEF ObservedAtCoversLeaves, Held, LeavesOf
    <3>2. CASE leafTime[l] = 0
      BY <3>2 DEF TypeOK, LeavesOf
    <3>3. QED
      BY <3>1, <3>2 DEF TypeOK, LeavesOf
  <2>5. QED
    BY <2>1, <2>2, <2>3, <2>4 DEF TypeOK
<1>5. QED
  BY <1>3, <1>4

\* The same for the time the deletion loop leaves.
LEMMA ObservedCovers ==
    ASSUME TypeOK, ObservedAtCoversLeaves, TimesBounded,
           NEW n \in Notification, NEW k \in Key, k \in Live(Remaining(n))
    PROVE  /\ Observed(n)[k] \in Nat
           /\ \A l \in LeavesOf(k) : Remaining(n)[l] <= Observed(n)[k]
           /\ \/ Observed(n)[k] = observedAt[k] /\ k \in Live(leafTime)
              \/ Observed(n)[k] = n.ts
              \/ \E l \in Leaf : Merged(n)[l] > 0 /\ Observed(n)[k] = Merged(n)[l]
<1>1. k \in Live(Merged(n))
  <2>1. PICK l \in Leaf : Remaining(n)[l] > 0 /\ Owner[l] = k
    BY DEF Live, Held
  <2>2. Merged(n)[l] > 0
    BY <2>1 DEF Remaining
  <2>3. QED
    BY <2>1, <2>2 DEF Live, Held
<1>2. Observed(n)[k] = AfterDeletes(n, k)
  BY DEF Observed
<1>3. n.ts \in Nat
  BY NotificationType
<1>4. \A l \in LeavesOf(k) : Remaining(n)[l] = Merged(n)[l] \/ Remaining(n)[l] = 0
  BY DEF Remaining, LeavesOf
<1>5. \A l \in LeavesOf(k) : Merged(n)[l] \in Nat
  BY MergeType DEF LeavesOf
<1>6. /\ AfterUpdates(n, k) \in Nat
      /\ \A l \in LeavesOf(k) : Merged(n)[l] <= AfterUpdates(n, k)
      /\ \/ AfterUpdates(n, k) = observedAt[k] /\ k \in Live(leafTime)
         \/ \E l \in Leaf : Merged(n)[l] > 0 /\ AfterUpdates(n, k) = Merged(n)[l]
  BY <1>1, AfterUpdatesCovers
<1>7. \/ AfterDeletes(n, k) = AfterUpdates(n, k)
      \/ AfterDeletes(n, k) = n.ts /\ AfterUpdates(n, k) < n.ts
  BY DEF AfterDeletes
<1>8. ASSUME NEW l \in LeavesOf(k) PROVE Remaining(n)[l] <= AfterDeletes(n, k)
  BY <1>3, <1>4, <1>5, <1>6, <1>7
<1>9. QED
  BY <1>2, <1>3, <1>6, <1>7, <1>8

------------------------------------------------------------------------------
\* apply() keeps the dictionaries in step.
LEMMA TypeStep ==
    ASSUME IInv, NEW n \in Notification, Apply(n)
    PROVE  TypeOK'
<1> USE DEF IInv
<1>1. leafTime' \in [Leaf -> Nat] /\ tombstone' \in [DeletePath -> Nat]
  BY MergeType DEF Apply
<1>2. /\ value' \in [Leaf -> Value \cup {NoValue}]
      /\ \A l \in Leaf : value'[l] = NoValue <=> leafTime'[l] = 0
  <2>1. Accepted(n) \subseteq DOMAIN n.update
    BY DEF Accepted
  <2>2. \A l \in Accepted(n) : n.update[l] \in Value
    BY <2>1, NotificationType
  <2>3. value' = Stored(n) /\ leafTime' = Remaining(n) /\ n.ts > 0
    BY NotificationType DEF Apply
  <2>4. value' \in [Leaf -> Value \cup {NoValue}]
    BY <2>2, <2>3 DEF Stored, TypeOK
  <2>5. ASSUME NEW l \in Leaf PROVE value'[l] = NoValue <=> leafTime'[l] = 0
    <3>1. CASE l \in Removed(n)
      BY <3>1, <2>3 DEF Stored, Remaining
    <3>2. CASE l \notin Removed(n) /\ l \in Accepted(n)
      <4>1. value'[l] = n.update[l] /\ leafTime'[l] = n.ts
        BY <3>2, <2>3 DEF Stored, Remaining, Merged
      <4>2. QED
        BY <4>1, <3>2, <2>2, <2>3, CacheAssumption DEF CacheAssumption
    <3>3. CASE l \notin Removed(n) /\ l \notin Accepted(n)
      <4>1. value'[l] = value[l] /\ leafTime'[l] = leafTime[l]
        BY <3>3, <2>3 DEF Stored, Remaining, Merged
      <4>2. QED
        BY <4>1 DEF TypeOK
    <3>4. QED
      BY <3>1, <3>2, <3>3
  <2>6. QED
    BY <2>4, <2>5
<1>3. touched' \subseteq Key /\ gone' \subseteq Key
  BY MergeType, CacheAssumption DEF CacheAssumption, Apply, Owners, Live
<1>4. seen' \subseteq Notification
  BY DEF Apply, TypeOK
<1>5. ASSUME NEW k \in Key
      PROVE  /\ observedAt'[k] \in Nat
             /\ observedAt'[k] = 0 <=> k \notin Live(leafTime')
  <2>1. observedAt'[k] = Observed(n)[k] /\ leafTime' = Remaining(n)
    BY DEF Apply
  <2>2. CASE k \in Live(Remaining(n))
    <3>1. PICK l \in LeavesOf(k) : Remaining(n)[l] > 0
      BY <2>2 DEF Live, Held, LeavesOf
    <3>2. Remaining(n)[l] \in Nat
      BY MergeType DEF LeavesOf
    <3>3. Observed(n)[k] \in Nat /\ Remaining(n)[l] <= Observed(n)[k]
      BY <2>2, <3>1, ObservedCovers
    <3>4. QED
      BY <2>1, <2>2, <3>1, <3>2, <3>3
  <2>3. CASE k \notin Live(Remaining(n))
    BY <2>1, <2>3 DEF Observed
  <2>4. QED
    BY <2>2, <2>3
<1>6. observedAt' \in [Key -> Nat]
  <2>1. observedAt' = [k \in Key |-> observedAt'[k]]
    BY DEF Apply, Observed
  <2>2. QED
    BY <1>5, <2>1
<1>7. QED
  BY <1>1, <1>2, <1>3, <1>4, <1>5, <1>6 DEF TypeOK, Live, Held

\* A tombstone is the newest deletion of its path.
LEMMA TombstonesStep ==
    ASSUME IInv, NEW n \in Notification, Apply(n)
    PROVE  TombstonesRemember'
<1> USE DEF IInv
<1>1. SUFFICES ASSUME NEW p \in DeletePath
      PROVE  /\ \A m \in seen' : p \in m.delete => m.ts <= tombstone'[p]
             /\ tombstone'[p] > 0 =>
                  \E m \in seen' : p \in m.delete /\ m.ts = tombstone'[p]
  BY DEF TombstonesRemember
<1>2. /\ n.ts \in Nat /\ tombstone[p] \in Nat
      /\ \A m \in seen : m.ts \in Nat
      /\ seen' = seen \cup {n}
  BY NotificationType DEF TypeOK, Apply
<1>3. tombstone'[p] = IF p \in n.delete /\ n.ts > tombstone[p] THEN n.ts ELSE tombstone[p]
  BY DEF Apply, Buried
<1>4. tombstone[p] <= tombstone'[p] /\ (p \in n.delete => n.ts <= tombstone'[p])
  BY <1>2, <1>3
<1>5. ASSUME NEW m \in seen', p \in m.delete PROVE m.ts <= tombstone'[p]
  <2>1. CASE m = n
    BY <2>1, <1>4, <1>5
  <2>2. CASE m \in seen
    <3>1. m.ts <= tombstone[p]
      BY <2>2, <1>5 DEF TombstonesRemember
    <3>2. QED
      BY <3>1, <2>2, <1>2, <1>3
  <2>3. QED
    BY <2>1, <2>2, <1>2
<1>6. ASSUME tombstone'[p] > 0
      PROVE  \E m \in seen' : p \in m.delete /\ m.ts = tombstone'[p]
  BY <1>2, <1>3, <1>6 DEF TombstonesRemember
<1>7. QED
  BY <1>5, <1>6

\* One leaf under one notification.  A deletion beats an update with its own
\* time in either order: it removes what is no newer, and leaves a tombstone
\* that refuses what is no newer.
LEMMA HeldStep ==
    ASSUME IInv, NEW n \in Notification, Apply(n), TypeOK'
    PROVE  HeldIsNewest'
<1> USE DEF IInv
<1>1. SUFFICES ASSUME NEW l \in Leaf
      PROVE  /\ leafTime'[l] > 0 <=> Survives(l)'
             /\ leafTime'[l] > 0 =>
                  /\ \A u \in UpdatesOf(l)' : u.ts <= leafTime'[l]
                  /\ \E u \in UpdatesOf(l)' : /\ u.ts = leafTime'[l]
                                              /\ u.update[l] = value'[l]
  BY DEF HeldIsNewest
<1> DEFINE t == leafTime[l]
           m == Merged(n)[l]
           del == \E p \in n.delete : l \in p
<1>2. /\ n.ts \in Nat /\ n.ts > 0
      /\ t \in Nat /\ leafTime'[l] \in Nat
      /\ seen' = seen \cup {n}
      /\ \A u \in seen' : u.ts \in Nat /\ u.ts > 0
  BY NotificationType DEF TypeOK, Apply
<1>3. /\ l \in Accepted(n) <=> l \in DOMAIN n.update /\ Fresh(l, n.ts) /\ n.ts >= t
      /\ m = IF l \in Accepted(n) THEN n.ts ELSE t
      /\ l \in Removed(n) <=> m > 0 /\ m <= n.ts /\ del
      /\ leafTime'[l] = IF l \in Removed(n) THEN 0 ELSE m
  BY LeafStep DEF Apply
<1>4. value'[l] = IF l \in Removed(n) THEN NoValue
                  ELSE IF l \in Accepted(n) THEN n.update[l] ELSE value[l]
  BY DEF Apply, Stored
<1>5. UpdatesOf(l)' = UpdatesOf(l) \cup (IF l \in DOMAIN n.update THEN {n} ELSE {})
  BY <1>2 DEF UpdatesOf
<1>6. DeletesOf(l)' = DeletesOf(l) \cup (IF del THEN {n} ELSE {})
  BY <1>2 DEF DeletesOf
<1> DEFINE Alive(x) == Fresh(l, x) /\ (del => x > n.ts)
<1>7. Survives(l)' <=> \E u \in UpdatesOf(l)' : Alive(u.ts)
  <2>1. ASSUME NEW u \in UpdatesOf(l)'
        PROVE  (\A d \in DeletesOf(l)' : u.ts > d.ts) <=> Alive(u.ts)
    <3>1. u.ts \in Nat /\ u.ts > 0
      BY <1>2 DEF UpdatesOf
    <3>2. Fresh(l, u.ts) <=> \A d \in DeletesOf(l) : u.ts > d.ts
      BY <3>1, FreshIsUndeleted
    <3>3. QED
      BY <3>2, <1>6
  <2>2. QED
    BY <2>1 DEF Survives
<1>8. /\ t > 0 <=> \E u \in UpdatesOf(l) : Fresh(l, u.ts)
      /\ t > 0 => /\ \A u \in UpdatesOf(l) : u.ts <= t
                  /\ \E u \in UpdatesOf(l) : u.ts = t /\ u.update[l] = value[l]
  <2>1. \A u \in UpdatesOf(l) : u.ts \in Nat /\ u.ts > 0
    BY <1>2 DEF UpdatesOf
  <2>2. Survives(l) <=> \E u \in UpdatesOf(l) : Fresh(l, u.ts)
    BY <2>1, FreshIsUndeleted DEF Survives
  <2>3. QED
    BY <2>2 DEF HeldIsNewest
<1>9. \A x, y \in Nat : x <= y /\ Fresh(l, x) => Fresh(l, y)
  BY DEF Fresh, TypeOK
<1>10. t > 0 => Fresh(l, t)
  BY <1>2, <1>8, <1>9 DEF UpdatesOf
<1>11. m \in Nat /\ t <= m
  BY <1>2, <1>3
<1>12. leafTime'[l] > 0 <=> m > 0 /\ Alive(m)
  <2>1. m > 0 => Fresh(l, m)
    BY <1>3, <1>10
  <2>2. QED
    BY <2>1, <1>2, <1>3, <1>11
<1>13. leafTime'[l] > 0 => leafTime'[l] = m
  BY <1>3
<1>14. ASSUME m > 0
       PROVE  /\ \A u \in UpdatesOf(l)' : Fresh(l, u.ts) => u.ts <= m
              /\ \E u \in UpdatesOf(l)' : /\ u.ts = m
                                          /\ l \notin Removed(n) => u.update[l] = value'[l]
  <2>1. CASE l \in Accepted(n)
    <3>1. n \in UpdatesOf(l)' /\ m = n.ts
      BY <2>1, <1>3, <1>5
    <3>2. l \notin Removed(n) => n.update[l] = value'[l]
      BY <2>1, <1>4
    <3>3. ASSUME NEW u \in UpdatesOf(l), Fresh(l, u.ts) PROVE u.ts <= m
      BY <3>3, <1>2, <1>8, <1>11 DEF UpdatesOf
    <3>4. QED
      BY <3>1, <3>2, <3>3, <1>2, <1>5
  <2>2. CASE l \notin Accepted(n)
    <3>1. m = t /\ t > 0
      BY <2>2, <1>3, <1>14
    <3>2. PICK u \in UpdatesOf(l) : u.ts = t /\ u.update[l] = value[l]
      BY <3>1, <1>8
    <3>3. l \notin Removed(n) => u.update[l] = value'[l]
      BY <2>2, <3>2, <1>4
    <3>4. l \in DOMAIN n.update /\ Fresh(l, n.ts) => n.ts <= m
      BY <2>2, <3>1, <1>2, <1>3
    <3>5. QED
      BY <3>1, <3>2, <3>3, <3>4, <1>5, <1>8
  <2>3. QED
    BY <2>1, <2>2
<1>15. leafTime'[l] > 0 <=> Survives(l)'
  <2>1. ASSUME m > 0, Alive(m) PROVE \E u \in UpdatesOf(l)' : Alive(u.ts)
    BY <2>1, <1>14
  <2>2. ASSUME NEW u \in UpdatesOf(l)', Alive(u.ts) PROVE m > 0 /\ Alive(m)
    <3>1. u.ts \in Nat /\ u.ts > 0
      BY <1>2 DEF UpdatesOf
    <3>2. m > 0
      <4>1. CASE u \in UpdatesOf(l)
        BY <4>1, <2>2, <1>2, <1>8, <1>11
      <4>2. CASE u = n /\ l \in DOMAIN n.update
        BY <4>2, <2>2, <1>2, <1>3
      <4>3. QED
        BY <4>1, <4>2, <1>5
    <3>3. u.ts <= m
      BY <3>2, <2>2, <1>14
    <3>4. QED
      BY <2>2, <3>1, <3>2, <3>3, <1>2, <1>9, <1>11
  <2>3. QED
    BY <2>1, <2>2, <1>7, <1>12
<1>16. ASSUME leafTime'[l] > 0
       PROVE  /\ \A u \in UpdatesOf(l)' : u.ts <= leafTime'[l]
              /\ \E u \in UpdatesOf(l)' : u.ts = leafTime'[l] /\ u.update[l] = value'[l]
  <2>1. m > 0 /\ Alive(m) /\ leafTime'[l] = m /\ l \notin Removed(n)
    BY <1>16, <1>12, <1>13, <1>3
  <2>2. ASSUME NEW u \in UpdatesOf(l)' PROVE u.ts <= m
    <3>1. u.ts \in Nat
      BY <1>2 DEF UpdatesOf
    <3>2. u.ts > m => Fresh(l, u.ts)
      BY <3>1, <2>1, <1>9, <1>11
    <3>3. QED
      BY <3>1, <3>2, <2>1, <1>11, <1>14
  <2>3. QED
    BY <2>1, <2>2, <1>14
<1>17. QED
  BY <1>15, <1>16

\* observed_at stays above the leaves it covers.
LEMMA ObservedStep ==
    ASSUME IInv, NEW n \in Notification, Apply(n)
    PROVE  ObservedAtCoversLeaves' /\ TimesBounded'
<1> USE DEF IInv
<1>1. /\ leafTime' = Remaining(n)
      /\ observedAt' = Observed(n)
      /\ seen' = seen \cup {n}
  BY DEF Apply
<1>2. TimesBounded'
  BY <1>1, BoundedStep DEF TimesBounded
<1>3. ASSUME NEW l \in Held(leafTime')
      PROVE  leafTime'[l] <= observedAt'[Owner[l]]
  <2>1. l \in Leaf /\ Owner[l] \in Key /\ Remaining(n)[l] > 0
    BY <1>1, CacheAssumption DEF CacheAssumption, Held
  <2>2. Owner[l] \in Live(Remaining(n)) /\ l \in LeavesOf(Owner[l])
    BY <2>1 DEF Live, Held, LeavesOf
  <2>3. QED
    BY <1>1, <2>1, <2>2, ObservedCovers
<1>4. ASSUME NEW l \in Leaf, Merged(n)[l] > 0
      PROVE  \E u \in seen' : Merged(n)[l] = u.ts
  <2>1. CASE l \in Accepted(n)
    BY <2>1, <1>1 DEF Merged
  <2>2. CASE l \notin Accepted(n)
    <3>1. Merged(n)[l] = leafTime[l]
      BY <2>2 DEF Merged
    <3>2. PICK u \in UpdatesOf(l) : u.ts = leafTime[l]
      BY <3>1, <1>4 DEF HeldIsNewest
    <3>3. QED
      BY <1>1, <3>1, <3>2 DEF UpdatesOf
  <2>3. QED
    BY <2>1, <2>2
<1>5. ASSUME NEW k \in Live(leafTime')
      PROVE  \E u \in seen' : observedAt'[k] = u.ts
  <2>1. k \in Key /\ k \in Live(Remaining(n))
    BY <1>1 DEF Live
  <2>2. \/ Observed(n)[k] = observedAt[k] /\ k \in Live(leafTime)
        \/ Observed(n)[k] = n.ts
        \/ \E l \in Leaf : Merged(n)[l] > 0 /\ Observed(n)[k] = Merged(n)[l]
    BY <2>1, ObservedCovers
  <2>3. CASE Observed(n)[k] = observedAt[k] /\ k \in Live(leafTime)
    BY <2>3, <1>1 DEF ObservedAtCoversLeaves
  <2>4. CASE Observed(n)[k] = n.ts
    BY <2>4, <1>1
  <2>5. CASE \E l \in Leaf : Merged(n)[l] > 0 /\ Observed(n)[k] = Merged(n)[l]
    BY <2>5, <1>1, <1>4
  <2>6. QED
    BY <2>2, <2>3, <2>4, <2>5
<1>6. QED
  BY <1>2, <1>3, <1>5 DEF ObservedAtCoversLeaves

------------------------------------------------------------------------------
\* One step of the cache, or a stutter, keeps the inductive invariant.
THEOREM StepInv == IInv /\ [Next]_vars => IInv'
<1> SUFFICES ASSUME IInv, [Next]_vars PROVE IInv'
  OBVIOUS
<1>1. ASSUME NEW n \in Notification, Apply(n) PROVE IInv'
  <2>1. TypeOK'
    BY <1>1, TypeStep
  <2>2. TombstonesRemember'
    BY <1>1, TombstonesStep
  <2>3. HeldIsNewest'
    BY <1>1, <2>1, HeldStep
  <2>4. ObservedAtCoversLeaves' /\ TimesBounded'
    BY <1>1, ObservedStep
  <2>5. QED
    BY <2>1, <2>2, <2>3, <2>4 DEF IInv
<1>2. CASE UNCHANGED vars
  BY <1>2 DEF vars, IInv, TypeOK, TombstonesRemember, HeldIsNewest, Survives, Live,
              UpdatesOf, DeletesOf, ObservedAtCoversLeaves, TimesBounded, Held
<1>3. QED
  BY <1>1, <1>2 DEF Next

\* It holds in every state of every behaviour.
THEOREM Invariance == Spec => []IInv
<1>1. QED
  BY InitInv, StepInv, PTL DEF Spec

\* The dictionaries of the cache stay in step, for every device and every
\* sequence of notifications.
THEOREM TypeCorrect == Spec => []TypeOK
<1>1. IInv => TypeOK
  BY DEF IInv
<1>2. QED
  BY <1>1, Invariance, PTL

\* Which leaves the cache holds, and their times, are a function of the set of
\* notifications received: no late, repeated or reordered notification
\* resurrects a deleted leaf or rolls a leaf back.  So are their values, but for
\* updates of one timestamp that disagree, of which it holds one.
THEOREM Convergence == Spec => []Converged
<1>1. ASSUME IInv, NEW l \in Leaf, leafTime[l] > 0
      PROVE  /\ \A u \in Newest(l) : u.ts = leafTime[l]
             /\ \E u \in Newest(l) : u.update[l] = value[l]
  <2>1. \A u \in UpdatesOf(l) : u.ts \in Nat
    BY <1>1, NotificationType DEF IInv, TypeOK, UpdatesOf
  <2>2. leafTime[l] \in Nat
    BY <1>1 DEF IInv, TypeOK
  <2>3. \A u \in UpdatesOf(l) : u.ts <= leafTime[l]
    BY <1>1 DEF IInv, HeldIsNewest
  <2>4. PICK w \in UpdatesOf(l) : w.ts = leafTime[l] /\ w.update[l] = value[l]
    BY <1>1 DEF IInv, HeldIsNewest
  <2>5. w \in Newest(l)
    BY <2>3, <2>4 DEF Newest
  <2>6. ASSUME NEW u \in Newest(l) PROVE u.ts = leafTime[l]
    <3>1. u \in UpdatesOf(l) /\ w.ts <= u.ts
      BY <2>4 DEF Newest
    <3>2. QED
      BY <3>1, <2>1, <2>2, <2>3, <2>4
  <2>7. QED
    BY <2>4, <2>5, <2>6
<1>2. ASSUME NEW l \in Leaf, NEW v, ~Tied(l), \E u \in Newest(l) : u.update[l] = v
      PROVE  \A u \in Newest(l) : u.update[l] = v
  BY <1>2 DEF Tied
<1>3. ASSUME IInv, NEW l \in Leaf PROVE leafTime[l] > 0 <=> Survives(l)
  BY <1>3 DEF IInv, HeldIsNewest
<1>4. IInv => Converged
  BY <1>1, <1>2, <1>3 DEF Converged
<1>5. QED
  BY <1>4, Invariance, PTL

\* observed_at is a time the device reported and covers the published leaves.
THEOREM ObservedAtCorrect == Spec => []ObservedAtCoversLeaves
<1>1. IInv => ObservedAtCoversLeaves
  BY DEF IInv
<1>2. QED
  BY <1>1, Invariance, PTL

------------------------------------------------------------------------------
\* An entity none of whose leaves was accepted or removed looks the same.
LEMMA UntouchedUnchanged ==
    ASSUME IInv, NEW n \in Notification, Apply(n), IInv',
           NEW k \in Key, k \notin Owners(Accepted(n) \cup Removed(n))
    PROVE  Snapshot(k)' = Snapshot(k)
<1>1. \A l \in LeavesOf(k) : l \notin Accepted(n) /\ l \notin Removed(n)
  BY DEF Owners, LeavesOf
<1>2. \A l \in LeavesOf(k) : leafTime'[l] = leafTime[l] /\ value'[l] = value[l]
  BY <1>1 DEF Apply, Remaining, Merged, Stored, LeavesOf
<1>3. k \in Live(leafTime') <=> k \in Live(leafTime)
  BY <1>2 DEF Live, Held, LeavesOf
<1>4. k \in Live(leafTime) => observedAt'[k] = observedAt[k]
  <2>1. k \notin Owners(Accepted(n)) /\ k \notin Owners(Removed(n))
    BY DEF Owners
  <2>2. AfterDeletes(n, k) = observedAt[k]
    BY <2>1 DEF AfterDeletes, AfterUpdates
  <2>3. QED
    BY <2>2, <1>3 DEF Apply, Observed
<1>5. [l \in LeavesOf(k) |-> value'[l]] = [l \in LeavesOf(k) |-> value[l]]
  BY <1>2
<1>6. Live(leafTime)' = Live(leafTime')
  BY DEF Live, Held
<1>7. QED
  BY <1>3, <1>4, <1>5, <1>6 DEF Snapshot, LeavesOf

\* StateCache implements CacheContract: whoever mirrors the reports of apply()
\* holds what snapshot() would return, and no entity vanishes in silence.
THEOREM Implements == Spec => ReportsEveryChange
<1>1. Init => Contract!Init
  BY DEF Init, Contract!Init, Snapshot, Live, Held
<1>2. ASSUME IInv, IInv', [Next]_vars PROVE [Contract!Next]_(Contract!vars)
  <2>1. ASSUME NEW n \in Notification, Apply(n) PROVE Contract!Next
    <3> DEFINE hit == Owners(Accepted(n) \cup Removed(n))
    <3>1. touched' = hit \cap Live(leafTime)' /\ gone' = hit \ Live(leafTime)'
      <4>1. Owners(Removed(n)) \subseteq hit
        BY DEF Owners
      <4>2. ASSUME NEW k \in hit, k \notin Live(Remaining(n))
            PROVE  k \in Owners(Removed(n))
        <5>1. PICK l \in Accepted(n) \cup Removed(n) : k = Owner[l]
          BY <4>2 DEF Owners
        <5>2. CASE l \in Removed(n)
          BY <5>1, <5>2 DEF Owners
        <5>3. CASE l \in Accepted(n) /\ l \notin Removed(n)
          <6>1. l \in Leaf /\ n.ts > 0 /\ Owner[l] \in Key
            BY <5>3, <1>2, MergeType, NotificationType, CacheAssumption
               DEF IInv, CacheAssumption
          <6>2. Remaining(n)[l] > 0
            BY <5>3, <6>1 DEF Remaining, Merged
          <6>3. k \in Live(Remaining(n))
            BY <5>1, <6>1, <6>2 DEF Live, Held
          <6>4. QED
            BY <6>3, <4>2
        <5>4. QED
          BY <5>1, <5>2, <5>3
      <4>3. Live(leafTime)' = Live(Remaining(n))
        BY <2>1 DEF Apply, Live, Held
      <4>4. QED
        BY <2>1, <4>1, <4>2, <4>3 DEF Apply
    <3>2. hit \subseteq Key
      BY <1>2, MergeType, CacheAssumption DEF IInv, CacheAssumption, Owners
    <3>3. \A k \in touched' : Snapshot(k)' # {} /\ k \notin gone'
      BY <3>1 DEF Snapshot
    <3>4. \A k \in gone' : Snapshot(k)' = {}
      BY <3>1 DEF Snapshot
    <3>5. \A k \in Key \ (touched' \cup gone') : Snapshot(k)' = Snapshot(k)
      BY <1>2, <2>1, <3>1, UntouchedUnchanged
    <3>6. touched' \subseteq Key /\ gone' \subseteq Key
      BY <3>1, <3>2
    <3>7. QED
      BY <3>3, <3>4, <3>5, <3>6 DEF Contract!Next, Contract!Report
  <2>2. CASE UNCHANGED vars
    BY <2>2 DEF vars, Contract!vars, Snapshot, Live, Held
  <2>3. QED
    BY <1>2, <2>1, <2>2 DEF Next
<1>3. QED
  BY <1>1, <1>2, Invariance, PTL DEF Spec, ReportsEveryChange, Contract!Spec
==============================================================================
