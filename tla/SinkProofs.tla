------------------------------ MODULE SinkProofs ------------------------------
(***************************************************************************)
(* The storage queue keeps the order of the history and is drained before  *)
(* its thread ends, for every capacity, any number of batches of any size  *)
(* and every moment the stop event or the end of the process may choose.   *)
(***************************************************************************)
EXTENDS SinkAccounting, TLAPS, SequenceTheorems, FiniteSetTheorems, WellFoundedInduction

Batch == [number : Nat, size : Nat]

SinkTypes == /\ queue \in Seq(Batch)
             /\ offered \in Seq(Nat)
             /\ written \subseteq Nat
             /\ lastBefore \in Nat
             /\ loop \in {"check", "get", "write", "exited", "killed"}

\* The thread holds a batch exactly while it writes.  Said of its place and not
\* of NoBatch, so that it holds whatever stands for no batch.
Holding == /\ loop = "write" => batch \in Batch
           /\ loop \notin {"write", "killed"} => batch = NoBatch
           /\ loop = "killed" => batch \in Batch \cup {NoBatch}

Busy == loop = "write" \/ (loop = "killed" /\ batch # NoBatch)

\* Batches move from the back of the queue to its front, into the hands of the
\* thread and into the history, and their numbers fall all along that way.
Ordered ==
    /\ \A i, j \in 1 .. Len(queue) : i < j => queue[i].number < queue[j].number
    /\ \A i \in 1 .. Len(queue) : queue[i].number <= Len(offered)
    /\ Busy => /\ batch.number <= Len(offered)
               /\ \A i \in 1 .. Len(queue) : batch.number < queue[i].number
               /\ \A n \in written : n < batch.number
    /\ \A n \in written : n <= Len(offered)
    /\ \A n \in written, i \in 1 .. Len(queue) : n < queue[i].number

\* What is queued after the thread has left came after its last look.
LateOnly ==
    /\ lastBefore <= Len(offered)
    /\ loop = "exited" => \A i \in 1 .. Len(queue) : queue[i].number > lastBefore

IInv == SinkTypes /\ Holding /\ Ordered /\ LateOnly

------------------------------------------------------------------------------
\* The invariant holds at the start.
THEOREM InitInv == Init => IInv
<1> SUFFICES ASSUME Init PROVE IInv
  OBVIOUS
<1>1. /\ queue = <<>> /\ batch = NoBatch /\ loop = "check"
      /\ offered = <<>> /\ written = {} /\ lastBefore = 0
  BY DEF Init, SinkInit
<1>2. SinkTypes /\ Holding
  BY <1>1 DEF SinkTypes, Holding
<1>3. Ordered /\ LateOnly
  BY <1>1 DEF Ordered, LateOnly, Busy
<1>4. QED
  BY <1>2, <1>3 DEF IInv

\* What the queue holds are batches.
LEMMA QueueElements ==
    ASSUME SinkTypes
    PROVE  /\ Len(queue) \in Nat /\ Len(offered) \in Nat
           /\ \A i \in 1 .. Len(queue) : queue[i] \in Batch /\ queue[i].number \in Nat
<1>1. \A i \in 1 .. Len(queue) : queue[i] \in Batch
  BY ElementOfSeq DEF SinkTypes
<1>2. QED
  BY <1>1 DEF SinkTypes, Batch

\* A batch put has the highest number of all.
LEMMA PutKeepsInv ==
    ASSUME IInv, NEW n \in 1 .. MaxSize, PutNext(n)
    PROVE  IInv'
<1> DEFINE b == [number |-> Len(offered) + 1, size |-> n]
<1>1. SinkTypes /\ Holding /\ Ordered /\ LateOnly
  BY DEF IInv
<1>2. n \in Nat /\ b \in Batch
  BY <1>1, BoundsAssumption, QueueElements DEF Batch
<1>3. /\ offered' \in Seq(Nat) /\ Len(offered') = Len(offered) + 1
      /\ UNCHANGED <<batch, loop, written, lastBefore>>
  BY <1>1, <1>2 DEF PutNext, Put, SinkTypes
<1>4. queue' = queue \/ queue' = Append(queue, b)
  BY DEF PutNext, Put
<1> HIDE DEF b
<1>5. /\ queue' \in Seq(Batch)
      /\ \A i \in 1 .. Len(queue') :
            \/ i \in 1 .. Len(queue) /\ queue'[i] = queue[i]
            \/ i = Len(queue) + 1 /\ queue'[i] = b
  <2>1. CASE queue' = queue
    BY <1>1, <2>1 DEF SinkTypes
  <2>2. CASE queue' = Append(queue, b)
    BY <1>1, <1>2, <2>2, AppendProperties DEF SinkTypes
  <2>3. QED
    BY <1>4, <2>1, <2>2
<1>6. /\ \A i \in 1 .. Len(queue) : queue[i].number \in Nat
      /\ b.number = Len(offered) + 1 /\ Len(offered) \in Nat /\ Len(queue) \in Nat
  BY <1>1, QueueElements DEF b
<1>7. Busy' => Busy /\ batch.number \in Nat
  BY <1>1, <1>3 DEF Busy, Holding, Batch
<1>8. SinkTypes' /\ Holding'
  BY <1>1, <1>3, <1>5 DEF SinkTypes, Holding
<1>9. Ordered'
  <2>1. ASSUME NEW i \in 1 .. Len(queue'), NEW j \in 1 .. Len(queue'), i < j
        PROVE  queue'[i].number < queue'[j].number
    <3>1. i \in 1 .. Len(queue) /\ queue'[i] = queue[i]
      BY <1>5, <1>6, <2>1
    <3>2. CASE j \in 1 .. Len(queue) /\ queue'[j] = queue[j]
      BY <1>1, <2>1, <3>1, <3>2 DEF Ordered
    <3>3. CASE queue'[j] = b
      BY <1>1, <1>6, <3>1, <3>3 DEF Ordered
    <3>4. QED
      BY <1>5, <3>2, <3>3
  <2>2. ASSUME NEW i \in 1 .. Len(queue')
        PROVE  /\ queue'[i].number <= Len(offered')
               /\ Busy' => batch'.number < queue'[i].number
               /\ \A m \in written' : m < queue'[i].number
    <3>1. CASE i \in 1 .. Len(queue) /\ queue'[i] = queue[i]
      BY <1>1, <1>3, <1>6, <1>7, <3>1 DEF Ordered
    <3>2. CASE queue'[i] = b
      BY <1>1, <1>3, <1>6, <1>7, <3>2 DEF Ordered, SinkTypes
    <3>3. QED
      BY <1>5, <3>1, <3>2
  <2>3. \A m \in written' : m <= Len(offered')
    BY <1>1, <1>3, <1>6 DEF Ordered, SinkTypes
  <2>4. Busy' => batch'.number <= Len(offered')
    BY <1>1, <1>3, <1>6, <1>7 DEF Ordered
  <2>5. Busy' => \A m \in written' : m < batch'.number
    BY <1>1, <1>3, <1>7 DEF Ordered
  <2>6. QED
    BY <2>1, <2>2, <2>3, <2>4, <2>5 DEF Ordered
<1>10. LateOnly'
  <2>1. ASSUME loop' = "exited", NEW i \in 1 .. Len(queue')
        PROVE  queue'[i].number > lastBefore'
    <3>1. lastBefore' = lastBefore /\ lastBefore \in Nat /\ lastBefore <= Len(offered)
      BY <1>1, <1>3 DEF LateOnly, SinkTypes
    <3>2. CASE i \in 1 .. Len(queue) /\ queue'[i] = queue[i]
      BY <1>1, <1>3, <2>1, <3>2 DEF LateOnly
    <3>3. CASE queue'[i] = b
      BY <1>6, <3>1, <3>3
    <3>4. QED
      BY <1>5, <3>2, <3>3
  <2>2. lastBefore' <= Len(offered')
    BY <1>1, <1>3, <1>6 DEF LateOnly, SinkTypes
  <2>3. QED
    BY <2>1, <2>2 DEF LateOnly
<1>11. QED
  BY <1>8, <1>9, <1>10 DEF IInv

\* The batch taken is the oldest of the queue, and newer than any written.
LEMMA GetKeepsInv ==
    ASSUME IInv, Get, UNCHANGED <<offered, written, lastBefore>>
    PROVE  IInv'
<1> USE DEF IInv, SinkTypes
<1>1. /\ queue # <<>> /\ batch' = Head(queue) /\ queue' = Tail(queue)
      /\ loop' = "write"
  BY DEF Get
<1>2. /\ queue' \in Seq(Batch) /\ Len(queue) \in Nat \ {0} /\ Len(queue') = Len(queue) - 1
      /\ batch' = queue[1] /\ batch' \in Batch
      /\ \A i \in 1 .. Len(queue') : queue'[i] = queue[i + 1]
  BY <1>1
<1>3. \A i \in 1 .. Len(queue) : queue[i].number \in Nat
  BY QueueElements
<1>4. Holding'
  BY <1>1, <1>2 DEF Holding
<1>5. Ordered'
  BY <1>1, <1>2, <1>3 DEF Ordered, Busy
<1>6. LateOnly'
  BY <1>1 DEF LateOnly
<1>7. QED
  BY <1>1, <1>2, <1>4, <1>5, <1>6

\* The batch written is newer than any written before and older than any queued.
LEMMA StoreKeepsInv ==
    ASSUME IInv, Busy, written' = written \cup {batch.number}, batch' = NoBatch,
           loop' = "check", UNCHANGED <<queue, offered, lastBefore>>
    PROVE  IInv'
<1>1. batch \in Batch /\ batch.number \in Nat
  BY DEF IInv, Holding, Busy, Batch
<1>2. Ordered'
  BY DEF IInv, SinkTypes, Ordered, Busy
<1>3. QED
  BY <1>1, <1>2 DEF IInv, SinkTypes, Holding, LateOnly, Busy

\* Every step keeps the invariant.
THEOREM StepInv == IInv /\ [Next]_vars => IInv'
<1> SUFFICES ASSUME IInv, [Next]_vars PROVE IInv'
  OBVIOUS
<1>1. ASSUME NEW n \in 1 .. MaxSize, PutNext(n) PROVE IInv'
  BY <1>1, PutKeepsInv
<1>2. CASE Stop
  BY <1>2 DEF Stop, ghosts, IInv, SinkTypes, Holding, Ordered, LateOnly, Busy
<1>3. CASE CheckLoop
  <2>1. /\ loop = "check" /\ loop' \in {"get", "exited"}
        /\ loop' = "exited" => queue = <<>>
        /\ lastBefore' = Len(offered)
        /\ UNCHANGED <<queue, batch, offered, written>>
    BY <1>3 DEF CheckLoop, Check
  <2>2. QED
    BY <2>1 DEF IInv, SinkTypes, Holding, Ordered, LateOnly, Busy
<1>4. CASE WrittenBatch
  BY <1>4, StoreKeepsInv DEF WrittenBatch, Written, Busy
<1>5. CASE Get /\ UNCHANGED <<stop, ghosts, index>>
  BY <1>5, GetKeepsInv DEF ghosts
<1>6. CASE GetTimeout /\ UNCHANGED <<stop, ghosts, index>>
  BY <1>6 DEF GetTimeout, ghosts, IInv, SinkTypes, Holding, Ordered, LateOnly, Busy
<1>7. CASE FailedBatch
  BY <1>7 DEF FailedBatch, Failed, IInv, SinkTypes, Holding, Ordered, LateOnly, Busy
<1>8. CASE ProcessEnds
  BY <1>8 DEF ProcessEnds, ghosts, IInv, SinkTypes, Holding, Ordered, LateOnly, Busy
<1>9. CASE \E n \in 1 .. MaxPuts : Index(n)
  BY <1>9 DEF Index, ghosts, IInv, SinkTypes, Holding, Ordered, LateOnly, Busy
<1>10. CASE UNCHANGED vars
  BY <1>10 DEF vars, ghosts, IInv, SinkTypes, Holding, Ordered, LateOnly, Busy
<1>11. QED
  BY <1>1, <1>2, <1>3, <1>4, <1>5, <1>6, <1>7, <1>8, <1>9, <1>10 DEF Next, Thread

\* It holds in every state of every behaviour.
THEOREM Invariance == Spec => []IInv
<1>1. QED
  BY InitInv, StepInv, PTL DEF Spec

\* The loop condition of run() is "not stopped or something left": nothing put
\* before the thread's last look is left behind.
THEOREM Drained == Spec => []DrainedBeforeExit
<1>1. IInv => DrainedBeforeExit
  BY DEF IInv, LateOnly, DrainedBeforeExit, Queued
<1>2. QED
  BY <1>1, Invariance, PTL

------------------------------------------------------------------------------
(* What Total adds up.  FoldSet is a recursive function on the subsets of  *)
(* a set; that it exists, and that the order in which it takes the members *)
(* does not matter, follows from smallest counterexamples.                 *)

Pick(s) == CHOOSE x \in s : TRUE

\* g is the function FoldSet defines by recursion on the subsets of U.
Sums(g, w, U) ==
    g = [s \in SUBSET U |-> IF s = {} THEN 0 ELSE g[s \ {Pick(s)}] + w[Pick(s)]]

\* The definition of FoldSet, unfolded.
LEMMA TotalUnfolds ==
    ASSUME NEW w, NEW S
    PROVE  Total(w, S) = (CHOOSE g : Sums(g, w, S))[S]
BY DEF Total, FoldSet, MapThenFoldSet, Sums, Pick

\* Of a set with members it chooses one of them.
LEMMA PickIn == \A s : s # {} => Pick(s) \in s
BY DEF Pick

\* The induction all the rest is made by: among subsets of a finite set there
\* is a smallest one.
LEMMA MinimalSubset ==
    ASSUME NEW U, IsFiniteSet(U), NEW T \in SUBSET (SUBSET U), T # {}
    PROVE  \E m \in T : \A s \in T : s \subseteq m => s = m
<1>1. IsWellFoundedOn(StrictSubsetOrdering(U), SUBSET U)
  BY FS_StrictSubsetOrderingWellFounded, FS_FiniteSubsetsOfFinite
<1>2. PICK m \in T : \A s \in T : ~ (<<s, m>> \in StrictSubsetOrdering(U))
  BY <1>1, WFMin
<1>3. QED
  BY <1>2 DEF StrictSubsetOrdering

\* Two such functions agree where both are defined.
LEMMA SumsUnique ==
    ASSUME NEW w, NEW U, NEW V, IsFiniteSet(U), NEW g, NEW h,
           Sums(g, w, U), Sums(h, w, V), NEW s \in (SUBSET U) \cap (SUBSET V)
    PROVE  g[s] = h[s]
<1> DEFINE T == {t \in SUBSET U : t \subseteq V /\ g[t] # h[t]}
<1>1. SUFFICES ASSUME T # {} PROVE FALSE
  OBVIOUS
<1>2. PICK m \in T : \A t \in T : t \subseteq m => t = m
  <2>1. T \in SUBSET (SUBSET U)
    OBVIOUS
  <2> HIDE DEF T
  <2>2. QED
    BY <1>1, <2>1, MinimalSubset
<1>3. g[m] = IF m = {} THEN 0 ELSE g[m \ {Pick(m)}] + w[Pick(m)]
  BY DEF Sums
<1>4. h[m] = IF m = {} THEN 0 ELSE h[m \ {Pick(m)}] + w[Pick(m)]
  BY DEF Sums
<1>5. m # {} => g[m \ {Pick(m)}] = h[m \ {Pick(m)}]
  BY <1>2, PickIn
<1>6. QED
  BY <1>3, <1>4, <1>5

\* There is such a function for every finite set.
LEMMA SumsExist ==
    ASSUME NEW w, NEW S, IsFiniteSet(S)
    PROVE  \E g : Sums(g, w, S)
<1> DEFINE T == {U \in SUBSET S : ~ \E g : Sums(g, w, U)}
           f(U) == CHOOSE g : Sums(g, w, U)
<1>1. SUFFICES ASSUME T # {} PROVE FALSE
  OBVIOUS
<1>2. PICK m \in T : \A t \in T : t \subseteq m => t = m
  <2>1. T \in SUBSET (SUBSET S)
    OBVIOUS
  <2> HIDE DEF T
  <2>2. QED
    BY <1>1, <2>1, MinimalSubset
<1>3. \A U \in SUBSET m : U # m => Sums(f(U), w, U)
  <2> SUFFICES ASSUME NEW U \in SUBSET m, U # m PROVE Sums(f(U), w, U)
    OBVIOUS
  <2>1. \E g : Sums(g, w, U)
    BY <1>2
  <2>2. QED
    BY <2>1
<1> HIDE DEF f
<1> DEFINE G == [s \in SUBSET m |->
                   IF s = {} THEN 0 ELSE f(s \ {Pick(s)})[s \ {Pick(s)}] + w[Pick(s)]]
<1>4. \A U \in SUBSET m : U # m => f(U)[U] = G[U]
  <2> SUFFICES ASSUME NEW U \in SUBSET m, U # m PROVE f(U)[U] = G[U]
    OBVIOUS
  <2>1. CASE U = {}
    <3>1. f(U)[U] = 0
      BY <1>3, <2>1 DEF Sums
    <3>2. QED
      BY <3>1, <2>1
  <2>2. CASE U # {}
    <3> DEFINE V == U \ {Pick(U)}
    <3>1. V \in SUBSET U /\ V # m /\ V \in SUBSET m /\ Pick(U) \in U
      BY <2>2, PickIn
    <3>2. Sums(f(U), w, U) /\ Sums(f(V), w, V)
      BY <1>3, <3>1
    <3>3. f(U)[U] = f(U)[V] + w[Pick(U)]
      BY <2>2, <3>2 DEF Sums
    <3>4. IsFiniteSet(U) /\ V \in (SUBSET U) \cap (SUBSET V)
      BY <3>1, FS_Subset
    <3>5. f(U)[V] = f(V)[V]
      <4> HIDE DEF V
      <4> QED BY <3>2, <3>4, SumsUnique
    <3>6. QED
      BY <2>2, <3>3, <3>5
  <2>3. QED
    BY <2>1, <2>2
<1>5. \A s \in SUBSET m : s # {} => s \ {Pick(s)} \in SUBSET m /\ s \ {Pick(s)} # m
  BY PickIn
<1>6. \A s \in SUBSET m : s # {} => f(s \ {Pick(s)})[s \ {Pick(s)}] = G[s \ {Pick(s)}]
  BY <1>4, <1>5
<1>7. G = [s \in SUBSET m |-> IF s = {} THEN 0 ELSE G[s \ {Pick(s)}] + w[Pick(s)]]
  <2> DEFINE H == [s \in SUBSET m |-> IF s = {} THEN 0 ELSE G[s \ {Pick(s)}] + w[Pick(s)]]
  <2>1. \A s \in SUBSET m : G[s] = H[s]
    BY <1>6
  <2>2. QED
    BY <2>1
<1>8. Sums(G, w, m)
  BY <1>7 DEF Sums
<1>9. QED
  BY <1>8

\* What FoldSet computes: nothing for no element, and one element more.
LEMMA TotalStep ==
    ASSUME NEW w, NEW S, IsFiniteSet(S)
    PROVE  /\ Total(w, {}) = 0
           /\ S # {} => Total(w, S) = Total(w, S \ {Pick(S)}) + w[Pick(S)]
<1> DEFINE f(U) == CHOOSE g : Sums(g, w, U)
<1>1. \A U : IsFiniteSet(U) => Sums(f(U), w, U)
  BY SumsExist
<1>2. \A U : Total(w, U) = f(U)[U]
  BY TotalUnfolds
<1> HIDE DEF f
<1>3. Total(w, {}) = 0
  <2>1. Sums(f({}), w, {})
    BY <1>1, FS_EmptySet
  <2>2. f({})[{}] = 0
    BY <2>1 DEF Sums
  <2>3. QED
    BY <1>2, <2>2
<1>4. ASSUME S # {} PROVE Total(w, S) = Total(w, S \ {Pick(S)}) + w[Pick(S)]
  <2> DEFINE V == S \ {Pick(S)}
  <2>1. IsFiniteSet(V) /\ V \in (SUBSET S) \cap (SUBSET V)
    BY FS_Subset
  <2>2. f(S)[S] = f(S)[V] + w[Pick(S)]
    BY <1>1, <1>4 DEF Sums
  <2>3. f(S)[V] = f(V)[V]
    <3> HIDE DEF V
    <3>1. Sums(f(S), w, S) /\ Sums(f(V), w, V)
      BY <1>1, <2>1
    <3>2. QED
      BY <2>1, <3>1, SumsUnique
  <2>4. QED
    BY <1>2, <2>2, <2>3
<1>5. QED
  BY <1>3, <1>4

\* Only the weights of the members count.
LEMMA TotalDependsOnMembers ==
    ASSUME NEW w, NEW v, NEW S, IsFiniteSet(S), \A x \in S : w[x] = v[x]
    PROVE  Total(w, S) = Total(v, S)
<1> DEFINE T == {U \in SUBSET S : Total(w, U) # Total(v, U)}
<1>1. SUFFICES ASSUME T # {} PROVE FALSE
  OBVIOUS
<1>2. PICK m \in T : \A t \in T : t \subseteq m => t = m
  <2>1. T \in SUBSET (SUBSET S)
    OBVIOUS
  <2> HIDE DEF T
  <2>2. QED
    BY <1>1, <2>1, MinimalSubset
<1>3. IsFiniteSet(m) /\ m \subseteq S
  BY FS_Subset
<1>4. m # {}
  BY TotalStep, FS_EmptySet
<1>5. Pick(m) \in m /\ m \ {Pick(m)} \notin T
  BY <1>2, <1>4, PickIn
<1>6. Total(w, m \ {Pick(m)}) = Total(v, m \ {Pick(m)}) /\ w[Pick(m)] = v[Pick(m)]
  BY <1>3, <1>5
<1>7. Total(w, m) = Total(v, m)
  BY <1>3, <1>4, <1>6, TotalStep
<1>8. QED
  BY <1>7

\* A sum of natural numbers is one.
LEMMA TotalIsNat ==
    ASSUME NEW w, NEW S, IsFiniteSet(S), \A x \in S : w[x] \in Nat
    PROVE  Total(w, S) \in Nat
<1> DEFINE T == {U \in SUBSET S : Total(w, U) \notin Nat}
<1>1. SUFFICES ASSUME T # {} PROVE FALSE
  OBVIOUS
<1>2. PICK m \in T : \A t \in T : t \subseteq m => t = m
  <2>1. T \in SUBSET (SUBSET S)
    OBVIOUS
  <2> HIDE DEF T
  <2>2. QED
    BY <1>1, <2>1, MinimalSubset
<1>3. IsFiniteSet(m) /\ m \subseteq S
  BY FS_Subset
<1>4. m # {}
  <2>1. Total(w, {}) = 0
    BY TotalStep, FS_EmptySet
  <2>2. QED
    BY <2>1
<1>5. Pick(m) \in m /\ m \ {Pick(m)} \notin T
  BY <1>2, <1>4, PickIn
<1>6. Total(w, m \ {Pick(m)}) \in Nat /\ w[Pick(m)] \in Nat
  BY <1>3, <1>5
<1>7. Total(w, m) \in Nat
  BY <1>3, <1>4, <1>6, TotalStep
<1>8. QED
  BY <1>7

\* The order in which FoldSet takes the members does not matter: any new one adds
\* its weight.
LEMMA TotalAdds ==
    ASSUME NEW w, NEW D, IsFiniteSet(D), \A y \in D : w[y] \in Nat,
           NEW S \in SUBSET D, NEW x \in D, x \notin S
    PROVE  Total(w, S \cup {x}) = Total(w, S) + w[x]
<1> DEFINE T == {U \in SUBSET D : \E y \in D \ U :
                                    Total(w, U \cup {y}) # Total(w, U) + w[y]}
<1>1. SUFFICES ASSUME T # {} PROVE FALSE
  OBVIOUS
<1>2. PICK m \in T : \A t \in T : t \subseteq m => t = m
  <2>1. T \in SUBSET (SUBSET D)
    OBVIOUS
  <2> HIDE DEF T
  <2>2. QED
    BY <1>1, <2>1, MinimalSubset
<1>3. PICK z \in D \ m : Total(w, m \cup {z}) # Total(w, m) + w[z]
  OBVIOUS
<1>4. \A U \in SUBSET m : U # m =>
         \A y \in D \ U : Total(w, U \cup {y}) = Total(w, U) + w[y]
  BY <1>2
<1>5. m \subseteq D
  OBVIOUS
<1> HIDE DEF T
<1>6. IsFiniteSet(m \cup {z}) /\ m \cup {z} # {}
  BY <1>5, FS_Subset, FS_AddElement
<1> DEFINE c == Pick(m \cup {z})
           V == m \ {c}
<1>7. c \in m \cup {z}
  BY PickIn
<1>8. Total(w, m \cup {z}) = Total(w, (m \cup {z}) \ {c}) + w[c]
  BY <1>6, TotalStep
<1> HIDE DEF c
<1>9. CASE c = z
  <2>1. (m \cup {z}) \ {c} = m
    BY <1>9
  <2>2. QED
    BY <1>3, <1>8, <1>9, <2>1
<1>10. CASE c # z
  <2>1. c \in m /\ V \in SUBSET m /\ V # m /\ c \notin V /\ z \notin V
    BY <1>7, <1>10
  <2>2. (m \cup {z}) \ {c} = V \cup {z} /\ V \cup {c} = m
    BY <1>10, <2>1
  <2> HIDE DEF V
  <2>3. Total(w, V \cup {z}) = Total(w, V) + w[z]
    BY <1>4, <2>1
  <2>4. Total(w, V \cup {c}) = Total(w, V) + w[c]
    BY <1>4, <1>5, <2>1
  <2>5. Total(w, V) \in Nat /\ w[z] \in Nat /\ w[c] \in Nat
    <3>1. V \subseteq D /\ c \in D
      BY <1>5, <2>1
    <3>2. QED
      BY <3>1, FS_Subset, TotalIsNat
  <2>6. Total(w, m \cup {z}) = (Total(w, V) + w[z]) + w[c]
    BY <1>8, <2>2, <2>3
  <2>7. Total(w, m) = Total(w, V) + w[c]
    BY <2>2, <2>4
  <2>8. (Total(w, V) + w[z]) + w[c] = (Total(w, V) + w[c]) + w[z]
    BY <2>5
  <2>9. QED
    BY <1>3, <2>6, <2>7, <2>8
<1>11. QED
  BY <1>9, <1>10

------------------------------------------------------------------------------
(* The counter.                                                            *)

Kept == written \cup InHand \cup Queued

\* What is queued or in hand is a batch offered, with its length.
Sizes == /\ \A i \in 1 .. Len(queue) : /\ queue[i].number \in 1 .. Len(offered)
                                       /\ queue[i].size = offered[queue[i].number]
         /\ loop = "write" => /\ batch.number \in 1 .. Len(offered)
                              /\ batch.size = offered[batch.number]

AccountInv == Sizes /\ Accounted

\* In the hands of the thread is what it is about to write, and nothing else.
LEMMA HandFacts ==
    ASSUME IInv
    PROVE  /\ loop = "write" => InHand = {batch.number}
           /\ loop \notin {"write", "killed"} => InHand = {}
BY NoBatchAssumption DEF IInv, Holding, InHand, Batch

\* Nothing was lost: the counter may stay as it is.
LEMMA NothingLost ==
    ASSUME AccountInv, UNCHANGED <<offered, dropped>>, Kept' = Kept
    PROVE  Accounted'
BY DEF AccountInv, Accounted, Lost, Kept

\* One batch was lost, and counted.
LEMMA OneLost ==
    ASSUME IInv, AccountInv, NEW k \in 1 .. Len(offered)', k \notin Lost,
           offered' \in Seq(Nat), \A n \in Lost : offered'[n] = offered[n],
           Lost' = Lost \cup {k}, dropped' = dropped + offered'[k]
    PROVE  Accounted'
<1> DEFINE D == 1 .. Len(offered')
<1>1. Len(offered') \in Nat /\ \A y \in D : offered'[y] \in Nat
  BY ElementOfSeq
<1>2. IsFiniteSet(D)
  BY <1>1, FS_Interval
<1>3. Lost' \subseteq D /\ Lost \in SUBSET D /\ k \in D
  BY DEF Lost
<1>4. IsFiniteSet(Lost)
  BY <1>2, <1>3, FS_Subset
<1>5. Total(offered', Lost) = Total(offered, Lost)
  BY <1>4, TotalDependsOnMembers
<1>6. Total(offered', Lost \cup {k}) = Total(offered', Lost) + offered'[k]
  <2> HIDE DEF D
  <2>1. QED
    BY <1>1, <1>2, <1>3, TotalAdds
<1>7. QED
  BY <1>5, <1>6 DEF AccountInv, Accounted

\* A batch put to a full queue is lost and counted, otherwise it is queued.
LEMMA PutAccounts ==
    ASSUME IInv, AccountInv, NEW n \in 1 .. MaxSize, PutNext(n)
    PROVE  AccountInv'
<1> DEFINE k == Len(offered) + 1
           b == [number |-> k, size |-> n]
<1>1. /\ SinkTypes /\ Ordered /\ Sizes
      /\ n \in Nat /\ Len(offered) \in Nat /\ Len(queue) \in Nat
  BY BoundsAssumption DEF IInv, SinkTypes, AccountInv
<1>2. /\ offered' = Append(offered, n)
      /\ UNCHANGED <<batch, loop, written>>
      /\ loop # "killed"
      /\ \/ queue' = queue /\ dropped' = dropped + n
         \/ queue' = Append(queue, b) /\ dropped' = dropped
  BY DEF PutNext, Put, BatchSize
<1>3. /\ offered' \in Seq(Nat) /\ Len(offered') = k
      /\ \A i \in 1 .. Len(offered) : offered'[i] = offered[i]
      /\ offered'[k] = n
  BY <1>1, <1>2, AppendProperties DEF SinkTypes
<1>4. InHand' = InHand
  BY <1>2 DEF InHand
<1>5. k \notin written \cup InHand \cup Queued
  <2>1. k \notin written
    BY <1>1 DEF Ordered, SinkTypes
  <2>2. k \notin InHand
    BY <1>1, <1>2, HandFacts DEF Ordered, Busy, IInv, SinkTypes, Sizes
  <2>3. k \notin Queued
    BY <1>1 DEF Queued, Sizes
  <2>4. QED
    BY <2>1, <2>2, <2>3
<1> HIDE DEF k
<1>6. k \in 1 .. Len(offered)' /\ (1 .. Len(offered))' = 1 .. Len(offered) \cup {k}
  BY <1>1, <1>3 DEF k
<1>7. CASE queue' = queue /\ dropped' = dropped + n
  <2>1. Sizes'
    BY <1>1, <1>2, <1>3, <1>6, <1>7 DEF Sizes
  <2>2. Lost' = Lost \cup {k} /\ k \notin Lost
    BY <1>2, <1>4, <1>5, <1>6, <1>7 DEF Lost, Queued, k
  <2>3. \A m \in Lost : offered'[m] = offered[m]
    BY <1>3 DEF Lost
  <2>4. Accounted'
    BY <1>3, <1>6, <1>7, <2>2, <2>3, OneLost
  <2>5. QED
    BY <2>1, <2>4 DEF AccountInv
<1>8. CASE queue' = Append(queue, b) /\ dropped' = dropped
  <2>1. b \in Batch
    BY <1>1 DEF Batch, k
  <2>2. /\ Len(queue') = Len(queue) + 1
        /\ \A i \in 1 .. Len(queue) : queue'[i] = queue[i]
        /\ queue'[Len(queue) + 1] = b
    BY <1>1, <1>8, <2>1, AppendProperties DEF SinkTypes
  <2>3. b.number = k /\ b.size = n
    OBVIOUS
  <2> HIDE DEF b
  <2>4. Sizes'
    <3>1. ASSUME NEW i \in 1 .. Len(queue')
          PROVE  /\ queue'[i].number \in 1 .. Len(offered')
                 /\ queue'[i].size = offered'[queue'[i].number]
      <4>1. CASE i \in 1 .. Len(queue)
        <5>1. queue'[i] = queue[i] /\ queue[i].number \in 1 .. Len(offered)
          BY <1>1, <2>2, <4>1 DEF Sizes
        <5>2. QED
          BY <1>1, <1>3, <1>6, <4>1, <5>1 DEF Sizes
      <4>2. CASE i = Len(queue) + 1
        BY <1>3, <1>6, <2>2, <2>3, <4>2
      <4>3. QED
        BY <1>1, <2>2, <4>1, <4>2
    <3>2. loop' = "write" => /\ batch'.number \in 1 .. Len(offered')
                             /\ batch'.size = offered'[batch'.number]
      BY <1>1, <1>2, <1>3, <1>6 DEF Sizes
    <3>3. QED
      BY <3>1, <3>2 DEF Sizes
  <2>5. Queued' = Queued \cup {k}
    BY <1>1, <2>2, <2>3 DEF Queued
  <2>6. Lost' = Lost
    BY <1>2, <1>4, <1>5, <1>6, <2>5 DEF Lost
  <2>7. Total(offered', Lost) = Total(offered, Lost)
    <3>1. IsFiniteSet(Lost)
      <4>1. IsFiniteSet(1 .. Len(offered)) /\ Lost \in SUBSET (1 .. Len(offered))
        BY <1>1, FS_Interval DEF Lost
      <4>2. QED
        BY <4>1, FS_Subset
    <3>2. \A m \in Lost : offered'[m] = offered[m]
      BY <1>3 DEF Lost
    <3>3. QED
      BY <3>1, <3>2, TotalDependsOnMembers
  <2>8. QED
    BY <1>8, <2>4, <2>6, <2>7 DEF AccountInv, Accounted
<1>9. QED
  BY <1>2, <1>7, <1>8

\* The batch taken is no longer queued, but in hand.
LEMMA GetAccounts ==
    ASSUME IInv, AccountInv, Get, UNCHANGED <<offered, written, lastBefore>>
    PROVE  AccountInv'
<1>1. /\ queue # <<>> /\ batch' = Head(queue) /\ queue' = Tail(queue)
      /\ loop = "get" /\ loop' = "write" /\ dropped' = dropped
  BY DEF Get
<1>2. /\ Len(queue) \in Nat \ {0} /\ Len(queue') = Len(queue) - 1
      /\ batch' = queue[1] /\ batch' \in Batch
      /\ \A i \in 1 .. Len(queue') : queue'[i] = queue[i + 1]
  BY <1>1 DEF IInv, SinkTypes
<1>3. Sizes'
  BY <1>1, <1>2 DEF AccountInv, Sizes
<1>4. InHand = {} /\ InHand' = {queue[1].number}
  <2>1. InHand = {}
    BY <1>1, HandFacts
  <2>2. batch' # NoBatch
    BY <1>2, NoBatchAssumption DEF Batch
  <2>3. QED
    BY <1>2, <2>1, <2>2 DEF InHand
<1>5. Queued = Queued' \cup {queue[1].number}
  <2>1. \A i \in 1 .. Len(queue) : i = 1 \/ (i - 1 \in 1 .. Len(queue') /\ queue[i] = queue'[i - 1])
    BY <1>2
  <2>2. \A i \in 1 .. Len(queue') : i + 1 \in 1 .. Len(queue) /\ queue'[i] = queue[i + 1]
    BY <1>2
  <2>3. 1 \in 1 .. Len(queue)
    BY <1>2
  <2>4. QED
    BY <2>1, <2>2, <2>3 DEF Queued
<1>6. Kept' = Kept
  BY <1>4, <1>5 DEF Kept
<1>7. Accounted'
  BY <1>1, <1>6, NothingLost
<1>8. QED
  BY <1>3, <1>7 DEF AccountInv

\* A batch that could not be written is lost and counted.
LEMMA FailedAccounts ==
    ASSUME IInv, AccountInv, Failed, UNCHANGED <<offered, written>>
    PROVE  AccountInv'
<1> DEFINE k == batch.number
<1>1. /\ loop = "write" /\ batch' = NoBatch /\ loop' = "check"
      /\ dropped' = dropped + batch.size /\ queue' = queue
  BY DEF Failed, BatchSize
<1>2. k \in 1 .. Len(offered) /\ batch.size = offered[k]
  BY <1>1 DEF AccountInv, Sizes
<1>3. InHand = {k} /\ InHand' = {}
  BY <1>1, HandFacts DEF InHand
<1>4. k \notin written /\ k \notin Queued
  <2>1. k \in Nat /\ Ordered /\ Busy
    BY <1>1, <1>2 DEF IInv, Busy
  <2>2. (\A m \in written : m < k) /\ \A i \in 1 .. Len(queue) : k < queue[i].number
    BY <2>1 DEF Ordered
  <2>3. QED
    BY <2>1, <2>2 DEF Queued
<1> HIDE DEF k
<1>5. Lost' = Lost \cup {k} /\ k \notin Lost
  BY <1>1, <1>2, <1>3, <1>4 DEF Lost, Queued
<1>6. Accounted'
  BY <1>1, <1>2, <1>5, OneLost DEF IInv, SinkTypes
<1>7. Sizes'
  BY <1>1 DEF AccountInv, Sizes
<1>8. QED
  BY <1>6, <1>7 DEF AccountInv

\* A batch stored is no longer in hand.
LEMMA StoreAccounts ==
    ASSUME IInv, AccountInv, batch # NoBatch, written' = written \cup {batch.number},
           batch' = NoBatch, loop' = "check",
           UNCHANGED <<queue, offered, dropped>>
    PROVE  AccountInv'
<1>1. Kept' = Kept
  BY DEF Kept, InHand, Queued
<1>2. Accounted'
  BY <1>1, NothingLost
<1>3. Sizes'
  BY DEF AccountInv, Sizes
<1>4. QED
  BY <1>2, <1>3 DEF AccountInv

\* Steps that move no batch.
LEMMA OthersAccount ==
    ASSUME IInv, AccountInv, UNCHANGED <<queue, batch, offered, written, dropped>>,
           loop' = loop \/ loop' # "write"
    PROVE  AccountInv'
<1>1. Kept' = Kept
  BY DEF Kept, InHand, Queued
<1>2. Accounted'
  BY <1>1, NothingLost
<1>3. Sizes'
  BY DEF AccountInv, Sizes
<1>4. QED
  BY <1>2, <1>3 DEF AccountInv

\* The counter is exact at the start.
LEMMA InitAccounts == Init => AccountInv
<1> SUFFICES ASSUME Init PROVE AccountInv
  OBVIOUS
<1>1. /\ queue = <<>> /\ batch = NoBatch /\ loop = "check" /\ dropped = 0
      /\ offered = <<>> /\ written = {}
  BY DEF Init, SinkInit
<1>2. Lost = {}
  BY <1>1 DEF Lost
<1>3. Total(offered, Lost) = 0
  BY <1>2, FS_EmptySet, TotalStep
<1>4. QED
  BY <1>1, <1>3 DEF AccountInv, Accounted, Sizes

\* Every step keeps it exact.
LEMMA StepAccounts == IInv /\ AccountInv /\ [Next]_vars => AccountInv'
<1> SUFFICES ASSUME IInv, AccountInv, [Next]_vars PROVE AccountInv'
  OBVIOUS
<1>1. ASSUME NEW n \in 1 .. MaxSize, PutNext(n) PROVE AccountInv'
  BY <1>1, PutAccounts
<1>2. CASE Stop
  BY <1>2, OthersAccount DEF Stop, ghosts
<1>3. CASE CheckLoop
  BY <1>3, OthersAccount DEF CheckLoop, Check
<1>4. CASE WrittenBatch
  <2>1. batch # NoBatch
    BY <1>4, NoBatchAssumption DEF WrittenBatch, Written, IInv, Holding, Batch
  <2>2. QED
    BY <1>4, <2>1, StoreAccounts DEF WrittenBatch, Written
<1>5. CASE Get /\ UNCHANGED <<stop, ghosts, index>>
  BY <1>5, GetAccounts DEF ghosts
<1>6. CASE GetTimeout /\ UNCHANGED <<stop, ghosts, index>>
  BY <1>6, OthersAccount DEF GetTimeout, ghosts
<1>7. CASE FailedBatch
  BY <1>7, FailedAccounts DEF FailedBatch
<1>8. CASE ProcessEnds
  BY <1>8, OthersAccount DEF ProcessEnds, ghosts
<1>9. CASE \E n \in 1 .. MaxPuts : Index(n)
  BY <1>9, OthersAccount DEF Index, ghosts
<1>10. CASE UNCHANGED vars
  BY <1>10, OthersAccount DEF vars, ghosts
<1>11. QED
  BY <1>1, <1>2, <1>3, <1>4, <1>5, <1>6, <1>7, <1>8, <1>9, <1>10 DEF Next, Thread

\* collector_dropped_observations counts the observations of exactly those batches
\* that were neither written nor are queued or in hand: put() counts what a full
\* queue refuses, run() what the repository refuses, and nobody anything twice.
THEOREM CounterExact == Spec => []Accounted
<1>1. AccountInv => Accounted
  BY DEF AccountInv
<1>2. QED
  BY InitAccounts, StepAccounts, Invariance, <1>1, PTL DEF Spec

------------------------------------------------------------------------------
(* The history.                                                            *)

\* A batch whose write raised is behind the thread like one that was written, and
\* OpenSearch has documents of no other batch but the one in hand.  Only of a
\* batch whose write raised can one come behind a newer batch: the numbers of
\* all others rise on their way through the hands of the thread.
HistoryInv ==
    /\ refused \subseteq 1 .. Len(offered)
    /\ \A n \in refused : /\ n \notin written
                          /\ Busy => n < batch.number
                          /\ \A i \in 1 .. Len(queue) : n < queue[i].number
    /\ stored \subseteq written \cup refused \cup InHand
    /\ late \subseteq refused

\* The thread is busy with what is in its hand.
LEMMA HandIsBusy ==
    ASSUME IInv
    PROVE  /\ InHand = IF Busy THEN {batch.number} ELSE {}
           /\ Busy => batch.number \in Nat
<1>1. loop = "write" => batch # NoBatch
  BY NoBatchAssumption DEF IInv, Holding, Batch
<1>2. batch # NoBatch => Busy
  BY DEF IInv, SinkTypes, Holding, Busy
<1>3. Busy <=> batch # NoBatch
  BY <1>1, <1>2 DEF Busy
<1>4. Busy => batch.number \in Nat
  BY <1>3 DEF IInv, Holding, Busy, Batch
<1>5. QED
  BY <1>3, <1>4 DEF InHand

\* Nothing OpenSearch has is newer than what the thread holds, so a document of
\* that batch comes behind no newer one.
LEMMA HandIsNewest ==
    ASSUME IInv, HistoryInv, Busy, NEW m \in stored
    PROVE  m <= batch.number
<1>1. m \in written \cup refused \cup {batch.number}
  BY HandIsBusy DEF HistoryInv
<1>2. batch.number \in Nat
  BY HandIsBusy
<1>3. m \in written => m < batch.number /\ m \in Nat
  BY DEF IInv, Ordered, SinkTypes
<1>4. m \in refused => m < batch.number /\ m \in Nat
  BY DEF IInv, SinkTypes, HistoryInv
<1>5. QED
  BY <1>1, <1>2, <1>3, <1>4

\* A batch is put behind all that were.
LEMMA PutKeepsHistory ==
    ASSUME IInv, HistoryInv, NEW n \in 1 .. MaxSize, PutNext(n)
    PROVE  HistoryInv'
<1> DEFINE b == [number |-> Len(offered) + 1, size |-> n]
<1>1. /\ n \in Nat /\ b \in Batch /\ Len(offered) \in Nat /\ Len(queue) \in Nat
      /\ offered \in Seq(Nat) /\ queue \in Seq(Batch)
  BY BoundsAssumption DEF IInv, SinkTypes, Batch
<1>2. /\ offered' = Append(offered, n)
      /\ UNCHANGED <<batch, loop, written, refused, stored, late>>
      /\ queue' = queue \/ queue' = Append(queue, b)
  BY DEF PutNext, Put, index
<1>3. b.number = Len(offered) + 1
  OBVIOUS
<1> HIDE DEF b
<1>4. Len(offered') = Len(offered) + 1
  BY <1>1, <1>2
<1>5. \A i \in 1 .. Len(queue') : (i \in 1 .. Len(queue) /\ queue'[i] = queue[i]) \/ queue'[i] = b
  <2>1. CASE queue' = queue
    BY <2>1
  <2>2. CASE queue' = Append(queue, b)
    BY <1>1, <2>2, AppendProperties
  <2>3. QED
    BY <1>2, <2>1, <2>2
<1>6. refused' \subseteq 1 .. Len(offered')
  BY <1>1, <1>2, <1>4 DEF HistoryInv
<1>7. ASSUME NEW m \in refused', NEW i \in 1 .. Len(queue') PROVE m < queue'[i].number
  <2>1. m \in Nat /\ m < Len(offered) + 1
    BY <1>1, <1>2, <1>7 DEF HistoryInv
  <2>2. QED
    BY <1>2, <1>3, <1>5, <1>7, <2>1 DEF HistoryInv
<1>8. /\ \A m \in refused' : m \notin written' /\ (Busy' => m < batch'.number)
      /\ stored' \subseteq written' \cup refused' \cup InHand'
      /\ late' \subseteq refused'
  BY <1>2 DEF HistoryInv, Busy, InHand
<1>9. QED
  BY <1>6, <1>7, <1>8 DEF HistoryInv

\* What the thread takes is newer than what it has put behind it.
LEMMA GetKeepsHistory ==
    ASSUME IInv, HistoryInv, Get, UNCHANGED <<ghosts, index>>
    PROVE  HistoryInv'
<1>1. /\ queue # <<>> /\ batch' = Head(queue) /\ queue' = Tail(queue)
      /\ loop = "get" /\ loop' = "write"
      /\ UNCHANGED <<offered, written, refused, stored, late>>
  BY DEF Get, ghosts, index
<1>2. /\ Len(queue) \in Nat \ {0} /\ Len(queue') = Len(queue) - 1
      /\ batch' = queue[1] /\ \A i \in 1 .. Len(queue') : queue'[i] = queue[i + 1]
  BY <1>1 DEF IInv, SinkTypes
<1>3. InHand = {}
  BY <1>1, HandIsBusy DEF Busy
<1>4. QED
  BY <1>1, <1>2, <1>3 DEF HistoryInv, Busy

\* The write returned: all of the batch is stored, behind nothing newer.
LEMMA WriteKeepsHistory ==
    ASSUME IInv, AccountInv, HistoryInv, WrittenBatch
    PROVE  HistoryInv'
<1>1. /\ loop = "write" /\ loop' = "check" /\ batch' = NoBatch
      /\ written' = written \cup {batch.number} /\ stored' = stored \cup {batch.number}
      /\ UNCHANGED <<queue, offered, refused>>
  BY DEF WrittenBatch, Written, Indexed
<1>2. Busy /\ ~Busy'
  BY <1>1 DEF Busy
<1>3. InHand = {batch.number} /\ InHand' = {} /\ batch.number \in Nat
  BY <1>1, <1>2, HandIsBusy DEF InHand
<1>4. \A m \in stored : ~ (m > batch.number)
  <2> SUFFICES ASSUME NEW m \in stored PROVE ~ (m > batch.number)
    OBVIOUS
  <2>1. m <= batch.number
    BY <1>2, HandIsNewest
  <2>2. m \in Nat
    BY <1>3 DEF HistoryInv, IInv, SinkTypes
  <2>3. QED
    BY <1>3, <2>1, <2>2
<1>5. late' = late
  BY <1>4 DEF WrittenBatch, Indexed
<1>6. \A m \in refused : m # batch.number
  BY <1>2, <1>3 DEF HistoryInv
<1>7. QED
  BY <1>1, <1>2, <1>3, <1>5, <1>6 DEF HistoryInv

\* The write raised: the batch is left behind, with what of it may be stored.
LEMMA FailedKeepsHistory ==
    ASSUME IInv, AccountInv, HistoryInv, FailedBatch
    PROVE  HistoryInv'
<1>1. /\ loop = "write" /\ loop' = "check" /\ batch' = NoBatch
      /\ refused' = refused \cup {batch.number}
      /\ UNCHANGED <<queue, offered, written, stored, late>>
  BY DEF FailedBatch, Failed, index
<1>2. Busy /\ ~Busy'
  BY <1>1 DEF Busy
<1>3. InHand = {batch.number} /\ InHand' = {} /\ batch.number \in 1 .. Len(offered)
  BY <1>1, <1>2, HandIsBusy DEF InHand, AccountInv, Sizes
<1>4. /\ batch.number \notin written
      /\ \A i \in 1 .. Len(queue) : batch.number < queue[i].number
  BY <1>2, <1>3 DEF IInv, Ordered, SinkTypes
<1>5. QED
  BY <1>1, <1>2, <1>3, <1>4 DEF HistoryInv

\* What OpenSearch indexes is of the batch in hand, behind nothing newer, or of
\* one whose write raised.
LEMMA IndexKeepsHistory ==
    ASSUME IInv, HistoryInv, NEW n, Index(n)
    PROVE  HistoryInv'
<1>1. /\ n \in InHand \cup refused
      /\ stored' = stored \cup {n}
      /\ late' = IF \E m \in stored : m > n THEN late \cup {n} ELSE late
      /\ UNCHANGED <<queue, batch, loop, offered, written, refused>>
  BY DEF Index, Indexed, ghosts
<1>2. ASSUME n \notin refused PROVE late' = late
  <2>1. Busy /\ n = batch.number /\ n \in Nat
    BY <1>1, <1>2, HandIsBusy
  <2>2. ASSUME NEW m \in stored PROVE ~ (m > n)
    <3>1. m <= n
      BY <2>1, HandIsNewest
    <3>2. m \in Nat
      BY <2>1, HandIsBusy DEF HistoryInv, IInv, SinkTypes
    <3>3. QED
      BY <2>1, <3>1, <3>2
  <2>3. QED
    BY <1>1, <2>2
<1>3. late' \subseteq refused'
  BY <1>1, <1>2 DEF HistoryInv
<1>4. QED
  BY <1>1, <1>3 DEF HistoryInv, Busy, InHand

\* Steps that move no batch.
LEMMA OthersKeepHistory ==
    ASSUME IInv, HistoryInv, UNCHANGED <<queue, batch, offered, written, refused, index>>,
           Busy' => Busy
    PROVE  HistoryInv'
BY DEF HistoryInv, InHand, index

\* The history is in order at the start.
LEMMA InitHistory == Init => HistoryInv
BY DEF Init, SinkInit, HistoryInv, Busy

\* Every step keeps it in order.
LEMMA StepHistory == IInv /\ AccountInv /\ HistoryInv /\ [Next]_vars => HistoryInv'
<1> SUFFICES ASSUME IInv, AccountInv, HistoryInv, [Next]_vars PROVE HistoryInv'
  OBVIOUS
<1>1. ASSUME NEW n \in 1 .. MaxSize, PutNext(n) PROVE HistoryInv'
  BY <1>1, PutKeepsHistory
<1>2. CASE Stop
  BY <1>2, OthersKeepHistory DEF Stop, ghosts, Busy
<1>3. CASE CheckLoop
  BY <1>3, OthersKeepHistory DEF CheckLoop, Check, Busy
<1>4. CASE WrittenBatch
  BY <1>4, WriteKeepsHistory
<1>5. CASE Get /\ UNCHANGED <<stop, ghosts, index>>
  BY <1>5, GetKeepsHistory
<1>6. CASE GetTimeout /\ UNCHANGED <<stop, ghosts, index>>
  BY <1>6, OthersKeepHistory DEF GetTimeout, ghosts, Busy
<1>7. CASE FailedBatch
  BY <1>7, FailedKeepsHistory
<1>8. CASE ProcessEnds
  <2>1. Busy' => Busy
    BY <1>8 DEF ProcessEnds, Busy, IInv, SinkTypes, Holding
  <2>2. QED
    BY <1>8, <2>1, OthersKeepHistory DEF ProcessEnds, ghosts
<1>9. CASE \E n \in 1 .. MaxPuts : Index(n)
  BY <1>9, IndexKeepsHistory
<1>10. CASE UNCHANGED vars
  BY <1>10, OthersKeepHistory DEF vars, ghosts, Busy
<1>11. QED
  BY <1>1, <1>2, <1>3, <1>4, <1>5, <1>6, <1>7, <1>8, <1>9, <1>10 DEF Next, Thread

\* run() of class Sink takes the batches in the order put() was called and writes
\* one at a time.  So whatever OpenSearch has, nothing older is missing that the
\* drop counter does not count; and whatever it indexes of the requests of a
\* write, while it lasts or after it raised, what comes behind something newer
\* has been counted as dropped.
THEOREM HistoryInOrder == Spec => []StoredInOrder
<1>1. ASSUME IInv, AccountInv, HistoryInv PROVE StoredInOrder
  <2>1. ASSUME NEW m \in stored, NEW n \in 1 .. m - 1
        PROVE  n \in written \cup Lost
    <3>1. m \in Nat /\ n \in Nat /\ 1 <= n /\ n < m /\ Len(offered) \in Nat
      <4>1. Len(offered) \in Nat /\ written \subseteq Nat /\ refused \subseteq Nat
        BY <1>1 DEF HistoryInv, IInv, SinkTypes
      <4>2. InHand \subseteq Nat
        BY <1>1, HandIsBusy
      <4>3. m \in Nat
        BY <1>1, <2>1, <4>1, <4>2 DEF HistoryInv
      <4>4. QED
        BY <2>1, <4>1, <4>3
    <3>2. n \notin InHand
      BY <1>1, <3>1, HandIsBusy, HandIsNewest
    <3>3. \A i \in 1 .. Len(queue) : m < queue[i].number
      BY <1>1, HandIsBusy DEF HistoryInv, IInv, Ordered
    <3>4. n \notin Queued
      BY <1>1, <3>1, <3>3, QueueElements DEF Queued, IInv
    <3>5. m <= Len(offered)
      BY <1>1, <3>1, HandIsBusy DEF HistoryInv, IInv, Ordered
    <3>6. QED
      BY <3>1, <3>2, <3>4, <3>5 DEF Lost
  <2>2. ASSUME NEW n \in late PROVE n \in Lost
    <3>1. n \in refused /\ n \in 1 .. Len(offered) /\ n \notin written
      BY <1>1 DEF HistoryInv
    <3>2. n \notin InHand
      BY <1>1, <3>1, HandIsBusy DEF HistoryInv
    <3>3. n \notin Queued
      BY <1>1, <3>1, QueueElements DEF HistoryInv, Queued, IInv
    <3>4. QED
      BY <3>1, <3>2, <3>3 DEF Lost
  <2>3. QED
    BY <2>1, <2>2 DEF StoredInOrder
<1>2. QED
  BY InitAccounts, StepAccounts, InitHistory, StepHistory, Invariance, <1>1, PTL DEF Spec
==============================================================================
