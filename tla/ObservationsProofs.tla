-------------------------- MODULE ObservationsProofs --------------------------
(***************************************************************************)
(* What an observation says and what becomes of it.  Its fields and its    *)
(* series say what the device said, for any interfaces, neighbors and      *)
(* counts; and a batch of observations is in the index, and there once,    *)
(* when write() returns, for any batch and number of attempts.             *)
(***************************************************************************)
EXTENDS Observations, Repository, TLAPS

\* The leaves by entity and field.
LEMMA Leaves ==
    /\ \A e \in Entity : \A f \in Fields(e) : <<e, f>> \in Leaf
    /\ \A l \in Leaf : \E e \in Entity : \E f \in Fields(e) : l = <<e, f>>
BY DEF Leaf

\* None is not a word, not a number and not an observation.
LEMMA NoneIsNothing ==
    /\ \A w \in Words \cup Int : w # Missing
    /\ \A e \in Entity : \A o \in [Fields(e) -> Words \cup Int \cup {Missing}] : o # Missing
BY ObservationsAssumption

\* What StateCache.values may hold.
Told(vals) == /\ vals = [l \in Leaf |-> vals[l]]
              /\ \A l \in Leaf : vals[l] \in (Said(l) \ {Unsupported}) \cup {Missing}

\* One field of what make() makes, and what the field is a number or a word of.
LEMMA MadeField ==
    ASSUME NEW vals, Told(vals), NEW e \in Entity, NEW f \in Fields(e)
    PROVE  /\ Make(vals, e)[f] \in Words \cup Int \cup {Missing}
           /\ f \in States => Make(vals, e)[f] \in {"up", "down", "unknown", Missing}
           /\ f = "session_state" => Make(vals, e)[f] \in {"established", "active", Missing}
<1> DEFINE w == vals[<<e, f>>]
<1>0. w \in (Said(<<e, f>>) \ {Unsupported}) \cup {Missing}
  BY Leaves DEF Told
<1>1. CASE f \in States
  <2>1. Make(vals, e)[f] = Word(StatusWords, w)
    BY <1>1 DEF Make, States
  <2>2. w \in {"UP", "DOWN", "DORMANT", "TESTING", Missing}
    BY <1>0, <1>1 DEF Said, States
  <2>3. Word(StatusWords, w) \in {"up", "down", "unknown", Missing}
    BY <2>2 DEF Word, StatusWords
  <2>4. QED
    BY <1>1, <2>1, <2>3 DEF States, Words
<1>2. CASE f = "session_state"
  <2>1. Make(vals, e)[f] = LowerOrNone(w)
    BY <1>2 DEF Make, States
  <2>2. w \in {"ESTABLISHED", "ACTIVE", "", Missing}
    BY <1>0, <1>2 DEF Said
  <2>3. LowerOrNone(w) \in {"established", "active", Missing}
    BY <2>2, NoneIsNothing DEF LowerOrNone, Words
  <2>4. QED
    BY <1>2, <2>1, <2>3 DEF States, Words
<1>3. CASE f \notin States /\ f # "session_state"
  <2>1. Make(vals, e)[f] = w
    BY <1>3 DEF Make
  <2>2. f \in {"in_octets", "prefixes_received"}
    BY <1>3 DEF Fields
  <2>3. w \in Int \cup {Missing}
    BY <1>0, <2>2, ObservationsAssumption DEF Said
  <2>4. QED
    BY <1>3, <2>1, <2>3
<1>4. QED
  BY <1>1, <1>2, <1>3

\* What make() makes is an observation.
LEMMA Made ==
    ASSUME NEW vals, Told(vals), NEW e \in Entity
    PROVE  /\ Make(vals, e) \in [Fields(e) -> Words \cup Int \cup {Missing}]
           /\ Make(vals, e) # Missing
<1>1. Make(vals, e) = [f \in Fields(e) |-> Make(vals, e)[f]]
  BY DEF Make
<1>2. \A f \in Fields(e) : Make(vals, e)[f] \in Words \cup Int \cup {Missing}
  BY MadeField
<1>3. Make(vals, e) \in [Fields(e) -> Words \cup Int \cup {Missing}]
  BY <1>1, <1>2
<1>4. QED
  BY <1>3, NoneIsNothing

\* What was not told is null.
LEMMA NullField ==
    ASSUME NEW vals, Told(vals), NEW e \in Entity, NEW f \in Fields(e),
           vals[<<e, f>>] = Missing
    PROVE  Make(vals, e)[f] = Missing
<1>1. CASE f \in States
  BY <1>1 DEF Make, States, Word
<1>2. CASE f = "session_state"
  <2>1. Make(vals, e)[f] = LowerOrNone(Missing)
    BY <1>2 DEF Make, States
  <2>2. LowerOrNone(Missing) = Missing
    BY NoneIsNothing DEF LowerOrNone, Words
  <2>3. QED
    BY <2>1, <2>2
<1>3. CASE f \notin States /\ f # "session_state"
  BY <1>3 DEF Make
<1>4. QED
  BY <1>1, <1>2, <1>3

\* A field of the snapshot, also of an entity that is not in it.
LEMMA SnapshotField ==
    ASSUME NEW vals, Told(vals), NEW e \in Entity, NEW f \in Fields(e)
    PROVE  (IF Snapshot(vals)[e] = Missing THEN Missing ELSE Snapshot(vals)[e][f])
              = Make(vals, e)[f]
<1>1. CASE e \in Held(vals)
  <2>1. Snapshot(vals)[e] = Make(vals, e)
    BY <1>1 DEF Snapshot
  <2>2. QED
    BY <2>1, Made
<1>2. CASE e \notin Held(vals)
  <2>1. Snapshot(vals)[e] = Missing
    BY <1>2 DEF Snapshot
  <2>2. vals[<<e, f>>] = Missing
    BY <1>2 DEF Held
  <2>3. QED
    BY <2>1, <2>2, NullField
<1>3. QED
  BY <1>1, <1>2

------------------------------------------------------------------------------
\* The exporter shows the snapshot of the cache and nothing else, the cache holds
\* what the device may say, and an observation over the CLI is made of an answer
\* about the device as the cache has it.
ShownInv == shown = IF synced THEN Snapshot(values) ELSE [e \in Entity |-> Missing]

AnswerInv ==
    ssh # Missing =>
       \E e \in Entity :
          /\ answer.of = e
          /\ answer.says = [f \in Fields(e) |-> answer.says[f]]
          /\ \A f \in Fields(e) : answer.says[f] \in Prints(e, f)
          /\ ssh = Normalized(answer.says)

IInv == synced \in BOOLEAN /\ Told(values) /\ ShownInv /\ AnswerInv

\* Nothing is known or shown.
LEMMA NothingTold == Told([l \in Leaf |-> Missing])
BY DEF Told

LEMMA InitInv == Init => IInv
BY NothingTold DEF Init, IInv, ShownInv, AnswerInv

\* The stream ends.
LEMMA StreamEndsInv ==
    ASSUME StreamEnds PROVE synced' \in BOOLEAN /\ Told(values)' /\ ShownInv'
BY NothingTold DEF StreamEnds, ShownInv

\* A notification about leaves there are, with any number of updates and deletions.
Notification(n) == /\ DOMAIN n.update \subseteq Leaf /\ n.delete \subseteq Leaf
                   /\ \A l \in DOMAIN n.update : n.update[l] \in Said(l)

\* The cache after it, and what it did not touch.
LEMMA AppliedTold ==
    ASSUME NEW n, Told(values), Notification(n), Decodes(n)
    PROVE  Told(Applied(n))
<1> DEFINE vals == Applied(n)
<1>1. vals = [l \in Leaf |-> vals[l]]
  BY DEF Applied
<1>2. ASSUME NEW l \in Leaf PROVE vals[l] \in (Said(l) \ {Unsupported}) \cup {Missing}
  BY DEF Applied, Told, Notification, Decodes
<1>3. QED
  BY <1>1, <1>2 DEF Told

LEMMA Untouched ==
    ASSUME NEW n, NEW e \in Entity,
           e \notin {l[1] : l \in DOMAIN n.update \cup n.delete}
    PROVE  Snapshot(Applied(n))[e] = Snapshot(values)[e]
<1>1. \A f \in Fields(e) : Applied(n)[<<e, f>>] = values[<<e, f>>]
  <2> SUFFICES ASSUME NEW f \in Fields(e) PROVE Applied(n)[<<e, f>>] = values[<<e, f>>]
    OBVIOUS
  <2>1. <<e, f>>[1] = e
    OBVIOUS
  <2>2. <<e, f>> \notin DOMAIN n.update \cup n.delete
    BY <2>1
  <2>3. QED
    BY <2>2, Leaves DEF Applied
<1>2. Make(Applied(n), e) = Make(values, e)
  BY <1>1 DEF Make
<1>3. e \in Held(Applied(n)) <=> e \in Held(values)
  BY <1>1 DEF Held
<1>4. QED
  BY <1>2, <1>3 DEF Snapshot

\* The exporter learns of the entities a notification touches, and that is enough.
LEMMA ReceiveInv ==
    ASSUME NEW n, IInv, Notification(n), Receive(n)
    PROVE  synced' \in BOOLEAN /\ Told(values)' /\ ShownInv'
<1> DEFINE touched == {l[1] : l \in DOMAIN n.update \cup n.delete}
           news == [e \in touched |-> Snapshot(Applied(n))[e]]
<1>1. CASE StreamEnds
  BY <1>1, StreamEndsInv
<1>2. CASE ~StreamEnds
  <2>1. /\ Decodes(n) /\ values' = Applied(n) /\ synced' = synced
        /\ shown' = IF synced THEN [e \in Entity |-> IF e \in touched THEN news[e] ELSE shown[e]]
                              ELSE shown
    BY <1>2 DEF Receive
  <2>2. Told(Applied(n))
    BY <2>1, AppliedTold DEF IInv
  <2>3. CASE synced
    <3>1. \A e \in Entity : shown[e] = Snapshot(values)[e]
      BY <2>3 DEF IInv, ShownInv
    <3>2. \A e \in Entity : shown'[e] = Snapshot(Applied(n))[e]
      BY <2>1, <2>3, <3>1, Untouched
    <3>3. shown' = [e \in Entity |-> shown'[e]]
      BY <2>1, <2>3
    <3>4. Snapshot(Applied(n)) = [e \in Entity |-> Snapshot(Applied(n))[e]]
      BY DEF Snapshot
    <3>5. shown' = Snapshot(values')
      BY <2>1, <3>2, <3>3, <3>4
    <3>6. QED
      BY <2>1, <2>2, <2>3, <3>5 DEF IInv, ShownInv
  <2>4. CASE ~synced
    BY <2>1, <2>2, <2>4 DEF IInv, ShownInv
  <2>5. QED
    BY <2>3, <2>4
<1>3. QED
  BY <1>1, <1>2

\* Every step keeps the invariant.
LEMMA StepInv == IInv /\ [Next]_vars => IInv'
<1> SUFFICES ASSUME IInv, [Next]_vars PROVE IInv'
  OBVIOUS
<1>1. CASE Stream
  <2>1. AnswerInv'
    BY <1>1 DEF Stream, AnswerInv
  <2>2. CASE Updates
    <3>1. PICK l \in Leaf, t \in {0, 1} : \E w \in Said(l) :
             Receive([timestamp |-> t, update |-> [k \in {l} |-> w], delete |-> {}])
      BY <2>2 DEF Updates
    <3>2. PICK w \in Said(l) :
             Receive([timestamp |-> t, update |-> [k \in {l} |-> w], delete |-> {}])
      BY <3>1
    <3> DEFINE n == [timestamp |-> t, update |-> [k \in {l} |-> w], delete |-> {}]
    <3>3. Notification(n)
      BY <3>2 DEF Notification
    <3> HIDE DEF n
    <3>4. Receive(n)
      BY <3>2 DEF n
    <3>5. QED
      BY <2>1, <3>3, <3>4, ReceiveInv DEF IInv
  <2>3. CASE Deletes
    <3>1. PICK l \in Leaf : \E gone \in {{l}, {k \in Leaf : k[1] = l[1]}} :
             Receive([timestamp |-> 1, update |-> NoUpdate, delete |-> gone])
      BY <2>3 DEF Deletes
    <3>2. PICK gone \in {{l}, {k \in Leaf : k[1] = l[1]}} :
             Receive([timestamp |-> 1, update |-> NoUpdate, delete |-> gone])
      BY <3>1
    <3> DEFINE n == [timestamp |-> 1, update |-> NoUpdate, delete |-> gone]
    <3>3. Notification(n)
      BY <3>2 DEF Notification, NoUpdate
    <3> HIDE DEF n
    <3>4. Receive(n)
      BY <3>2 DEF n
    <3>5. QED
      BY <2>1, <3>3, <3>4, ReceiveInv DEF IInv
  <2>4. CASE Sync
    <3>1. CASE StreamEnds
      BY <2>1, <3>1, StreamEndsInv DEF IInv
    <3>2. CASE ~StreamEnds
      <4>1. synced' = TRUE /\ shown' = Snapshot(values) /\ values' = values
        BY <2>4, <3>2 DEF Sync
      <4>2. Told(values)' /\ ShownInv'
        BY <4>1 DEF IInv, ShownInv
      <4>3. QED
        BY <2>1, <4>1, <4>2 DEF IInv
    <3>3. QED
      BY <3>1, <3>2
  <2>5. CASE Breaks
    BY <2>1, <2>5, StreamEndsInv DEF Breaks, IInv
  <2>6. QED
    BY <1>1, <2>2, <2>3, <2>4, <2>5 DEF Stream
<1>2. ASSUME NEW e \in Entity, NEW a, Answered(e, a), a = [f \in Fields(e) |-> a[f]],
             \A f \in Fields(e) : a[f] \in Prints(e, f)
      PROVE  IInv'
  <2>1. UNCHANGED gnmi /\ answer' = [of |-> e, says |-> a]
        /\ ssh' \in {Normalized(a), Missing}
    BY <1>2 DEF Answered
  <2>2. answer'.of = e /\ answer'.says = a
    BY <2>1
  <2>3. \A f \in Fields(e) : Prints(e, f)' = Prints(e, f)
    BY <2>1 DEF gnmi, Prints
  <2>4. AnswerInv'
    BY <1>2, <2>1, <2>2, <2>3 DEF AnswerInv
  <2>5. QED
    BY <2>1, <2>4 DEF IInv, gnmi, ShownInv
<1>3. CASE ShowInterfaces
  <2>1. PICK e \in Interfaces : \E admin \in Prints(e, "admin_state"),
                oper \in Prints(e, "oper_state"), octets \in Prints(e, "in_octets") :
           Answered(e, [admin_state |-> admin, oper_state |-> oper, in_octets |-> octets])
    BY <1>3 DEF ShowInterfaces
  <2>2. PICK admin \in Prints(e, "admin_state"),
             oper \in Prints(e, "oper_state"), octets \in Prints(e, "in_octets") :
           Answered(e, [admin_state |-> admin, oper_state |-> oper, in_octets |-> octets])
    BY <2>1
  <2> DEFINE a == [admin_state |-> admin, oper_state |-> oper, in_octets |-> octets]
  <2>3. e \in Entity /\ Fields(e) = {"admin_state", "oper_state", "in_octets"}
    BY ObservationsAssumption DEF Fields, States, Entity
  <2>4. a = [f \in Fields(e) |-> a[f]]
    BY <2>3
  <2>5. \A f \in Fields(e) : a[f] \in Prints(e, f)
    BY <2>2, <2>3
  <2> HIDE DEF a
  <2>6. Answered(e, a)
    BY <2>2 DEF a
  <2>7. QED
    BY <1>2, <2>3, <2>4, <2>5, <2>6
<1>4. CASE ShowBgp
  <2>1. PICK e \in Neighbors : \E state \in Prints(e, "session_state"),
                prefixes \in Prints(e, "prefixes_received") :
           Answered(e, [session_state |-> state, prefixes_received |-> prefixes])
    BY <1>4 DEF ShowBgp
  <2>2. PICK state \in Prints(e, "session_state"), prefixes \in Prints(e, "prefixes_received") :
           Answered(e, [session_state |-> state, prefixes_received |-> prefixes])
    BY <2>1
  <2> DEFINE a == [session_state |-> state, prefixes_received |-> prefixes]
  <2>3. e \in Entity /\ Fields(e) = {"session_state", "prefixes_received"}
    BY DEF Fields, Entity
  <2>4. a = [f \in Fields(e) |-> a[f]]
    BY <2>3
  <2>5. \A f \in Fields(e) : a[f] \in Prints(e, f)
    BY <2>2, <2>3
  <2> HIDE DEF a
  <2>6. Answered(e, a)
    BY <2>2 DEF a
  <2>7. QED
    BY <1>2, <2>3, <2>4, <2>5, <2>6
<1>5. CASE NoSections
  BY <1>5 DEF NoSections, gnmi, IInv, ShownInv, AnswerInv
<1>6. CASE UNCHANGED vars
  BY <1>6 DEF vars, gnmi, cli, IInv, ShownInv, AnswerInv, Prints
<1>7. QED
  BY <1>1, <1>3, <1>4, <1>5, <1>6 DEF Next

\* What is shown and answered, in every state of every behaviour.
THEOREM Invariance == Spec => []IInv
BY InitInv, StepInv, PTL DEF Spec

------------------------------------------------------------------------------
\* A series says what its leaf says.
LEMMA SeriesMeans ==
    ASSUME NEW vals, Told(vals), NEW e \in Entity, NEW f \in Fields(e),
           shown[e] = Snapshot(vals)[e]
    PROVE  Series(e, f) = Meaning(f, vals[<<e, f>>])
<1> DEFINE w == vals[<<e, f>>]
           v == Make(vals, e)[f]
<1>1. Series(e, f) = IF v = Missing THEN Missing
                     ELSE CASE f \in States -> UpOrDown(v)
                            [] f = "session_state" -> IF v = "established" THEN 1 ELSE 0
                            [] OTHER -> v
  BY SnapshotField DEF Series
<1>2. w \in (Said(<<e, f>>) \ {Unsupported}) \cup {Missing}
  BY Leaves DEF Told
<1>3. CASE w = Missing
  BY <1>1, <1>3, NullField DEF Meaning
<1>4. CASE w # Missing /\ f \in States
  <2>1. w \in {"UP", "DOWN", "DORMANT", "TESTING"}
    BY <1>2, <1>4 DEF Said, States
  <2>2. v = IF w = "UP" THEN "up" ELSE IF w = "TESTING" THEN "unknown" ELSE "down"
    BY <1>4, <2>1 DEF Make, States, Word, StatusWords
  <2>3. v # Missing
    BY <2>2, NoneIsNothing DEF Words
  <2>4. Series(e, f) = UpOrDown(v)
    BY <1>1, <1>4, <2>3 DEF States
  <2>5. Meaning(f, w) = IF w = "UP" THEN 1 ELSE IF w = "TESTING" THEN Missing ELSE 0
    BY <1>4, <2>1 DEF Meaning, States
  <2>6. QED
    BY <2>1, <2>2, <2>4, <2>5 DEF UpOrDown
<1>5. CASE w # Missing /\ f = "session_state"
  <2>1. w \in {"ESTABLISHED", "ACTIVE", ""}
    BY <1>2, <1>5 DEF Said
  <2>2. v = LowerOrNone(w)
    BY <1>5 DEF Make, States
  <2>3. v = IF w = "ESTABLISHED" THEN "established" ELSE IF w = "" THEN Missing ELSE "active"
    BY <1>5, <2>1, <2>2 DEF LowerOrNone
  <2>4. Meaning(f, w) = IF w = "ESTABLISHED" THEN 1 ELSE IF w = "" THEN Missing ELSE 0
    BY <1>5, <2>1 DEF Meaning, States
  <2>5. "established" # Missing /\ "active" # Missing
    BY NoneIsNothing DEF Words
  <2>6. Series(e, f) = IF v = Missing THEN Missing ELSE IF v = "established" THEN 1 ELSE 0
    BY <1>1, <1>5 DEF States
  <2>7. Series(e, f) = Meaning(f, w)
    <3> HIDE DEF w, v
    <3>1. CASE w = "ESTABLISHED"
      <4>1. v = "established" /\ Meaning(f, w) = 1
        BY <2>3, <2>4, <3>1
      <4>2. QED
        BY <2>5, <2>6, <4>1
    <3>2. CASE w = "ACTIVE"
      <4>1. v = "active" /\ Meaning(f, w) = 0
        BY <2>3, <2>4, <3>2
      <4>2. QED
        BY <2>5, <2>6, <4>1
    <3>3. CASE w = ""
      <4>1. v = Missing /\ Meaning(f, w) = Missing
        BY <2>3, <2>4, <3>3
      <4>2. QED
        BY <2>6, <4>1
    <3>4. QED
      BY <2>1, <3>1, <3>2, <3>3
  <2>8. QED
    BY <2>7
<1>6. CASE w # Missing /\ f \notin States /\ f # "session_state"
  <2>1. v = w
    BY <1>6 DEF Make
  <2>2. QED
    BY <1>1, <1>6, <2>1 DEF Meaning
<1>7. QED
  BY <1>3, <1>4, <1>5, <1>6

\* The exporter shows exactly what the leaves say.
LEMMA SeriesTold == IInv => SeriesSayWhatWasTold
<1> SUFFICES ASSUME IInv, NEW e \in Entity, NEW f \in Fields(e)
             PROVE  Series(e, f) = IF synced THEN Meaning(f, values[<<e, f>>]) ELSE Missing
  BY DEF SeriesSayWhatWasTold
<1>1. CASE synced
  BY <1>1, SeriesMeans DEF IInv, ShownInv
<1>2. CASE ~synced
  BY <1>2 DEF IInv, ShownInv, Series
<1>3. QED
  BY <1>1, <1>2

\* SeriesSayWhatWasTold: of a synchronized device the exporter shows exactly what
\* its leaves say, and of another one nothing, for any interfaces, neighbors and
\* counts.
THEOREM SeriesAreTold == Spec => []SeriesSayWhatWasTold
BY SeriesTold, Invariance, PTL

------------------------------------------------------------------------------
\* A field of what normalize() makes of an answer, beside what make() makes of the
\* leaf the device had when it was asked.
LEMMA TransportsField ==
    ASSUME Told(values), NEW e \in Entity, NEW f \in Fields(e), NEW a,
           DOMAIN a = Fields(e), a[f] \in Prints(e, f)
    PROVE  /\ a[f] = Missing => Normalized(a)[f] = Missing
           /\ f \in States \cup {"session_state"} /\ values[<<e, f>>] # Missing =>
                 \/ Normalized(a)[f] \in {Make(values, e)[f], Missing, "unknown"}
                 \/ Make(values, e)[f] \in {"unknown", Missing}
<1> DEFINE w == values[<<e, f>>]
           p == a[f]
<1>1. w \in (Said(<<e, f>>) \ {Unsupported}) \cup {Missing}
  BY Leaves DEF Told
<1>2. p \in Printed(f, w)
  BY DEF Prints
<1>3. CASE f = "admin_state"
  <2>1. Normalized(a)[f] = IF p = Missing THEN Missing
                           ELSE IF p = "disabled" THEN "down" ELSE "up"
    BY <1>3, NoneIsNothing DEF Normalized, Words
  <2>2. w \in {"UP", "DOWN", Missing}
    BY <1>1, <1>3 DEF Said
  <2>3. Make(values, e)[f] = Word(StatusWords, w)
    BY <1>3 DEF Make, States
  <2>4. /\ w = "UP" => p \in {"connected", "notconnect", Missing}
        /\ w = "DOWN" => p \in {"disabled", Missing}
    BY <1>2, <1>3 DEF Printed
  <2>5. /\ w = "UP" => Word(StatusWords, w) \in {"up", Missing}
        /\ w = "DOWN" => Word(StatusWords, w) \in {"down", Missing}
    BY DEF Word, StatusWords
  <2>6. QED
    BY <2>1, <2>2, <2>3, <2>4, <2>5
<1>4. CASE f = "oper_state"
  <2>1. Normalized(a)[f] = Word(CliWords, p)
    BY <1>4 DEF Normalized, OperWord
  <2>2. w \in {"UP", "DOWN", "DORMANT", "TESTING", Missing}
    BY <1>1, <1>4 DEF Said
  <2>3. Make(values, e)[f] = Word(StatusWords, w)
    BY <1>4 DEF Make, States
  <2>4. /\ w = "UP" => p \in {"up", Missing}
        /\ w = "DOWN" => p \in {"down", "adminDown", Missing}
        /\ w = "DORMANT" => p \in {"dormant", Missing}
    BY <1>2, <1>4 DEF Printed
  <2>5. /\ w = "UP" => Word(StatusWords, w) \in {"up", Missing}
        /\ w = "DOWN" => Word(StatusWords, w) \in {"down", Missing}
        /\ w = "TESTING" => Word(StatusWords, w) \in {"unknown", Missing}
    BY DEF Word, StatusWords
  <2>6. /\ p = "up" => Word(CliWords, p) \in {"up", Missing}
        /\ p \in {"down", "adminDown"} => Word(CliWords, p) \in {"down", Missing}
        /\ p = "dormant" => Word(CliWords, p) \in {"unknown", Missing}
        /\ p = Missing => Word(CliWords, p) = Missing
    BY DEF Word, CliWords
  <2>7. QED
    BY <2>1, <2>2, <2>3, <2>4, <2>5, <2>6
<1>5. CASE f = "session_state"
  <2>1. Normalized(a)[f] = LowerOrNone(p)
    BY <1>5 DEF Normalized
  <2>2. w \in {"ESTABLISHED", "ACTIVE", "", Missing}
    BY <1>1, <1>5 DEF Said
  <2>3. Make(values, e)[f] = LowerOrNone(w)
    BY <1>5 DEF Make, States
  <2>4. /\ w = "ESTABLISHED" => p \in {"Established", Missing}
        /\ w = "ACTIVE" => p \in {"Active", Missing}
    BY <1>2, <1>5 DEF Printed
  <2>5. /\ LowerOrNone("ESTABLISHED") = "established"
        /\ LowerOrNone("Established") = "established"
        /\ LowerOrNone("ACTIVE") = "active" /\ LowerOrNone("Active") = "active"
        /\ LowerOrNone("") = Missing /\ LowerOrNone(Missing) = Missing
    BY NoneIsNothing DEF LowerOrNone, Words
  <2>6. p = Missing => Normalized(a)[f] = Missing
    BY <2>1, <2>5
  <2>7. CASE w = "ESTABLISHED"
    BY <2>1, <2>3, <2>4, <2>5, <2>7
  <2>8. CASE w = "ACTIVE"
    BY <2>1, <2>3, <2>4, <2>5, <2>8
  <2>9. CASE w = ""
    BY <2>3, <2>5, <2>6, <2>9
  <2>10. QED
    BY <2>2, <2>6, <2>7, <2>8, <2>9
<1>6. CASE f \notin States /\ f # "session_state"
  BY <1>6 DEF Normalized, States
<1>7. QED
  BY <1>3, <1>4, <1>5, <1>6 DEF States

\* TransportsAgree: of one condition of the device gNMI and the CLI never make
\* contradicting observations, and what the CLI left out is null.
THEOREM TransportsNeverContradict == Spec => []TransportsAgree
<1>1. IInv => TransportsAgree
  <2> SUFFICES ASSUME IInv, ssh # Missing, NEW f \in Fields(answer.of)
               PROVE  /\ answer.says[f] = Missing => ssh[f] = Missing
                      /\ f \in States \cup {"session_state"}
                             /\ values[<<answer.of, f>>] # Missing =>
                           \/ ssh[f] \in {Make(values, answer.of)[f], Missing, "unknown"}
                           \/ Make(values, answer.of)[f] \in {"unknown", Missing}
    BY DEF TransportsAgree
  <2>1. PICK e \in Entity :
           /\ answer.of = e
           /\ answer.says = [g \in Fields(e) |-> answer.says[g]]
           /\ \A g \in Fields(e) : answer.says[g] \in Prints(e, g)
           /\ ssh = Normalized(answer.says)
    BY DEF IInv, AnswerInv
  <2>2. DOMAIN answer.says = Fields(e)
    BY <2>1
  <2>3. QED
    BY <2>1, <2>2, TransportsField DEF IInv
<1>2. QED
  BY <1>1, Invariance, PTL

------------------------------------------------------------------------------
\* Only an accepted sync response makes a device synchronized.
LEMMA FirstShown ==
    ASSUME [Next]_vars, ~synced, synced'
    PROVE  SyncValid /\ shown' = Snapshot(values) /\ values' = values
<1>1. ~StreamEnds
  BY DEF StreamEnds
<1>2. ASSUME NEW n, Receive(n) PROVE FALSE
  BY <1>1, <1>2 DEF Receive
<1>3. ~Updates /\ ~Deletes
  BY <1>2 DEF Updates, Deletes
<1>4. ASSUME NEW e, NEW a, Answered(e, a) PROVE FALSE
  BY <1>4 DEF Answered, gnmi
<1>5. ~ShowInterfaces /\ ~ShowBgp
  BY <1>4 DEF ShowInterfaces, ShowBgp
<1>6. ~NoSections
  BY DEF NoSections, gnmi
<1>7. Sync
  BY <1>1, <1>3, <1>5, <1>6 DEF Next, Stream, Breaks, vars, gnmi
<1>8. QED
  BY <1>1, <1>7 DEF Sync

\* What validate_sync leaves to be shown: an interface, a neighbor, sessions with a
\* state and Ethernets with all their fields.
LEMMA SyncShows ==
    ASSUME Told(values), SyncValid
    PROVE  /\ \E i \in Interfaces, n \in Neighbors :
                 Snapshot(values)[i] # Missing /\ Snapshot(values)[n] # Missing
           /\ \A n \in Neighbors : Snapshot(values)[n] # Missing =>
                 Make(values, n)["session_state"] # Missing
           /\ \A e \in Ethernets : Snapshot(values)[e] # Missing =>
                 \A f \in Fields(e) : Make(values, e)[f] # Missing
<1>1. \A e \in Entity : Snapshot(values)[e] = IF e \in Held(values) THEN Make(values, e)
                                                                   ELSE Missing
  BY DEF Snapshot
<1>2. \A e \in Held(values) : Snapshot(values)[e] # Missing
  BY <1>1, Made DEF Held
<1>3. \A e \in Ethernets : e \in Entity /\ (Snapshot(values)[e] # Missing =>
         \A f \in DOMAIN Snapshot(values)[e] : Snapshot(values)[e][f] # Missing)
  BY DEF SyncValid, Complete, Entity, Interfaces
<1>4. \A e \in Entity : DOMAIN Make(values, e) = Fields(e)
  BY DEF Make
<1>5. QED
  BY <1>1, <1>2, <1>3, <1>4 DEF SyncValid, Entity

\* AppearsWhole: the moment a device is first shown it has an interface and a
\* neighbor, a series for each session, and counters and states of each Ethernet.
THEOREM ShownWhole == Spec => AppearsWhole
<1>1. ASSUME IInv, SeriesSayWhatWasTold', [Next]_vars, ~synced, synced'
      PROVE  /\ \E i \in Interfaces, n \in Neighbors : shown'[i] # Missing /\ shown'[n] # Missing
             /\ \A n \in Neighbors :
                   shown'[n] = Missing \/ Series(n, "session_state")' # Missing
             /\ \A e \in Ethernets : \A f \in Fields(e) :
                   shown'[e] = Missing \/ (f \in States /\ values[<<e, f>>] = "TESTING")
                      \/ Series(e, f)' # Missing
  <2>1. SyncValid /\ shown' = Snapshot(values) /\ values' = values
    BY <1>1, FirstShown
  <2>2. \A e \in Entity : \A f \in Fields(e) : Series(e, f)' = Meaning(f, values[<<e, f>>])
    BY <1>1, <2>1 DEF SeriesSayWhatWasTold, Meaning
  <2>3. ASSUME NEW e \in Entity, NEW f \in Fields(e), Make(values, e)[f] # Missing,
               ~ (f \in States /\ values[<<e, f>>] = "TESTING")
        PROVE  Series(e, f)' # Missing
    <3> DEFINE w == values[<<e, f>>]
    <3>1. w \in (Said(<<e, f>>) \ {Unsupported}) \cup {Missing}
      BY <1>1, Leaves DEF IInv, Told
    <3>2. w # Missing
      BY <1>1, <2>3, NullField DEF IInv
    <3>3. CASE f \in States
      <4>1. w \in {"UP", "DOWN", "DORMANT"}
        BY <2>3, <3>1, <3>2, <3>3 DEF Said, States
      <4>2. Meaning(f, w) = IF w = "UP" THEN 1 ELSE 0
        BY <3>2, <3>3, <4>1 DEF Meaning, States
      <4>3. QED
        BY <2>2, <4>2, NoneIsNothing
    <3>4. CASE f = "session_state"
      <4>1. w \in {"ESTABLISHED", "ACTIVE", ""}
        BY <3>1, <3>2, <3>4 DEF Said
      <4>2. w # ""
        <5>1. LowerOrNone("") = Missing
          BY NoneIsNothing DEF LowerOrNone, Words
        <5>2. Make(values, e)[f] = LowerOrNone(w)
          BY <3>4 DEF Make, States
        <5>3. QED
          BY <2>3, <5>1, <5>2
      <4>3. Meaning(f, w) = IF w = "ESTABLISHED" THEN 1 ELSE 0
        BY <3>2, <3>4, <4>1, <4>2 DEF Meaning, States
      <4>4. QED
        BY <2>2, <4>3, NoneIsNothing
    <3>5. CASE f \notin States /\ f # "session_state"
      BY <2>2, <3>2, <3>5 DEF Meaning
    <3>6. QED
      BY <3>3, <3>4, <3>5
  <2>4. \A n \in Neighbors : n \in Entity /\ "session_state" \in Fields(n)
    BY DEF Entity, Fields
  <2>5. \A e \in Ethernets : e \in Entity
    BY DEF Entity, Interfaces
  <2>6. QED
    BY <1>1, <2>1, <2>3, <2>4, <2>5, SyncShows DEF IInv, States
<1>2. IInv /\ SeriesSayWhatWasTold' /\ [Next]_vars =>
         [~synced /\ synced' =>
             /\ \E i \in Interfaces, n \in Neighbors : shown'[i] # Missing /\ shown'[n] # Missing
             /\ \A n \in Neighbors :
                   shown'[n] = Missing \/ Series(n, "session_state")' # Missing
             /\ \A e \in Ethernets : \A f \in Fields(e) :
                   shown'[e] = Missing \/ (f \in States /\ values[<<e, f>>] = "TESTING")
                      \/ Series(e, f)' # Missing]_vars
  BY <1>1
<1>3. QED
  BY <1>2, Invariance, SeriesAreTold, PTL DEF Spec, AppearsWhole

------------------------------------------------------------------------------
(***************************************************************************)
(* Retries are safe for every batch and every number of attempts.          *)
(***************************************************************************)
\* An "ok" reply is the reply to a request whose items are all stored.
WriteInv == /\ TypeOK
            /\ reply = "ok" => stored = Obs
            /\ phase = "returned" => reply = "ok"
            /\ phase = "sleeping" => attempt < Attempts - 1

\* The invariant holds at the start.
THEOREM WriteInitInv == WriteInit => WriteInv
BY AttemptsAssumption
   DEF WriteInit, WriteInv, TypeOK, Attempt

\* One step of the client or of the server keeps the invariant.
THEOREM WriteStepInv == WriteInv /\ [WriteNext]_writeVars => WriteInv'
<1> SUFFICES ASSUME WriteInv, [WriteNext]_writeVars PROVE WriteInv'
  OBVIOUS
<1> USE AttemptsAssumption DEF WriteInv, TypeOK, Attempt
<1>1. CASE Post
  BY <1>1 DEF Post
<1>2. CASE Return
  BY <1>2 DEF Return
<1>3. CASE Fail
  BY <1>3 DEF Fail
<1>4. CASE Wake
  BY <1>4 DEF Wake
<1>5. ASSUME NEW a \in Attempt, Lose(a) PROVE WriteInv'
  BY <1>5 DEF Lose
<1>6. ASSUME NEW a \in Attempt, NEW items \in SUBSET Obs, Index(a, items)
      PROVE  WriteInv'
  <2>1. stored' = stored \cup items
    BY <1>6 DEF Index
  <2>2. /\ phase' = phase /\ attempt' = attempt /\ inflight' \subseteq inflight
        /\ \/ reply' = reply /\ ~ (phase = "waiting" /\ attempt = a)
           \/ phase = "waiting" /\ reply' = "ok" /\ items = Obs
           \/ phase = "waiting" /\ reply' = "errors"
    BY <1>6 DEF Index
  <2>3. QED
    BY <2>1, <2>2
<1>7. CASE UNCHANGED writeVars
  BY <1>7 DEF writeVars
<1>8. QED
  BY <1>1, <1>2, <1>3, <1>4, <1>5, <1>6, <1>7 DEF WriteNext, Client, Server

\* It holds in every state of every behaviour.
THEOREM WriteInvariance == WriteSpec => []WriteInv
<1>1. QED
  BY WriteInitInv, WriteStepInv, PTL DEF WriteSpec

\* Types of one write call.
THEOREM WriteTypeCorrect == WriteSpec => []TypeOK
<1>1. WriteInv => TypeOK
  BY DEF WriteInv
<1>2. QED
  BY <1>1, WriteInvariance, PTL

\* Repository implements BulkWrite: a call returns only when its whole batch is
\* in the index, and no step takes a document out.
THEOREM Implements == WriteSpec => KeepsPromise
<1>1. WriteInit => Promise!Init
  BY DEF WriteInit, Promise!Init, Outcome
<1>2. ASSUME WriteInv, WriteInv', [WriteNext]_writeVars PROVE [Promise!Next]_(Promise!vars)
  <2> USE DEF Promise!Next, Promise!vars, Outcome
  <2>1. CASE Post \/ Wake \/ \E a \in Attempt : Lose(a)
    BY <2>1 DEF Post, Wake, Lose
  <2>2. CASE Return
    <3>1. stored = Obs
      BY <1>2, <2>2 DEF Return, WriteInv
    <3>2. QED
      BY <2>2, <3>1 DEF Return, Promise!Return
  <2>3. CASE Fail
    BY <2>3 DEF Fail, Promise!Raise
  <2>4. ASSUME NEW a \in Attempt, NEW items \in SUBSET Obs, Index(a, items)
        PROVE  Promise!Next
    <3>1. stored' = stored \cup items /\ phase' = phase
      BY <2>4 DEF Index
    <3>2. stored' \subseteq Obs
      BY <1>2 DEF WriteInv, TypeOK
    <3>3. QED
      BY <3>1, <3>2 DEF Promise!Store
  <2>5. CASE UNCHANGED writeVars
    BY <2>5 DEF writeVars
  <2>6. QED
    BY <1>2, <2>1, <2>2, <2>3, <2>4, <2>5 DEF WriteNext, Client, Server
<1>3. QED
  BY <1>1, <1>2, WriteInvariance, PTL DEF WriteSpec, KeepsPromise, Promise!Spec
==============================================================================
