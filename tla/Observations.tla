----------------------------- MODULE Observations -----------------------------
(***************************************************************************)
(* What becomes of a value on its way: the words of gNMI and of the CLI    *)
(* into the fields of an Observation (wire.py, StateCache.make, normalize  *)
(* and the types of schema.py), and those into the series of the exporter  *)
(* (Metrics.collect).  The device has Ethernet interfaces, Loopbacks,      *)
(* which have hardly any leaves, and BGP neighbors; it may leave out or    *)
(* delete any leaf, and say what nobody expects.  Times, queues and        *)
(* staleness are in StateCache, Collector and Session.  A leaf has the     *)
(* name of the field made of it.                                           *)
(***************************************************************************)
EXTENDS Integers

CONSTANTS Missing,      \* a leaf, key, field, series or document not there
          Unsupported,  \* a TypedValue of an unknown kind
          Ethernets, Loopbacks, Neighbors,   \* of the device, by name
          Octets,       \* what may be said of a counter, below zero too
          Counts        \* and of a number of prefixes

Interfaces == Ethernets \cup Loopbacks
Entity     == Interfaces \cup Neighbors
States     == {"admin_state", "oper_state"}

Fields(e) == IF e \in Neighbors THEN {"session_state", "prefixes_received"}
                                ELSE States \cup {"in_octets"}

Words == {"UP", "DOWN", "DORMANT", "TESTING", "ESTABLISHED", "ACTIVE",
          "connected", "notconnect", "disabled", "adminDown", "dormant", "testing",
          "Established", "Active", "",
          "up", "down", "unknown", "established", "active"}

\* A name is of one thing, counts are integers, and None is neither a word, nor a
\* count, nor an observation.
ASSUME ObservationsAssumption ==
    /\ Ethernets \cap Loopbacks = {} /\ Interfaces \cap Neighbors = {}
    /\ Octets \subseteq Int /\ Counts \subseteq Int
    /\ Missing \notin Words \cup Int
    /\ \A e \in Entity : Missing \notin [Fields(e) -> Words \cup Int \cup {Missing}]

Leaf == UNION {{e} \X Fields(e) : e \in Entity}

VARIABLES values,   \* values[l]: StateCache.values, Missing if not told
          synced,   \* the sync response has been accepted
          shown,    \* shown[e]: the observation Metrics holds
          answer,   \* the CLI answer about an entity just read
          ssh       \* the observation made of it, Missing if that raised

gnmi == <<values, synced, shown>>
cli  == <<answer, ssh>>
vars == <<gnmi, cli>>

------------------------------------------------------------------------------
\* What the device may say of a leaf, and what EOS prints then (external).
Said(l) ==
    IF l[1] \in Loopbacks THEN IF l[2] = "oper_state" THEN {"UP"} ELSE {} ELSE
    CASE l[2] = "admin_state"       -> {"UP", "DOWN"}
      [] l[2] = "oper_state"        -> {"UP", "DOWN", "DORMANT", "TESTING"}
      [] l[2] = "in_octets"         -> Octets \cup {Unsupported}
      [] l[2] = "session_state"     -> {"ESTABLISHED", "ACTIVE", ""}
      [] l[2] = "prefixes_received" -> Counts

Printed(f, w) ==
    {Missing} \cup
    CASE f = "admin_state" -> (IF w # "DOWN" THEN {"connected", "notconnect"} ELSE {})
                                \cup (IF w # "UP" THEN {"disabled"} ELSE {})
      [] f = "oper_state"  -> (CASE w = "UP" -> {"up"}
                                 [] w = "DOWN" -> {"down", "adminDown"}
                                 [] w = "DORMANT" -> {"dormant"}
                                 [] OTHER -> {"testing", "up", "down"})
      [] f = "session_state" -> (CASE w = "ESTABLISHED" -> {"Established"}
                                   [] w = "ACTIVE" -> {"Active"}
                                   [] OTHER -> {"", "Established", "Active"})
      [] f = "in_octets" -> Octets
      [] f = "prefixes_received" -> Counts

------------------------------------------------------------------------------
\* wire.decode and typed_value raise on what they do not know.
Decodes(n) == n.timestamp > 0 /\ \A l \in DOMAIN n.update : n.update[l] # Unsupported

\* dict.get(word, "unknown"), and None for None.
Word(known, w) == IF w = Missing THEN Missing
                  ELSE IF w \in DOMAIN known THEN known[w] ELSE "unknown"

StatusWords == [UP |-> "up", DOWN |-> "down", LOWER_LAYER_DOWN |-> "down",
                DORMANT |-> "down", NOT_PRESENT |-> "down"]

CliWords == [up |-> "up", connected |-> "up", down |-> "down", notconnect |-> "down",
             disabled |-> "down", lowerlayerdown |-> "down", adminDown |-> "down"]

\* str.lower() or None
LowerOrNone(w) == CASE w \in {"", Missing} -> Missing
                    [] w \in {"ESTABLISHED", "Established"} -> "established"
                    [] w \in {"ACTIVE", "Active"} -> "active"

\* Pydantic refuses an interface counter below zero; a count of prefixes is any
\* integer.
Valid(o) == "in_octets" \in DOMAIN o => o["in_octets"] = Missing \/ o["in_octets"] >= 0

\* StateCache.make, which raises if the result is not Valid.
Make(vals, e) ==
    [f \in Fields(e) |-> CASE f \in States -> Word(StatusWords, vals[<<e, f>>])
                           [] f = "session_state" -> LowerOrNone(vals[<<e, f>>])
                           [] OTHER -> vals[<<e, f>>]]

Held(vals) == {e \in Entity : \E f \in Fields(e) : vals[<<e, f>>] # Missing}

Snapshot(vals) == [e \in Entity |-> IF e \in Held(vals) THEN Make(vals, e) ELSE Missing]

\* Mutant of Complete: it is enough to know one of an interface's leaves.
CompleteSome(o) == o # Missing

Complete(o) == o # Missing => \A f \in DOMAIN o : o[f] # Missing

\* validate_sync; any interface will do, but the Ethernets have to be complete.
SyncValid ==
    LET snapshot == Snapshot(values)
    IN  /\ Held(values) \cap Interfaces # {}
        /\ Held(values) \cap Neighbors # {}
        /\ \A e \in Ethernets : Complete(snapshot[e])
        /\ \A e \in Held(values) \cap Neighbors : snapshot[e]["session_state"] # Missing

------------------------------------------------------------------------------
\* Mutant of UpOrDown: what is not up is down.
UpOrNot(w) == IF w = "up" THEN 1 ELSE 0

UpOrDown(w) == CASE w = "up" -> 1 [] w = "down" -> 0 [] OTHER -> Missing

\* Metrics.collect: the series made of field f of an entity.
Series(e, f) ==
    LET v == IF shown[e] = Missing THEN Missing ELSE shown[e][f]
    IN  IF v = Missing THEN Missing
        ELSE CASE f \in States -> UpOrDown(v)
               [] f = "session_state" -> IF v = "established" THEN 1 ELSE 0
               [] OTHER -> v

\* Mutant of OperWord: the port's status instead of the protocol's.
OperWordOfPort(a) == a["admin_state"]

OperWord(a) == a["oper_state"]

\* normalize; a holds interfaceStatus, lineProtocolStatus, inOctets, or
\* peerState and prefixReceived.
Normalized(a) ==
    [f \in DOMAIN a |->
       CASE f = "admin_state" -> (CASE a[f] = Missing -> Missing
                                    [] a[f] = "disabled" -> "down" [] OTHER -> "up")
         [] f = "oper_state" -> Word(CliWords, OperWord(a))
         [] f = "session_state" -> LowerOrNone(a[f])
         [] OTHER -> a[f]]

------------------------------------------------------------------------------
\* The stream ends: the cache and what the exporter shows of it are gone.
StreamEnds == /\ values' = [l \in Leaf |-> Missing]
              /\ synced' = FALSE
              /\ shown' = [e \in Entity |-> Missing]

Applied(n) == [l \in Leaf |-> IF l \in n.delete THEN Missing
                              ELSE IF l \in DOMAIN n.update THEN n.update[l] ELSE values[l]]

\* A notification in order (StateCache has the others); the exporter learns of
\* the entities it touches.
Receive(n) ==
    LET vals    == Applied(n)
        touched == {l[1] : l \in DOMAIN n.update \cup n.delete}
        news    == [e \in touched |-> Snapshot(vals)[e]]
    IN  IF Decodes(n) /\ \A e \in touched : news[e] = Missing \/ Valid(news[e])
        THEN /\ values' = vals
             /\ shown' = IF synced THEN [e \in Entity |-> IF e \in touched THEN news[e] ELSE shown[e]]
                                   ELSE shown
             /\ UNCHANGED synced
        ELSE StreamEnds

NoUpdate == [l \in {} |-> Missing]

Updates == \E l \in Leaf, t \in {0, 1} : \E w \in Said(l) :
              Receive([timestamp |-> t, update |-> [k \in {l} |-> w], delete |-> {}])

Deletes == \E l \in Leaf : \E gone \in {{l}, {k \in Leaf : k[1] = l[1]}} :
              Receive([timestamp |-> 1, update |-> NoUpdate, delete |-> gone])

Sync == IF SyncValid
        THEN synced' = TRUE /\ shown' = Snapshot(values) /\ UNCHANGED values
        ELSE StreamEnds

\* A response of another kind, an error, or the end of the stream.
Breaks == StreamEnds

Stream == (Updates \/ Deletes \/ Sync \/ Breaks) /\ answer' = Missing /\ ssh' = Missing

\* The CLI is asked now, one command after the other.
Answered(e, a) == /\ answer' = [of |-> e, says |-> a]
                  /\ ssh' = IF Valid(Normalized(a)) THEN Normalized(a) ELSE Missing
                  /\ UNCHANGED gnmi

Prints(e, f) == Printed(f, values[<<e, f>>])

ShowInterfaces ==
    \E e \in Interfaces :
       \E admin \in Prints(e, "admin_state"), oper \in Prints(e, "oper_state"),
          octets \in Prints(e, "in_octets") :
          Answered(e, [admin_state |-> admin, oper_state |-> oper, in_octets |-> octets])

ShowBgp ==
    \E e \in Neighbors :
       \E state \in Prints(e, "session_state"), prefixes \in Prints(e, "prefixes_received") :
          Answered(e, [session_state |-> state, prefixes_received |-> prefixes])

\* An answer without its sections is an exception, not an empty collection.
NoSections == /\ answer' = [of |-> "device", says |-> <<>>]
              /\ ssh' = Missing
              /\ UNCHANGED gnmi

Init == /\ values = [l \in Leaf |-> Missing]
        /\ synced = FALSE
        /\ shown = [e \in Entity |-> Missing]
        /\ answer = Missing /\ ssh = Missing

Next == Stream \/ ShowInterfaces \/ ShowBgp \/ NoSections

Spec == Init /\ [][Next]_vars

------------------------------------------------------------------------------
\* What an operator may read off a word.
Meaning(f, w) ==
    IF w = Missing THEN Missing
    ELSE CASE f \in States -> (CASE w = "UP" -> 1 [] w = "TESTING" -> Missing [] OTHER -> 0)
           [] f = "session_state" -> (CASE w = "ESTABLISHED" -> 1 [] w = "" -> Missing [] OTHER -> 0)
           [] OTHER -> w

\* The exporter shows of a synchronized device exactly what its leaves say,
\* through every partial update and deletion: what was not told, was deleted or
\* says neither up nor down has no series, above all no zero; a zero that was
\* told has one; and of a device that is not synchronized nothing is shown.
SeriesSayWhatWasTold ==
    \A e \in Entity : \A f \in Fields(e) :
       Series(e, f) = IF synced THEN Meaning(f, values[<<e, f>>]) ELSE Missing

\* A device appears whole: the moment it is first shown, it has an interface and
\* a neighbor, every neighbor that is shown has a series of its session, and every
\* Ethernet that is shown has its counters and its states, unless the state is an
\* unknown word.
AppearsWhole ==
    [][~synced /\ synced' =>
          /\ \E i \in Interfaces, n \in Neighbors : shown'[i] # Missing /\ shown'[n] # Missing
          /\ \A n \in Neighbors :
                shown'[n] = Missing \/ Series(n, "session_state")' # Missing
          /\ \A e \in Ethernets : \A f \in Fields(e) :
                shown'[e] = Missing \/ (f \in States /\ values[<<e, f>>] = "TESTING")
                   \/ Series(e, f)' # Missing]_vars

\* The two transports agree: of one condition of the device they never make
\* contradicting observations, although each has words the other has not, and
\* what the CLI left out is null in its observation and never a guess.
TransportsAgree ==
    ssh # Missing =>
       \A f \in Fields(answer.of) :
          LET other == Make(values, answer.of)[f]
          IN  /\ answer.says[f] = Missing => ssh[f] = Missing
              /\ f \in States \cup {"session_state"} /\ values[<<answer.of, f>>] # Missing =>
                    ssh[f] \in {other, Missing, "unknown"} \/ other \in {"unknown", Missing}
=============================================================================
