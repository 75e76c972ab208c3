------------------------------ MODULE Injector ------------------------------
(***************************************************************************)
(* The route injector of the external routers, external/main.go: it checks *)
(* its configuration, waits for its address, starts a BGP speaker, seeds   *)
(* the routes and then follows a waveform, changing at every step only the *)
(* routes by which the target moved.  The sine of targetCount is any       *)
(* integer within the amplitude; the BGP speaker is the library's.  Names  *)
(* that Acceptance, which waits for this wave, has, too, are prefixed.     *)
(***************************************************************************)
EXTENDS Integers

CONSTANTS Environment,  \* what the environment variables may say, parsed
          AsnSpace,     \* 2^32: config keeps the AS numbers in a uint32
          PhaseCount    \* 8 in the code

ASSUME InjectorAssumption ==
    /\ AsnSpace \in Nat \ {0}
    /\ PhaseCount \in Nat \ {0}
    /\ \A v \in Environment :
          {v.localAS, v.peerAS, v.base, v.amplitude, v.period, v.step, v.slot}
            \subseteq Int
    /\ \A v \in Environment : v.addresses \in Nat

VARIABLES pc,          \* where run() is
          cfg,         \* the configuration, once accepted
          current,     \* routes run() believes advertised
          advertised   \* indexes of the routes in the BGP speaker

injectorVars == <<pc, cfg, current, advertised>>

InjectorInit == /\ pc = "config"
                /\ cfg \in Environment
                /\ current = 0
                /\ advertised = {}

------------------------------------------------------------------------------
\* The trough keeps a route, and the crest stays in the pool; mutants: without
\* the amplitude.
TroughMean(v) == v.base >= 1
CrestMean(v)  == v.base <= v.addresses
Trough(v)     == v.base - v.amplitude >= 1
Crest(v)      == v.base + v.amplitude <= v.addresses

\* The checks of loadConfig, in its order; they see the AS numbers before they
\* are narrowed.
Valid(v) ==
    /\ v.localAS >= 1 /\ v.peerAS >= 1
    /\ v.base >= 1 /\ v.amplitude >= 0 /\ Trough(v)
    /\ v.period >= 1 /\ v.step >= 1 /\ v.period % v.step = 0
    /\ v.slot >= 0 /\ v.slot < PhaseCount
    /\ Crest(v)

Narrowed(v) == [v EXCEPT !.localAS = @ % AsnSpace, !.peerAS = @ % AsnSpace]

LoadConfig == /\ pc = "config"
              /\ \/ /\ Valid(cfg)
                    /\ cfg' = Narrowed(cfg)
                    /\ pc' = "address"
                 \/ /\ ~Valid(cfg)
                    /\ pc' = "failed"
                    /\ UNCHANGED cfg
              /\ UNCHANGED <<current, advertised>>

\* waitForAddress, polled every second until the address or a signal.
AddressReady == /\ pc = "address"
                /\ pc' = "start"
                /\ UNCHANGED <<cfg, current, advertised>>

\* StartBgp and AddPeer.
StartBgp == /\ pc = "start"
            /\ pc' \in {"seed", "failed"}
            /\ UNCHANGED <<cfg, current, advertised>>

------------------------------------------------------------------------------
TargetCounts(c) == c.base - c.amplitude .. c.base + c.amplitude

\* Mutant of ToWithdraw: one route too few.
ToWithdrawLess(from, target) == IF target > from THEN {} ELSE target + 1 .. from - 1

\* routeDelta: the indexes to add and to withdraw.
ToAdd(from, target)      == IF target > from THEN from .. target - 1 ELSE {}
ToWithdraw(from, target) == IF target > from THEN {} ELSE target .. from - 1

\* apply() and reconcile(): the whole difference or an error, after which any
\* part of it may have been applied; an error ends the process, and stopping
\* the speaker withdraws everything.
Applied(target, next) ==
    /\ advertised' = (advertised \cup ToAdd(current, target))
                        \ ToWithdraw(current, target)
    /\ current' = target
    /\ pc' = next

Failed == /\ pc' = "failed"
          /\ advertised' = {}
          /\ UNCHANGED current

Apply(from, next) ==
    /\ pc = from
    /\ \E target \in TargetCounts(cfg) : Applied(target, next)
    /\ UNCHANGED cfg

ApplyFails == /\ pc \in {"seed", "boundary", "ticking"}
              /\ Failed
              /\ UNCHANGED cfg

\* The seed, the first step at the next boundary, then every step.
Seed     == Apply("seed", "boundary")
Boundary == Apply("boundary", "ticking")
NextStep == Apply("ticking", "ticking")

\* SIGINT or SIGTERM: an error while waiting for the address, otherwise a
\* normal end; either way the speaker stops.
Signal == /\ pc \in {"address", "boundary", "ticking"}
          /\ pc' = IF pc = "address" THEN "failed" ELSE "stopped"
          /\ advertised' = {}
          /\ UNCHANGED <<cfg, current>>

InjectorNext == \/ LoadConfig \/ AddressReady \/ StartBgp
                \/ Seed \/ Boundary \/ NextStep
                \/ ApplyFails \/ Signal

InjectorSpec == InjectorInit /\ [][InjectorNext]_injectorVars

------------------------------------------------------------------------------
Advertising == pc \in {"boundary", "ticking"}

TypeOK ==
    /\ pc \in {"config", "address", "start", "seed", "boundary", "ticking",
               "stopped", "failed"}
    /\ current \in Nat
    /\ advertised \subseteq Nat

\* What the routers see is what run() believes, and the incremental changes
\* never leave a gap: the routes advertised are the first ones of the pool,
\* exactly as many as the last target.
AdvertisesThePrefix ==
    pc \notin {"stopped", "failed"} => advertised = 0 .. current - 1

\* The first route of the pool stays up as long as the injector runs, whatever
\* the waveform does, and no index ever leaves the pool that was checked at
\* the start (routes[index] of reconcile would panic).
SentinelAndPool ==
    Advertising => /\ 0 \in advertised
               /\ \A i \in advertised : i < cfg.base + cfg.amplitude
               /\ cfg.base + cfg.amplitude <= cfg.addresses
==============================================================================
