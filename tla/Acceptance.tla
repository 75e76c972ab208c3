------------------------------ MODULE Acceptance ------------------------------
(***************************************************************************)
(* "make fault-test": verify and fault_test of scripts/verify.py against   *)
(* the lab they judge.  The tester sees a device only through the chain    *)
(* from its stream to the collector's task, to a Prometheus sample of that *)
(* task and to documents in the history, each of which lags behind the one *)
(* before; it breaks three things, and what it breaks it has to mend, also *)
(* when a call raises, a wait runs out, or it is killed and started again. *)
(*                                                                         *)
(* Of the devices the model keeps what the faults touch: edge1's session   *)
(* with external1 and the prefixes it brings, and core1's Ethernet2.  A    *)
(* value of None is a series or a field that is not there.                 *)
(***************************************************************************)
EXTENDS Network

CONSTANTS None,
          MaxRuns    \* bound: times the test is started

ASSUME AcceptanceAssumption == MaxRuns \in Nat \ {0} /\ None \notin Nat

Fault  == {"external", "internal", "transport"}
Stream == {"core1", "edge1"}
Series == {"session", "prefixes", "oper"}
Compared == {"session", "oper"}    \* the stable fields of compare()
Of(s)  == IF s = "oper" THEN "core1" ELSE "edge1"

VARIABLES at,         \* the step of the test
          verdict,    \* "running", "passed", "failed" or "killed"
          failing,    \* an exception is on its way through the finally block
          initial,    \* initial_prefixes
          old,        \* the task fault_test stopped, 0 before
          injected,   \* faults in the devices
          device,     \* device[s]: the truth about series s
          task,       \* number of the service's newest task
          status,     \* its status: "none", "PENDING" or "RUNNING"
          connected,  \* connected[d]: it has a synchronized stream of d
          shown,      \* shown[s]: what its exporter shows
          sample,     \* sample[t]: Prometheus' last sample of task t
          ssh,        \* ssh[s]: newest document of the CLI collector
          gnmi,       \* gnmi[s]: newest document of the gNMI collector
          recent,     \* recent[d]: those of d are at most 35 seconds old
          unrestored, \* ghost: faults whose restoring call raised or never ran
          trouble,    \* ghost: something was raised, ran out or was killed
          runs        \* bound: times the test was started

tester   == <<at, verdict, failing, initial, old>>
devices  == <<injected, device>>
service  == <<task, status>>
exporter == <<connected, shown>>
history  == <<ssh, gnmi, recent>>
lab      == <<devices, service, exporter, sample, history>>
ghosts   == <<unrestored, trouble, runs>>
vars     == <<tester, lab, ghosts>>

------------------------------------------------------------------------------
\* The programs.
Step(do, what)  == [do |-> do, what |-> what, inside |-> "none"]
Wait(check)     == Step("wait", check)
CollectCli      == Step("collect_cli", "none")

Protected(step, f) == [do |-> step.do, what |-> step.what, inside |-> f]

\* Mutant of During: only the first step is inside the try block.
DuringUnprotected(f, steps) ==
    <<Protected(Step("inject", f), f)>> \o steps \o <<Step("restore", f)>>

\* try: configure, then steps; finally: configure back.
During(f, steps) ==
    LET block == <<Step("inject", f)>> \o steps
    IN  [i \in DOMAIN block |-> Protected(block[i], f)] \o <<Step("restore", f)>>

Verify == <<Wait("bgp_check"), Wait("external_route_check"), Wait("healthy_metrics"),
            CollectCli, Wait("compare"), Wait("ssh_external_prefixes_in_range"),
            Wait("steady_metrics"), Wait("gnmi_external_prefixes_in_range"),
            Step("initial_prefixes", "none"), Wait("prefixes_changed"),
            Step("assert", "series"), Step("services", "none")>>

FaultTest ==
    Verify
      \o During("external", <<Wait("session_down"), CollectCli, Wait("prefixes_gone"),
                              Wait("compare")>>)
      \o <<Wait("session_up"), Wait("gnmi_external_prefixes_in_range"), CollectCli,
           Wait("compare")>>
      \o During("internal", <<Wait("link_down"), Wait("internal_reachability")>>)
      \o During("transport", <<Wait("stream_down"), Wait("series_removed")>>)
      \o <<Wait("healthy_metrics"), Step("stop_task", "none"), Wait("replaced"),
           Wait("healthy_metrics")>>
      \o Verify \o <<Step("evidence", "none")>>

Now == FaultTest[at]

RestoreOf(f) == CHOOSE i \in DOMAIN FaultTest : FaultTest[i] = Step("restore", f)

------------------------------------------------------------------------------
\* What the checks see.
Shut == (IF "external" \in injected THEN {Port(Managed[3], 3, 10)} ELSE {})
          \cup (IF "internal" \in injected THEN {Port(Managed[1], 2, 2)} ELSE {})

\* ecs.discover: only a task that runs is a target.
Targets == IF status = "RUNNING" THEN {task} ELSE {}

\* Mutant of Current: samples of tasks that are gone count, too.
CurrentOfAll(s) == {sample[t][s] : t \in DOMAIN sample} \ {None}

\* current_query: the samples of the tasks discovered now.  discover and the query
\* are two calls, but what is listed changes by stop_task, which the test itself
\* calls, and by a task that starts in between, which the check then misses and
\* sees two seconds later.
Current(s) == {sample[t][s] : t \in Targets} \ {None}

MetricEquals(s, v) == Current(s) = {v}

\* Mutant of PrefixesGone: a device that deletes the leaf is not thought of.
PrefixesZero == MetricEquals("prefixes", 0)

PrefixesGone == Current("prefixes") = {} \/ MetricEquals("prefixes", 0)

HealthyMetrics == Cardinality(Targets) = 1 /\ \A d \in Stream : MetricEquals(d, 1)

InRange(v) == v # None /\ v >= 700 /\ v <= 1300

\* Mutant of InterfacesUp: that there are series is enough.
InterfacesThere == Current("oper") # {}

InterfacesUp == MetricEquals("oper", 1)

Compare == \A s \in Compared :
              recent[Of(s)] /\ gnmi[s] # None /\ ssh[s] = gnmi[s]

ExternalRouteCheck == device["session"] = 1 /\ InRange(device["prefixes"])

SshExternalPrefixesInRange == InRange(ssh["prefixes"])

SteadyMetrics == /\ HealthyMetrics /\ InterfacesUp
                 /\ MetricEquals("session", 1)
                 /\ Current("prefixes") # {}

GnmiExternalPrefixesInRange ==
    Current("prefixes") # {} /\ \A v \in Current("prefixes") : InRange(v)

PrefixesChanged == /\ Current("prefixes") # {} /\ initial # {}
                   /\ Current("prefixes") # initial
                   /\ MetricEquals("session", 1)

\* core1 pings edge1's loopback.
InternalReachability == Reaches(Shut)[Managed[1], Managed[3]]

Replaced == status # "none" /\ task # old

Check(c) ==
    CASE c = "bgp_check"                       -> BgpCheck(Shut) /\ device["session"] = 1
      [] c = "external_route_check"            -> ExternalRouteCheck
      [] c = "healthy_metrics"                 -> HealthyMetrics
      [] c = "compare"                         -> Compare
      [] c = "ssh_external_prefixes_in_range"  -> SshExternalPrefixesInRange
      [] c = "steady_metrics"                  -> SteadyMetrics
      [] c = "gnmi_external_prefixes_in_range" -> GnmiExternalPrefixesInRange
      [] c = "prefixes_changed"                -> PrefixesChanged
      [] c = "session_down"                    -> MetricEquals("session", 0)
      [] c = "prefixes_gone"                   -> PrefixesGone
      [] c = "session_up"                      -> MetricEquals("session", 1)
      [] c = "link_down"                       -> MetricEquals("oper", 0)
      [] c = "internal_reachability"           -> InternalReachability
      [] c = "stream_down"                     -> MetricEquals("edge1", 0)
      [] c = "series_removed"                  -> Current("session") = {}
      [] c = "replaced"                        -> Replaced

\* The assertions on the series at the end of verify.
SeriesAsserted == /\ MetricEquals("session", 1)
                  /\ Current("prefixes") # {}
                  /\ InterfacesUp

------------------------------------------------------------------------------
\* The test makes its next step, or it is over and its locals are gone.
Running(do) == verdict = "running" /\ Now.do = do

Goes == at' = at + 1 /\ UNCHANGED <<verdict, failing, ghosts>>

Ends(v) == /\ verdict' = v
           /\ at' = 1 /\ failing' = FALSE /\ initial' = {} /\ old' = 0

\* An exception: through the finally block, if there is one, to the end.
Raise == /\ trouble' = TRUE
         /\ UNCHANGED <<unrestored, runs>>
         /\ IF Now.inside = "none"
            THEN Ends("failed")
            ELSE at' = RestoreOf(Now.inside) /\ failing' = TRUE
                 /\ UNCHANGED <<verdict, initial, old>>

Pass == /\ Running("wait")
        /\ Check(Now.what)
        /\ Goes
        /\ initial' = IF Now.what = "prefixes_changed" THEN {} ELSE initial
        /\ UNCHANGED <<old, lab>>

\* wait_for: the deadline; an exception of a check is a check that failed.
Expire == Running("wait") /\ Raise /\ UNCHANGED lab

\* collect_cli ends well with every device stored (CliTask).
Collect == /\ Running("collect_cli")
           /\ ssh' = device
           /\ Goes
           /\ UNCHANGED <<initial, old, devices, service, exporter, sample, gnmi, recent>>

ReadInitial == /\ Running("initial_prefixes")
               /\ initial' = Current("prefixes")
               /\ Goes
               /\ UNCHANGED <<old, lab>>

Asserts == /\ Running("assert")
           /\ IF SeriesAsserted THEN Goes /\ UNCHANGED <<initial, old>> ELSE Raise
           /\ UNCHANGED lab

\* Data sources, dashboards and their queries, once, without a wait.
Services == Running("services") /\ Goes /\ UNCHANGED <<initial, old, lab>>

Evidence == Running("evidence") /\ Ends("passed") /\ UNCHANGED <<ghosts, lab>>

Inject == /\ Running("inject")
          /\ injected' = injected \cup {Now.what}
          /\ Goes
          /\ UNCHANGED <<initial, old, device, service, exporter, sample, history>>

\* The finally block; an exception goes on after it.
Restore == /\ Running("restore")
           /\ injected' = injected \ {Now.what}
           /\ IF failing THEN Ends("failed") /\ UNCHANGED ghosts
                         ELSE Goes /\ UNCHANGED <<initial, old>>
           /\ UNCHANGED <<device, service, exporter, sample, history>>

\* Exactly one task is listed, and it is stopped; its exporter goes with it (the
\* container drains for seconds, when nothing lists it any more).
StopTask == /\ Running("stop_task")
            /\ status # "none"
            /\ old' = task
            /\ status' = "none"
            /\ connected' = [d \in Stream |-> FALSE]
            /\ shown' = [s \in Series |-> None]
            /\ Goes
            /\ UNCHANGED <<initial, devices, task, sample, history>>

Test == \/ Pass \/ Collect \/ ReadInitial \/ Asserts \/ Services \/ Evidence
        \/ Inject \/ Restore \/ StopTask

\* configure raises, and may have reached the device or not.
InjectRaises == /\ Running("inject")
                /\ injected' \in {injected, injected \cup {Now.what}}
                /\ Raise
                /\ UNCHANGED <<device, service, exporter, sample, history>>

RestoreRaises == /\ Running("restore")
                 /\ injected' \in {injected, injected \ {Now.what}}
                 /\ Ends("failed")
                 /\ trouble' = TRUE
                 /\ unrestored' = unrestored \cup {Now.what}
                 /\ UNCHANGED <<runs, device, service, exporter, sample, history>>

CallRaises == /\ Running("collect_cli") \/ Running("services") \/ Running("stop_task")
              /\ Raise
              /\ UNCHANGED lab

\* The process is killed: no finally block runs.
Kill == /\ verdict = "running"
        /\ Ends("killed")
        /\ trouble' = TRUE
        /\ unrestored' = unrestored \cup injected
        /\ UNCHANGED <<runs, lab>>

Trouble == Expire \/ InjectRaises \/ RestoreRaises \/ CallRaises \/ Kill

------------------------------------------------------------------------------
\* The devices (external): the session follows the link, the prefixes the
\* session; EOS deletes their leaf or says 0.
AtDevice(step) == step /\ UNCHANGED <<tester, injected, service, exporter, sample, history, ghosts>>

SessionGoesDown ==
    AtDevice(/\ "external" \in injected
             /\ device["session"] = 1
             /\ \E v \in {0, None} :
                  device' = [device EXCEPT !["session"] = 0, !["prefixes"] = v])

SessionComesUp ==
    AtDevice(/\ "external" \notin injected
             /\ device["session"] = 0
             /\ device' = [device EXCEPT !["session"] = 1, !["prefixes"] = 900])

LinkSettled == device["oper"] = IF "internal" \in injected THEN 0 ELSE 1

LinkFollows ==
    AtDevice(/\ ~LinkSettled
             /\ device' = [device EXCEPT !["oper"] = 1 - @])

\* The injector of external1 moves its wave every 30 seconds, longer than the
\* chain takes to show it.
Wave ==
    AtDevice(/\ device["session"] = 1
             /\ \A t \in Targets : sample[t]["prefixes"] = device["prefixes"]
             /\ device' = [device EXCEPT !["prefixes"] = IF @ = 900 THEN 1100 ELSE 900])

------------------------------------------------------------------------------
\* The chain to the tester.  A stream that is gone takes its series with it
\* (Collector, Session).
Open(d) == d = "core1" \/ "transport" \notin injected

Connects(d) == /\ status = "RUNNING" /\ ~connected[d] /\ Open(d)
               /\ connected' = [connected EXCEPT ![d] = TRUE]
               /\ shown' = [s \in Series |-> IF Of(s) = d THEN device[s] ELSE shown[s]]
               /\ UNCHANGED <<tester, devices, service, sample, history, ghosts>>

Disconnects(d) == /\ connected[d] /\ ~Open(d)
                  /\ connected' = [connected EXCEPT ![d] = FALSE]
                  /\ shown' = [s \in Series |-> IF Of(s) = d THEN None ELSE shown[s]]
                  /\ UNCHANGED <<tester, devices, service, sample, history, ghosts>>

Updates(s) == /\ connected[Of(s)] /\ Open(Of(s))
              /\ shown[s] # device[s]
              /\ shown' = [shown EXCEPT ![s] = device[s]]
              /\ UNCHANGED <<tester, devices, service, connected, sample, history, ghosts>>

\* Every ten seconds at the latest while the stream lasts.
Stores(d) == /\ connected[d]
             /\ gnmi' = [s \in Compared |-> IF Of(s) = d THEN shown[s] ELSE gnmi[s]]
             /\ recent' = [recent EXCEPT ![d] = TRUE]
             /\ gnmi' # gnmi \/ ~recent[d]
             /\ UNCHANGED <<tester, devices, service, exporter, sample, ssh, ghosts>>

Ages(d) == /\ ~connected[d] /\ recent[d]
           /\ recent' = [recent EXCEPT ![d] = FALSE]
           /\ UNCHANGED <<tester, devices, service, exporter, sample, ssh, gnmi, ghosts>>

\* Prometheus: what the exporter shows now; nothing of a task that is gone.
Exposed == [x \in Stream \cup Series |->
              IF x \in Series THEN shown[x] ELSE IF connected[x] THEN 1 ELSE 0]

Nothing == [x \in Stream \cup Series |-> None]

Scrape == /\ status = "RUNNING"
          /\ sample[task] # Exposed
          /\ sample' = [sample EXCEPT ![task] = Exposed]
          /\ UNCHANGED <<tester, devices, service, exporter, history, ghosts>>

Forget(t) == /\ t \notin Targets
             /\ sample[t] # Nothing
             /\ sample' = [sample EXCEPT ![t] = Nothing]
             /\ UNCHANGED <<tester, devices, service, exporter, history, ghosts>>

\* The service (Ecs): a stopped task is replaced.
Launch == /\ status = "none"
          /\ status' = "PENDING" /\ task' = task + 1
          /\ UNCHANGED <<tester, devices, exporter, sample, history, ghosts>>

\* A container takes longer to start than a link to come up.
Started == /\ status = "PENDING"
           /\ LinkSettled
           /\ status' = "RUNNING"
           /\ UNCHANGED <<tester, devices, task, exporter, sample, history, ghosts>>

DeviceSteps == SessionGoesDown \/ SessionComesUp \/ LinkFollows \/ Wave

StreamSteps(d) == Connects(d) \/ Disconnects(d) \/ Stores(d) \/ Ages(d)

Chain == \/ \E d \in Stream : StreamSteps(d)
         \/ \E s \in Series : Updates(s)
         \/ Scrape \/ \E t \in DOMAIN sample : Forget(t)
         \/ Launch \/ Started

------------------------------------------------------------------------------
\* Everything the tester can see is up to date.
Settled == /\ status = "RUNNING"
           /\ \A d \in Stream : connected[d] = Open(d)
           /\ \A s \in Series : shown[s] = IF Open(Of(s)) THEN device[s] ELSE None
           /\ \A t \in DOMAIN sample : sample[t] = IF t = task THEN Exposed ELSE Nothing
           /\ LinkSettled
           /\ device["session"] = IF "external" \in injected THEN 0 ELSE 1

\* "make fault-test" again, on the lab as the last one left it.
Again == /\ verdict # "running"
         /\ runs < MaxRuns
         /\ Settled
         /\ at' = 1 /\ verdict' = "running" /\ failing' = FALSE
         /\ initial' = {} /\ old' = 0
         /\ runs' = runs + 1
         /\ UNCHANGED <<devices, service, exporter, sample, history, unrestored, trouble>>

\* After "make up" and before any collection.
Init == /\ at = 1 /\ verdict = "running" /\ failing = FALSE
        /\ initial = {} /\ old = 0
        /\ injected = {}
        /\ device = [session |-> 1, prefixes |-> 900, oper |-> 1]
        /\ task = 1 /\ status = "RUNNING"
        /\ connected = [d \in Stream |-> TRUE]
        /\ shown = device
        /\ sample = [t \in 1 .. MaxRuns + 1 |-> IF t = 1 THEN Exposed ELSE Nothing]
        /\ ssh = [s \in Series |-> None]
        /\ gnmi = [s \in Compared |-> 1]
        /\ recent = [d \in Stream |-> TRUE]
        /\ unrestored = {} /\ trouble = FALSE
        /\ runs = 1

Next == Test \/ Trouble \/ Again \/ DeviceSteps \/ Chain

\* The test runs, and polls often enough to see what lasts; the devices, the
\* collector, Prometheus and ECS go on.
Spec == /\ Init /\ [][Next]_vars
        /\ SF_vars(Test)
        /\ WF_vars(SessionGoesDown \/ SessionComesUp)
        /\ WF_vars(LinkFollows) /\ WF_vars(Wave)
        /\ \A d \in Stream : WF_vars(Connects(d) \/ Disconnects(d)) /\ WF_vars(Stores(d))
        /\ \A s \in Series : WF_vars(Updates(s))
        /\ WF_vars(Scrape) /\ \A t \in 1 .. MaxRuns + 1 : WF_vars(Forget(t))
        /\ WF_vars(Launch \/ Started)

------------------------------------------------------------------------------
\* The plan fits together: no port, address, router id, AS or pool is given
\* twice, the ends of a link share its /31, and with nothing broken every
\* session that one of the three places expects (the neighbor statements, the
\* constants of bgp_check, the expected series of the dashboards) comes up.
PlanConsistent == Shut = {} => PlanFits

\* No single internal link matters: with any end of one shut every loopback is
\* still reached and every session of bgp_check stays up, so the test may wait
\* for traffic to reroute, and bgp_check cannot tell that a link is down.
ReroutesAroundOneLink == Shut \subseteq UNION OspfLinks => OneLinkIsSpare

\* Whatever is raised, runs out or fails half-way: a test that is over has
\* mended what it broke, unless the very call that mends it raised or the
\* process was killed; and a test that passed left nothing broken at all.
Restored == /\ verdict = "failed" => injected \subseteq unrestored
            /\ verdict = "passed" => injected = {}

\* The test never breaks something in a lab that is broken already: verify
\* notices each of the faults an earlier test may have left behind, also the
\* link around which the network reroutes without losing a session.
OneFaultAtATime == Cardinality(injected) <= 1

Real(c) ==
    CASE c = "session_down"   -> device["session"] = 0
      [] c = "session_up"     -> device["session"] = 1
      [] c = "prefixes_gone"  -> device["prefixes"] \in {0, None}
      [] c = "link_down"      -> "internal" \in injected
      [] c = "stream_down"    -> "transport" \in injected
      [] c = "series_removed" -> shown["session"] = None
      [] c = "healthy_metrics" -> status = "RUNNING" /\ task # old /\ \A d \in Stream : connected[d]
      [] c = "compare" -> gnmi["session"] = device["session"]
      [] OTHER -> TRUE

\* A wait that succeeds is about the lab as it is, not as an earlier sample,
\* an earlier task or an earlier document had it.
PassedMeansReal == [][Pass => Real(Now.what)]_vars

\* Nothing the test waits for is out of reach: with no trouble it passes.
QuietTestPasses == []~trouble => <>(verdict = "passed")
==============================================================================
