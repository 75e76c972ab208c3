-------------------------- MODULE AcceptanceProofs --------------------------
(***************************************************************************)
(* However often "make fault-test" is started, and however it ends, it     *)
(* breaks one thing at a time, mends what it broke, and a wait of it that  *)
(* succeeds is about the lab as it is.  The wave of prefixes that it waits *)
(* for and wants between 700 and 1300 is the injector's, so what is proved *)
(* of the injector, for every configuration, is proved here as well.       *)
(***************************************************************************)
EXTENDS Acceptance, Injector, TLAPS, FiniteSetTheorems

Counts   == {0, 900, 1100, None}
Bit      == {0, 1, None}

TesterTypes == /\ at \in 1 .. 47
               /\ verdict \in {"running", "passed", "failed", "killed"}
               /\ failing \in BOOLEAN
               /\ old \in Nat
               /\ injected \subseteq Fault
               /\ unrestored \subseteq Fault

DeviceTypes == /\ device \in [Series -> Counts \cup Bit]
               /\ device["session"] \in {0, 1} /\ device["oper"] \in {0, 1}
               /\ device["session"] = 0 => device["prefixes"] \in {0, None}

\* What is not connected shows nothing, and a task that is not running is not
\* connected.
ChainTypes == /\ status \in {"none", "PENDING", "RUNNING"}
              /\ connected \in [Stream -> BOOLEAN]
              /\ shown \in [Series -> Counts \cup Bit]
              /\ shown["session"] \in Bit /\ shown["oper"] \in Bit
              /\ \A s \in Series : ~connected[Of(s)] => shown[s] = None
              /\ status # "RUNNING" => \A d \in Stream : ~connected[d]

\* Tasks are counted up, one for each test that stopped one; no sample is of a
\* task that has not run yet.
Samples == /\ task \in Nat /\ runs \in Nat
           /\ 1 <= task /\ task <= runs + 1 /\ runs <= MaxRuns
           /\ status = "none" => task <= runs
           /\ old <= task
           /\ sample \in [1 .. MaxRuns + 1 -> [Stream \cup Series -> Counts \cup Bit]]
           /\ \A t \in 1 .. MaxRuns + 1 :
                 t > task \/ (t = task /\ status = "PENDING") => sample[t] = Nothing

TypeInv == TesterTypes /\ DeviceTypes /\ ChainTypes /\ Samples

\* The faults step i works on: its try block, and the call that mends it.
FaultOf(i) == CASE i \in 14 .. 18 -> {"external"}
                [] i \in 24 .. 26 -> {"internal"}
                [] i \in 28 .. 30 -> {"transport"}
                [] OTHER -> {}

\* Until verify has seen all metrics, there may be one fault that an earlier test
\* could not mend; after that, the one the test works on.
FaultInv ==
    /\ failing => verdict = "running" /\ at \in {18, 26, 30}
    /\ \E f \in Fault : injected \subseteq {f}
    /\ verdict # "running" \/ at <= 7 => injected \subseteq unrestored
    /\ verdict = "passed" => injected = {}
    /\ verdict = "running" /\ at > 7 =>
          /\ injected \subseteq FaultOf(at)
          /\ ~failing => injected = FaultOf(at)

\* Only stop_task ends the task.
TaskInv ==
    verdict = "running" =>
       /\ at <= 32 => status = "RUNNING" /\ old = 0 /\ task <= runs
       /\ at >= 34 => status # "none" /\ task # old

\* Device, exporter and newest sample say v of s, or nothing.
Say(s, v) == /\ device[s] = v
             /\ shown[s] \in {v, None}
             /\ sample[task][s] \in {v, None}

\* A value that has arrived at the end of the chain has passed all of it.
Passed(s, v) == /\ sample[task][s] = v => shown[s] = v
                /\ shown[s] = v => device[s] = v

\* The session follows the fault, and the chain the session.
SessionInv ==
    verdict = "running" /\ ~failing =>
       /\ at <= 13 => Say("session", IF "external" \in injected THEN 0 ELSE 1)
       /\ at = 14 => Passed("session", 0)
       /\ at \in 15 .. 18 => Say("session", 0)
       /\ at = 19 => Passed("session", 1)
       /\ at >= 20 => Say("session", 1)

\* A link that an earlier test left shut is seen by verify.
LinkInv == verdict = "running" /\ at <= 7 /\ "internal" \in injected => Say("oper", 0)

Streams(d) == connected[d] /\ sample[task][d] = 1
Silent(d)  == ~connected[d] /\ sample[task][d] = 0

\* The streams are open except edge1's while its transport is taken away.
StreamInv ==
    verdict = "running" /\ ~failing =>
       /\ at <= 30 => Streams("core1")
       /\ at <= 27 => IF "transport" \in injected THEN Silent("edge1") ELSE Streams("edge1")
       /\ at = 28 => (sample[task]["edge1"] = 0 => ~connected["edge1"])
       /\ at \in {29, 30} => Silent("edge1")
       /\ at >= 31 => \A d \in Stream :
                         status = "RUNNING" /\ sample[task][d] = 1 => connected[d]

\* Between the CLI collection and the comparison the session does not change.
SshInv == verdict = "running" /\ ~failing /\ at \in {5, 16, 17, 22, 39}
             => ssh["session"] = device["session"]

IInv == /\ TypeInv /\ FaultInv /\ TaskInv
        /\ SessionInv /\ LinkInv /\ StreamInv /\ SshInv

------------------------------------------------------------------------------
\* The program, step by step.
DoAt(i)     == FaultTest[i].do
WhatAt(i)   == FaultTest[i].what
InsideAt(i) == FaultTest[i].inside

Row(i, do, what, inside) == DoAt(i) = do /\ WhatAt(i) = what /\ InsideAt(i) = inside

Words == {"wait", "collect_cli", "initial_prefixes", "assert", "services", "inject",
          "restore", "stop_task", "evidence", "none", "series", "external", "internal",
          "transport", "bgp_check", "external_route_check", "healthy_metrics", "compare",
          "ssh_external_prefixes_in_range", "steady_metrics",
          "gnmi_external_prefixes_in_range", "prefixes_changed", "session_down",
          "prefixes_gone", "session_up", "link_down", "internal_reachability",
          "stream_down", "series_removed", "replaced"}

Steps == [do : Words, what : Words, inside : Words]

\* A step made of words is a step.
LEMMA StepIn == \A do, what \in Words : Step(do, what) \in Steps
<1>1. "none" \in Words
  BY DEF Words
<1>2. QED
  BY <1>1 DEF Step, Steps

\* The words of the program, in two halves.
LEMMA AllWords ==
    /\ {"wait", "collect_cli", "initial_prefixes", "assert", "services", "inject",
        "restore", "stop_task", "evidence", "none", "series", "external", "internal",
        "transport"} \subseteq Words
    /\ {"bgp_check", "external_route_check", "healthy_metrics", "compare",
        "ssh_external_prefixes_in_range", "steady_metrics",
        "gnmi_external_prefixes_in_range", "prefixes_changed", "session_down",
        "prefixes_gone", "session_up", "link_down", "internal_reachability",
        "stream_down", "series_removed", "replaced"} \subseteq Words
BY DEF Words

Has(s, n) == s \in Seq(Steps) /\ Len(s) = n

\* Concatenation under a name, for the provers rewrite \o where they see it.
Join(s, t) == s \o t

\* What stands where in a concatenation.
LEMMA Joined ==
    \A s, t : \A m, n, k \in Nat :
       Has(s, m) /\ Has(t, n) /\ k = m + n =>
          /\ Has(Join(s, t), k)
          /\ \A i \in 1 .. m : Join(s, t)[i] = s[i]
          /\ \A i \in 1 .. n : Join(s, t)[m + i] = t[i]
BY DEF Has, Join

\* The short sequences the program is put together from.
LEMMA Lists ==
    ASSUME NEW a \in Steps, NEW b \in Steps, NEW c \in Steps, NEW d \in Steps
    PROVE  /\ Has(<<a>>, 1) /\ <<a>>[1] = a
           /\ Has(<<a, b>>, 2) /\ <<a, b>>[1] = a /\ <<a, b>>[2] = b
           /\ Has(<<a, b, c, d>>, 4)
           /\ <<a, b, c, d>>[1] = a /\ <<a, b, c, d>>[2] = b
           /\ <<a, b, c, d>>[3] = c /\ <<a, b, c, d>>[4] = d
BY DEF Has

\* The steps the program is made of.
LEMMA Known ==
    /\ \A c \in Words : Wait(c) \in Steps
    /\ \A do, what \in Words : Step(do, what) \in Steps
    /\ CollectCli \in Steps
BY StepIn, AllWords DEF Wait, CollectCli

\* verify.
LEMMA VerifyTable ==
    /\ Has(Verify, 12)
    /\ Verify[1] = Wait("bgp_check") /\ Verify[2] = Wait("external_route_check")
    /\ Verify[3] = Wait("healthy_metrics") /\ Verify[4] = CollectCli
    /\ Verify[5] = Wait("compare") /\ Verify[6] = Wait("ssh_external_prefixes_in_range")
    /\ Verify[7] = Wait("steady_metrics")
    /\ Verify[8] = Wait("gnmi_external_prefixes_in_range")
    /\ Verify[9] = Step("initial_prefixes", "none") /\ Verify[10] = Wait("prefixes_changed")
    /\ Verify[11] = Step("assert", "series") /\ Verify[12] = Step("services", "none")
<1>1. /\ Wait("bgp_check") \in Steps /\ Wait("external_route_check") \in Steps
      /\ Wait("healthy_metrics") \in Steps /\ Wait("compare") \in Steps
      /\ Wait("ssh_external_prefixes_in_range") \in Steps
      /\ Wait("steady_metrics") \in Steps
      /\ Wait("gnmi_external_prefixes_in_range") \in Steps
      /\ Wait("prefixes_changed") \in Steps
  BY Known, AllWords
<1>2. /\ CollectCli \in Steps /\ Step("initial_prefixes", "none") \in Steps
      /\ Step("assert", "series") \in Steps /\ Step("services", "none") \in Steps
  BY Known, AllWords
<1>3. QED
  BY <1>1, <1>2 DEF Verify, Has

\* A try block: every step but the last is inside.
LEMMA DuringTable ==
    ASSUME NEW f \in Words, NEW steps, NEW n \in Nat, NEW k \in Nat,
           Has(steps, n), k = n + 2,
           NEW s, s = During(f, steps)
    PROVE  /\ Has(s, k)
           /\ s[1] = Protected(Step("inject", f), f)
           /\ \A i \in 1 .. n : s[1 + i] = Protected(steps[i], f)
           /\ s[k] = Step("restore", f)
<1> DEFINE first == <<Step("inject", f)>>
           block == Join(first, steps)
           inner == [i \in DOMAIN block |-> Protected(block[i], f)]
           last  == <<Step("restore", f)>>
           all   == Join(inner, last)
<1>1. /\ Has(first, 1) /\ first[1] = Step("inject", f)
      /\ Has(last, 1) /\ last[1] = Step("restore", f)
  BY Known, AllWords, Lists
<1> HIDE DEF first, last
<1>2. /\ Has(block, n + 1)
      /\ block[1] = Step("inject", f)
      /\ \A i \in 1 .. n : block[1 + i] = steps[i]
  BY <1>1, Joined
<1> HIDE DEF block
<1>3. \A r \in Steps : Protected(r, f) \in Steps
  BY DEF Steps, Protected
<1>4. /\ Has(inner, n + 1)
      /\ \A i \in 1 .. n + 1 : inner[i] = Protected(block[i], f)
  <2>1. DOMAIN block = 1 .. n + 1 /\ \A i \in 1 .. n + 1 : block[i] \in Steps
    BY <1>2 DEF Has
  <2>2. inner \in [1 .. n + 1 -> Steps]
    BY <1>3, <2>1
  <2>3. QED
    BY <2>1, <2>2 DEF Has
<1> HIDE DEF inner
<1>5. /\ Has(all, k)
      /\ \A i \in 1 .. n + 1 : all[i] = inner[i]
      /\ all[k] = Step("restore", f)
  <2>1. /\ Has(all, k)
        /\ \A i \in 1 .. n + 1 : all[i] = inner[i]
        /\ \A i \in 1 .. 1 : all[n + 1 + i] = last[i]
    BY <1>1, <1>4, Joined
  <2>2. all[n + 1 + 1] = last[1]
    BY <2>1
  <2>3. QED
    BY <1>1, <2>1, <2>2
<1>6. During(f, steps) = all
  BY DEF During, all, inner, block, first, last, Join
<1> HIDE DEF all
<1>7. /\ \A i \in 1 .. n : all[1 + i] = inner[1 + i] /\ inner[1 + i] = Protected(steps[i], f)
      /\ all[1] = Protected(Step("inject", f), f)
  BY <1>2, <1>4, <1>5
<1>8. QED
  BY <1>5, <1>6, <1>7

\* The eight parts of the program one after the other.
LEMMA Eight ==
    ASSUME NEW a, NEW b, NEW c, NEW d, NEW e, NEW f, NEW g, NEW h,
           Has(a, 12), Has(b, 6), Has(c, 4), Has(d, 4), Has(e, 4), Has(f, 4),
           Has(g, 12), Has(h, 1),
           NEW s, s = Join(Join(Join(Join(Join(Join(Join(a, b), c), d), e), f), g), h)
    PROVE  /\ Has(s, 47)
           /\ \A i \in 1 .. 12 : s[i] = a[i]
           /\ \A i \in 1 .. 6 : s[12 + i] = b[i]
           /\ \A i \in 1 .. 4 : s[18 + i] = c[i]
           /\ \A i \in 1 .. 4 : s[22 + i] = d[i]
           /\ \A i \in 1 .. 4 : s[26 + i] = e[i]
           /\ \A i \in 1 .. 4 : s[30 + i] = f[i]
           /\ \A i \in 1 .. 12 : s[34 + i] = g[i]
           /\ s[47] = h[1]
<1> DEFINE s2 == Join(a, b)
           s3 == Join(s2, c)
           s4 == Join(s3, d)
           s5 == Join(s4, e)
           s6 == Join(s5, f)
           s7 == Join(s6, g)
           s8 == Join(s7, h)
<1> HIDE DEF s2, s3, s4, s5, s6, s7, s8
<1>1. /\ Has(s2, 18)
      /\ \A i \in 1 .. 12 : s2[i] = a[i]
      /\ \A i \in 1 .. 6 : s2[12 + i] = b[i]
  BY Joined, 12 + 6 = 18 DEF s2
<1>2. /\ Has(s3, 22)
      /\ \A i \in 1 .. 18 : s3[i] = s2[i]
      /\ \A i \in 1 .. 4 : s3[18 + i] = c[i]
  BY <1>1, Joined DEF s3
<1>3. /\ Has(s4, 26)
      /\ \A i \in 1 .. 22 : s4[i] = s3[i]
      /\ \A i \in 1 .. 4 : s4[22 + i] = d[i]
  BY <1>2, Joined DEF s4
<1>4. /\ Has(s5, 30)
      /\ \A i \in 1 .. 26 : s5[i] = s4[i]
      /\ \A i \in 1 .. 4 : s5[26 + i] = e[i]
  BY <1>3, Joined DEF s5
<1>5. /\ Has(s6, 34)
      /\ \A i \in 1 .. 30 : s6[i] = s5[i]
      /\ \A i \in 1 .. 4 : s6[30 + i] = f[i]
  BY <1>4, Joined DEF s6
<1>6. /\ Has(s7, 46)
      /\ \A i \in 1 .. 34 : s7[i] = s6[i]
      /\ \A i \in 1 .. 12 : s7[34 + i] = g[i]
  BY <1>5, Joined DEF s7
<1>7. /\ Has(s8, 47)
      /\ \A i \in 1 .. 46 : s8[i] = s7[i]
      /\ \A i \in 1 .. 1 : s8[46 + i] = h[i]
  BY <1>6, Joined DEF s8
<1>8. s8[47] = h[1]
  BY <1>7, 46 + 1 = 47
<1>9. \A i \in 1 .. 34 : s8[i] = s6[i]
  BY <1>6, <1>7
<1>10. \A i \in 1 .. 26 : s8[i] = s4[i]
  BY <1>4, <1>5, <1>9
<1>11. \A i \in 1 .. 18 : s8[i] = s2[i]
  BY <1>2, <1>3, <1>10
<1>12. QED
  BY <1>1, <1>2, <1>3, <1>4, <1>5, <1>6, <1>7, <1>8, <1>9, <1>10, <1>11
     DEF s2, s3, s4, s5, s6, s7, s8

\* The whole program.
LEMMA Program ==
    /\ DOMAIN FaultTest = 1 .. 47
    /\ \A i \in 1 .. 12 : FaultTest[i] = Verify[i] /\ FaultTest[34 + i] = Verify[i]
    /\ FaultTest[13] = Protected(Step("inject", "external"), "external")
    /\ FaultTest[14] = Protected(Wait("session_down"), "external")
    /\ FaultTest[15] = Protected(CollectCli, "external")
    /\ FaultTest[16] = Protected(Wait("prefixes_gone"), "external")
    /\ FaultTest[17] = Protected(Wait("compare"), "external")
    /\ FaultTest[18] = Step("restore", "external")
    /\ FaultTest[19] = Wait("session_up")
    /\ FaultTest[20] = Wait("gnmi_external_prefixes_in_range")
    /\ FaultTest[21] = CollectCli
    /\ FaultTest[22] = Wait("compare")
    /\ FaultTest[23] = Protected(Step("inject", "internal"), "internal")
    /\ FaultTest[24] = Protected(Wait("link_down"), "internal")
    /\ FaultTest[25] = Protected(Wait("internal_reachability"), "internal")
    /\ FaultTest[26] = Step("restore", "internal")
    /\ FaultTest[27] = Protected(Step("inject", "transport"), "transport")
    /\ FaultTest[28] = Protected(Wait("stream_down"), "transport")
    /\ FaultTest[29] = Protected(Wait("series_removed"), "transport")
    /\ FaultTest[30] = Step("restore", "transport")
    /\ FaultTest[31] = Wait("healthy_metrics")
    /\ FaultTest[32] = Step("stop_task", "none")
    /\ FaultTest[33] = Wait("replaced")
    /\ FaultTest[34] = Wait("healthy_metrics")
    /\ FaultTest[47] = Step("evidence", "none")
<1> DEFINE inner1 == <<Wait("session_down"), CollectCli, Wait("prefixes_gone"),
                       Wait("compare")>>
           inner2 == <<Wait("link_down"), Wait("internal_reachability")>>
           inner3 == <<Wait("stream_down"), Wait("series_removed")>>
           b == During("external", inner1)
           c == <<Wait("session_up"), Wait("gnmi_external_prefixes_in_range"), CollectCli,
                  Wait("compare")>>
           d == During("internal", inner2)
           e == During("transport", inner3)
           f == <<Wait("healthy_metrics"), Step("stop_task", "none"), Wait("replaced"),
                  Wait("healthy_metrics")>>
           h == <<Step("evidence", "none")>>
           all == Join(Join(Join(Join(Join(Join(Join(Verify, b), c), d), e), f), Verify), h)
<1>1. /\ Has(inner1, 4) /\ inner1[1] = Wait("session_down") /\ inner1[2] = CollectCli
      /\ inner1[3] = Wait("prefixes_gone") /\ inner1[4] = Wait("compare")
  BY Known, AllWords, Lists
<1>2. /\ Has(inner2, 2) /\ inner2[1] = Wait("link_down")
      /\ inner2[2] = Wait("internal_reachability")
      /\ Has(inner3, 2) /\ inner3[1] = Wait("stream_down") /\ inner3[2] = Wait("series_removed")
  BY Known, AllWords, Lists
<1>3. /\ Has(c, 4) /\ c[1] = Wait("session_up")
      /\ c[2] = Wait("gnmi_external_prefixes_in_range")
      /\ c[3] = CollectCli /\ c[4] = Wait("compare")
  BY Known, AllWords, Lists
<1>4. /\ Has(f, 4) /\ f[1] = Wait("healthy_metrics") /\ f[2] = Step("stop_task", "none")
      /\ f[3] = Wait("replaced") /\ f[4] = Wait("healthy_metrics")
      /\ Has(h, 1) /\ h[1] = Step("evidence", "none")
  BY Known, AllWords, Lists
<1> HIDE DEF inner1, inner2, inner3, b, c, d, e, f, h, all
<1>5. /\ Has(b, 6)
      /\ b[1] = Protected(Step("inject", "external"), "external")
      /\ \A i \in 1 .. 4 : b[1 + i] = Protected(inner1[i], "external")
      /\ b[6] = Step("restore", "external")
  <2>1. "external" \in Words /\ b = During("external", inner1)
    BY AllWords DEF b
  <2>2. 4 \in Nat /\ 6 \in Nat /\ 6 = 4 + 2
    OBVIOUS
  <2>3. Has(inner1, 4)
    BY <1>1
  <2>4. QED
    BY <2>1, <2>2, <2>3, DuringTable
<1>6. /\ Has(d, 4)
      /\ d[1] = Protected(Step("inject", "internal"), "internal")
      /\ \A i \in 1 .. 2 : d[1 + i] = Protected(inner2[i], "internal")
      /\ d[4] = Step("restore", "internal")
  <2>1. "internal" \in Words /\ d = During("internal", inner2)
    BY AllWords DEF d
  <2>2. 2 \in Nat /\ 4 \in Nat /\ 4 = 2 + 2
    OBVIOUS
  <2>3. Has(inner2, 2)
    BY <1>2
  <2>4. QED
    BY <2>1, <2>2, <2>3, DuringTable
<1>7. /\ Has(e, 4)
      /\ e[1] = Protected(Step("inject", "transport"), "transport")
      /\ \A i \in 1 .. 2 : e[1 + i] = Protected(inner3[i], "transport")
      /\ e[4] = Step("restore", "transport")
  <2>1. "transport" \in Words /\ e = During("transport", inner3)
    BY AllWords DEF e
  <2>2. 2 \in Nat /\ 4 \in Nat /\ 4 = 2 + 2
    OBVIOUS
  <2>3. Has(inner3, 2)
    BY <1>2
  <2>4. QED
    BY <2>1, <2>2, <2>3, DuringTable
<1>8. /\ Has(all, 47)
      /\ \A i \in 1 .. 12 : all[i] = Verify[i]
      /\ \A i \in 1 .. 6 : all[12 + i] = b[i]
      /\ \A i \in 1 .. 4 : all[18 + i] = c[i]
      /\ \A i \in 1 .. 4 : all[22 + i] = d[i]
      /\ \A i \in 1 .. 4 : all[26 + i] = e[i]
      /\ \A i \in 1 .. 4 : all[30 + i] = f[i]
      /\ \A i \in 1 .. 12 : all[34 + i] = Verify[i]
      /\ all[47] = h[1]
  <2>1. Has(Verify, 12)
    BY VerifyTable
  <2>2. all = Join(Join(Join(Join(Join(Join(Join(Verify, b), c), d), e), f), Verify), h)
    BY DEF all
  <2>3. /\ Has(b, 6) /\ Has(c, 4) /\ Has(d, 4) /\ Has(e, 4) /\ Has(f, 4)
        /\ Has(h, 1)
    BY <1>3, <1>4, <1>5, <1>6, <1>7
  <2>4. QED
    BY <2>1, <2>2, <2>3, Eight
<1>9. FaultTest = all
  BY DEF FaultTest, all, b, c, d, e, f, h, inner1, inner2, inner3, Join
<1>10. DOMAIN all = 1 .. 47
  BY <1>8 DEF Has
<1>11. /\ all[13] = b[1] /\ all[14] = b[2] /\ all[15] = b[3]
       /\ all[16] = b[4] /\ all[17] = b[5] /\ all[18] = b[6]
       /\ all[19] = c[1] /\ all[20] = c[2] /\ all[21] = c[3] /\ all[22] = c[4]
       /\ all[23] = d[1] /\ all[24] = d[2] /\ all[25] = d[3] /\ all[26] = d[4]
       /\ all[27] = e[1] /\ all[28] = e[2] /\ all[29] = e[3] /\ all[30] = e[4]
       /\ all[31] = f[1] /\ all[32] = f[2] /\ all[33] = f[3] /\ all[34] = f[4]
  BY <1>8
<1>12. /\ b[2] = Protected(inner1[1], "external") /\ b[3] = Protected(inner1[2], "external")
       /\ b[4] = Protected(inner1[3], "external") /\ b[5] = Protected(inner1[4], "external")
       /\ d[2] = Protected(inner2[1], "internal") /\ d[3] = Protected(inner2[2], "internal")
       /\ e[2] = Protected(inner3[1], "transport") /\ e[3] = Protected(inner3[2], "transport")
  BY <1>5, <1>6, <1>7
<1>13. QED
  BY <1>1, <1>2, <1>3, <1>4, <1>5, <1>6, <1>7, <1>8, <1>9, <1>10, <1>11, <1>12

\* What the kinds of steps leave in the table.
LEMMA Kinds ==
    /\ \A i, c : FaultTest[i] = Wait(c) => Row(i, "wait", c, "none")
    /\ \A i : FaultTest[i] = CollectCli => Row(i, "collect_cli", "none", "none")
    /\ \A i, do, what : FaultTest[i] = Step(do, what) => Row(i, do, what, "none")
    /\ \A i, c, f : FaultTest[i] = Protected(Wait(c), f) => Row(i, "wait", c, f)
    /\ \A i, f : FaultTest[i] = Protected(CollectCli, f) => Row(i, "collect_cli", "none", f)
    /\ \A i, do, what, f :
          FaultTest[i] = Protected(Step(do, what), f) => Row(i, do, what, f)
<1>1. \A do, what : /\ Step(do, what).do = do /\ Step(do, what).what = what
                    /\ Step(do, what).inside = "none"
  BY DEF Step
<1>2. \A step, f : /\ Protected(step, f).do = step.do /\ Protected(step, f).what = step.what
                   /\ Protected(step, f).inside = f
  BY DEF Protected
<1>3. QED
  BY <1>1, <1>2 DEF Row, DoAt, WhatAt, InsideAt, Wait, CollectCli

\* The rows of the table, first those of the two calls of verify.
LEMMA VerifyRows ==
    /\ Row(1, "wait", "bgp_check", "none")
    /\ Row(2, "wait", "external_route_check", "none")
    /\ Row(3, "wait", "healthy_metrics", "none")
    /\ Row(4, "collect_cli", "none", "none")
    /\ Row(5, "wait", "compare", "none")
    /\ Row(6, "wait", "ssh_external_prefixes_in_range", "none")
    /\ Row(7, "wait", "steady_metrics", "none")
    /\ Row(8, "wait", "gnmi_external_prefixes_in_range", "none")
    /\ Row(9, "initial_prefixes", "none", "none")
    /\ Row(10, "wait", "prefixes_changed", "none")
    /\ Row(11, "assert", "series", "none")
    /\ Row(12, "services", "none", "none")
    /\ Row(35, "wait", "bgp_check", "none")
    /\ Row(36, "wait", "external_route_check", "none")
    /\ Row(37, "wait", "healthy_metrics", "none")
    /\ Row(38, "collect_cli", "none", "none")
    /\ Row(39, "wait", "compare", "none")
    /\ Row(40, "wait", "ssh_external_prefixes_in_range", "none")
    /\ Row(41, "wait", "steady_metrics", "none")
    /\ Row(42, "wait", "gnmi_external_prefixes_in_range", "none")
    /\ Row(43, "initial_prefixes", "none", "none")
    /\ Row(44, "wait", "prefixes_changed", "none")
    /\ Row(45, "assert", "series", "none")
    /\ Row(46, "services", "none", "none")
<1>1. \A i \in 1 .. 12 : FaultTest[i] = Verify[i] /\ FaultTest[34 + i] = Verify[i]
  BY Program
<1>2. FaultTest[1] = Verify[1] /\ FaultTest[35] = Verify[1]
  BY <1>1, 34 + 1 = 35
<1>3. FaultTest[2] = Verify[2] /\ FaultTest[36] = Verify[2]
  BY <1>1, 34 + 2 = 36
<1>4. FaultTest[3] = Verify[3] /\ FaultTest[37] = Verify[3]
  BY <1>1, 34 + 3 = 37
<1>5. FaultTest[4] = Verify[4] /\ FaultTest[38] = Verify[4]
  BY <1>1, 34 + 4 = 38
<1>6. FaultTest[5] = Verify[5] /\ FaultTest[39] = Verify[5]
  BY <1>1, 34 + 5 = 39
<1>7. FaultTest[6] = Verify[6] /\ FaultTest[40] = Verify[6]
  BY <1>1, 34 + 6 = 40
<1>8. FaultTest[7] = Verify[7] /\ FaultTest[41] = Verify[7]
  BY <1>1, 34 + 7 = 41
<1>9. FaultTest[8] = Verify[8] /\ FaultTest[42] = Verify[8]
  BY <1>1, 34 + 8 = 42
<1>10. FaultTest[9] = Verify[9] /\ FaultTest[43] = Verify[9]
  BY <1>1, 34 + 9 = 43
<1>11. FaultTest[10] = Verify[10] /\ FaultTest[44] = Verify[10]
  BY <1>1, 34 + 10 = 44
<1>12. FaultTest[11] = Verify[11] /\ FaultTest[45] = Verify[11]
  BY <1>1, 34 + 11 = 45
<1>13. FaultTest[12] = Verify[12] /\ FaultTest[46] = Verify[12]
  BY <1>1, 34 + 12 = 46
<1>14. QED
  BY <1>2, <1>3, <1>4, <1>5, <1>6, <1>7, <1>8, <1>9, <1>10, <1>11, <1>12, <1>13, VerifyTable, Kinds

\* The rows between the two calls of verify, and the last one.
LEMMA FaultRows ==
    /\ Row(13, "inject", "external", "external")
    /\ Row(14, "wait", "session_down", "external")
    /\ Row(15, "collect_cli", "none", "external")
    /\ Row(16, "wait", "prefixes_gone", "external")
    /\ Row(17, "wait", "compare", "external")
    /\ Row(18, "restore", "external", "none")
    /\ Row(19, "wait", "session_up", "none")
    /\ Row(20, "wait", "gnmi_external_prefixes_in_range", "none")
    /\ Row(21, "collect_cli", "none", "none")
    /\ Row(22, "wait", "compare", "none")
    /\ Row(23, "inject", "internal", "internal")
    /\ Row(24, "wait", "link_down", "internal")
    /\ Row(25, "wait", "internal_reachability", "internal")
    /\ Row(26, "restore", "internal", "none")
    /\ Row(27, "inject", "transport", "transport")
    /\ Row(28, "wait", "stream_down", "transport")
    /\ Row(29, "wait", "series_removed", "transport")
    /\ Row(30, "restore", "transport", "none")
    /\ Row(31, "wait", "healthy_metrics", "none")
    /\ Row(32, "stop_task", "none", "none")
    /\ Row(33, "wait", "replaced", "none")
    /\ Row(34, "wait", "healthy_metrics", "none")
    /\ Row(47, "evidence", "none", "none")
BY Program, Kinds

\* Where the steps are that change something or conclude something.
LEMMA Table ==
    /\ \A i \in 1 .. 47 : DoAt(i) = "wait" <=>
          i \notin {4, 9, 11, 12, 13, 15, 18, 21, 23, 26, 27, 30, 32, 38, 43, 45, 46, 47}
    /\ \A i \in 1 .. 47 : DoAt(i) = "collect_cli" <=> i \in {4, 15, 21, 38}
    /\ \A i \in 1 .. 47 : DoAt(i) = "inject" <=> i \in {13, 23, 27}
    /\ \A i \in 1 .. 47 : DoAt(i) = "restore" <=> i \in {18, 26, 30}
    /\ \A i \in 1 .. 47 : DoAt(i) = "stop_task" <=> i \in {32}
    /\ \A i \in 1 .. 47 : DoAt(i) = "evidence" <=> i \in {47}
    /\ \A i \in 1 .. 47 : WhatAt(i) = "healthy_metrics" <=> i \in {3, 31, 34, 37}
    /\ \A i \in 1 .. 47 : WhatAt(i) = "compare" <=> i \in {5, 17, 22, 39}
    /\ \A i \in 1 .. 47 : WhatAt(i) = "steady_metrics" <=> i \in {7, 41}
    /\ \A i \in 1 .. 47 : WhatAt(i) = "session_down" <=> i \in {14}
    /\ \A i \in 1 .. 47 : WhatAt(i) = "prefixes_gone" <=> i \in {16}
    /\ \A i \in 1 .. 47 : WhatAt(i) = "session_up" <=> i \in {19}
    /\ \A i \in 1 .. 47 : WhatAt(i) = "link_down" <=> i \in {24}
    /\ \A i \in 1 .. 47 : WhatAt(i) = "stream_down" <=> i \in {28}
    /\ \A i \in 1 .. 47 : WhatAt(i) = "series_removed" <=> i \in {29}
    /\ \A i \in 1 .. 47 : WhatAt(i) = "replaced" <=> i \in {33}
    /\ \A i \in 1 .. 47 : WhatAt(i) = "external" <=> i \in {13, 18}
    /\ \A i \in 1 .. 47 : WhatAt(i) = "internal" <=> i \in {23, 26}
    /\ \A i \in 1 .. 47 : WhatAt(i) = "transport" <=> i \in {27, 30}
    /\ \A i \in 1 .. 47 : InsideAt(i) = "external" <=> i \in 13 .. 17
    /\ \A i \in 1 .. 47 : InsideAt(i) = "internal" <=> i \in 23 .. 25
    /\ \A i \in 1 .. 47 : InsideAt(i) = "transport" <=> i \in 27 .. 29
    /\ \A i \in 1 .. 47 : InsideAt(i) = "none" <=> i \in 1 .. 12 \cup 18 .. 22 \cup {26} \cup 30 .. 47
<1>1. \A i \in 1 .. 47 :
         \/ i = 1 \/ i = 2 \/ i = 3 \/ i = 4 \/ i = 5 \/ i = 6 \/ i = 7 \/ i = 8
         \/ i = 9 \/ i = 10 \/ i = 11 \/ i = 12 \/ i = 13 \/ i = 14 \/ i = 15
         \/ i = 16 \/ i = 17 \/ i = 18 \/ i = 19 \/ i = 20 \/ i = 21 \/ i = 22
         \/ i = 23 \/ i = 24 \/ i = 25 \/ i = 26 \/ i = 27 \/ i = 28 \/ i = 29
         \/ i = 30 \/ i = 31 \/ i = 32 \/ i = 33 \/ i = 34 \/ i = 35 \/ i = 36
         \/ i = 37 \/ i = 38 \/ i = 39 \/ i = 40 \/ i = 41 \/ i = 42 \/ i = 43
         \/ i = 44 \/ i = 45 \/ i = 46 \/ i = 47
  OBVIOUS
<1>2. \A i \in 1 .. 47 : DoAt(i) = "wait" <=>
         i \notin {4, 9, 11, 12, 13, 15, 18, 21, 23, 26, 27, 30, 32, 38, 43, 45, 46, 47}
  BY <1>1, VerifyRows, FaultRows DEF Row
<1>3. \A i \in 1 .. 47 : DoAt(i) = "collect_cli" <=> i \in {4, 15, 21, 38}
  BY <1>1, VerifyRows, FaultRows DEF Row
<1>4. \A i \in 1 .. 47 : DoAt(i) = "inject" <=> i \in {13, 23, 27}
  BY <1>1, VerifyRows, FaultRows DEF Row
<1>5. \A i \in 1 .. 47 : DoAt(i) = "restore" <=> i \in {18, 26, 30}
  BY <1>1, VerifyRows, FaultRows DEF Row
<1>6. \A i \in 1 .. 47 : DoAt(i) = "stop_task" <=> i \in {32}
  BY <1>1, VerifyRows, FaultRows DEF Row
<1>7. \A i \in 1 .. 47 : DoAt(i) = "evidence" <=> i \in {47}
  BY <1>1, VerifyRows, FaultRows DEF Row
<1>8. \A i \in 1 .. 47 : WhatAt(i) = "healthy_metrics" <=> i \in {3, 31, 34, 37}
  BY <1>1, VerifyRows, FaultRows DEF Row
<1>9. \A i \in 1 .. 47 : WhatAt(i) = "compare" <=> i \in {5, 17, 22, 39}
  BY <1>1, VerifyRows, FaultRows DEF Row
<1>10. \A i \in 1 .. 47 : WhatAt(i) = "steady_metrics" <=> i \in {7, 41}
  BY <1>1, VerifyRows, FaultRows DEF Row
<1>11. \A i \in 1 .. 47 : WhatAt(i) = "session_down" <=> i \in {14}
  BY <1>1, VerifyRows, FaultRows DEF Row
<1>12. \A i \in 1 .. 47 : WhatAt(i) = "prefixes_gone" <=> i \in {16}
  BY <1>1, VerifyRows, FaultRows DEF Row
<1>13. \A i \in 1 .. 47 : WhatAt(i) = "session_up" <=> i \in {19}
  BY <1>1, VerifyRows, FaultRows DEF Row
<1>14. \A i \in 1 .. 47 : WhatAt(i) = "link_down" <=> i \in {24}
  BY <1>1, VerifyRows, FaultRows DEF Row
<1>15. \A i \in 1 .. 47 : WhatAt(i) = "stream_down" <=> i \in {28}
  BY <1>1, VerifyRows, FaultRows DEF Row
<1>16. \A i \in 1 .. 47 : WhatAt(i) = "series_removed" <=> i \in {29}
  BY <1>1, VerifyRows, FaultRows DEF Row
<1>17. \A i \in 1 .. 47 : WhatAt(i) = "replaced" <=> i \in {33}
  BY <1>1, VerifyRows, FaultRows DEF Row
<1>18. \A i \in 1 .. 47 : WhatAt(i) = "external" <=> i \in {13, 18}
  BY <1>1, VerifyRows, FaultRows DEF Row
<1>19. \A i \in 1 .. 47 : WhatAt(i) = "internal" <=> i \in {23, 26}
  BY <1>1, VerifyRows, FaultRows DEF Row
<1>20. \A i \in 1 .. 47 : WhatAt(i) = "transport" <=> i \in {27, 30}
  BY <1>1, VerifyRows, FaultRows DEF Row
<1>21. \A i \in 1 .. 47 : InsideAt(i) = "external" <=> i \in 13 .. 17
  BY <1>1, VerifyRows, FaultRows DEF Row
<1>22. \A i \in 1 .. 47 : InsideAt(i) = "internal" <=> i \in 23 .. 25
  BY <1>1, VerifyRows, FaultRows DEF Row
<1>23. \A i \in 1 .. 47 : InsideAt(i) = "transport" <=> i \in 27 .. 29
  BY <1>1, VerifyRows, FaultRows DEF Row
<1>24. \A i \in 1 .. 47 : InsideAt(i) = "none" <=> i \in 1 .. 12 \cup 18 .. 22 \cup {26} \cup 30 .. 47
  BY <1>1, VerifyRows, FaultRows DEF Row
<1>25. QED
  BY <1>2, <1>3, <1>4, <1>5, <1>6, <1>7, <1>8, <1>9, <1>10, <1>11, <1>12, <1>13, <1>14, <1>15, <1>16, <1>17, <1>18, <1>19, <1>20, <1>21, <1>22, <1>23, <1>24

\* The step that mends a fault.
LEMMA Mends == /\ RestoreOf("external") = 18
               /\ RestoreOf("internal") = 26
               /\ RestoreOf("transport") = 30
<1>1. \A f : Step("restore", f).do = "restore" /\ Step("restore", f).what = f
  BY DEF Step
<1>2. \A f : \A i \in DOMAIN FaultTest :
         FaultTest[i] = Step("restore", f) => DoAt(i) = "restore" /\ WhatAt(i) = f
  BY <1>1 DEF DoAt, WhatAt
<1>3. \A i \in DOMAIN FaultTest :
         /\ FaultTest[i] = Step("restore", "external") => i = 18
         /\ FaultTest[i] = Step("restore", "internal") => i = 26
         /\ FaultTest[i] = Step("restore", "transport") => i = 30
  BY <1>2, Program, Table
<1>4. /\ 18 \in DOMAIN FaultTest /\ 26 \in DOMAIN FaultTest /\ 30 \in DOMAIN FaultTest
      /\ FaultTest[18] = Step("restore", "external")
      /\ FaultTest[26] = Step("restore", "internal")
      /\ FaultTest[30] = Step("restore", "transport")
  BY Program
<1>5. RestoreOf("external") = 18
  BY <1>3, <1>4 DEF RestoreOf
<1>6. RestoreOf("internal") = 26
  BY <1>3, <1>4 DEF RestoreOf
<1>7. RestoreOf("transport") = 30
  BY <1>3, <1>4 DEF RestoreOf
<1>8. QED
  BY <1>5, <1>6, <1>7

------------------------------------------------------------------------------
\* The steps of the test.  Where it is when it does what:
LEMMA Places ==
    ASSUME TesterTypes, verdict = "running"
    PROVE  /\ Running("collect_cli") => at \in {4, 15, 21, 38}
           /\ Running("inject") =>
                 \/ at = 13 /\ Now.what = "external"
                 \/ at = 23 /\ Now.what = "internal"
                 \/ at = 27 /\ Now.what = "transport"
           /\ Running("restore") =>
                 \/ at = 18 /\ Now.what = "external"
                 \/ at = 26 /\ Now.what = "internal"
                 \/ at = 30 /\ Now.what = "transport"
           /\ Running("stop_task") => at = 32
           /\ Running("evidence") => at = 47
           /\ Running("wait") =>
                 at \in 1 .. 46 \ {4, 13, 15, 18, 21, 23, 26, 27, 30, 32, 38}
           /\ Running("initial_prefixes") \/ Running("assert") \/ Running("services") =>
                 at \in {9, 11, 12, 43, 45, 46}
<1>1. at \in 1 .. 47
  BY DEF TesterTypes
<1>2. \A do : Running(do) <=> DoAt(at) = do
  BY DEF Running, Now, DoAt
<1>3. Now.what = WhatAt(at)
  BY DEF Now, WhatAt
<1>4. QED
  BY <1>1, <1>2, <1>3, Table

\* An exception: out of a try block to the call that mends, or to the end.
LEMMA Raised ==
    ASSUME TesterTypes, verdict = "running", Raise
    PROVE  /\ trouble' /\ UNCHANGED <<unrestored, runs>>
           /\ \/ /\ at \in 13 .. 17 /\ at' = 18
                 /\ failing' /\ UNCHANGED <<verdict, initial, old>>
              \/ /\ at \in 23 .. 25 /\ at' = 26
                 /\ failing' /\ UNCHANGED <<verdict, initial, old>>
              \/ /\ at \in 27 .. 29 /\ at' = 30
                 /\ failing' /\ UNCHANGED <<verdict, initial, old>>
              \/ /\ at \in 1 .. 12 \cup 18 .. 22 \cup {26} \cup 30 .. 47
                 /\ Ends("failed")
<1>1. at \in 1 .. 47
  BY DEF TesterTypes
<1>2. Now.inside = InsideAt(at)
  BY DEF Now, InsideAt
<1>3. \/ at \in 13 .. 17 /\ Now.inside = "external"
      \/ at \in 23 .. 25 /\ Now.inside = "internal"
      \/ at \in 27 .. 29 /\ Now.inside = "transport"
      \/ at \in 1 .. 12 \cup 18 .. 22 \cup {26} \cup 30 .. 47 /\ Now.inside = "none"
  BY <1>1, <1>2, Table
<1>4. QED
  BY <1>3, Mends DEF Raise

\* A sample that is seen is the newest one of the task that runs.
LEMMA Seen ==
    ASSUME NEW s, NEW v, MetricEquals(s, v)
    PROVE  status = "RUNNING" /\ sample[task][s] = v
BY DEF MetricEquals, Current, Targets

\* The checks by name.
LEMMA Checks ==
    /\ Check("healthy_metrics") => HealthyMetrics
    /\ Check("compare") => Compare
    /\ Check("steady_metrics") => SteadyMetrics
    /\ Check("session_down") => MetricEquals("session", 0)
    /\ Check("prefixes_gone") => PrefixesGone
    /\ Check("session_up") => MetricEquals("session", 1)
    /\ Check("link_down") => MetricEquals("oper", 0)
    /\ Check("stream_down") => MetricEquals("edge1", 0)
    /\ Check("series_removed") => Current("session") = {}
    /\ Check("replaced") => Replaced
BY DEF Check

\* What a wait that ended well has seen.
LEMMA Waited ==
    ASSUME TesterTypes, Pass
    PROVE  /\ at \in {3, 31, 34, 37} => HealthyMetrics
           /\ at \in {5, 17, 22, 39} => Compare
           /\ at \in {7, 41} => SteadyMetrics
           /\ at = 14 => MetricEquals("session", 0)
           /\ at = 16 => PrefixesGone
           /\ at = 19 => MetricEquals("session", 1)
           /\ at = 24 => MetricEquals("oper", 0)
           /\ at = 28 => MetricEquals("edge1", 0)
           /\ at = 29 => Current("session") = {}
           /\ at = 33 => Replaced
<1>1. at \in 1 .. 47
  BY DEF TesterTypes
<1>2. Check(WhatAt(at))
  BY DEF Pass, WhatAt, Now
<1>3. QED
  BY <1>1, <1>2, Table, Checks

------------------------------------------------------------------------------
\* The invariant holds in the lab as "make up" leaves it.
LEMMA InitInv == Init => IInv
<1> SUFFICES ASSUME Init PROVE IInv
  OBVIOUS
<1> USE AcceptanceAssumption
<1>1. /\ sample[task] = Exposed
      /\ \A t \in 1 .. MaxRuns + 1 : t # 1 => sample[t] = Nothing
  BY DEF Init
<1>2. shown \in [Series -> Counts \cup Bit] /\ connected \in [Stream -> BOOLEAN]
  BY DEF Init, Counts, Bit, Series, Stream
<1>3. Exposed \in [Stream \cup Series -> Counts \cup Bit]
  BY <1>2 DEF Exposed, Counts, Bit
<1>4. Nothing \in [Stream \cup Series -> Counts \cup Bit]
  BY DEF Nothing, Counts, Bit
<1>5. TesterTypes /\ DeviceTypes /\ ChainTypes
  <2>1. at \in 1 .. 47 /\ old \in Nat
    BY DEF Init
  <2>2. failing \in BOOLEAN
    BY Zenon DEF Init
  <2>3. TesterTypes
    BY <2>1, <2>2 DEF Init, TesterTypes, Fault
  <2>4. DeviceTypes
    BY <1>2 DEF Init, DeviceTypes
  <2>5. \A d \in Stream : connected[d]
    BY DEF Init
  <2>6. \A s \in Series : Of(s) \in Stream
    BY DEF Of, Stream
  <2>7. ChainTypes
    BY <1>2, <2>4, <2>5, <2>6 DEF Init, ChainTypes, DeviceTypes, Bit
  <2>8. QED
    BY <2>3, <2>4, <2>7
<1>6. Samples
  BY <1>3, <1>4 DEF Init, Samples
<1>7. sample[task]["session"] = 1 /\ \A d \in Stream : sample[task][d] = 1
  BY <1>1 DEF Init, Exposed, Series, Stream
<1>8. FaultInv /\ TaskInv
  BY DEF Init, FaultInv, TaskInv, Fault
<1>9. SessionInv /\ LinkInv /\ StreamInv /\ SshInv
  BY <1>7 DEF Init, SessionInv, LinkInv, StreamInv, SshInv, Say, Streams, Stream
<1>10. QED
  BY <1>5, <1>6, <1>8, <1>9 DEF IInv, TypeInv

\* A step of the test that leaves devices, chain and task alone.
LEMMA Kept ==
    ASSUME IInv, UNCHANGED <<device, service, exporter, sample, runs>>,
           old' \in Nat, old' <= task
    PROVE  DeviceTypes' /\ ChainTypes' /\ Samples'
<1>1. DeviceTypes'
  BY DEF IInv, TypeInv, DeviceTypes
<1>2. ChainTypes'
  BY DEF IInv, TypeInv, ChainTypes, service, exporter
<1>3. Samples'
  <2>1. /\ task' = task /\ status' = status /\ runs' = runs /\ sample' = sample
        /\ Nothing' = Nothing
    BY DEF service, Nothing
  <2>2. Samples
    BY DEF IInv, TypeInv
  <2>3. /\ task' \in Nat /\ runs' \in Nat
        /\ 1 <= task' /\ task' <= runs' + 1 /\ runs' <= MaxRuns
        /\ status' = "none" => task' <= runs'
        /\ old' <= task'
    BY <2>1, <2>2 DEF Samples
  <2>4. sample' \in [1 .. MaxRuns + 1 -> [Stream \cup Series -> Counts \cup Bit]]
    BY <2>1, <2>2 DEF Samples
  <2>5. \A t \in 1 .. MaxRuns + 1 :
          t > task' \/ (t = task' /\ status' = "PENDING") => sample'[t] = Nothing'
    BY <2>1, <2>2 DEF Samples
  <2>6. QED
    BY <2>3, <2>4, <2>5 DEF Samples
<1>4. QED
  BY <1>1, <1>2, <1>3

\* A test that is over: only its faults are left to speak of.
LEMMA Over ==
    ASSUME IInv, NEW v \in {"passed", "failed", "killed"}, Ends(v),
           UNCHANGED <<device, service, exporter, sample, history, runs>>,
           injected' \subseteq injected, unrestored' \subseteq Fault,
           injected' \subseteq unrestored', v = "passed" => injected' = {}
    PROVE  IInv'
<1>1. TesterTypes'
  <2>1. at' \in 1 .. 47 /\ old' \in Nat
    BY DEF Ends
  <2>2. failing' \in BOOLEAN
    BY Zenon DEF Ends
  <2>3. injected' \subseteq Fault
    BY DEF IInv, TypeInv, TesterTypes
  <2>4. verdict' \in {"running", "passed", "failed", "killed"}
    BY DEF Ends
  <2>5. QED
    BY <2>1, <2>2, <2>3, <2>4 DEF TesterTypes
<1>2. DeviceTypes' /\ ChainTypes' /\ Samples'
  <2>1. old' \in Nat /\ old' <= task
    BY DEF IInv, TypeInv, Samples, Ends
  <2>2. QED
    BY <2>1, Kept
<1>3. verdict' # "running" /\ ~failing' /\ at' = 1
  BY DEF Ends
<1>4. FaultInv'
  BY <1>3 DEF IInv, FaultInv, Ends
<1>5. TaskInv' /\ SessionInv' /\ LinkInv' /\ StreamInv' /\ SshInv'
  BY <1>3 DEF TaskInv, SessionInv, LinkInv, StreamInv, SshInv
<1>6. QED
  BY <1>1, <1>2, <1>4, <1>5 DEF IInv, TypeInv

\* An exception in a try block: what is known of the streams and of the session
\* does not matter until the fault is mended.
LEMMA Thrown ==
    ASSUME IInv, verdict = "running", failing', UNCHANGED <<verdict, old>>,
           UNCHANGED <<device, service, exporter, sample, history, unrestored, runs>>,
           \/ at \in 13 .. 17 /\ at' = 18
           \/ at \in 23 .. 25 /\ at' = 26
           \/ at \in 27 .. 29 /\ at' = 30,
           failing' \in BOOLEAN, injected' \subseteq FaultOf(at')
    PROVE  IInv'
<1>1. injected' \subseteq Fault
  BY DEF FaultOf, Fault
<1>2. TesterTypes'
  BY <1>1 DEF IInv, TypeInv, TesterTypes
<1>3. DeviceTypes' /\ ChainTypes' /\ Samples'
  <2>1. old' \in Nat /\ old' <= task
    BY DEF IInv, TypeInv, TesterTypes, Samples
  <2>2. QED
    BY <2>1, Kept
<1>4. FaultInv'
  BY DEF FaultInv, FaultOf, Fault
<1>5. TaskInv'
  BY DEF IInv, TaskInv, service
<1>6. SessionInv' /\ LinkInv' /\ StreamInv' /\ SshInv'
  BY DEF SessionInv, LinkInv, StreamInv, SshInv
<1>7. QED
  BY <1>2, <1>3, <1>4, <1>5, <1>6 DEF IInv, TypeInv

\* An exception that changes nothing in the lab.
LEMMA RaisedInv == ASSUME IInv, verdict = "running", Raise, UNCHANGED lab,
                          at \notin {13, 18, 23, 26, 27, 30}
                   PROVE  IInv'
<1>1. TesterTypes
  BY DEF IInv, TypeInv
<1>2. ~failing
  BY DEF IInv, FaultInv
<1>3. UNCHANGED <<device, service, exporter, sample, history, injected>>
  BY DEF lab, devices
<1>4. UNCHANGED <<unrestored, runs>>
  BY DEF Raise
<1>5. CASE at \in 1 .. 12 \cup 18 .. 22 \cup {26} \cup 30 .. 47 /\ Ends("failed")
  <2>1. injected \subseteq unrestored
    BY <1>2, <1>5 DEF IInv, FaultInv, FaultOf
  <2>2. unrestored \subseteq Fault
    BY <1>1 DEF TesterTypes
  <2>3. QED
    BY <1>3, <1>4, <1>5, <2>1, <2>2, Over
<1>6. CASE /\ \/ at \in 13 .. 17 /\ at' = 18
              \/ at \in 23 .. 25 /\ at' = 26
              \/ at \in 27 .. 29 /\ at' = 30
           /\ failing' /\ UNCHANGED <<verdict, initial, old>>
  <2>1. injected' \subseteq FaultOf(at')
    BY <1>2, <1>3, <1>6 DEF IInv, FaultInv, FaultOf
  <2>2. failing' \in BOOLEAN
    BY <1>6 DEF Raise
  <2>3. QED
    BY <1>3, <1>4, <1>6, <2>1, <2>2, Thrown
<1>7. QED
  BY <1>1, <1>5, <1>6, Raised

\* The test goes on to its next step, and the lab stays as it is.
LEMMA Onward ==
    ASSUME IInv, verdict = "running", Goes, at \in 1 .. 46, ~failing, old' \in Nat,
           old' <= task, UNCHANGED <<device, service, exporter, sample>>
    PROVE  /\ DeviceTypes' /\ ChainTypes' /\ Samples'
           /\ at' = at + 1 /\ ~failing' /\ verdict' = "running"
           /\ at' \in 1 .. 47 /\ failing' \in BOOLEAN /\ unrestored' \subseteq Fault
<1>1. /\ at' = at + 1 /\ verdict' = verdict /\ failing' = failing
      /\ unrestored' = unrestored /\ runs' = runs
  BY DEF Goes, ghosts
<1>2. DeviceTypes' /\ ChainTypes' /\ Samples'
  BY <1>1, Kept
<1>3. failing' \in BOOLEAN /\ unrestored' \subseteq Fault
  BY <1>1 DEF IInv, TypeInv, TesterTypes
<1>4. QED
  BY <1>1, <1>2, <1>3

\* A step that changes nothing but the place and the documents of the CLI
\* collector: what the next place wants to be known has been seen.
LEMMA Advance ==
    ASSUME IInv, verdict = "running", Goes, UNCHANGED <<old, injected>>,
           UNCHANGED <<device, service, exporter, sample>>,
           at \in 1 .. 46 \ {13, 18, 23, 26, 27, 30, 32},
           at = 7 => SteadyMetrics,
           at = 14 => MetricEquals("session", 0),
           at = 19 => MetricEquals("session", 1),
           at = 28 => MetricEquals("edge1", 0),
           at = 33 => Replaced,
           at \in {4, 15, 16, 21, 38} => ssh'["session"] = device["session"]
    PROVE  IInv'
<1>1. TesterTypes /\ at \in 1 .. 46
  BY DEF IInv, TypeInv
<1>2. ~failing
  BY DEF IInv, FaultInv
<1>3. /\ device' = device /\ shown' = shown /\ connected' = connected /\ task' = task
      /\ status' = status /\ sample' = sample /\ injected' = injected /\ old' = old
  BY DEF service, exporter
<1>4. /\ DeviceTypes' /\ ChainTypes' /\ Samples'
      /\ at' = at + 1 /\ ~failing' /\ verdict' = "running"
      /\ at' \in 1 .. 47 /\ failing' \in BOOLEAN /\ unrestored' \subseteq Fault
  <2>1. old' \in Nat /\ old' <= task
    BY DEF IInv, TypeInv, TesterTypes, Samples
  <2>2. QED
    BY <1>1, <1>2, <2>1, Onward
<1>5. TesterTypes'
  BY <1>1, <1>3, <1>4 DEF TesterTypes
<1>6. FaultInv'
  <2>1. CASE at <= 6
    BY <1>1, <1>2, <1>3, <1>4, <2>1 DEF IInv, FaultInv, Goes, ghosts
  <2>2. CASE at = 7
    <3>1. /\ sample[task]["session"] = 1 /\ sample[task]["oper"] = 1
          /\ sample[task]["edge1"] = 1
      BY <2>2, Seen DEF SteadyMetrics, InterfacesUp, HealthyMetrics, Stream
    <3>2. "external" \notin injected
      BY <1>2, <2>2, <3>1, AcceptanceAssumption DEF IInv, SessionInv, Say
    <3>3. "internal" \notin injected
      BY <1>2, <2>2, <3>1, AcceptanceAssumption DEF IInv, LinkInv, Say
    <3>4. "transport" \notin injected
      BY <1>2, <2>2, <3>1 DEF IInv, StreamInv, Silent
    <3>5. injected' = {}
      BY <1>1, <1>3, <3>2, <3>3, <3>4 DEF TesterTypes, Fault
    <3>6. QED
      BY <1>4, <2>2, <3>5 DEF FaultInv, FaultOf, Fault
  <2>3. CASE at > 7
    BY <1>1, <1>2, <1>3, <1>4, <2>3 DEF IInv, FaultInv, FaultOf
  <2>4. QED
    BY <1>1, <2>1, <2>2, <2>3
<1>7. TaskInv'
  <2>1. runs' = runs
    BY DEF Goes, ghosts
  <2>2. QED
    BY <1>1, <1>3, <1>4, <2>1 DEF IInv, TaskInv, Replaced
<1>8. SessionInv'
  <2>1. /\ at = 14 => sample[task]["session"] = 0
        /\ at = 19 => sample[task]["session"] = 1
    BY Seen
  <2>2. QED
    BY <1>1, <1>2, <1>3, <1>4, <2>1 DEF IInv, SessionInv, Say, Passed
<1>9. LinkInv'
  BY <1>1, <1>3, <1>4 DEF IInv, LinkInv, Say
<1>10. StreamInv'
  <2>1. at = 28 => sample[task]["edge1"] = 0
    BY Seen
  <2>2. QED
    BY <1>1, <1>2, <1>3, <1>4, <2>1 DEF IInv, StreamInv, Streams, Silent
<1>11. SshInv'
  BY <1>1, <1>2, <1>3, <1>4 DEF IInv, SshInv
<1>12. QED
  BY <1>4, <1>5, <1>6, <1>7, <1>8, <1>9, <1>10, <1>11 DEF IInv, TypeInv

\* A wait ends well, and what it saw is what the next place wants.
LEMMA PassInv == ASSUME IInv, Pass PROVE IInv'
<1>1. /\ verdict = "running" /\ Goes /\ Running("wait")
      /\ UNCHANGED <<old, injected, device, service, exporter, sample, ssh>>
  BY DEF Pass, Running, lab, devices, history
<1>2. TesterTypes
  BY DEF IInv, TypeInv
<1>3. at \in 1 .. 46 \ {4, 13, 15, 18, 21, 23, 26, 27, 30, 32, 38}
  BY <1>1, <1>2, Places
<1>4. ~failing
  BY <1>3 DEF IInv, FaultInv
<1>5. at = 16 => ssh'["session"] = device["session"]
  BY <1>1, <1>4 DEF IInv, SshInv
<1>6. QED
  BY <1>1, <1>2, <1>3, <1>5, Waited, Advance

\* The prefixes are read for the comparison to come.
LEMMA ReadInitialInv == ASSUME IInv, ReadInitial PROVE IInv'
<1>1. /\ verdict = "running" /\ Goes /\ Running("initial_prefixes")
      /\ UNCHANGED <<old, injected, device, service, exporter, sample>>
  BY DEF ReadInitial, Running, lab, devices
<1>2. at \in {9, 11, 12, 43, 45, 46}
  BY <1>1, Places DEF IInv, TypeInv
<1>3. QED
  BY <1>1, <1>2, Advance

\* Grafana answers.
LEMMA ServicesInv == ASSUME IInv, Services PROVE IInv'
<1>1. /\ verdict = "running" /\ Goes /\ Running("services")
      /\ UNCHANGED <<old, injected, device, service, exporter, sample>>
  BY DEF Services, Running, lab, devices
<1>2. at \in {9, 11, 12, 43, 45, 46}
  BY <1>1, Places DEF IInv, TypeInv
<1>3. QED
  BY <1>1, <1>2, Advance

\* The assertions hold, or one of them raises.
LEMMA AssertsInv == ASSUME IInv, Asserts PROVE IInv'
<1>1. /\ verdict = "running" /\ Running("assert") /\ UNCHANGED lab
      /\ UNCHANGED <<injected, device, service, exporter, sample>>
  BY DEF Asserts, Running, lab, devices
<1>2. at \in {9, 11, 12, 43, 45, 46}
  BY <1>1, Places DEF IInv, TypeInv
<1>3. CASE Goes /\ UNCHANGED <<initial, old>>
  BY <1>1, <1>2, <1>3, Advance
<1>4. CASE Raise
  BY <1>1, <1>2, <1>4, RaisedInv
<1>5. QED
  BY <1>3, <1>4 DEF Asserts

\* The CLI collection stores what the devices say.
LEMMA CollectInv == ASSUME IInv, Collect PROVE IInv'
<1>1. /\ verdict = "running" /\ Goes /\ Running("collect_cli") /\ ssh' = device
      /\ UNCHANGED <<old, injected, device, service, exporter, sample>>
  BY DEF Collect, Running, devices
<1>2. at \in {4, 15, 21, 38}
  BY <1>1, Places DEF IInv, TypeInv
<1>3. QED
  BY <1>1, <1>2, Advance

\* The test is over and has passed; nothing is broken at its last step.
LEMMA EvidenceInv == ASSUME IInv, Evidence PROVE IInv'
<1>1. /\ verdict = "running" /\ Ends("passed") /\ Running("evidence")
      /\ UNCHANGED <<injected, device, service, exporter, sample, history>>
      /\ unrestored' = unrestored /\ runs' = runs
  BY DEF Evidence, Running, lab, devices, ghosts
<1>2. at = 47
  BY <1>1, Places DEF IInv, TypeInv
<1>3. injected = {}
  BY <1>1, <1>2 DEF IInv, FaultInv, FaultOf
<1>4. unrestored' \subseteq Fault
  BY <1>1 DEF IInv, TypeInv, TesterTypes
<1>5. QED
  BY <1>1, <1>3, <1>4, Over

\* A fault goes into a lab in which nothing is broken.
LEMMA InjectInv == ASSUME IInv, Inject PROVE IInv'
<1>1. /\ verdict = "running" /\ Goes /\ Running("inject")
      /\ injected' = injected \cup {Now.what}
      /\ UNCHANGED <<old, device, service, exporter, sample, ssh>>
  BY DEF Inject, Running, history
<1>2. /\ device' = device /\ shown' = shown /\ connected' = connected /\ task' = task
      /\ status' = status /\ sample' = sample /\ runs' = runs
  BY <1>1 DEF service, exporter, Goes, ghosts
<1>3. TesterTypes
  BY DEF IInv, TypeInv
<1>4. \/ at = 13 /\ Now.what = "external"
      \/ at = 23 /\ Now.what = "internal"
      \/ at = 27 /\ Now.what = "transport"
  BY <1>1, <1>3, Places
<1>5. ~failing
  BY <1>4 DEF IInv, FaultInv
<1>6. injected = {} /\ injected' = {Now.what}
  BY <1>1, <1>4, <1>5 DEF IInv, FaultInv, FaultOf
<1>7. /\ DeviceTypes' /\ ChainTypes' /\ Samples'
      /\ at' = at + 1 /\ ~failing' /\ verdict' = "running"
      /\ at' \in 1 .. 47 /\ failing' \in BOOLEAN /\ unrestored' \subseteq Fault
  <2>1. old' \in Nat /\ old' <= task
    BY <1>1 DEF IInv, TypeInv, TesterTypes, Samples
  <2>2. QED
    BY <1>1, <1>4, <1>5, <2>1, Onward
<1>8. TesterTypes'
  BY <1>1, <1>3, <1>4, <1>6, <1>7 DEF TesterTypes, Fault
<1>9. FaultInv'
  <2>1. injected' = FaultOf(at')
    BY <1>4, <1>6, <1>7 DEF FaultOf
  <2>2. QED
    BY <1>4, <1>6, <1>7, <2>1 DEF FaultInv, Fault
<1>10. TaskInv'
  BY <1>1, <1>2, <1>4, <1>7 DEF IInv, TaskInv
<1>11. SessionInv'
  BY <1>1, <1>2, <1>4, <1>5, <1>6, <1>7, AcceptanceAssumption
     DEF IInv, SessionInv, Say, Passed
<1>12. LinkInv' /\ SshInv'
  BY <1>4, <1>7 DEF LinkInv, SshInv
<1>13. StreamInv'
  BY <1>1, <1>2, <1>4, <1>5, <1>6, <1>7 DEF IInv, StreamInv, Streams
<1>14. QED
  BY <1>7, <1>8, <1>9, <1>10, <1>11, <1>12, <1>13 DEF IInv, TypeInv

\* The finally block mends the only fault there is.
LEMMA RestoreInv == ASSUME IInv, Restore PROVE IInv'
<1>1. /\ verdict = "running" /\ Running("restore")
      /\ injected' = injected \ {Now.what}
      /\ UNCHANGED <<device, service, exporter, sample, history>>
      /\ unrestored' = unrestored /\ runs' = runs
  BY DEF Restore, Running, Goes, ghosts
<1>2. /\ device' = device /\ shown' = shown /\ connected' = connected /\ task' = task
      /\ status' = status /\ sample' = sample /\ runs' = runs
  BY <1>1 DEF service, exporter
<1>3. TesterTypes
  BY DEF IInv, TypeInv
<1>4. \/ at = 18 /\ Now.what = "external"
      \/ at = 26 /\ Now.what = "internal"
      \/ at = 30 /\ Now.what = "transport"
  BY <1>1, <1>3, Places
<1>5. injected' = {} /\ injected \subseteq {Now.what}
  BY <1>1, <1>4 DEF IInv, FaultInv, FaultOf
<1>6. CASE failing /\ Ends("failed")
  <2>1. unrestored' \subseteq Fault
    BY <1>1, <1>3 DEF TesterTypes
  <2>2. QED
    BY <1>1, <1>5, <1>6, <2>1, Over
<1>7. CASE ~failing /\ Goes /\ UNCHANGED <<initial, old>>
  <2>1. /\ DeviceTypes' /\ ChainTypes' /\ Samples'
        /\ at' = at + 1 /\ ~failing' /\ verdict' = "running"
        /\ at' \in 1 .. 47 /\ failing' \in BOOLEAN /\ unrestored' \subseteq Fault
    <3>1. old' \in Nat /\ old' <= task
      BY <1>7 DEF IInv, TypeInv, TesterTypes, Samples
    <3>2. QED
      BY <1>1, <1>4, <1>7, <3>1, Onward
  <2>2. TesterTypes'
    BY <1>3, <1>5, <1>7, <2>1 DEF TesterTypes
  <2>3. FaultInv'
    <3>1. FaultOf(at') = {}
      BY <1>4, <2>1 DEF FaultOf
    <3>2. QED
      BY <1>4, <1>5, <2>1, <3>1 DEF FaultInv, Fault
  <2>4. TaskInv'
    BY <1>1, <1>2, <1>4, <1>7, <2>1 DEF IInv, TaskInv
  <2>5. SessionInv'
    BY <1>1, <1>2, <1>4, <1>7, <2>1, AcceptanceAssumption
       DEF IInv, SessionInv, Say, Passed
  <2>6. LinkInv' /\ SshInv'
    BY <1>4, <2>1 DEF LinkInv, SshInv
  <2>7. StreamInv'
    <3>1. at = 26 => "transport" \notin injected
      BY <1>4, <1>5
    <3>2. at = 30 => \A d \in Stream : sample[task][d] = 1 => connected[d]
      BY <1>1, <1>7 DEF IInv, StreamInv, Silent, Streams, Stream
    <3>3. QED
      BY <1>1, <1>2, <1>4, <1>5, <1>7, <2>1, <3>1, <3>2
         DEF IInv, StreamInv, Streams
  <2>8. QED
    BY <2>1, <2>2, <2>3, <2>4, <2>5, <2>6, <2>7 DEF IInv, TypeInv
<1>8. QED
  BY <1>6, <1>7 DEF Restore

\* The exporter of the stopped task goes with it.
LEMMA StopTaskInv == ASSUME IInv, StopTask PROVE IInv'
<1>1. /\ verdict = "running" /\ Goes /\ Running("stop_task")
      /\ old' = task /\ status' = "none"
      /\ connected' = [d \in Stream |-> FALSE]
      /\ shown' = [s \in Series |-> None]
      /\ UNCHANGED <<injected, device, task, sample, ssh>>
  BY DEF StopTask, Running, devices, history
<1>2. at = 32 /\ TesterTypes
  BY <1>1, Places DEF IInv, TypeInv
<1>3. ~failing
  BY <1>2 DEF IInv, FaultInv
<1>4. /\ at' = 33 /\ ~failing' /\ verdict' = "running" /\ failing' = failing
      /\ unrestored' = unrestored /\ runs' = runs
  BY <1>1, <1>2, <1>3 DEF Goes, ghosts
<1>5. TesterTypes'
  BY <1>1, <1>2, <1>4 DEF IInv, TypeInv, Samples, TesterTypes
<1>6. DeviceTypes'
  BY <1>1 DEF IInv, TypeInv, DeviceTypes
<1>7. ChainTypes'
  <2>1. connected' \in [Stream -> BOOLEAN] /\ \A d \in Stream : ~connected'[d]
    BY <1>1
  <2>2. shown' \in [Series -> Counts \cup Bit] /\ \A s \in Series : shown'[s] = None
    BY <1>1 DEF Bit
  <2>3. QED
    BY <1>1, <2>1, <2>2 DEF ChainTypes, Bit, Series
<1>8. Samples'
  <2>1. task <= runs /\ Samples /\ Nothing' = Nothing
    BY <1>1, <1>2 DEF IInv, TypeInv, TaskInv, Nothing
  <2>2. /\ task' \in Nat /\ runs' \in Nat
        /\ 1 <= task' /\ task' <= runs' + 1 /\ runs' <= MaxRuns
        /\ status' = "none" => task' <= runs'
        /\ old' <= task'
    BY <1>1, <1>4, <2>1 DEF Samples
  <2>3. sample' \in [1 .. MaxRuns + 1 -> [Stream \cup Series -> Counts \cup Bit]]
    BY <1>1, <2>1 DEF Samples
  <2>4. \A t \in 1 .. MaxRuns + 1 :
          t > task' \/ (t = task' /\ status' = "PENDING") => sample'[t] = Nothing'
    BY <1>1, <2>1 DEF Samples
  <2>5. QED
    BY <2>2, <2>3, <2>4 DEF Samples
<1>9. FaultInv'
  <2>1. FaultOf(at) = {} /\ FaultOf(at') = {}
    BY <1>2, <1>4 DEF FaultOf
  <2>2. QED
    BY <1>1, <1>2, <1>3, <1>4, <2>1 DEF IInv, FaultInv
<1>10. TaskInv' /\ LinkInv' /\ SshInv'
  BY <1>4 DEF TaskInv, LinkInv, SshInv
<1>11. SessionInv'
  <2>1. shown'["session"] = None
    BY <1>1 DEF Series
  <2>2. QED
    BY <1>1, <1>2, <1>3, <1>4, <2>1 DEF IInv, SessionInv, Say
<1>12. StreamInv'
  BY <1>1, <1>4 DEF StreamInv
<1>13. QED
  BY <1>5, <1>6, <1>7, <1>8, <1>9, <1>10, <1>11, <1>12 DEF IInv, TypeInv

\* What can go wrong.
LEMMA ExpireInv == ASSUME IInv, Expire PROVE IInv'
<1>1. verdict = "running" /\ Raise /\ Running("wait") /\ UNCHANGED lab
  BY DEF Expire, Running
<1>2. at \in 1 .. 46 \ {4, 13, 15, 18, 21, 23, 26, 27, 30, 32, 38}
  BY <1>1, Places DEF IInv, TypeInv
<1>3. QED
  BY <1>1, <1>2, RaisedInv

\* The call that breaks something raises, inside its own try block.
LEMMA InjectRaisesInv == ASSUME IInv, InjectRaises PROVE IInv'
<1>1. /\ verdict = "running" /\ Raise /\ Running("inject")
      /\ injected' \subseteq injected \cup {Now.what}
      /\ UNCHANGED <<device, service, exporter, sample, history>>
  BY DEF InjectRaises, Running
<1>2. TesterTypes
  BY DEF IInv, TypeInv
<1>3. \/ at = 13 /\ Now.what = "external"
      \/ at = 23 /\ Now.what = "internal"
      \/ at = 27 /\ Now.what = "transport"
  BY <1>1, <1>2, Places
<1>4. /\ failing' /\ UNCHANGED <<verdict, old, unrestored, runs>>
      /\ \/ at = 13 /\ at' = 18
         \/ at = 23 /\ at' = 26
         \/ at = 27 /\ at' = 30
  BY <1>1, <1>2, <1>3, Raised
<1>5. injected = {}
  BY <1>1, <1>3 DEF IInv, FaultInv, FaultOf
<1>6. injected' \subseteq FaultOf(at')
  BY <1>1, <1>3, <1>4, <1>5 DEF FaultOf
<1>7. failing' \in BOOLEAN
  <2>1. Now.inside # "none"
    <3>1. at \in 1 .. 47 /\ Now.inside = InsideAt(at)
      BY <1>2 DEF TesterTypes, Now, InsideAt
    <3>2. QED
      BY <1>3, <3>1, Table
  <2>2. QED
    BY <1>1, <2>1 DEF Raise
<1>8. \/ at \in 13 .. 17 /\ at' = 18
      \/ at \in 23 .. 25 /\ at' = 26
      \/ at \in 27 .. 29 /\ at' = 30
  BY <1>4
<1>9. QED
  BY <1>1, <1>4, <1>6, <1>7, <1>8, Thrown

\* The call that mends raises; the fault is on record.
LEMMA RestoreRaisesInv == ASSUME IInv, RestoreRaises PROVE IInv'
<1>1. /\ verdict = "running" /\ Running("restore") /\ Ends("failed")
      /\ injected' \subseteq injected
      /\ unrestored' = unrestored \cup {Now.what}
      /\ UNCHANGED <<runs, device, service, exporter, sample, history>>
  BY DEF RestoreRaises, Running
<1>2. TesterTypes
  BY DEF IInv, TypeInv
<1>3. \/ at = 18 /\ Now.what = "external"
      \/ at = 26 /\ Now.what = "internal"
      \/ at = 30 /\ Now.what = "transport"
  BY <1>1, <1>2, Places
<1>4. injected \subseteq {Now.what}
  BY <1>1, <1>3 DEF IInv, FaultInv, FaultOf
<1>5. unrestored' \subseteq Fault
  BY <1>1, <1>2, <1>3 DEF TesterTypes, Fault
<1>6. injected' \subseteq unrestored'
  BY <1>1, <1>4
<1>7. QED
  BY <1>1, <1>5, <1>6, Over

\* Another call raises.
LEMMA CallRaisesInv == ASSUME IInv, CallRaises PROVE IInv'
<1>1. /\ verdict = "running" /\ Raise /\ UNCHANGED lab
      /\ Running("collect_cli") \/ Running("services") \/ Running("stop_task")
  BY DEF CallRaises, Running
<1>2. at \notin {13, 18, 23, 26, 27, 30}
  BY <1>1, Places DEF IInv, TypeInv
<1>3. QED
  BY <1>1, <1>2, RaisedInv

\* The process is killed; what is broken is on record.
LEMMA KillInv == ASSUME IInv, Kill PROVE IInv'
<1>1. /\ Ends("killed") /\ unrestored' = unrestored \cup injected
      /\ UNCHANGED <<injected, device, service, exporter, sample, history, runs>>
  BY DEF Kill, lab, devices
<1>2. unrestored' \subseteq Fault
  BY <1>1 DEF IInv, TypeInv, TesterTypes
<1>3. QED
  BY <1>1, <1>2, Over

\* The next test finds a lab that has settled, with what is still broken in it.
LEMMA AgainInv == ASSUME IInv, Again PROVE IInv'
<1>1. /\ verdict # "running" /\ runs < MaxRuns /\ Settled
      /\ at' = 1 /\ verdict' = "running" /\ failing' = FALSE /\ old' = 0
      /\ runs' = runs + 1 /\ UNCHANGED <<injected, device, sample, unrestored, ssh>>
      /\ UNCHANGED <<task, status, connected, shown>>
  BY DEF Again, devices, service, exporter, history
<1>2. TesterTypes /\ DeviceTypes /\ ChainTypes /\ Samples
  BY DEF IInv, TypeInv
<1>3. TesterTypes'
  <2>1. at' \in 1 .. 47 /\ old' \in Nat
    BY <1>1
  <2>2. failing' \in BOOLEAN
    BY <1>1, Zenon
  <2>3. QED
    BY <1>1, <1>2, <2>1, <2>2 DEF TesterTypes
<1>4. DeviceTypes'
  BY <1>1, <1>2 DEF DeviceTypes
<1>5. ChainTypes'
  BY <1>1, <1>2 DEF ChainTypes
<1>6. Samples'
  <2>1. Nothing' = Nothing
    BY DEF Nothing
  <2>2. /\ task' \in Nat /\ runs' \in Nat
        /\ 1 <= task' /\ task' <= runs' + 1 /\ runs' <= MaxRuns
        /\ status' = "none" => task' <= runs'
        /\ old' <= task'
    BY <1>1, <1>2, AcceptanceAssumption DEF Samples
  <2>3. sample' \in [1 .. MaxRuns + 1 -> [Stream \cup Series -> Counts \cup Bit]]
    BY <1>1, <1>2 DEF Samples
  <2>4. \A t \in 1 .. MaxRuns + 1 :
          t > task' \/ (t = task' /\ status' = "PENDING") => sample'[t] = Nothing'
    BY <1>1, <1>2, <2>1 DEF Samples
  <2>5. QED
    BY <2>2, <2>3, <2>4 DEF Samples
<1>7. ~failing'
  BY <1>1
<1>8. FaultInv'
  BY <1>1, <1>7 DEF IInv, FaultInv
<1>9. TaskInv'
  BY <1>1, <1>2 DEF TaskInv, Settled, Samples
<1>10. sample[task] = Exposed
  <2>1. task \in 1 .. MaxRuns + 1 /\ DOMAIN sample = 1 .. MaxRuns + 1
    BY <1>1, <1>2, AcceptanceAssumption DEF Samples
  <2>2. QED
    BY <1>1, <2>1 DEF Settled
<1>11. /\ \A s \in Series : sample[task][s] = shown[s]
       /\ \A d \in Stream : sample[task][d] = IF connected[d] THEN 1 ELSE 0
  BY <1>10 DEF Exposed, Series, Stream
<1>12. \A s \in Series : shown[s] \in {device[s], None}
  BY <1>1 DEF Settled
<1>13. SessionInv'
  <2>1. device["session"] = IF "external" \in injected THEN 0 ELSE 1
    BY <1>1 DEF Settled
  <2>2. QED
    BY <1>1, <1>11, <1>12, <2>1 DEF SessionInv, Say, Series
<1>14. LinkInv'
  <2>1. device["oper"] = IF "internal" \in injected THEN 0 ELSE 1
    BY <1>1 DEF Settled, LinkSettled
  <2>2. QED
    BY <1>1, <1>11, <1>12, <2>1 DEF LinkInv, Say, Series
<1>15. StreamInv'
  <2>1. connected["core1"] /\ (connected["edge1"] <=> "transport" \notin injected)
    BY <1>1 DEF Settled, Open, Stream
  <2>2. /\ Streams("core1")
        /\ IF "transport" \in injected THEN Silent("edge1") ELSE Streams("edge1")
    BY <1>11, <2>1 DEF Streams, Silent, Stream
  <2>3. QED
    BY <1>1, <2>2 DEF StreamInv, Streams, Silent
<1>16. SshInv'
  BY <1>1 DEF SshInv
<1>17. QED
  BY <1>3, <1>4, <1>5, <1>6, <1>8, <1>9, <1>13, <1>14, <1>15, <1>16 DEF IInv, TypeInv

------------------------------------------------------------------------------
\* The steps of the lab.  They leave the test where it is.
LEMMA TesterKept ==
    ASSUME IInv, UNCHANGED <<tester, injected, ghosts>>
    PROVE  /\ TesterTypes' /\ FaultInv'
           /\ at' = at /\ verdict' = verdict /\ failing' = failing /\ old' = old
           /\ injected' = injected /\ runs' = runs
<1>1. /\ at' = at /\ verdict' = verdict /\ failing' = failing /\ old' = old
      /\ injected' = injected /\ runs' = runs /\ unrestored' = unrestored
  BY DEF tester, ghosts
<1>2. TesterTypes'
  BY <1>1 DEF IInv, TypeInv, TesterTypes
<1>3. FaultInv'
  BY <1>1 DEF IInv, FaultInv
<1>4. QED
  BY <1>1, <1>2, <1>3

\* Where a test is that runs and has not failed, seen from its faults.
LEMMA Where ==
    ASSUME IInv, verdict = "running", ~failing
    PROVE  /\ at \in 1 .. 47
           /\ "external" \in injected => at \in 1 .. 7 \cup 14 .. 18
           /\ "external" \notin injected => at \notin 14 .. 18
           /\ "transport" \in injected => at \in 1 .. 7 \cup 28 .. 30
           /\ "transport" \notin injected => at \notin 28 .. 30
           /\ at >= 31 => injected = {}
<1>1. at \in 1 .. 47
  BY DEF IInv, TypeInv, TesterTypes
<1>2. at > 7 => injected = FaultOf(at)
  BY DEF IInv, FaultInv
<1>3. QED
  BY <1>1, <1>2 DEF FaultOf

\* A device changes: nothing of the chain does.
LEMMA AtDeviceInv ==
    ASSUME IInv, UNCHANGED <<tester, injected, ghosts, service, exporter, sample, history>>
    PROVE  /\ TesterTypes' /\ FaultInv' /\ ChainTypes' /\ Samples' /\ TaskInv' /\ StreamInv'
           /\ at' = at /\ verdict' = verdict /\ failing' = failing
           /\ injected' = injected /\ task' = task /\ shown' = shown
           /\ sample' = sample /\ ssh' = ssh
<1>1. /\ TesterTypes' /\ FaultInv'
      /\ at' = at /\ verdict' = verdict /\ failing' = failing /\ old' = old
      /\ injected' = injected /\ runs' = runs
  BY TesterKept
<1>2. /\ task' = task /\ status' = status /\ connected' = connected /\ shown' = shown
      /\ sample' = sample /\ ssh' = ssh
  BY DEF service, exporter, history
<1>3. ChainTypes'
  BY <1>2 DEF IInv, TypeInv, ChainTypes
<1>4. Samples'
  <2>1. Samples /\ Nothing' = Nothing
    BY DEF IInv, TypeInv, Nothing
  <2>2. QED
    BY <1>1, <1>2, <2>1 DEF Samples
<1>5. TaskInv' /\ StreamInv'
  BY <1>1, <1>2 DEF IInv, TaskInv, StreamInv, Streams, Silent
<1>6. QED
  BY <1>1, <1>2, <1>3, <1>4, <1>5

\* The session goes down only while the test waits for just that.
LEMMA SessionGoesDownInv == ASSUME IInv, SessionGoesDown PROVE IInv'
<1>1. /\ UNCHANGED <<tester, injected, ghosts, service, exporter, sample, history>>
      /\ "external" \in injected /\ device["session"] = 1
  BY DEF SessionGoesDown, AtDevice
<1>2. PICK v \in {0, None} :
         device' = [device EXCEPT !["session"] = 0, !["prefixes"] = v]
  BY DEF SessionGoesDown, AtDevice
<1>3. DeviceTypes
  BY DEF IInv, TypeInv
<1>4. /\ device' \in [Series -> Counts \cup Bit]
      /\ device'["session"] = 0 /\ device'["oper"] = device["oper"]
      /\ device'["prefixes"] = v
  BY <1>2, <1>3 DEF DeviceTypes, Series, Counts, Bit
<1>5. DeviceTypes'
  BY <1>3, <1>4 DEF DeviceTypes
<1>6. /\ TesterTypes' /\ FaultInv' /\ ChainTypes' /\ Samples' /\ TaskInv' /\ StreamInv'
      /\ at' = at /\ verdict' = verdict /\ failing' = failing
      /\ injected' = injected /\ task' = task /\ shown' = shown
      /\ sample' = sample /\ ssh' = ssh
  BY <1>1, AtDeviceInv
<1>7. verdict = "running" /\ ~failing => at = 14
  BY <1>1, Where DEF IInv, SessionInv, Say
<1>8. SessionInv'
  BY <1>4, <1>6, <1>7 DEF IInv, SessionInv, Passed
<1>9. LinkInv'
  BY <1>4, <1>6 DEF IInv, LinkInv, Say
<1>10. SshInv'
  BY <1>6, <1>7 DEF SshInv
<1>11. QED
  BY <1>5, <1>6, <1>8, <1>9, <1>10 DEF IInv, TypeInv

\* The session comes up only while the test waits for just that.
LEMMA SessionComesUpInv == ASSUME IInv, SessionComesUp PROVE IInv'
<1>1. /\ UNCHANGED <<tester, injected, ghosts, service, exporter, sample, history>>
      /\ "external" \notin injected /\ device["session"] = 0
      /\ device' = [device EXCEPT !["session"] = 1, !["prefixes"] = 900]
  BY DEF SessionComesUp, AtDevice
<1>2. DeviceTypes
  BY DEF IInv, TypeInv
<1>3. /\ device' \in [Series -> Counts \cup Bit]
      /\ device'["session"] = 1 /\ device'["oper"] = device["oper"]
  BY <1>1, <1>2 DEF DeviceTypes, Series, Counts, Bit
<1>4. DeviceTypes'
  BY <1>2, <1>3 DEF DeviceTypes
<1>5. /\ TesterTypes' /\ FaultInv' /\ ChainTypes' /\ Samples' /\ TaskInv' /\ StreamInv'
      /\ at' = at /\ verdict' = verdict /\ failing' = failing
      /\ injected' = injected /\ task' = task /\ shown' = shown
      /\ sample' = sample /\ ssh' = ssh
  BY <1>1, AtDeviceInv
<1>6. verdict = "running" /\ ~failing => at = 19
  BY <1>1, Where DEF IInv, SessionInv, Say
<1>7. SessionInv'
  BY <1>3, <1>5, <1>6 DEF IInv, SessionInv, Passed
<1>8. LinkInv'
  BY <1>3, <1>5 DEF IInv, LinkInv, Say
<1>9. SshInv'
  BY <1>5, <1>6 DEF SshInv
<1>10. QED
  BY <1>4, <1>5, <1>7, <1>8, <1>9 DEF IInv, TypeInv

\* The link follows its fault; one left shut is down already.
LEMMA LinkFollowsInv == ASSUME IInv, LinkFollows PROVE IInv'
<1>1. /\ UNCHANGED <<tester, injected, ghosts, service, exporter, sample, history>>
      /\ ~LinkSettled
      /\ device' = [device EXCEPT !["oper"] = 1 - @]
  BY DEF LinkFollows, AtDevice
<1>2. DeviceTypes
  BY DEF IInv, TypeInv
<1>3. /\ device' \in [Series -> Counts \cup Bit]
      /\ device'["session"] = device["session"] /\ device'["oper"] \in {0, 1}
      /\ device'["prefixes"] = device["prefixes"]
  BY <1>1, <1>2 DEF DeviceTypes, Series, Counts, Bit
<1>4. DeviceTypes'
  BY <1>2, <1>3 DEF DeviceTypes
<1>5. /\ TesterTypes' /\ FaultInv' /\ ChainTypes' /\ Samples' /\ TaskInv' /\ StreamInv'
      /\ at' = at /\ verdict' = verdict /\ failing' = failing
      /\ injected' = injected /\ task' = task /\ shown' = shown
      /\ sample' = sample /\ ssh' = ssh
  BY <1>1, AtDeviceInv
<1>6. SessionInv'
  BY <1>3, <1>5 DEF IInv, SessionInv, Say, Passed
<1>7. ~(verdict = "running" /\ at <= 7 /\ "internal" \in injected)
  BY <1>1 DEF IInv, LinkInv, Say, LinkSettled
<1>8. LinkInv'
  BY <1>5, <1>7 DEF LinkInv
<1>9. SshInv'
  BY <1>3, <1>5 DEF IInv, SshInv
<1>10. QED
  BY <1>4, <1>5, <1>6, <1>8, <1>9 DEF IInv, TypeInv

\* The wave moves the prefixes only.
LEMMA WaveInv == ASSUME IInv, Wave PROVE IInv'
<1>1. /\ UNCHANGED <<tester, injected, ghosts, service, exporter, sample, history>>
      /\ device["session"] = 1
      /\ device' = [device EXCEPT !["prefixes"] = IF @ = 900 THEN 1100 ELSE 900]
  BY DEF Wave, AtDevice
<1>2. DeviceTypes
  BY DEF IInv, TypeInv
<1>3. /\ device' \in [Series -> Counts \cup Bit]
      /\ device'["session"] = device["session"] /\ device'["oper"] = device["oper"]
  BY <1>1, <1>2 DEF DeviceTypes, Series, Counts, Bit
<1>4. DeviceTypes'
  BY <1>1, <1>2, <1>3 DEF DeviceTypes
<1>5. /\ TesterTypes' /\ FaultInv' /\ ChainTypes' /\ Samples' /\ TaskInv' /\ StreamInv'
      /\ at' = at /\ verdict' = verdict /\ failing' = failing
      /\ injected' = injected /\ task' = task /\ shown' = shown
      /\ sample' = sample /\ ssh' = ssh
  BY <1>1, AtDeviceInv
<1>6. SessionInv' /\ LinkInv'
  BY <1>3, <1>5 DEF IInv, SessionInv, LinkInv, Say, Passed
<1>7. SshInv'
  BY <1>3, <1>5 DEF IInv, SshInv
<1>8. QED
  BY <1>4, <1>5, <1>6, <1>7 DEF IInv, TypeInv

\* A step of one stream, or of the exporter: devices, task and samples stay.
LEMMA AtExporterInv ==
    ASSUME IInv, UNCHANGED <<tester, devices, service, sample, ghosts>>
    PROVE  /\ TesterTypes' /\ FaultInv' /\ DeviceTypes' /\ Samples' /\ TaskInv'
           /\ at' = at /\ verdict' = verdict /\ failing' = failing
           /\ injected' = injected /\ device' = device
           /\ task' = task /\ status' = status /\ sample' = sample
<1>1. /\ injected' = injected /\ device' = device
      /\ task' = task /\ status' = status /\ sample' = sample
  BY DEF devices, service
<1>2. /\ TesterTypes' /\ FaultInv'
      /\ at' = at /\ verdict' = verdict /\ failing' = failing /\ old' = old
      /\ injected' = injected /\ runs' = runs
  BY <1>1, TesterKept
<1>3. DeviceTypes'
  BY <1>1 DEF IInv, TypeInv, DeviceTypes
<1>4. Samples'
  <2>1. Samples /\ Nothing' = Nothing
    BY DEF IInv, TypeInv, Nothing
  <2>2. QED
    BY <1>1, <1>2, <2>1 DEF Samples
<1>5. TaskInv'
  BY <1>1, <1>2 DEF IInv, TaskInv
<1>6. QED
  BY <1>1, <1>2, <1>3, <1>4, <1>5

\* Every series comes by one of the streams.
LEMMA OfSeries == \A s \in Series : Of(s) \in Stream
BY DEF Of, Stream

\* A stream opens, which in a test that goes well happens to the new task only.
LEMMA ConnectsInv == ASSUME IInv, NEW d \in Stream, Connects(d) PROVE IInv'
<1>1. /\ status = "RUNNING" /\ ~connected[d] /\ Open(d)
      /\ connected' = [connected EXCEPT ![d] = TRUE]
      /\ shown' = [s \in Series |-> IF Of(s) = d THEN device[s] ELSE shown[s]]
      /\ UNCHANGED <<tester, devices, service, sample, ghosts>> /\ ssh' = ssh
  BY DEF Connects, history
<1>2. /\ TesterTypes' /\ FaultInv' /\ DeviceTypes' /\ Samples' /\ TaskInv'
      /\ at' = at /\ verdict' = verdict /\ failing' = failing
      /\ injected' = injected /\ device' = device
      /\ task' = task /\ status' = status /\ sample' = sample
  BY <1>1, AtExporterInv
<1>3. DeviceTypes /\ ChainTypes
  BY DEF IInv, TypeInv
<1>4. /\ connected' \in [Stream -> BOOLEAN] /\ connected'[d]
      /\ \A e \in Stream : e # d => (connected'[e] <=> connected[e])
  BY <1>1, <1>3 DEF ChainTypes
<1>5. ChainTypes'
  <2>1. shown' \in [Series -> Counts \cup Bit]
    BY <1>1, <1>3 DEF DeviceTypes, ChainTypes
  <2>2. shown'["session"] \in Bit /\ shown'["oper"] \in Bit
    BY <1>1, <1>3 DEF DeviceTypes, ChainTypes, Bit, Series
  <2>3. \A s \in Series : ~connected'[Of(s)] => shown'[s] = None
    BY <1>1, <1>3, <1>4, OfSeries DEF ChainTypes
  <2>4. QED
    BY <1>1, <1>2, <1>4, <2>1, <2>2, <2>3 DEF ChainTypes
<1>6. \A s \in {"session", "oper"} :
         shown'[s] = shown[s] \/ (shown'[s] = device[s] /\ shown[s] = None)
  BY <1>1, <1>3 DEF ChainTypes, Series
<1>7. SessionInv'
  BY <1>2, <1>6, AcceptanceAssumption DEF IInv, SessionInv, Say, Passed
<1>8. LinkInv'
  BY <1>2, <1>6 DEF IInv, LinkInv, Say
<1>9. StreamInv'
  <2>1. SUFFICES ASSUME verdict = "running", ~failing
                 PROVE  StreamInv'
    BY <1>2 DEF StreamInv
  <2>2. at \in 1 .. 47
    BY <1>3 DEF IInv, TypeInv, TesterTypes
  <2>3. d = "edge1" => "transport" \notin injected /\ at \notin 28 .. 30
    BY <1>1, <2>1, Where DEF Open
  <2>4. d = "core1" => at >= 31
    BY <1>1, <2>1, <2>2 DEF IInv, StreamInv, Streams
  <2>5. d = "edge1" => at >= 31
    BY <1>1, <2>1, <2>2, <2>3 DEF IInv, StreamInv, Streams
  <2>6. at >= 31
    BY <2>4, <2>5 DEF Stream
  <2>7. QED
    BY <1>2, <1>4, <2>1, <2>2, <2>6 DEF IInv, StreamInv
<1>10. SshInv'
  BY <1>1, <1>2 DEF IInv, SshInv
<1>11. QED
  BY <1>2, <1>5, <1>7, <1>8, <1>9, <1>10 DEF IInv, TypeInv

\* The stream of edge1 ends while the test waits for just that.
LEMMA DisconnectsInv == ASSUME IInv, NEW d \in Stream, Disconnects(d) PROVE IInv'
<1>1. /\ connected[d] /\ ~Open(d)
      /\ connected' = [connected EXCEPT ![d] = FALSE]
      /\ shown' = [s \in Series |-> IF Of(s) = d THEN None ELSE shown[s]]
      /\ UNCHANGED <<tester, devices, service, sample, ghosts>> /\ ssh' = ssh
  BY DEF Disconnects, history
<1>2. /\ TesterTypes' /\ FaultInv' /\ DeviceTypes' /\ Samples' /\ TaskInv'
      /\ at' = at /\ verdict' = verdict /\ failing' = failing
      /\ injected' = injected /\ device' = device
      /\ task' = task /\ status' = status /\ sample' = sample
  BY <1>1, AtExporterInv
<1>3. DeviceTypes /\ ChainTypes
  BY DEF IInv, TypeInv
<1>4. /\ connected' \in [Stream -> BOOLEAN] /\ ~connected'[d]
      /\ \A e \in Stream : e # d => (connected'[e] <=> connected[e])
  BY <1>1, <1>3 DEF ChainTypes
<1>5. ChainTypes'
  <2>1. shown' \in [Series -> Counts \cup Bit]
    BY <1>1, <1>3 DEF ChainTypes, Bit
  <2>2. shown'["session"] \in Bit /\ shown'["oper"] \in Bit
    BY <1>1, <1>3 DEF ChainTypes, Bit, Series
  <2>3. \A s \in Series : ~connected'[Of(s)] => shown'[s] = None
    BY <1>1, <1>3, <1>4, OfSeries DEF ChainTypes
  <2>4. status' # "RUNNING" => \A e \in Stream : ~connected'[e]
    BY <1>2, <1>3, <1>4 DEF ChainTypes
  <2>5. QED
    BY <1>2, <1>3, <1>4, <2>1, <2>2, <2>3, <2>4 DEF ChainTypes
<1>6. d = "edge1" /\ "transport" \in injected
  BY <1>1 DEF Open, Stream
<1>7. shown'["session"] = None /\ shown'["oper"] = shown["oper"]
  BY <1>1, <1>6 DEF Of, Series
<1>8. SessionInv'
  <2>1. verdict = "running" /\ ~failing => at \in 1 .. 7 \cup 28 .. 30
    BY <1>6, Where
  <2>2. QED
    BY <1>2, <1>7, <2>1 DEF IInv, SessionInv, Say
<1>9. LinkInv'
  BY <1>2, <1>7 DEF IInv, LinkInv, Say
<1>10. StreamInv'
  <2>1. SUFFICES ASSUME verdict = "running", ~failing
                 PROVE  StreamInv'
    BY <1>2 DEF StreamInv
  <2>2. at \in 1 .. 7 \cup 28 .. 30
    BY <1>6, <2>1, Where
  <2>3. at = 28
    BY <1>1, <1>6, <2>1, <2>2 DEF IInv, StreamInv, Silent
  <2>4. connected'["core1"] <=> connected["core1"]
    BY <1>4, <1>6 DEF Stream
  <2>5. QED
    BY <1>2, <1>4, <1>6, <2>1, <2>3, <2>4 DEF IInv, StreamInv, Streams
<1>11. SshInv'
  BY <1>1, <1>2 DEF IInv, SshInv
<1>12. QED
  BY <1>2, <1>5, <1>8, <1>9, <1>10, <1>11 DEF IInv, TypeInv

\* A change of a device arrives at the exporter.
LEMMA UpdatesInv == ASSUME IInv, NEW s \in Series, Updates(s) PROVE IInv'
<1>1. /\ connected[Of(s)]
      /\ shown' = [shown EXCEPT ![s] = device[s]] /\ connected' = connected
      /\ UNCHANGED <<tester, devices, service, sample, ghosts>> /\ ssh' = ssh
  BY DEF Updates, history
<1>2. /\ TesterTypes' /\ FaultInv' /\ DeviceTypes' /\ Samples' /\ TaskInv'
      /\ at' = at /\ verdict' = verdict /\ failing' = failing
      /\ injected' = injected /\ device' = device
      /\ task' = task /\ status' = status /\ sample' = sample
  BY <1>1, AtExporterInv
<1>3. DeviceTypes /\ ChainTypes
  BY DEF IInv, TypeInv
<1>4. \A r \in Series : shown'[r] = IF r = s THEN device[r] ELSE shown[r]
  BY <1>1, <1>3 DEF ChainTypes
<1>5. ChainTypes'
  <2>1. shown' \in [Series -> Counts \cup Bit]
    BY <1>1, <1>3 DEF DeviceTypes, ChainTypes
  <2>2. shown'["session"] \in Bit /\ shown'["oper"] \in Bit
    BY <1>3, <1>4 DEF DeviceTypes, ChainTypes, Bit, Series
  <2>3. \A r \in Series : ~connected'[Of(r)] => shown'[r] = None
    BY <1>1, <1>3, <1>4 DEF ChainTypes
  <2>4. QED
    BY <1>1, <1>2, <1>3, <2>1, <2>2, <2>3 DEF ChainTypes
<1>6. \A r \in {"session", "oper"} : shown'[r] = shown[r] \/ shown'[r] = device[r]
  BY <1>4 DEF Series
<1>7. SessionInv'
  <2>1. verdict = "running" /\ ~failing => at \in 1 .. 47
    BY DEF IInv, TypeInv, TesterTypes
  <2>2. QED
    BY <1>2, <1>6, <2>1 DEF IInv, SessionInv, Say, Passed
<1>8. LinkInv'
  BY <1>2, <1>6 DEF IInv, LinkInv, Say
<1>9. StreamInv'
  BY <1>1, <1>2 DEF IInv, StreamInv, Streams, Silent
<1>10. SshInv'
  BY <1>1, <1>2 DEF IInv, SshInv
<1>11. QED
  BY <1>2, <1>5, <1>7, <1>8, <1>9, <1>10 DEF IInv, TypeInv

\* Documents of the gNMI collector.
LEMMA DocumentsInv ==
    ASSUME IInv, UNCHANGED <<tester, devices, service, exporter, sample, ssh, ghosts>>
    PROVE  IInv'
<1>1. connected' = connected /\ shown' = shown /\ ssh' = ssh
  BY DEF exporter
<1>2. /\ TesterTypes' /\ FaultInv' /\ DeviceTypes' /\ Samples' /\ TaskInv'
      /\ at' = at /\ verdict' = verdict /\ failing' = failing
      /\ injected' = injected /\ device' = device
      /\ task' = task /\ status' = status /\ sample' = sample
  BY AtExporterInv
<1>3. ChainTypes'
  BY <1>1, <1>2 DEF IInv, TypeInv, ChainTypes
<1>4. SessionInv' /\ LinkInv' /\ StreamInv' /\ SshInv'
  BY <1>1, <1>2
     DEF IInv, SessionInv, LinkInv, StreamInv, SshInv, Say, Passed, Streams, Silent
<1>5. QED
  BY <1>2, <1>3, <1>4 DEF IInv, TypeInv

\* The task has a number that samples are kept for, and the test is somewhere.
LEMMA Numbers == TypeInv => task \in 1 .. MaxRuns + 1 /\ at \in 1 .. 47
<1>1. Samples => task \in 1 .. MaxRuns + 1
  BY AcceptanceAssumption DEF Samples
<1>2. TesterTypes => at \in 1 .. 47
  BY DEF TesterTypes
<1>3. QED
  BY <1>1, <1>2 DEF TypeInv

\* An exposition has the type of a sample.
LEMMA ExposedType == ChainTypes => Exposed \in [Stream \cup Series -> Counts \cup Bit]
<1> SUFFICES ASSUME ChainTypes PROVE Exposed \in [Stream \cup Series -> Counts \cup Bit]
  OBVIOUS
<1>1. \A x \in Series : shown[x] \in Counts \cup Bit
  BY DEF ChainTypes
<1>2. 0 \in Counts \cup Bit /\ 1 \in Counts \cup Bit
  BY DEF Bit
<1>3. QED
  BY <1>1, <1>2 DEF Exposed

\* A step of Prometheus: it writes samples and nothing else.
LEMMA AtPrometheusInv ==
    ASSUME IInv, UNCHANGED <<tester, devices, service, exporter, history, ghosts>>
    PROVE  /\ TesterTypes' /\ FaultInv' /\ DeviceTypes' /\ ChainTypes' /\ TaskInv' /\ SshInv'
           /\ at' = at /\ verdict' = verdict /\ failing' = failing /\ old' = old
           /\ runs' = runs /\ injected' = injected /\ device' = device /\ shown' = shown
           /\ connected' = connected /\ task' = task /\ status' = status
<1>1. /\ injected' = injected /\ device' = device /\ connected' = connected
      /\ shown' = shown /\ task' = task /\ status' = status /\ ssh' = ssh
  BY DEF devices, service, exporter, history
<1>2. /\ TesterTypes' /\ FaultInv'
      /\ at' = at /\ verdict' = verdict /\ failing' = failing /\ old' = old
      /\ injected' = injected /\ runs' = runs
  BY <1>1, TesterKept
<1>3. DeviceTypes'
  BY <1>1 DEF IInv, TypeInv, DeviceTypes
<1>4. ChainTypes'
  BY <1>1 DEF IInv, TypeInv, ChainTypes
<1>5. TaskInv' /\ SshInv'
  BY <1>1, <1>2 DEF IInv, TaskInv, SshInv
<1>6. QED
  BY <1>1, <1>2, <1>3, <1>4, <1>5

\* A scrape takes over what the exporter shows.
LEMMA ScrapeInv == ASSUME IInv, Scrape PROVE IInv'
<1>1. /\ status = "RUNNING" /\ sample' = [sample EXCEPT ![task] = Exposed]
      /\ UNCHANGED <<tester, devices, service, exporter, history, ghosts>>
  BY DEF Scrape
<1>2. /\ TesterTypes' /\ FaultInv' /\ DeviceTypes' /\ ChainTypes' /\ TaskInv' /\ SshInv'
      /\ at' = at /\ verdict' = verdict /\ failing' = failing /\ old' = old
      /\ runs' = runs /\ injected' = injected /\ device' = device /\ shown' = shown
      /\ connected' = connected /\ task' = task /\ status' = status
  BY <1>1, AtPrometheusInv
<1>3. Samples /\ ChainTypes /\ task \in 1 .. MaxRuns + 1 /\ at \in 1 .. 47
  BY Numbers DEF IInv, TypeInv
<1>4. /\ sample'[task] = Exposed
      /\ \A t \in 1 .. MaxRuns + 1 : t # task => sample'[t] = sample[t]
  BY <1>1, <1>3 DEF Samples
<1>5. Samples'
  <2>1. sample' \in [1 .. MaxRuns + 1 -> [Stream \cup Series -> Counts \cup Bit]]
    BY <1>1, <1>3, ExposedType DEF Samples
  <2>2. Nothing' = Nothing
    BY DEF Nothing
  <2>3. \A t \in 1 .. MaxRuns + 1 :
          t > task' \/ (t = task' /\ status' = "PENDING") => sample'[t] = Nothing'
    BY <1>1, <1>2, <1>3, <1>4, <2>2 DEF Samples
  <2>4. QED
    BY <1>2, <1>3, <2>1, <2>3 DEF Samples
<1>6. /\ \A s \in Series : sample'[task][s] = shown[s]
      /\ \A d \in Stream : sample'[task][d] = IF connected[d] THEN 1 ELSE 0
  BY <1>4 DEF Exposed, Series, Stream
<1>7. SessionInv' /\ LinkInv'
  BY <1>2, <1>3, <1>6 DEF IInv, SessionInv, LinkInv, Say, Passed, Series
<1>8. StreamInv'
  BY <1>2, <1>3, <1>6 DEF IInv, StreamInv, Streams, Silent, Stream
<1>9. QED
  BY <1>2, <1>5, <1>7, <1>8 DEF IInv, TypeInv

\* The samples of a task that is gone become stale.
LEMMA ForgetInv == ASSUME IInv, NEW t \in DOMAIN sample, Forget(t) PROVE IInv'
<1>1. /\ t \notin Targets /\ sample' = [sample EXCEPT ![t] = Nothing]
      /\ UNCHANGED <<tester, devices, service, exporter, history, ghosts>>
  BY DEF Forget
<1>2. /\ TesterTypes' /\ FaultInv' /\ DeviceTypes' /\ ChainTypes' /\ TaskInv' /\ SshInv'
      /\ at' = at /\ verdict' = verdict /\ failing' = failing /\ old' = old
      /\ runs' = runs /\ injected' = injected /\ device' = device /\ shown' = shown
      /\ connected' = connected /\ task' = task /\ status' = status
  BY <1>1, AtPrometheusInv
<1>3. Samples /\ task \in 1 .. MaxRuns + 1 /\ at \in 1 .. 47
  BY Numbers DEF IInv, TypeInv
<1>4. /\ sample'[t] = Nothing
      /\ \A u \in 1 .. MaxRuns + 1 : u # t => sample'[u] = sample[u]
      /\ t \in 1 .. MaxRuns + 1
  BY <1>1, <1>3 DEF Samples
<1>5. Samples'
  <2>1. Nothing \in [Stream \cup Series -> Counts \cup Bit]
    BY DEF Nothing, Bit
  <2>2. sample' \in [1 .. MaxRuns + 1 -> [Stream \cup Series -> Counts \cup Bit]]
    BY <1>1, <1>3, <2>1 DEF Samples
  <2>3. Nothing' = Nothing
    BY DEF Nothing
  <2>4. \A u \in 1 .. MaxRuns + 1 :
          u > task' \/ (u = task' /\ status' = "PENDING") => sample'[u] = Nothing'
    BY <1>2, <1>3, <1>4, <2>3 DEF Samples
  <2>5. QED
    BY <1>2, <1>3, <2>2, <2>4 DEF Samples
<1>6. status = "RUNNING" => sample'[task] = sample[task]
  BY <1>1, <1>3, <1>4 DEF Targets
<1>7. \/ sample'[task] = sample[task]
      \/ sample'[task]["session"] = None /\ sample'[task]["oper"] = None
  BY <1>3, <1>4 DEF Nothing, Series
<1>8. SessionInv' /\ LinkInv'
  BY <1>2, <1>3, <1>7, AcceptanceAssumption DEF IInv, SessionInv, LinkInv, Say, Passed
<1>9. StreamInv'
  <2>1. SUFFICES ASSUME verdict = "running", ~failing
                 PROVE  StreamInv'
    BY <1>2 DEF StreamInv
  <2>2. at <= 30 => status = "RUNNING"
    BY <1>3, <2>1 DEF IInv, TaskInv
  <2>3. CASE status = "RUNNING"
    BY <1>2, <1>6, <2>1, <2>3 DEF IInv, StreamInv, Streams, Silent
  <2>4. CASE status # "RUNNING"
    BY <1>2, <1>3, <2>2, <2>4 DEF StreamInv
  <2>5. QED
    BY <2>3, <2>4
<1>10. QED
  BY <1>2, <1>5, <1>8, <1>9 DEF IInv, TypeInv

\* The service: a task that has not run yet has no samples.
LEMMA LaunchInv == ASSUME IInv, Launch PROVE IInv'
<1>1. /\ status = "none" /\ status' = "PENDING" /\ task' = task + 1
      /\ UNCHANGED <<tester, injected, device, connected, shown, sample, ssh, ghosts>>
  BY DEF Launch, devices, exporter, history
<1>2. /\ TesterTypes' /\ FaultInv'
      /\ at' = at /\ verdict' = verdict /\ failing' = failing /\ old' = old
      /\ injected' = injected /\ runs' = runs
  BY <1>1, TesterKept
<1>3. Samples /\ ChainTypes /\ DeviceTypes /\ TesterTypes
  BY DEF IInv, TypeInv
<1>4. DeviceTypes'
  BY <1>1, <1>3 DEF DeviceTypes
<1>5. ChainTypes'
  BY <1>1, <1>3 DEF ChainTypes
<1>6. task' \in 1 .. MaxRuns + 1 /\ task' <= runs' + 1 /\ old <= task /\ task \in Nat
  BY <1>1, <1>2, <1>3, AcceptanceAssumption DEF Samples
<1>7. Samples'
  <2>1. Nothing' = Nothing
    BY DEF Nothing
  <2>2. sample' \in [1 .. MaxRuns + 1 -> [Stream \cup Series -> Counts \cup Bit]]
    BY <1>1, <1>3 DEF Samples
  <2>3. \A t \in 1 .. MaxRuns + 1 :
          t > task' \/ (t = task' /\ status' = "PENDING") => sample'[t] = Nothing'
    BY <1>1, <1>3, <2>1 DEF Samples
  <2>4. old \in Nat /\ old' <= task'
    BY <1>1, <1>2, <1>3, <1>6 DEF TesterTypes
  <2>5. /\ task' \in Nat /\ runs' \in Nat
        /\ 1 <= task' /\ task' <= runs' + 1 /\ runs' <= MaxRuns
        /\ status' # "none"
    BY <1>1, <1>2, <1>3, <1>6 DEF Samples
  <2>6. QED
    BY <2>2, <2>3, <2>4, <2>5 DEF Samples
<1>8. verdict = "running" => at >= 33
  BY <1>1, <1>3 DEF IInv, TaskInv, TesterTypes
<1>9. TaskInv'
  BY <1>1, <1>2, <1>3, <1>6, <1>8 DEF TaskInv, TesterTypes
<1>10. sample'[task']["session"] = None
  <2>1. task' > task
    BY <1>1, <1>6
  <2>2. sample[task'] = Nothing
    BY <1>3, <1>6, <2>1 DEF Samples
  <2>3. QED
    BY <1>1, <2>2 DEF Nothing, Series
<1>11. SessionInv'
  BY <1>1, <1>2, <1>3, <1>8, <1>10 DEF IInv, SessionInv, Say, TesterTypes
<1>12. LinkInv'
  BY <1>2, <1>3, <1>8 DEF LinkInv, TesterTypes
<1>13. StreamInv'
  BY <1>1, <1>2, <1>3, <1>8 DEF StreamInv, TesterTypes
<1>14. SshInv'
  BY <1>1, <1>2 DEF IInv, SshInv
<1>15. QED
  BY <1>2, <1>4, <1>5, <1>7, <1>9, <1>11, <1>12, <1>13, <1>14 DEF IInv, TypeInv

\* The new task runs, and no sample of it is older than that.
LEMMA StartedInv == ASSUME IInv, Started PROVE IInv'
<1>1. /\ status = "PENDING" /\ status' = "RUNNING"
      /\ UNCHANGED <<tester, injected, device, task, connected, shown, sample, ssh, ghosts>>
  BY DEF Started, devices, exporter, history
<1>2. /\ TesterTypes' /\ FaultInv'
      /\ at' = at /\ verdict' = verdict /\ failing' = failing /\ old' = old
      /\ injected' = injected /\ runs' = runs
  BY <1>1, TesterKept
<1>3. Samples /\ ChainTypes /\ DeviceTypes /\ TesterTypes
  BY DEF IInv, TypeInv
<1>4. DeviceTypes'
  BY <1>1, <1>3 DEF DeviceTypes
<1>5. ChainTypes'
  BY <1>1, <1>3 DEF ChainTypes
<1>6. Samples'
  <2>1. Nothing' = Nothing
    BY DEF Nothing
  <2>2. \A t \in 1 .. MaxRuns + 1 :
          t > task' \/ (t = task' /\ status' = "PENDING") => sample'[t] = Nothing'
    BY <1>1, <1>3, <2>1 DEF Samples
  <2>3. QED
    BY <1>1, <1>2, <1>3, <2>2 DEF Samples
<1>7. verdict = "running" => at >= 33
  BY <1>1, <1>3 DEF IInv, TaskInv, TesterTypes
<1>8. TaskInv'
  BY <1>1, <1>2, <1>3, <1>7 DEF IInv, TaskInv, TesterTypes
<1>9. \A d \in Stream : sample[task][d] = None
  <2>1. task \in 1 .. MaxRuns + 1
    BY <1>3, AcceptanceAssumption DEF Samples
  <2>2. sample[task] = Nothing
    BY <1>1, <1>3, <2>1 DEF Samples
  <2>3. QED
    BY <2>2 DEF Nothing
<1>10. SessionInv' /\ LinkInv'
  BY <1>1, <1>2 DEF IInv, SessionInv, LinkInv, Say, Passed
<1>11. StreamInv'
  BY <1>1, <1>2, <1>3, <1>7, <1>9, AcceptanceAssumption DEF StreamInv, TesterTypes
<1>12. SshInv'
  BY <1>1, <1>2 DEF IInv, SshInv
<1>13. QED
  BY <1>2, <1>4, <1>5, <1>6, <1>8, <1>10, <1>11, <1>12 DEF IInv, TypeInv

\* Every step keeps the invariant.
LEMMA StepInv == IInv /\ [Next]_vars => IInv'
<1> SUFFICES ASSUME IInv, [Next]_vars PROVE IInv'
  OBVIOUS
<1>1. CASE Test
  BY <1>1, PassInv, CollectInv, ReadInitialInv, AssertsInv, ServicesInv, EvidenceInv,
     InjectInv, RestoreInv, StopTaskInv DEF Test
<1>2. CASE Trouble
  BY <1>2, ExpireInv, InjectRaisesInv, RestoreRaisesInv, CallRaisesInv, KillInv DEF Trouble
<1>3. CASE Again
  BY <1>3, AgainInv
<1>4. CASE DeviceSteps
  BY <1>4, SessionGoesDownInv, SessionComesUpInv, LinkFollowsInv, WaveInv DEF DeviceSteps
<1>5. CASE Chain
  <2>1. ASSUME NEW d \in Stream, StreamSteps(d) PROVE IInv'
    <3>1. CASE Stores(d) \/ Ages(d)
      BY <3>1, DocumentsInv DEF Stores, Ages
    <3>2. QED
      BY <2>1, <3>1, ConnectsInv, DisconnectsInv DEF StreamSteps
  <2>2. ASSUME NEW s \in Series, Updates(s) PROVE IInv'
    BY <2>2, UpdatesInv
  <2>3. ASSUME NEW t \in DOMAIN sample, Forget(t) PROVE IInv'
    BY <2>3, ForgetInv
  <2>4. QED
    BY <1>5, <2>1, <2>2, <2>3, ScrapeInv, LaunchInv, StartedInv DEF Chain
<1>6. CASE UNCHANGED vars
  <2>1. UNCHANGED <<tester, devices, service, exporter, sample, ssh, ghosts>>
    BY <1>6 DEF vars, lab, history
  <2>2. QED
    BY <2>1, DocumentsInv
<1>7. QED
  BY <1>1, <1>2, <1>3, <1>4, <1>5, <1>6 DEF Next

\* It holds in every state of every behaviour.
THEOREM Invariance == Spec => []IInv
BY InitInv, StepInv, PTL DEF Spec

------------------------------------------------------------------------------
\* Restored: a test that is over has mended what it broke, unless the very call
\* that mends it raised or the process was killed.
THEOREM FaultsMended == Spec => []Restored
<1>1. IInv => Restored
  BY DEF IInv, FaultInv, Restored
<1>2. QED
  BY <1>1, Invariance, PTL

\* OneFaultAtATime: never are two things broken at once, however many tests
\* failed or were killed before this one.
THEOREM OneAtATime == Spec => []OneFaultAtATime
<1>1. IInv => OneFaultAtATime
  <2> SUFFICES ASSUME IInv PROVE OneFaultAtATime
    OBVIOUS
  <2>1. PICK f \in Fault : injected \subseteq {f}
    BY DEF IInv, FaultInv
  <2>2. injected = {} \/ injected = {f}
    BY <2>1
  <2>3. Cardinality({}) = 0 /\ Cardinality({f}) = 1
    BY FS_EmptySet, FS_Singleton
  <2>4. QED
    BY <2>2, <2>3 DEF OneFaultAtATime
<1>2. QED
  BY <1>1, Invariance, PTL

\* A wait that ended well is true of the lab, given where the test is.
LEMMA WaitIsTrue == IInv /\ Pass => Real(Now.what)
<1> SUFFICES ASSUME IInv, Pass PROVE Real(Now.what)
  OBVIOUS
<1>1. verdict = "running" /\ Running("wait")
  BY DEF Pass, Running
<1>2. TesterTypes /\ DeviceTypes /\ ChainTypes
  BY DEF IInv, TypeInv
<1>3. /\ at \notin {18, 26, 30}
      /\ Now.what = "session_down" => at = 14
      /\ Now.what = "session_up" => at = 19
      /\ Now.what = "prefixes_gone" => at = 16
      /\ Now.what = "link_down" => at = 24
      /\ Now.what = "stream_down" => at = 28
      /\ Now.what = "series_removed" => at = 29
      /\ Now.what = "healthy_metrics" => at \in {3, 31, 34, 37}
      /\ Now.what = "compare" => at \in {5, 17, 22, 39}
  <2>1. at \notin {18, 26, 30}
    BY <1>1, <1>2, Places
  <2>2. at \in 1 .. 47
    BY <1>2 DEF TesterTypes
  <2>3. Now.what = WhatAt(at)
    BY DEF Now, WhatAt
  <2>4. QED
    BY <2>1, <2>2, <2>3, Table
<1>4. ~failing
  BY <1>3 DEF IInv, FaultInv
<1>5. Now.what = "session_down" => device["session"] = 0
  BY <1>1, <1>2, <1>3, <1>4, Waited, Seen DEF IInv, SessionInv, Passed
<1>6. Now.what = "session_up" => device["session"] = 1
  BY <1>1, <1>2, <1>3, <1>4, Waited, Seen DEF IInv, SessionInv, Passed
<1>7. Now.what = "prefixes_gone" => device["prefixes"] \in {0, None}
  BY <1>1, <1>2, <1>3, <1>4 DEF IInv, SessionInv, Say, DeviceTypes
<1>8. Now.what = "link_down" => "internal" \in injected
  BY <1>1, <1>3, <1>4 DEF IInv, FaultInv, FaultOf
<1>9. Now.what = "stream_down" => "transport" \in injected
  BY <1>1, <1>3, <1>4 DEF IInv, FaultInv, FaultOf
<1>10. Now.what = "series_removed" => shown["session"] = None
  <2>1. Of("session") = "edge1" /\ "session" \in Series
    BY DEF Of, Series
  <2>2. QED
    BY <1>1, <1>2, <1>3, <1>4, <2>1 DEF IInv, StreamInv, Silent, ChainTypes
<1>11. Now.what = "healthy_metrics" =>
          status = "RUNNING" /\ task # old /\ \A d \in Stream : connected[d]
  <2>1. SUFFICES ASSUME Now.what = "healthy_metrics"
                 PROVE  status = "RUNNING" /\ task # old /\ \A d \in Stream : connected[d]
    OBVIOUS
  <2>2. at \in {3, 31, 34, 37}
    BY <1>3, <2>1
  <2>3. status = "RUNNING" /\ \A d \in Stream : sample[task][d] = 1
    BY <1>2, <2>2, Waited, Seen DEF HealthyMetrics, Stream
  <2>4. task # old
    BY <1>1, <2>2 DEF IInv, TaskInv, TypeInv, Samples
  <2>5. \A d \in Stream : connected[d]
    BY <1>1, <1>4, <2>2, <2>3 DEF IInv, StreamInv, Streams, Silent, Stream
  <2>6. QED
    BY <2>3, <2>4, <2>5
<1>12. Now.what = "compare" => gnmi["session"] = device["session"]
  BY <1>1, <1>2, <1>3, <1>4, Waited DEF IInv, SshInv, Compare, Compared
<1>13. QED
  BY <1>5, <1>6, <1>7, <1>8, <1>9, <1>10, <1>11, <1>12 DEF Real

\* PassedMeansReal: a wait of the test that succeeds is about the lab as it is, and
\* not about an earlier sample, an earlier task or an earlier document.
THEOREM WaitsAreTrue == Spec => PassedMeansReal
<1>1. IInv /\ [Next]_vars => [Pass => Real(Now.what)]_vars
  BY WaitIsTrue
<1>2. QED
  BY <1>1, Invariance, PTL DEF Spec, PassedMeansReal

------------------------------------------------------------------------------
(***************************************************************************)
(* The injector behind the wave, for every environment it may be started   *)
(* with: it never leaves its pool.                                         *)
(***************************************************************************)
\* What loadConfig leaves to rely on.
Checked(c) == /\ c.base \in Int /\ c.amplitude \in Int /\ c.addresses \in Nat
              /\ c.amplitude >= 0
              /\ c.base - c.amplitude >= 1
              /\ c.base + c.amplitude <= c.addresses

\* The routes in the speaker are the first ones of the pool, as many as the wave
\* wants, and the configuration is one that was given and checked.
InjectorInv ==
    /\ TypeOK
    /\ AdvertisesThePrefix
    /\ pc = "config" => cfg \in Environment
    /\ \E v \in Environment : cfg.base = v.base /\ cfg.amplitude = v.amplitude
    /\ pc \in {"address", "start", "seed", "boundary", "ticking"} => Checked(cfg)
    /\ Advertising => current \in TargetCounts(cfg)

\* The injector has not read its configuration yet.
LEMMA InjectorStarts == InjectorInit => InjectorInv
BY DEF InjectorInit, InjectorInv, TypeOK, AdvertisesThePrefix, Advertising

\* One step of the wave: the new target is positive and within the pool, and the
\* difference turns one prefix of the pool into the other.
LEMMA InjectorApplies ==
    ASSUME InjectorInv, NEW next, pc \in {"seed", "boundary", "ticking"},
           NEW target \in TargetCounts(cfg), Applied(target, next)
    PROVE  current' = target /\ target \in Nat /\ advertised' = 0 .. target - 1
<1>1. target \in Nat /\ target >= 1
  BY DEF TargetCounts, InjectorInv, Checked
<1>2. current \in Nat /\ advertised = 0 .. current - 1
  BY DEF InjectorInv, TypeOK, AdvertisesThePrefix
<1>3. advertised' = 0 .. target - 1
  <2>1. CASE target > current
    BY <1>1, <1>2, <2>1 DEF Applied, ToAdd, ToWithdraw
  <2>2. CASE ~ (target > current)
    BY <1>1, <1>2, <2>2 DEF Applied, ToAdd, ToWithdraw
  <2>3. QED
    BY <2>1, <2>2
<1>4. QED
  BY <1>1, <1>3 DEF Applied

\* Every step of the injector keeps its invariant.
LEMMA InjectorStep ==
    ASSUME InjectorInv, [InjectorNext]_injectorVars
    PROVE  InjectorInv'
<1>1. CASE LoadConfig
  <2>1. /\ cfg \in Environment /\ current' = current /\ advertised' = advertised
        /\ pc = "config" /\ TypeOK /\ AdvertisesThePrefix
    BY <1>1 DEF LoadConfig, InjectorInv
  <2>2. CASE Valid(cfg) /\ cfg' = Narrowed(cfg) /\ pc' = "address"
    <3>1. /\ cfg'.base = cfg.base
          /\ cfg'.amplitude = cfg.amplitude
          /\ cfg'.addresses = cfg.addresses
      BY <2>2 DEF Narrowed
    <3>2. Checked(cfg')
      BY <2>1, <2>2, <3>1, InjectorAssumption DEF Valid, Trough, Crest, Checked
    <3>3. QED
      BY <2>1, <2>2, <3>1, <3>2
         DEF InjectorInv, TypeOK, AdvertisesThePrefix, Advertising
  <2>3. CASE pc' = "failed" /\ UNCHANGED cfg
    BY <2>1, <2>3 DEF InjectorInv, TypeOK, AdvertisesThePrefix, Advertising
  <2>4. QED
    BY <1>1, <2>2, <2>3 DEF LoadConfig
<1>2. CASE AddressReady \/ StartBgp
  BY <1>2 DEF AddressReady, StartBgp, Checked, InjectorInv, TypeOK,
              AdvertisesThePrefix, Advertising
<1>3. ASSUME NEW from \in {"seed", "boundary", "ticking"},
             NEW next \in {"boundary", "ticking"}, Apply(from, next)
      PROVE  InjectorInv'
  <2>1. PICK target \in TargetCounts(cfg) : Applied(target, next)
    BY <1>3 DEF Apply
  <2>2. pc \in {"seed", "boundary", "ticking"} /\ cfg' = cfg /\ pc' = next
    BY <1>3, <2>1 DEF Apply, Applied
  <2>3. current' = target /\ target \in Nat /\ advertised' = 0 .. target - 1
    BY <2>1, <2>2, InjectorApplies
  <2>4. TypeOK' /\ AdvertisesThePrefix'
    BY <2>2, <2>3 DEF TypeOK, AdvertisesThePrefix
  <2>5. Advertising' => current' \in TargetCounts(cfg')
    BY <2>1, <2>2, <2>3
  <2>6. QED
    BY <2>2, <2>4, <2>5 DEF InjectorInv, Checked
<1>4. CASE ApplyFails \/ Signal
  BY <1>4 DEF ApplyFails, Failed, Signal, InjectorInv, TypeOK,
              AdvertisesThePrefix, Advertising
<1>5. CASE UNCHANGED injectorVars
  BY <1>5 DEF injectorVars, Checked, InjectorInv, TypeOK, AdvertisesThePrefix, Advertising,
              TargetCounts
<1>6. QED
  BY <1>1, <1>2, <1>3, <1>4, <1>5 DEF InjectorNext, Seed, Boundary, NextStep

\* The invariant of the injector in every state of every behaviour.
THEOREM InjectorInvariance == InjectorSpec => []InjectorInv
<1>1. InjectorInv /\ [InjectorNext]_injectorVars => InjectorInv'
  BY InjectorStep
<1>2. QED
  BY <1>1, InjectorStarts, PTL DEF InjectorSpec

\* TypeOK: current and advertised keep their types for every configuration.
THEOREM TypeCorrect == InjectorSpec => []TypeOK
<1>1. InjectorInv => TypeOK
  BY DEF InjectorInv
<1>2. InjectorSpec => []InjectorInv
  BY InjectorInvariance
<1>3. QED
  BY <1>1, <1>2, PTL

\* AdvertisesThePrefix: the speaker advertises the routes run() counts, which are
\* the first ones of the pool.
THEOREM PrefixAdvertised == InjectorSpec => []AdvertisesThePrefix
<1>1. InjectorInv => AdvertisesThePrefix
  BY DEF InjectorInv
<1>2. InjectorSpec => []InjectorInv
  BY InjectorInvariance
<1>3. QED
  BY <1>1, <1>2, PTL

\* SentinelAndPool: the first route stays up and no index leaves the pool.
THEOREM StaysInPool == InjectorSpec => []SentinelAndPool
<1>1. InjectorInv => SentinelAndPool
  <2> SUFFICES ASSUME InjectorInv, Advertising
               PROVE  /\ 0 \in advertised
                      /\ \A i \in advertised : i < cfg.base + cfg.amplitude
                      /\ cfg.base + cfg.amplitude <= cfg.addresses
    BY DEF SentinelAndPool
  <2>1. Checked(cfg) /\ advertised = 0 .. current - 1 /\ current \in TargetCounts(cfg)
    BY DEF InjectorInv, Advertising, AdvertisesThePrefix
  <2>2. QED
    BY <2>1 DEF Checked, TargetCounts
<1>2. InjectorSpec => []InjectorInv
  BY InjectorInvariance
<1>3. QED
  BY <1>1, <1>2, PTL

\* With the 1000 prefixes and the amplitude of 300 that lab/observability.clab.yml
\* gives every injector, a running injector advertises between 700 and 1300 of
\* them whatever the sine says: never a number that external_route_check or one of
\* the two range checks of verify would refuse.
WaveInRange == Advertising => InRange(current) /\ Cardinality(advertised) = current

THEOREM WaveStaysInRange ==
    ASSUME \A v \in Environment : v.base = 1000 /\ v.amplitude = 300
    PROVE  InjectorSpec => []WaveInRange
<1>1. InjectorInv => WaveInRange
  <2> SUFFICES ASSUME InjectorInv, Advertising
               PROVE  InRange(current) /\ Cardinality(advertised) = current
    BY DEF WaveInRange
  <2>1. cfg.base = 1000 /\ cfg.amplitude = 300
    BY DEF InjectorInv
  <2>2. current \in 700 .. 1300
    BY <2>1 DEF InjectorInv, TargetCounts
  <2>3. advertised = 0 .. current - 1
    BY DEF InjectorInv, Advertising, AdvertisesThePrefix
  <2>4. Cardinality(0 .. current - 1) = current
    BY <2>2, FS_Interval
  <2>5. InRange(current)
    BY <2>2, AcceptanceAssumption DEF InRange
  <2>6. QED
    BY <2>3, <2>4, <2>5
<1>2. InjectorSpec => []InjectorInv
  BY InjectorInvariance
<1>3. QED
  BY <1>1, <1>2, PTL
==============================================================================
