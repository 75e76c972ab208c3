------------------------------- MODULE Network -------------------------------
(***************************************************************************)
(* The network of the lab as scripts/topology.py plans it: the addresses   *)
(* and BGP neighbors it writes into the startup configurations of the four *)
(* managed routers and expects of the sixteen external ones.  Who reaches  *)
(* whom, and which sessions come up, follows from both ends of every link  *)
(* and from the interfaces that are shut.                                  *)
(*                                                                         *)
(* <<"edge", 1>> is edge1, <<"link", x>> is 10.0.0.x, <<"loopback", n>> is *)
(* 10.255.0.n.                                                             *)
(***************************************************************************)
EXTENDS Naturals, Sequences, FiniteSets, Graphs

Managed == << <<"core", 1>>, <<"core", 2>>, <<"edge", 1>>, <<"edge", 2>> >>

Names == {Managed[n] : n \in 1 .. Len(Managed)}

\* Mutant of InternalLinks: the second link of edge2 ends at edge1.
InternalLinksAstray == {<<Managed[1], 1, Managed[2], 1, 0>>,
                        <<Managed[1], 2, Managed[3], 1, 1>>,
                        <<Managed[2], 2, Managed[3], 2, 2>>,
                        <<Managed[1], 3, Managed[4], 1, 3>>,
                        <<Managed[2], 3, Managed[3], 11, 4>>}

\* endpoint, Ethernet index, endpoint, Ethernet index, link subnet index
InternalLinks == {<<Managed[1], 1, Managed[2], 1, 0>>,
                  <<Managed[1], 2, Managed[3], 1, 1>>,
                  <<Managed[2], 2, Managed[3], 2, 2>>,
                  <<Managed[1], 3, Managed[4], 1, 3>>,
                  <<Managed[2], 3, Managed[4], 2, 4>>}

ExternalCount    == 16
ExternalsPerEdge == 8

ExpectedBgpSeries      == Len(Managed) * (Len(Managed) - 1) + ExternalCount
ExpectedEthernetSeries == Cardinality(InternalLinks) * 2 + ExternalCount

\* external_specs; a pool is the number of a /20 of 198.18.0.0/16.
External(offset) ==
    [name           |-> <<"external", offset + 1>>,
     edge           |-> <<"edge", IF offset < ExternalsPerEdge THEN 1 ELSE 2>>,
     edge_interface |-> 3 + (offset % ExternalsPerEdge),
     asn            |-> 65101 + offset,
     router_id      |-> <<1, offset + 1>>,
     peer_address   |-> 2 * (5 + offset) + 1,
     prefix_pool    |-> offset]

Externals == {External(offset) : offset \in 0 .. ExternalCount - 1}

------------------------------------------------------------------------------
\* The interface statements of configs() and the external ends, by link.
Port(name, i, x) == [of |-> name, ethernet |-> i, address |-> x]

\* Mutant of InternalEnds: the address does not depend on the end.
InternalEndsAlike(l) == {Port(l[1], l[2], 2 * l[5]), Port(l[3], l[4], 2 * l[5])}

InternalEnds(l) == {Port(l[1], l[2], 2 * l[5]), Port(l[3], l[4], 2 * l[5] + 1)}

ExternalEnds(e) == {Port(e.edge, e.edge_interface, e.peer_address - 1),
                    Port(e.name, 1, e.peer_address)}

OspfLinks == {InternalEnds(l) : l \in InternalLinks}
Links     == OspfLinks \cup {ExternalEnds(e) : e \in Externals}
Ports     == UNION Links

\* The neighbor statements: a speaker's own side, and what it expects.
Neighbor(name, as, own, remote_as, peer) ==
    [of |-> name, as |-> as, at |-> own, remote_as |-> remote_as, peer |-> peer]

Mesh == {Neighbor(Managed[n], 65000, <<"loopback", n>>, 65000, <<"loopback", m>>) :
            n, m \in 1 .. Len(Managed)}

ExternalNeighbors(e) ==
    LET edge == <<"link", e.peer_address - 1>>
        peer == <<"link", e.peer_address>>
    IN  {Neighbor(e.edge, 65000, edge, e.asn, peer),
         Neighbor(e.name, e.asn, peer, 65000, edge)}

Neighbors == {s \in Mesh : s.at # s.peer} \cup UNION {ExternalNeighbors(e) : e \in Externals}

------------------------------------------------------------------------------
\* What the routers make of it with some ports shut (external).
Works(l, shut) == l \cap shut = {}

Reaches(shut) ==
    ConnectionsIn([node |-> Names,
                   edge |-> UNION {{<<p.of, q.of>> : p, q \in l} :
                                      l \in {k \in OspfLinks : Works(k, shut)}}])

Expects(s, t) == t.at = s.peer /\ t.as = s.remote_as

\* Sessions between the loopbacks, and over the link itself.
Carried(s, shut) ==
    IF s.at[1] = "loopback"
    THEN Reaches(shut)[s.of, Managed[s.peer[2]]]
    ELSE \E l \in Links : /\ Works(l, shut)
                          /\ {p.address : p \in l} = {s.at[2], s.peer[2]}

Established(name, shut) ==
    {s \in Neighbors : /\ s.of = name
                       /\ \E t \in Neighbors : Expects(s, t) /\ Expects(t, s)
                       /\ Carried(s, shut)}

\* bgp_check: as many sessions as planned, all established.
BgpCheck(shut) ==
    \A name \in Names :
       Cardinality(Established(name, shut)) = IF name[1] = "core" THEN 3 ELSE 11

------------------------------------------------------------------------------
Once(S, f(_)) == \A x, y \in S : f(x) = f(y) => x = y

PlanFits ==
    /\ Once(Ports, LAMBDA p : <<p.of, p.ethernet>>)
    /\ Once(Ports, LAMBDA p : p.address)
    /\ \A l \in Links : Cardinality({p.address \div 2 : p \in l}) = 1
    /\ Cardinality({p \in Ports : p.of \in Names}) = ExpectedEthernetSeries
    /\ \A f \in {"asn", "router_id", "prefix_pool"} : Once(Externals, LAMBDA e : e[f])
    /\ \A e \in Externals : e.prefix_pool < 16
    /\ BgpCheck({})
    /\ Cardinality(UNION {Established(name, {}) : name \in Names}) = ExpectedBgpSeries

OneLinkIsSpare == \A l \in OspfLinks : \A p \in l : BgpCheck({p})
==============================================================================
