---------------------------- MODULE MCStateCache ----------------------------
(***************************************************************************)
(* One interface with two leaves under one state container, and one BGP    *)
(* neighbor whose prefixes leaf is outside its state container.            *)
(***************************************************************************)
EXTENDS StateCache, TLC

CONSTANTS interface, neighbor, admin, oper, session, prefixes, old, new

MCLeaf  == {admin, oper, session, prefixes}
MCKey   == {interface, neighbor}
MCOwner == [l \in MCLeaf |-> IF l \in {admin, oper} THEN interface ELSE neighbor]
MCValue == {old, new}

MCDeletePath == {{admin, oper}, {oper}, {session}, {session, prefixes}}

Updates == {[l \in ls |-> v] :
              ls \in {{admin}, {oper}, {admin, oper}, {session}, {session, prefixes}},
              v \in MCValue}
\* The merge never looks at a value.
Symmetry == Permutations(MCValue)

NoUpdate == [l \in {} |-> old]

\* An update, a deletion, or a replacement that carries both.
MCNotification ==
    [ts : 1..3, update : Updates, delete : {{}}]
      \cup [ts : 1..3, update : {NoUpdate}, delete : {{d} : d \in MCDeletePath}]
      \cup [ts : {2}, update : Updates,
            delete : {{{oper}}, {{admin, oper}}, {{session}, {session, prefixes}}}]
==============================================================================
