---------------------------- MODULE MCObservations ----------------------------
(***************************************************************************)
(* One device with an Ethernet, a Loopback and a neighbor; counts may be   *)
(* zero or one, and a counter may be below zero.                           *)
(***************************************************************************)
EXTENDS Observations

MCOctets == {-1, 0}
===============================================================================
