----------------------------- MODULE MCInjector -----------------------------
(***************************************************************************)
(* Configurations around every limit of loadConfig, and AS numbers of      *)
(* three bits so that the narrowing is within reach.                       *)
(***************************************************************************)
EXTENDS Injector

MCEnvironment ==
    [localAS : {0, 1, 7, 8, 9}, peerAS : {0, 1},
     base : 0 .. 4, amplitude : -1 .. 3, addresses : {4, 8},
     period : {6}, step : {0, 2, 4}, slot : {-1, 0, 7, 8}]
==============================================================================
