----------------------------- MODULE MCCollector -----------------------------
(***************************************************************************)
(* Two devices that share the queue, the sink thread and the stop event.   *)
(* Their workers are alike, and so are the interfaces of one kind.         *)
(***************************************************************************)
EXTENDS CollectorProps, TLC

AnyDevice    == Permutations(Device)
AnyInterface == Permutations(OtherInterface)
==============================================================================
