--------------------------- MODULE MCMessageMemory ---------------------------
(***************************************************************************)
(* Instances of MessageMemory for TLC.                                     *)
(***************************************************************************)
EXTENDS MessageMemory
==============================================================================
