--------------------------- MODULE MCMessageQueue ---------------------------
(***************************************************************************)
(* Instances of MessageQueue for TLC.  The bounds are in the .cfg files.   *)
(***************************************************************************)
EXTENDS MessageQueue
==============================================================================
