---------------------------- MODULE MCDeviceAgent ----------------------------
(***************************************************************************)
(* Instances of DeviceAgent for TLC.                                       *)
(***************************************************************************)
EXTENDS DeviceAgent
==============================================================================
