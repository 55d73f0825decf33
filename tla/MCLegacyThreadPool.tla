-------------------------- MODULE MCLegacyThreadPool --------------------------
(***************************************************************************)
(* Instances of LegacyThreadPool for TLC.                                  *)
(***************************************************************************)
EXTENDS LegacyThreadPool
==============================================================================
