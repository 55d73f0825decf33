-------------------------- MODULE MCCocosThreadQueue --------------------------
(***************************************************************************)
(* Instances of CocosThreadQueue for TLC.                                  *)
(***************************************************************************)
EXTENDS CocosThreadQueue
==============================================================================
