--------------------------- MODULE MCXMLHttpRequest ---------------------------
(***************************************************************************)
(* Instances of XMLHttpRequest for TLC.                                    *)
(***************************************************************************)
EXTENDS XMLHttpRequest
==============================================================================
