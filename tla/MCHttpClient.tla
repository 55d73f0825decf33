----------------------------- MODULE MCHttpClient -----------------------------
(***************************************************************************)
(* Instances of HttpClient for TLC.                                        *)
(***************************************************************************)
EXTENDS HttpClient
==============================================================================
