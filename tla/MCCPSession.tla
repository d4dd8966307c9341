---------------------------- MODULE MCCPSession ----------------------------
(* CPSession for TLC: the .cfg files give its bounds. *)
EXTENDS CPSession
=============================================================================
