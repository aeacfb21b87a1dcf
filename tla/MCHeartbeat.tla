---------------------------- MODULE MCHeartbeat ----------------------------
(***************************************************************************)
(* An instance of Heartbeat for TLC.                                       *)
(***************************************************************************)
EXTENDS Heartbeat
============================================================================
