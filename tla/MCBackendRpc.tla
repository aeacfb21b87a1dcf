---------------------------- MODULE MCBackendRpc ----------------------------
(***************************************************************************)
(* An instance of BackendRpc for TLC: one call more than there are ids, so *)
(* two calls have ids of their own before the seed has come round, and the *)
(* third then takes an id that may still be pending.                       *)
(***************************************************************************)
EXTENDS BackendRpc

CONSTANTS r1, r2, r3

=============================================================================
