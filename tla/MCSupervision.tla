---------------------------- MODULE MCSupervision ----------------------------
(* One supervised agent, for TLC. *)
EXTENDS SupervisionInvariant
=============================================================================
