----------------------------- MODULE MCPipeline -----------------------------
(* The pipelines on their own, for TLC. *)
EXTENDS EvidenceInvariant
=============================================================================
