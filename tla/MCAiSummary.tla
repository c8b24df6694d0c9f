----------------------------- MODULE MCAiSummary -----------------------------
(* Instances of AiSummary for TLC. *)
EXTENDS AiSummary
=============================================================================
