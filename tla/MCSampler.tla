----------------------------- MODULE MCSampler -----------------------------
(***************************************************************************)
(* Sampler for TLC: one frame per call, or three sub-samples per call.     *)
(***************************************************************************)
EXTENDS Sampler
=============================================================================
