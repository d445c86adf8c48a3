----------------------------- MODULE MCAiQuota -----------------------------
(* A small instance of AiQuota for TLC. *)
EXTENDS AiQuota, TLC

MCSymmetry == Permutations(Request)
=============================================================================
