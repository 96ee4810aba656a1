----------------------------- MODULE MCAiAssist -----------------------------
(* Instances of AiAssist for TLC. *)
EXTENDS AiAssist

CONSTANTS d1, d2, p, q, k1
=============================================================================
