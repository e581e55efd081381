---------------------------- MODULE MCLLMRouter ----------------------------
(* LLMRouter for TLC: calls are interchangeable. *)
EXTENDS LLMRouter, TLC

Symmetry == Permutations(Callers)
=============================================================================
