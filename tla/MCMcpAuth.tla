----------------------------- MODULE MCMcpAuth -----------------------------
(* Instances of McpAuth for TLC. *)
EXTENDS McpAuth, TLC

Symmetry == Permutations(Jtis) \cup Permutations(Requests)
=============================================================================
