-------------------------- MODULE MCMcpMqttBuffer --------------------------
(* Instances of McpMqttBuffer for TLC. *)
EXTENDS McpMqttBuffer, TLC

Symmetry == Permutations(Calls)
=============================================================================
