-------------------------- MODULE MCBrokerControl --------------------------
(* Instances of BrokerControl for TLC. *)
EXTENDS BrokerControl, TLC

Symmetry == Permutations(Calls) \cup Permutations(Handlers) \cup Permutations(Texts)
=============================================================================
