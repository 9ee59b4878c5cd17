---------------------------- MODULE MCMqttExplorer ----------------------------
(* Instances of MqttExplorer for TLC. *)
EXTENDS MqttExplorer, TLC

CONSTANTS fAll, fOne, tOne, tTwo

\* The first filter matches every topic, the second only the first topic.
MCMatching == {<<fAll, tOne>>, <<fAll, tTwo>>, <<fOne, tOne>>} \cap (Filters \X Topics)

Symmetry == Permutations(Records) \cup Permutations(Clients)
            \cup Permutations(Watchers) \cup Permutations(Calls)
=============================================================================
