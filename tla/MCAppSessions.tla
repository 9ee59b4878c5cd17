--------------------------- MODULE MCAppSessions ---------------------------
(* Instances of AppSessions for TLC. *)
EXTENDS AppSessions, TLC

Symmetry == Permutations(Ids) \cup Permutations(Calls)
            \cup Permutations(Passwords)
=============================================================================
