---------------------------- MODULE MCLegacyBridge ----------------------------
(* Instances of LegacyBridge for TLC. *)
EXTENDS LegacyBridge, TLC

(* The members of each set are interchangeable. *)
Symmetric == Permutations(Sessions) \cup Permutations(Posts)
=============================================================================
