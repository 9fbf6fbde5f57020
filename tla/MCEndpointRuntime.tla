-------------------------- MODULE MCEndpointRuntime --------------------------
(* Instances of EndpointRuntime for TLC. *)
EXTENDS EndpointRuntime, TLC

(* The members of each set are interchangeable. *)
Symmetric ==
    Permutations(Requests) \cup Permutations(Supervisors) \cup Permutations(Procs)
=============================================================================
