--------------------------- MODULE MCGatewayRequest ---------------------------
(* Instances of GatewayRequest for TLC. *)
EXTENDS GatewayRequest, TLC

(* Requests are interchangeable. *)
Symmetric == Permutations(Requests)
=============================================================================
