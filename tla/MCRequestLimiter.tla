--------------------------- MODULE MCRequestLimiter ---------------------------
(* An endpoint with one tool that has limits of its own. *)
EXTENDS RequestLimiter, TLC

CONSTANT Tool

ToolSet == {Tool}

Limits(c, r) == [max_concurrent |-> c, requests_per_minute |-> r]

Limited(e, t) == (Endpoint :> e) @@ (Tool :> t)

(* Reloads lower the endpoint's limit and raise it again, give it a rate,  *)
(* and give the tool limits of its own or take them away.                  *)
ConfigSet ==
    {Limited(Limits(2, None), Limits(1, 1)),
     Limited(Limits(1, 2), Limits(None, None)),
     Limited(Limits(2, 2), Limits(1, None))}

Symmetric == Permutations(Requests)
=============================================================================
