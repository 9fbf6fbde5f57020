---------------------------- MODULE SecurityEdge ----------------------------
(***************************************************************************)
(* What mcp_router/core/security.py decides of a caller before a request   *)
(* is routed.  A Host header, an Origin, a peer address and a credential   *)
(* are each abstracted to what the decisions tell apart.                   *)
(***************************************************************************)
(* SecurityConfig: api_key and trusted_proxies are present or absent.  The  *)
(* validator refuses "authenticated" without either.                       *)
SecurityConfigs ==
    {s \in [mode: {"local_only", "remote", "authenticated"},
            apiKey: BOOLEAN, trustedProxies: BOOLEAN] :
        s.mode = "authenticated" => s.apiKey \/ s.trustedProxies}

(* host and origin: on the list of the configuration or not, an origin     *)
(* possibly that of a loopback page.  peer: a loopback address, an address *)
(* within trusted_proxies if there are any, or another one.                *)
Callers ==
    [host: {"listed", "other"},
     peer: {"unknown", "loopback", "proxy", "other"},
     origin: {"absent", "listed", "loopback", "other"},
     bearer: {"absent", "api-key", "other"},
     identity: {"absent", "named"},
     verb: {"POST", "GET", "preflight"}]

OriginAllowed(c, security) ==
    \/ c.origin = "listed"
    \/ c.origin = "loopback" /\ security.mode = "local_only"

(* The exposure checks: what is answered 403 otherwise. *)
Exposed(c, security) ==
    /\ c.host = "listed"
    /\ security.mode = "local_only" => c.peer = "loopback"
    /\ c.origin # "absent" => OriginAllowed(c, security)

(* A preflight of a page is answered 204 without authentication. *)
IsPreflight(c) == c.verb = "preflight" /\ c.origin # "absent"

AuthenticatedPrincipal(c, security) ==
    IF security.trustedProxies /\ c.peer = "proxy" /\ c.identity = "named"
    THEN "proxy"
    ELSE IF security.apiKey /\ c.bearer = "api-key" THEN "api-key" ELSE "nobody"

(* scope["mcp.principal"], or "nobody" where the caller is answered 401 *)
Principal(c, security) ==
    CASE security.mode = "local_only"    -> "local"
      [] security.mode = "remote"        -> "remote"
      [] security.mode = "authenticated" -> AuthenticatedPrincipal(c, security)
=============================================================================
