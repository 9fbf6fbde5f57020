---------------------------- MODULE ProtocolEdge ----------------------------
(***************************************************************************)
(* How mcp_router/core/protocol.py classifies the envelope of a POST as    *)
(* modern (2026-07-28) or legacy, and what it demands of a modern one.     *)
(* A version is the modern one, one of the published legacy revisions or   *)
(* something else; a header occurs at most once.                           *)
(***************************************************************************)
CONSTANTS Names, \* names of tools and prompts, and URIs of resources
          None

(* Methods whose name, or URI, the Mcp-Name header repeats. *)
NamedMethods == {"tools/call", "prompts/get", "resources/read"}

(* "resources/subscribe" stands for unsubscribe too, "other" for every     *)
(* method that neither the protocol edge nor the policy treats specially.  *)
Methods == NamedMethods \cup
    {"resources/subscribe", "subscriptions/listen", "initialize", "other"}

Versions == {"modern", "legacy", "other"}

(* params._meta: None when it is no object.  A version that is no string   *)
(* and capabilities that are no object are "bad".                          *)
Metas ==
    [version: Versions \cup {None, "bad"}, capabilities: {None, "bad", "object"},
     clientInfo: BOOLEAN] \cup {None}

(* body: whether parse_jsonrpc_request accepts it, and whether it fits.    *)
(* names: the name or URI in params, or the URIs a listen subscribes to.   *)
(* methodHeader, nameHeader: whether they repeat the body's method, name.  *)
Envelopes ==
    [body: {"ok", "malformed", "not-json", "too-large", "bad-uris"},
     method: Methods, names: SUBSET Names, meta: Metas,
     proposed: {None, "legacy", "other"}, version: Versions \cup {None},
     methodHeader: {None, "same", "other"}, nameHeader: {None, "same", "other"},
     session: BOOLEAN]

(* A modern-only field of params._meta, whatever its value. *)
ModernMeta(e) ==
    e.meta # None /\ (e.meta.version # None \/ e.meta.capabilities # None \/ e.meta.clientInfo)

ModernEvidence(e) == ModernMeta(e) \/ e.version = "modern"

LegacyEvidence(e) ==
    \/ e.version = "legacy"
    \/ e.version = None /\ e.method = "initialize" /\ e.proposed = "legacy"

(* Mutant: legacy evidence is looked at first. *)
EraLegacyFirst(e, optIn) ==
    IF LegacyEvidence(e) THEN "legacy"
    ELSE IF ModernEvidence(e) THEN "modern"
    ELSE IF optIn /\ e.version = None /\ e.methodHeader = "same" THEN "legacy"
    ELSE IF e.methodHeader # None \/ e.nameHeader # None THEN "modern" ELSE "legacy"

(* classify_protocol_era; optIn is allow_headerless_legacy.  Routing       *)
(* headers alone make a request modern unless the endpoint opted in.       *)
Era(e, optIn) ==
    IF ModernEvidence(e) THEN "modern"
    ELSE IF LegacyEvidence(e) THEN "legacy"
    ELSE IF optIn /\ e.version = None /\ e.methodHeader = "same" THEN "legacy"
    ELSE IF e.methodHeader # None \/ e.nameHeader # None THEN "modern" ELSE "legacy"

(* What validate_protocol_request demands of a modern request. *)
ModernValid(e) ==
    /\ e.meta # None
    /\ e.meta.version \in Versions
    /\ e.meta.capabilities = "object"
    /\ e.version = e.meta.version
    /\ e.meta.version = "modern"
    /\ e.methodHeader = "same"
    /\ e.method \in NamedMethods => e.names # {} /\ e.nameHeader = "same"

(* Its absence is answered 400. *)
Valid(e, optIn) == Era(e, optIn) = "modern" => ModernValid(e)
=============================================================================
