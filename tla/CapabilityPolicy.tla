-------------------------- MODULE CapabilityPolicy --------------------------
(***************************************************************************)
(* The endpoint policy of mcp_router/core/policy.py: which direct calls it *)
(* authorises, and which entries of a listing it leaves in.                *)
(*                                                                         *)
(* Of a pair of lists, at most one is given.  methods is the set of        *)
(* methods the pair admits, names[k] the set of names of capability k; an  *)
(* absent or malformed name, None, is admitted unless the list of allowed  *)
(* names is given.                                                         *)
(***************************************************************************)
EXTENDS ProtocolEdge

Capabilities == {"tools", "resources", "prompts"}

Policies ==
    [methods: SUBSET Methods, names: [Capabilities -> SUBSET (Names \cup {None})]]

(* The capability whose lists judge a call, None where names do not matter. *)
Capability(method, name) ==
    CASE method = "tools/call"  -> "tools"
      [] method = "prompts/get" -> "prompts"
      [] method \in {"resources/read", "resources/subscribe"} -> "resources"
      [] method = "subscriptions/listen" /\ name # None -> "resources"
      [] OTHER -> None

(* Mutant: the names of a listen are not judged. *)
AuthorizesAnyListen(policy, method, name) ==
    /\ method \in policy.methods
    /\ LET k == Capability(method, name) IN
       k # None /\ method # "subscriptions/listen" => name \in policy.names[k]

Authorizes(policy, method, name) ==
    /\ method \in policy.methods
    /\ LET k == Capability(method, name) IN k # None => name \in policy.names[k]

PolicyNamedMethods == NamedMethods \cup {"resources/subscribe", "subscriptions/listen"}

(* extract_policy_request_names: every name a request must be allowed. *)
PolicyNames(e) ==
    IF e.method \in PolicyNamedMethods /\ e.names # {} THEN e.names ELSE {None}

Allows(policy, e) == \A n \in PolicyNames(e) : Authorizes(policy, e.method, n)

(* The direct call that decides whether an entry is listed. *)
ListedBy == [tools |-> "tools/call", resources |-> "resources/read", prompts |-> "prompts/get"]

(* project_json_text: the entries of a listing of k that are left in. *)
Project(policy, k, entries) == {n \in entries : Authorizes(policy, ListedBy[k], n)}
=============================================================================
