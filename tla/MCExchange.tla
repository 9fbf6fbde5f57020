----------------------------- MODULE MCExchange -----------------------------
(* An instance of Exchange for TLC. *)
EXTENDS Exchange

(* Callers that differ from a local or a proxied one in at most one point. *)
Local   == [host |-> "listed", peer |-> "loopback", origin |-> "absent",
            bearer |-> "absent", identity |-> "absent", verb |-> "POST"]
Proxied == [Local EXCEPT !.peer = "proxy", !.identity = "named"]

ClientSet ==
    {c \in Callers : \E base \in {Local, Proxied} :
        Cardinality({f \in DOMAIN base : c[f] # base[f]}) <= 1 }

Meta(v, c, i) == [version |-> v, capabilities |-> c, clientInfo |-> i]
Modern == Meta("modern", "object", FALSE)
MetaSet == {None, Modern, Meta("modern", None, FALSE), Meta("legacy", "object", FALSE),
            Meta("bad", None, FALSE), Meta(None, None, TRUE)}

Envelope(method, names, meta, version, methodHeader, nameHeader) ==
    [body |-> "ok", method |-> method, names |-> names, meta |-> meta, proposed |-> None,
     version |-> version, methodHeader |-> methodHeader, nameHeader |-> nameHeader,
     session |-> FALSE]

Headers == {None, "same", "other"}

WellFormed ==
    {Envelope("tools/call", n, meta, v, h, k) :
        n \in {{}, {"a"}}, meta \in MetaSet, v \in {None, "modern", "legacy"}, h \in Headers, k \in Headers}
    \cup {Envelope("tools/call", {"b"}, meta, v, h, h) :
        meta \in {None, Modern}, v \in {None, "modern"}, h \in Headers}
    \cup {Envelope("resources/subscribe", n, meta, v, h, None) :
        n \in {{}, {"b"}}, meta \in {None, Modern}, v \in {None, "modern"}, h \in Headers}
    \cup {Envelope("subscriptions/listen", n, None, None, None, None) : n \in SUBSET Names}

Initialize ==
    {[Envelope("initialize", {}, meta, v, h, None) EXCEPT !.proposed = p] :
        meta \in {None, Meta("modern", None, FALSE)},
        v \in {None, "legacy", "other"}, h \in {None, "other"}, p \in {None, "legacy", "other"}}

Malformed ==
    {[Envelope("subscriptions/listen", {}, None, None, None, None) EXCEPT !.body = b] :
        b \in {"malformed", "not-json", "too-large", "bad-uris"}}

WithSession ==
    {[Envelope("tools/call", {"a"}, meta, v, h, h) EXCEPT !.session = TRUE] :
        meta \in {None, Modern}, v \in {None, "modern"}, h \in {None, "same"}}

RequestSet == WellFormed \cup Initialize \cup Malformed \cup WithSession

ListingSet ==
    {[capability |-> k, entries |-> {"a", "b"}] : k \in Capabilities}
    \cup {[capability |-> "tools", entries |-> n] : n \in {{"a"}, {"a", None}}}
    \cup {[capability |-> "prompts", entries |-> {"b", None}]}

Open  == [methods |-> Methods, names |-> [k \in Capabilities |-> Names \cup {None}]]
Tight == [methods |-> Methods \ {"resources/read"},
          names |-> [tools |-> {"a"}, resources |-> {"a"}, prompts |-> {"b", None}]]

ConfigSet ==
    { [security |-> [mode |-> "local_only", apiKey |-> FALSE, trustedProxies |-> FALSE],
       endpoint |-> [runtime |-> "first", transport |-> "streamable-http", bridge |-> TRUE, optIn |-> TRUE, policy |-> Open],
       secrets  |-> << <<1, 2, 1>>, <<2, 2>> >>],
      [security |-> [mode |-> "authenticated", apiKey |-> TRUE, trustedProxies |-> TRUE],
       endpoint |-> [runtime |-> "first", transport |-> "streamable-http", bridge |-> FALSE, optIn |-> FALSE, policy |-> Tight],
       secrets  |-> << <<1, 1>>, <<1>> >>],
      [security |-> [mode |-> "remote", apiKey |-> FALSE, trustedProxies |-> TRUE],
       endpoint |-> [runtime |-> "second", transport |-> "sse", bridge |-> FALSE, optIn |-> FALSE, policy |-> Tight],
       secrets  |-> <<>>],
      [security |-> [mode |-> "remote", apiKey |-> FALSE, trustedProxies |-> FALSE],
       endpoint |-> None, secrets |-> <<>>] }
=============================================================================
