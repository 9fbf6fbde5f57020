------------------------------ MODULE Exchange ------------------------------
(***************************************************************************)
(* One HTTP exchange after the other, from the arrival of the request to   *)
(* its log record: GatewaySecurityMiddleware, catch_all_proxy with the     *)
(* protocol edge and the capability policy, the response of _proxy_request *)
(* with redaction and projection, and around all of it                     *)
(* GatewayObservabilityMiddleware.  Meanwhile the configuration is         *)
(* reloaded and the client leaves.                                         *)
(*                                                                         *)
(* An action is the code between two awaits.  What the limiter and the     *)
(* activation do while the exchange awaits them is RequestLimiter and      *)
(* EndpointRuntime; the retries and leases of the upstream request are     *)
(* GatewayRequest.  A session of the legacy bridge is LegacyBridge; here   *)
(* it is a stream whose events come from elsewhere, and a POST to it is    *)
(* answered at once.                                                       *)
(***************************************************************************)
EXTENDS SecurityEdge, CapabilityPolicy, Redaction, EventFraming

CONSTANTS
    Clients,    \* the callers considered, a subset of Callers
    Requests,   \* the envelopes considered, a subset of Envelopes
    Configs,    \* the configurations that can be published
    Listings,   \* the listings considered: a capability and its entries
    MaxText,    \* bound on the length of a streamed text
    MaxLines    \* bound on the lines of an event

Endpoints ==
    [runtime: {"first", "second"},  \* what a runtime-affecting change replaces
     transport: {"streamable-http", "sse"}, bridge: BOOLEAN, optIn: BOOLEAN, policy: Policies]

ASSUME RequestsAssumption == 
    /\ Clients \subseteq Callers
    /\ Requests \subseteq Envelopes
    /\ Listings \subseteq [capability: Capabilities, entries: SUBSET (Names \cup {None})]

ASSUME ConfigsAssumption ==
    \A c \in Configs :
        /\ c.security \in SecurityConfigs
        /\ c.endpoint = None \/ c.endpoint \in Endpoints
        /\ c.secrets \in Seq(Seq(Symbols) \ {<<>>})
        /\ \A i, j \in DOMAIN c.secrets : i < j => Len(c.secrets[i]) >= Len(c.secrets[j])

VARIABLES
    stage,      \* the await the handler is suspended at
    published,  \* the configuration snapshot of the router
    caller,     \* the request as the security middleware sees it
    security,   \* the SecurityConfig it was judged by
    principal,  \* scope["mcp.principal"]
    endpoint,   \* runtime.config, as catch_all_proxy read it
    envelope,   \* the POST's headers and body
    era,        \* "modern" or "legacy"
    outcome,    \* scope["mcp.policy_outcome"]
    routed,     \* scope["mcp.endpoint"] names the endpoint
    reply,      \* the status the response starts with
    listing,    \* what the client was last given to list
    text,       \* the streamed text: secrets, received, carry, sent, ended
    phase,      \* how far the response has been sent, see Phases
    reports,    \* the server reports a disconnect to receive() (ASGI before
                \* 2.4) rather than fail the sends
    gone,       \* the client has left
    status,     \* status_code of the observability middleware
    cancelled,  \* cancelled
    streamCut,  \* downstream_disconnected
    counted,    \* what the exchange added to stream_cancellations
    noticedIn   \* ghost: phase in which a disconnect was first noticed

judgedVars == <<caller, security, principal, envelope, era>>
routeVars  == <<judgedVars, endpoint, outcome, routed>>
replyVars  == <<reply, listing, text, reports>>
observeVars == <<phase, status, cancelled, streamCut, counted, noticedIn>>
vars == <<stage, published, routeVars, replyVars, observeVars, gone>>

Stages == {"arriving", "reading", "limits", "activating", "upstream",
           "answering", "opening", "events", "text", "session", "ended"}

(* A message in flight is one whose send() has not returned. *)
Phases == {"unsent", "start-in-flight", "started", "body-in-flight",
           "last-in-flight", "complete"}

(* None is none of the values it stands in for. *)
ASSUME NoneAssumption ==
    None \notin Names \cup Capabilities \cup Phases \cup {"local", "remote", "proxy", "api-key", "other"}

InFlight == {"start-in-flight", "body-in-flight", "last-in-flight"}

(* response_started and response_complete *)
Started  == phase \in {"started", "body-in-flight", "last-in-flight", "complete"}
Complete == phase = "complete"

(* A text is opening until the first iteration of its generator.  What is  *)
(* streamed for the upstream is streamed under the lease of its runtime.   *)
Relaying   == stage \in {"opening", "events", "text"}
Streaming  == Relaying \/ stage = "session"
Responding == stage = "answering" \/ Streaming

NoText == [secrets |-> <<>>, received |-> <<>>, carry |-> <<>>, sent |-> <<>>, ended |-> FALSE]

-----------------------------------------------------------------------------
(* The observability middleware. *)

(* Mutant: a disconnect after the end of the response is marked too. *)
MarkAlways ==
    /\ cancelled' = TRUE
    /\ streamCut' = Started
    /\ status' = 499
    /\ noticedIn' = IF noticedIn = None THEN phase ELSE noticedIn

(* mark_downstream_disconnect *)
Mark ==
    /\ noticedIn' = IF noticedIn = None THEN phase ELSE noticedIn
    /\ IF Complete
       THEN UNCHANGED <<cancelled, streamCut, status>>
       ELSE cancelled' = TRUE /\ streamCut' = Started /\ status' = 499

(* The finally block: the counter, then the record. *)
Record(cut) ==
    /\ stage' = "ended"
    /\ counted' = IF cut /\ routed THEN counted + 1 ELSE counted

(* The response is ready to be sent; what admitted its request is not read *)
(* again.                                                                  *)
Respond(next, code) ==
    /\ stage' = next
    /\ reply' = code
    /\ reports' \in BOOLEAN
    /\ caller' = None /\ security' = None /\ principal' = None /\ envelope' = None /\ era' = None

(* The handler answers with a complete response. *)
Answer(code) == Respond("answering", code) /\ UNCHANGED text

-----------------------------------------------------------------------------
(* Admission. *)

(* What the security middleware lets through, by the SecurityConfig of the *)
(* moment.                                                                 *)
Passes(c) ==
    Exposed(c, published.security) /\ ~IsPreflight(c) /\ Principal(c, published.security) # "nobody"

(* It answers itself. *)
Refuse(c) ==
    /\ stage = "arriving"
    /\ ~Passes(c)
    /\ Answer(IF ~Exposed(c, published.security) THEN 403 ELSE IF IsPreflight(c) THEN 204 ELSE 401)
    /\ UNCHANGED <<published, endpoint, outcome, routed, listing, observeVars, gone>>

(* catch_all_proxy answers 404, there is no such endpoint or no subpath of *)
(* it, or 405, the modern version header came by another method than POST. *)
Unroutable(c) ==
    /\ stage = "arriving"
    /\ Passes(c)
    /\ published.endpoint # None => published.endpoint.transport = "streamable-http"
    /\ \E code \in {404, 405} :
        /\ code = 405 => published.endpoint # None /\ c.verb # "POST"
        /\ Answer(code)
    /\ routed' = TRUE
    /\ UNCHANGED <<published, endpoint, outcome, listing, observeVars, gone>>

(* It reads the configuration of the endpoint, up to its first await: the  *)
(* body of a POST.  No policy applies to anything else.                    *)
Arrive(c) ==
    /\ stage = "arriving"
    /\ Passes(c)
    /\ published.endpoint # None
    /\ caller' = c
    /\ security' = published.security
    /\ principal' = Principal(c, published.security)
    /\ endpoint' = published.endpoint
    /\ routed' = TRUE
    /\ stage' = IF c.verb = "POST" THEN "reading" ELSE "limits"
    /\ outcome' = IF c.verb = "POST" THEN outcome ELSE "not_applicable"
    /\ UNCHANGED <<published, envelope, era, replyVars, observeVars, gone>>

(* What _read_post_body and catch_all_proxy refuse before the policy. *)
Refusal(e) ==
    CASE e.body = "not-json"  -> 415
      [] e.body = "too-large" -> 413
      [] OTHER                -> 400

Accepted(e) ==
    /\ e.body \in {"ok", "bad-uris"}
    /\ e.body = "bad-uris" => e.method # "subscriptions/listen"
    /\ Valid(e, endpoint.optIn)
    /\ Era(e, endpoint.optIn) = "modern" => endpoint.transport = "streamable-http" /\ ~e.session

Denied(e) == ~Allows(endpoint.policy, e)

(* The body has been read; nothing suspends before the limiter. *)
ReadBody(e) ==
    /\ stage = "reading"
    /\ Accepted(e) /\ ~Denied(e)
    /\ stage' = "limits"
    /\ envelope' = e
    /\ era' = Era(e, endpoint.optIn)
    /\ outcome' = "allowed"
    /\ UNCHANGED <<published, caller, security, principal, endpoint, routed, replyVars, observeVars, gone>>

RejectBody(e) ==
    /\ stage = "reading"
    /\ IF Accepted(e)
       THEN Denied(e) /\ outcome' = "denied" /\ Answer(403)
       ELSE Answer(Refusal(e)) /\ UNCHANGED outcome
    /\ UNCHANGED <<published, endpoint, routed, listing, observeVars, gone>>

(* request.stream() raises ClientDisconnect: Starlette answers 500, which  *)
(* nobody receives.                                                        *)
ReadFails ==
    /\ stage = "reading" /\ gone
    /\ Mark
    /\ Answer(500)
    /\ UNCHANGED <<published, endpoint, outcome, routed, listing, phase, counted, gone>>

Limited ==
    /\ stage = "limits"
    /\ outcome' = "limited"
    /\ Answer(429)
    /\ UNCHANGED <<published, endpoint, routed, listing, observeVars, gone>>

(* What a streamable endpoint does without its upstream: a GET opens a     *)
(* session of the bridge; without a bridge there is no session to POST to. *)
WithoutUpstream ==
    /\ endpoint.transport = "streamable-http"
    /\ \/ caller.verb = "GET" /\ endpoint.bridge
       \/ caller.verb = "POST" /\ era = "legacy" /\ envelope.session /\ ~endpoint.bridge

Admit ==
    /\ stage = "limits"
    /\ ~WithoutUpstream
    /\ stage' = "activating"
    /\ UNCHANGED <<published, routeVars, replyVars, observeVars, gone>>

(* A GET that does not ask for events, 405, or for which no session can be *)
(* opened, 429 or 503; a POST to a session where there is no bridge, 400.  *)
AnswerLocally ==
    /\ stage = "limits"
    /\ endpoint.transport = "streamable-http"
    /\ \/ caller.verb = "GET" /\ Answer(405)
       \/ caller.verb = "GET" /\ endpoint.bridge /\ \E code \in {429, 503} : Answer(code)
       \/ caller.verb = "POST" /\ WithoutUpstream /\ Answer(400)
    /\ UNCHANGED <<published, endpoint, outcome, routed, listing, observeVars, gone>>

(* open_session *)
OpenSession ==
    /\ stage = "limits"
    /\ caller.verb = "GET" /\ WithoutUpstream
    /\ Respond("session", 200)
    /\ UNCHANGED <<published, endpoint, outcome, routed, listing, text, observeVars, gone>>

(* _acquire_upstream_lease: a runtime that was retired meanwhile rejects. *)
Dispatch ==
    /\ stage = "activating"
    /\ published.endpoint # None /\ published.endpoint.runtime = endpoint.runtime
    /\ stage' = "upstream"
    /\ UNCHANGED <<published, routeVars, replyVars, observeVars, gone>>

Unavailable ==
    /\ stage = "activating"
    /\ \E code \in {500, 503} : Answer(code)
    /\ UNCHANGED <<published, endpoint, outcome, routed, listing, observeVars, gone>>

-----------------------------------------------------------------------------
(* The response of the upstream. *)

(* A legacy POST to a session of the bridge is not proxied. *)
Bridged ==
    /\ endpoint.transport = "streamable-http" /\ endpoint.bridge
    /\ caller.verb = "POST" /\ era = "legacy" /\ envelope.session

(* handle_post accepts it or not, and has the response sent to the session *)
(* event by event: projected by the policy the POST was judged by.         *)
AnswerBridged ==
    /\ stage = "upstream"
    /\ Bridged
    /\ \E code \in {202, 404, 409, 410, 502, 503} : Answer(code)
    /\ UNCHANGED <<published, endpoint, outcome, routed, listing, observeVars, gone>>

UpstreamFails ==
    /\ stage = "upstream"
    /\ ~Bridged
    /\ \E code \in {502, 504} : Answer(code)
    /\ UNCHANGED <<published, endpoint, outcome, routed, listing, observeVars, gone>>

(* A JSON body, possibly a listing, is projected by the captured policy. *)
AnswerJson ==
    /\ stage = "upstream"
    /\ ~Bridged
    /\ \E l \in Listings :
        listing' = [by |-> "body", listing |-> l,
                    shown |-> Project(endpoint.policy, l.capability, l.entries)]
    /\ Answer(200)
    /\ UNCHANGED <<published, endpoint, outcome, routed, observeVars, gone>>

Stream(kind) ==
    /\ stage = "upstream"
    /\ ~Bridged
    /\ Respond(kind, 200)
    /\ UNCHANGED <<published, endpoint, outcome, routed, listing, text, observeVars, gone>>

StreamEvents == Stream("events")

(* The headers are made here, the text is looked at later. *)
StreamText == Stream("opening")

(* The first iteration, once the start has been sent: the redactor of that *)
(* moment serves the whole text.                                           *)
BeginText ==
    /\ stage = "opening" /\ phase = "started"
    /\ stage' = "text"
    /\ text' = [NoText EXCEPT !.secrets = published.secrets]
    /\ UNCHANGED <<published, routeVars, reply, listing, reports, observeVars, gone>>

(* Mutant: an event is projected by the policy the request was judged by. *)
CapturedPolicy == endpoint.policy

(* self._configs.get(path_prefix, endpoint) *)
CurrentPolicy ==
    IF published.endpoint = None THEN endpoint.policy ELSE published.endpoint.policy

ProjectedData == <<<<"data", 0>>>>

(* The lines of an event, and what a client reads from them. *)
Frames ==
    UNION {[1..n -> {"data", "other"}] : n \in 1..MaxLines}

SendEvent ==
    /\ stage = "events" /\ phase = "started"
    /\ \E l \in Listings, frame \in Frames :
        LET lines == [i \in DOMAIN frame |-> <<frame[i], i>>]
            shown == Project(CurrentPolicy, l.capability, l.entries)
            data  == IF shown = l.entries THEN DataOf(lines) ELSE ProjectedData
        IN listing' = [by |-> "event", listing |-> l, shown |-> shown,
                       lines |-> lines, sent |-> TransformEvent(lines, data)]
    /\ phase' = "body-in-flight"
    /\ UNCHANGED <<stage, published, routeVars, reply, text, reports, status, cancelled,
                   streamCut, counted, noticedIn, gone>>

(* An event that a bridge task has queued. *)
SendQueued ==
    /\ stage = "session" /\ phase = "started"
    /\ phase' = "body-in-flight"
    /\ UNCHANGED <<stage, published, routeVars, replyVars, status, cancelled, streamCut,
                   counted, noticedIn, gone>>

(* A chunk of text: what is certain is sent, the rest is carried over. *)
SendText ==
    /\ stage = "text" /\ phase = "started" /\ ~text.ended
    /\ \E n \in 1..(MaxText - Len(text.received)) : \E chunk \in [1..n -> Symbols] :
        LET combined == text.carry \o chunk
            output   == Redact(Sendable(combined, text.secrets), text.secrets)
        IN /\ text' = [text EXCEPT !.received = @ \o chunk,
                                   !.carry = Kept(combined, text.secrets),
                                   !.sent = @ \o output]
           /\ phase' = IF output = <<>> THEN "started" ELSE "body-in-flight"
    /\ UNCHANGED <<stage, published, routeVars, reply, listing, reports, status, cancelled,
                   streamCut, counted, noticedIn, gone>>

(* The text has ended: the tail, if any, is sent. *)
SendTail ==
    /\ stage = "text" /\ phase = "started" /\ ~text.ended
    /\ text' = [text EXCEPT !.sent = @ \o Redact(text.carry, text.secrets),
                            !.carry = <<>>, !.ended = TRUE]
    /\ phase' = IF text.carry = <<>> THEN "started" ELSE "body-in-flight"
    /\ UNCHANGED <<stage, published, routeVars, reply, listing, reports, status, cancelled,
                   streamCut, counted, noticedIn, gone>>

-----------------------------------------------------------------------------
(* Sending, as observed_send sees it. *)

BeginResponse ==
    /\ Responding
    /\ phase = "unsent"
    /\ phase' = "start-in-flight"
    /\ status' = reply
    /\ UNCHANGED <<stage, published, routeVars, replyVars, cancelled, streamCut, counted,
                   noticedIn, gone>>

(* The body of a complete response, or the end of a stream. *)
SendLast ==
    /\ phase = "started"
    /\ Responding /\ stage # "opening"
    /\ stage = "text" => text.ended
    /\ phase' = "last-in-flight"
    /\ UNCHANGED <<stage, published, routeVars, replyVars, status, cancelled, streamCut,
                   counted, noticedIn, gone>>

(* send() returns; a server that fails sends does so once it knows. *)
Sent ==
    /\ Responding /\ phase \in InFlight
    /\ noticedIn # None => reports
    /\ phase' = IF phase = "last-in-flight" THEN "complete" ELSE "started"
    /\ UNCHANGED <<stage, published, routeVars, replyVars, status, cancelled, streamCut,
                   counted, noticedIn, gone>>

(* send() raises, and so does the handler. *)
SendFails ==
    /\ Responding /\ phase \in InFlight /\ gone /\ ~reports
    /\ Mark
    /\ Record(streamCut')
    /\ UNCHANGED <<published, routeVars, replyVars, phase, gone>>

(* The upstream breaks in the middle of a stream; the handler raises. *)
StreamBreaks ==
    /\ stage \in {"events", "text"} /\ phase = "started"
    /\ ~(stage = "text" /\ text.ended)
    /\ Record(streamCut)
    /\ UNCHANGED <<published, routeVars, replyVars, phase, status, cancelled, streamCut,
                   noticedIn, gone>>

(* The listener of the StreamingResponse receives http.disconnect and      *)
(* cancels the stream, which may get past an await or two before it ends.  *)
Notice ==
    /\ Streaming /\ reports /\ gone
    /\ noticedIn = None
    /\ Mark
    /\ UNCHANGED <<stage, published, routeVars, replyVars, phase, counted, gone>>

StreamCancelled ==
    /\ Streaming /\ reports /\ noticedIn # None
    /\ Record(streamCut)
    /\ UNCHANGED <<published, routeVars, replyVars, phase, status, cancelled, streamCut,
                   noticedIn, gone>>

Finish ==
    /\ Responding
    /\ Complete
    /\ Record(streamCut)
    /\ UNCHANGED <<published, routeVars, replyVars, phase, status, cancelled, streamCut,
                   noticedIn, gone>>

(* The server cancels the request, at any await. *)
Cancel ==
    /\ stage \notin {"arriving", "ended"}
    /\ cancelled' = TRUE
    /\ status' = 499
    /\ Record(streamCut)
    /\ UNCHANGED <<published, routeVars, replyVars, phase, streamCut, noticedIn, gone>>

ClientLeaves ==
    /\ stage \notin {"arriving", "ended"} /\ ~gone
    /\ gone' = TRUE
    /\ UNCHANGED <<stage, published, routeVars, replyVars, observeVars>>

(* apply_configuration publishes another snapshot.  A runtime is replaced  *)
(* only when it has been drained, that is not under this exchange's lease. *)
SameRuntime(e, f) == e # None /\ f # None /\ e.runtime = f.runtime

Reload ==
    /\ stage \notin {"arriving", "ended"}
    /\ \E config \in Configs \ {published} :
        /\ stage = "upstream" \/ Relaying => SameRuntime(config.endpoint, endpoint)
        /\ published' = config
    /\ UNCHANGED <<stage, routeVars, replyVars, observeVars, gone>>

NextExchange ==
    /\ stage = "ended"
    /\ stage' = "arriving"
    /\ caller' = None /\ security' = None /\ principal' = None /\ endpoint' = None
    /\ envelope' = None /\ era' = None /\ outcome' = "not_evaluated" /\ routed' = FALSE
    /\ reply' = None /\ listing' = None /\ text' = NoText /\ reports' = FALSE
    /\ phase' = "unsent" /\ status' = 500 /\ cancelled' = FALSE /\ streamCut' = FALSE
    /\ counted' = 0 /\ noticedIn' = None
    /\ gone' = FALSE
    /\ UNCHANGED published

-----------------------------------------------------------------------------
Init ==
    /\ stage = "arriving"
    /\ published \in Configs
    /\ caller = None /\ security = None /\ principal = None /\ endpoint = None
    /\ envelope = None /\ era = None /\ outcome = "not_evaluated" /\ routed = FALSE
    /\ reply = None /\ listing = None /\ text = NoText /\ reports = FALSE
    /\ phase = "unsent" /\ status = 500 /\ cancelled = FALSE /\ streamCut = FALSE
    /\ counted = 0 /\ noticedIn = None
    /\ gone = FALSE

Next ==
    \/ \E c \in Clients : Refuse(c) \/ Unroutable(c) \/ Arrive(c)
    \/ \E e \in Requests : ReadBody(e) \/ RejectBody(e)
    \/ ReadFails \/ Limited \/ Admit \/ AnswerLocally \/ OpenSession \/ Dispatch \/ Unavailable
    \/ AnswerBridged \/ UpstreamFails \/ AnswerJson \/ StreamEvents \/ StreamText \/ BeginText
    \/ SendEvent \/ SendQueued \/ SendText \/ SendTail
    \/ BeginResponse \/ SendLast \/ Sent \/ SendFails \/ StreamBreaks
    \/ Notice \/ StreamCancelled \/ Finish \/ Cancel
    \/ ClientLeaves \/ Reload \/ NextExchange

Spec == Init /\ [][Next]_vars

-----------------------------------------------------------------------------
(* What reaches the upstream has passed every check, whatever was reloaded *)
(* while its body was read and its lease awaited: its caller is within the *)
(* exposure of the mode it was judged by, its principal is vouched for, no *)
(* name in its body is outside the lists of the endpoint it was read with. *)
DispatchIsAuthorized ==
    stage = "upstream" =>
        /\ caller.host = "listed" /\ principal \notin {None, "nobody"}
        /\ security.mode = "local_only" => caller.peer = "loopback"
        /\ security.mode # "local_only" => caller.origin \in {"absent", "listed"}
        /\ security.mode = "authenticated" =>
              \/ principal = "api-key" /\ caller.bearer = "api-key"
              \/ principal = "proxy" /\ caller.peer = "proxy" /\ caller.identity = "named"
        /\ caller.verb = "POST" =>
              /\ envelope.method \in endpoint.policy.methods
              /\ envelope.method = "tools/call" => envelope.names \subseteq endpoint.policy.names.tools
              /\ envelope.method = "prompts/get" => envelope.names \subseteq endpoint.policy.names.prompts
              /\ envelope.method \in {"resources/read", "resources/subscribe", "subscriptions/listen"} =>
                    envelope.names \subseteq endpoint.policy.names.resources
        /\ SameRuntime(published.endpoint, endpoint)

(* A modern request is never taken for a legacy one: what carries a modern *)
(* sign reaches the upstream only if its routing headers repeat its body,  *)
(* and routing headers that do not are let through only for a legacy       *)
(* client, declared as such or accepted by the endpoint's opt-in.          *)
ModernIsHonoured ==
    stage = "upstream" /\ caller.verb = "POST" =>
        /\ ModernEvidence(envelope) =>
              /\ era = "modern" /\ ~envelope.session /\ endpoint.transport = "streamable-http"
              /\ envelope.version = "modern" /\ envelope.methodHeader = "same"
              /\ envelope.method \in NamedMethods => envelope.nameHeader = "same"
        /\ ~ModernEvidence(envelope) /\ "other" \in {envelope.methodHeader, envelope.nameHeader} =>
              \/ LegacyEvidence(envelope)
              \/ endpoint.optIn /\ envelope.methodHeader = "same"

(* The entries a client reads from a listing, {} if it cannot read one. *)
Read(l) ==
    CASE l.by = "body" -> l.shown
      [] l.by = "event" /\ DataOf(l.sent) = DataOf(l.lines) -> l.listing.entries
      [] l.by = "event" /\ DataOf(l.sent) = ProjectedData   -> l.shown
      [] OTHER -> {}

(* A listing that a request is answered with tells the client exactly what *)
(* it may call: in an event of the response, by the policy in force when   *)
(* it is sent; in a body, by the policy that judged the request.  Whatever *)
(* else such an event carries is left in order.  The events of a session   *)
(* of the bridge are not meant: they are projected when they are queued,   *)
(* by the policy that judged their POST.                                   *)
ListingsMatchCalls ==
    [][listing' # listing /\ listing' # None =>
        LET l      == listing'
            policy == IF l.by = "body" THEN endpoint.policy ELSE published.endpoint.policy
        IN /\ l.by = "event" => OtherOf(l.sent) = OtherOf(l.lines)
           /\ (l.by = "event" => DataOf(l.lines) # <<>>) =>
                 Read(l) = {n \in l.listing.entries :
                             Authorizes(policy, ListedBy[l.listing.capability], n)}]_vars

(* However a text is cut into chunks, what has been sent and what is still *)
(* carried make up the redaction of the whole; and nothing is held back    *)
(* without need: wherever the carried text could have been cut, a secret   *)
(* straddles the cut or may turn out to.                                   *)
StreamIsRedacted ==
    stage = "text" =>
        /\ text.sent \o Redact(text.carry, text.secrets) = Redact(text.received, text.secrets)
        /\ \A c \in (Len(text.received) - Len(text.carry) + 1)..Len(text.received) :
              c + Overlap(text.secrets) <= Len(text.received) =>
                  Straddling(text.received, text.secrets, c) # {}

(* However a secret is cut into chunks, and whatever other secrets it      *)
(* overlaps, it is not in what the client has got.                         *)
NoSecretIsSent ==
    stage = "text" =>
        \A j \in DOMAIN text.secrets, i \in DOMAIN text.sent :
            ~OccursAt(text.sent, text.secrets[j], i)

(* A stream cancellation is counted once, and only for a client that was   *)
(* first seen to be gone between the start and the end of its response.    *)
CancellationsCountedOnce ==
    stage = "ended" =>
        counted = IF routed /\ noticedIn \in {"started", "body-in-flight", "last-in-flight"}
                  THEN 1 ELSE 0
=============================================================================
