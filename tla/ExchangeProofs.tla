---------------------------- MODULE ExchangeProofs ----------------------------
(***************************************************************************)
(* Theorems about Exchange, for any callers, envelopes, policies,          *)
(* configurations, secrets and listings.                                   *)
(***************************************************************************)
EXTENDS Exchange, ResponseProofs

(* Where the exchange relies on what has been judged of its request. *)
Judged == {"reading", "limits", "activating", "upstream"}
Admitted == {"limits", "activating", "upstream"}

(* The caller was let through by the security configuration it was judged  *)
(* by, which a reload may have replaced since.                             *)
CallerInv ==
    /\ published \in Configs
    /\ stage \in Judged =>
        /\ security \in SecurityConfigs
        /\ caller.host = "listed"
        /\ Exposed(caller, security)
        /\ principal = Principal(caller, security) /\ principal # "nobody"
        /\ endpoint # None
    /\ stage = "reading" => caller.verb = "POST"

(* Its body was let through by the endpoint it was read with. *)
BodyInv ==
    stage \in Admitted /\ caller.verb = "POST" =>
        /\ envelope \in Requests
        /\ Accepted(envelope) /\ ~Denied(envelope)
        /\ era = Era(envelope, endpoint.optIn)

LeaseInv == stage = "upstream" => SameRuntime(published.endpoint, endpoint)

(* A step is one of admission, or leaves what was judged alone. *)
Aside ==
    /\ published' \in Configs
    /\ \/ stage' \notin Judged
       \/ /\ UNCHANGED <<stage, caller, security, principal, endpoint, envelope, era>>
          /\ stage = "upstream" => published' = published \/ SameRuntime(published'.endpoint, endpoint)

LEMMA StepsAside ==
    ASSUME published \in Configs, Next
    PROVE  \/ Aside \/ Admit \/ Dispatch
           \/ \E c \in Clients : Arrive(c)
           \/ \E e \in Requests : ReadBody(e)
<1> USE DEF Aside, Judged, Answer, Respond, Record, judgedVars, routeVars
<1>1. ASSUME NEW c \in Clients, Refuse(c) \/ Unroutable(c)
      PROVE  Aside
  BY <1>1 DEF Refuse, Unroutable
<1>2. ASSUME NEW e \in Requests, RejectBody(e)
      PROVE  Aside
  BY <1>2 DEF RejectBody
<1>3. CASE ReadFails \/ Limited \/ AnswerLocally \/ OpenSession \/ Unavailable
  BY <1>3 DEF ReadFails, Limited, AnswerLocally, OpenSession, Unavailable
<1>4. CASE AnswerBridged \/ UpstreamFails \/ AnswerJson \/ StreamEvents \/ StreamText \/ BeginText
  BY <1>4 DEF AnswerBridged, UpstreamFails, AnswerJson, StreamEvents, StreamText, Stream, BeginText
<1>5. CASE SendEvent \/ SendQueued \/ SendText \/ SendTail \/ BeginResponse \/ SendLast \/ Sent
  BY <1>5 DEF SendEvent, SendQueued, SendText, SendTail, BeginResponse, SendLast, Sent,
              Responding, Streaming, Relaying
<1>6. CASE SendFails \/ StreamBreaks \/ Notice \/ StreamCancelled \/ Finish \/ Cancel
  BY <1>6 DEF SendFails, StreamBreaks, Notice, StreamCancelled, Finish, Cancel,
              Responding, Streaming, Relaying
<1>7. CASE ClientLeaves \/ Reload \/ NextExchange
  BY <1>7 DEF ClientLeaves, Reload, NextExchange
<1> QED
  BY <1>1, <1>2, <1>3, <1>4, <1>5, <1>6, <1>7 DEF Next

LEMMA JudgedKeeps ==
    ASSUME CallerInv, BodyInv, LeaseInv, Next
    PROVE  CallerInv' /\ BodyInv' /\ LeaseInv'
<1> USE DEF CallerInv, BodyInv, LeaseInv, Judged, Admitted
<1>1. CASE Aside /\ stage' \notin Judged
  BY <1>1 DEF Aside
<1>2. CASE Aside /\ stage' \in Judged
  <2>1. UNCHANGED <<stage, caller, security, principal, endpoint, envelope, era>>
    BY <1>2 DEF Aside
  <2>2. LeaseInv'
    BY <1>2, <2>1 DEF Aside, SameRuntime
  <2> QED
    BY <1>2, <2>1, <2>2 DEF Aside, Accepted, Denied
<1>3. ASSUME NEW c \in Clients, Arrive(c)
      PROVE  CallerInv' /\ BodyInv' /\ LeaseInv'
  <2>1. /\ published.security \in SecurityConfigs
        /\ Exposed(c, published.security)
        /\ Principal(c, published.security) # "nobody"
    BY <1>3, ConfigsAssumption DEF Arrive, Passes
  <2>2. /\ published' = published /\ caller' = c /\ security' = published.security
        /\ principal' = Principal(c, published.security)
        /\ stage' = IF c.verb = "POST" THEN "reading" ELSE "limits"
        /\ endpoint' = published.endpoint /\ published.endpoint # None
    BY <1>3 DEF Arrive
  <2> QED
    BY <2>1, <2>2 DEF Exposed
<1>4. ASSUME NEW e \in Requests, ReadBody(e)
      PROVE  CallerInv' /\ BodyInv' /\ LeaseInv'
  BY <1>4 DEF ReadBody, Accepted, Denied
<1>5. CASE Admit \/ Dispatch
  <2>1. /\ UNCHANGED <<published, caller, security, principal, endpoint, envelope, era>>
        /\ stage \in {"limits", "activating"} /\ stage' \in {"activating", "upstream"}
        /\ stage' = "upstream" => Dispatch
    BY <1>5 DEF Admit, Dispatch, routeVars, judgedVars
  <2>2. CallerInv' /\ BodyInv'
    BY <2>1 DEF Accepted, Denied
  <2>3. LeaseInv'
    <3>1. Dispatch => /\ published.endpoint # None /\ published.endpoint.runtime = endpoint.runtime
      BY DEF Dispatch
    <3>2. endpoint # None
      BY <2>1
    <3> QED
      BY <2>1, <3>1, <3>2 DEF SameRuntime
  <2> QED
    BY <2>2, <2>3
<1>6. published \in Configs
  OBVIOUS
<1>7. \/ Aside \/ Admit \/ Dispatch
      \/ \E c \in Clients : Arrive(c)
      \/ \E e \in Requests : ReadBody(e)
  BY <1>6, StepsAside
<1> HIDE DEF CallerInv, BodyInv, LeaseInv, Judged, Admitted
<1> QED
  BY <1>1, <1>2, <1>3, <1>4, <1>5, <1>7

LEMMA JudgedFirst == Init => CallerInv /\ BodyInv /\ LeaseInv
BY DEF Init, CallerInv, BodyInv, LeaseInv, Judged, Admitted

-----------------------------------------------------------------------------
(* What the policy allows is on its lists, by name. *)
LEMMA AllowedNames ==
    ASSUME NEW policy, NEW e \in Envelopes, Allows(policy, e)
    PROVE  /\ e.method \in policy.methods
           /\ e.method = "tools/call" => e.names \subseteq policy.names.tools
           /\ e.method = "prompts/get" => e.names \subseteq policy.names.prompts
           /\ e.method \in {"resources/read", "resources/subscribe", "subscriptions/listen"} =>
                e.names \subseteq policy.names.resources
<1>1. e.names \subseteq Names /\ None \notin e.names
  BY NoneAssumption DEF Envelopes
<1>2. None \notin {"tools", "prompts", "resources"}
  BY NoneAssumption DEF Capabilities
<1>3. PolicyNames(e) # {}
  BY DEF PolicyNames
<1>4. e.method \in policy.methods
  BY <1>3 DEF Allows, Authorizes
<1>5. ASSUME NEW n \in e.names, e.method \in PolicyNamedMethods
      PROVE  LET k == Capability(e.method, n) IN k # None => n \in policy.names[k]
  BY <1>5 DEF PolicyNames, Allows, Authorizes
<1> USE DEF PolicyNamedMethods, NamedMethods
<1>6. e.method = "tools/call" => e.names \subseteq policy.names.tools
  BY <1>2, <1>5 DEF Capability
<1>7. e.method = "prompts/get" => e.names \subseteq policy.names.prompts
  BY <1>2, <1>5 DEF Capability
<1>8. e.method \in {"resources/read", "resources/subscribe", "subscriptions/listen"} =>
        e.names \subseteq policy.names.resources
  BY <1>1, <1>2, <1>5 DEF Capability
<1> QED
  BY <1>4, <1>6, <1>7, <1>8

(* Whoever is past the security middleware is vouched for. *)
LEMMA VouchedFor ==
    ASSUME NEW c, NEW s \in SecurityConfigs, Exposed(c, s), Principal(c, s) # "nobody"
    PROVE  /\ Principal(c, s) # None
           /\ s.mode = "local_only" => c.peer = "loopback"
           /\ s.mode # "local_only" => c.origin \in {"absent", "listed"}
           /\ s.mode = "authenticated" =>
                \/ Principal(c, s) = "api-key" /\ c.bearer = "api-key"
                \/ Principal(c, s) = "proxy" /\ c.peer = "proxy" /\ c.identity = "named"
<1>1. s.mode \in {"local_only", "remote", "authenticated"}
  BY DEF SecurityConfigs
<1>2. Principal(c, s) \in {"local", "remote", "proxy", "api-key"}
  BY <1>1 DEF Principal, AuthenticatedPrincipal
<1>3. s.mode = "authenticated" =>
        \/ Principal(c, s) = "api-key" /\ c.bearer = "api-key"
        \/ Principal(c, s) = "proxy" /\ c.peer = "proxy" /\ c.identity = "named"
  BY DEF Principal, AuthenticatedPrincipal
<1>4. s.mode = "local_only" => c.peer = "loopback"
  BY DEF Exposed
<1>5. s.mode # "local_only" => c.origin \in {"absent", "listed"}
  BY DEF Exposed, OriginAllowed
<1> QED
  BY <1>2, <1>3, <1>4, <1>5, NoneAssumption

LEMMA AuthorizedWhere ==
    ASSUME CallerInv, BodyInv, LeaseInv
    PROVE  DispatchIsAuthorized
<1> SUFFICES ASSUME stage = "upstream"
             PROVE  DispatchIsAuthorized
  BY DEF DispatchIsAuthorized
<1>1. /\ caller.host = "listed" /\ security \in SecurityConfigs /\ Exposed(caller, security)
      /\ principal = Principal(caller, security) /\ principal # "nobody"
  BY DEF CallerInv, Judged
<1>2. caller.verb = "POST" => envelope \in Envelopes /\ Allows(endpoint.policy, envelope)
  BY RequestsAssumption DEF BodyInv, Admitted, Denied
<1>3. SameRuntime(published.endpoint, endpoint)
  BY DEF LeaseInv
<1> HIDE DEF SameRuntime
<1> QED
  BY <1>1, <1>2, <1>3, VouchedFor, AllowedNames DEF DispatchIsAuthorized

(* The era of a request that carries a modern sign, or none and a routing  *)
(* header that contradicts the body.                                       *)
LEMMA ModernWhere ==
    ASSUME BodyInv
    PROVE  ModernIsHonoured
<1> SUFFICES ASSUME stage = "upstream", caller.verb = "POST"
             PROVE  ModernIsHonoured
  BY DEF ModernIsHonoured
<1>1. /\ Valid(envelope, endpoint.optIn) /\ era = Era(envelope, endpoint.optIn)
      /\ Era(envelope, endpoint.optIn) = "modern" =>
            endpoint.transport = "streamable-http" /\ ~envelope.session
  BY DEF BodyInv, Admitted, Accepted
<1>2. ASSUME ModernEvidence(envelope)
      PROVE  /\ era = "modern" /\ ~envelope.session /\ endpoint.transport = "streamable-http"
             /\ envelope.version = "modern" /\ envelope.methodHeader = "same"
             /\ envelope.method \in NamedMethods => envelope.nameHeader = "same"
  <2>1. era = "modern"
    BY <1>1, <1>2 DEF Era
  <2>2. ModernValid(envelope)
    BY <1>1, <2>1 DEF Valid
  <2> QED
    BY <1>1, <2>1, <2>2 DEF ModernValid
<1>3. ASSUME ~ModernEvidence(envelope), "other" \in {envelope.methodHeader, envelope.nameHeader}
      PROVE  \/ LegacyEvidence(envelope)
             \/ endpoint.optIn /\ envelope.methodHeader = "same"
  <2> SUFFICES ASSUME ~LegacyEvidence(envelope), ~(endpoint.optIn /\ envelope.methodHeader = "same")
               PROVE  FALSE
    OBVIOUS
  <2>1. None # "other"
    BY NoneAssumption
  <2>2. Era(envelope, endpoint.optIn) = "modern"
    BY <1>3, <2>1 DEF Era
  <2>3. ModernValid(envelope)
    BY <1>1, <2>2 DEF Valid
  <2> QED
    BY <1>3, <2>3 DEF ModernValid, ModernEvidence
<1> QED
  BY <1>2, <1>3 DEF ModernIsHonoured

-----------------------------------------------------------------------------
(* The response on its way, and when its client was first seen to be gone. *)
InPart == {"started", "body-in-flight", "last-in-flight"}

SightInv ==
    /\ stage # "ended" =>
        /\ counted = 0
        /\ streamCut <=> noticedIn \in InPart
        /\ stage \in {"arriving"} \cup Judged => noticedIn = None /\ phase = "unsent"
        /\ phase \in Phases
        /\ noticedIn # None /\ ~reports => noticedIn = "unsent" /\ phase \in {"unsent", "start-in-flight"}
        /\ stage \in {"arriving"} \cup Judged \cup {"answering", "opening", "events", "text", "session"}
    /\ stage = "ended" =>
        /\ routed /\ noticedIn \in InPart => counted = 1
        /\ ~routed \/ noticedIn \notin InPart => counted = 0

LEMMA Absent == None \notin Phases /\ None \notin InPart
BY NoneAssumption DEF Phases, InPart

(* A record is right if what it counts was seen in part of the response. *)
LEMMA RecordsRight ==
    ASSUME NEW cut, Record(cut), stage # "ended", SightInv, UNCHANGED routed,
           cut <=> noticedIn' \in InPart
    PROVE  SightInv'
BY DEF Record, SightInv

LEMMA SightFirst == Init => SightInv
BY Absent DEF Init, SightInv, Phases

LEMMA SightKeeps ==
    ASSUME SightInv, Next
    PROVE  SightInv'
<1> USE Absent DEF SightInv, InPart, Phases, Judged, Answer, Respond, Record,
                   judgedVars, routeVars, replyVars, observeVars, Mark, Started, Complete,
                   Responding, Streaming, Relaying, InFlight
<1>1. ASSUME NEW c \in Clients, Refuse(c) \/ Unroutable(c) \/ Arrive(c)
      PROVE  SightInv'
  BY <1>1 DEF Refuse, Unroutable, Arrive
<1>2. ASSUME NEW e \in Requests, ReadBody(e) \/ RejectBody(e)
      PROVE  SightInv'
  BY <1>2 DEF ReadBody, RejectBody
<1>3. CASE ReadFails
  BY <1>3 DEF ReadFails
<1>4. CASE Limited \/ Admit \/ AnswerLocally \/ OpenSession \/ Dispatch \/ Unavailable
  BY <1>4 DEF Limited, Admit, AnswerLocally, OpenSession, Dispatch, Unavailable
<1>5. CASE AnswerBridged \/ UpstreamFails \/ AnswerJson \/ StreamEvents \/ StreamText
  <2>1. /\ stage = "upstream" /\ stage' \in {"answering", "events", "opening"}
        /\ UNCHANGED observeVars
    BY <1>5 DEF AnswerBridged, UpstreamFails, AnswerJson, StreamEvents, StreamText, Stream
  <2> QED
    BY <2>1
<1>6. CASE BeginText \/ SendEvent \/ SendQueued
  BY <1>6 DEF BeginText, SendEvent, SendQueued
<1>7. CASE SendText
  BY <1>7 DEF SendText
<1>8. CASE SendTail
  BY <1>8 DEF SendTail
<1>9. CASE BeginResponse
  BY <1>9 DEF BeginResponse
<1>10. CASE SendLast
  BY <1>10 DEF SendLast
<1>11. CASE Sent
  BY <1>11 DEF Sent
<1>12. CASE SendFails
  <2>1. /\ Record(streamCut') /\ UNCHANGED routed /\ stage \notin {"ended"}
        /\ phase \in InFlight /\ ~reports
        /\ streamCut' = (phase \in InPart \cup {"complete"})
        /\ noticedIn' = IF noticedIn = None THEN phase ELSE noticedIn
    BY <1>12 DEF SendFails
  <2>2. streamCut' <=> noticedIn' \in InPart
    BY <2>1
  <2> HIDE DEF SightInv, Record
  <2> QED
    BY <2>1, <2>2, RecordsRight
<1>13. CASE StreamBreaks \/ StreamCancelled \/ Finish \/ Cancel
  <2>1. Record(streamCut) /\ UNCHANGED <<routed, noticedIn>> /\ stage # "ended"
    BY <1>13 DEF StreamBreaks, StreamCancelled, Finish, Cancel
  <2>2. streamCut <=> noticedIn' \in InPart
    BY <2>1
  <2> HIDE DEF SightInv, Record
  <2> QED
    BY <2>1, <2>2, RecordsRight
<1>14. CASE Notice
  <2>1. /\ UNCHANGED <<stage, phase, counted, reports>> /\ reports
        /\ stage \in {"opening", "events", "text", "session"}
        /\ noticedIn = None /\ noticedIn' = phase
        /\ streamCut' = IF phase = "complete" THEN streamCut ELSE phase \in InPart
    BY <1>14 DEF Notice
  <2>2. streamCut' <=> noticedIn' \in InPart
    BY <2>1
  <2> QED
    BY <2>1, <2>2
<1>15. CASE ClientLeaves \/ Reload
  <2>1. UNCHANGED <<stage, phase, counted, reports, noticedIn, streamCut>> /\ stage # "ended"
    BY <1>15 DEF ClientLeaves, Reload
  <2> QED
    BY <2>1
<1>16. CASE NextExchange
  BY <1>16 DEF NextExchange
<1> QED
  BY <1>1, <1>2, <1>3, <1>4, <1>5, <1>6, <1>7, <1>8, <1>9, <1>10, <1>11, <1>12, <1>13, <1>14,
     <1>15, <1>16 DEF Next

-----------------------------------------------------------------------------
(* A streamed text. *)
StreamInv ==
    stage = "text" =>
        /\ text \in [secrets: Seq(Literal), received: Text, carry: Text, sent: Text, ended: BOOLEAN]
        /\ Streamed(text.received, text.carry, text.sent, text.secrets, text.ended)

LEMMA TextKept ==
    ASSUME Next
    PROVE  \/ stage' # "text"
           \/ stage = "text" /\ text' = text
           \/ BeginText \/ SendText \/ SendTail
<1> USE DEF Answer, Respond, Record, replyVars
<1>1. ASSUME NEW c \in Clients, Refuse(c) \/ Unroutable(c) \/ Arrive(c)
      PROVE  stage' # "text"
  BY <1>1 DEF Refuse, Unroutable, Arrive
<1>2. ASSUME NEW e \in Requests, ReadBody(e) \/ RejectBody(e)
      PROVE  stage' # "text"
  BY <1>2 DEF ReadBody, RejectBody
<1>3. CASE ReadFails \/ Limited \/ Admit \/ AnswerLocally \/ OpenSession \/ Dispatch \/ Unavailable
  BY <1>3 DEF ReadFails, Limited, Admit, AnswerLocally, OpenSession, Dispatch, Unavailable
<1>4. CASE AnswerBridged \/ UpstreamFails \/ AnswerJson \/ StreamEvents \/ StreamText
  BY <1>4 DEF AnswerBridged, UpstreamFails, AnswerJson, StreamEvents, StreamText, Stream
<1>5. CASE SendEvent \/ SendQueued \/ BeginResponse \/ SendLast \/ Sent
  BY <1>5 DEF SendEvent, SendQueued, BeginResponse, SendLast, Sent
<1>6. CASE SendFails \/ StreamBreaks \/ Notice \/ StreamCancelled \/ Finish \/ Cancel
  BY <1>6 DEF SendFails, StreamBreaks, Notice, StreamCancelled, Finish, Cancel
<1>7. CASE ClientLeaves \/ Reload \/ NextExchange
  BY <1>7 DEF ClientLeaves, Reload, NextExchange
<1> QED
  BY <1>1, <1>2, <1>3, <1>4, <1>5, <1>6, <1>7 DEF Next

LEMMA StreamKeeps ==
    ASSUME CallerInv, StreamInv, Next
    PROVE  StreamInv'
<1> SUFFICES ASSUME stage' = "text"
             PROVE  /\ text' \in [secrets: Seq(Literal), received: Text, carry: Text, sent: Text,
                                  ended: BOOLEAN]
                    /\ Streamed(text'.received, text'.carry, text'.sent, text'.secrets, text'.ended)
  BY DEF StreamInv
<1>1. CASE stage = "text" /\ text' = text
  BY <1>1 DEF StreamInv
<1>2. CASE BeginText
  <2>1. published.secrets \in Seq(Literal)
    BY ConfigsAssumption DEF CallerInv, Literal
  <2>2. text' = [NoText EXCEPT !.secrets = published.secrets]
    BY <1>2 DEF BeginText
  <2>3. /\ text' = [secrets |-> published.secrets, received |-> <<>>, carry |-> <<>>,
                    sent |-> <<>>, ended |-> FALSE]
    BY <2>2 DEF NoText
  <2>4. Streamed(<<>>, <<>>, <<>>, published.secrets, FALSE)
    BY <2>1, StreamBegins
  <2>5. <<>> \in Text
    BY EmptySeq DEF Text
  <2> QED
    BY <2>1, <2>3, <2>4, <2>5
<1>3. CASE SendText
  <2>1. stage = "text" /\ text.ended = FALSE
    BY <1>3 DEF SendText, StreamInv
  <2>2. /\ text \in [secrets: Seq(Literal), received: Text, carry: Text, sent: Text, ended: BOOLEAN]
        /\ Streamed(text.received, text.carry, text.sent, text.secrets, FALSE)
    BY <2>1 DEF StreamInv
  <2>3. PICK n \in 1..(MaxText - Len(text.received)) : \E chunk \in [1..n -> Symbols] :
          text' = [text EXCEPT
            !.received = @ \o chunk,
            !.carry = Kept(text.carry \o chunk, text.secrets),
            !.sent = @ \o Redact(Sendable(text.carry \o chunk, text.secrets), text.secrets)]
    BY <1>3 DEF SendText
  <2>4. PICK chunk \in [1..n -> Symbols] :
          text' = [text EXCEPT
            !.received = @ \o chunk,
            !.carry = Kept(text.carry \o chunk, text.secrets),
            !.sent = @ \o Redact(Sendable(text.carry \o chunk, text.secrets), text.secrets)]
    BY <2>3
  <2>5. chunk \in Seq(Symbols)
    BY SeqDef
  <2> DEFINE received == text.received \o chunk
             carry == Kept(text.carry \o chunk, text.secrets)
             sent == text.sent \o Redact(Sendable(text.carry \o chunk, text.secrets), text.secrets)
  <2>6. Streamed(received, carry, sent, text.secrets, FALSE)
    BY <2>2, <2>5, ChunkStreamed
  <2>7. text' = [text EXCEPT !.received = received, !.carry = carry, !.sent = sent]
    BY <2>4
  <2> HIDE DEF received, carry, sent
  <2>8. received \in Text /\ carry \in Text /\ sent \in Text
    BY <2>6 DEF Streamed
  <2>9. /\ text' \in [secrets: Seq(Literal), received: Text, carry: Text, sent: Text, ended: BOOLEAN]
        /\ text'.received = received /\ text'.carry = carry /\ text'.sent = sent
        /\ text'.secrets = text.secrets /\ text'.ended = FALSE
    BY <2>1, <2>2, <2>7, <2>8
  <2> QED
    BY <2>6, <2>9
<1>4. CASE SendTail
  <2>1. stage = "text"
    BY <1>4 DEF SendTail
  <2>2. /\ text \in [secrets: Seq(Literal), received: Text, carry: Text, sent: Text, ended: BOOLEAN]
        /\ Streamed(text.received, text.carry, text.sent, text.secrets, text.ended)
    BY <2>1 DEF StreamInv
  <2> DEFINE sent == text.sent \o Redact(text.carry, text.secrets)
  <2>3. text' = [text EXCEPT !.sent = sent, !.carry = <<>>, !.ended = TRUE]
    BY <1>4 DEF SendTail
  <2>4. Streamed(text.received, <<>>, sent, text.secrets, TRUE)
    BY <2>2, TailStreamed
  <2> HIDE DEF sent
  <2>5. <<>> \in Text /\ sent \in Text
    BY <2>4 DEF Streamed
  <2>6. /\ text' \in [secrets: Seq(Literal), received: Text, carry: Text, sent: Text, ended: BOOLEAN]
        /\ text'.received = text.received /\ text'.carry = <<>> /\ text'.sent = sent
        /\ text'.secrets = text.secrets /\ text'.ended = TRUE
    BY <2>2, <2>3, <2>5
  <2> QED
    BY <2>4, <2>6
<1> QED
  BY <1>1, <1>2, <1>3, <1>4, TextKept

-----------------------------------------------------------------------------
(* The listings. *)
EventInv == Relaying => SameRuntime(published.endpoint, endpoint)

LEMMA EventKeeps ==
    ASSUME LeaseInv, EventInv, Next
    PROVE  EventInv'
<1> USE DEF EventInv, LeaseInv, Relaying, Streaming, Answer, Respond, Record, routeVars, judgedVars
<1>1. ASSUME NEW c \in Clients, Refuse(c) \/ Unroutable(c) \/ Arrive(c)
      PROVE  EventInv'
  BY <1>1 DEF Refuse, Unroutable, Arrive
<1>2. ASSUME NEW e \in Requests, ReadBody(e) \/ RejectBody(e)
      PROVE  EventInv'
  BY <1>2 DEF ReadBody, RejectBody
<1>3. CASE ReadFails \/ Limited \/ Admit \/ AnswerLocally \/ OpenSession \/ Dispatch \/ Unavailable
  BY <1>3 DEF ReadFails, Limited, Admit, AnswerLocally, OpenSession, Dispatch, Unavailable
<1>4. CASE AnswerBridged \/ UpstreamFails \/ AnswerJson
  BY <1>4 DEF AnswerBridged, UpstreamFails, AnswerJson
<1>5. CASE StreamEvents \/ StreamText \/ BeginText
  BY <1>5 DEF StreamEvents, StreamText, Stream, BeginText
<1>6. CASE SendEvent \/ SendQueued \/ SendText \/ SendTail \/ BeginResponse \/ SendLast \/ Sent
  BY <1>6 DEF SendEvent, SendQueued, SendText, SendTail, BeginResponse, SendLast, Sent
<1>7. CASE SendFails \/ StreamBreaks \/ Notice \/ StreamCancelled \/ Finish \/ Cancel
  BY <1>7 DEF SendFails, StreamBreaks, Notice, StreamCancelled, Finish, Cancel
<1>8. CASE ClientLeaves \/ Reload \/ NextExchange
  BY <1>8 DEF ClientLeaves, Reload, NextExchange
<1> QED
  BY <1>1, <1>2, <1>3, <1>4, <1>5, <1>6, <1>7, <1>8 DEF Next

LEMMA ListingKept ==
    ASSUME Next
    PROVE  listing' = listing \/ listing' = None \/ AnswerJson \/ SendEvent
<1> USE DEF Answer, Respond, Record, replyVars
<1>1. ASSUME NEW c \in Clients, Refuse(c) \/ Unroutable(c) \/ Arrive(c)
      PROVE  listing' = listing
  BY <1>1 DEF Refuse, Unroutable, Arrive
<1>2. ASSUME NEW e \in Requests, ReadBody(e) \/ RejectBody(e)
      PROVE  listing' = listing
  BY <1>2 DEF ReadBody, RejectBody
<1>3. CASE ReadFails \/ Limited \/ Admit \/ AnswerLocally \/ OpenSession \/ Dispatch \/ Unavailable
  BY <1>3 DEF ReadFails, Limited, Admit, AnswerLocally, OpenSession, Dispatch, Unavailable
<1>4. CASE AnswerBridged \/ UpstreamFails \/ StreamEvents \/ StreamText \/ BeginText
  BY <1>4 DEF AnswerBridged, UpstreamFails, StreamEvents, StreamText, Stream, BeginText
<1>5. CASE SendQueued \/ SendText \/ SendTail \/ BeginResponse \/ SendLast \/ Sent
  BY <1>5 DEF SendQueued, SendText, SendTail, BeginResponse, SendLast, Sent
<1>6. CASE SendFails \/ StreamBreaks \/ Notice \/ StreamCancelled \/ Finish \/ Cancel
  BY <1>6 DEF SendFails, StreamBreaks, Notice, StreamCancelled, Finish, Cancel
<1>7. CASE ClientLeaves \/ Reload \/ NextExchange
  BY <1>7 DEF ClientLeaves, Reload, NextExchange
<1> QED
  BY <1>1, <1>2, <1>3, <1>4, <1>5, <1>6, <1>7 DEF Next

(* What a client may call of the entries of a listing. *)
Callable(policy, l) == {n \in l.entries : Authorizes(policy, ListedBy[l.capability], n)}

LEMMA EventIsListing ==
    ASSUME NEW l \in Listings, NEW frame \in Frames, NEW policy, NEW lines, NEW data, NEW shown,
           lines = [i \in DOMAIN frame |-> <<frame[i], i>>],
           shown = Callable(policy, l),
           data = IF shown = l.entries THEN DataOf(lines) ELSE ProjectedData
    PROVE  LET event == [by |-> "event", listing |-> l, shown |-> shown, lines |-> lines,
                         sent |-> TransformEvent(lines, data)]
           IN /\ OtherOf(event.sent) = OtherOf(event.lines)
              /\ DataOf(event.lines) # <<>> => Read(event) = Callable(policy, l)
<1> DEFINE T == {"data", "other"} \X (Nat \ {0})
           sent == TransformEvent(lines, data)
           event == [by |-> "event", listing |-> l, shown |-> shown, lines |-> lines, sent |-> sent]
<1>1. lines \in Seq(T) /\ T \in SUBSET Line
  <2>1. PICK n \in 1..MaxLines : frame \in [1..n -> {"data", "other"}]
    BY DEF Frames
  <2>2. lines \in [1..n -> T]
    BY <2>1
  <2>3. n \in Nat
    BY <2>1
  <2> HIDE DEF T
  <2>4. lines \in Seq(T)
    BY <2>2, <2>3, SeqDef
  <2> QED
    BY <2>4 DEF T, Line
<1>2. lines \in Seq(Line)
  BY <1>1, SeqMonotonic
<1>3. DataOf(lines) # ProjectedData
  <2>1. LinesOf(lines, "data") \in Seq(T)
    <3> HIDE DEF T
    <3> QED
      BY <1>1, LinesOfWithin
  <2>2. Len(ProjectedData) = 1 /\ ProjectedData[1] = <<"data", 0>>
    BY DEF ProjectedData
  <2>3. <<"data", 0>> \notin T
    OBVIOUS
  <2> SUFFICES ASSUME ProjectedData \in Seq(T) PROVE FALSE
    BY <2>1 DEF DataOf
  <2>4. ProjectedData[1] \in T
    <3> HIDE DEF T
    <3> QED
      BY <2>2, ElementOfSeq
  <2> QED
    BY <2>2, <2>3, <2>4
<1> HIDE DEF sent
<1>4. CASE shown = l.entries
  <2>1. sent = lines
    BY <1>4 DEF sent, TransformEvent
  <2> QED
    BY <1>3, <1>4, <2>1 DEF Read, sent
<1>5. CASE shown # l.entries
  <2>1. data = ProjectedData
    BY <1>5
  <2>2. ProjectedData \in Seq(DataLine)
    <3>1. <<"data", 0>> \in DataLine
      BY DEF DataLine
    <3> QED
      BY <3>1 DEF ProjectedData
  <2>3. OtherOf(sent) = OtherOf(lines) /\ (DataOf(lines) # <<>> => DataOf(sent) = ProjectedData)
    BY <1>2, <2>1, <2>2, TransformIs DEF sent
  <2> QED
    BY <1>3, <2>3 DEF Read, sent
<1> QED
  BY <1>4, <1>5

-----------------------------------------------------------------------------
ExchangeInv == CallerInv /\ BodyInv /\ LeaseInv /\ SightInv /\ StreamInv /\ EventInv

LEMMA StreamFirst == Init => StreamInv /\ EventInv
BY DEF Init, StreamInv, EventInv, Relaying

LEMMA StutterKeeps == ExchangeInv /\ UNCHANGED vars => ExchangeInv'
<1> SUFFICES ASSUME ExchangeInv, UNCHANGED vars
             PROVE  ExchangeInv'
  OBVIOUS
<1> USE DEF ExchangeInv, vars, routeVars, judgedVars, replyVars, observeVars
<1>1. CallerInv' /\ LeaseInv'
  BY DEF CallerInv, LeaseInv
<1>2. BodyInv'
  BY DEF BodyInv, Accepted, Denied
<1>3. SightInv'
  BY DEF SightInv
<1>4. StreamInv'
  BY DEF StreamInv
<1>5. EventInv'
  BY DEF EventInv, Relaying
<1> QED
  BY <1>1, <1>2, <1>3, <1>4, <1>5

LEMMA ExchangeInvariant == Spec => []ExchangeInv
<1>1. Init => ExchangeInv
  BY JudgedFirst, SightFirst, StreamFirst DEF ExchangeInv
<1>2. ExchangeInv /\ [Next]_vars => ExchangeInv'
  BY JudgedKeeps, SightKeeps, StreamKeeps, EventKeeps, StutterKeeps DEF ExchangeInv
<1> QED
  BY <1>1, <1>2, PTL DEF Spec

(* What _proxy_request sends upstream was let through by one snapshot's    *)
(* security checks and one endpoint's policy, name by name, and the lease  *)
(* is on the runtime in force, whatever was reloaded at its awaits.        *)
THEOREM OnlyAuthorized == Spec => []DispatchIsAuthorized
<1>1. ExchangeInv => DispatchIsAuthorized
  BY AuthorizedWhere DEF ExchangeInv
<1> QED
  BY <1>1, ExchangeInvariant, PTL

(* classify_protocol_era and validate_protocol_request let no request with *)
(* a modern sign upstream as a legacy one, or with headers that contradict *)
(* its body.                                                               *)
THEOREM ModernHonoured == Spec => []ModernIsHonoured
<1>1. ExchangeInv => ModernIsHonoured
  BY ModernWhere DEF ExchangeInv
<1> QED
  BY <1>1, ExchangeInvariant, PTL

(* GatewayObservabilityMiddleware counts a stream cancellation once, for a *)
(* client first seen to be gone in the middle of its response: in every    *)
(* order of sends, disconnects, breaks and cancellation.                   *)
THEOREM CountedOnce == Spec => []CancellationsCountedOnce
<1>1. ExchangeInv => CancellationsCountedOnce
  BY Zenon DEF ExchangeInv, SightInv, InPart, CancellationsCountedOnce
<1> QED
  BY <1>1, ExchangeInvariant, PTL

(* However the upstream cuts a text into chunks, whatever the secrets and  *)
(* however they overlap, the client gets the redaction of the whole text   *)
(* (StreamingSecretRedactor), and nothing is held back that was certain.   *)
THEOREM StreamRedacted == Spec => []StreamIsRedacted
<1>1. ExchangeInv => StreamIsRedacted
  BY StreamedIs DEF ExchangeInv, StreamInv, StreamIsRedacted
<1> QED
  BY <1>1, ExchangeInvariant, PTL

(* No secret of the configuration the stream began with reaches the client *)
(* whole: not across chunks, and not by the replacement of another secret. *)
THEOREM SecretsKept == Spec => []NoSecretIsSent
<1>1. ASSUME StreamInv, stage = "text", NEW j \in DOMAIN text.secrets, NEW i \in DOMAIN text.sent
      PROVE  ~OccursAt(text.sent, text.secrets[j], i)
  <2>1. /\ text.secrets \in Seq(Literal)
        /\ Streamed(text.received, text.carry, text.sent, text.secrets, text.ended)
    BY <1>1 DEF StreamInv
  <2>2. PICK p \in Text : text.sent = Redact(p, text.secrets)
    BY <2>1 DEF Streamed, Splits
  <2>3. Free(text.sent, text.secrets[j])
    BY <1>1, <2>1, <2>2, RedactFrees
  <2>4. i \in 1..Len(text.sent)
    BY <1>1, <2>1 DEF Streamed, Text
  <2> QED
    BY <2>3, <2>4 DEF Free
<1>2. ExchangeInv => NoSecretIsSent
  BY <1>1 DEF ExchangeInv, NoSecretIsSent
<1> QED
  BY <1>2, ExchangeInvariant, PTL

(* Every entry of a listing in the answer to a request is one the client   *)
(* may call, and none that it may call is withheld: for a body by the      *)
(* policy its request was judged by, for an event that _proxy_request or   *)
(* sse_proxy_generator streams by the policy in force when it is sent,     *)
(* however many lines its data takes and whatever other lines lie between. *)
(* What a session of the bridge is sent is not among these.                *)
THEOREM ListingsMatch == Spec => ListingsMatchCalls
<1> DEFINE Step ==
      listing' # listing /\ listing' # None =>
        LET l      == listing'
            policy == IF l.by = "body" THEN endpoint.policy ELSE published.endpoint.policy
        IN /\ l.by = "event" => OtherOf(l.sent) = OtherOf(l.lines)
           /\ (l.by = "event" => DataOf(l.lines) # <<>>) =>
                 Read(l) = {n \in l.listing.entries :
                             Authorizes(policy, ListedBy[l.listing.capability], n)}
<1>1. ASSUME ExchangeInv, [Next]_vars
      PROVE  Step
  <2>1. CASE AnswerJson
    <3>1. PICK l \in Listings :
            listing' = [by |-> "body", listing |-> l,
                        shown |-> Project(endpoint.policy, l.capability, l.entries)]
      BY <2>1 DEF AnswerJson
    <3>2. /\ listing'.by = "body" /\ listing'.listing = l
          /\ listing'.shown = Project(endpoint.policy, l.capability, l.entries)
      BY <3>1
    <3>3. Read(listing') = listing'.shown
      BY <3>2 DEF Read
    <3> QED
      BY <3>2, <3>3 DEF Project
  <2>2. CASE SendEvent
    <3>1. CurrentPolicy = published.endpoint.policy
      BY <1>1, <2>2 DEF ExchangeInv, EventInv, Relaying, SendEvent, SameRuntime, CurrentPolicy
    <3>2. PICK l \in Listings, frame \in Frames :
            LET lines == [i \in DOMAIN frame |-> <<frame[i], i>>]
                shown == Project(CurrentPolicy, l.capability, l.entries)
                data  == IF shown = l.entries THEN DataOf(lines) ELSE ProjectedData
            IN listing' = [by |-> "event", listing |-> l, shown |-> shown,
                           lines |-> lines, sent |-> TransformEvent(lines, data)]
      BY <2>2 DEF SendEvent
    <3> DEFINE policy == published.endpoint.policy
               lines == [i \in DOMAIN frame |-> <<frame[i], i>>]
               shown == Callable(policy, l)
               data == IF shown = l.entries THEN DataOf(lines) ELSE ProjectedData
               event == [by |-> "event", listing |-> l, shown |-> shown,
                         lines |-> lines, sent |-> TransformEvent(lines, data)]
    <3>3. listing' = event
      BY <3>1, <3>2 DEF Project, Callable
    <3>4. /\ OtherOf(event.sent) = OtherOf(event.lines)
          /\ DataOf(event.lines) # <<>> => Read(event) = Callable(policy, l)
      <4> HIDE DEF lines, shown, policy
      <4>1. lines = [i \in DOMAIN frame |-> <<frame[i], i>>] /\ shown = Callable(policy, l)
        BY DEF lines, shown
      <4> QED
        BY <4>1, EventIsListing
    <3>5. event.by = "event" /\ event.listing = l
      OBVIOUS
    <3> HIDE DEF event
    <3> QED
      BY <3>3, <3>4, <3>5 DEF Callable
  <2>3. CASE UNCHANGED vars
    BY <2>3 DEF vars, replyVars
  <2> QED
    BY <1>1, <2>1, <2>2, <2>3, ListingKept
<1> QED
  BY <1>1, ExchangeInvariant, PTL DEF Spec, ListingsMatchCalls
=============================================================================
