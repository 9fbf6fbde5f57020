---------------------------- MODULE GatewayRequest ----------------------------
(***************************************************************************)
(* The life of a request in server.py, from its admission by the limiter   *)
(* to the end of its response: catch_all_proxy, _proxy_request,            *)
(* sse_proxy_generator, _retry_upstream_once and _finish_leased_response,  *)
(* for one endpoint that a reload may retire.                              *)
(*                                                                         *)
(* pc[r] is the await request r is suspended at.  Until it returns, the    *)
(* handler owns the limiter's lease and the runtime's; a streaming         *)
(* response hands both to its iterator, which the ASGI server runs after   *)
(* the handler has returned.  What the limiter and the runtime decide is   *)
(* in RequestLimiter and EndpointRuntime, POSTs to the bridge are in       *)
(* LegacyBridge.                                                           *)
(***************************************************************************)
EXTENDS Naturals

CONSTANTS
    Requests,
    Environment  \* the optional events this instance includes, see Events

Events == {"retire", "cancel", "unstarted"}

ASSUME RequestEvents == Environment \subseteq Events

VARIABLES
    req,      \* the locals of each request's handler
    pc,       \* the await it is suspended at
    runtime   \* the captured endpoint: "up", "draining" or "retired"

vars == <<req, pc, runtime>>

-----------------------------------------------------------------------------
Labels == {"idle", "acquire", "connect", "body", "bodyClosing", "retry",
           "respond", "join", "stream", "dropped", "closing", "lost"}

(* What the request turns into: buffered or streamed by _proxy_request, a  *)
(* GET that sse_proxy_generator streams, or a session of the bridge.       *)
Kinds == {"proxied", "get", "local"}

Bodies == {"none", "valid", "malformed", "truncated", "failed", "cancelled"}

(* limit and lease are held; conn is the open response or one-shot client; *)
(* bad is a status of 500 or more; errors is how often the request called  *)
(* record_upstream_error; failed is a ghost, set where the upstream fails  *)
(* this request, whether or not that is counted then.                      *)
Record == [kind : Kinds, limit : BOOLEAN, lease : BOOLEAN,
           conn : {"none", "pooled", "one-shot"}, bad : BOOLEAN, body : Bodies,
           errors : Nat, failed : BOOLEAN]

Fresh == [kind |-> "proxied", limit |-> FALSE, lease |-> FALSE, conn |-> "none",
          bad |-> FALSE, body |-> "none", errors |-> 0, failed |-> FALSE]

Goto(r, label) == pc' = [pc EXCEPT ![r] = label]

Become(r, record) == req' = [req EXCEPT ![r] = record]

Released(q) == [q EXCEPT !.limit = FALSE, !.lease = FALSE]

(* The upstream fails the request: what the code is to notice. *)
Broken(q) == [q EXCEPT !.failed = TRUE]

(* record_upstream_error *)
Counted(q) == [q EXCEPT !.errors = @ + 1]

(* A failure of a response: an error status has been counted already. *)
Failed(q) == IF q.bad THEN q ELSE Counted(q)

(* The response's headers: q has entered the upstream context. *)
Opened(q, bad) ==
    LET entered == [q EXCEPT !.conn = "pooled", !.bad = bad, !.failed = bad] IN
    IF bad THEN Counted(entered) ELSE entered

Closed(q) == [q EXCEPT !.conn = "none"]

-----------------------------------------------------------------------------
(* Admission. *)

(* The limiter has admitted the request. *)
Admit(r) ==
    /\ pc[r] = "idle"
    /\ \E kind \in {"proxied", "get"} :
        Become(r, [Fresh EXCEPT !.kind = kind, !.limit = TRUE])
    /\ Goto(r, "acquire")
    /\ UNCHANGED runtime

(* A session of the bridge holds no lease of the runtime. *)
OpenLocal(r) ==
    /\ pc[r] = "idle"
    /\ runtime = "up"
    /\ Become(r, [Fresh EXCEPT !.kind = "local", !.limit = TRUE])
    /\ Goto(r, "respond")
    /\ UNCHANGED runtime

(* Mutant: the limiter's lease is left to the caller, which has none. *)
AcquireFailsQuietly(r) ==
    /\ pc[r] = "acquire"
    /\ Goto(r, "idle")
    /\ UNCHANGED <<req, runtime>>

(* The endpoint is draining or cannot be started, or the request is        *)
(* cancelled during the start.                                             *)
AcquireFails(r) ==
    /\ pc[r] = "acquire"
    /\ Become(r, Released(req[r]))
    /\ Goto(r, "idle")
    /\ UNCHANGED runtime

(* Mutant: a drained runtime still grants leases. *)
AcquireAnyway(r) ==
    /\ pc[r] = "acquire"
    /\ Become(r, [req[r] EXCEPT !.lease = TRUE])
    /\ Goto(r, IF req[r].kind = "get" THEN "respond" ELSE "connect")
    /\ UNCHANGED runtime

Acquire(r) ==
    /\ pc[r] = "acquire"
    /\ runtime = "up"
    /\ Become(r, [req[r] EXCEPT !.lease = TRUE])
    /\ Goto(r, IF req[r].kind = "get" THEN "respond" ELSE "connect")
    /\ UNCHANGED runtime

-----------------------------------------------------------------------------
(* _proxy_request *)

(* The response is JSON, which is read here, or is streamed. *)
Connected(r) ==
    /\ pc[r] = "connect"
    /\ \E bad \in BOOLEAN : Become(r, Opened(req[r], bad))
    /\ \E label \in {"body", "respond"} : Goto(r, label)
    /\ UNCHANGED runtime

(* 502 *)
ConnectFails(r) ==
    /\ pc[r] = "connect"
    /\ Become(r, Released(Counted(Broken(req[r]))))
    /\ Goto(r, "idle")
    /\ UNCHANGED runtime

(* The body is read or its reading fails, and the context is left.  What   *)
(* is wrong with a body that was read is only seen afterwards.             *)
BodyRead(r) ==
    /\ pc[r] = "body"
    /\ \E body \in Bodies \ {"none", "cancelled"} :
        LET q == Closed([req[r] EXCEPT !.body = body, !.failed = @ \/ body # "valid"]) IN
        Become(r, IF body = "failed" THEN Failed(q) ELSE q)
    /\ Goto(r, "bodyClosing")
    /\ UNCHANGED runtime

(* Mutant: a body that is not JSON is answered with 502 and not counted. *)
BodyAnsweredUncounted(r) ==
    /\ pc[r] = "bodyClosing"
    /\ req[r].body # "truncated"
    /\ Become(r, Released(req[r]))
    /\ Goto(r, "idle")
    /\ UNCHANGED runtime

(* Answered, with the body or with 502 or 504. *)
BodyAnswered(r) ==
    /\ pc[r] = "bodyClosing"
    /\ req[r].body # "truncated"
    /\ Become(r, Released(IF req[r].body = "malformed" THEN Failed(req[r]) ELSE req[r]))
    /\ Goto(r, "idle")
    /\ UNCHANGED runtime

(* Mutant: the leases are given back before the request is sent again. *)
BodyRetriedUnleased(r) ==
    /\ pc[r] = "bodyClosing"
    /\ req[r].body = "truncated"
    /\ Become(r, Released([Failed(req[r]) EXCEPT !.conn = "one-shot"]))
    /\ Goto(r, "retry")
    /\ UNCHANGED runtime

(* The request is sent again, on a connection of its own. *)
BodyRetried(r) ==
    /\ pc[r] = "bodyClosing"
    /\ req[r].body = "truncated"
    /\ Become(r, [Failed(req[r]) EXCEPT !.conn = "one-shot"])
    /\ Goto(r, "retry")
    /\ UNCHANGED runtime

(* Recovered or 502. *)
RetryEnds(r) ==
    /\ pc[r] = "retry"
    /\ Become(r, Released(Closed(req[r])))
    /\ Goto(r, "idle")
    /\ UNCHANGED runtime

(* A cancelled handler leaves the context it has entered first.  A body it *)
(* has read is not looked at any more.                                     *)
Cancel(r) ==
    /\ "cancel" \in Environment
    /\ \/ /\ pc[r] = "body"
          /\ Become(r, Closed([req[r] EXCEPT !.body = "cancelled"]))
          /\ Goto(r, "bodyClosing")
       \/ /\ pc[r] \in {"connect", "bodyClosing", "retry"}
          /\ Become(r, Released(Closed([req[r] EXCEPT !.body = "cancelled"])))
          /\ Goto(r, "idle")
    /\ UNCHANGED runtime

-----------------------------------------------------------------------------
(* Streaming responses: leased_iterator around the response's iterator. *)

StreamStarts(r) ==
    /\ pc[r] = "respond"
    /\ Goto(r, IF req[r].kind = "get" THEN "join" ELSE "stream")
    /\ UNCHANGED <<req, runtime>>

(* The response ends before its iterator begins: no code of it ever runs. *)
NeverStarts(r) ==
    /\ "unstarted" \in Environment
    /\ pc[r] = "respond"
    /\ Goto(r, "lost")
    /\ UNCHANGED <<req, runtime>>

(* sse_proxy_generator enters the context in its first step. *)
Joined(r) ==
    /\ pc[r] = "join"
    /\ \E bad \in BOOLEAN : Become(r, Opened(req[r], bad))
    /\ Goto(r, "stream")
    /\ UNCHANGED runtime

JoinFails(r) ==
    /\ pc[r] = "join"
    /\ Become(r, Counted(Broken(req[r])))
    /\ Goto(r, "closing")
    /\ UNCHANGED runtime

StreamFails(r) ==
    /\ pc[r] = "stream"
    /\ req[r].kind # "local"
    /\ Become(r, Closed(Failed(Broken(req[r]))))
    /\ Goto(r, "closing")
    /\ UNCHANGED runtime

(* The client goes away while it is sent an event: the iterator is         *)
(* suspended at its yield, and the loop finalizes it later.                *)
StreamDropped(r) ==
    /\ pc[r] = "stream"
    /\ Goto(r, "dropped")
    /\ UNCHANGED <<req, runtime>>

(* The stream is over, or cancelled, or finalized: the context is left. *)
StreamEnds(r) ==
    /\ pc[r] \in {"join", "stream", "dropped"}
    /\ Become(r, Closed(req[r]))
    /\ Goto(r, "closing")
    /\ UNCHANGED runtime

(* Whether or not the context could be closed, the leases go. *)
StreamReleases(r) ==
    /\ pc[r] = "closing"
    /\ Become(r, Released(req[r]))
    /\ Goto(r, "idle")
    /\ UNCHANGED runtime

-----------------------------------------------------------------------------
(* Retirement: drain_and_stop. *)

Drain ==
    /\ "retire" \in Environment
    /\ runtime = "up"
    /\ runtime' = "draining"
    /\ UNCHANGED <<req, pc>>

(* wait_for_leases *)
Retired ==
    /\ runtime = "draining"
    /\ \A r \in Requests : ~req[r].lease
    /\ runtime' = "retired"
    /\ UNCHANGED <<req, pc>>

-----------------------------------------------------------------------------
(* No identity is left for another request. *)
Exhausted == (\A r \in Requests : pc[r] = "lost") /\ UNCHANGED vars

Init ==
    /\ req = [r \in Requests |-> Fresh]
    /\ pc = [r \in Requests |-> "idle"]
    /\ runtime = "up"

Handler(r) ==
    \/ Admit(r) \/ OpenLocal(r) \/ AcquireFails(r) \/ Acquire(r)
    \/ Connected(r) \/ ConnectFails(r) \/ BodyRead(r) \/ BodyAnswered(r)
    \/ BodyRetried(r) \/ RetryEnds(r) \/ Cancel(r)

Response(r) ==
    \/ StreamStarts(r) \/ NeverStarts(r) \/ Joined(r) \/ JoinFails(r)
    \/ StreamFails(r) \/ StreamDropped(r) \/ StreamEnds(r) \/ StreamReleases(r)

Next ==
    \/ \E r \in Requests : Handler(r) \/ Response(r)
    \/ Drain \/ Retired
    \/ Exhausted

Spec == Init /\ [][Next]_vars

-----------------------------------------------------------------------------
(* Properties. *)

TypeOK ==
    /\ req \in [Requests -> Record]
    /\ pc \in [Requests -> Labels]
    /\ runtime \in {"up", "draining", "retired"}

(* Whoever holds a lease will give it back: each way out of the handler    *)
(* and of the response's iterator, failures and cancellations included,    *)
(* releases both leases.                                                   *)
LeasesHaveOwners == \A r \in Requests : req[r].limit \/ req[r].lease => pc[r] # "idle"

(* A proxied response whose iterator never begins gives back both leases   *)
(* and closes the upstream response it holds: what the code does not       *)
(* achieve.                                                                *)
UnstartedReleases ==
    \A r \in Requests :
        pc[r] = "lost" /\ req[r].kind = "proxied" =>
            ~req[r].limit /\ ~req[r].lease /\ req[r].conn = "none"

(* The upstream is only talked to under both leases: while the headers are *)
(* awaited, while a response is open and while it is asked a second time.  *)
UpstreamUnderLease ==
    \A r \in Requests :
        req[r].conn # "none" \/ pc[r] \in {"connect", "join", "retry"} =>
            req[r].limit /\ req[r].lease

(* Nobody talks to an endpoint, or is about to, once it is retired,        *)
(* although requests looked it up before and the leases are taken without  *)
(* the lock under which it was drained.                                    *)
RetiredIsQuiet ==
    runtime = "retired" =>
        \A r \in Requests :
            /\ req[r].conn = "none"
            /\ pc[r] \in {"idle", "acquire"} \/ req[r].kind = "local"

(* A request that its upstream fails, in one way or in several one after   *)
(* the other, is counted, and once; one that is only cancelled is not.  A  *)
(* body that has been read but not looked at yet is not counted so far,    *)
(* and one never looked at, because the handler was cancelled, need not be.*)
FailuresCountedOnce ==
    \A r \in Requests : LET q == req[r] IN
        /\ q.errors <= 1
        /\ q.errors = 1 => q.failed
        /\ q.failed /\ pc[r] # "bodyClosing" /\ q.body # "cancelled" => q.errors = 1
=============================================================================
